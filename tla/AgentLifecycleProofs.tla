------------------------ MODULE AgentLifecycleProofs ------------------------
(* The life of one agent, for any number of sockets, clients, cycle tasks  *)
(* and requests: the line for its lock, what may still happen to a frozen  *)
(* mind, what a barrier may rely on, and that no mortal lives on nothing.  *)
EXTENDS AgentLifecycle, FiniteSetTheorems, FunctionTheorems, TLAPS

(* Who is in line, and what the lock's owner is doing.                     *)
Elems(q) == {q[i] : i \in 1..Len(q)}
Distinct(q) == \A i, j \in 1..Len(q) : q[i] = q[j] => i = j

QueueOK ==
    /\ Distinct(waiters)
    /\ Elems(waiters) \subseteq TaskNames
    /\ \A c \in CycleIds : CycleOf(c) \in Elems(waiters) <=> cycle[c] = "lock"
    /\ \A k \in Clients : ClientOf(k) \in Elems(waiters) <=> client[k] = "lock"
    /\ \A s \in Sockets : SocketOf(s) \in Elems(waiters) <=> socket[s] = "lock"
    /\ Metabolism \in Elems(waiters) <=> metabolic = "lock"
    /\ Consolidator \in Elems(waiters) <=> sync = "lock"

HolderOK ==
    /\ holder \in {Free, Consolidator} \cup {CycleOf(c) : c \in CycleIds}
    /\ holder = Consolidator <=> sync = "syncing"
    /\ \A c \in CycleIds : holder = CycleOf(c) <=> cycle[c] = "observing"

(* What a request holds between its awaits, and a stop() between its.      *)
RequestsOK ==
    /\ Len(saved) <= 1
    /\ \A k \in Clients :
          /\ client[k] # "idle" /\ request[k] = "restore" => payload[k] # <<>>
          /\ client[k] = "cancelling" =>
                request[k] # "give" /\ awaited[k] \in CycleIds
          /\ client[k] = "forgetting" => request[k] = "reset"
    /\ stopping # "no" => ~running
    /\ stopping = "cycle" => stopped \in CycleIds

(* Late steps are counted while the mind is frozen, and whoever is in line *)
(* to charge it has not done so yet.                                       *)
ChargesOK ==
    /\ ~Frozen => lateCycles = 0 /\ lateCharges = 0
    /\ lateCharges <= 1
    /\ metabolic = "lock" => lateCharges = 0

(* Who lives by its own reservoirs has some left, and an immortal enough   *)
(* for the charge that was in line when it became one.                     *)
BodyOK ==
    status = "alive" /\ ~restored =>
        /\ food > 0 /\ integrity > 0
        /\ mode = "immortal" /\ metabolic = "lock" => food > 1

Alive(c) == cycle[c] # "ended"
AllEnded == \A c \in CycleIds : ~Alive(c)

CyclesOK ==
    /\ \A c \in CycleIds : Alive(c) => c = cycleTask
    /\ \A k \in Clients : client[k] = "cancelling" =>
          \A c \in CycleIds : Alive(c) => c = awaited[k] /\ c \in cancelled
    /\ \A k \in Clients :
          client[k] \in {"forgetting", "lock"} /\ request[k] # "give" => AllEnded
    /\ stopping = "cycle" =>
          \A c \in CycleIds : Alive(c) => c = stopped /\ c \in cancelled
    /\ stopping = "closed" => AllEnded

SessionsOK ==
    /\ staleCycles = 0
    /\ lateCycles <= 1
    /\ \A c \in CycleIds : cycle[c] = "lock" =>
          /\ session[c] \in {NoMind, mind}
          /\ c \notin cancelled => lateCycles = 0

LifeInv ==
    /\ LifeTypeOK /\ RequestsOK /\ QueueOK /\ HolderOK /\ ChargesOK
    /\ ~breached => CyclesOK /\ SessionsOK

-----------------------------------------------------------------------------
(* Sequences without repetition.                                           *)

LEMMA ElementsOf ==
    ASSUME NEW S, NEW q \in Seq(S)
    PROVE  /\ Len(q) \in Nat /\ DOMAIN q = 1..Len(q)
           /\ \A i \in 1..Len(q) : q[i] \in S
           /\ q # <<>> <=> Len(q) > 0
  OBVIOUS

LEMMA JoiningLine ==
    ASSUME NEW S, NEW q \in Seq(S), NEW t \in S, Distinct(q), t \notin Elems(q)
    PROVE  LET r == Append(q, t)
           IN  r \in Seq(S) /\ Distinct(r) /\ Elems(r) = Elems(q) \cup {t}
<1> DEFINE r == Append(q, t)
<1>1. /\ r \in Seq(S) /\ Len(r) = Len(q) + 1 /\ Len(q) \in Nat
      /\ \A i \in 1..Len(q) : r[i] = q[i]
      /\ r[Len(q) + 1] = t
  OBVIOUS
<1>2. \A i \in 1..Len(r) : i \in 1..Len(q) \/ i = Len(q) + 1
  BY <1>1
<1> HIDE DEF r
<1>3. Distinct(r)
  BY <1>1, <1>2 DEF Distinct, Elems
<1>4. Elems(r) = Elems(q) \cup {t}
  BY <1>1, <1>2 DEF Elems
<1> QED
  BY <1>1, <1>3, <1>4 DEF r

LEMMA LeavingLine ==
    ASSUME NEW S, NEW q \in Seq(S), q # <<>>, Distinct(q)
    PROVE  LET r == Tail(q)
           IN  r \in Seq(S) /\ Distinct(r) /\ Elems(r) = Elems(q) \ {Head(q)}
<1> DEFINE r == Tail(q)
<1>1. /\ r \in Seq(S) /\ Len(r) = Len(q) - 1 /\ Len(q) \in Nat /\ Len(q) > 0
      /\ \A i \in 1..Len(r) : r[i] = q[i + 1]
      /\ Head(q) = q[1]
  OBVIOUS
<1> HIDE DEF r
<1>2. Distinct(r)
  BY <1>1 DEF Distinct
<1>3. Elems(r) \subseteq Elems(q) \ {Head(q)}
  BY <1>1 DEF Distinct, Elems
<1>4. ASSUME NEW i \in 1..Len(q), q[i] # Head(q)
      PROVE  q[i] \in Elems(r)
  <2>1. i - 1 \in 1..Len(r) /\ r[i - 1] = q[i]
    BY <1>1, <1>4
  <2> QED
    BY <2>1 DEF Elems
<1>5. Elems(r) = Elems(q) \ {Head(q)}
  BY <1>3, <1>4 DEF Elems
<1> QED
  BY <1>1, <1>2, <1>5 DEF r

LEMMA CancellingInLine ==
    ASSUME NEW S, NEW q \in Seq(S), NEW t, Distinct(q)
    PROVE  LET r == Without(q, t)
           IN  r \in Seq(S) /\ Distinct(r) /\ Elems(r) = Elems(q) \ {t}
<1>1. CASE \A i \in DOMAIN q : q[i] # t
  BY <1>1, ElementsOf DEF Without, Elems
<1>2. CASE \E i \in DOMAIN q : q[i] = t
  <2> DEFINE p == CHOOSE i \in DOMAIN q : q[i] = t
             r == [i \in 1..(Len(q) - 1) |-> IF i < p THEN q[i] ELSE q[i + 1]]
  <2>1. Without(q, t) = r
    BY <1>2 DEF Without
  <2>2. p \in 1..Len(q) /\ q[p] = t /\ Len(q) \in Nat
    BY <1>2, ElementsOf
  <2>3. \A i \in 1..Len(q) : q[i] = t => i = p
    BY <2>2 DEF Distinct
  <2>4. \A i \in 1..Len(q) : q[i] \in S
    BY ElementsOf
  <2> HIDE DEF p
  <2>5. r \in Seq(S) /\ Len(r) = Len(q) - 1
    <3>1. Len(q) - 1 \in Nat
      BY <2>2
    <3>2. r \in [1..(Len(q) - 1) -> S]
      BY <2>2, <2>4
    <3> QED
      BY <3>1, <3>2
  <2>6. \A i \in 1..(Len(q) - 1) : r[i] = IF i < p THEN q[i] ELSE q[i + 1]
    OBVIOUS
  <2> HIDE DEF r
  <2>7. Distinct(r)
    BY <2>2, <2>5, <2>6 DEF Distinct
  <2>8. Elems(r) \subseteq Elems(q) \ {t}
    BY <2>2, <2>3, <2>5, <2>6 DEF Elems
  <2>9. ASSUME NEW i \in 1..Len(q), q[i] # t
        PROVE  q[i] \in Elems(r)
    <3>1. CASE i < p
      BY <3>1, <2>2, <2>5, <2>6 DEF Elems
    <3>2. CASE i > p
      <4>1. i - 1 \in 1..(Len(q) - 1) /\ r[i - 1] = q[i]
        BY <3>2, <2>2, <2>6
      <4> QED
        BY <4>1, <2>5 DEF Elems
    <3> QED
      BY <3>1, <3>2, <2>2, <2>9
  <2>10. Elems(r) = Elems(q) \ {t}
    BY <2>8, <2>9 DEF Elems
  <2> QED
    BY <2>1, <2>5, <2>7, <2>10
<1> QED
  BY <1>1, <1>2

LEMMA Names ==
    /\ \A c, d : CycleOf(c) = CycleOf(d) => c = d
    /\ \A k, j : ClientOf(k) = ClientOf(j) => k = j
    /\ \A s, r : SocketOf(s) = SocketOf(r) => s = r
    /\ \A c, k : CycleOf(c) # ClientOf(k) /\ CycleOf(c) # SocketOf(k)
                 /\ ClientOf(c) # SocketOf(k)
    /\ \A x : /\ CycleOf(x) \notin {Metabolism, Consolidator, Free}
              /\ ClientOf(x) \notin {Metabolism, Consolidator, Free}
              /\ SocketOf(x) \notin {Metabolism, Consolidator, Free}
    /\ Metabolism \notin {Consolidator, Free} /\ Consolidator # Free
  BY DEF CycleOf, ClientOf, SocketOf, Metabolism, Consolidator, Free

-----------------------------------------------------------------------------
(* Types.                                                                  *)

USE DEF NoTask, NoMind, reservoirs, vitals, lockVars, cycleVars, loopVars,
        clientVars, serverVars, mindVars, lateVars, ghostVars, budget

LEMMA TypeOfStart ==
    ASSUME LifeTypeOK, NEW gone,
           NEW places \in [CycleIds -> {"wait", "lock", "observing", "ended"}],
           StartCycle(gone, places)
    PROVE  /\ cycleTask' \in CycleIds \cup {NoTask}
           /\ cycle' \in [CycleIds -> {"wait", "lock", "observing", "ended"}]
           /\ cancelled' \subseteq CycleIds
           /\ session' \in [CycleIds -> Nat]
<1>1. AfterTest \in {"wait", "ended"}
  BY DEF AfterTest
<1>2. CASE gone \/ LoopEnded
  <2>1. Fresh \in CycleIds
    BY <1>2 DEF StartCycle, Fresh, Unused
  <2>2. /\ cycleTask' = Fresh
        /\ cycle' = [places EXCEPT ![Fresh] = AfterTest]
        /\ cancelled' = cancelled \ {Fresh}
        /\ session' = [session EXCEPT ![Fresh] = 0]
    BY <1>2 DEF StartCycle
  <2> QED
    BY <1>1, <2>1, <2>2 DEF LifeTypeOK
<1>3. CASE ~(gone \/ LoopEnded)
  BY <1>3 DEF StartCycle, LifeTypeOK
<1> QED
  BY <1>2, <1>3

LEMMA TypeOfLoops ==
    ASSUME LifeTypeOK, StartLoops
    PROVE  /\ metabolic' \in {"wait", "lock", "ended"}
           /\ sync' \in {"burst", "lock", "syncing", "ended"}
  BY DEF StartLoops, LifeTypeOK

LEMMA TypeOfEnsure ==
    ASSUME LifeTypeOK,
           NEW places \in [CycleIds -> {"wait", "lock", "observing", "ended"}],
           EnsureFrom(places)
    PROVE  /\ cycleTask' \in CycleIds \cup {NoTask}
           /\ cycle' \in [CycleIds -> {"wait", "lock", "observing", "ended"}]
           /\ cancelled' \subseteq CycleIds
           /\ session' \in [CycleIds -> Nat]
           /\ metabolic' \in {"wait", "lock", "ended"}
           /\ sync' \in {"burst", "lock", "syncing", "ended"}
  BY TypeOfStart, TypeOfLoops DEF EnsureFrom

LEMMA Levels ==
    ASSUME NEW n \in 0..Full
    PROVE  /\ Capped(n + 1) \in 0..Full /\ Lowered(n) \in 0..Full
           /\ Capped(n + 1) > 0 /\ Capped(n + 1) >= n
           /\ Lowered(n) <= n /\ n > 1 => Lowered(n) > 0
  BY LifecycleAssumption DEF LifecycleAssumption, Capped, Lowered, Min2

LEMMA TypeOfDeath ==
    ASSUME LifeTypeOK, NEW f \in 0..Full, NEW i \in 0..Full, CheckDeath(f, i)
    PROVE  /\ food' \in 0..Full /\ integrity' \in 0..Full
           /\ status' \in {"alive", "dead"}
  BY DEF CheckDeath, LifeTypeOK

LEMMA TypeOfLate ==
    ASSUME NEW m \in 0..2, NEW n \in 0..2, LateAfter(m, n)
    PROVE  lateCycles' \in 0..2 /\ lateCharges' \in 0..2
  BY DEF LateAfter

LEMMA TypeOfCharge ==
    ASSUME LifeTypeOK, Charge
    PROVE  /\ food' \in 0..Full /\ integrity' \in 0..Full
           /\ status' \in {"alive", "dead"}
           /\ lateCycles' \in 0..2 /\ lateCharges' \in 0..2
           /\ metabolic' = "wait"
<1>1. Charged \in 0..Full /\ Healed \in 0..Full
  BY Levels DEF LifeTypeOK, Charged, Healed
<1>2. (IF Frozen THEN Min2(lateCharges + 1, 2) ELSE lateCharges) \in 0..2
  BY DEF LifeTypeOK, Min2
<1> QED
  BY <1>1, <1>2, TypeOfDeath, TypeOfLate DEF Charge, LifeTypeOK

LEMMA TypeOfRevival ==
    ASSUME LifeTypeOK,
           NEW places \in [CycleIds -> {"wait", "lock", "observing", "ended"}],
           Revives(ReviveLevel, places),
           admin' \in 0..MaxAdmin, FlagsOK'
    PROVE  LifeTypeOK'
<1>1. lateCycles' \in 0..2 /\ lateCharges' \in 0..2
  BY TypeOfLate DEF Revives, LifeTypeOK
<1>2. EnsureFrom(places)
  BY DEF Revives
<1>3. /\ food' \in 0..Full /\ integrity' \in 0..Full /\ status' = "alive"
  BY LifecycleAssumption DEF LifecycleAssumption, Revives
<1>4. /\ cycleTask' \in CycleIds \cup {NoTask}
      /\ cycle' \in [CycleIds -> {"wait", "lock", "observing", "ended"}]
      /\ cancelled' \subseteq CycleIds
      /\ session' \in [CycleIds -> Nat]
      /\ metabolic' \in {"wait", "lock", "ended"}
      /\ sync' \in {"burst", "lock", "syncing", "ended"}
  BY <1>2, TypeOfEnsure
<1> QED
  BY <1>1, <1>3, <1>4 DEF Revives, LifeTypeOK

LEMMA Members ==
    /\ \A c \in CycleIds : CycleOf(c) \in TaskNames
    /\ \A k \in Clients : ClientOf(k) \in TaskNames
    /\ \A s \in Sockets : SocketOf(s) \in TaskNames
    /\ Metabolism \in TaskNames /\ Consolidator \in TaskNames
  BY DEF TaskNames

LEMMA TypeOfLine ==
    ASSUME LifeTypeOK, QueueOK
    PROVE  /\ \A t \in TaskNames : Joins(t) => waiters' \in Seq(TaskNames)
           /\ \A t : Granted(t) /\ LeavesLine => waiters' \in Seq(TaskNames)
           /\ \A t : Without(waiters, t) \in Seq(TaskNames)
<1>1. ASSUME NEW t \in TaskNames, Joins(t)
      PROVE  waiters' \in Seq(TaskNames)
  BY <1>1 DEF LifeTypeOK, Joins
<1>2. ASSUME NEW t, Granted(t), LeavesLine
      PROVE  waiters' \in Seq(TaskNames)
  BY <1>2 DEF LifeTypeOK, Granted, LeavesLine
<1>3. ASSUME NEW t
      PROVE  Without(waiters, t) \in Seq(TaskNames)
  BY CancellingInLine DEF LifeTypeOK, QueueOK
<1> QED
  BY <1>1, <1>2, <1>3

-----------------------------------------------------------------------------
(* The flags stay Boolean.                                                 *)

LEMMA FlagsOfDeath ==
    ASSUME NEW f, NEW i, CheckDeath(f, i)
    PROVE  restored' \in BOOLEAN
  BY Zenon DEF CheckDeath

LEMMA FlagsOfEnsure ==
    ASSUME NEW places, EnsureFrom(places)
    PROVE  breached' \in BOOLEAN
  BY Zenon DEF EnsureFrom

LEMMA FlagsOfBody ==
    ASSUME FlagsOK, NEW k \in Clients, NEW op, NEW again, NEW gone,
           RequestBody(k, op, again, gone)
    PROVE  /\ breached' \in BOOLEAN /\ restored' \in BOOLEAN
           /\ clocked' \in BOOLEAN /\ observed' \in BOOLEAN
           /\ mustObserve' \in BOOLEAN
<1>1. CASE op = "give"
  <2>1. UNCHANGED <<clocked, observed, mustObserve, breached, restored>>
    BY <1>1 DEF RequestBody, GiveBody
  <2> QED
    BY <2>1, Zenon DEF FlagsOK
<1>2. CASE op # "give"
  <2>1. BarrierBody(k, op, again, gone)
    BY <1>2 DEF RequestBody
  <2>2. breached' \in BOOLEAN
    <3>1. ResumeWorker(k, again, gone)
      BY <2>1 DEF BarrierBody
    <3> QED
      BY <3>1, Zenon DEF ResumeWorker
  <2>3. observed' \in BOOLEAN /\ mustObserve' \in BOOLEAN
    BY <2>1, Zenon DEF BarrierBody
  <2>4. ResetBody \/ CheckpointBody \/ RestoreBody(k)
    BY <2>1 DEF BarrierBody
  <2>5. CASE ResetBody
    BY <2>5, <2>2, <2>3, Zenon DEF ResetBody
  <2>6. CASE CheckpointBody \/ RestoreBody(k)
    <3>1. clocked' = clocked
      BY <2>6 DEF CheckpointBody, RestoreBody
    <3>2. restored' = restored \/ restored' = TRUE
      BY <2>6, Zenon DEF CheckpointBody, RestoreBody
    <3> QED
      BY <3>1, <3>2, <2>2, <2>3, Zenon DEF FlagsOK
  <2> QED
    BY <2>4, <2>5, <2>6
<1> QED
  BY <1>1, <1>2

LEMMA FlagsOfLocks ==
    ASSUME FlagsOK, NEW k \in Clients, NEW op, NEW again, NEW gone,
           Locks(k, op, again, gone)
    PROVE  /\ breached' \in BOOLEAN /\ restored' \in BOOLEAN
           /\ clocked' \in BOOLEAN /\ observed' \in BOOLEAN
           /\ mustObserve' \in BOOLEAN
<1>1. CASE RequestBody(k, op, again, gone)
  BY <1>1, FlagsOfBody
<1>2. CASE UNCHANGED <<vitals, mindVars, breached, restored>>
  BY <1>2, Zenon DEF FlagsOK
<1> QED
  BY <1>1, <1>2 DEF Locks

LEMMA FlagsOfForgets ==
    ASSUME FlagsOK, NEW k, NEW op, Forgets(k, op)
    PROVE  /\ breached' \in BOOLEAN /\ restored' \in BOOLEAN
           /\ clocked' \in BOOLEAN /\ observed' \in BOOLEAN
           /\ mustObserve' \in BOOLEAN
<1>1. UNCHANGED <<vitals, mindVars, breached, restored>>
  BY DEF Forgets
<1> QED
  BY <1>1, Zenon DEF FlagsOK

LEMMA FlagsOfLoops ==
    FlagsOK /\ (MetabolicTick \/ MetabolicCharges \/ MetabolicEnds
                \/ SyncBegins \/ SyncGranted \/ SyncDone \/ SyncEnds)
    => FlagsOK'
<1> SUFFICES ASSUME FlagsOK
             PROVE  /\ MetabolicTick \/ MetabolicCharges \/ MetabolicEnds
                       \/ SyncBegins \/ SyncGranted \/ SyncDone \/ SyncEnds
                       => FlagsOK'
  OBVIOUS
<1>1. ASSUME MetabolicTick PROVE FlagsOK'
  <2>1. restored' = restored \/ Charge
    BY <1>1 DEF MetabolicTick
  <2>2. restored' \in BOOLEAN
    <3>1. CASE restored' = restored
      BY <3>1, Zenon DEF FlagsOK
    <3>2. CASE Charge
      BY <3>2, FlagsOfDeath DEF Charge
    <3> QED
      BY <2>1, <3>1, <3>2
  <2>3. clocked' \in BOOLEAN
    BY <1>1, Zenon DEF MetabolicTick
  <2>4. UNCHANGED <<serverVars, mindVars, breached, restart>>
    BY <1>1 DEF MetabolicTick
  <2> QED
    BY <2>2, <2>3, <2>4, Zenon DEF FlagsOK
<1>2. ASSUME MetabolicCharges PROVE FlagsOK'
  <2>1. restored' \in BOOLEAN
    BY <1>2, FlagsOfDeath DEF MetabolicCharges, Charge
  <2>2. UNCHANGED <<clocked, serverVars, mindVars, breached, restart>>
    BY <1>2 DEF MetabolicCharges
  <2> QED
    BY <2>1, <2>2, Zenon DEF FlagsOK
<1>3. ASSUME MetabolicEnds \/ SyncBegins \/ SyncGranted \/ SyncDone \/ SyncEnds
      PROVE  FlagsOK'
  <2>1. UNCHANGED <<vitals, serverVars, mindVars, ghostVars, restart>>
    BY <1>3 DEF MetabolicEnds, SyncBegins, SyncGranted, SyncDone, SyncEnds
  <2> QED
    BY <2>1, Zenon DEF FlagsOK
<1> QED
  BY <1>1, <1>2, <1>3

LEMMA FlagsOfCycle ==
    ASSUME FlagsOK, NEW c \in CycleIds, CycleStep(c)
    PROVE  FlagsOK'
<1>1. ASSUME NEW m, UnderLock(c, m)
      PROVE  restored' \in BOOLEAN /\ mustObserve' \in BOOLEAN
  <2>1. CASE Observes(c)
    <3>1. UNCHANGED <<restored, mustObserve>>
      BY <2>1 DEF Observes
    <3> QED
      BY <3>1, Zenon DEF FlagsOK
  <2>2. CASE Deliberates(c, m)
    <3>1. restored' \in BOOLEAN
      BY <2>2, FlagsOfDeath DEF Deliberates
    <3>2. mustObserve' \in BOOLEAN
      BY <2>2, Zenon DEF Deliberates
    <3> QED
      BY <3>1, <3>2
  <2> QED
    BY <1>1, <2>1, <2>2 DEF UnderLock
<1>2. CASE CycleDeliberates(c)
  <2>1. \/ \E m : UnderLock(c, m)
        \/ UNCHANGED <<restored, mustObserve>>
    BY <1>2 DEF CycleDeliberates
  <2>2. restored' \in BOOLEAN /\ mustObserve' \in BOOLEAN
    <3>1. CASE UNCHANGED <<restored, mustObserve>>
      BY <3>1, Zenon DEF FlagsOK
    <3> QED
      BY <2>1, <3>1, <1>1
  <2>3. UNCHANGED <<clocked, serverVars, observed, breached, restart>>
    BY <1>2 DEF CycleDeliberates
  <2> QED
    BY <2>2, <2>3, Zenon DEF FlagsOK
<1>3. CASE CycleGranted(c)
  <2>1. restored' \in BOOLEAN /\ mustObserve' \in BOOLEAN
    BY <1>3, <1>1 DEF CycleGranted
  <2>2. UNCHANGED <<clocked, serverVars, observed, breached, restart>>
    BY <1>3 DEF CycleGranted
  <2> QED
    BY <2>1, <2>2, Zenon DEF FlagsOK
<1>4. CASE CycleEnds(c) \/ CycleSkips(c) \/ CycleObserved(c) \/ CycleCancelled(c)
  <2>1. UNCHANGED <<vitals, serverVars, mindVars, ghostVars, restart>>
    BY <1>4 DEF CycleEnds, CycleSkips, CycleObserved, CycleCancelled
  <2> QED
    BY <2>1, Zenon DEF FlagsOK
<1>5. CASE SoakRevive(c)
  <2> DEFINE places == [cycle EXCEPT ![c] = AfterTest]
  <2>1. Revives(ReviveLevel, places)
    BY <1>5 DEF SoakRevive
  <2>2. breached' \in BOOLEAN
    BY <2>1, FlagsOfEnsure DEF Revives
  <2>3. clocked' \in BOOLEAN /\ restored' \in BOOLEAN
    BY <2>1, Zenon DEF Revives
  <2>4. UNCHANGED <<serverVars, mindVars, restart>>
    BY <2>1 DEF Revives
  <2> QED
    BY <2>2, <2>3, <2>4, Zenon DEF FlagsOK
<1> QED
  BY <1>2, <1>3, <1>4, <1>5 DEF CycleStep

LEMMA FlagsOfOrders ==
    ASSUME FlagsOK, Pause \/ Resume \/ Revive \/ Immortalise \/ Mortalise
    PROVE  FlagsOK'
<1>1. CASE Pause
  <2>1. UNCHANGED <<vitals, running, registered, soak, mindVars, ghostVars,
                    restart>>
    BY <1>1 DEF Pause
  <2>2. paused' \in BOOLEAN
    BY <1>1, Zenon DEF Pause
  <2> QED
    BY <2>1, <2>2, Zenon DEF FlagsOK
<1>2. CASE Resume
  <2>1. UNCHANGED <<vitals, running, registered, soak, mindVars, restored,
                    restart>>
    BY <1>2 DEF Resume
  <2>2. paused' \in BOOLEAN
    BY <1>2, Zenon DEF Resume
  <2>3. breached' \in BOOLEAN
    BY <1>2, FlagsOfEnsure DEF Resume, Ensure
  <2> QED
    BY <2>1, <2>2, <2>3, Zenon DEF FlagsOK
<1>3. CASE Revive
  <2>1. Revives(ReviveLevel, cycle)
    BY <1>3 DEF Revive
  <2>2. breached' \in BOOLEAN
    BY <2>1, FlagsOfEnsure DEF Revives
  <2>3. clocked' \in BOOLEAN /\ restored' \in BOOLEAN
    BY <2>1, Zenon DEF Revives
  <2>4. UNCHANGED <<serverVars, mindVars, restart>>
    BY <2>1 DEF Revives
  <2> QED
    BY <2>2, <2>3, <2>4, Zenon DEF FlagsOK
<1>4. CASE Immortalise
  <2>1. UNCHANGED <<serverVars, mindVars, restart>>
    BY <1>4 DEF Immortalise
  <2>2. restored' \in BOOLEAN
    BY <1>4, Zenon DEF Immortalise
  <2>3. clocked' \in BOOLEAN /\ breached' \in BOOLEAN
    <3>1. CASE status = "dead"
      <4>1. clocked' \in BOOLEAN
        BY <1>4, <3>1, Zenon DEF Immortalise
      <4>2. breached' \in BOOLEAN
        BY <1>4, <3>1, FlagsOfEnsure DEF Immortalise, Ensure
      <4> QED
        BY <4>1, <4>2
    <3>2. CASE status # "dead"
      <4>1. UNCHANGED <<clocked, breached>>
        BY <1>4, <3>2 DEF Immortalise
      <4> QED
        BY <4>1, Zenon DEF FlagsOK
    <3> QED
      BY <3>1, <3>2
  <2> QED
    BY <2>1, <2>2, <2>3, Zenon DEF FlagsOK
<1>5. CASE Mortalise
  <2>1. UNCHANGED <<serverVars, mindVars, ghostVars, restart>>
    BY <1>5 DEF Mortalise
  <2>2. clocked' \in BOOLEAN
    BY <1>5, Zenon DEF Mortalise
  <2> QED
    BY <2>1, <2>2, Zenon DEF FlagsOK
<1> QED
  BY <1>1, <1>2, <1>3, <1>4, <1>5

LEMMA FlagsOfRequests ==
    ASSUME FlagsOK, NEW k \in Clients, RequestStep(k)
    PROVE  FlagsOK'
<1>1. ASSUME NEW op, NEW again, NEW gone,
             \/ Locks(k, op, again, gone) \/ RequestBody(k, op, again, gone)
             \/ Forgets(k, op),
             UNCHANGED serverVars, restart' \in [Clients -> BOOLEAN]
      PROVE  FlagsOK'
  <2>1. /\ breached' \in BOOLEAN /\ restored' \in BOOLEAN
        /\ clocked' \in BOOLEAN /\ observed' \in BOOLEAN
        /\ mustObserve' \in BOOLEAN
    BY <1>1, FlagsOfLocks, FlagsOfForgets, FlagsOfBody
  <2>2. UNCHANGED <<paused, running, registered, soak>>
    BY <1>1
  <2> QED
    BY <1>1, <2>1, <2>2, Zenon DEF FlagsOK
<1>2. restart' = restart => restart' \in [Clients -> BOOLEAN]
  BY Zenon DEF FlagsOK
<1>3. CASE Give(k)
  <2>1. Locks(k, "give", FALSE, FALSE) /\ restart' = restart /\ UNCHANGED serverVars
    BY <1>3 DEF Give, requestFrame
  <2> QED
    BY <2>1, <1>1, <1>2
<1>4. CASE Suspended(k)
  <2>1. /\ Locks(k, request[k], restart[k], TRUE) \/ Forgets(k, request[k])
        /\ restart' = restart /\ UNCHANGED serverVars
    BY <1>4 DEF Suspended, Proceeds, requestFrame
  <2> QED
    BY <2>1, <1>1, <1>2
<1>5. CASE RequestGranted(k)
  <2>1. /\ RequestBody(k, request[k], restart[k], FALSE)
        /\ restart' = restart /\ UNCHANGED serverVars
    BY <1>5 DEF RequestGranted, requestFrame
  <2> QED
    BY <2>1, <1>1, <1>2
<1>8. CASE Forgotten(k)
  <2>1. /\ Locks(k, "reset", restart[k], FALSE)
        /\ restart' = restart /\ UNCHANGED serverVars
    BY <1>8 DEF Forgotten, requestFrame
  <2> QED
    BY <2>1, <1>1, <1>2
<1>6. ASSUME NEW op, SuspendNone(k, op)
      PROVE  FlagsOK'
  <2>1. /\ Locks(k, op, cycleTask # NoTask, TRUE) \/ Forgets(k, op)
        /\ restart' = [restart EXCEPT ![k] = cycleTask # NoTask]
        /\ UNCHANGED serverVars
    BY <1>6 DEF SuspendNone, Proceeds, requestFrame
  <2>2. restart' \in [Clients -> BOOLEAN]
    BY <2>1, Zenon DEF FlagsOK
  <2> QED
    BY <2>1, <2>2, <1>1
<1>7. ASSUME NEW op, Suspend(k, op)
      PROVE  FlagsOK'
  <2>1. restart' = [restart EXCEPT ![k] = TRUE] /\ breached' = (breached \/ Barrier)
    BY <1>7, Zenon DEF Suspend
  <2>2. restart' \in [Clients -> BOOLEAN] /\ breached' \in BOOLEAN
    BY <2>1, Zenon DEF FlagsOK
  <2>3. UNCHANGED <<vitals, serverVars, mindVars, restored>>
    BY <1>7 DEF Suspend
  <2> QED
    BY <2>2, <2>3, Zenon DEF FlagsOK
<1> QED
  BY <1>3, <1>4, <1>5, <1>6, <1>7, <1>8 DEF RequestStep

LEMMA FlagsOfTheBody ==
    ASSUME FlagsOK,
           SessionReady \/ \E s \in Sockets :
               Handshake(s) \/ Accepted(s) \/ Disconnect(s) \/ Observe(s)
               \/ ObserveGranted(s)
    PROVE  FlagsOK'
<1>1. ASSUME NEW s, Senses(s)
      PROVE  /\ restored' \in BOOLEAN /\ observed' \in BOOLEAN
             /\ mustObserve' \in BOOLEAN
  <2>1. \E f, i : CheckDeath(f, i)
    BY <1>1 DEF Senses
  <2>2. restored' \in BOOLEAN
    BY <2>1, FlagsOfDeath
  <2>3. observed' = TRUE /\ mustObserve' = FALSE
    BY <1>1, Zenon DEF Senses
  <2> QED
    BY <2>2, <2>3, Zenon
<1>2. ASSUME NEW s, Observe(s) \/ ObserveGranted(s)
      PROVE  FlagsOK'
  <2>1. Senses(s) \/ UNCHANGED <<restored, observed, mustObserve>>
    BY <1>2 DEF Observe, ObserveGranted
  <2>2. /\ restored' \in BOOLEAN /\ observed' \in BOOLEAN
        /\ mustObserve' \in BOOLEAN
    <3>1. CASE UNCHANGED <<restored, observed, mustObserve>>
      BY <3>1, Zenon DEF FlagsOK
    <3> QED
      BY <2>1, <3>1, <1>1
  <2>3. UNCHANGED <<clocked, serverVars, breached, restart>>
    BY <1>2 DEF Observe, ObserveGranted, sensesFrame
  <2> QED
    BY <2>2, <2>3, Zenon DEF FlagsOK
<1>3. ASSUME NEW s, Accepted(s)
      PROVE  FlagsOK'
  <2>1. breached' \in BOOLEAN
    BY <1>3, FlagsOfEnsure DEF Accepted, Ensure
  <2>2. UNCHANGED <<vitals, serverVars, mindVars, restored, restart>>
    BY <1>3 DEF Accepted
  <2> QED
    BY <2>1, <2>2, Zenon DEF FlagsOK
<1>4. ASSUME NEW s, SessionReady \/ Handshake(s) \/ Disconnect(s)
      PROVE  FlagsOK'
  <2>1. UNCHANGED <<vitals, serverVars, observed, mustObserve, ghostVars, restart>>
    BY <1>4 DEF SessionReady, Handshake, Disconnect
  <2> QED
    BY <2>1, Zenon DEF FlagsOK
<1> QED
  BY <1>2, <1>3, <1>4

LEMMA FlagsOfStops ==
    ASSUME FlagsOK, Stop \/ StopSync \/ StopMetabolic \/ StopCycle
    PROVE  FlagsOK'
<1>1. UNCHANGED <<vitals, paused, soak, mindVars, ghostVars, restart>>
  BY DEF Stop, StopSync, StopMetabolic, StopCycle, stopFrame
<1>2. registered' \in BOOLEAN /\ running' \in BOOLEAN
  <2>1. CASE Stop
    BY <2>1, Zenon DEF Stop
  <2>2. CASE StopSync \/ StopMetabolic \/ StopCycle
    <3>1. UNCHANGED <<registered, running>>
      BY <2>2 DEF StopSync, StopMetabolic, StopCycle, stopFrame
    <3> QED
      BY <3>1, Zenon DEF FlagsOK
  <2> QED
    BY <2>1, <2>2
<1> QED
  BY <1>1, <1>2, Zenon DEF FlagsOK

LEMMA FlagsKept == FlagsOK /\ [Next]_vars => FlagsOK'
<1>1. ASSUME FlagsOK, UNCHANGED vars PROVE FlagsOK'
  <2>1. UNCHANGED <<vitals, serverVars, mindVars, ghostVars, restart>>
    BY <1>1 DEF vars
  <2> QED
    BY <1>1, <2>1, Zenon DEF FlagsOK
<1> QED
  BY <1>1, FlagsOfLoops, FlagsOfCycle, FlagsOfOrders, FlagsOfRequests,
     FlagsOfTheBody, FlagsOfStops DEF Next

-----------------------------------------------------------------------------
(* The types of the rest.                                                  *)

LEMMA TypesOfLoops ==
    ASSUME LifeTypeOK, QueueOK, FlagsOK',
           MetabolicTick \/ MetabolicCharges \/ MetabolicEnds
           \/ SyncBegins \/ SyncGranted \/ SyncDone \/ SyncEnds
    PROVE  LifeTypeOK'
<1>1. CASE MetabolicTick
  <2>1. waiters' \in Seq(TaskNames)
    <3>1. waiters' = waiters \/ Joins(Metabolism)
      BY <1>1 DEF MetabolicTick
    <3> QED
      BY <3>1, TypeOfLine, Members DEF LifeTypeOK
  <2>2. /\ food' \in 0..Full /\ integrity' \in 0..Full
        /\ status' \in {"alive", "dead"}
        /\ lateCycles' \in 0..2 /\ lateCharges' \in 0..2
        /\ metabolic' \in {"wait", "lock", "ended"}
    <3>1. \/ Charge
          \/ UNCHANGED <<status, reservoirs, lateCycles, lateCharges>>
             /\ metabolic' \in {metabolic, "lock"}
      BY <1>1 DEF MetabolicTick
    <3>2. CASE Charge
      BY <3>2, TypeOfCharge
    <3>3. CASE UNCHANGED <<status, reservoirs, lateCycles, lateCharges>>
               /\ metabolic' \in {metabolic, "lock"}
      BY <3>3 DEF LifeTypeOK
    <3> QED
      BY <3>1, <3>2, <3>3
  <2>3. UNCHANGED <<mode, holder, cycleVars, sync, socket, client, request,
                    awaited, payload, stopping, stopped, mind, pool, saved,
                    staleCycles, budget>>
    BY <1>1 DEF MetabolicTick
  <2> QED
    BY <2>1, <2>2, <2>3 DEF LifeTypeOK
<1>2. CASE MetabolicCharges
  <2>1. waiters' \in Seq(TaskNames)
    BY <1>2, TypeOfLine DEF MetabolicCharges
  <2>2. /\ food' \in 0..Full /\ integrity' \in 0..Full
        /\ status' \in {"alive", "dead"}
        /\ lateCycles' \in 0..2 /\ lateCharges' \in 0..2
        /\ metabolic' = "wait"
    BY <1>2, TypeOfCharge DEF MetabolicCharges
  <2>3. UNCHANGED <<mode, holder, cycleVars, sync, socket, client, request,
                    awaited, payload, stopping, stopped, mind, pool, saved,
                    staleCycles, budget>>
    BY <1>2 DEF MetabolicCharges
  <2> QED
    BY <2>1, <2>2, <2>3 DEF LifeTypeOK
<1>3. CASE MetabolicEnds \/ SyncDone \/ SyncEnds
  BY <1>3, Members DEF MetabolicEnds, SyncDone, SyncEnds, LifeTypeOK
<1>4. CASE SyncBegins \/ SyncGranted
  <2>1. waiters' \in Seq(TaskNames)
    <3>1. \/ waiters' = waiters \/ Joins(Consolidator)
          \/ Granted(Consolidator) /\ LeavesLine
      BY <1>4 DEF SyncBegins, SyncGranted
    <3> QED
      BY <3>1, TypeOfLine, Members DEF LifeTypeOK
  <2>2. /\ holder' \in {holder, Consolidator}
        /\ sync' \in {"syncing", "lock"}
    BY <1>4 DEF SyncBegins, SyncGranted
  <2>3. UNCHANGED <<vitals, cycleVars, metabolic, socket, client, request,
                    awaited, payload, stopping, stopped, mind, pool, saved,
                    ghostVars, budget>>
    BY <1>4 DEF SyncBegins, SyncGranted
  <2> QED
    BY <2>1, <2>2, <2>3, Members DEF LifeTypeOK
<1> QED
  BY <1>1, <1>2, <1>3, <1>4

LEMMA TypeOfTest == AfterTest \in {"wait", "ended"}
  BY DEF AfterTest

LEMMA TypesUnderLock ==
    ASSUME LifeTypeOK, NEW c \in CycleIds, NEW m, UnderLock(c, m)
    PROVE  /\ food' \in 0..Full /\ integrity' \in 0..Full
           /\ status' \in {"alive", "dead"}
           /\ holder' \in TaskNames \cup {Free}
           /\ cycle' \in [CycleIds -> {"wait", "lock", "observing", "ended"}]
           /\ session' \in [CycleIds -> Nat]
           /\ lateCycles' \in 0..2 /\ lateCharges' \in 0..2
           /\ staleCycles' \in 0..1
<1>1. CASE Observes(c)
  BY <1>1, Members DEF Observes, Goes, LifeTypeOK
<1>2. CASE Deliberates(c, m)
  <2>1. PICK cost \in {0, 1} :
           CheckDeath(IF cost = 1 THEN Lowered(food) ELSE food, integrity)
    BY <1>2 DEF Deliberates
  <2>2. /\ food' \in 0..Full /\ integrity' \in 0..Full
        /\ status' \in {"alive", "dead"}
    <3>1. /\ (IF cost = 1 THEN Lowered(food) ELSE food) \in 0..Full
          /\ integrity \in 0..Full
      BY Levels DEF LifeTypeOK
    <3> QED
      BY <2>1, <3>1, TypeOfDeath
  <2>3. lateCycles' \in 0..2 /\ lateCharges' \in 0..2
    <3>1. /\ (IF Frozen THEN Min2(lateCycles + 1, 2) ELSE lateCycles) \in 0..2
          /\ lateCharges \in 0..2
      BY DEF LifeTypeOK, Min2
    <3>2. LateAfter(IF Frozen THEN Min2(lateCycles + 1, 2) ELSE lateCycles,
                    lateCharges)
      BY <1>2 DEF Deliberates
    <3> QED
      BY <3>1, <3>2, TypeOfLate
  <2>4. /\ staleCycles' \in {staleCycles, 1}
        /\ session' = [session EXCEPT ![c] = 0]
        /\ cycle' = [cycle EXCEPT ![c] = AfterTest]
        /\ holder' = holder
    BY <1>2 DEF Deliberates, Goes
  <2> QED
    BY <2>2, <2>3, <2>4, TypeOfTest DEF LifeTypeOK
<1> QED
  BY <1>1, <1>2 DEF UnderLock

LEMMA TypesOfCycle ==
    ASSUME LifeTypeOK, QueueOK, FlagsOK', NEW c \in CycleIds, CycleStep(c)
    PROVE  LifeTypeOK'
<1>1. CASE CycleEnds(c) \/ CycleSkips(c)
  <2>1. /\ cycle' \in {[cycle EXCEPT ![c] = AfterTest],
                      [cycle EXCEPT ![c] = "ended"]}
        /\ UNCHANGED <<vitals, lockVars, cycleTask, cancelled, session,
                       loopVars, socket, client, request, awaited, payload,
                       stopping, stopped, mind, pool, saved, lateVars, budget>>
    BY <1>1 DEF CycleEnds, CycleSkips, Goes
  <2>2. cycle' \in [CycleIds -> {"wait", "lock", "observing", "ended"}]
    BY <2>1, TypeOfTest DEF LifeTypeOK
  <2> QED
    BY <2>1, <2>2 DEF LifeTypeOK
<1>2. CASE CycleObserved(c)
  BY <1>2, TypeOfTest DEF CycleObserved, Goes, LifeTypeOK
<1>3. CASE CycleCancelled(c)
  <2>1. Without(waiters, CycleOf(c)) \in Seq(TaskNames)
    BY TypeOfLine
  <2> QED
    BY <1>3, <2>1 DEF CycleCancelled, Goes, LifeTypeOK
<1>4. CASE SoakRevive(c)
  <2>1. [cycle EXCEPT ![c] = AfterTest]
           \in [CycleIds -> {"wait", "lock", "observing", "ended"}]
    BY TypeOfTest DEF LifeTypeOK
  <2>2. admin' \in 0..MaxAdmin
    BY <1>4 DEF SoakRevive, LifeTypeOK
  <2>3. Revives(ReviveLevel, [cycle EXCEPT ![c] = AfterTest])
    BY <1>4 DEF SoakRevive
  <2> QED
    BY <2>1, <2>2, <2>3, TypeOfRevival
<1>5. CASE CycleGranted(c)
  <2>1. waiters' \in Seq(TaskNames)
    BY <1>5, TypeOfLine DEF CycleGranted
  <2>2. UnderLock(c, session[c])
    BY <1>5 DEF CycleGranted
  <2>3. UNCHANGED <<mode, cycleTask, cancelled, loopVars, socket, client,
                    request, awaited, payload, stopping, stopped, mind, pool,
                    saved, budget>>
    BY <1>5 DEF CycleGranted
  <2> QED
    BY <2>1, <2>2, <2>3, TypesUnderLock DEF LifeTypeOK
<1>6. CASE CycleDeliberates(c)
  <2>1. waiters' \in Seq(TaskNames)
    <3>1. waiters' = waiters \/ Joins(CycleOf(c))
      BY <1>6 DEF CycleDeliberates
    <3> QED
      BY <3>1, TypeOfLine, Members DEF LifeTypeOK
  <2>2. /\ food' \in 0..Full /\ integrity' \in 0..Full
        /\ status' \in {"alive", "dead"}
        /\ holder' \in TaskNames \cup {Free}
        /\ cycle' \in [CycleIds -> {"wait", "lock", "observing", "ended"}]
        /\ session' \in [CycleIds -> Nat]
        /\ lateCycles' \in 0..2 /\ lateCharges' \in 0..2
        /\ staleCycles' \in 0..1
    <3> DEFINE m == IF pool = "ready" THEN mind ELSE NoMind
    <3>1. \/ UnderLock(c, m)
          \/ /\ cycle' = [cycle EXCEPT ![c] = "lock"]
             /\ session' = [session EXCEPT ![c] = m]
             /\ UNCHANGED <<status, reservoirs, holder, lateVars>>
      BY <1>6 DEF CycleDeliberates, Goes
    <3>2. CASE UnderLock(c, m)
      BY <3>2, TypesUnderLock
    <3>3. m \in Nat
      BY DEF LifeTypeOK
    <3> HIDE DEF m
    <3>4. CASE /\ cycle' = [cycle EXCEPT ![c] = "lock"]
               /\ session' = [session EXCEPT ![c] = m]
               /\ UNCHANGED <<status, reservoirs, holder, lateVars>>
      BY <3>3, <3>4 DEF LifeTypeOK
    <3> QED
      BY <3>1, <3>2, <3>4
  <2>3. /\ pool' \in {pool, "none"}
        /\ UNCHANGED <<mode, cycleTask, cancelled, loopVars, socket, client,
                       request, awaited, payload, stopping, stopped, mind,
                       saved, budget>>
    BY <1>6 DEF CycleDeliberates
  <2> QED
    BY <2>1, <2>2, <2>3 DEF LifeTypeOK
<1> QED
  BY <1>1, <1>2, <1>3, <1>4, <1>5, <1>6 DEF CycleStep

LEMMA TypesOfOrders ==
    ASSUME LifeTypeOK, FlagsOK',
           Pause \/ Resume \/ Revive \/ Immortalise \/ Mortalise
    PROVE  LifeTypeOK'
<1>1. admin' \in 0..MaxAdmin
  <2>1. Asks
    BY DEF Pause, Resume, Revive, Immortalise, Mortalise
  <2> QED
    BY <2>1, LifecycleAssumption DEF Asks, LifeTypeOK, LifecycleAssumption
<1>2. CASE Pause
  BY <1>1, <1>2 DEF Pause, LifeTypeOK
<1>3. CASE Resume
  <2>1. /\ cycleTask' \in CycleIds \cup {NoTask}
        /\ cycle' \in [CycleIds -> {"wait", "lock", "observing", "ended"}]
        /\ cancelled' \subseteq CycleIds
        /\ session' \in [CycleIds -> Nat]
        /\ metabolic' \in {"wait", "lock", "ended"}
        /\ sync' \in {"burst", "lock", "syncing", "ended"}
    <3>1. EnsureFrom(cycle) /\ cycle \in [CycleIds -> {"wait", "lock", "observing", "ended"}]
      BY <1>3 DEF Resume, Ensure, LifeTypeOK
    <3> QED
      BY <3>1, TypeOfEnsure
  <2>2. lateCycles' \in {lateCycles, 0} /\ lateCharges' \in {lateCharges, 0}
    BY <1>3 DEF Resume
  <2>3. UNCHANGED <<vitals, lockVars, socket, client, request, awaited, payload,
                    stopping, stopped, mind, pool, saved, staleCycles, body>>
    BY <1>3 DEF Resume
  <2> QED
    BY <1>1, <2>1, <2>2, <2>3 DEF LifeTypeOK
<1>4. CASE Revive
  <2>1. cycle \in [CycleIds -> {"wait", "lock", "observing", "ended"}]
    BY DEF LifeTypeOK
  <2>2. Revives(ReviveLevel, cycle)
    BY <1>4 DEF Revive
  <2> QED
    BY <1>1, <2>1, <2>2, TypeOfRevival
<1>5. CASE Immortalise
  <2>1. /\ cycleTask' \in CycleIds \cup {NoTask}
        /\ cycle' \in [CycleIds -> {"wait", "lock", "observing", "ended"}]
        /\ cancelled' \subseteq CycleIds
        /\ session' \in [CycleIds -> Nat]
        /\ metabolic' \in {"wait", "lock", "ended"}
        /\ sync' \in {"burst", "lock", "syncing", "ended"}
    <3>1. EnsureFrom(cycle) \/ UNCHANGED <<cycleVars, loopVars>>
      BY <1>5 DEF Immortalise, Ensure
    <3>2. CASE EnsureFrom(cycle)
      <4>1. cycle \in [CycleIds -> {"wait", "lock", "observing", "ended"}]
        BY DEF LifeTypeOK
      <4> QED
        BY <3>2, <4>1, TypeOfEnsure
    <3>3. CASE UNCHANGED <<cycleVars, loopVars>>
      BY <3>3 DEF LifeTypeOK
    <3> QED
      BY <3>1, <3>2, <3>3
  <2>2. lateCycles' \in 0..2 /\ lateCharges' \in 0..2
    <3>1. LateAfter(lateCycles, lateCharges)
      BY <1>5 DEF Immortalise
    <3> QED
      BY <3>1, TypeOfLate DEF LifeTypeOK
  <2>3. /\ food' = Full /\ integrity' = Full /\ Full \in 0..Full
        /\ mode' = "immortal" /\ status' = "alive"
    BY <1>5, LifecycleAssumption
       DEF Immortalise, Pinned, LifecycleAssumption
  <2>4. UNCHANGED <<lockVars, socket, client, request, awaited, payload,
                    stopping, stopped, mind, pool, saved, staleCycles, body>>
    BY <1>5 DEF Immortalise
  <2> QED
    BY <1>1, <2>1, <2>2, <2>3, <2>4 DEF LifeTypeOK
<1>6. CASE Mortalise
  BY <1>1, <1>6 DEF Mortalise, LifeTypeOK
<1> QED
  BY <1>2, <1>3, <1>4, <1>5, <1>6

LEMMA TypesOfWorker ==
    ASSUME LifeTypeOK, NEW k \in Clients, NEW again, NEW gone,
           ResumeWorker(k, again, gone)
    PROVE  /\ cycleTask' \in CycleIds \cup {NoTask}
           /\ cycle' \in [CycleIds -> {"wait", "lock", "observing", "ended"}]
           /\ cancelled' \subseteq CycleIds
           /\ session' \in [CycleIds -> Nat]
           /\ metabolic' \in {"wait", "lock", "ended"}
           /\ sync' \in {"burst", "lock", "syncing", "ended"}
<1>1. \/ StartCycle(gone, cycle) /\ StartLoops
      \/ /\ cycleTask' \in {cycleTask, NoTask}
         /\ UNCHANGED <<cycle, cancelled, session, loopVars>>
  BY DEF ResumeWorker
<1>2. CASE StartCycle(gone, cycle) /\ StartLoops
  <2>1. cycle \in [CycleIds -> {"wait", "lock", "observing", "ended"}]
    BY DEF LifeTypeOK
  <2> QED
    BY <1>2, <2>1, TypeOfStart, TypeOfLoops
<1>3. CASE /\ cycleTask' \in {cycleTask, NoTask}
           /\ UNCHANGED <<cycle, cancelled, session, loopVars>>
  BY <1>3 DEF LifeTypeOK
<1> QED
  BY <1>1, <1>2, <1>3

LEMMA TypesOfRequestBody ==
    ASSUME LifeTypeOK, NEW k \in Clients, NEW op, NEW again, NEW gone,
           op = "restore" => payload'[k][1] \in Files,
           RequestBody(k, op, again, gone)
    PROVE  /\ food' \in 0..Full /\ integrity' \in 0..Full
           /\ status' \in {"alive", "dead"} /\ mode' \in {"metabolic", "immortal"}
           /\ cycleTask' \in CycleIds \cup {NoTask}
           /\ cycle' \in [CycleIds -> {"wait", "lock", "observing", "ended"}]
           /\ cancelled' \subseteq CycleIds
           /\ session' \in [CycleIds -> Nat]
           /\ metabolic' \in {"wait", "lock", "ended"}
           /\ sync' \in {"burst", "lock", "syncing", "ended"}
           /\ mind' \in Nat \ {NoMind}
           /\ pool' \in {"none", "active", "ready"}
           /\ saved' \in Seq(Files)
           /\ Len(saved) <= 1 => Len(saved') <= 1
           /\ lateCycles' \in 0..2 /\ lateCharges' \in 0..2
<1>1. CASE op = "give"
  <2>1. GiveBody
    BY <1>1 DEF RequestBody
  <2>2. /\ food' \in {food, Capped(food + 1)}
        /\ integrity' \in {integrity, Capped(integrity + 1)}
    BY <2>1 DEF GiveBody
  <2>3. food' \in 0..Full /\ integrity' \in 0..Full
    <3>1. food \in 0..Full /\ integrity \in 0..Full
      BY DEF LifeTypeOK
    <3> QED
      BY <2>2, <3>1, Levels
  <2>4. UNCHANGED <<status, mode, mindVars, saved, lateCycles, lateCharges,
                    cycleVars, loopVars>>
    BY <2>1 DEF GiveBody
  <2> QED
    BY <2>3, <2>4 DEF LifeTypeOK
<1>2. CASE op # "give"
  <2>1. BarrierBody(k, op, again, gone)
    BY <1>2 DEF RequestBody
  <2>2. /\ cycleTask' \in CycleIds \cup {NoTask}
        /\ cycle' \in [CycleIds -> {"wait", "lock", "observing", "ended"}]
        /\ cancelled' \subseteq CycleIds
        /\ session' \in [CycleIds -> Nat]
        /\ metabolic' \in {"wait", "lock", "ended"}
        /\ sync' \in {"burst", "lock", "syncing", "ended"}
        /\ pool' = "none"
    <3>1. ResumeWorker(k, again, gone) /\ pool' = "none"
      BY <2>1 DEF BarrierBody
    <3> QED
      BY <3>1, TypesOfWorker
  <2>3. CASE ResetBody
    <3>1. LateAfter(lateCycles, lateCharges)
      BY <2>3 DEF ResetBody
    <3>2. lateCycles' \in 0..2 /\ lateCharges' \in 0..2
      BY <3>1, TypeOfLate DEF LifeTypeOK
    <3>3. /\ food' = Full /\ integrity' = Full /\ status' = "alive"
          /\ mode' = mode /\ mind' = mind + 1 /\ saved' = saved
      BY <2>3 DEF ResetBody
    <3>4. /\ Full \in 0..Full
          /\ mode' \in {"metabolic", "immortal"} /\ mind' \in Nat \ {NoMind}
          /\ saved' \in Seq(Files)
      BY <3>3, LifecycleAssumption DEF LifecycleAssumption, LifeTypeOK
    <3> QED
      BY <2>2, <3>2, <3>3, <3>4
  <2>4. CASE CheckpointBody
    <3>1. /\ UNCHANGED <<vitals, mind, lateCycles, lateCharges>>
          /\ saved' = <<[food |-> food, integrity |-> integrity, mode |-> mode]>>
      BY <2>4 DEF CheckpointBody
    <3>2. [food |-> food, integrity |-> integrity, mode |-> mode] \in Files
      BY DEF LifeTypeOK, Files
    <3>3. saved' \in Seq(Files) /\ Len(saved') = 1
      BY <3>1, <3>2
    <3> QED
      BY <2>2, <3>1, <3>3 DEF LifeTypeOK
  <2>5. CASE RestoreBody(k) /\ op = "restore"
    <3>1. payload'[k][1] \in Files
      BY <2>5
    <3>2. /\ food' = payload'[k][1].food
          /\ integrity' = payload'[k][1].integrity
          /\ mode' = payload'[k][1].mode
          /\ UNCHANGED <<status, mind, saved, lateCycles, lateCharges>>
      BY <2>5 DEF RestoreBody
    <3>3. /\ food' \in 0..Full /\ integrity' \in 0..Full
          /\ mode' \in {"metabolic", "immortal"}
      BY <3>1, <3>2 DEF Files
    <3> QED
      BY <2>2, <3>2, <3>3 DEF LifeTypeOK
  <2> QED
    BY <2>1, <2>3, <2>4, <2>5 DEF BarrierBody
<1> QED
  BY <1>1, <1>2

LEMMA TypesOfLocks ==
    ASSUME LifeTypeOK, NEW k \in Clients, NEW op, NEW again, NEW gone,
           op = "restore" => payload'[k][1] \in Files,
           Locks(k, op, again, gone)
    PROVE  /\ food' \in 0..Full /\ integrity' \in 0..Full
           /\ status' \in {"alive", "dead"} /\ mode' \in {"metabolic", "immortal"}
           /\ cycleTask' \in CycleIds \cup {NoTask}
           /\ cycle' \in [CycleIds -> {"wait", "lock", "observing", "ended"}]
           /\ cancelled' \subseteq CycleIds
           /\ session' \in [CycleIds -> Nat]
           /\ metabolic' \in {"wait", "lock", "ended"}
           /\ sync' \in {"burst", "lock", "syncing", "ended"}
           /\ mind' \in Nat \ {NoMind}
           /\ pool' \in {"none", "active", "ready"}
           /\ saved' \in Seq(Files)
           /\ Len(saved) <= 1 => Len(saved') <= 1
           /\ lateCycles' \in 0..2 /\ lateCharges' \in 0..2
<1>1. \/ RequestBody(k, op, again, gone)
      \/ /\ cycleTask' \in {cycleTask, NoTask}
         /\ UNCHANGED <<vitals, mindVars, saved, lateCycles, lateCharges, cycle,
                        cancelled, session, loopVars>>
  BY DEF Locks
<1>2. CASE RequestBody(k, op, again, gone)
  BY <1>2, TypesOfRequestBody
<1>3. CASE /\ cycleTask' \in {cycleTask, NoTask}
           /\ UNCHANGED <<vitals, mindVars, saved, lateCycles, lateCharges,
                          cycle, cancelled, session, loopVars>>
  BY <1>3 DEF LifeTypeOK
<1> QED
  BY <1>1, <1>2, <1>3

LEMMA TypesOfRequests ==
    ASSUME LifeTypeOK, RequestsOK, QueueOK, FlagsOK',
           NEW k \in Clients, RequestStep(k)
    PROVE  LifeTypeOK' /\ RequestsOK'
<1>1. ASSUME NEW op \in Operations \cup {"give"}, NEW again, NEW gone,
             \/ Locks(k, op, again, gone)
             \/ Forgets(k, op)
             \/ /\ RequestBody(k, op, again, gone)
                /\ client' = [client EXCEPT ![k] = "idle"]
                /\ Granted(ClientOf(k)) /\ LeavesLine,
             admin' \in 0..MaxAdmin,
             request' \in {request, [request EXCEPT ![k] = op]},
             request'[k] = op,
             awaited' \in {awaited, [awaited EXCEPT ![k] = 0]},
             payload' \in [Clients -> Seq(Files)],
             op = "restore" => payload'[k] # <<>>,
             \A j \in Clients \ {k} : payload'[j] = payload[j],
             UNCHANGED requestFrame
      PROVE  LifeTypeOK' /\ RequestsOK'
  <2>1. waiters' \in Seq(TaskNames)
    <3>1. \/ waiters' = waiters \/ Joins(ClientOf(k))
          \/ Granted(ClientOf(k)) /\ LeavesLine
      BY <1>1 DEF Locks, Forgets
    <3> QED
      BY <3>1, TypeOfLine, Members DEF LifeTypeOK
  <2>2. client' = [client EXCEPT ![k] = "idle"]
        \/ client' = [client EXCEPT ![k] = "lock"]
        \/ (op = "reset" /\ client' = [client EXCEPT ![k] = "forgetting"])
    BY <1>1 DEF Locks, Forgets
  <2>3. /\ food' \in 0..Full /\ integrity' \in 0..Full
        /\ status' \in {"alive", "dead"} /\ mode' \in {"metabolic", "immortal"}
        /\ cycleTask' \in CycleIds \cup {NoTask}
        /\ cycle' \in [CycleIds -> {"wait", "lock", "observing", "ended"}]
        /\ cancelled' \subseteq CycleIds
        /\ session' \in [CycleIds -> Nat]
        /\ metabolic' \in {"wait", "lock", "ended"}
        /\ sync' \in {"burst", "lock", "syncing", "ended"}
        /\ mind' \in Nat \ {NoMind}
        /\ pool' \in {"none", "active", "ready"}
        /\ saved' \in Seq(Files)
        /\ Len(saved) <= 1 => Len(saved') <= 1
        /\ lateCycles' \in 0..2 /\ lateCharges' \in 0..2
    <3>4. op = "restore" => payload'[k][1] \in Files
      <4>1. ASSUME op = "restore" PROVE payload'[k][1] \in Files
        <5>1. payload'[k] \in Seq(Files) /\ payload'[k] # <<>>
          BY <1>1, <4>1
        <5> QED
          BY <5>1
      <4> QED
        BY <4>1
    <3>1. CASE Locks(k, op, again, gone)
      BY <3>1, <3>4, TypesOfLocks
    <3>2. CASE RequestBody(k, op, again, gone)
      BY <3>2, <3>4, TypesOfRequestBody
    <3>3. CASE Forgets(k, op)
      BY <3>3 DEF Forgets, LifeTypeOK
    <3> QED
      BY <1>1, <3>1, <3>2, <3>3
  <2>4. /\ request' \in [Clients -> Operations \cup {"give"}]
        /\ client' \in [Clients -> {"idle", "cancelling", "forgetting", "lock"}]
        /\ awaited' \in [Clients -> CycleIds \cup {NoTask}]
    BY <1>1, <2>2 DEF LifeTypeOK
  <2>5. UNCHANGED <<holder, socket, stopping, stopped, staleCycles, body>>
    BY <1>1 DEF requestFrame
  <2>6. LifeTypeOK'
    BY <1>1, <2>1, <2>3, <2>4, <2>5 DEF LifeTypeOK
  <2>7. RequestsOK'
    <3>1. Len(saved') <= 1
      BY <2>3 DEF RequestsOK
    <3>2. /\ client[k]' # "cancelling"
          /\ request[k]' = "restore" => payload[k]' # <<>>
          /\ client[k]' = "forgetting" => request[k]' = "reset"
          /\ \A j \in Clients \ {k} :
                /\ client[j]' = client[j] /\ request[j]' = request[j]
                /\ awaited[j]' = awaited[j] /\ payload[j]' = payload[j]
      BY <1>1, <2>2, <2>5 DEF LifeTypeOK
    <3>3. UNCHANGED <<stopping, stopped, running>>
      BY <1>1 DEF requestFrame
    <3> QED
      BY <3>1, <3>2, <3>3 DEF RequestsOK
  <2> QED
    BY <2>6, <2>7
<1>2. Asks => admin' \in 0..MaxAdmin
  BY LifecycleAssumption DEF Asks, LifeTypeOK, LifecycleAssumption
<1>3. admin' = admin => admin' \in 0..MaxAdmin
  BY DEF LifeTypeOK
<1>4. CASE Give(k)
  <2>1. /\ Locks(k, "give", FALSE, FALSE) /\ Asks
        /\ request' = [request EXCEPT ![k] = "give"]
        /\ awaited' = awaited /\ UNCHANGED <<requestFrame, payload>>
    BY <1>4 DEF Give
  <2>2. request'[k] = "give" /\ payload' \in [Clients -> Seq(Files)]
    BY <2>1 DEF LifeTypeOK
  <2> QED
    BY <2>1, <2>2, <1>1, <1>2
<1>5. CASE Suspended(k)
  <2>1. /\ Locks(k, request[k], restart[k], TRUE) \/ Forgets(k, request[k])
        /\ admin' = admin
        /\ request' = request
        /\ awaited' = [awaited EXCEPT ![k] = 0]
        /\ UNCHANGED <<requestFrame, payload>>
        /\ client[k] = "cancelling"
    BY <1>5 DEF Suspended, Proceeds
  <2>2. /\ request[k] \in Operations \cup {"give"}
        /\ request[k] = "restore" => payload'[k] # <<>>
        /\ payload' \in [Clients -> Seq(Files)]
    BY <2>1 DEF LifeTypeOK, RequestsOK
  <2> QED
    BY <2>1, <2>2, <1>1, <1>3
<1>6. CASE RequestGranted(k)
  <2>1. /\ RequestBody(k, request[k], restart[k], FALSE) /\ admin' = admin
        /\ request' = request /\ awaited' = awaited
        /\ client[k] = "lock" /\ client' = [client EXCEPT ![k] = "idle"]
        /\ Granted(ClientOf(k)) /\ LeavesLine
        /\ UNCHANGED <<requestFrame, payload>>
    BY <1>6 DEF RequestGranted
  <2>2. /\ request[k] \in Operations \cup {"give"}
        /\ request[k] = "restore" => payload'[k] # <<>>
        /\ payload' \in [Clients -> Seq(Files)]
    BY <2>1 DEF LifeTypeOK, RequestsOK
  <2> QED
    BY <2>1, <2>2, <1>1, <1>3
<1>9. CASE Forgotten(k)
  <2>1. /\ Locks(k, "reset", restart[k], FALSE) /\ admin' = admin
        /\ request' = request /\ awaited' = awaited
        /\ UNCHANGED <<requestFrame, payload>>
        /\ client[k] = "forgetting"
    BY <1>9 DEF Forgotten
  <2>2. /\ request[k] = "reset" /\ "reset" \in Operations \cup {"give"}
        /\ payload' \in [Clients -> Seq(Files)]
    BY <2>1 DEF LifeTypeOK, RequestsOK
  <2> QED
    BY <2>1, <2>2, <1>1, <1>3
<1>10. ASSUME NEW op \in Operations, AsksBarrier(k, op)
       PROVE  /\ payload' \in [Clients -> Seq(Files)]
              /\ op = "restore" => payload'[k] # <<>>
              /\ \A j \in Clients \ {k} : payload'[j] = payload[j]
              /\ request'[k] = op
  <2>1. /\ op = "restore" => saved # <<>>
        /\ payload' = [payload EXCEPT ![k] = IF op = "restore" THEN saved ELSE <<>>]
        /\ request' = [request EXCEPT ![k] = op]
    BY <1>10 DEF AsksBarrier
  <2>2. (IF op = "restore" THEN saved ELSE <<>>) \in Seq(Files)
    BY DEF LifeTypeOK
  <2>3. payload' \in [Clients -> Seq(Files)]
    BY <2>1, <2>2 DEF LifeTypeOK
  <2>4. payload'[k] = IF op = "restore" THEN saved ELSE <<>>
    BY <2>1 DEF LifeTypeOK
  <2>5. ASSUME op = "restore" PROVE payload'[k] # <<>>
    <3>1. saved # <<>> /\ payload'[k] = saved
      BY <2>1, <2>4, <2>5
    <3> QED
      BY <3>1, Zenon
  <2>6. \A j \in Clients \ {k} : payload'[j] = payload[j]
    BY <2>1 DEF LifeTypeOK
  <2>7. request'[k] = op
    BY <2>1 DEF LifeTypeOK
  <2> QED
    BY <2>3, <2>5, <2>6, <2>7
<1>7. ASSUME NEW op \in Operations, SuspendNone(k, op)
      PROVE  LifeTypeOK' /\ RequestsOK'
  <2>1. /\ Locks(k, op, cycleTask # NoTask, TRUE) \/ Forgets(k, op)
        /\ AsksBarrier(k, op) /\ Asks
        /\ request' = [request EXCEPT ![k] = op]
        /\ awaited' = awaited /\ UNCHANGED requestFrame
    BY <1>7 DEF SuspendNone, Proceeds, AsksBarrier
  <2> QED
    BY <2>1, <1>1, <1>2, <1>10
<1>8. ASSUME NEW op \in Operations, Suspend(k, op)
      PROVE  LifeTypeOK' /\ RequestsOK'
  <2>9. AsksBarrier(k, op)
    BY <1>8 DEF Suspend
  <2>1. /\ Asks /\ op # "give" /\ ~LoopEnded
        /\ request' = [request EXCEPT ![k] = op]
        /\ client' = [client EXCEPT ![k] = "cancelling"]
        /\ awaited' = [awaited EXCEPT ![k] = cycleTask]
        /\ cancelled' = cancelled \cup {cycleTask}
        /\ UNCHANGED <<vitals, lockVars, cycleTask, cycle, session, loopVars,
                       socket, serverVars, mindVars, saved, lateVars, body>>
    BY <1>8 DEF Suspend, AsksBarrier
  <2>2. cycleTask \in CycleIds
    BY <2>1 DEF LoopEnded
  <2>4. payload' \in [Clients -> Seq(Files)]
    BY <2>9, <1>10
  <2>5. /\ request' \in [Clients -> Operations \cup {"give"}]
        /\ client' \in [Clients -> {"idle", "cancelling", "forgetting", "lock"}]
        /\ awaited' \in [Clients -> CycleIds \cup {NoTask}]
        /\ cancelled' \subseteq CycleIds
    BY <2>1, <2>2 DEF LifeTypeOK
  <2>6. /\ request'[k] = op /\ awaited'[k] = cycleTask
        /\ op = "restore" => payload'[k] # <<>>
        /\ \A j \in Clients \ {k} :
              /\ client'[j] = client[j] /\ request'[j] = request[j]
              /\ awaited'[j] = awaited[j] /\ payload'[j] = payload[j]
    <3>1. /\ op = "restore" => payload'[k] # <<>>
          /\ \A j \in Clients \ {k} : payload'[j] = payload[j]
      BY <2>9, <1>10
    <3> QED
      BY <2>1, <3>1 DEF LifeTypeOK
  <2>8. LifeTypeOK'
    <3>1. /\ admin' \in 0..MaxAdmin
          /\ UNCHANGED <<vitals, lockVars, cycleTask, cycle, session, loopVars,
                         socket, stopping, stopped, mind, pool, saved, lateVars,
                         body>>
      BY <2>1, <1>2
    <3> QED
      BY <3>1, <2>4, <2>5 DEF LifeTypeOK
  <2>7. RequestsOK'
    <3>1. UNCHANGED <<saved, stopping, stopped, running>>
      BY <2>1
    <3>2. client' = [client EXCEPT ![k] = "cancelling"] /\ op # "give"
      BY <2>1
    <3>3. client'[k] = "cancelling"
      BY <3>2 DEF LifeTypeOK
    <3> QED
      BY <3>1, <3>2, <3>3, <2>2, <2>6 DEF RequestsOK
  <2> QED
    BY <2>7, <2>8
<1> QED
  BY <1>4, <1>5, <1>6, <1>7, <1>8, <1>9 DEF RequestStep

LEMMA TypesOfTheBody ==
    ASSUME LifeTypeOK, QueueOK, FlagsOK',
           SessionReady \/ \E s \in Sockets :
               Handshake(s) \/ Accepted(s) \/ Disconnect(s) \/ Observe(s)
               \/ ObserveGranted(s)
    PROVE  LifeTypeOK'
<1>1. CASE SessionReady
  BY <1>1 DEF SessionReady, LifeTypeOK
<1>2. ASSUME NEW s \in Sockets, Handshake(s)
      PROVE  LifeTypeOK'
  BY <1>2, LifecycleAssumption DEF Handshake, LifeTypeOK, LifecycleAssumption
<1>3. ASSUME NEW s \in Sockets, Disconnect(s)
      PROVE  LifeTypeOK'
  BY <1>3 DEF Disconnect, LifeTypeOK
<1>4. ASSUME NEW s \in Sockets, Accepted(s)
      PROVE  LifeTypeOK'
  <2>1. /\ EnsureFrom(cycle) /\ socket' = [socket EXCEPT ![s] = "open"]
        /\ UNCHANGED <<vitals, lockVars, client, request, awaited, payload,
                       stopping, stopped, mind, pool, saved, lateVars, budget>>
    BY <1>4 DEF Accepted, Ensure
  <2>2. cycle \in [CycleIds -> {"wait", "lock", "observing", "ended"}]
    BY DEF LifeTypeOK
  <2>3. /\ cycleTask' \in CycleIds \cup {NoTask}
        /\ cycle' \in [CycleIds -> {"wait", "lock", "observing", "ended"}]
        /\ cancelled' \subseteq CycleIds
        /\ session' \in [CycleIds -> Nat]
        /\ metabolic' \in {"wait", "lock", "ended"}
        /\ sync' \in {"burst", "lock", "syncing", "ended"}
    BY <2>1, <2>2, TypeOfEnsure
  <2> QED
    BY <2>1, <2>3 DEF LifeTypeOK
<1>5. ASSUME NEW s \in Sockets, Senses(s)
      PROVE  /\ food' \in 0..Full /\ integrity' \in 0..Full
             /\ status' \in {"alive", "dead"}
             /\ lateCycles' \in 0..2 /\ lateCharges' \in 0..2
             /\ pool' \in {pool, "active"}
             /\ socket' = [socket EXCEPT ![s] = "open"]
  <2>1. /\ food \in 0..Full /\ integrity \in 0..Full
        /\ lateCycles \in 0..2 /\ lateCharges \in 0..2
    BY DEF LifeTypeOK
  <2>2. \E f, i \in 0..Full : CheckDeath(f, i)
    BY <1>5, <2>1, Levels DEF Senses, Sensed
  <2>3. /\ LateAfter(lateCycles, lateCharges) /\ pool' \in {pool, "active"}
        /\ socket' = [socket EXCEPT ![s] = "open"]
    BY <1>5 DEF Senses
  <2>4. lateCycles' \in 0..2 /\ lateCharges' \in 0..2
    BY <2>1, <2>3, TypeOfLate
  <2> QED
    BY <2>2, <2>3, <2>4, TypeOfDeath
<1>6. ASSUME NEW s \in Sockets, Observe(s) \/ ObserveGranted(s)
      PROVE  LifeTypeOK'
  <2>1. waiters' \in Seq(TaskNames)
    <3>1. \/ waiters' = waiters \/ Joins(SocketOf(s))
          \/ Granted(SocketOf(s)) /\ LeavesLine
      BY <1>6 DEF Observe, ObserveGranted
    <3> QED
      BY <3>1, TypeOfLine, Members DEF LifeTypeOK
  <2>2. /\ food' \in 0..Full /\ integrity' \in 0..Full
        /\ status' \in {"alive", "dead"}
        /\ lateCycles' \in 0..2 /\ lateCharges' \in 0..2
        /\ pool' \in {pool, "active"}
        /\ socket' \in [Sockets -> {"gone", "accepting", "open", "lock"}]
    <3>1. \/ Senses(s)
          \/ /\ socket' = [socket EXCEPT ![s] = "lock"]
             /\ UNCHANGED <<status, reservoirs, lateCycles, lateCharges, pool>>
      BY <1>6 DEF Observe, ObserveGranted
    <3>2. CASE Senses(s)
      BY <3>2, <1>5 DEF LifeTypeOK
    <3>3. CASE /\ socket' = [socket EXCEPT ![s] = "lock"]
               /\ UNCHANGED <<status, reservoirs, lateCycles, lateCharges, pool>>
      BY <3>3 DEF LifeTypeOK
    <3> QED
      BY <3>1, <3>2, <3>3
  <2>3. body' \in 0..MaxBody
    BY <1>6, LifecycleAssumption
       DEF Observe, ObserveGranted, LifeTypeOK, LifecycleAssumption
  <2>4. UNCHANGED <<mode, holder, cycleVars, loopVars, client, request, awaited,
                    payload, stopping, stopped, mind, saved, staleCycles, admin>>
    BY <1>6 DEF Observe, ObserveGranted, sensesFrame
  <2> QED
    BY <2>1, <2>2, <2>3, <2>4 DEF LifeTypeOK
<1> QED
  BY <1>1, <1>2, <1>3, <1>4, <1>6

LEMMA TypesOfStops ==
    ASSUME LifeTypeOK, QueueOK, FlagsOK',
           Stop \/ StopSync \/ StopMetabolic \/ StopCycle
    PROVE  LifeTypeOK'
<1>1. CASE Stop
  BY <1>1, LifecycleAssumption DEF Stop, Asks, LifeTypeOK, LifecycleAssumption
<1>2. CASE StopSync
  <2>1. Without(waiters, Consolidator) \in Seq(TaskNames)
    BY TypeOfLine
  <2> QED
    BY <1>2, <2>1 DEF StopSync, stopFrame, LifeTypeOK
<1>3. CASE StopMetabolic
  <2>1. waiters' \in Seq(TaskNames)
    BY <1>3, TypeOfLine DEF StopMetabolic
  <2>2. /\ stopping' \in {"closed", "cycle"} /\ stopped' \in {stopped, cycleTask}
        /\ cancelled' \subseteq CycleIds
    BY <1>3 DEF StopMetabolic, LoopEnded, LifeTypeOK
  <2>3. /\ metabolic' = "ended"
        /\ UNCHANGED <<stopFrame, holder, cycleTask, cycle, session, sync, admin>>
    BY <1>3 DEF StopMetabolic
  <2> QED
    BY <2>1, <2>2, <2>3 DEF stopFrame, LifeTypeOK
<1>4. CASE StopCycle
  BY <1>4 DEF StopCycle, stopFrame, LifeTypeOK
<1> QED
  BY <1>1, <1>2, <1>3, <1>4

LEMMA RequestsKept ==
    ASSUME LifeTypeOK, RequestsOK, [Next]_vars,
           \A k \in Clients : ~RequestStep(k)
    PROVE  RequestsOK'
<1>1. UNCHANGED clientVars /\ saved' = saved
  BY DEF Next, vars, MetabolicTick, MetabolicCharges, MetabolicEnds, SyncBegins,
         SyncGranted, SyncDone, SyncEnds, CycleStep, CycleEnds, CycleSkips,
         CycleDeliberates, CycleGranted, CycleObserved, CycleCancelled,
         SoakRevive, Revives, Pause, Resume, Revive, Immortalise, Mortalise,
         Handshake, Accepted, Disconnect, Observe, ObserveGranted, sensesFrame,
         SessionReady, Stop, StopSync, StopMetabolic, StopCycle, stopFrame
<1>2. \/ Stop \/ StopSync \/ StopMetabolic \/ StopCycle
      \/ UNCHANGED <<stopping, stopped, running>>
  BY DEF Next, vars, MetabolicTick, MetabolicCharges, MetabolicEnds, SyncBegins,
         SyncGranted, SyncDone, SyncEnds, CycleStep, CycleEnds, CycleSkips,
         CycleDeliberates, CycleGranted, CycleObserved, CycleCancelled,
         SoakRevive, Revives, Pause, Resume, Revive, Immortalise, Mortalise,
         Handshake, Accepted, Disconnect, Observe, ObserveGranted, sensesFrame,
         SessionReady
<1>3. /\ stopping' # "no" => ~running'
      /\ stopping' = "cycle" => stopped' \in CycleIds
  <2>1. CASE UNCHANGED <<stopping, stopped, running>>
    BY <2>1 DEF RequestsOK
  <2>2. CASE Stop
    BY <2>2 DEF Stop
  <2>3. CASE StopSync \/ StopCycle
    BY <2>3 DEF StopSync, StopCycle, RequestsOK
  <2>4. CASE StopMetabolic
    BY <2>4 DEF StopMetabolic, LoopEnded, RequestsOK
  <2> QED
    BY <1>2, <2>1, <2>2, <2>3, <2>4
<1> QED
  BY <1>1, <1>3 DEF RequestsOK

-----------------------------------------------------------------------------
(* The line for the lock, and its owner.                                   *)

Adds(t) ==
    /\ \A c \in CycleIds :
          cycle'[c] = "lock" <=> cycle[c] = "lock" \/ t = CycleOf(c)
    /\ \A k \in Clients :
          client'[k] = "lock" <=> client[k] = "lock" \/ t = ClientOf(k)
    /\ \A s \in Sockets :
          socket'[s] = "lock" <=> socket[s] = "lock" \/ t = SocketOf(s)
    /\ metabolic' = "lock" <=> metabolic = "lock" \/ t = Metabolism
    /\ sync' = "lock" <=> sync = "lock" \/ t = Consolidator

Drops(t) ==
    /\ \A c \in CycleIds :
          cycle'[c] = "lock" <=> cycle[c] = "lock" /\ t # CycleOf(c)
    /\ \A k \in Clients :
          client'[k] = "lock" <=> client[k] = "lock" /\ t # ClientOf(k)
    /\ \A s \in Sockets :
          socket'[s] = "lock" <=> socket[s] = "lock" /\ t # SocketOf(s)
    /\ metabolic' = "lock" <=> metabolic = "lock" /\ t # Metabolism
    /\ sync' = "lock" <=> sync = "lock" /\ t # Consolidator

KeepsPlaces ==
    /\ \A c \in CycleIds : cycle'[c] = "lock" <=> cycle[c] = "lock"
    /\ \A k \in Clients : client'[k] = "lock" <=> client[k] = "lock"
    /\ \A s \in Sockets : socket'[s] = "lock" <=> socket[s] = "lock"
    /\ metabolic' = "lock" <=> metabolic = "lock"
    /\ sync' = "lock" <=> sync = "lock"

LEMMA LineAfterJoin ==
    ASSUME LifeTypeOK, QueueOK, NEW t \in TaskNames, Joins(t),
           t \notin Elems(waiters), Adds(t)
    PROVE  QueueOK'
<1>1. waiters \in Seq(TaskNames) /\ Distinct(waiters)
  BY DEF LifeTypeOK, QueueOK
<1>2. waiters' = Append(waiters, t)
  BY DEF Joins
<1>3. Distinct(waiters') /\ Elems(waiters') = Elems(waiters) \cup {t}
  BY <1>1, <1>2, JoiningLine
<1>4. Distinct(waiters)' /\ Elems(waiters)' = Elems(waiters) \cup {t}
  BY <1>3 DEF Distinct, Elems
<1> QED
  BY <1>4 DEF QueueOK, Adds

LEMMA LineAfterGrant ==
    ASSUME LifeTypeOK, QueueOK, NEW t, Granted(t), LeavesLine, Drops(t)
    PROVE  QueueOK'
<1>1. waiters \in Seq(TaskNames) /\ Distinct(waiters) /\ waiters # <<>>
      /\ t = Head(waiters)
  BY DEF LifeTypeOK, QueueOK, Granted
<1>2. waiters' = Tail(waiters)
  BY DEF LeavesLine
<1>3. Distinct(waiters') /\ Elems(waiters') = Elems(waiters) \ {t}
  BY <1>1, <1>2, LeavingLine
<1>4. Distinct(waiters)' /\ Elems(waiters)' = Elems(waiters) \ {t}
  BY <1>3 DEF Distinct, Elems
<1> QED
  BY <1>4 DEF QueueOK, Drops

LEMMA LineAfterCancel ==
    ASSUME LifeTypeOK, QueueOK, NEW t, waiters' = Without(waiters, t), Drops(t)
    PROVE  QueueOK'
<1>1. waiters \in Seq(TaskNames) /\ Distinct(waiters)
  BY DEF LifeTypeOK, QueueOK
<1>2. Distinct(waiters') /\ Elems(waiters') = Elems(waiters) \ {t}
  BY <1>1, CancellingInLine
<1>3. Distinct(waiters)' /\ Elems(waiters)' = Elems(waiters) \ {t}
  BY <1>2 DEF Distinct, Elems
<1> QED
  BY <1>3 DEF QueueOK, Drops

LEMMA LineUntouched ==
    ASSUME QueueOK, waiters' = waiters, KeepsPlaces
    PROVE  QueueOK'
  BY DEF QueueOK, KeepsPlaces, Distinct, Elems

LEMMA OwnerUntouched ==
    ASSUME HolderOK, holder' = holder,
           sync' = "syncing" <=> sync = "syncing",
           \A c \in CycleIds : cycle'[c] = "observing" <=> cycle[c] = "observing"
    PROVE  HolderOK'
  BY DEF HolderOK

LEMMA PlacesAfterStart ==
    ASSUME LifeTypeOK, NEW gone,
           NEW places \in [CycleIds -> {"wait", "lock", "observing", "ended"}],
           \A c \in CycleIds : cycle[c] = "ended" =>
                                  places[c] \in {"wait", "ended"},
           StartCycle(gone, places)
    PROVE  \A c \in CycleIds :
              /\ cycle'[c] = "lock" <=> places[c] = "lock"
              /\ cycle'[c] = "observing" <=> places[c] = "observing"
<1>1. CASE gone \/ LoopEnded
  <2>1. Fresh \in CycleIds /\ cycle[Fresh] = "ended"
    BY <1>1 DEF StartCycle, Fresh, Unused
  <2>2. cycle' = [places EXCEPT ![Fresh] = AfterTest]
    BY <1>1 DEF StartCycle
  <2> QED
    BY <2>1, <2>2, TypeOfTest
<1>2. CASE ~(gone \/ LoopEnded)
  BY <1>2 DEF StartCycle
<1> QED
  BY <1>1, <1>2

LEMMA PlacesAfterLoops ==
    ASSUME StartLoops
    PROVE  /\ metabolic' = "lock" <=> metabolic = "lock"
           /\ sync' = "lock" <=> sync = "lock"
           /\ sync' = "syncing" <=> sync = "syncing"
  BY DEF StartLoops

LEMMA LineAfterEnsure ==
    ASSUME LifeTypeOK, QueueOK, HolderOK,
           NEW places \in [CycleIds -> {"wait", "lock", "observing", "ended"}],
           \A c \in CycleIds : places[c] = cycle[c]
                                  \/ {cycle[c], places[c]} \subseteq {"wait", "ended"},
           EnsureFrom(places), UNCHANGED lockVars, UNCHANGED client,
           \A s \in Sockets : socket'[s] = "lock" <=> socket[s] = "lock"
    PROVE  QueueOK' /\ HolderOK'
<1>1. StartCycle(FALSE, places) /\ StartLoops
  BY DEF EnsureFrom
<1>2. \A c \in CycleIds : cycle[c] = "ended" => places[c] \in {"wait", "ended"}
  OBVIOUS
<1>3. \A c \in CycleIds :
         /\ cycle'[c] = "lock" <=> places[c] = "lock"
         /\ cycle'[c] = "observing" <=> places[c] = "observing"
  BY <1>1, <1>2, PlacesAfterStart
<1>4. \A c \in CycleIds : /\ places[c] = "lock" <=> cycle[c] = "lock"
                          /\ places[c] = "observing" <=> cycle[c] = "observing"
  OBVIOUS
<1>5. KeepsPlaces
  BY <1>1, <1>3, <1>4, PlacesAfterLoops DEF KeepsPlaces
<1> QED
  BY <1>1, <1>3, <1>4, <1>5, LineUntouched, OwnerUntouched, PlacesAfterLoops

LEMMA LineAfterLoops ==
    ASSUME LifeTypeOK, QueueOK, HolderOK,
           MetabolicTick \/ MetabolicCharges \/ MetabolicEnds
           \/ SyncBegins \/ SyncGranted \/ SyncDone \/ SyncEnds
    PROVE  QueueOK' /\ HolderOK'
<1>1. UNCHANGED <<cycle, client, socket>>
  BY DEF MetabolicTick, MetabolicCharges, MetabolicEnds, SyncBegins,
         SyncGranted, SyncDone, SyncEnds
<1>2. CASE MetabolicTick \/ MetabolicCharges \/ MetabolicEnds
  <2>1. UNCHANGED <<holder, sync>>
    BY <1>2 DEF MetabolicTick, MetabolicCharges, MetabolicEnds
  <2>2. HolderOK'
    BY <1>1, <2>1, OwnerUntouched
  <2>3. \/ waiters' = waiters /\ (metabolic' = "lock" <=> metabolic = "lock")
        \/ Joins(Metabolism) /\ metabolic = "wait" /\ metabolic' = "lock"
        \/ Granted(Metabolism) /\ LeavesLine /\ metabolic' = "wait"
    BY <1>2 DEF MetabolicTick, MetabolicCharges, MetabolicEnds, Charge
  <2>4. CASE waiters' = waiters /\ (metabolic' = "lock" <=> metabolic = "lock")
    BY <1>1, <2>1, <2>2, <2>4, LineUntouched DEF KeepsPlaces
  <2>5. CASE Joins(Metabolism) /\ metabolic = "wait" /\ metabolic' = "lock"
    <3>1. Metabolism \notin Elems(waiters)
      BY <2>5 DEF QueueOK
    <3>2. Adds(Metabolism)
      BY <1>1, <2>1, <2>5, Names DEF Adds
    <3> QED
      BY <2>2, <2>5, <3>1, <3>2, Members, LineAfterJoin
  <2>6. CASE Granted(Metabolism) /\ LeavesLine /\ metabolic' = "wait"
    <3>1. Drops(Metabolism)
      BY <1>1, <2>1, <2>6, Names DEF Drops
    <3> QED
      BY <2>2, <2>6, <3>1, LineAfterGrant
  <2> QED
    BY <2>3, <2>4, <2>5, <2>6
<1>3. CASE SyncBegins \/ SyncGranted \/ SyncDone \/ SyncEnds
  <2>1. metabolic' = metabolic
    BY <1>3 DEF SyncBegins, SyncGranted, SyncDone, SyncEnds
  <2>2. HolderOK'
    <3>1. \/ holder = Free /\ holder' = Consolidator /\ sync' = "syncing"
          \/ /\ holder' = holder /\ sync # "syncing" /\ sync' # "syncing"
          \/ /\ sync = "syncing" /\ holder' = Free /\ sync' = "burst"
      BY <1>3 DEF SyncBegins, SyncGranted, SyncDone, SyncEnds, Uncontended,
                  Granted
    <3> QED
      BY <3>1, <1>1, Names DEF HolderOK
  <2>3. \/ waiters' = waiters /\ sync # "lock" /\ sync' # "lock"
        \/ Joins(Consolidator) /\ sync = "burst" /\ sync' = "lock"
        \/ Granted(Consolidator) /\ LeavesLine /\ sync' = "syncing"
    BY <1>3 DEF SyncBegins, SyncGranted, SyncDone, SyncEnds
  <2>4. CASE waiters' = waiters /\ sync # "lock" /\ sync' # "lock"
    BY <1>1, <2>1, <2>2, <2>4, LineUntouched DEF KeepsPlaces
  <2>5. CASE Joins(Consolidator) /\ sync = "burst" /\ sync' = "lock"
    <3>1. Consolidator \notin Elems(waiters)
      BY <2>5 DEF QueueOK
    <3>2. Adds(Consolidator)
      BY <1>1, <2>1, <2>5, Names DEF Adds
    <3> QED
      BY <2>2, <2>5, <3>1, <3>2, Members, LineAfterJoin
  <2>6. CASE Granted(Consolidator) /\ LeavesLine /\ sync' = "syncing"
    <3>1. Drops(Consolidator)
      BY <1>1, <2>1, <2>6, Names DEF Drops
    <3> QED
      BY <2>2, <2>6, <3>1, LineAfterGrant
  <2> QED
    BY <2>3, <2>4, <2>5, <2>6
<1> QED
  BY <1>2, <1>3

LEMMA OwnerUnderLock ==
    ASSUME LifeTypeOK, HolderOK, NEW c \in CycleIds, NEW m, UnderLock(c, m),
           holder = Free, sync' = sync
    PROVE  /\ HolderOK'
           /\ cycle'[c] # "lock"
           /\ \A x \in CycleIds \ {c} : cycle'[x] = cycle[x]
<1>1. sync # "syncing" /\ \A x \in CycleIds : cycle[x] # "observing"
  BY Names DEF HolderOK
<1>2. CASE Observes(c)
  <2>1. holder' = CycleOf(c) /\ cycle' = [cycle EXCEPT ![c] = "observing"]
    BY <1>2 DEF Observes, Goes
  <2>2. /\ cycle'[c] = "observing"
        /\ \A x \in CycleIds \ {c} : cycle'[x] = cycle[x]
    BY <2>1 DEF LifeTypeOK
  <2>3. HolderOK'
    BY <1>1, <2>1, <2>2, Names DEF HolderOK
  <2> QED
    BY <2>2, <2>3
<1>3. CASE Deliberates(c, m)
  <2>1. holder' = Free /\ cycle' = [cycle EXCEPT ![c] = AfterTest]
    BY <1>3 DEF Deliberates, Goes
  <2>2. /\ cycle'[c] \in {"wait", "ended"}
        /\ \A x \in CycleIds \ {c} : cycle'[x] = cycle[x]
    BY <2>1, TypeOfTest DEF LifeTypeOK
  <2>3. HolderOK'
    BY <1>1, <2>1, <2>2, Names DEF HolderOK
  <2> QED
    BY <2>2, <2>3
<1> QED
  BY <1>2, <1>3 DEF UnderLock

LEMMA LineAfterCycle ==
    ASSUME LifeTypeOK, QueueOK, HolderOK, NEW c \in CycleIds, CycleStep(c)
    PROVE  QueueOK' /\ HolderOK'
<1>1. CASE SoakRevive(c)
  <2> DEFINE places == [cycle EXCEPT ![c] = AfterTest]
  <2>1. /\ EnsureFrom(places) /\ UNCHANGED <<lockVars, client, socket>>
        /\ cycle[c] = "wait"
    BY <1>1 DEF SoakRevive, Revives, At
  <2>2. /\ places \in [CycleIds -> {"wait", "lock", "observing", "ended"}]
        /\ \A x \in CycleIds : places[x] = cycle[x]
                                  \/ {cycle[x], places[x]} \subseteq {"wait", "ended"}
    BY <2>1, TypeOfTest DEF LifeTypeOK
  <2> QED
    BY <2>1, <2>2, LineAfterEnsure
<1>2. CASE CycleEnds(c) \/ CycleSkips(c)
  <2>1. /\ cycle' \in {[cycle EXCEPT ![c] = AfterTest],
                      [cycle EXCEPT ![c] = "ended"]}
        /\ UNCHANGED <<lockVars, client, socket, loopVars>>
        /\ cycle[c] = "wait"
    BY <1>2 DEF CycleEnds, CycleSkips, Goes, At
  <2>2. \A x \in CycleIds : /\ cycle'[x] = "lock" <=> cycle[x] = "lock"
                            /\ cycle'[x] = "observing" <=> cycle[x] = "observing"
    BY <2>1, TypeOfTest DEF LifeTypeOK
  <2> QED
    BY <2>1, <2>2, LineUntouched, OwnerUntouched DEF KeepsPlaces
<1>3. CASE CycleObserved(c)
  <2>1. /\ cycle[c] = "observing" /\ holder' = Free
        /\ cycle' = [cycle EXCEPT ![c] = AfterTest]
        /\ UNCHANGED <<waiters, client, socket, loopVars>>
    BY <1>3 DEF CycleObserved, Goes, At
  <2>2. /\ cycle'[c] \in {"wait", "ended"}
        /\ \A x \in CycleIds \ {c} : cycle'[x] = cycle[x]
    BY <2>1, TypeOfTest DEF LifeTypeOK
  <2>3. HolderOK'
    BY <2>1, <2>2, Names DEF HolderOK
  <2>4. KeepsPlaces
    BY <2>1, <2>2 DEF KeepsPlaces
  <2> QED
    BY <2>1, <2>3, <2>4, LineUntouched
<1>4. CASE CycleCancelled(c)
  <2>1. /\ cycle' = [cycle EXCEPT ![c] = "ended"]
        /\ holder' = IF holder = CycleOf(c) THEN Free ELSE holder
        /\ waiters' = Without(waiters, CycleOf(c))
        /\ UNCHANGED <<client, socket, loopVars>>
    BY <1>4 DEF CycleCancelled, Goes
  <2>2. /\ cycle'[c] = "ended"
        /\ \A x \in CycleIds \ {c} : cycle'[x] = cycle[x]
    BY <2>1 DEF LifeTypeOK
  <2>3. HolderOK'
    BY <2>1, <2>2, Names DEF HolderOK
  <2>4. Drops(CycleOf(c))
    BY <2>1, <2>2, Names DEF Drops
  <2> QED
    BY <2>1, <2>3, <2>4, LineAfterCancel
<1>5. CASE CycleGranted(c)
  <2>1. /\ UnderLock(c, session[c]) /\ Granted(CycleOf(c)) /\ LeavesLine
        /\ holder = Free /\ UNCHANGED <<client, socket, loopVars>>
    BY <1>5 DEF CycleGranted, Granted
  <2>2. /\ HolderOK' /\ cycle'[c] # "lock"
        /\ \A x \in CycleIds \ {c} : cycle'[x] = cycle[x]
    BY <2>1, OwnerUnderLock
  <2>3. Drops(CycleOf(c))
    BY <2>1, <2>2, Names DEF Drops
  <2> QED
    BY <2>1, <2>2, <2>3, LineAfterGrant
<1>6. CASE CycleDeliberates(c)
  <2> DEFINE m == IF pool = "ready" THEN mind ELSE NoMind
  <2>1. /\ cycle[c] = "wait" /\ UNCHANGED <<client, socket, loopVars>>
        /\ \/ Uncontended /\ UnderLock(c, m) /\ UNCHANGED waiters
           \/ /\ Joins(CycleOf(c)) /\ holder' = holder
              /\ cycle' = [cycle EXCEPT ![c] = "lock"]
    BY <1>6 DEF CycleDeliberates, At, Goes
  <2>2. CASE Uncontended /\ UnderLock(c, m) /\ UNCHANGED waiters
    <3>1. /\ HolderOK' /\ cycle'[c] # "lock"
          /\ \A x \in CycleIds \ {c} : cycle'[x] = cycle[x]
      BY <2>1, <2>2, OwnerUnderLock DEF Uncontended
    <3>2. KeepsPlaces
      BY <2>1, <3>1 DEF KeepsPlaces
    <3> QED
      BY <2>2, <3>1, <3>2, LineUntouched
  <2>3. CASE /\ Joins(CycleOf(c)) /\ holder' = holder
             /\ cycle' = [cycle EXCEPT ![c] = "lock"]
    <3>1. /\ cycle'[c] = "lock"
          /\ \A x \in CycleIds \ {c} : cycle'[x] = cycle[x]
      BY <2>3 DEF LifeTypeOK
    <3>2. HolderOK'
      BY <2>1, <2>3, <3>1, OwnerUntouched
    <3>3. Adds(CycleOf(c))
      BY <2>1, <3>1, Names DEF Adds
    <3>4. CycleOf(c) \notin Elems(waiters) /\ CycleOf(c) \in TaskNames
      BY <2>1, Members DEF QueueOK
    <3> QED
      BY <2>3, <3>2, <3>3, <3>4, LineAfterJoin
  <2> QED
    BY <2>1, <2>2, <2>3
<1> QED
  BY <1>1, <1>2, <1>3, <1>4, <1>5, <1>6 DEF CycleStep

LEMMA LineAfterOrders ==
    ASSUME LifeTypeOK, QueueOK, HolderOK,
           Pause \/ Resume \/ Revive \/ Immortalise \/ Mortalise
    PROVE  QueueOK' /\ HolderOK'
<1>1. UNCHANGED <<lockVars, client, socket>>
  BY DEF Pause, Resume, Revive, Revives, Immortalise, Mortalise
<1>2. UNCHANGED <<cycle, loopVars>> \/ EnsureFrom(cycle)
  BY DEF Pause, Resume, Revive, Revives, Immortalise, Mortalise, Ensure
<1>3. CASE UNCHANGED <<cycle, loopVars>>
  BY <1>1, <1>3, LineUntouched, OwnerUntouched DEF KeepsPlaces
<1>4. CASE EnsureFrom(cycle)
  <2>1. cycle \in [CycleIds -> {"wait", "lock", "observing", "ended"}]
    BY DEF LifeTypeOK
  <2> QED
    BY <1>1, <1>4, <2>1, LineAfterEnsure
<1> QED
  BY <1>2, <1>3, <1>4

LEMMA PlacesAfterRequestBody ==
    ASSUME LifeTypeOK, NEW k \in Clients, NEW op, NEW again, NEW gone,
           RequestBody(k, op, again, gone)
    PROVE  /\ \A c \in CycleIds :
                 /\ cycle'[c] = "lock" <=> cycle[c] = "lock"
                 /\ cycle'[c] = "observing" <=> cycle[c] = "observing"
           /\ metabolic' = "lock" <=> metabolic = "lock"
           /\ sync' = "lock" <=> sync = "lock"
           /\ sync' = "syncing" <=> sync = "syncing"
<1>1. \/ StartCycle(gone, cycle) /\ StartLoops
      \/ UNCHANGED <<cycle, loopVars>>
  BY DEF RequestBody, GiveBody, BarrierBody, ResumeWorker
<1>2. CASE StartCycle(gone, cycle) /\ StartLoops
  <2>1. cycle \in [CycleIds -> {"wait", "lock", "observing", "ended"}]
    BY DEF LifeTypeOK
  <2> QED
    BY <1>2, <2>1, PlacesAfterStart, PlacesAfterLoops
<1> QED
  BY <1>1, <1>2

LEMMA LineAfterRequests ==
    ASSUME LifeTypeOK, QueueOK, HolderOK, NEW k \in Clients, RequestStep(k)
    PROVE  QueueOK' /\ HolderOK'
<1>1. ASSUME NEW op, NEW again, NEW gone, client[k] # "lock",
             Locks(k, op, again, gone) \/ Forgets(k, op),
             UNCHANGED <<holder, socket>>
      PROVE  QueueOK' /\ HolderOK'
  <2>1. CASE RequestBody(k, op, again, gone) /\ waiters' = waiters
             /\ client' = [client EXCEPT ![k] = "idle"]
    <3>1. /\ \A c \in CycleIds :
                /\ cycle'[c] = "lock" <=> cycle[c] = "lock"
                /\ cycle'[c] = "observing" <=> cycle[c] = "observing"
          /\ metabolic' = "lock" <=> metabolic = "lock"
          /\ sync' = "lock" <=> sync = "lock"
          /\ sync' = "syncing" <=> sync = "syncing"
      BY <2>1, PlacesAfterRequestBody
    <3>2. \A j \in Clients : client'[j] = "lock" <=> client[j] = "lock"
      BY <1>1, <2>1 DEF LifeTypeOK
    <3>3. KeepsPlaces
      BY <1>1, <3>1, <3>2 DEF KeepsPlaces
    <3> QED
      BY <1>1, <2>1, <3>1, <3>3, LineUntouched, OwnerUntouched
  <2>2. CASE Joins(ClientOf(k)) /\ client' = [client EXCEPT ![k] = "lock"]
             /\ UNCHANGED <<cycle, loopVars>>
    <3>1. \A j \in Clients : client'[j] = "lock" <=> client[j] = "lock" \/ j = k
      BY <1>1, <2>2 DEF LifeTypeOK
    <3>2. Adds(ClientOf(k))
      BY <1>1, <2>2, <3>1, Names DEF Adds
    <3>3. ClientOf(k) \notin Elems(waiters) /\ ClientOf(k) \in TaskNames
      BY <1>1, Members DEF QueueOK
    <3> QED
      BY <1>1, <2>2, <3>2, <3>3, LineAfterJoin, OwnerUntouched
  <2>3. CASE Forgets(k, op)
    <3>1. /\ UNCHANGED <<waiters, cycle, loopVars>>
          /\ client' = [client EXCEPT ![k] = "forgetting"]
      BY <2>3 DEF Forgets
    <3>2. \A j \in Clients : client'[j] = "lock" <=> client[j] = "lock"
      BY <1>1, <3>1 DEF LifeTypeOK
    <3> QED
      BY <1>1, <3>1, <3>2, LineUntouched, OwnerUntouched DEF KeepsPlaces
  <2> QED
    BY <1>1, <2>1, <2>2, <2>3 DEF Locks
<1>2. CASE RequestGranted(k)
  <2>1. /\ RequestBody(k, request[k], restart[k], FALSE)
        /\ client[k] = "lock" /\ client' = [client EXCEPT ![k] = "idle"]
        /\ Granted(ClientOf(k)) /\ LeavesLine /\ UNCHANGED <<holder, socket>>
    BY <1>2 DEF RequestGranted, requestFrame
  <2>2. /\ \A c \in CycleIds :
              /\ cycle'[c] = "lock" <=> cycle[c] = "lock"
              /\ cycle'[c] = "observing" <=> cycle[c] = "observing"
        /\ metabolic' = "lock" <=> metabolic = "lock"
        /\ sync' = "lock" <=> sync = "lock"
        /\ sync' = "syncing" <=> sync = "syncing"
    BY <2>1, PlacesAfterRequestBody
  <2>3. \A j \in Clients : client'[j] = "lock" <=> client[j] = "lock" /\ j # k
    BY <2>1 DEF LifeTypeOK
  <2>4. Drops(ClientOf(k))
    BY <2>1, <2>2, <2>3, Names DEF Drops
  <2> QED
    BY <2>1, <2>2, <2>4, LineAfterGrant, OwnerUntouched
<1>3. CASE Give(k)
  <2>1. /\ Locks(k, "give", FALSE, FALSE) /\ client[k] # "lock"
        /\ UNCHANGED <<holder, socket>>
    BY <1>3 DEF Give, requestFrame
  <2> QED
    BY <2>1, <1>1
<1>4. CASE Suspended(k)
  <2>1. /\ Locks(k, request[k], restart[k], TRUE) \/ Forgets(k, request[k])
        /\ client[k] # "lock" /\ UNCHANGED <<holder, socket>>
    BY <1>4 DEF Suspended, Proceeds, requestFrame
  <2> QED
    BY <2>1, <1>1
<1>7. CASE Forgotten(k)
  <2>1. /\ Locks(k, "reset", restart[k], FALSE) /\ client[k] # "lock"
        /\ UNCHANGED <<holder, socket>>
    BY <1>7 DEF Forgotten, requestFrame
  <2> QED
    BY <2>1, <1>1
<1>5. ASSUME NEW op, SuspendNone(k, op)
      PROVE  QueueOK' /\ HolderOK'
  <2>1. /\ Locks(k, op, cycleTask # NoTask, TRUE) \/ Forgets(k, op)
        /\ client[k] # "lock" /\ UNCHANGED <<holder, socket>>
    BY <1>5 DEF SuspendNone, AsksBarrier, Proceeds, requestFrame
  <2> QED
    BY <2>1, <1>1
<1>6. ASSUME NEW op, Suspend(k, op)
      PROVE  QueueOK' /\ HolderOK'
  <2>1. /\ UNCHANGED <<lockVars, cycle, loopVars, socket>>
        /\ client[k] # "lock" /\ client' = [client EXCEPT ![k] = "cancelling"]
    BY <1>6 DEF Suspend, AsksBarrier
  <2>2. \A j \in Clients : client'[j] = "lock" <=> client[j] = "lock"
    BY <2>1 DEF LifeTypeOK
  <2> QED
    BY <2>1, <2>2, LineUntouched, OwnerUntouched DEF KeepsPlaces
<1> QED
  BY <1>2, <1>3, <1>4, <1>5, <1>6, <1>7 DEF RequestStep

LEMMA LineAfterTheBody ==
    ASSUME LifeTypeOK, QueueOK, HolderOK,
           SessionReady \/ \E s \in Sockets :
               Handshake(s) \/ Accepted(s) \/ Disconnect(s) \/ Observe(s)
               \/ ObserveGranted(s)
    PROVE  QueueOK' /\ HolderOK'
<1>1. CASE SessionReady
  BY <1>1, LineUntouched, OwnerUntouched DEF SessionReady, KeepsPlaces
<1>2. ASSUME NEW s \in Sockets, Handshake(s) \/ Accepted(s) \/ Disconnect(s)
      PROVE  QueueOK' /\ HolderOK'
  <2>1. /\ UNCHANGED <<lockVars, client>>
        /\ UNCHANGED <<cycle, loopVars>> \/ EnsureFrom(cycle)
        /\ socket[s] # "lock"
        /\ socket' = [socket EXCEPT ![s] = "accepting"]
           \/ socket' = [socket EXCEPT ![s] = "open"]
           \/ socket' = [socket EXCEPT ![s] = "gone"]
    BY <1>2 DEF Handshake, Accepted, Disconnect, Ensure
  <2>2. \A x \in Sockets : socket'[x] = "lock" <=> socket[x] = "lock"
    BY <2>1 DEF LifeTypeOK
  <2>3. CASE UNCHANGED <<cycle, loopVars>>
    BY <2>1, <2>2, <2>3, LineUntouched, OwnerUntouched DEF KeepsPlaces
  <2>4. CASE EnsureFrom(cycle)
    <3>1. cycle \in [CycleIds -> {"wait", "lock", "observing", "ended"}]
      BY DEF LifeTypeOK
    <3> QED
      BY <2>1, <2>2, <2>4, <3>1, LineAfterEnsure
  <2> QED
    BY <2>1, <2>3, <2>4
<1>3. ASSUME NEW s \in Sockets, Observe(s) \/ ObserveGranted(s)
      PROVE  QueueOK' /\ HolderOK'
  <2>1. UNCHANGED <<holder, cycle, loopVars, client>>
    BY <1>3 DEF Observe, ObserveGranted, sensesFrame
  <2>2. HolderOK'
    BY <2>1, OwnerUntouched
  <2>3. \/ /\ waiters' = waiters /\ socket[s] = "open"
           /\ socket' = [socket EXCEPT ![s] = "open"]
        \/ /\ Joins(SocketOf(s)) /\ socket[s] = "open"
           /\ socket' = [socket EXCEPT ![s] = "lock"]
        \/ /\ Granted(SocketOf(s)) /\ LeavesLine
           /\ socket' = [socket EXCEPT ![s] = "open"]
    BY <1>3 DEF Observe, ObserveGranted, Senses
  <2>4. CASE /\ waiters' = waiters /\ socket[s] = "open"
             /\ socket' = [socket EXCEPT ![s] = "open"]
    <3>1. \A x \in Sockets : socket'[x] = "lock" <=> socket[x] = "lock"
      BY <2>4 DEF LifeTypeOK
    <3> QED
      BY <2>1, <2>2, <2>4, <3>1, LineUntouched DEF KeepsPlaces
  <2>5. CASE /\ Joins(SocketOf(s)) /\ socket[s] = "open"
             /\ socket' = [socket EXCEPT ![s] = "lock"]
    <3>1. \A x \in Sockets : socket'[x] = "lock" <=> socket[x] = "lock" \/ x = s
      BY <2>5 DEF LifeTypeOK
    <3>2. Adds(SocketOf(s))
      BY <2>1, <3>1, Names DEF Adds
    <3>3. SocketOf(s) \notin Elems(waiters) /\ SocketOf(s) \in TaskNames
      BY <2>5, Members DEF QueueOK
    <3> QED
      BY <2>2, <2>5, <3>2, <3>3, LineAfterJoin
  <2>6. CASE /\ Granted(SocketOf(s)) /\ LeavesLine
             /\ socket' = [socket EXCEPT ![s] = "open"]
    <3>1. \A x \in Sockets : socket'[x] = "lock" <=> socket[x] = "lock" /\ x # s
      BY <2>6 DEF LifeTypeOK
    <3>2. Drops(SocketOf(s))
      BY <2>1, <3>1, Names DEF Drops
    <3> QED
      BY <2>2, <2>6, <3>2, LineAfterGrant
  <2> QED
    BY <2>3, <2>4, <2>5, <2>6
<1> QED
  BY <1>1, <1>2, <1>3

LEMMA LineAfterStops ==
    ASSUME LifeTypeOK, QueueOK, HolderOK,
           Stop \/ StopSync \/ StopMetabolic \/ StopCycle
    PROVE  QueueOK' /\ HolderOK'
<1>1. UNCHANGED <<cycle, client, socket>>
  BY DEF Stop, StopSync, StopMetabolic, StopCycle, stopFrame
<1>2. CASE Stop \/ StopCycle
  <2>1. UNCHANGED <<lockVars, loopVars>>
    BY <1>2 DEF Stop, StopCycle
  <2> QED
    BY <1>1, <2>1, LineUntouched, OwnerUntouched DEF KeepsPlaces
<1>3. CASE StopSync
  <2>1. /\ sync' = "ended" /\ metabolic' = metabolic
        /\ holder' = IF holder = Consolidator THEN Free ELSE holder
        /\ waiters' = Without(waiters, Consolidator)
    BY <1>3 DEF StopSync
  <2>2. HolderOK'
    BY <1>1, <2>1, Names DEF HolderOK
  <2>3. Drops(Consolidator)
    BY <1>1, <2>1, Names DEF Drops
  <2> QED
    BY <2>1, <2>2, <2>3, LineAfterCancel
<1>4. CASE StopMetabolic
  <2>1. /\ metabolic' = "ended" /\ UNCHANGED <<sync, holder>>
        /\ waiters' = Without(waiters, Metabolism)
    BY <1>4 DEF StopMetabolic
  <2>2. HolderOK'
    BY <1>1, <2>1, OwnerUntouched
  <2>3. Drops(Metabolism)
    BY <1>1, <2>1, Names DEF Drops
  <2> QED
    BY <2>1, <2>2, <2>3, LineAfterCancel
<1> QED
  BY <1>2, <1>3, <1>4

-----------------------------------------------------------------------------
(* Late steps.                                                             *)

LEMMA CountsAfter ==
    ASSUME NEW m \in 0..2, NEW n \in 0..1, LateAfter(m, n), paused' = paused,
           metabolic' = "lock" => n = 0
    PROVE  ChargesOK'
<1>1. CASE Frozen'
  <2>1. lateCycles' = m /\ lateCharges' = n
    BY <1>1 DEF LateAfter, Frozen
  <2> QED
    BY <1>1, <2>1 DEF ChargesOK
<1>2. CASE ~Frozen'
  <2>1. lateCycles' = 0 /\ lateCharges' = 0
    BY <1>2 DEF LateAfter, Frozen
  <2> QED
    BY <2>1 DEF ChargesOK
<1> QED
  BY <1>1, <1>2

LEMMA CountsUntouched ==
    ASSUME ChargesOK, UNCHANGED <<status, paused, lateCycles, lateCharges>>,
           metabolic' = "lock" => metabolic = "lock" \/ ~Frozen
    PROVE  ChargesOK'
<1>1. Frozen' <=> Frozen
  BY DEF Frozen
<1> QED
  BY <1>1 DEF ChargesOK

LEMMA CountsOfCharge ==
    ASSUME LifeTypeOK, ChargesOK, Charge, metabolic = "lock" \/ ~Frozen,
           paused' = paused
    PROVE  ChargesOK'
<1> DEFINE n == IF Frozen THEN Min2(lateCharges + 1, 2) ELSE lateCharges
<1>1. n \in 0..1
  BY DEF ChargesOK, LifeTypeOK, Min2
<1>2. LateAfter(lateCycles, n) /\ metabolic' = "wait" /\ lateCycles \in 0..2
  BY DEF Charge, LifeTypeOK
<1> QED
  BY <1>1, <1>2, CountsAfter

LEMMA CountsOfCycle ==
    ASSUME LifeTypeOK, ChargesOK, NEW c \in CycleIds, NEW m, UnderLock(c, m),
           UNCHANGED <<paused, metabolic>>
    PROVE  ChargesOK'
<1>1. CASE Observes(c)
  BY <1>1, CountsUntouched DEF Observes
<1>2. CASE Deliberates(c, m)
  <2> DEFINE n == IF Frozen THEN Min2(lateCycles + 1, 2) ELSE lateCycles
  <2>1. n \in 0..2 /\ lateCharges \in 0..1
        /\ (metabolic' = "lock" => lateCharges = 0)
    BY DEF LifeTypeOK, ChargesOK, Min2
  <2>2. LateAfter(n, lateCharges)
    BY <1>2 DEF Deliberates
  <2> QED
    BY <2>1, <2>2, CountsAfter
<1> QED
  BY <1>1, <1>2 DEF UnderLock

(* What most steps do to the counts: they are as they were, and forgotten  *)
(* if the mind is not frozen any more.                                     *)
LEMMA CountsKept ==
    ASSUME LifeTypeOK, ChargesOK, LateAfter(lateCycles, lateCharges),
           paused' = paused, metabolic' = "lock" => metabolic = "lock"
    PROVE  ChargesOK'
<1>1. /\ lateCycles \in 0..2 /\ lateCharges \in 0..1
      /\ metabolic' = "lock" => lateCharges = 0
  BY DEF LifeTypeOK, ChargesOK
<1> QED
  BY <1>1, CountsAfter

LEMMA NoNewWaiter ==
    ASSUME NEW places, EnsureFrom(places)
    PROVE  metabolic' = "lock" => metabolic = "lock"
  BY DEF EnsureFrom, StartLoops

LEMMA CountsOfRequestBody ==
    ASSUME LifeTypeOK, ChargesOK, NEW k, NEW op, NEW again, NEW gone,
           RequestBody(k, op, again, gone), paused' = paused
    PROVE  ChargesOK'
<1>1. metabolic' = "lock" => metabolic = "lock"
  BY DEF RequestBody, GiveBody, BarrierBody, ResumeWorker, StartLoops
<1>2. \/ LateAfter(lateCycles, lateCharges)
      \/ UNCHANGED <<status, lateCycles, lateCharges>>
  BY DEF RequestBody, GiveBody, BarrierBody, ResetBody, CheckpointBody,
         RestoreBody
<1> QED
  BY <1>1, <1>2, CountsKept, CountsUntouched

LEMMA ChargesKept == LifeTypeOK /\ ChargesOK /\ [Next]_vars => ChargesOK'
<1> SUFFICES ASSUME LifeTypeOK, ChargesOK
             PROVE  [Next]_vars => ChargesOK'
  OBVIOUS
<1>1. ASSUME UNCHANGED vars PROVE ChargesOK'
  BY <1>1, CountsUntouched DEF vars
<1>2. ASSUME MetabolicTick \/ MetabolicCharges PROVE ChargesOK'
  <2>1. \/ Charge /\ (metabolic = "lock" \/ ~Frozen) /\ paused' = paused
        \/ /\ UNCHANGED <<status, paused, lateCycles, lateCharges>>
           /\ metabolic' = "lock" => metabolic = "lock" \/ ~Frozen
    BY <1>2 DEF MetabolicTick, MetabolicCharges, Awake
  <2> QED
    BY <2>1, CountsOfCharge, CountsUntouched
<1>3. ASSUME MetabolicEnds \/ SyncBegins \/ SyncGranted \/ SyncDone \/ SyncEnds
      PROVE  ChargesOK'
  <2>1. /\ UNCHANGED <<status, paused, lateCycles, lateCharges>>
        /\ metabolic' = "lock" => metabolic = "lock"
    BY <1>3 DEF MetabolicEnds, SyncBegins, SyncGranted, SyncDone, SyncEnds
  <2> QED
    BY <2>1, CountsUntouched
<1>4. ASSUME NEW c \in CycleIds, CycleStep(c) PROVE ChargesOK'
  <2>1. CASE SoakRevive(c)
    <3>1. /\ LateAfter(lateCycles, lateCharges) /\ paused' = paused
          /\ EnsureFrom([cycle EXCEPT ![c] = AfterTest])
      BY <2>1 DEF SoakRevive, Revives
    <3> QED
      BY <3>1, NoNewWaiter, CountsKept
  <2>2. CASE CycleEnds(c) \/ CycleSkips(c) \/ CycleObserved(c)
             \/ CycleCancelled(c)
    <3>1. UNCHANGED <<status, paused, lateCycles, lateCharges, metabolic>>
      BY <2>2 DEF CycleEnds, CycleSkips, CycleObserved, CycleCancelled
    <3> QED
      BY <3>1, CountsUntouched
  <2>3. CASE CycleDeliberates(c) \/ CycleGranted(c)
    <3>1. /\ UNCHANGED <<paused, metabolic>>
          /\ (\E m : UnderLock(c, m)) \/ UNCHANGED <<status, lateVars>>
      BY <2>3 DEF CycleDeliberates, CycleGranted
    <3> QED
      BY <3>1, CountsOfCycle, CountsUntouched
  <2> QED
    BY <1>4, <2>1, <2>2, <2>3 DEF CycleStep
<1>5. ASSUME Pause \/ Mortalise PROVE ChargesOK'
  <2>1. CASE Pause
    BY <2>1 DEF Pause, ChargesOK, Frozen
  <2>2. CASE Mortalise
    BY <2>2, CountsUntouched DEF Mortalise
  <2> QED
    BY <1>5, <2>1, <2>2
<1>6. ASSUME Resume PROVE ChargesOK'
  <2>1. /\ paused' = FALSE /\ status' = status
        /\ lateCycles' = IF status = "dead" THEN lateCycles ELSE 0
        /\ lateCharges' = IF status = "dead" THEN lateCharges ELSE 0
        /\ metabolic' = "lock" => metabolic = "lock"
    BY <1>6, NoNewWaiter DEF Resume, Ensure
  <2> QED
    BY <2>1 DEF ChargesOK, Frozen
<1>7. ASSUME Revive \/ Immortalise PROVE ChargesOK'
  <2>1. /\ LateAfter(lateCycles, lateCharges) /\ paused' = paused
        /\ EnsureFrom(cycle) \/ UNCHANGED loopVars
    BY <1>7 DEF Revive, Revives, Immortalise, Ensure
  <2> QED
    BY <2>1, NoNewWaiter, CountsKept
<1>8. ASSUME NEW k \in Clients, RequestStep(k) PROVE ChargesOK'
  <2>1. \/ \E op, again, gone : RequestBody(k, op, again, gone)
        \/ UNCHANGED <<status, lateCycles, lateCharges, metabolic>>
    BY <1>8 DEF RequestStep, Give, Suspended, Forgotten, RequestGranted,
                Suspend, SuspendNone, Proceeds, Forgets, Locks
  <2>2. paused' = paused
    BY <1>8 DEF RequestStep, Give, Suspended, Forgotten, RequestGranted,
                Suspend, SuspendNone, requestFrame
  <2> QED
    BY <2>1, <2>2, CountsOfRequestBody, CountsUntouched
<1>9. ASSUME NEW s \in Sockets,
             Handshake(s) \/ Accepted(s) \/ Disconnect(s) \/ SessionReady
      PROVE  ChargesOK'
  <2>1. /\ UNCHANGED <<status, paused, lateCycles, lateCharges>>
        /\ EnsureFrom(cycle) \/ UNCHANGED loopVars
    BY <1>9 DEF Handshake, Accepted, Disconnect, SessionReady, Ensure
  <2> QED
    BY <2>1, NoNewWaiter, CountsUntouched
<1>10. ASSUME NEW s \in Sockets, Observe(s) \/ ObserveGranted(s)
       PROVE  ChargesOK'
  <2>1. /\ UNCHANGED <<paused, metabolic>>
        /\ \/ LateAfter(lateCycles, lateCharges)
           \/ UNCHANGED <<status, lateCycles, lateCharges>>
    BY <1>10 DEF Observe, ObserveGranted, Senses, sensesFrame
  <2> QED
    BY <2>1, CountsKept, CountsUntouched
<1>11. ASSUME Stop \/ StopSync \/ StopMetabolic \/ StopCycle \/ SessionReady
       PROVE  ChargesOK'
  <2>1. /\ UNCHANGED <<status, paused, lateCycles, lateCharges>>
        /\ metabolic' = "lock" => metabolic = "lock"
    BY <1>11 DEF Stop, StopSync, StopMetabolic, StopCycle, stopFrame,
                 SessionReady
  <2> QED
    BY <2>1, CountsUntouched
<1> QED
  BY <1>1, <1>2, <1>3, <1>4, <1>5, <1>6, <1>7, <1>8, <1>9, <1>10, <1>11 DEF Next

-----------------------------------------------------------------------------
(* Nobody lives on nothing.                                                *)

LEMMA BodyUntouched ==
    ASSUME BodyOK, UNCHANGED <<status, mode, reservoirs, restored>>,
           metabolic' = "lock" => metabolic = "lock" \/ mode = "metabolic"
    PROVE  BodyOK'
<1>1. ASSUME status' = "alive", ~restored'
      PROVE  /\ food' > 0 /\ integrity' > 0
             /\ mode' = "immortal" /\ metabolic' = "lock" => food' > 1
  BY <1>1 DEF BodyOK
<1> QED
  BY <1>1 DEF BodyOK

LEMMA BodyRefilled ==
    ASSUME food' \in Nat, food' > 1, integrity' > 0
    PROVE  BodyOK'
<1>1. food' > 0
  OBVIOUS
<1> QED
  BY <1>1, Zenon DEF BodyOK

(* Whoever may have emptied a mortal's reservoir looks; what it leaves an  *)
(* immortal has to be more than nothing.                                   *)
LEMMA BodyChecked ==
    ASSUME LifeTypeOK, NEW f \in 0..Full, NEW i \in 0..Full, CheckDeath(f, i),
           mode' = mode,
           mode = "immortal" /\ status = "alive" /\ ~restored =>
              f > 0 /\ i > 0 /\ (metabolic' = "lock" => f > 1)
    PROVE  BodyOK'
<1>1. ASSUME status' = "alive", ~restored'
      PROVE  /\ food' > 0 /\ integrity' > 0
             /\ mode' = "immortal" /\ metabolic' = "lock" => food' > 1
  <2>1. food' = f /\ integrity' = i
    BY DEF CheckDeath
  <2>2. status = "alive" /\ ~Dies(f, i)
    BY <1>1 DEF CheckDeath, LifeTypeOK
  <2>3. mode = "immortal" => ~restored
    BY <1>1 DEF CheckDeath
  <2>4. CASE mode = "immortal"
    BY <2>1, <2>2, <2>3, <2>4
  <2>5. CASE mode = "metabolic"
    BY <2>1, <2>2, <2>5 DEF Dies, Min2
  <2> QED
    BY <2>4, <2>5 DEF LifeTypeOK
<1> QED
  BY <1>1 DEF BodyOK

LEMMA BodyOfCharge ==
    ASSUME LifeTypeOK, BodyOK, Charge, mode' = mode,
           metabolic = "lock" \/ mode = "metabolic"
    PROVE  BodyOK'
<1>1. /\ Charged \in 0..Full /\ Healed \in 0..Full
      /\ food > 1 => Charged > 0
      /\ Healed >= integrity
  BY Levels DEF LifeTypeOK, Charged, Healed
<1>2. mode = "immortal" /\ status = "alive" /\ ~restored =>
         Charged > 0 /\ Healed > 0
  BY <1>1 DEF BodyOK, LifeTypeOK
<1>3. CheckDeath(Charged, Healed) /\ metabolic' = "wait"
  BY DEF Charge
<1> QED
  BY <1>1, <1>2, <1>3, BodyChecked

LEMMA BodyOfCycle ==
    ASSUME LifeTypeOK, BodyOK, NEW c \in CycleIds, NEW m, UnderLock(c, m),
           UNCHANGED <<mode, metabolic>>
    PROVE  BodyOK'
<1>1. CASE Observes(c)
  BY <1>1, BodyUntouched DEF Observes
<1>2. CASE Deliberates(c, m)
  <2>1. PICK cost \in {0, 1} :
           /\ cost > 0 => mode = "metabolic" /\ status = "alive"
           /\ CheckDeath(IF cost = 1 THEN Lowered(food) ELSE food, integrity)
    BY <1>2 DEF Deliberates
  <2> DEFINE f == IF cost = 1 THEN Lowered(food) ELSE food
  <2>2. f \in 0..Full /\ integrity \in 0..Full
    BY Levels DEF LifeTypeOK
  <2>3. mode = "immortal" => f = food
    BY <2>1
  <2> HIDE DEF f
  <2>4. mode = "immortal" /\ status = "alive" /\ ~restored =>
           f > 0 /\ integrity > 0 /\ (metabolic' = "lock" => f > 1)
    BY <2>3 DEF BodyOK
  <2>5. CheckDeath(f, integrity)
    BY <2>1 DEF f
  <2> QED
    BY <2>2, <2>4, <2>5, BodyChecked
<1> QED
  BY <1>1, <1>2 DEF UnderLock

LEMMA BodyOfSenses ==
    ASSUME LifeTypeOK, BodyOK, NEW s, Senses(s), UNCHANGED <<mode, metabolic>>
    PROVE  BodyOK'
<1>1. food \in 0..Full /\ integrity \in 0..Full
  BY DEF LifeTypeOK
<1>2. CASE CheckDeath(food, integrity)
  BY <1>1, <1>2, BodyChecked DEF BodyOK
<1>3. CASE mode = "metabolic" /\ \E f, i \in 0..Full : CheckDeath(f, i)
  BY <1>3, BodyChecked
<1>4. PICK f \in Sensed(food), i \in Sensed(integrity) :
         /\ mode = "immortal" => f = food /\ i = integrity
         /\ CheckDeath(f, i)
  BY DEF Senses
<1>5. f \in 0..Full /\ i \in 0..Full
  BY <1>1, <1>4, Levels DEF Sensed
<1>6. mode \in {"metabolic", "immortal"}
  BY DEF LifeTypeOK
<1> QED
  BY <1>2, <1>3, <1>4, <1>5, <1>6

LEMMA BodyOfRequestBody ==
    ASSUME ReviveLevel > 1, LifeTypeOK, BodyOK, NEW k, NEW op, NEW again,
           NEW gone, RequestBody(k, op, again, gone)
    PROVE  BodyOK'
<1>1. metabolic' = "lock" => metabolic = "lock"
  BY DEF RequestBody, GiveBody, BarrierBody, ResumeWorker, StartLoops
<1>2. CASE GiveBody
  <2>1. /\ UNCHANGED <<status, mode, restored>>
        /\ food' \in {food, Capped(food + 1)}
        /\ integrity' \in {integrity, Capped(integrity + 1)}
        /\ mode = "immortal" => food' = food
    BY <1>2 DEF GiveBody
  <2>2. food \in 0..Full /\ integrity \in 0..Full
    BY DEF LifeTypeOK
  <2>3. /\ food' \in 0..Full /\ integrity' \in 0..Full
        /\ food' >= food /\ integrity' >= integrity
    BY <2>1, <2>2, Levels
  <2>4. ASSUME status' = "alive", ~restored'
        PROVE  /\ food' > 0 /\ integrity' > 0
               /\ mode' = "immortal" /\ metabolic' = "lock" => food' > 1
    BY <1>1, <2>1, <2>2, <2>3, <2>4 DEF BodyOK
  <2> QED
    BY <2>4 DEF BodyOK
<1>3. CASE ResetBody
  <2>1. food' = Full /\ integrity' = Full
    BY <1>3 DEF ResetBody
  <2> QED
    BY <2>1, BodyRefilled, LifecycleAssumption DEF LifecycleAssumption
<1>4. CASE CheckpointBody
  <2>1. UNCHANGED <<status, mode, reservoirs, restored>>
    BY <1>4 DEF CheckpointBody
  <2> QED
    BY <1>1, <2>1, BodyUntouched
<1>5. CASE RestoreBody(k)
  <2>1. restored' = TRUE
    BY <1>5, Zenon DEF RestoreBody
  <2> QED
    BY <2>1 DEF BodyOK
<1> QED
  BY <1>2, <1>3, <1>4, <1>5 DEF RequestBody, BarrierBody

LEMMA BodyKept ==
    ReviveLevel > 1 /\ LifeTypeOK /\ BodyOK /\ [Next]_vars => BodyOK'
<1> SUFFICES ASSUME ReviveLevel > 1, LifeTypeOK, BodyOK
             PROVE  [Next]_vars => BodyOK'
  OBVIOUS
<1>1. ASSUME UNCHANGED vars PROVE BodyOK'
  BY <1>1, BodyUntouched DEF vars
<1>2. ASSUME MetabolicTick \/ MetabolicCharges PROVE BodyOK'
  <2>1. /\ mode' = mode
        /\ \/ Charge /\ (metabolic = "lock" \/ mode = "metabolic")
           \/ /\ UNCHANGED <<status, reservoirs, restored>>
              /\ metabolic' = "lock" => metabolic = "lock" \/ mode = "metabolic"
    BY <1>2 DEF MetabolicTick, MetabolicCharges
  <2> QED
    BY <2>1, BodyOfCharge, BodyUntouched
<1>3. ASSUME MetabolicEnds \/ SyncBegins \/ SyncGranted \/ SyncDone \/ SyncEnds
      PROVE  BodyOK'
  <2>1. /\ UNCHANGED <<status, mode, reservoirs, restored>>
        /\ metabolic' = "lock" => metabolic = "lock"
    BY <1>3 DEF MetabolicEnds, SyncBegins, SyncGranted, SyncDone, SyncEnds
  <2> QED
    BY <2>1, BodyUntouched
<1>4. ASSUME NEW c \in CycleIds, CycleStep(c) PROVE BodyOK'
  <2>1. CASE SoakRevive(c)
    <3>1. food' = ReviveLevel /\ integrity' = ReviveLevel
      BY <2>1 DEF SoakRevive, Revives
    <3> QED
      BY <3>1, BodyRefilled, LifecycleAssumption DEF LifecycleAssumption
  <2>2. CASE CycleEnds(c) \/ CycleSkips(c) \/ CycleObserved(c)
             \/ CycleCancelled(c)
    <3>1. UNCHANGED <<status, mode, reservoirs, restored, metabolic>>
      BY <2>2 DEF CycleEnds, CycleSkips, CycleObserved, CycleCancelled
    <3> QED
      BY <3>1, BodyUntouched
  <2>3. CASE CycleDeliberates(c) \/ CycleGranted(c)
    <3>1. /\ UNCHANGED <<mode, metabolic>>
          /\ \/ \E m : UnderLock(c, m)
             \/ UNCHANGED <<status, reservoirs, restored>>
      BY <2>3 DEF CycleDeliberates, CycleGranted
    <3> QED
      BY <3>1, BodyOfCycle, BodyUntouched
  <2> QED
    BY <1>4, <2>1, <2>2, <2>3 DEF CycleStep
<1>5. ASSUME Pause \/ Resume \/ Stop \/ StopSync \/ StopMetabolic \/ StopCycle
             \/ SessionReady
      PROVE  BodyOK'
  <2>1. /\ UNCHANGED <<status, mode, reservoirs, restored>>
        /\ metabolic' = "lock" => metabolic = "lock"
    BY <1>5, NoNewWaiter DEF Pause, Resume, Ensure, Stop, StopSync,
       StopMetabolic, StopCycle, stopFrame, SessionReady
  <2> QED
    BY <2>1, BodyUntouched
<1>6. ASSUME Mortalise PROVE BodyOK'
  <2>1. mode' = "metabolic" /\ UNCHANGED <<status, reservoirs, restored>>
    BY <1>6 DEF Mortalise
  <2> QED
    BY <2>1 DEF BodyOK
<1>7. ASSUME Revive \/ Immortalise PROVE BodyOK'
  <2>1. \/ food' = ReviveLevel /\ integrity' = ReviveLevel
        \/ food' = Full /\ integrity' = Full
    BY <1>7 DEF Revive, Revives, Immortalise, Pinned
  <2> QED
    BY <2>1, BodyRefilled, LifecycleAssumption DEF LifecycleAssumption
<1>8. ASSUME NEW k \in Clients, RequestStep(k) PROVE BodyOK'
  <2>1. \/ \E op, again, gone : RequestBody(k, op, again, gone)
        \/ UNCHANGED <<status, mode, reservoirs, restored, metabolic>>
    BY <1>8 DEF RequestStep, Give, Suspended, Forgotten, RequestGranted,
                Suspend, SuspendNone, Proceeds, Forgets, Locks
  <2> QED
    BY <2>1, BodyOfRequestBody, BodyUntouched
<1>9. ASSUME NEW s \in Sockets, Handshake(s) \/ Accepted(s) \/ Disconnect(s)
      PROVE  BodyOK'
  <2>1. /\ UNCHANGED <<status, mode, reservoirs, restored>>
        /\ EnsureFrom(cycle) \/ UNCHANGED loopVars
    BY <1>9 DEF Handshake, Accepted, Disconnect, Ensure
  <2> QED
    BY <2>1, NoNewWaiter, BodyUntouched
<1>10. ASSUME NEW s \in Sockets, Observe(s) \/ ObserveGranted(s)
       PROVE  BodyOK'
  <2>1. /\ UNCHANGED <<mode, metabolic>>
        /\ Senses(s) \/ UNCHANGED <<status, reservoirs, restored>>
    BY <1>10 DEF Observe, ObserveGranted, sensesFrame
  <2> QED
    BY <2>1, BodyOfSenses, BodyUntouched
<1> QED
  BY <1>1, <1>2, <1>3, <1>4, <1>5, <1>6, <1>7, <1>8, <1>9, <1>10 DEF Next

-----------------------------------------------------------------------------
(* Barriers.                                                               *)

LEMMA BreachOfRequestBody ==
    ASSUME NEW k, NEW op, NEW again, NEW gone, breached,
           RequestBody(k, op, again, gone)
    PROVE  breached'
<1>1. CASE op = "give"
  <2>1. breached' = breached
    BY <1>1 DEF RequestBody, GiveBody
  <2> QED
    BY <2>1, Zenon
<1>2. CASE op # "give"
  <2>1. ResumeWorker(k, again, gone)
    BY <1>2 DEF RequestBody, BarrierBody
  <2> QED
    BY <2>1, Zenon DEF ResumeWorker
<1> QED
  BY <1>1, <1>2

LEMMA BreachOfEnsure ==
    ASSUME NEW places, EnsureFrom(places)
    PROVE  breached \/ Barrier => breached'
  BY Zenon DEF EnsureFrom

(* A breach is never forgotten.                                            *)
LEMMA BreachKept ==
    ASSUME breached, [Next]_vars
    PROVE  breached'
<1>1. \/ breached' = breached
      \/ \E places : EnsureFrom(places)
      \/ \E k, op, again, gone : RequestBody(k, op, again, gone)
      \/ \E k, op : Suspend(k, op)
  BY DEF Next, vars, MetabolicTick, MetabolicCharges, MetabolicEnds, SyncBegins,
         SyncGranted, SyncDone, SyncEnds, CycleStep, CycleEnds, CycleSkips,
         CycleDeliberates, CycleGranted, CycleObserved, CycleCancelled,
         SoakRevive, Revives, Pause, Resume, Revive, Immortalise, Mortalise,
         Handshake, Accepted, Disconnect, Observe, ObserveGranted, sensesFrame,
         SessionReady, Stop, StopSync, StopMetabolic, StopCycle, stopFrame,
         RequestStep, Give, Suspended, Forgotten, RequestGranted, SuspendNone,
         Proceeds, Forgets, Locks, Ensure
<1>2. ASSUME breached' = breached PROVE breached'
  BY <1>2, Zenon
<1>3. ASSUME NEW k, NEW op, Suspend(k, op) PROVE breached'
  <2>1. breached' = (breached \/ Barrier)
    BY <1>3, Zenon DEF Suspend
  <2> QED
    BY <2>1, Zenon
<1> QED
  BY <1>1, <1>2, <1>3, BreachOfEnsure, BreachOfRequestBody

(* Steps that start no cycle task, end one at the most, and leave the      *)
(* requests alone.                                                         *)
LEMMA CyclesUntouched ==
    ASSUME CyclesOK, SessionsOK, LifeTypeOK,
           UNCHANGED <<cycleTask, client, request, awaited, stopping, stopped,
                       mind, staleCycles>>,
           lateCycles' \in {lateCycles, 0},
           \A c \in CycleIds :
              /\ cycle'[c] # "ended" => cycle[c] # "ended"
                                        /\ (c \in cancelled' <=> c \in cancelled)
              /\ cycle'[c] = "lock" => cycle[c] = "lock" /\ session'[c] = session[c]
    PROVE  CyclesOK' /\ SessionsOK'
<1>1. CyclesOK'
  BY DEF CyclesOK, AllEnded, Alive
<1>2. SessionsOK'
  BY DEF SessionsOK, LifeTypeOK
<1> QED
  BY <1>1, <1>2

(* Starting the loops again, when no request is inside a barrier.          *)
LEMMA CyclesAfterEnsure ==
    ASSUME CyclesOK, SessionsOK, LifeTypeOK, RequestsOK, ~Barrier,
           NEW places \in [CycleIds -> {"wait", "lock", "observing", "ended"}],
           \A c \in CycleIds : /\ places[c] # "ended" => cycle[c] # "ended"
                               /\ places[c] = "lock" => cycle[c] = "lock",
           EnsureFrom(places),
           UNCHANGED <<client, request, awaited, stopping, stopped, mind,
                       staleCycles>>,
           lateCycles' \in {lateCycles, 0}
    PROVE  CyclesOK' /\ SessionsOK'
<1>1. StartCycle(FALSE, places)
  BY DEF EnsureFrom
<1>2. CASE LoopEnded
  <2>1. \A c \in CycleIds : cycle[c] = "ended"
    BY <1>2 DEF LoopEnded, CyclesOK, Alive
  <2>2. \A c \in CycleIds : places[c] = "ended"
    BY <2>1
  <2>3. /\ Fresh \in CycleIds /\ cycleTask' = Fresh
        /\ cycle' = [places EXCEPT ![Fresh] = AfterTest]
    BY <1>1, <1>2 DEF StartCycle, Fresh, Unused
  <2>4. \A c \in CycleIds : /\ cycle'[c] # "ended" => c = cycleTask' /\ running
                            /\ cycle'[c] # "lock"
    BY <2>2, <2>3 DEF AfterTest
  <2>5. \A k \in Clients : client[k] = "idle" \/ request[k] = "give"
    BY DEF Barrier, InBarrier
  <2>6. CyclesOK'
    BY <2>4, <2>5 DEF CyclesOK, AllEnded, Alive, RequestsOK
  <2>7. SessionsOK'
    BY <2>4 DEF SessionsOK, LifeTypeOK
  <2> QED
    BY <2>6, <2>7
<1>3. CASE ~LoopEnded
  <2>1. cycle' = places /\ UNCHANGED <<cycleTask, cancelled, session>>
    BY <1>1, <1>3 DEF StartCycle
  <2> QED
    BY <2>1, CyclesUntouched
<1> QED
  BY <1>2, <1>3

(* A barrier's section, when every cycle task has ended.                   *)
LEMMA CyclesAfterBarrier ==
    ASSUME CyclesOK, SessionsOK, LifeTypeOK, RequestsOK, AllEnded,
           NEW k \in Clients, NEW op, NEW again, NEW gone,
           BarrierBody(k, op, again, gone),
           \A j \in Clients \ {k} : /\ ~InBarrier(j)
                                    /\ client'[j] = client[j]
                                    /\ request'[j] = request[j],
           client'[k] = "idle",
           UNCHANGED <<stopping, stopped, staleCycles>>
    PROVE  CyclesOK' /\ SessionsOK'
<1>1. lateCycles' \in {lateCycles, 0}
  BY DEF BarrierBody, ResetBody, CheckpointBody, RestoreBody, LateAfter
<1>2. \A c \in CycleIds : cycle[c] = "ended"
  BY DEF AllEnded, Alive
<1>3. \A c \in CycleIds : /\ cycle'[c] # "ended" => c = cycleTask' /\ running
                          /\ cycle'[c] # "lock"
  <2>1. ResumeWorker(k, again, gone)
    BY DEF BarrierBody
  <2>2. CASE running /\ StartCycle(gone, cycle)
    <3>1. LoopEnded
      BY <1>2 DEF LoopEnded
    <3>2. /\ Fresh \in CycleIds /\ cycleTask' = Fresh
          /\ cycle' = [cycle EXCEPT ![Fresh] = AfterTest]
      BY <2>2, <3>1 DEF StartCycle, Fresh, Unused
    <3> QED
      BY <1>2, <2>2, <3>2, TypeOfTest DEF LifeTypeOK
  <2>3. CASE cycle' = cycle
    BY <1>2, <2>3
  <2> QED
    BY <2>1, <2>2, <2>3 DEF ResumeWorker
<1>4. \A j \in Clients : client'[j] = "idle" \/ request'[j] = "give"
  BY DEF InBarrier
<1>5. \A j \in Clients : client'[j] = "cancelling" => request'[j] # "give"
  BY DEF RequestsOK
<1>6. stopping' = "cycle" \/ stopping' = "closed" => ~running
  BY DEF RequestsOK
<1>7. CyclesOK'
  BY <1>3, <1>4, <1>5, <1>6 DEF CyclesOK, AllEnded, Alive
<1>8. SessionsOK'
  BY <1>1, <1>3 DEF SessionsOK, LifeTypeOK
<1> QED
  BY <1>7, <1>8

LEMMA CyclesAfterCycle ==
    ASSUME CyclesOK, SessionsOK, LifeTypeOK, RequestsOK, ChargesOK,
           ~breached, ~breached',
           NEW c \in CycleIds, CycleStep(c)
    PROVE  CyclesOK' /\ SessionsOK'
<1>1. \A x \in CycleIds : cycle[x] # "ended" /\ cycle[c] # "ended" => x = c
  BY DEF CyclesOK, Alive
<1>2. CASE SoakRevive(c)
  <2> DEFINE places == [cycle EXCEPT ![c] = AfterTest]
  <2>1. /\ EnsureFrom(places) /\ cycle[c] = "wait"
        /\ UNCHANGED <<client, request, awaited, stopping, stopped, mind,
                       staleCycles>>
        /\ LateAfter(lateCycles, lateCharges)
    BY <1>2 DEF SoakRevive, Revives, At
  <2>2. ~Barrier
    BY <2>1, BreachOfEnsure
  <2>3. lateCycles' \in {lateCycles, 0}
    BY <2>1 DEF LateAfter
  <2>4. /\ places \in [CycleIds -> {"wait", "lock", "observing", "ended"}]
        /\ \A x \in CycleIds : /\ places[x] # "ended" => cycle[x] # "ended"
                               /\ places[x] = "lock" => cycle[x] = "lock"
    BY <2>1, TypeOfTest DEF LifeTypeOK
  <2> QED
    BY <2>1, <2>2, <2>3, <2>4, CyclesAfterEnsure
<1>3. CASE CycleEnds(c) \/ CycleSkips(c) \/ CycleObserved(c)
  <2>1. /\ cycle' \in {[cycle EXCEPT ![c] = AfterTest],
                      [cycle EXCEPT ![c] = "ended"]}
        /\ cycle[c] # "ended"
        /\ UNCHANGED <<cycleTask, cancelled, session, client, request, awaited,
                       stopping, stopped, mind, lateVars>>
    BY <1>3 DEF CycleEnds, CycleSkips, CycleObserved, Goes, At
  <2>2. \A x \in CycleIds : /\ cycle'[x] # "ended" => cycle[x] # "ended"
                            /\ cycle'[x] = "lock" => cycle[x] = "lock"
    BY <2>1, TypeOfTest DEF LifeTypeOK
  <2> QED
    BY <2>1, <2>2, CyclesUntouched
<1>4. CASE CycleCancelled(c)
  <2>1. /\ cycle' = [cycle EXCEPT ![c] = "ended"]
        /\ cancelled' = cancelled \ {c}
        /\ session' = [session EXCEPT ![c] = 0]
        /\ UNCHANGED <<cycleTask, client, request, awaited,
                       stopping, stopped, mind, lateVars>>
    BY <1>4 DEF CycleCancelled, Goes
  <2>2. \A x \in CycleIds :
           /\ cycle'[x] # "ended" => cycle[x] # "ended"
                                     /\ (x \in cancelled' <=> x \in cancelled)
           /\ cycle'[x] = "lock" => cycle[x] = "lock" /\ session'[x] = session[x]
    BY <2>1 DEF LifeTypeOK
  <2> QED
    BY <2>1, <2>2, CyclesUntouched
<1>5. ASSUME cycle[c] # "ended", NEW m \in {NoMind, mind},
             lateCycles = 0,
             UnderLock(c, m),
             UNCHANGED <<cycleTask, cancelled, client, request, awaited,
                         stopping, stopped, mind>>
      PROVE  CyclesOK' /\ SessionsOK'
  <2>1. /\ cycle' \in {[cycle EXCEPT ![c] = AfterTest],
                       [cycle EXCEPT ![c] = "observing"]}
        /\ staleCycles' = staleCycles
    BY <1>5 DEF UnderLock, Observes, Deliberates, Goes
  <2>2. \A x \in CycleIds : /\ cycle'[x] # "ended" => cycle[x] # "ended"
                            /\ cycle'[x] # "lock"
    BY <1>1, <1>5, <2>1, TypeOfTest DEF LifeTypeOK
  <2>3. lateCycles' \in 0..1
    <3>1. CASE Observes(c)
      BY <1>5, <3>1 DEF Observes
    <3>2. CASE Deliberates(c, m)
      BY <1>5, <3>2 DEF Deliberates, LateAfter, Min2
    <3> QED
      BY <1>5, <3>1, <3>2 DEF UnderLock
  <2>4. CyclesOK'
    BY <1>5, <2>2 DEF CyclesOK, AllEnded, Alive
  <2>5. SessionsOK'
    BY <2>1, <2>2, <2>3 DEF SessionsOK
  <2> QED
    BY <2>4, <2>5
<1>6. CASE CycleGranted(c)
  <2>1. /\ UnderLock(c, session[c]) /\ cycle[c] = "lock" /\ c \notin cancelled
        /\ UNCHANGED <<cycleTask, cancelled, client, request, awaited,
                       stopping, stopped, mind>>
    BY <1>6 DEF CycleGranted, At
  <2>2. session[c] \in {NoMind, mind} /\ lateCycles = 0
    BY <2>1 DEF SessionsOK
  <2> QED
    BY <2>1, <2>2, <1>5
<1>7. CASE CycleDeliberates(c)
  <2> DEFINE m == IF pool = "ready" THEN mind ELSE NoMind
  <2>1. /\ cycle[c] = "wait" /\ c \notin cancelled /\ ~Frozen
        /\ UNCHANGED <<cycleTask, cancelled, client, request, awaited,
                       stopping, stopped, mind>>
        /\ \/ UnderLock(c, m)
           \/ /\ cycle' = [cycle EXCEPT ![c] = "lock"]
              /\ session' = [session EXCEPT ![c] = m]
              /\ UNCHANGED lateVars
    BY <1>7 DEF CycleDeliberates, At, Goes, Awake
  <2>2. lateCycles = 0 /\ m \in {NoMind, mind}
    BY <2>1 DEF ChargesOK
  <2> HIDE DEF m
  <2>3. CASE UnderLock(c, m)
    BY <2>1, <2>2, <2>3, <1>5
  <2>4. CASE /\ cycle' = [cycle EXCEPT ![c] = "lock"]
             /\ session' = [session EXCEPT ![c] = m]
             /\ UNCHANGED lateVars
    <3>1. /\ cycle'[c] = "lock" /\ session'[c] = m
          /\ \A x \in CycleIds \ {c} : cycle'[x] = "ended"
      BY <1>1, <2>1, <2>4 DEF LifeTypeOK
    <3>2. CyclesOK'
      BY <2>1, <3>1 DEF CyclesOK, AllEnded, Alive
    <3>3. SessionsOK'
      BY <2>1, <2>2, <2>4, <3>1 DEF SessionsOK
    <3> QED
      BY <3>2, <3>3
  <2> QED
    BY <2>1, <2>3, <2>4
<1> QED
  BY <1>2, <1>3, <1>4, <1>6, <1>7 DEF CycleStep

LEMMA CyclesAfterRequests ==
    ASSUME CyclesOK, SessionsOK, LifeTypeOK, RequestsOK,
           ~breached, ~breached',
           NEW k \in Clients, RequestStep(k)
    PROVE  CyclesOK' /\ SessionsOK'
<1>1. ASSUME NEW op, NEW again, NEW gone, op # "give", AllEnded,
             BarrierBody(k, op, again, gone),
             client' = [client EXCEPT ![k] = "idle"],
             request' \in {request, [request EXCEPT ![k] = op]},
             UNCHANGED <<stopping, stopped, staleCycles>>
      PROVE  CyclesOK' /\ SessionsOK'
  <2>1. \A j \in Clients \ {k} : ~InBarrier(j)
    <3>1. breached' = (breached \/ \E j \in Clients \ {k} : InBarrier(j))
      BY <1>1, Zenon DEF BarrierBody, ResumeWorker
    <3> QED
      BY <3>1, Zenon
  <2>2. /\ client'[k] = "idle"
        /\ \A j \in Clients \ {k} : /\ client'[j] = client[j]
                                    /\ request'[j] = request[j]
    BY <1>1 DEF LifeTypeOK
  <2> QED
    BY <1>1, <2>1, <2>2, CyclesAfterBarrier
<1>2. ASSUME NEW op, NEW again, NEW gone, op # "give", AllEnded,
             client[k] # "lock",
             Locks(k, op, again, gone) \/ Forgets(k, op),
             request' \in {request, [request EXCEPT ![k] = op]},
             awaited' \in {awaited, [awaited EXCEPT ![k] = 0]},
             UNCHANGED <<stopping, stopped, staleCycles>>
      PROVE  CyclesOK' /\ SessionsOK'
  <2>1. CASE /\ BarrierBody(k, op, again, gone)
             /\ client' = [client EXCEPT ![k] = "idle"]
    BY <1>1, <1>2, <2>1
  <2>2. CASE /\ client' \in {[client EXCEPT ![k] = "lock"],
                            [client EXCEPT ![k] = "forgetting"]}
             /\ UNCHANGED <<cycle, session, cancelled, mind, lateCycles>>
    <3>1. \A c \in CycleIds : cycle'[c] = "ended"
      BY <1>2, <2>2 DEF AllEnded, Alive
    <3>2. CyclesOK'
      BY <3>1 DEF CyclesOK, AllEnded, Alive
    <3>3. SessionsOK'
      BY <1>2, <2>2, <3>1 DEF SessionsOK
    <3> QED
      BY <3>2, <3>3
  <2> QED
    BY <1>2, <2>1, <2>2 DEF Locks, Forgets, RequestBody
<1>3. ASSUME UNCHANGED <<cycleVars, awaited, stopping, stopped, mind,
                         staleCycles, lateCycles>>,
             client[k] # "cancelling", client'[k] # "cancelling",
             client'[k] = "idle" \/ request'[k] = "give",
             \A j \in Clients \ {k} : /\ client'[j] = client[j]
                                      /\ request'[j] = request[j]
      PROVE  CyclesOK' /\ SessionsOK'
  <2>1. CyclesOK'
    BY <1>3 DEF CyclesOK, AllEnded, Alive
  <2>2. SessionsOK'
    BY <1>3 DEF SessionsOK
  <2> QED
    BY <2>1, <2>2
<1>4. CASE Give(k)
  <2>1. /\ UNCHANGED <<cycleVars, awaited, stopping, stopped, mind,
                       staleCycles, lateCycles>>
        /\ client[k] = "idle"
        /\ request' = [request EXCEPT ![k] = "give"]
        /\ client' \in {[client EXCEPT ![k] = "idle"],
                        [client EXCEPT ![k] = "lock"]}
    BY <1>4 DEF Give, Locks, RequestBody, GiveBody, requestFrame
  <2>2. /\ client'[k] # "cancelling" /\ request'[k] = "give"
        /\ \A j \in Clients \ {k} : /\ client'[j] = client[j]
                                    /\ request'[j] = request[j]
    BY <2>1 DEF LifeTypeOK
  <2> QED
    BY <2>1, <2>2, <1>3
<1>5. CASE RequestGranted(k)
  <2>1. /\ RequestBody(k, request[k], restart[k], FALSE)
        /\ client[k] = "lock" /\ client' = [client EXCEPT ![k] = "idle"]
        /\ UNCHANGED <<request, awaited, stopping, stopped, staleCycles>>
    BY <1>5 DEF RequestGranted, requestFrame
  <2>2. CASE request[k] = "give"
    <3>1. UNCHANGED <<cycleVars, mind, lateCycles>>
      BY <2>1, <2>2 DEF RequestBody, GiveBody
    <3>2. /\ client'[k] = "idle"
          /\ \A j \in Clients \ {k} : client'[j] = client[j]
      BY <2>1 DEF LifeTypeOK
    <3> QED
      BY <2>1, <3>1, <3>2, <1>3
  <2>3. CASE request[k] # "give"
    <3>1. AllEnded
      BY <2>1, <2>3 DEF CyclesOK
    <3> QED
      BY <2>1, <2>3, <3>1, <1>1 DEF RequestBody
  <2> QED
    BY <2>2, <2>3
<1>6. CASE Suspended(k)
  <2>1. /\ client[k] = "cancelling" /\ cycle[awaited[k]] = "ended"
        /\ Locks(k, request[k], restart[k], TRUE) \/ Forgets(k, request[k])
        /\ request' = request
        /\ awaited' = [awaited EXCEPT ![k] = 0]
        /\ UNCHANGED <<stopping, stopped, staleCycles>>
    BY <1>6 DEF Suspended, Proceeds, CancelDone, requestFrame
  <2>2. AllEnded /\ request[k] # "give"
    BY <2>1 DEF CyclesOK, AllEnded, Alive, RequestsOK
  <2> QED
    BY <2>1, <2>2, <1>2
<1>7. ASSUME NEW op, SuspendNone(k, op)
      PROVE  CyclesOK' /\ SessionsOK'
  <2>1. /\ client[k] = "idle" /\ op # "give" /\ LoopEnded
        /\ Locks(k, op, cycleTask # NoTask, TRUE) \/ Forgets(k, op)
        /\ request' = [request EXCEPT ![k] = op] /\ awaited' = awaited
        /\ UNCHANGED <<stopping, stopped, staleCycles>>
    BY <1>7 DEF SuspendNone, AsksBarrier, Proceeds, requestFrame
  <2>2. AllEnded
    BY <2>1 DEF CyclesOK, AllEnded, Alive, LoopEnded
  <2> QED
    BY <2>1, <2>2, <1>2
<1>9. CASE Forgotten(k)
  <2>1. /\ client[k] = "forgetting"
        /\ Locks(k, "reset", restart[k], FALSE)
        /\ request' = request /\ awaited' = awaited
        /\ UNCHANGED <<stopping, stopped, staleCycles>>
    BY <1>9 DEF Forgotten, requestFrame
  <2>2. AllEnded
    BY <2>1 DEF CyclesOK, RequestsOK
  <2> QED
    BY <2>1, <2>2, <1>2
<1>8. ASSUME NEW op, Suspend(k, op)
      PROVE  CyclesOK' /\ SessionsOK'
  <2>1. /\ client' = [client EXCEPT ![k] = "cancelling"]
        /\ request' = [request EXCEPT ![k] = op]
        /\ awaited' = [awaited EXCEPT ![k] = cycleTask]
        /\ cancelled' = cancelled \cup {cycleTask}
        /\ client[k] = "idle"
        /\ UNCHANGED <<cycleTask, cycle, session, stopping, stopped, mind,
                       lateVars>>
    BY <1>8 DEF Suspend, AsksBarrier
  <2>2. \A j \in Clients : ~InBarrier(j)
    <3>1. breached' = (breached \/ Barrier)
      BY <1>8, Zenon DEF Suspend
    <3> QED
      BY <3>1, Zenon DEF Barrier
  <2>3. /\ client'[k] = "cancelling" /\ awaited'[k] = cycleTask
        /\ \A j \in Clients \ {k} : /\ client'[j] = client[j]
                                    /\ request'[j] = request[j]
                                    /\ awaited'[j] = awaited[j]
    BY <2>1 DEF LifeTypeOK
  <2>4. \A j \in Clients \ {k} : /\ client'[j] # "cancelling"
                                 /\ client'[j] \in {"forgetting", "lock"} =>
                                       request'[j] = "give"
    BY <2>2, <2>3 DEF InBarrier, RequestsOK
  <2>5. CyclesOK'
    BY <2>1, <2>3, <2>4 DEF CyclesOK, AllEnded, Alive
  <2>6. SessionsOK'
    BY <2>1 DEF SessionsOK
  <2> QED
    BY <2>5, <2>6
<1> QED
  BY <1>4, <1>5, <1>6, <1>7, <1>8, <1>9 DEF RequestStep

LEMMA CyclesAfterStops ==
    ASSUME CyclesOK, SessionsOK, LifeTypeOK, RequestsOK,
           Stop \/ StopSync \/ StopMetabolic \/ StopCycle
    PROVE  CyclesOK' /\ SessionsOK'
<1>1. UNCHANGED <<cycleTask, cycle, session, client, request, awaited, mind,
                  lateVars>>
  BY DEF Stop, StopSync, StopMetabolic, StopCycle, stopFrame
<1>2. SessionsOK' /\ cancelled \subseteq cancelled'
  <2>1. cancelled \subseteq cancelled'
    BY DEF Stop, StopSync, StopMetabolic, StopCycle
  <2> QED
    BY <1>1, <2>1 DEF SessionsOK
<1>3. CASE Stop \/ StopSync
  <2>1. stopping' \notin {"cycle", "closed"} /\ cancelled' = cancelled
    BY <1>3 DEF Stop, StopSync
  <2> QED
    BY <1>1, <1>2, <2>1 DEF CyclesOK, AllEnded, Alive
<1>4. CASE StopMetabolic
  <2>1. CASE LoopEnded
    <3>1. AllEnded
      BY <2>1 DEF CyclesOK, AllEnded, Alive, LoopEnded
    <3>2. stopping' = "closed"
      BY <1>4, <2>1 DEF StopMetabolic
    <3> QED
      BY <1>1, <1>2, <3>1, <3>2 DEF CyclesOK, AllEnded, Alive
  <2>2. CASE ~LoopEnded
    <3>1. /\ stopping' = "cycle" /\ stopped' = cycleTask
          /\ cancelled' = cancelled \cup {cycleTask}
      BY <1>4, <2>2 DEF StopMetabolic
    <3> QED
      BY <1>1, <1>2, <3>1 DEF CyclesOK, AllEnded, Alive
  <2> QED
    BY <2>1, <2>2
<1>5. CASE StopCycle
  <2>1. /\ stopping = "cycle" /\ cycle[stopped] = "ended"
        /\ stopping' = "closed" /\ cancelled' = cancelled
    BY <1>5 DEF StopCycle
  <2>2. AllEnded
    BY <2>1 DEF CyclesOK, AllEnded, Alive
  <2> QED
    BY <1>1, <1>2, <2>1, <2>2 DEF CyclesOK, AllEnded, Alive
<1> QED
  BY <1>3, <1>4, <1>5

LEMMA CyclesKept ==
    ASSUME LifeInv, [Next]_vars, ~breached'
    PROVE  CyclesOK' /\ SessionsOK'
<1>1. ~breached
  BY BreachKept
<1>2. /\ CyclesOK /\ SessionsOK
      /\ LifeTypeOK /\ RequestsOK /\ ChargesOK
  BY <1>1 DEF LifeInv
<1>3. ASSUME NEW c \in CycleIds, CycleStep(c)
      PROVE  CyclesOK' /\ SessionsOK'
  BY <1>1, <1>2, <1>3, CyclesAfterCycle
<1>4. ASSUME NEW k \in Clients, RequestStep(k)
      PROVE  CyclesOK' /\ SessionsOK'
  BY <1>1, <1>2, <1>4, CyclesAfterRequests
<1>5. ASSUME Stop \/ StopSync \/ StopMetabolic \/ StopCycle
      PROVE  CyclesOK' /\ SessionsOK'
  BY <1>2, <1>5, CyclesAfterStops
<1>6. ASSUME UNCHANGED <<cycleVars, client, request, awaited, stopping, stopped,
                         mind, staleCycles>>,
             lateCycles' \in {lateCycles, 0}
      PROVE  CyclesOK' /\ SessionsOK'
  BY <1>2, <1>6, CyclesUntouched
<1>7. ASSUME EnsureFrom(cycle),
             UNCHANGED <<client, request, awaited, stopping, stopped, mind,
                         staleCycles>>,
             lateCycles' \in {lateCycles, 0}
      PROVE  CyclesOK' /\ SessionsOK'
  <2>1. ~Barrier
    BY <1>7, BreachOfEnsure
  <2>2. cycle \in [CycleIds -> {"wait", "lock", "observing", "ended"}]
    BY <1>2 DEF LifeTypeOK
  <2> QED
    BY <1>2, <1>7, <2>1, <2>2, CyclesAfterEnsure
<1>8. ASSUME \/ MetabolicTick \/ MetabolicCharges \/ MetabolicEnds
             \/ SyncBegins \/ SyncGranted \/ SyncDone \/ SyncEnds
             \/ Pause \/ Mortalise \/ SessionReady \/ UNCHANGED vars
      PROVE  CyclesOK' /\ SessionsOK'
  <2>1. /\ UNCHANGED <<cycleVars, client, request, awaited, stopping, stopped,
                       mind, staleCycles>>
        /\ lateCycles' \in {lateCycles, 0}
    BY <1>8 DEF MetabolicTick, MetabolicCharges, MetabolicEnds, Charge,
       LateAfter, SyncBegins, SyncGranted, SyncDone, SyncEnds, Pause, Mortalise,
       SessionReady, vars
  <2> QED
    BY <2>1, <1>6
<1>9. ASSUME Resume \/ Revive \/ Immortalise
      PROVE  CyclesOK' /\ SessionsOK'
  <2>1. /\ UNCHANGED <<client, request, awaited, stopping, stopped, mind,
                       staleCycles>>
        /\ lateCycles' \in {lateCycles, 0}
        /\ EnsureFrom(cycle) \/ UNCHANGED cycleVars
    BY <1>9 DEF Resume, Revive, Revives, Immortalise, Ensure, LateAfter
  <2> QED
    BY <2>1, <1>6, <1>7
<1>10. ASSUME NEW s \in Sockets,
              Handshake(s) \/ Accepted(s) \/ Disconnect(s) \/ Observe(s)
              \/ ObserveGranted(s)
       PROVE  CyclesOK' /\ SessionsOK'
  <2>1. /\ UNCHANGED <<client, request, awaited, stopping, stopped, mind,
                       staleCycles>>
        /\ lateCycles' \in {lateCycles, 0}
        /\ EnsureFrom(cycle) \/ UNCHANGED cycleVars
    BY <1>10 DEF Handshake, Accepted, Disconnect, Observe, ObserveGranted,
                 Senses, LateAfter, sensesFrame, Ensure
  <2> QED
    BY <2>1, <1>6, <1>7
<1> QED
  BY <1>3, <1>4, <1>5, <1>8, <1>9, <1>10 DEF Next

-----------------------------------------------------------------------------
(* The invariant.                                                          *)

LEMMA LineKept ==
    ASSUME LifeTypeOK, QueueOK, HolderOK, [Next]_vars
    PROVE  QueueOK' /\ HolderOK'
<1>1. CASE UNCHANGED vars
  BY <1>1, LineUntouched, OwnerUntouched DEF vars, KeepsPlaces
<1>2. CASE Next
  BY <1>2, LineAfterLoops, LineAfterCycle, LineAfterOrders, LineAfterRequests,
     LineAfterTheBody, LineAfterStops DEF Next
<1> QED
  BY <1>1, <1>2

LEMMA TypesKept ==
    ASSUME LifeTypeOK, RequestsOK, QueueOK, [Next]_vars
    PROVE  LifeTypeOK' /\ RequestsOK'
<1>1. FlagsOK'
  BY FlagsKept DEF LifeTypeOK
<1>2. CASE \E k \in Clients : RequestStep(k)
  BY <1>1, <1>2, TypesOfRequests
<1>3. CASE \A k \in Clients : ~RequestStep(k)
  <2>1. RequestsOK'
    BY <1>3, RequestsKept
  <2>2. CASE UNCHANGED vars
    <3>1. UNCHANGED <<status, mode, reservoirs, lockVars, cycleVars, loopVars,
                      socket, client, request, awaited, payload, stopping,
                      stopped, mind, pool, saved, lateVars, budget>>
      BY <2>2 DEF vars
    <3> QED
      BY <1>1, <2>1, <3>1 DEF LifeTypeOK
  <2>3. CASE \E c \in CycleIds : CycleStep(c)
    BY <1>1, <2>1, <2>3, TypesOfCycle
  <2>4. CASE Pause \/ Resume \/ Revive \/ Immortalise \/ Mortalise
    BY <1>1, <2>1, <2>4, TypesOfOrders
  <2>5. CASE SessionReady \/ \E s \in Sockets :
               Handshake(s) \/ Accepted(s) \/ Disconnect(s) \/ Observe(s)
               \/ ObserveGranted(s)
    BY <1>1, <2>1, <2>5, TypesOfTheBody
  <2>6. CASE Stop \/ StopSync \/ StopMetabolic \/ StopCycle
    BY <1>1, <2>1, <2>6, TypesOfStops
  <2>7. CASE MetabolicTick \/ MetabolicCharges \/ MetabolicEnds
             \/ SyncBegins \/ SyncGranted \/ SyncDone \/ SyncEnds
    BY <1>1, <2>1, <2>7, TypesOfLoops
  <2> QED
    BY <1>3, <2>1, <2>2, <2>3, <2>4, <2>5, <2>6, <2>7 DEF Next
<1> QED
  BY <1>2, <1>3

LEMMA LifeInvInit == Init => LifeInv /\ BodyOK
<1> SUFFICES ASSUME Init
             PROVE  LifeInv /\ BodyOK
  OBVIOUS
<1>1. /\ CycleIds \subseteq Nat \ {0} /\ Full \in Nat \ {0}
      /\ Modes \subseteq {"metabolic", "immortal"} /\ Soaks \subseteq BOOLEAN
      /\ MaxAdmin \in Nat /\ MaxBody \in Nat
  BY LifecycleAssumption DEF LifecycleAssumption
<1>2. FlagsOK
  <2>1. soak \in BOOLEAN
    BY <1>1, Zenon DEF Init
  <2>2. restart \in [Clients -> BOOLEAN]
    BY Zenon DEF Init
  <2>3. /\ paused = FALSE /\ running = TRUE /\ registered = TRUE
        /\ clocked = FALSE /\ observed = FALSE /\ mustObserve = FALSE
        /\ breached = FALSE /\ restored = FALSE
    BY Zenon DEF Init
  <2> QED
    BY <2>1, <2>2, <2>3, Zenon DEF FlagsOK
<1>3. LifeTypeOK
  <2>1. /\ mode \in {"metabolic", "immortal"} /\ status = "alive"
        /\ food \in 0..Full /\ integrity \in 0..Full
        /\ holder = Free /\ waiters = <<>>
        /\ cycleTask = 1 /\ cancelled = {}
        /\ metabolic = "wait" /\ sync = "burst"
        /\ stopping = "no" /\ stopped = 0 /\ mind = 1 /\ pool = "none"
        /\ lateCycles = 0 /\ lateCharges = 0 /\ staleCycles = 0
        /\ admin = 0 /\ body = 0 /\ saved = <<>>
    BY <1>1 DEF Init
  <2>2. /\ cycle \in [CycleIds -> {"wait", "lock", "observing", "ended"}]
        /\ session \in [CycleIds -> Nat]
        /\ socket \in [Sockets -> {"gone", "accepting", "open", "lock"}]
        /\ client \in [Clients -> {"idle", "cancelling", "forgetting", "lock"}]
        /\ request \in [Clients -> Operations \cup {"give"}]
        /\ awaited \in [Clients -> CycleIds \cup {NoTask}]
    BY DEF Init
  <2>3. payload \in [Clients -> Seq(Files)]
    BY DEF Init
  <2>4. 1 \in CycleIds
    BY LifecycleAssumption DEF LifecycleAssumption
  <2> QED
    BY <1>1, <1>2, <2>1, <2>2, <2>3, <2>4 DEF LifeTypeOK
<1>4. /\ saved = <<>> /\ waiters = <<>> /\ holder = Free
      /\ metabolic = "wait" /\ sync = "burst" /\ stopping = "no"
      /\ lateCycles = 0 /\ lateCharges = 0 /\ staleCycles = 0
      /\ food = Full /\ integrity = Full /\ cycleTask = 1
  BY DEF Init
<1>5. /\ \A k \in Clients : client[k] = "idle"
      /\ \A c \in CycleIds : cycle[c] = IF c = 1 THEN "wait" ELSE "ended"
      /\ \A s \in Sockets : socket[s] \in {"gone", "open"}
  BY DEF Init
<1>6. RequestsOK
  BY <1>4, <1>5 DEF RequestsOK
<1>7. QueueOK
  BY <1>4, <1>5 DEF QueueOK, Distinct, Elems
<1>8. HolderOK
  BY <1>4, <1>5, Names DEF HolderOK
<1>9. ChargesOK
  BY <1>4 DEF ChargesOK
<1>10. BodyOK
  BY <1>1, <1>4 DEF BodyOK
<1>11. CyclesOK
  BY <1>4, <1>5 DEF CyclesOK, Alive, AllEnded
<1>12. SessionsOK
  BY <1>4, <1>5 DEF SessionsOK
<1> QED
  BY <1>3, <1>6, <1>7, <1>8, <1>9, <1>10, <1>11, <1>12 DEF LifeInv

(* The invariant of the life of an agent, by induction.                    *)
THEOREM LifecycleInvariant == Spec => []LifeInv
<1>1. Init => LifeInv
  BY LifeInvInit
<1>2. LifeInv /\ [Next]_vars => LifeInv'
  <2> SUFFICES ASSUME LifeInv, [Next]_vars
               PROVE  LifeInv'
    OBVIOUS
  <2>1. LifeTypeOK /\ RequestsOK /\ QueueOK /\ HolderOK /\ ChargesOK
    BY DEF LifeInv
  <2>2. LifeTypeOK' /\ RequestsOK' /\ QueueOK' /\ HolderOK' /\ ChargesOK'
    BY <2>1, TypesKept, LineKept, ChargesKept
  <2>3. ~breached' => CyclesOK' /\ SessionsOK'
    BY CyclesKept
  <2> QED
    BY <2>2, <2>3 DEF LifeInv
<1> QED
  BY <1>1, <1>2, PTL DEF Spec

(* Every variable keeps its type, whatever the requests and the body do.   *)
THEOREM LifeTypeCorrect == Spec => []LifeTypeOK
<1>1. LifeInv => LifeTypeOK
  BY DEF LifeInv
<1> QED
  BY <1>1, LifecycleInvariant, PTL

LEMMA LengthOfLine ==
    ASSUME NEW S, NEW q \in Seq(S), Distinct(q)
    PROVE  Cardinality(Elems(q)) = Len(q)
<1> DEFINE D == 1..Len(q)
           f == [i \in D |-> q[i]]
<1>1. f \in [D -> Elems(q)] /\ \A i, j \in D : f[i] = f[j] => i = j
  BY DEF Elems, Distinct
<1>2. \A e \in Elems(q) : \E i \in D : f[i] = e
  BY DEF Elems
<1> HIDE DEF f
<1>3. f \in Bijection(D, Elems(q))
  BY <1>1, <1>2, Fun_IsBij
<1>4. ExistsBijection(D, Elems(q))
  BY <1>3, Fun_ExistsBij
<1>5. Len(q) \in Nat
  OBVIOUS
<1>6. IsFiniteSet(D) /\ Cardinality(D) = Len(q)
  BY <1>5, FS_Interval
<1> QED
  BY <1>4, <1>6, FS_Bijection

(* The lock of the agent has one line, in which each task that waits for   *)
(* it stands once, and no other: none that was cancelled stays behind.     *)
THEOREM LineIsExact == Spec => []LockLine
<1>1. ASSUME LifeInv PROVE LockLine
  <2> DEFINE line == {waiters[i] : i \in 1..Len(waiters)}
             wanted == {CycleOf(c) : c \in {x \in CycleIds : cycle[x] = "lock"}}
                  \cup {ClientOf(k) : k \in {x \in Clients : client[x] = "lock"}}
                  \cup {SocketOf(s) : s \in {x \in Sockets : socket[x] = "lock"}}
                  \cup (IF metabolic = "lock" THEN {Metabolism} ELSE {})
                  \cup (IF sync = "lock" THEN {Consolidator} ELSE {})
  <2>1. LifeTypeOK /\ QueueOK /\ HolderOK
    BY <1>1 DEF LifeInv
  <2>2. line = Elems(waiters)
    BY DEF Elems
  <2>3. Cardinality(line) = Len(waiters)
    BY <2>1, <2>2, LengthOfLine DEF LifeTypeOK, QueueOK
  <2>4. holder \notin line
    <3>1. CASE holder = Free
      <4>1. Free \notin TaskNames
        BY Names DEF TaskNames
      <4> QED
        BY <2>1, <2>2, <3>1, <4>1 DEF QueueOK
    <3>2. CASE holder = Consolidator
      BY <2>1, <2>2, <3>2 DEF QueueOK, HolderOK
    <3>3. ASSUME NEW c \in CycleIds, holder = CycleOf(c)
          PROVE  holder \notin line
      BY <2>1, <2>2, <3>3 DEF QueueOK, HolderOK
    <3> QED
      BY <2>1, <3>1, <3>2, <3>3 DEF HolderOK
  <2>5. line \subseteq TaskNames
    BY <2>1, <2>2 DEF QueueOK
  <2>6. wanted \subseteq TaskNames
    BY DEF TaskNames
  <2>7. /\ \A c \in CycleIds : CycleOf(c) \in wanted <=> cycle[c] = "lock"
        /\ \A k \in Clients : ClientOf(k) \in wanted <=> client[k] = "lock"
        /\ \A s \in Sockets : SocketOf(s) \in wanted <=> socket[s] = "lock"
        /\ Metabolism \in wanted <=> metabolic = "lock"
        /\ Consolidator \in wanted <=> sync = "lock"
    BY Names
  <2> HIDE DEF wanted, line
  <2>8. \A t \in TaskNames : t \in line <=> t \in wanted
    <3>1. ASSUME NEW t \in TaskNames
          PROVE  t \in line <=> t \in wanted
      BY <2>1, <2>2, <2>7 DEF QueueOK, TaskNames
    <3> QED
      BY <3>1
  <2>9. line = wanted
    BY <2>5, <2>6, <2>8
  <2> QED
    BY <2>3, <2>4, <2>9 DEF LockLine, line, wanted
<1> QED
  BY <1>1, LifecycleInvariant, PTL

(* A frozen mind moves once more at the most, unless a barrier was         *)
(* breached, and it is charged for one tick more at the most.              *)
THEOREM FreezeIsBounded == Spec => []FreezeIsTight
<1>1. LifeInv => FreezeIsTight
  BY DEF LifeInv, ChargesOK, SessionsOK, FreezeIsTight
<1> QED
  BY <1>1, LifecycleInvariant, PTL

(* What a reset, a checkpoint, a restore and a stop() may rely on, unless  *)
(* a connection, a resume or a revive fell into the middle of one.         *)
THEOREM BarriersHold == Spec => []BarrierHolds
<1>1. ASSUME LifeInv PROVE BarrierHolds
  <2> SUFFICES ASSUME ~breached
               PROVE  /\ staleCycles = 0
                      /\ Cardinality(Loops) <= 1
                      /\ \A k \in Clients :
                            client[k] \in {"forgetting", "lock"} /\ InBarrier(k) =>
                               \A c \in CycleIds : cycle[c] = "ended"
                      /\ stopping = "closed" =>
                            \A c \in CycleIds : cycle[c] = "ended"
    BY DEF BarrierHolds
  <2>1. CyclesOK /\ SessionsOK
    BY <1>1 DEF LifeInv
  <2>2. Cardinality(Loops) <= 1
    <3>1. Loops \in SUBSET {cycleTask}
      BY <2>1 DEF Loops, CyclesOK, Alive
    <3>2. IsFiniteSet({cycleTask}) /\ Cardinality({cycleTask}) = 1
      BY FS_Singleton
    <3> QED
      BY <3>1, <3>2, FS_Subset
  <2> QED
    BY <2>1, <2>2 DEF CyclesOK, SessionsOK, AllEnded, Alive, InBarrier
<1> QED
  BY <1>1, LifecycleInvariant, PTL

(* No mortal agent lives on with an empty reservoir, if those of a revived *)
(* agent outlast one charge.                                               *)
THEOREM DeathIsHonest == ReviveLevel > 1 /\ Spec => []MortalityHonest
<1> SUFFICES ASSUME ReviveLevel > 1
             PROVE  Spec => []MortalityHonest
  OBVIOUS
<1>1. Init => BodyOK
  BY LifeInvInit
<1>2. LifeInv /\ BodyOK /\ [Next]_vars => BodyOK'
  BY BodyKept DEF LifeInv
<1>3. LifeInv /\ BodyOK => MortalityHonest
  BY DEF LifeInv, BodyOK, MortalityHonest, Viability, Min2
<1> QED
  BY <1>1, <1>2, <1>3, LifecycleInvariant, PTL DEF Spec
=============================================================================
