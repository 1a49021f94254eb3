------------------------ MODULE VastControllerProofs ------------------------
(* The safety invariants of VastController hold for any number of          *)
(* deployments, stops and restarts.                                        *)
EXTENDS VastController, TLAPS

Renting == {"ensure", "create"}
Unopened == {"ensure", "create", "attach", "wait", "upload", "install",
             "serve", "open", "close", "discard"}
Torn == route \in {"destroy", "discard", "shutdown"}

(* The machine a deployment knows is the one it rents, and none is known,  *)
(* forgotten or opened at Vast before the task has come to it.             *)
MachineOK ==
    /\ iid \in {None, deploys}
    /\ Busy => deploys # None
    /\ Busy => (iid = None <=> at \in Renting)
    /\ at = "ensure" => cloud[deploys] = "unrented"
    /\ at \in Renting => \A c \in Causes : <<deploys, c>> \notin forgotten
    /\ \A i \in Machines :
          i > deploys => /\ cloud[i] = "unrented"
                         /\ \A c \in Causes : <<i, c>> \notin forgotten

(* Who may be at work while a route holds the lock, and what it has        *)
(* closed; a phase with no task; who aborts.                               *)
RouteOK ==
    /\ route = "discard" => ~Busy /\ tunnel = None /\ ~localPort
    /\ route = "stop" => ~abort
    /\ route = "stop" /\ deploys \notin overtaken => ~Busy /\ ~localPort
    /\ phase = "ready" => ~Busy
    /\ phase = "stopped" /\ deploys \notin overtaken => ~Busy
    /\ phase = "error" => at \in {"done", "close", "discard"}
    /\ abort => Torn \/ phase = "idle"

(* A port is that of the tunnel to the known machine.                      *)
PortOK ==
    /\ localPort => iid # None /\ tunnel = iid
    /\ at \in Renting \cup {"close", "discard"} => ~localPort

(* But for the deployments that a stop() met: where no forward runs.       *)
ForwardsOK ==
    /\ forwards \subseteq {tunnel} \cup overtaken
    /\ at \in Unopened => forwards \subseteq overtaken
    /\ route \in {"stop", "discard"} => forwards \subseteq overtaken
    /\ phase = "stopped" => forwards \subseteq overtaken
    /\ phase = "error" /\ ~abort => forwards \subseteq overtaken

VastInv ==
    /\ VastTypeOK /\ MachineOK /\ RouteOK /\ PortOK /\ ForwardsOK
    /\ BilledIsKnown /\ IdleIsQuiet

-----------------------------------------------------------------------------
USE DEF Busy, Machines, None, Renting, stateVars, tunnelVars, taskVars,
        worldVars, budget, taskFrame

LEMMA DeployInv == VastInv /\ Deploy => VastInv'
<1> SUFFICES ASSUME VastInv, Deploy
             PROVE  VastInv'
  OBVIOUS
<1>1. VastTypeOK'
  <2>1. forgotten' \subseteq Machines \X Causes
    <3>1. "redeployed" \in Causes
      BY DEF Causes
    <3> QED
      BY <3>1 DEF VastInv, VastTypeOK, Deploy, Replaced, Billed
  <2>2. deploys' \in 0..MaxDeploys
    BY VastAssumption DEF VastInv, VastTypeOK, Deploy
  <2> QED
    BY <2>1, <2>2, VastAssumption
    DEF Phases, Steps, VastInv, VastTypeOK, Deploy, Replaced
<1>2. MachineOK'
  BY VastAssumption DEF VastInv, VastTypeOK, MachineOK, Deploy, Replaced
<1>3. RouteOK'
  BY DEF RouteOK, Deploy, Replaced
<1>4. PortOK'
  BY DEF PortOK, Deploy, Replaced
<1>5. ForwardsOK'
  BY DEF VastInv, RouteOK, ForwardsOK, IdleIsQuiet, Torn, Deploy
<1>6. BilledIsKnown'
  <2> SUFFICES ASSUME NEW i \in Machines
               PROVE  BilledIsKnown!(i)'
    BY DEF BilledIsKnown
  <2>1. BilledIsKnown!(i)
    BY DEF VastInv, BilledIsKnown
  <2> QED
    BY <2>1 DEF Causes, Billed, Deploy, Replaced
<1>7. IdleIsQuiet'
  BY DEF IdleIsQuiet, Deploy, Replaced
<1> QED
  BY <1>1, <1>2, <1>3, <1>4, <1>5, <1>6, <1>7 DEF VastInv

LEMMA StopInv == VastInv /\ Stop => VastInv'
<1> SUFFICES ASSUME VastInv, Stop
             PROVE  VastInv'
  OBVIOUS
<1>1. VastTypeOK'
  <2>1. overtaken' \subseteq Machines
    BY DEF VastInv, VastTypeOK, MachineOK, Stop
  <2>2. stops' \in 0..MaxStops
    BY VastAssumption DEF VastInv, VastTypeOK, Stop
  <2> QED
    BY <2>1, <2>2 DEF VastInv, VastTypeOK, Stop, CloseTunnel
<1>2. MachineOK'
  BY VastAssumption DEF VastInv, MachineOK, Stop
<1>3. RouteOK'
  BY DEF VastInv, RouteOK, IdleIsQuiet, Torn, Stop, CloseTunnel
<1>4. PortOK'
  BY DEF PortOK, Stop, CloseTunnel
<1>5. ForwardsOK'
  BY DEF VastInv, ForwardsOK, Stop, CloseTunnel
<1>6. BilledIsKnown'
  <2> SUFFICES ASSUME NEW i \in Machines
               PROVE  BilledIsKnown!(i)'
    BY DEF BilledIsKnown
  <2>1. BilledIsKnown!(i)
    BY DEF VastInv, BilledIsKnown
  <2> QED
    BY <2>1 DEF Billed, Stop
<1>7. IdleIsQuiet'
  BY DEF VastInv, IdleIsQuiet, Stop
<1> QED
  BY <1>1, <1>2, <1>3, <1>4, <1>5, <1>6, <1>7 DEF VastInv

LEMMA StopReturnsInv == VastInv /\ StopReturns => VastInv'
<1> SUFFICES ASSUME VastInv, StopReturns
             PROVE  VastInv'
  OBVIOUS
<1>1. VastTypeOK'
  BY VastAssumption DEF Phases, VastInv, VastTypeOK, StopReturns, Halted
<1>2. MachineOK'
  BY VastAssumption DEF VastInv, VastTypeOK, MachineOK, StopReturns, Halted
<1>3. RouteOK'
  BY DEF VastInv, RouteOK, StopReturns
<1>4. PortOK'
  BY DEF VastInv, PortOK, StopReturns
<1>5. ForwardsOK'
  BY DEF VastInv, ForwardsOK, StopReturns
<1>6. BilledIsKnown'
  <2> SUFFICES ASSUME NEW i \in Machines
               PROVE  BilledIsKnown!(i)'
    BY DEF BilledIsKnown
  <2>1. BilledIsKnown!(i)
    BY DEF VastInv, BilledIsKnown
  <2> QED
    BY <2>1 DEF Billed, StopReturns, Halted
<1>7. IdleIsQuiet'
  BY DEF IdleIsQuiet, StopReturns
<1> QED
  BY <1>1, <1>2, <1>3, <1>4, <1>5, <1>6, <1>7 DEF VastInv

LEMMA StopRaisesInv == VastInv /\ StopRaises => VastInv'
<1> SUFFICES ASSUME VastInv, StopRaises
             PROVE  VastInv'
  OBVIOUS
<1>1. VastTypeOK'
  BY VastAssumption DEF VastInv, VastTypeOK, StopRaises, Halted
<1>2. MachineOK'
  BY VastAssumption DEF VastInv, VastTypeOK, MachineOK, StopRaises, Halted
<1>3. RouteOK'
  BY DEF VastInv, RouteOK, StopRaises
<1>4. PortOK'
  BY DEF VastInv, PortOK, StopRaises
<1>5. ForwardsOK'
  BY DEF VastInv, ForwardsOK, StopRaises
<1>6. BilledIsKnown'
  <2> SUFFICES ASSUME NEW i \in Machines
               PROVE  BilledIsKnown!(i)'
    BY DEF BilledIsKnown
  <2>1. BilledIsKnown!(i)
    BY DEF VastInv, BilledIsKnown
  <2> QED
    BY <2>1 DEF Billed, StopRaises, Halted
<1>7. IdleIsQuiet'
  BY DEF VastInv, IdleIsQuiet, StopRaises
<1> QED
  BY <1>1, <1>2, <1>3, <1>4, <1>5, <1>6, <1>7 DEF VastInv

LEMMA DestroyInv == VastInv /\ Destroy => VastInv'
<1> SUFFICES ASSUME VastInv, Destroy
             PROVE  VastInv'
  OBVIOUS
<1>1. VastTypeOK'
  BY VastAssumption DEF VastInv, VastTypeOK, Destroy, Cancels
<1>2. MachineOK'
  BY VastAssumption DEF VastInv, MachineOK, Destroy, Cancels
<1>3. RouteOK'
  BY DEF VastInv, RouteOK, Torn, Destroy, Cancels
<1>4. PortOK'
  BY DEF VastInv, PortOK, Destroy, Cancels
<1>5. ForwardsOK'
  BY DEF VastInv, ForwardsOK, Destroy, Cancels
<1>6. BilledIsKnown'
  <2> SUFFICES ASSUME NEW i \in Machines
               PROVE  BilledIsKnown!(i)'
    BY DEF BilledIsKnown
  <2>1. BilledIsKnown!(i)
    BY DEF VastInv, BilledIsKnown
  <2> QED
    BY <2>1 DEF Billed, Destroy, Cancels
<1>7. IdleIsQuiet'
  BY DEF VastInv, IdleIsQuiet, Destroy, Cancels
<1> QED
  BY <1>1, <1>2, <1>3, <1>4, <1>5, <1>6, <1>7 DEF VastInv

LEMMA ShutdownInv == VastInv /\ Shutdown => VastInv'
<1> SUFFICES ASSUME VastInv, Shutdown
             PROVE  VastInv'
  OBVIOUS
<1>1. VastTypeOK'
  BY VastAssumption DEF VastInv, VastTypeOK, Shutdown, Cancels
<1>2. MachineOK'
  BY VastAssumption DEF VastInv, MachineOK, Shutdown, Cancels
<1>3. RouteOK'
  BY DEF VastInv, RouteOK, Torn, Shutdown, Cancels
<1>4. PortOK'
  BY DEF VastInv, PortOK, Shutdown, Cancels
<1>5. ForwardsOK'
  BY DEF VastInv, ForwardsOK, Shutdown, Cancels
<1>6. BilledIsKnown'
  <2> SUFFICES ASSUME NEW i \in Machines
               PROVE  BilledIsKnown!(i)'
    BY DEF BilledIsKnown
  <2>1. BilledIsKnown!(i)
    BY DEF VastInv, BilledIsKnown
  <2> QED
    BY <2>1 DEF Billed, Shutdown, Cancels
<1>7. IdleIsQuiet'
  BY DEF VastInv, IdleIsQuiet, Shutdown, Cancels
<1> QED
  BY <1>1, <1>2, <1>3, <1>4, <1>5, <1>6, <1>7 DEF VastInv

LEMMA TearDownInv == VastInv /\ TearDown => VastInv'
<1> SUFFICES ASSUME VastInv, TearDown
             PROVE  VastInv'
  OBVIOUS
<1>1. VastTypeOK'
  BY VastAssumption DEF Phases, VastInv, VastTypeOK, TearDown, CloseTunnel
<1>2. MachineOK'
  BY VastAssumption DEF VastInv, MachineOK, TearDown
<1>3. RouteOK'
  BY DEF RouteOK, Torn, TearDown, CloseTunnel
<1>4. PortOK'
  BY DEF PortOK, TearDown, CloseTunnel
<1>5. ForwardsOK'
  BY DEF VastInv, ForwardsOK, TearDown, CloseTunnel
<1>6. BilledIsKnown'
  <2> SUFFICES ASSUME NEW i \in Machines
               PROVE  BilledIsKnown!(i)'
    BY DEF BilledIsKnown
  <2>1. BilledIsKnown!(i)
    BY DEF VastInv, BilledIsKnown
  <2> QED
    BY <2>1 DEF Billed, TearDown
<1>7. IdleIsQuiet'
  BY DEF IdleIsQuiet, TearDown
<1> QED
  BY <1>1, <1>2, <1>3, <1>4, <1>5, <1>6, <1>7 DEF VastInv

LEMMA DiscardedInv == VastInv /\ Discarded => VastInv'
<1> SUFFICES ASSUME VastInv, Discarded
             PROVE  VastInv'
  OBVIOUS
<1>1. VastTypeOK'
  BY VastAssumption DEF Phases, VastInv, VastTypeOK, Discarded, Gone
<1>2. MachineOK'
  BY VastAssumption DEF VastInv, MachineOK, RouteOK, Discarded, Gone
<1>3. RouteOK'
  BY DEF RouteOK, Discarded
<1>4. PortOK'
  BY DEF PortOK, Discarded
<1>5. ForwardsOK'
  BY DEF VastInv, ForwardsOK, Discarded
<1>6. BilledIsKnown'
  <2> SUFFICES ASSUME NEW i \in Machines
               PROVE  BilledIsKnown!(i)'
    BY DEF BilledIsKnown
  <2>1. BilledIsKnown!(i)
    BY DEF VastInv, BilledIsKnown
  <2>2. /\ cloud \in [Machines -> {"unrented", "running", "stopped", "gone"}]
        /\ iid \in Machines \cup {None}
    BY DEF VastInv, VastTypeOK
  <2>3. cloud' = IF iid = None THEN cloud ELSE Gone(iid)
    BY DEF Discarded
  <2>4. Billed(i)' => Billed(i) /\ i # iid
    BY <2>2, <2>3 DEF Billed, Gone
  <2>5. iid' = None /\ UNCHANGED <<at, deploys, forgotten>>
    BY DEF Discarded
  <2> QED
    BY <2>1, <2>4, <2>5
<1>7. IdleIsQuiet'
  BY DEF VastInv, RouteOK, ForwardsOK, IdleIsQuiet, Discarded
<1> QED
  BY <1>1, <1>2, <1>3, <1>4, <1>5, <1>6, <1>7 DEF VastInv

LEMMA DiscardFailsInv == VastInv /\ DiscardFails => VastInv'
<1> SUFFICES ASSUME VastInv, DiscardFails
             PROVE  VastInv'
  OBVIOUS
<1>1. VastTypeOK'
  <2>1. forgotten' \subseteq Machines \X Causes
    <3>1. "destroy" \in Causes
      BY DEF Causes
    <3> QED
      BY <3>1 DEF VastInv, VastTypeOK, DiscardFails, Replaced
  <2>2. deploys' \in 0..MaxDeploys
    BY VastAssumption DEF VastInv, VastTypeOK, DiscardFails
  <2> QED
    BY <2>1, <2>2, VastAssumption
    DEF Phases, VastInv, VastTypeOK, DiscardFails, Replaced, Gone
<1>2. MachineOK'
  BY VastAssumption
  DEF VastInv, VastTypeOK, MachineOK, RouteOK, DiscardFails, Replaced,
      Gone
<1>3. RouteOK'
  BY DEF RouteOK, DiscardFails, Replaced
<1>4. PortOK'
  BY DEF PortOK, DiscardFails, Replaced
<1>5. ForwardsOK'
  BY DEF VastInv, ForwardsOK, DiscardFails
<1>6. BilledIsKnown'
  <2> SUFFICES ASSUME NEW i \in Machines
               PROVE  BilledIsKnown!(i)'
    BY DEF BilledIsKnown
  <2>1. BilledIsKnown!(i)
    BY DEF VastInv, BilledIsKnown
  <2>2. CASE cloud' = cloud /\ Replaced("idle", "destroy")
    <3>1. CASE i = iid
      BY <2>1, <2>2, <3>1 DEF Billed, Causes, Replaced
    <3>2. CASE i # iid
      BY <2>1, <2>2, <3>2 DEF Billed, Replaced, DiscardFails
    <3> QED
      BY <3>1, <3>2
  <2>3. CASE cloud' = Gone(iid) /\ iid' = None /\ UNCHANGED forgotten
    <3>1. iid \in Machines /\ iid' = None
      BY <2>3 DEF VastInv, VastTypeOK, DiscardFails
    <3>2. Billed(i)' => Billed(i) /\ i # iid
      BY <2>3, <3>1 DEF VastInv, VastTypeOK, Gone, Billed
    <3> QED
      BY <2>1, <2>3, <3>1, <3>2 DEF DiscardFails
  <2> QED
    BY <2>2, <2>3 DEF DiscardFails
<1>7. IdleIsQuiet'
  BY DEF VastInv, RouteOK, ForwardsOK, IdleIsQuiet, DiscardFails, Replaced
<1> QED
  BY <1>1, <1>2, <1>3, <1>4, <1>5, <1>6, <1>7 DEF VastInv

LEMMA RestartInv == VastInv /\ Restart => VastInv'
<1> SUFFICES ASSUME VastInv, Restart
             PROVE  VastInv'
  OBVIOUS
<1>1. VastTypeOK'
  <2>1. forgotten' \subseteq Machines \X Causes
    <3>1. "restart" \in Causes
      BY DEF Causes
    <3> QED
      BY <3>1 DEF VastInv, VastTypeOK, Restart, Replaced, Billed
  <2>2. deploys' \in 0..MaxDeploys
    BY VastAssumption DEF VastInv, VastTypeOK, Restart
  <2> QED
    BY <2>1, <2>2, VastAssumption
    DEF Phases, VastInv, VastTypeOK, Restart, Replaced
<1>2. MachineOK'
  BY VastAssumption DEF VastInv, MachineOK, Restart, Replaced
<1>3. RouteOK'
  BY DEF RouteOK, Restart
<1>4. PortOK'
  BY DEF PortOK, Restart, Replaced
<1>5. ForwardsOK'
  BY DEF VastInv, ForwardsOK, Restart
<1>6. BilledIsKnown'
  <2> SUFFICES ASSUME NEW i \in Machines
               PROVE  BilledIsKnown!(i)'
    BY DEF BilledIsKnown
  <2>1. BilledIsKnown!(i)
    BY DEF VastInv, BilledIsKnown
  <2> QED
    BY <2>1 DEF Causes, Billed, Restart, Replaced
<1>7. IdleIsQuiet'
  BY DEF VastInv, ForwardsOK, IdleIsQuiet, Restart, Replaced
<1> QED
  BY <1>1, <1>2, <1>3, <1>4, <1>5, <1>6, <1>7 DEF VastInv

LEMMA RentInv == VastInv /\ Rent => VastInv'
<1> SUFFICES ASSUME VastInv, Rent
             PROVE  VastInv'
  OBVIOUS
<1>1. VastTypeOK'
  BY VastAssumption DEF VastInv, VastTypeOK, Rent
<1>2. MachineOK'
  BY VastAssumption DEF VastInv, MachineOK, Rent
<1>3. RouteOK'
  BY DEF VastInv, RouteOK, Torn, Rent
<1>4. PortOK'
  BY DEF VastInv, PortOK, Rent
<1>5. ForwardsOK'
  BY DEF VastInv, ForwardsOK, Rent
<1>6. BilledIsKnown'
  <2> SUFFICES ASSUME NEW i \in Machines
               PROVE  BilledIsKnown!(i)'
    BY DEF BilledIsKnown
  <2>1. BilledIsKnown!(i)
    BY DEF VastInv, BilledIsKnown
  <2> QED
    BY <2>1 DEF Billed, Rent
<1>7. IdleIsQuiet'
  BY DEF VastInv, IdleIsQuiet, Rent
<1> QED
  BY <1>1, <1>2, <1>3, <1>4, <1>5, <1>6, <1>7 DEF VastInv

LEMMA CreateReturnsInv == VastInv /\ CreateReturns => VastInv'
<1> SUFFICES ASSUME VastInv, CreateReturns
             PROVE  VastInv'
  OBVIOUS
<1>1. VastTypeOK'
  <2>1. deploys \in Machines
    BY VastAssumption
    DEF VastInv, VastTypeOK, MachineOK, CreateReturns, Returns
  <2> QED
    BY <2>1 DEF VastInv, VastTypeOK, Steps, CreateReturns, Returns
<1>2. MachineOK'
  BY VastAssumption DEF VastInv, MachineOK, CreateReturns, Returns
<1>3. RouteOK'
  BY DEF VastInv, RouteOK, Torn, CreateReturns, Returns
<1>4. PortOK'
  BY DEF VastInv, PortOK, CreateReturns, Returns
<1>5. ForwardsOK'
  BY DEF VastInv, ForwardsOK, Unopened, CreateReturns, Returns
<1>6. BilledIsKnown'
  <2> SUFFICES ASSUME NEW i \in Machines
               PROVE  BilledIsKnown!(i)'
    BY DEF BilledIsKnown
  <2>1. BilledIsKnown!(i)
    BY DEF VastInv, BilledIsKnown
  <2> QED
    BY <2>1 DEF VastInv, MachineOK, Billed, CreateReturns, Returns
<1>7. IdleIsQuiet'
  BY DEF VastInv, IdleIsQuiet, CreateReturns, Returns
<1> QED
  BY <1>1, <1>2, <1>3, <1>4, <1>5, <1>6, <1>7 DEF VastInv

LEMMA CreateRaisesInv == VastInv /\ CreateRaises => VastInv'
<1> SUFFICES ASSUME VastInv, CreateRaises
             PROVE  VastInv'
  OBVIOUS
<1>1. VastTypeOK'
  <2>1. forgotten' \subseteq Machines \X Causes
    <3>1. "create" \in Causes
      BY DEF Causes
    <3> QED
      BY <3>1 DEF VastInv, VastTypeOK, CreateRaises, Billed
  <2>2. deploys' \in 0..MaxDeploys
    BY VastAssumption DEF VastInv, VastTypeOK, CreateRaises
  <2> QED
    BY <2>1, <2>2, VastAssumption
    DEF Phases, Steps, VastInv, VastTypeOK, MachineOK, CreateRaises,
        Returns, Fails, Gone
<1>2. MachineOK'
  BY VastAssumption
  DEF VastInv, VastTypeOK, MachineOK, CreateRaises, Fails, Gone
<1>3. RouteOK'
  BY DEF VastInv, RouteOK, IdleIsQuiet, Torn, CreateRaises, Returns, Fails
<1>4. PortOK'
  BY DEF VastInv, MachineOK, PortOK, CreateRaises, Returns, Fails
<1>5. ForwardsOK'
  BY DEF VastInv, MachineOK, ForwardsOK, Unopened, CreateRaises, Returns,
     Fails
<1>6. BilledIsKnown'
  <2> SUFFICES ASSUME NEW i \in Machines
               PROVE  BilledIsKnown!(i)'
    BY DEF BilledIsKnown
  <2>1. BilledIsKnown!(i)
    BY DEF VastInv, BilledIsKnown
  <2> QED
    BY <2>1
    DEF VastInv, VastTypeOK, MachineOK, Causes, Billed, CreateRaises,
        Returns, Gone
<1>7. IdleIsQuiet'
  BY DEF IdleIsQuiet, CreateRaises, Fails
<1> QED
  BY <1>1, <1>2, <1>3, <1>4, <1>5, <1>6, <1>7 DEF VastInv

LEMMA TunnelOpensInv == VastInv /\ TunnelOpens => VastInv'
<1> SUFFICES ASSUME VastInv, TunnelOpens
             PROVE  VastInv'
  OBVIOUS
<1>1. VastTypeOK'
  BY VastAssumption
  DEF Phases, Steps, VastInv, VastTypeOK, MachineOK, TunnelOpens, Returns
<1>2. MachineOK'
  BY VastAssumption DEF VastInv, MachineOK, TunnelOpens, Returns
<1>3. RouteOK'
  BY DEF VastInv, RouteOK, IdleIsQuiet, Torn, TunnelOpens, Returns
<1>4. PortOK'
  BY DEF VastInv, MachineOK, PortOK, TunnelOpens, Returns
<1>5. ForwardsOK'
  <2>1. forwards \subseteq overtaken /\ overtaken' = overtaken
    BY DEF VastInv, ForwardsOK, Unopened, TunnelOpens, Returns
  <2>2. tunnel' = iid /\ forwards' = forwards \cup {iid}
    BY DEF TunnelOpens
  <2>3. at' \notin Unopened
    BY DEF Unopened, TunnelOpens
  <2>4. route' \in {"stop", "discard"} \/ phase' = "stopped" => iid \in overtaken
    <3>1. iid = deploys
      BY DEF VastInv, MachineOK, TunnelOpens, Returns
    <3> QED
      BY <3>1 DEF VastInv, RouteOK, TunnelOpens, Returns
  <2>5. phase' = "error" => abort'
    BY DEF VastInv, RouteOK, TunnelOpens, Returns
  <2> QED
    BY <2>1, <2>2, <2>3, <2>4, <2>5 DEF ForwardsOK
<1>6. BilledIsKnown'
  <2> SUFFICES ASSUME NEW i \in Machines
               PROVE  BilledIsKnown!(i)'
    BY DEF BilledIsKnown
  <2>1. BilledIsKnown!(i)
    BY DEF VastInv, BilledIsKnown
  <2> QED
    BY <2>1 DEF Billed, TunnelOpens, Returns
<1>7. IdleIsQuiet'
  BY DEF VastInv, IdleIsQuiet, TunnelOpens, Returns
<1> QED
  BY <1>1, <1>2, <1>3, <1>4, <1>5, <1>6, <1>7 DEF VastInv

LEMMA ReadyInv == VastInv /\ Ready => VastInv'
<1> SUFFICES ASSUME VastInv, Ready
             PROVE  VastInv'
  OBVIOUS
<1>1. VastTypeOK'
  BY VastAssumption DEF Phases, Steps, VastInv, VastTypeOK, Ready, Returns
<1>2. MachineOK'
  BY VastAssumption DEF VastInv, MachineOK, Ready
<1>3. RouteOK'
  BY DEF VastInv, RouteOK, IdleIsQuiet, Torn, Ready, Returns
<1>4. PortOK'
  BY DEF VastInv, PortOK, Ready
<1>5. ForwardsOK'
  BY DEF VastInv, ForwardsOK, Unopened, Ready
<1>6. BilledIsKnown'
  <2> SUFFICES ASSUME NEW i \in Machines
               PROVE  BilledIsKnown!(i)'
    BY DEF BilledIsKnown
  <2>1. BilledIsKnown!(i)
    BY DEF VastInv, BilledIsKnown
  <2> QED
    BY <2>1 DEF Billed, Ready, Returns
<1>7. IdleIsQuiet'
  BY DEF IdleIsQuiet, Ready
<1> QED
  BY <1>1, <1>2, <1>3, <1>4, <1>5, <1>6, <1>7 DEF VastInv

LEMMA ClosedInv == VastInv /\ Closed => VastInv'
<1> SUFFICES ASSUME VastInv, Closed
             PROVE  VastInv'
  OBVIOUS
<1>1. VastTypeOK'
  BY VastAssumption DEF Steps, VastInv, VastTypeOK, Closed, Returns
<1>2. MachineOK'
  BY VastAssumption DEF VastInv, MachineOK, Closed, Returns
<1>3. RouteOK'
  BY DEF VastInv, RouteOK, Torn, Closed, Returns
<1>4. PortOK'
  BY DEF VastInv, PortOK, Closed, Returns
<1>5. ForwardsOK'
  BY DEF VastInv, ForwardsOK, Unopened, Closed, Returns
<1>6. BilledIsKnown'
  <2> SUFFICES ASSUME NEW i \in Machines
               PROVE  BilledIsKnown!(i)'
    BY DEF BilledIsKnown
  <2>1. BilledIsKnown!(i)
    BY DEF VastInv, BilledIsKnown
  <2> QED
    BY <2>1 DEF Billed, Closed, Returns
<1>7. IdleIsQuiet'
  BY DEF VastInv, IdleIsQuiet, Closed, Returns
<1> QED
  BY <1>1, <1>2, <1>3, <1>4, <1>5, <1>6, <1>7 DEF VastInv

LEMMA CleanedUpInv == VastInv /\ CleanedUp => VastInv'
<1> SUFFICES ASSUME VastInv, CleanedUp
             PROVE  VastInv'
  OBVIOUS
<1>1. VastTypeOK'
  BY VastAssumption DEF Steps, VastInv, VastTypeOK, CleanedUp, Returns, Gone
<1>2. MachineOK'
  BY VastAssumption DEF VastInv, MachineOK, CleanedUp, Gone
<1>3. RouteOK'
  BY DEF VastInv, RouteOK, Torn, CleanedUp
<1>4. PortOK'
  BY DEF VastInv, PortOK, CleanedUp, Returns
<1>5. ForwardsOK'
  BY DEF VastInv, ForwardsOK, Unopened, CleanedUp
<1>6. BilledIsKnown'
  <2> SUFFICES ASSUME NEW i \in Machines
               PROVE  BilledIsKnown!(i)'
    BY DEF BilledIsKnown
  <2>1. BilledIsKnown!(i)
    BY DEF VastInv, BilledIsKnown
  <2> QED
    BY <2>1 DEF VastInv, VastTypeOK, Causes, Billed, CleanedUp, Returns, Gone
<1>7. IdleIsQuiet'
  BY DEF VastInv, IdleIsQuiet, CleanedUp
<1> QED
  BY <1>1, <1>2, <1>3, <1>4, <1>5, <1>6, <1>7 DEF VastInv

LEMMA CleanUpFailsInv == VastInv /\ CleanUpFails => VastInv'
<1> SUFFICES ASSUME VastInv, CleanUpFails
             PROVE  VastInv'
  OBVIOUS
<1>1. VastTypeOK'
  BY VastAssumption
  DEF Steps, VastInv, VastTypeOK, CleanUpFails, Returns, Gone
<1>2. MachineOK'
  BY VastAssumption DEF VastInv, VastTypeOK, MachineOK, CleanUpFails, Gone
<1>3. RouteOK'
  BY DEF VastInv, RouteOK, Torn, CleanUpFails
<1>4. PortOK'
  BY DEF VastInv, PortOK, CleanUpFails
<1>5. ForwardsOK'
  BY DEF VastInv, ForwardsOK, Unopened, CleanUpFails
<1>6. BilledIsKnown'
  <2> SUFFICES ASSUME NEW i \in Machines
               PROVE  BilledIsKnown!(i)'
    BY DEF BilledIsKnown
  <2>1. BilledIsKnown!(i)
    BY DEF VastInv, BilledIsKnown
  <2> QED
    BY <2>1 DEF VastInv, VastTypeOK, Billed, CleanUpFails, Returns, Gone
<1>7. IdleIsQuiet'
  BY DEF VastInv, IdleIsQuiet, CleanUpFails
<1> QED
  BY <1>1, <1>2, <1>3, <1>4, <1>5, <1>6, <1>7 DEF VastInv

LEMMA DiesInv == VastInv /\ Dies => VastInv'
<1> SUFFICES ASSUME VastInv, Dies
             PROVE  VastInv'
  OBVIOUS
<1>1. VastTypeOK'
  <2>1. forgotten' \subseteq Machines \X Causes
    <3>1. "cancelled" \in Causes
      BY DEF Causes
    <3> QED
      BY <3>1 DEF VastInv, VastTypeOK, MachineOK, Dies
  <2>2. deploys' \in 0..MaxDeploys
    BY VastAssumption DEF VastInv, VastTypeOK, Dies
  <2> QED
    BY <2>1, <2>2, VastAssumption DEF Steps, VastInv, VastTypeOK, Dies
<1>2. MachineOK'
  BY VastAssumption DEF VastInv, VastTypeOK, MachineOK, Dies
<1>3. RouteOK'
  BY DEF VastInv, RouteOK, Torn, Dies
<1>4. PortOK'
  BY DEF VastInv, PortOK, Dies
<1>5. ForwardsOK'
  BY DEF VastInv, ForwardsOK, Unopened, Dies
<1>6. BilledIsKnown'
  <2> SUFFICES ASSUME NEW i \in Machines
               PROVE  BilledIsKnown!(i)'
    BY DEF BilledIsKnown
  <2>1. BilledIsKnown!(i)
    BY DEF VastInv, BilledIsKnown
  <2> QED
    BY <2>1 DEF VastInv, VastTypeOK, MachineOK, Causes, Billed, Dies
<1>7. IdleIsQuiet'
  BY DEF VastInv, IdleIsQuiet, Dies
<1> QED
  BY <1>1, <1>2, <1>3, <1>4, <1>5, <1>6, <1>7 DEF VastInv

LEMMA HostFailsInv == VastInv /\ HostFails => VastInv'
<1> SUFFICES ASSUME VastInv, HostFails
             PROVE  VastInv'
  OBVIOUS
<1>1. VastTypeOK'
  BY VastAssumption DEF VastInv, VastTypeOK, HostFails
<1>2. MachineOK'
  BY VastAssumption DEF VastInv, MachineOK, HostFails
<1>3. RouteOK'
  BY DEF VastInv, RouteOK, Torn, HostFails
<1>4. PortOK'
  BY DEF VastInv, PortOK, HostFails
<1>5. ForwardsOK'
  BY DEF VastInv, ForwardsOK, HostFails
<1>6. BilledIsKnown'
  <2> SUFFICES ASSUME NEW i \in Machines
               PROVE  BilledIsKnown!(i)'
    BY DEF BilledIsKnown
  <2>1. BilledIsKnown!(i)
    BY DEF VastInv, BilledIsKnown
  <2> QED
    BY <2>1 DEF Billed, HostFails
<1>7. IdleIsQuiet'
  BY DEF VastInv, IdleIsQuiet, HostFails
<1> QED
  BY <1>1, <1>2, <1>3, <1>4, <1>5, <1>6, <1>7 DEF VastInv

-----------------------------------------------------------------------------
(* The steps of the task that all have the same shape.                     *)

LEMMA AfterSteps ==
    ASSUME NEW k \in DOMAIN After
    PROVE  /\ k \in {"ensure", "attach", "wait", "upload", "install", "serve",
                    "reach"}
           /\ After[k] \in {"create", "wait", "upload", "install", "serve",
                           "open", "agent"}
           /\ After[k] = "create" <=> k = "ensure"
           /\ After[k] = "agent" <=> k = "reach"
  BY DEF After

LEMMA PhaseOfStep ==
    ASSUME NEW k \in DOMAIN PhaseOf
    PROVE  PhaseOf[k] \in {"creating", "waiting", "uploading", "installing",
                           "serving", "tunneling", "starting_agent"}
  BY DEF PhaseOf

(* A failed step: in none of the cases is a port left open by a task that  *)
(* goes on.                                                                *)
LEMMA FailsInv ==
    ASSUME VastInv, Fails,
           NEW k \in Steps \ {"done", "create", "close", "discard"},
           Returns(k), UNCHANGED <<iid, worldVars, taskFrame>>
    PROVE  VastInv'
<1>1. VastTypeOK'
  BY DEF VastInv, VastTypeOK, Phases, Steps, Fails, CloseTunnel, Returns
<1>2. MachineOK'
  BY DEF VastInv, MachineOK, Fails
<1>3. RouteOK'
  BY DEF VastInv, RouteOK, IdleIsQuiet, Torn, Fails, Returns
<1>4. PortOK'
  BY DEF VastInv, PortOK, Fails, CloseTunnel
<1>5. ForwardsOK'
  BY DEF VastInv, MachineOK, ForwardsOK, Unopened, Fails, CloseTunnel,
     Returns
<1>6. BilledIsKnown'
  <2> SUFFICES ASSUME NEW i \in Machines
               PROVE  BilledIsKnown!(i)'
    BY DEF BilledIsKnown
  <2>1. BilledIsKnown!(i)
    BY DEF VastInv, BilledIsKnown
  <2> QED
    BY <2>1 DEF Billed, Returns
<1>7. IdleIsQuiet'
  BY DEF IdleIsQuiet, Fails
<1> QED
  BY <1>1, <1>2, <1>3, <1>4, <1>5, <1>6, <1>7 DEF VastInv

LEMMA StepRaisesInv ==
    ASSUME VastInv,
           NEW k \in (DOMAIN After \cup {"open", "agent"}) \ {"attach"},
           StepRaises(k)
    PROVE  VastInv'
<1>1. k \in Steps \ {"done", "create", "close", "discard"}
  BY AfterSteps DEF Steps
<1> QED
  BY <1>1, FailsInv DEF StepRaises

LEMMA StepDoneInv ==
    ASSUME VastInv, NEW k \in DOMAIN After, StepDone(k)
    PROVE  VastInv'
<1>1. k \in Steps \ {"done", "create", "close", "discard"}
  BY AfterSteps DEF Steps
<1>2. CASE Fails
  BY <1>1, <1>2, FailsInv DEF StepDone
<1>3. CASE /\ at' = After[k]
           /\ phase' = IF After[k] \in DOMAIN PhaseOf THEN PhaseOf[After[k]]
                                                    ELSE phase
           /\ UNCHANGED <<localPort, tunnelVars>>
  <2>1. /\ phase' \in Phases
        /\ phase' \in {"creating", "waiting", "uploading", "installing",
                      "serving", "tunneling", "starting_agent", phase}
    BY <1>3, PhaseOfStep DEF VastInv, VastTypeOK, Phases
  <2>2. VastTypeOK'
    BY <1>3, <2>1, AfterSteps
    DEF VastInv, VastTypeOK, Steps, StepDone, Returns
  <2>3. MachineOK'
    BY <1>3, AfterSteps DEF VastInv, MachineOK, StepDone, Returns
  <2>4. RouteOK'
    BY <1>3, <2>1, AfterSteps
    DEF VastInv, RouteOK, IdleIsQuiet, Torn, StepDone, Returns
  <2>5. PortOK'
    BY <1>3, AfterSteps DEF VastInv, PortOK, StepDone, Returns
  <2>6. ForwardsOK'
    BY <1>3, <2>1, AfterSteps
    DEF VastInv, ForwardsOK, Unopened, StepDone, Returns
  <2>7. BilledIsKnown'
    BY <1>3, AfterSteps DEF VastInv, BilledIsKnown, Billed, StepDone, Returns
  <2>8. IdleIsQuiet'
    BY <1>3, <2>1, AfterSteps DEF VastInv, IdleIsQuiet, StepDone, Returns
  <2> QED
    BY <2>2, <2>3, <2>4, <2>5, <2>6, <2>7, <2>8 DEF VastInv
<1> QED
  BY <1>2, <1>3 DEF StepDone, GoesOn

-----------------------------------------------------------------------------
LEMMA InitInv == Init => VastInv
<1> SUFFICES ASSUME Init
             PROVE  VastInv
  OBVIOUS
<1>1. VastTypeOK
  <2>1. cloud \in [Machines -> {"unrented", "running", "stopped", "gone"}]
    BY DEF Init
  <2>2. deploys \in 0..MaxDeploys /\ stops \in 0..MaxStops
        /\ restarts \in 0..MaxRestarts
    BY VastAssumption DEF Init
  <2> QED
    BY <2>1, <2>2 DEF Init, VastTypeOK, Phases, Steps
<1>2. MachineOK /\ RouteOK /\ PortOK /\ ForwardsOK
  BY DEF Init, MachineOK, RouteOK, PortOK, ForwardsOK
<1>3. BilledIsKnown /\ IdleIsQuiet
  BY DEF Init, BilledIsKnown, IdleIsQuiet, Billed
<1> QED
  BY <1>1, <1>2, <1>3 DEF VastInv

LEMMA NextInv == VastInv /\ [Next]_vars => VastInv'
<1> SUFFICES ASSUME VastInv, [Next]_vars
             PROVE  VastInv'
  OBVIOUS
<1>1. CASE RouteStep
  BY <1>1, StopReturnsInv, StopRaisesInv, TearDownInv, DiscardedInv,
     DiscardFailsInv, RestartInv
  DEF RouteStep
<1>2. CASE TaskStep
  <2>1. CASE \E k \in DOMAIN After : StepDone(k)
    BY <2>1, StepDoneInv
  <2>2. CASE \E k \in (DOMAIN After \cup {"open", "agent"}) \ {"attach"} :
                StepRaises(k)
    BY <2>2, StepRaisesInv
  <2> QED
    BY <1>2, <2>1, <2>2, RentInv, CreateReturnsInv, CreateRaisesInv,
       TunnelOpensInv, ReadyInv, ClosedInv, CleanedUpInv, CleanUpFailsInv,
       DiesInv
    DEF TaskStep
<1>3. CASE UNCHANGED vars
  <2> USE <1>3 DEF vars
  <2>1. VastTypeOK'
    BY DEF VastInv, VastTypeOK
  <2>2. MachineOK' /\ RouteOK' /\ PortOK'
    BY DEF VastInv, MachineOK, RouteOK, PortOK, Torn
  <2>3. ForwardsOK'
    BY DEF VastInv, ForwardsOK
  <2>4. BilledIsKnown' /\ IdleIsQuiet'
    BY DEF VastInv, BilledIsKnown, IdleIsQuiet, Billed
  <2> QED
    BY <2>1, <2>2, <2>3, <2>4 DEF VastInv
<1> QED
  BY <1>1, <1>2, <1>3, DeployInv, StopInv, DestroyInv, ShutdownInv,
     HostFailsInv
  DEF Next

(* VastInv is an invariant: whatever the routes, the tools, the hosts and  *)
(* the end of the server do to the provisioning task between its awaits.   *)
THEOREM ControllerInvariant == Spec => []VastInv
  BY InitInv, NextInv, PTL DEF Spec

(* Every variable of the controller keeps its type.                        *)
THEOREM VastTypeCorrect == Spec => []VastTypeOK
  BY ControllerInvariant, PTL DEF VastInv

(* A machine that is billed is the controller's own, is being rented, or   *)
(* was forgotten in exactly one of the five ways.                          *)
THEOREM RentedMachinesAreKnown == Spec => []BilledIsKnown
  BY ControllerInvariant, PTL DEF VastInv

(* The proxy forwards to the machine of this deployment or not at all, and *)
(* no forward is left running but those of deployments that a stop() met   *)
(* under way.                                                              *)
THEOREM ProxyIsHonest == Spec => []ActiveHonest
<1>1. VastInv => ActiveHonest
  BY DEF VastInv, MachineOK, RouteOK, PortOK, ForwardsOK, ActiveHonest, Active
<1> QED
  BY <1>1, ControllerInvariant, PTL

(* A controller that says idle has no task, no machine and no tunnel but   *)
(* of deployments overtaken.                                               *)
THEOREM IdleMeansIdle == Spec => []IdleIsQuiet
  BY ControllerInvariant, PTL DEF VastInv
=============================================================================
