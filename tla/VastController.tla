--------------------------- MODULE VastController ---------------------------
(***************************************************************************)
(* The controller of a rented machine (decadic/api/vast/controller.py): a  *)
(* task provisions it step by step, while the routes deploy, stop and      *)
(* destroy and the end of the server come in between its awaits.  Rented   *)
(* machines go on being billed until they are destroyed, whether the       *)
(* controller remembers them or not.                                       *)
(*                                                                         *)
(* The n-th deployment rents at most machine n.  What the vastai tool, ssh *)
(* and the remote server answer is open, a call that times out may have    *)
(* had its effect, and a machine that was not found running is not taken   *)
(* for a running one.                                                      *)
(***************************************************************************)
EXTENDS Integers

CONSTANTS
    MaxDeploys,   \* bound: deployments
    MaxStops,     \* bound: calls of stop()
    MaxRestarts   \* bound: restarts of the server

ASSUME VastAssumption ==
    MaxDeploys \in Nat \ {0} /\ MaxStops \in Nat /\ MaxRestarts \in Nat

Machines == 1..MaxDeploys
None == 0

Phases == {"idle", "creating", "waiting", "uploading", "installing", "serving",
           "tunneling", "starting_agent", "ready", "error", "stopped",
           "destroying"}

(* Where the provisioning task is: the call it awaits, or done.            *)
Steps == {"done", "ensure", "create", "attach", "wait", "upload", "install",
          "serve", "open", "reach", "agent", "close", "discard"}

(* The call that follows, and the phase it is made in.                     *)
After == [ensure |-> "create", attach |-> "wait", wait |-> "upload",
          upload |-> "install", install |-> "serve", serve |-> "open",
          reach |-> "agent"]
PhaseOf == [create |-> "creating", wait |-> "waiting", upload |-> "uploading",
            install |-> "installing", serve |-> "serving",
            open |-> "tunneling", agent |-> "starting_agent"]

(* Awaits through asyncio.wait_for: in Python 3.11 a call that has just    *)
(* returned swallows the cancellation of the task that waits for it.       *)
(* Making the remote agent does when it restores one from a checkpoint.    *)
WaitsFor == {"ensure", "create", "attach", "wait", "upload", "install",
             "serve", "agent", "close", "discard"}

(* Calls made after _raise_if_aborted.                                     *)
AbortChecked == {"wait", "upload", "install", "serve", "reach"}

Causes == {"create", "cancelled", "destroy", "redeployed", "restart"}

VARIABLES
    phase, iid, localPort,  \* DeploymentState: phase, instance_id, local_port
    tunnel,                 \* the machine self._tunnel leads to, or None
    forwards,               \* the machines an ssh forward runs to
    abort,                  \* self._abort
    at,                     \* where the provisioning task is
    cancelled,              \* task.cancel() was called and has not arrived
    route,                  \* the route that holds self._lock, or shutdown()
    cloud,                  \* what Vast has of each machine
    forgotten,              \* ghost: billed and unknown here, with the cause
    overtaken,              \* ghost: deployments that a stop() met under way
    deploys, stops, restarts

stateVars == <<phase, iid, localPort>>
tunnelVars == <<tunnel, forwards>>
taskVars == <<abort, at, cancelled>>
worldVars == <<cloud, forgotten>>
budget == <<deploys, stops, restarts, overtaken>>
vars == <<stateVars, tunnelVars, taskVars, route, worldVars, budget>>

Billed(i) == i # None /\ cloud[i] \in {"running", "stopped"}
Busy == at # "done"
Active == phase = "ready" /\ localPort

Init ==
    /\ phase = "idle" /\ iid = None /\ localPort = FALSE
    /\ tunnel = None /\ forwards = {}
    /\ abort = FALSE /\ at = "done" /\ cancelled = FALSE
    /\ route = "none"
    /\ cloud = [i \in Machines |-> "unrented"]
    /\ forgotten = {} /\ overtaken = {}
    /\ deploys = 0 /\ stops = 0 /\ restarts = 0

(* A fresh DeploymentState.  The machine of the old one is forgotten.      *)
Replaced(p, why) ==
    /\ phase' = p /\ iid' = None /\ localPort' = FALSE
    /\ forgotten' = IF Billed(iid) THEN forgotten \cup {<<iid, why>>}
                                   ELSE forgotten

(* Seeded fault: the port of a closed tunnel is kept.                      *)
FaultyCloseTunnel ==
    /\ forwards' = forwards \ {tunnel}
    /\ tunnel' = None /\ UNCHANGED localPort

(* _close_tunnel up to its await: the process is told to end.              *)
CloseTunnel ==
    /\ forwards' = forwards \ {tunnel}
    /\ tunnel' = None /\ localPort' = FALSE

-----------------------------------------------------------------------------
(* The routes, one at a time under the controller's lock.                  *)

Deploy ==
    /\ route = "none" /\ ~Busy
    /\ phase \in {"idle", "error", "stopped"}
    /\ deploys < MaxDeploys /\ deploys' = deploys + 1
    /\ abort' = FALSE
    /\ Replaced("creating", "redeployed")
    /\ at' = "ensure" /\ cancelled' = FALSE
    /\ UNCHANGED <<tunnelVars, route, cloud, stops, restarts, overtaken>>

Stop ==
    /\ route = "none" /\ iid # None
    /\ stops < MaxStops /\ stops' = stops + 1
    /\ route' = "stop"
    /\ overtaken' = IF Busy THEN overtaken \cup {deploys} ELSE overtaken
    /\ CloseTunnel
    /\ UNCHANGED <<phase, iid, taskVars, worldVars, deploys, restarts>>

(* stop() read the id before it closed the tunnel.  The provisioning task  *)
(* may have destroyed that machine and cleared the id since.               *)
Halted == [i \in Machines |->
              IF i = deploys /\ cloud[i] = "running" THEN "stopped" ELSE cloud[i]]

(* Seeded fault: a phase no client knows.                                  *)
FaultyStopReturns ==
    /\ route = "stop" /\ route' = "none"
    /\ cloud' = Halted /\ phase' = "stopping"
    /\ UNCHANGED <<iid, localPort, tunnelVars, taskVars, forgotten, budget>>

StopReturns ==
    /\ route = "stop" /\ route' = "none"
    /\ cloud' = Halted /\ phase' = "stopped"
    /\ UNCHANGED <<iid, localPort, tunnelVars, taskVars, forgotten, budget>>

(* VastCliError leaves stop(): the tunnel is closed and the phase stays.   *)
StopRaises ==
    /\ route = "stop" /\ route' = "none"
    /\ cloud' \in {cloud, Halted}
    /\ UNCHANGED <<stateVars, tunnelVars, taskVars, forgotten, budget>>

(* destroy() and shutdown() cancel the task and wait until it is done.     *)
Cancels(who) ==
    /\ route = "none" /\ route' = who
    /\ abort' = TRUE /\ cancelled' = Busy
    /\ UNCHANGED <<stateVars, tunnelVars, at, worldVars, deploys, stops,
                   overtaken>>

Destroy == Cancels("destroy") /\ UNCHANGED restarts

(* Seeded fault: destroy() does not wait for the task it cancelled.        *)
FaultyTearDown ==
    /\ route = "destroy" /\ route' = "discard"
    /\ phase' = "destroying"
    /\ CloseTunnel
    /\ UNCHANGED <<iid, taskVars, worldVars, budget>>

(* The phase is set before proxy_base() is asked for, so that no remote    *)
(* agent is ever saved here; then the tunnel is closed.                    *)
TearDown ==
    /\ route = "destroy" /\ ~Busy /\ route' = "discard"
    /\ phase' = "destroying"
    /\ CloseTunnel
    /\ UNCHANGED <<iid, taskVars, worldVars, budget>>

Gone(i) == [cloud EXCEPT ![i] = "gone"]

Discarded ==
    /\ route = "discard" /\ route' = "none"
    /\ phase' = "idle" /\ iid' = None /\ localPort' = FALSE
    /\ cloud' = IF iid = None THEN cloud ELSE Gone(iid)
    /\ UNCHANGED <<tunnelVars, taskVars, forgotten, budget>>

(* VastCliError is logged, and the state reset all the same.               *)
DiscardFails ==
    /\ route = "discard" /\ iid # None /\ route' = "none"
    /\ \/ cloud' = cloud /\ Replaced("idle", "destroy")
       \/ /\ cloud' = Gone(iid)
          /\ phase' = "idle" /\ iid' = None /\ localPort' = FALSE
          /\ UNCHANGED forgotten
    /\ UNCHANGED <<tunnelVars, taskVars, budget>>

(* The server ends once no request is open, and starts anew.               *)
Shutdown ==
    /\ restarts < MaxRestarts /\ restarts' = restarts + 1
    /\ Cancels("shutdown")

Restart ==
    /\ route = "shutdown" /\ ~Busy /\ route' = "none"
    /\ tunnel' = None /\ forwards' = forwards \ {tunnel}
    /\ Replaced("idle", "restart")
    /\ abort' = FALSE
    /\ UNCHANGED <<at, cancelled, cloud, budget>>

RouteStep ==
    \/ StopReturns \/ StopRaises \/ TearDown \/ Discarded \/ DiscardFails
    \/ Restart

-----------------------------------------------------------------------------
(* The provisioning task.                                                  *)

(* The call the task awaits at k returns.                                  *)
Returns(k) ==
    /\ at = k
    /\ cancelled => k \in WaitsFor
    /\ cancelled' = FALSE

(* The handler of a failed step: unless the deployment is being torn down, *)
(* a machine that was rented is destroyed.                                 *)
Fails ==
    /\ phase' = "error"
    /\ IF iid # None /\ ~abort
       THEN CloseTunnel /\ at' = "close"
       ELSE UNCHANGED <<localPort, tunnelVars>> /\ at' = "done"

(* Goes on to the call at k, unless it finds that it was aborted.          *)
GoesOn(k) ==
    IF k \in AbortChecked /\ abort
    THEN Fails
    ELSE /\ at' = k
         /\ phase' = IF k \in DOMAIN PhaseOf THEN PhaseOf[k] ELSE phase
         /\ UNCHANGED <<localPort, tunnelVars>>

taskFrame == <<abort, route, budget>>

(* ensure_ssh, attach_ssh (whose failure is ignored), the wait for a       *)
(* running machine, upload, install, serve, the wait for the server.       *)
StepDone(k) ==
    /\ Returns(k)
    /\ k = "wait" => cloud[iid] = "running"
    /\ GoesOn(After[k])
    /\ UNCHANGED <<iid, worldVars, taskFrame>>

(* Seeded fault: the wait for a running machine has no deadline.           *)
FaultyStepRaises(k) ==
    /\ k # "wait"
    /\ Returns(k)
    /\ Fails
    /\ UNCHANGED <<iid, worldVars, taskFrame>>

(* A step raises, be it at its deadline: ten minutes for the machine to    *)
(* run, three for the server to answer, and the timeouts of the tools.     *)
StepRaises(k) ==
    /\ Returns(k)
    /\ Fails
    /\ UNCHANGED <<iid, worldVars, taskFrame>>

(* Vast opens the contract; the tool has not answered yet.                 *)
Rent ==
    /\ at = "create" /\ cloud[deploys] = "unrented"
    /\ cloud' = [cloud EXCEPT ![deploys] = "running"]
    /\ UNCHANGED <<stateVars, tunnelVars, at, cancelled, forgotten, taskFrame>>

CreateReturns ==
    /\ Returns("create") /\ cloud[deploys] # "unrented"
    /\ iid' = deploys
    /\ at' = "attach"
    /\ UNCHANGED <<phase, localPort, tunnelVars, worldVars, taskFrame>>

(* create_instance raises.  A contract opened all the same is destroyed if *)
(* the answer names it and that call succeeds.                             *)
CreateRaises ==
    /\ Returns("create")
    /\ Fails
    /\ \/ /\ cloud[deploys] = "unrented"
          /\ UNCHANGED worldVars
       \/ /\ cloud[deploys] # "unrented"
          /\ cloud' = Gone(deploys) /\ UNCHANGED forgotten
       \/ /\ Billed(deploys)
          /\ forgotten' = forgotten \cup {<<deploys, "create">>}
          /\ UNCHANGED cloud
    /\ UNCHANGED <<iid, taskFrame>>

(* open_tunnel gives a process.  The abort flag was not looked at.         *)
TunnelOpens ==
    /\ Returns("open")
    /\ tunnel' = iid /\ forwards' = forwards \cup {iid}
    /\ localPort' = TRUE
    /\ IF abort THEN at' = "done" /\ phase' = "error"
                ELSE at' = "reach" /\ UNCHANGED phase
    /\ UNCHANGED <<iid, worldVars, taskFrame>>

(* The remote agent was made: the deployment is ready.                     *)
Ready ==
    /\ Returns("agent")
    /\ phase' = "ready" /\ at' = "done"
    /\ UNCHANGED <<iid, localPort, tunnelVars, worldVars, taskFrame>>

(* The clean-up of a failed provisioning: the tunnel's process has ended,  *)
(* and the machine is destroyed, or that fails and its id is kept.         *)
Closed ==
    /\ Returns("close") /\ at' = "discard"
    /\ UNCHANGED <<stateVars, tunnelVars, worldVars, taskFrame>>

CleanedUp ==
    /\ Returns("discard") /\ at' = "done"
    /\ cloud' = Gone(iid) /\ iid' = None
    /\ UNCHANGED <<phase, localPort, tunnelVars, forgotten, taskFrame>>

(* Seeded fault: the id is dropped although the machine may still run.     *)
FaultyCleanUpFails ==
    /\ Returns("discard") /\ at' = "done"
    /\ cloud' \in {cloud, Gone(iid)} /\ iid' = None
    /\ UNCHANGED <<phase, localPort, tunnelVars, forgotten, taskFrame>>

CleanUpFails ==
    /\ Returns("discard") /\ at' = "done"
    /\ cloud' \in {cloud, Gone(iid)}
    /\ UNCHANGED <<stateVars, tunnelVars, forgotten, taskFrame>>

(* CancelledError ends the task: it is no Exception, and nothing handles   *)
(* it.  A vastai process that was renting goes on without it.              *)
Dies ==
    /\ cancelled /\ Busy
    /\ at' = "done" /\ cancelled' = FALSE
    /\ \/ at # "create" /\ UNCHANGED worldVars
       \/ at = "create" /\ cloud[deploys] = "unrented" /\ UNCHANGED worldVars
       \/ /\ at = "create" /\ cloud[deploys] # "gone"
          /\ cloud' = [cloud EXCEPT ![deploys] =
                          IF @ = "unrented" THEN "running" ELSE @]
          /\ forgotten' = forgotten \cup {<<deploys, "cancelled">>}
    /\ UNCHANGED <<stateVars, tunnelVars, taskFrame>>

TaskStep ==
    \/ \E k \in DOMAIN After : StepDone(k)
    \/ \E k \in (DOMAIN After \cup {"open", "agent"}) \ {"attach"} :
          StepRaises(k)
    \/ Rent \/ CreateReturns \/ CreateRaises \/ TunnelOpens \/ Ready
    \/ Closed \/ CleanedUp \/ CleanUpFails \/ Dies

(* A host fails: its machine does not run and is billed.                   *)
HostFails ==
    \E i \in Machines :
        /\ cloud[i] = "running" /\ cloud' = [cloud EXCEPT ![i] = "stopped"]
        /\ UNCHANGED <<stateVars, tunnelVars, taskVars, route, forgotten,
                       budget>>

Next ==
    \/ Deploy \/ Stop \/ Destroy \/ Shutdown \/ RouteStep
    \/ TaskStep
    \/ HostFails

(* Every call the controller makes has a timeout; the calls of its routes  *)
(* are up to the operator.                                                 *)
Spec == Init /\ [][Next]_vars /\ WF_vars(TaskStep) /\ WF_vars(RouteStep)

-----------------------------------------------------------------------------
VastTypeOK ==
    /\ phase \in Phases /\ iid \in Machines \cup {None}
    /\ localPort \in BOOLEAN
    /\ tunnel \in Machines \cup {None} /\ forwards \subseteq Machines
    /\ abort \in BOOLEAN /\ at \in Steps /\ cancelled \in BOOLEAN
    /\ route \in {"none", "stop", "destroy", "discard", "shutdown"}
    /\ cloud \in [Machines -> {"unrented", "running", "stopped", "gone"}]
    /\ forgotten \subseteq Machines \X Causes
    /\ deploys \in 0..MaxDeploys /\ stops \in 0..MaxStops
    /\ restarts \in 0..MaxRestarts /\ overtaken \subseteq Machines

(* A machine that is billed is the one the controller knows, or is being   *)
(* rented, or was forgotten in one of five ways and in one only: the tool  *)
(* failed or timed out after it had rented, the task was cancelled while   *)
(* the tool rented, destroy() could not destroy, a new deployment replaced *)
(* the state of a stopped or failed one, the server restarted.             *)
BilledIsKnown ==
    \A i \in Machines :
        /\ Billed(i) => \/ i = iid
                        \/ i = deploys /\ at = "create"
                        \/ \E c \in Causes : <<i, c>> \in forgotten
        /\ \A c, d \in Causes :
              <<i, c>> \in forgotten /\ <<i, d>> \in forgotten => c = d
        /\ i = iid => \A c \in Causes : <<i, c>> \notin forgotten

(* The proxy forwards requests only while the provisioning is over, and    *)
(* its port belongs to a tunnel this controller holds, to the machine of   *)
(* this deployment; it forwards nothing during a teardown, and no other    *)
(* ssh forward is left running.  A stop() that meets a provisioning under  *)
(* way spoils that deployment and none before or after it: its task may    *)
(* open the tunnel after stop() closed what there was, and the next        *)
(* deployment's takes its place.                                           *)
ActiveHonest ==
    /\ Active => ~Busy /\ iid # None /\ tunnel = iid
    /\ Active => route # "discard" /\ (route = "stop" => iid \in overtaken)
    /\ forwards \subseteq {tunnel} \cup overtaken

(* A controller that says idle has nothing going on: no task that could    *)
(* still rent or open, no machine, no tunnel but of deployments overtaken. *)
IdleIsQuiet ==
    phase = "idle" => /\ ~Busy /\ iid = None /\ tunnel = None /\ ~localPort
                      /\ forwards \subseteq overtaken

(* Provisioning comes to an end, and so does every route, although the     *)
(* task may be cancelled, stopped or failed at any of its calls and        *)
(* destroy() waits for it.                                                 *)
Settles ==
    /\ Busy ~> ~Busy
    /\ route # "none" ~> route = "none"
=============================================================================
