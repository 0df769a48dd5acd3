------------------------------ MODULE Lifecycle ------------------------------
(***************************************************************************)
(* The driver's entry in the service control manager, from one start of    *)
(* the program to the next: the Bootstrapper clears what an earlier        *)
(* session left, creates the entry, starts the driver, the service and the *)
(* game (Bootstrapper/entry.cpp); the service destroys the entry when it   *)
(* closes (Service/entry.cpp).  Both use the same three functions (scm.cpp *)
(* of either), each a series of calls that other processes interleave      *)
(* with.  A launch may overlap the end of an earlier session.              *)
(***************************************************************************)
EXTENDS Naturals, FiniteSets

CONSTANTS Launches,   \* starts of the Bootstrapper, one session each
          MaxMishaps  \* bound on the agents that meet a mishap

ASSUME LifecycleAssumption == IsFiniteSet(Launches) /\ MaxMishaps \in Nat

(* The two processes of a launch.                                          *)
Boots    == {"boot"} \X Launches
Sessions == {"session"} \X Launches
Agents   == Boots \cup Sessions

VARIABLES
  entry,      \* the manager's entry: "none", "registered", "marked" to go
  driver,     \* "stopped", "running", "stopping"
  pc, sub,    \* where an agent is in its program and in a function of scm
  handle,     \* agents with a handle to the entry open
  device,     \* sessions with a handle to the device open
  mishap,     \* history: agents to which the system refused something
  disturbed   \* history: launches another agent was active beside, or that
              \* began while the driver was stopping

agentVars == <<pc, sub>>
vars == <<entry, driver, agentVars, handle, device, mishap, disturbed>>

(* Where each program goes on when the step it is at succeeds or fails.    *)
OnSuccess == [clean |-> "create", create |-> "start", start |-> "launch",
              launch |-> "game", game |-> "done", undo |-> "failed", cleanup |-> "gone"]
OnFailure == [clean |-> "create", create |-> "failed", start |-> "undo",
              launch |-> "undo", game |-> "undo", undo |-> "failed", cleanup |-> "gone"]

Destroys == {"clean", "undo", "cleanup"}
Resting  == {"off", "done", "failed", "gone"}
Active(a) == pc[a] \notin Resting

(* Agents that run beside launch l, of another launch.                     *)
Beside(l) == {a \in Agents : a[2] # l /\ Active(a)}

To(a, s) == sub' = [sub EXCEPT ![a] = s] /\ UNCHANGED pc

Return(a, ok) ==
  /\ pc' = [pc EXCEPT ![a] = IF ok THEN OnSuccess[@] ELSE OnFailure[@]]
  /\ sub' = [sub EXCEPT ![a] = "ready"]

At(a, places, s) == pc[a] \in places /\ sub[a] = s

(* The system may refuse any call.                                         *)
Refused(a) ==
  /\ Cardinality(mishap \cup {a}) <= MaxMishaps
  /\ mishap' = mishap \cup {a}
Granted == UNCHANGED mishap

(* A marked entry goes when the driver is stopped and its last handle is   *)
(* closed.                                                                 *)
Reap(e, d, h) == IF e = "marked" /\ d = "stopped" /\ h = {} THEN "none" ELSE e

Close(a) ==
  /\ handle' = handle \ {a}
  /\ entry' = Reap(entry, driver, handle \ {a})

-----------------------------------------------------------------------------
(* scm::Destroy.                                                           *)
OpenToDestroy(a) ==
  /\ At(a, Destroys, "ready")
  /\ \/ /\ entry # "none"
        /\ handle' = handle \cup {a}
        /\ To(a, "stop") /\ Granted
     \/ /\ Return(a, FALSE)
        /\ IF entry = "none" THEN Granted ELSE Refused(a)
        /\ UNCHANGED handle
  /\ UNCHANGED <<entry, driver, device, disturbed>>

(* Mutant of Stop: the driver is asked to stop and not waited for.         *)
StopNoWait(a) ==
  /\ At(a, Destroys, "stop")
  /\ \/ /\ driver = "running"
        /\ driver' = "stopping"
        /\ To(a, "delete") /\ Granted
     \/ /\ driver = "stopped"
        /\ To(a, "delete") /\ Granted
        /\ UNCHANGED driver
  /\ UNCHANGED <<entry, handle, device, disturbed>>

(* ControlService: for a driver that is stopped it fails, with the state   *)
(* stored; a refusal leaves the state as memset made it.                   *)
Stop(a) ==
  /\ At(a, Destroys, "stop")
  /\ \/ /\ driver = "running"
        /\ driver' = "stopping"
        /\ To(a, "poll") /\ Granted
     \/ /\ driver = "stopped"
        /\ To(a, "delete") /\ Granted
        /\ UNCHANGED driver
     \/ /\ To(a, "closeFailed")
        /\ IF driver = "stopping" THEN Granted ELSE Refused(a)
        /\ UNCHANGED driver
  /\ UNCHANGED <<entry, handle, device, disturbed>>

(* Mutant of Poll: the loop ends only when the driver is seen stopped.     *)
PollStopped(a) ==
  /\ At(a, Destroys, "poll")
  /\ driver = "stopped"
  /\ To(a, "delete")
  /\ UNCHANGED <<entry, driver, handle, device, mishap, disturbed>>

(* QueryServiceStatus, every 500 ms.                                       *)
Poll(a) ==
  /\ At(a, Destroys, "poll")
  /\ driver # "stopping"
  /\ To(a, IF driver = "stopped" THEN "delete" ELSE "closeFailed")
  /\ UNCHANGED <<entry, driver, handle, device, mishap, disturbed>>

(* A refusal ends the loop with the pending state stored.                  *)
PollFails(a) ==
  /\ At(a, Destroys, "poll")
  /\ To(a, "closeFailed") /\ Refused(a)
  /\ UNCHANGED <<entry, driver, handle, device, disturbed>>

Delete(a) ==
  /\ At(a, Destroys, "delete")
  /\ \/ entry' = "marked" /\ To(a, "close") /\ Granted
     \/ To(a, "closeFailed") /\ UNCHANGED entry
        /\ IF entry = "marked" THEN Granted ELSE Refused(a)
  /\ UNCHANGED <<driver, handle, device, disturbed>>

(* Mutant of CloseFailed: the early return closes only the manager.        *)
CloseFailedLeaks(a) ==
  /\ sub[a] = "closeFailed"
  /\ Return(a, FALSE)
  /\ UNCHANGED <<entry, handle, driver, device, mishap, disturbed>>

(* CloseServiceHandle and the result, in any of the three functions.       *)
CloseFailed(a) ==
  /\ sub[a] = "closeFailed"
  /\ Close(a)
  /\ Return(a, FALSE)
  /\ UNCHANGED <<driver, device, mishap, disturbed>>

CloseDone(a) ==
  /\ sub[a] = "close"
  /\ Close(a)
  /\ Return(a, TRUE)
  /\ UNCHANGED <<driver, device, mishap, disturbed>>

-----------------------------------------------------------------------------
(* scm::Create: an entry that is still there is marked and closed first,   *)
(* whatever the driver does.                                               *)
OpenToReplace(a) ==
  /\ At(a, {"create"}, "ready")
  /\ \/ /\ entry # "none"
        /\ handle' = handle \cup {a}
        /\ \/ entry' = "marked" /\ Granted
           \/ UNCHANGED entry /\ Refused(a)
        /\ To(a, "closeOld")
     \/ /\ To(a, "create")
        /\ IF entry = "none" THEN Granted ELSE Refused(a)
        /\ UNCHANGED <<entry, handle>>
  /\ UNCHANGED <<driver, device, disturbed>>

CloseOld(a) ==
  /\ sub[a] = "closeOld"
  /\ Close(a)
  /\ To(a, "create")
  /\ UNCHANGED <<driver, device, mishap, disturbed>>

Create(a) ==
  /\ At(a, {"create"}, "create")
  /\ \/ /\ entry = "none"
        /\ entry' = "registered"
        /\ handle' = handle \cup {a}
        /\ To(a, "close") /\ Granted
     \/ /\ Return(a, FALSE)
        /\ IF entry # "none" THEN Granted ELSE Refused(a)
        /\ UNCHANGED <<entry, handle>>
  /\ UNCHANGED <<driver, device, disturbed>>

(* scm::Start; the driver may fail to load.                                *)
OpenToStart(a) ==
  /\ At(a, {"start"}, "ready")
  /\ \/ /\ entry # "none"
        /\ handle' = handle \cup {a}
        /\ To(a, "start") /\ Granted
     \/ /\ Return(a, FALSE)
        /\ IF entry = "none" THEN Granted ELSE Refused(a)
        /\ UNCHANGED handle
  /\ UNCHANGED <<entry, driver, device, disturbed>>

Start(a) ==
  /\ At(a, {"start"}, "start")
  /\ \/ /\ entry = "registered" /\ driver = "stopped"
        /\ driver' = "running"
        /\ To(a, "close") /\ Granted
     \/ /\ To(a, "closeFailed")
        /\ IF entry = "registered" /\ driver = "stopped" THEN Refused(a) ELSE Granted
        /\ UNCHANGED driver
  /\ UNCHANGED <<entry, handle, device, disturbed>>

-----------------------------------------------------------------------------
(* The Bootstrapper starts, and its two process::Create.                   *)
Begin(l) ==
  /\ pc[<<"boot", l>>] = "off"
  /\ pc' = [pc EXCEPT ![<<"boot", l>>] = "clean"]
  /\ disturbed' = disturbed \cup {a[2] : a \in Beside(l)}
                           \cup {m \in {l} : Beside(l) # {} \/ driver = "stopping"}
  /\ UNCHANGED <<entry, driver, sub, handle, device, mishap>>

LaunchService(l) ==
  LET b == <<"boot", l>> IN
  /\ pc[b] = "launch"
  /\ \/ pc' = [pc EXCEPT ![b] = "game", ![<<"session", l>>] = "init"] /\ Granted
     \/ pc' = [pc EXCEPT ![b] = "undo"] /\ Refused(b)
  /\ UNCHANGED <<entry, driver, sub, handle, device, disturbed>>

(* Mutant of LaunchGame: the entry is destroyed when the game has started. *)
LaunchGameUndone(l) ==
  LET b == <<"boot", l>> IN
  /\ pc[b] = "game"
  /\ Return(b, FALSE) /\ Granted
  /\ UNCHANGED <<entry, driver, handle, device, disturbed>>

LaunchGame(l) ==
  LET b == <<"boot", l>> IN
  /\ pc[b] = "game"
  /\ \/ Return(b, TRUE) /\ Granted
     \/ Return(b, FALSE) /\ Refused(b)
  /\ UNCHANGED <<entry, driver, handle, device, disturbed>>

(* The service opens the device for each request; INITIALIZE, which ends   *)
(* the process if it fails, first.                                         *)
OpenDevice(s) ==
  /\ pc[s] \in {"init", "work", "unit"}
  /\ s \notin device
  /\ driver = "running"
  /\ device' = device \cup {s}
  /\ UNCHANGED <<entry, driver, agentVars, handle, mishap, disturbed>>

CloseDevice(s) ==
  /\ s \in device
  /\ device' = device \ {s}
  /\ pc' = [pc EXCEPT ![s] = IF @ = "init" THEN "work"
                             ELSE IF @ = "unit" THEN "cleanup" ELSE @]
  /\ UNCHANGED <<entry, driver, sub, handle, mishap, disturbed>>

NoDevice(s) ==
  /\ s \notin device
  /\ driver # "running"
  /\ \/ pc[s] = "init" /\ pc' = [pc EXCEPT ![s] = "gone"]
     \/ pc[s] = "unit" /\ pc' = [pc EXCEPT ![s] = "cleanup"]
  /\ UNCHANGED <<entry, driver, sub, handle, device, mishap, disturbed>>

(* onRaisedException, before INITIALIZE or after.                          *)
Closing(s) ==
  /\ pc[s] \in {"init", "work"}
  /\ s \notin device
  /\ pc' = [pc EXCEPT ![s] = "unit"]
  /\ UNCHANGED <<entry, driver, sub, handle, device, mishap, disturbed>>

(* UNINITIALIZE fails; its result is not looked at.                        *)
UnitFails(s) ==
  /\ pc[s] = "unit"
  /\ s \notin device
  /\ pc' = [pc EXCEPT ![s] = "cleanup"]
  /\ Refused(s)
  /\ UNCHANGED <<entry, driver, sub, handle, device, disturbed>>

(* The service process is ended from outside, or main returns: nothing is  *)
(* cleaned up, the system closes its handles.                              *)
Killed(s) ==
  /\ Active(s)
  /\ pc' = [pc EXCEPT ![s] = "gone"]
  /\ sub' = [sub EXCEPT ![s] = "ready"]
  /\ Close(s)
  /\ device' = device \ {s}
  /\ Refused(s)
  /\ UNCHANGED <<driver, disturbed>>

(* driverUnload, once no handle to the device is open.                     *)
Unload ==
  /\ driver = "stopping"
  /\ device = {}
  /\ driver' = "stopped"
  /\ entry' = Reap(entry, driver', handle)
  /\ UNCHANGED <<agentVars, handle, device, mishap, disturbed>>

-----------------------------------------------------------------------------
Init ==
  /\ entry = "none"
  /\ driver = "stopped"
  /\ pc = [a \in Agents |-> "off"]
  /\ sub = [a \in Agents |-> "ready"]
  /\ handle = {} /\ device = {}
  /\ mishap = {} /\ disturbed = {}

Scm(a) ==
  \/ OpenToDestroy(a) \/ Stop(a) \/ Poll(a) \/ Delete(a) \/ CloseFailed(a) \/ CloseDone(a)
  \/ OpenToReplace(a) \/ CloseOld(a) \/ Create(a) \/ OpenToStart(a) \/ Start(a)

Device(s) == OpenDevice(s) \/ CloseDevice(s) \/ NoDevice(s)

Next ==
  \/ Unload
  \/ \E a \in Agents : Scm(a) \/ PollFails(a)
  \/ \E l \in Launches : Begin(l) \/ LaunchService(l) \/ LaunchGame(l)
  \/ \E s \in Sessions : Device(s) \/ Closing(s) \/ UnitFails(s) \/ Killed(s)

Spec == Init /\ [][Next]_vars

(* Calls return, and the processes are scheduled; a session need not end,  *)
(* and nothing counts on a poll or on UNINITIALIZE to fail.                *)
Fairness ==
  /\ WF_vars(Unload)
  /\ \A a \in Agents : WF_vars(Scm(a))
  /\ \A s \in Sessions : WF_vars(CloseDevice(s)) /\ WF_vars(NoDevice(s))
  /\ \A l \in Launches : WF_vars(LaunchService(l)) /\ WF_vars(LaunchGame(l))

FairSpec == Spec /\ Fairness

-----------------------------------------------------------------------------
LifecycleTypeOK ==
  /\ entry \in {"none", "registered", "marked"}
  /\ driver \in {"stopped", "running", "stopping"}
  /\ pc \in [Agents -> DOMAIN OnSuccess \cup Resting \cup {"init", "work", "unit"}]
  /\ sub \in [Agents -> {"ready", "stop", "poll", "delete", "close", "closeFailed",
                         "closeOld", "create", "start"}]
  /\ handle \subseteq {a \in Agents : sub[a] # "ready"}
  /\ device \subseteq Sessions
  /\ mishap \subseteq Agents
  /\ disturbed \subseteq Launches

(* No path of the three functions keeps a handle: once nobody is in them   *)
(* and the driver is stopped, no entry marked for deletion is left, which  *)
(* would make every later CreateService fail until a restart.              *)
NoWedge ==
  (\A a \in Agents : sub[a] = "ready") /\ driver = "stopped" => entry # "marked"

(* Whatever earlier sessions left, killed ones and failed launches         *)
(* included, a launch that runs alone succeeds unless the system refuses   *)
(* it something: its own Destroy and Create clear the way.  Not so if it   *)
(* begins while the driver stops: Destroy polls only a stop of its own.    *)
LaunchAloneSucceeds ==
  \A l \in Launches \ disturbed :
    pc[<<"boot", l>>] = "failed" => <<"boot", l>> \in mishap

(* A session at work keeps its driver until it closes, if no other launch  *)
(* overlaps it and its own Bootstrapper has not failed to start the game.  *)
SessionKeepsDriver ==
  \A l \in Launches \ disturbed :
    pc[<<"session", l>>] = "work" /\ <<"boot", l>> \notin mishap => driver = "running"

(* Every launch comes to its end, Destroy's polling of a driver that other *)
(* processes use and restart included.                                     *)
LaunchEnds ==
  \A l \in Launches : pc[<<"boot", l>>] = "clean" ~> pc[<<"boot", l>>] \in {"done", "failed"}
=============================================================================
