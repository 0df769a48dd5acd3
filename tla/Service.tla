------------------------------- MODULE Service -------------------------------
(***************************************************************************)
(* The service process: main starts the session (Service/entry.cpp), the   *)
(* driver and the module injected into the game start a thread in it for   *)
(* each event (Service/callbacks.cpp), and whichever thread raises an      *)
(* exception, on purpose or not, closes the session in onRaisedException.  *)
(* The driver is seen through its routines: are they installed for this    *)
(* process, and are they recorded so that UNINITIALIZE removes them?       *)
(***************************************************************************)
EXTENDS Naturals, FiniteSets

CONSTANTS Callbacks,   \* threads started for events
          Main,        \* the thread that runs main
          MaxOrphans   \* bound on the buffers lost with a thread

ASSUME ServiceAssumption ==
  /\ Main \notin Callbacks
  /\ IsFiniteSet(Callbacks)
  /\ MaxOrphans \in Nat

Threads == Callbacks \cup {Main}

(* "image" stands for the events that are only appended to a vector, "bare" *)
(* is an integrity event whose patches could not be allocated.             *)
KernelKinds   == {"created", "ended", "image"}
InternalKinds == {"integrity", "bare", "heartbeat"}
EventKinds    == KernelKinds \cup InternalKinds

VARIABLES
  alive, ending,    \* the process runs; how it ended
  pc, kind,         \* where a thread is; the event a callback thread has
  pid,              \* g_process_id is set
  buffers,          \* event buffers allocated in this process
  orphans,          \* history: buffers whose thread could not be created
  torn,             \* history: two threads were in push_back at a time
  loaded,           \* the driver is loaded
  hooked, claimed,  \* its routines are installed for us, and recorded
  refused, crossed, \* history: a removal refused; the end of an INITIALIZE
                    \* that an UNINITIALIZE had overtaken
  unsent,           \* history: an UNINITIALIZE did not reach the driver
  game, seen,       \* the game, and whether the driver saw it start
  injected,         \* the internal module runs in the game
  cause             \* history: what raised the first exception

driverVars == <<loaded, hooked, claimed, refused, crossed, unsent>>
gameVars   == <<game, seen, injected>>
bufferVars == <<buffers, orphans>>
vars == <<alive, ending, pc, kind, pid, bufferVars, torn, driverVars, gameVars, cause>>

GoTo(t, l) == pc' = [pc EXCEPT ![t] = l]

(* An exception in thread t: the handler, first in the chain, never        *)
(* returns, so no catch clause is reached.                                 *)
Raise(t, why) ==
  /\ GoTo(t, "unit")
  /\ cause' = IF cause = "none" THEN why ELSE cause

InRequest(t) == pc[t] \in {"registering", "removing"}

-----------------------------------------------------------------------------
(* main.                                                                   *)

(* streamShellcode: a reply shorter than 0x1000 bytes, or sendServer       *)
(* returning, is all main distinguishes.                                   *)
Stream ==
  /\ alive /\ pc[Main] = "stream"
  /\ \E l \in {"init", "box"} : GoTo(Main, l)
  /\ UNCHANGED <<alive, ending, kind, pid, bufferVars, torn, driverVars, gameVars, cause>>

(* connect, read or write fails, in streamShellcode or in sendHeartbeat.   *)
ConnectionError ==
  /\ alive /\ pc[Main] \in {"stream", "loop"}
  /\ Raise(Main, "connection")
  /\ UNCHANGED <<alive, ending, kind, pid, bufferVars, torn, driverVars, gameVars>>

(* kernel::Init.  Events come as soon as the first routine is installed.   *)
InitStart ==
  /\ alive /\ pc[Main] = "init"
  /\ \/ /\ loaded
        /\ hooked' = TRUE /\ claimed' = TRUE
        /\ GoTo(Main, "registering")
     \/ /\ GoTo(Main, "box")
        /\ UNCHANGED <<hooked, claimed>>
  /\ UNCHANGED <<alive, ending, kind, pid, bufferVars, torn, loaded, refused, crossed,
                 unsent, gameVars, cause>>

(* The other routines: all of them, or a failure that removes nothing.     *)
InitEnd ==
  /\ alive /\ pc[Main] = "registering"
  /\ \/ GoTo(Main, "wait") /\ hooked' = TRUE /\ claimed' = TRUE
     \/ GoTo(Main, "box")  /\ UNCHANGED <<hooked, claimed>>
  /\ crossed' = (crossed \/ ~claimed)
  /\ UNCHANGED <<alive, ending, kind, pid, bufferVars, torn, loaded, refused, unsent,
                 gameVars, cause>>

WaitGame ==
  /\ alive /\ pc[Main] = "wait"
  /\ pid
  /\ GoTo(Main, "inject")
  /\ UNCHANGED <<alive, ending, kind, pid, bufferVars, torn, driverVars, gameVars, cause>>

(* kernel::Inject: each of its calls may fail.                             *)
Inject ==
  /\ alive /\ pc[Main] = "inject"
  /\ \/ /\ loaded /\ game = "running"
        /\ injected' = TRUE
        /\ GoTo(Main, "loop")
     \/ /\ GoTo(Main, "box")
        /\ UNCHANGED injected
  /\ UNCHANGED <<alive, ending, kind, pid, bufferVars, torn, driverVars, game, seen, cause>>

(* The process ends when no request of its threads is in progress.         *)
EndProcess(how) ==
  /\ \A t \in Threads : ~InRequest(t)
  /\ alive' = FALSE
  /\ ending' = how
  /\ UNCHANGED <<pc, kind, pid, bufferVars, torn, driverVars, gameVars, cause>>

(* main returns after a message box, without an UNINITIALIZE.              *)
Return == alive /\ pc[Main] = "box" /\ EndProcess("return")

-----------------------------------------------------------------------------
(* Events.  invokeRequestCallbackEx of the driver and that of the internal *)
(* module both allocate a buffer here and start a thread with it; neither  *)
(* frees the buffer if the thread cannot be created, the latter not the    *)
(* patches if the event cannot be allocated.                               *)
Size(k) == IF k = "integrity" THEN 2 ELSE 1   \* the patches are a second one

Post(k) ==
  \/ \E c \in Callbacks :
       /\ pc[c] = "idle"
       /\ GoTo(c, "dispatch")
       /\ kind' = [kind EXCEPT ![c] = k]
       /\ buffers' = buffers + Size(k)
       /\ UNCHANGED orphans
  \/ \E n \in 1..Size(k) :
       /\ orphans + n <= MaxOrphans
       /\ buffers' = buffers + n
       /\ orphans' = orphans + n
       /\ UNCHANGED <<pc, kind>>
  \/ UNCHANGED <<pc, kind, bufferVars>>

GameStarts ==
  /\ alive /\ game = "none"
  /\ game' = "running"
  /\ seen' = hooked
  /\ IF hooked THEN Post("created") ELSE UNCHANGED <<pc, kind, bufferVars>>
  /\ UNCHANGED <<alive, ending, pid, torn, driverVars, injected, cause>>

(* While g_game_pid is empty the driver looks at every process that ends,  *)
(* so it need not have seen the game start to announce its end.            *)
GameEnds ==
  /\ alive /\ game = "running"
  /\ game' = "over"
  /\ injected' = FALSE
  /\ IF hooked THEN Post("ended") ELSE UNCHANGED <<pc, kind, bufferVars>>
  /\ UNCHANGED <<alive, ending, pid, torn, driverVars, seen, cause>>

KernelEvent ==
  /\ alive /\ game = "running" /\ seen /\ hooked
  /\ Post("image")
  /\ UNCHANGED <<alive, ending, pid, torn, driverVars, gameVars, cause>>

InternalEvent ==
  /\ alive /\ injected
  /\ \E k \in InternalKinds : Post(k)
  /\ UNCHANGED <<alive, ending, pid, torn, driverVars, gameVars, cause>>

-----------------------------------------------------------------------------
(* callbacks::Dispatcher.                                                  *)
AtDispatch(c, k) == alive /\ pc[c] = "dispatch" /\ kind[c] = k

OnCreated(c) ==
  /\ AtDispatch(c, "created")
  /\ pid' = TRUE
  /\ GoTo(c, "free")
  /\ UNCHANGED <<alive, ending, kind, bufferVars, torn, driverVars, gameVars, cause>>

(* Mutant of OnEnded: the end of the game is taken for its start.          *)
OnEndedIgnored(c) ==
  /\ AtDispatch(c, "ended")
  /\ pid' = TRUE
  /\ GoTo(c, "free")
  /\ UNCHANGED <<alive, ending, kind, bufferVars, torn, driverVars, gameVars, cause>>

(* VEH_TRIGGER().                                                          *)
OnEnded(c) ==
  /\ AtDispatch(c, "ended")
  /\ Raise(c, "ended")
  /\ UNCHANGED <<alive, ending, kind, pid, bufferVars, torn, driverVars, gameVars>>

(* The path is looked up, which may throw, and push_back is entered.       *)
OnImage(c) ==
  /\ AtDispatch(c, "image")
  /\ \/ /\ GoTo(c, "append")
        /\ torn' = (torn \/ \E d \in Callbacks \ {c} : pc[d] = "append")
        /\ UNCHANGED cause
     \/ Raise(c, "path") /\ UNCHANGED torn
  /\ UNCHANGED <<alive, ending, kind, pid, bufferVars, driverVars, gameVars>>

(* A vector that two threads appended to at a time may be past use.        *)
Append(c) ==
  /\ alive /\ pc[c] = "append"
  /\ \/ GoTo(c, "free") /\ UNCHANGED cause
     \/ torn /\ Raise(c, "vector")
  /\ UNCHANGED <<alive, ending, kind, pid, bufferVars, torn, driverVars, gameVars>>

(* Mutant of OnIntegrity: the patches stay.                                *)
OnIntegrityLeaks(c) ==
  /\ AtDispatch(c, "integrity")
  /\ GoTo(c, "free")
  /\ UNCHANGED <<alive, ending, kind, pid, bufferVars, torn, driverVars, gameVars, cause>>

(* The patches are printed, null or not, and released.                     *)
OnIntegrity(c) ==
  /\ \/ /\ AtDispatch(c, "integrity")
        /\ buffers' = buffers - 1
        /\ GoTo(c, "free")
        /\ UNCHANGED cause
     \/ /\ AtDispatch(c, "bare")
        /\ Raise(c, "patches")
        /\ UNCHANGED buffers
  /\ UNCHANGED <<alive, ending, kind, pid, orphans, torn, driverVars, gameVars>>

OnHeartbeat(c) ==
  /\ AtDispatch(c, "heartbeat")
  /\ GoTo(c, "free")
  /\ UNCHANGED <<alive, ending, kind, pid, bufferVars, torn, driverVars, gameVars, cause>>

(* VirtualFree(ctx), and the thread ends.                                  *)
Free(c) ==
  /\ alive /\ pc[c] = "free"
  /\ buffers' = buffers - 1
  /\ GoTo(c, "idle")
  /\ UNCHANGED <<alive, ending, kind, pid, orphans, torn, driverVars, gameVars, cause>>

-----------------------------------------------------------------------------
(* onRaisedException, in any thread and in several at once.                *)

(* Mutant of UnitStart: UNINITIALIZE is not sent.                          *)
UnitStartForgotten(t) ==
  /\ alive /\ pc[t] = "unit"
  /\ GoTo(t, "destroy")
  /\ UNCHANGED <<alive, ending, kind, pid, bufferVars, torn, driverVars, gameVars, cause>>

(* kernel::Unit: the routines that are recorded are removed by the request *)
(* that finds them so; a request beside it removes what the other has not  *)
(* come to, or nothing.  The device may not open, or the request fail: its *)
(* result is not looked at.                                                *)
UnitStart(t) ==
  /\ alive /\ pc[t] = "unit"
  /\ \/ /\ loaded
        /\ claimed \/ \E u \in Threads : pc[u] = "removing"
        /\ claimed' = FALSE
        /\ GoTo(t, "removing")
        /\ UNCHANGED unsent
     \/ /\ unsent' = (unsent \/ claimed)
        /\ GoTo(t, "destroy")
        /\ UNCHANGED claimed
  /\ UNCHANGED <<alive, ending, kind, pid, bufferVars, torn, loaded, hooked, refused,
                 crossed, gameVars, cause>>

(* The last of the requests that remove ends; the system may have refused. *)
UnitEnd(t) ==
  /\ alive /\ pc[t] = "removing"
  /\ GoTo(t, "destroy")
  /\ \/ /\ hooked' = (\E u \in Threads \ {t} : pc[u] = "removing")
        /\ UNCHANGED refused
     \/ refused' = TRUE /\ UNCHANGED hooked
  /\ UNCHANGED <<alive, ending, kind, pid, bufferVars, torn, loaded, claimed, crossed,
                 unsent, gameVars, cause>>

(* scm::Destroy: the driver unloads once no handle to it is open, and      *)
(* removes what is still recorded, unless that is refused; or the call     *)
(* fails.                                                                  *)
Destroy(t) ==
  /\ alive /\ pc[t] = "destroy"
  /\ GoTo(t, "exit")
  /\ \/ /\ loaded
        /\ \A u \in Threads : ~InRequest(u)
        /\ loaded' = FALSE
        /\ claimed' = FALSE
        /\ \/ hooked' = (hooked /\ ~claimed) /\ UNCHANGED refused
           \/ claimed /\ refused' = TRUE /\ UNCHANGED hooked
     \/ UNCHANGED <<loaded, hooked, claimed, refused>>
  /\ UNCHANGED <<alive, ending, kind, pid, bufferVars, torn, crossed, unsent, gameVars, cause>>

(* exit(0) *)
Exit(t) == alive /\ pc[t] = "exit" /\ EndProcess("handler")

-----------------------------------------------------------------------------
Init ==
  /\ alive = TRUE /\ ending = "none"
  /\ pc = [t \in Threads |-> IF t = Main THEN "stream" ELSE "idle"]
  /\ kind = [c \in Callbacks |-> "created"]
  /\ pid = FALSE
  /\ buffers = 0 /\ orphans = 0
  /\ torn = FALSE
  /\ loaded \in BOOLEAN
  /\ hooked = FALSE /\ claimed = FALSE
  /\ refused = FALSE /\ crossed = FALSE /\ unsent = FALSE
  /\ game = "none" /\ seen = FALSE
  /\ injected = FALSE
  /\ cause = "none"

MainStep ==
  \/ Stream \/ ConnectionError \/ InitStart \/ InitEnd \/ WaitGame \/ Inject \/ Return

World == GameStarts \/ GameEnds \/ KernelEvent \/ InternalEvent

Dispatch(c) ==
  \/ OnCreated(c) \/ OnEnded(c) \/ OnImage(c) \/ Append(c)
  \/ OnIntegrity(c) \/ OnHeartbeat(c) \/ Free(c)

Close(t) == UnitStart(t) \/ UnitEnd(t) \/ Destroy(t) \/ Exit(t)

Next ==
  \/ MainStep \/ World
  \/ \E c \in Callbacks : Dispatch(c)
  \/ \E t \in Threads : Close(t)

Spec == Init /\ [][Next]_vars

(* The system schedules the threads and its calls return.  Nobody has to   *)
(* close a message box, start the game or answer the service.              *)
Fairness ==
  /\ WF_vars(InitEnd)
  /\ \A c \in Callbacks : WF_vars(Dispatch(c))
  /\ \A t \in Threads : WF_vars(Close(t))

FairSpec == Spec /\ Fairness

-----------------------------------------------------------------------------
Labels == {"stream", "init", "registering", "wait", "inject", "loop", "box",
           "idle", "dispatch", "append", "free", "unit", "removing", "destroy", "exit"}

ServiceTypeOK ==
  /\ alive \in BOOLEAN
  /\ ending \in {"none", "return", "handler"}
  /\ pc \in [Threads -> Labels]
  /\ kind \in [Callbacks -> EventKinds]
  /\ pid \in BOOLEAN
  /\ buffers \in Nat
  /\ orphans \in 0..MaxOrphans
  /\ torn \in BOOLEAN
  /\ loaded \in BOOLEAN
  /\ hooked \in BOOLEAN /\ claimed \in BOOLEAN
  /\ refused \in BOOLEAN /\ crossed \in BOOLEAN /\ unsent \in BOOLEAN
  /\ game \in {"none", "running", "over"} /\ seen \in BOOLEAN
  /\ injected \in BOOLEAN
  /\ cause \in {"none", "connection", "ended", "path", "vector", "patches"}

(* Whoever posts an event allocates its buffer and forgets it; the thread  *)
(* that handles it owns and frees it, the patches of an integrity event    *)
(* before the event.  Each buffer belongs to one thread, one that is       *)
(* closing the session included, or its thread could not be created.       *)
Owned(c) == CASE pc[c] = "idle" -> 0
              [] pc[c] = "dispatch" -> Size(kind[c])
              [] OTHER -> 1

BuffersAccounted ==
  buffers - orphans = Cardinality({c \in Callbacks : Owned(c) = 1})
                        + 2 * Cardinality({c \in Callbacks : Owned(c) = 2})

(* A session that ends in the exception handler leaves no routine of the   *)
(* driver behind if its UNINITIALIZE reached the driver or the driver was  *)
(* unloaded: either is enough, though several threads may send the request *)
(* at once, one return while another still removes, and main still         *)
(* register.  Out of the service's hands are a removal that the system     *)
(* refused and an INITIALIZE that the request overtook.                    *)
ExitUnhooked ==
  ending = "handler" /\ ~refused /\ ~crossed => ~hooked \/ (unsent /\ loaded)

(* The end of the game, once its thread runs, ends the process, whatever   *)
(* main is doing: waiting for the server, for a user or for the game.      *)
GameOverCloses ==
  (\E c \in Callbacks : AtDispatch(c, "ended")) ~> ~alive

(* sendServer's try blocks are there for the connection to fail without    *)
(* ending the process: "added tries cuz sometimes this crashes randomly".  *)
ConnectionErrorsCaught == cause # "connection"
=============================================================================
