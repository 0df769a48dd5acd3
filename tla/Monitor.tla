------------------------------ MODULE Monitor -------------------------------
(***************************************************************************)
(* The driver at work: the notification routines the driver installed      *)
(* (Driver) run in whatever kernel thread creates or ends a process, maps  *)
(* an image, creates a thread or opens a handle; they decide whether the   *)
(* event concerns the game and hand it to the service process              *)
(* (service::invokeRequestCallbackEx, Kernel/service.cpp).                 *)
(*                                                                         *)
(* Nothing orders two routines, or a routine and a request, so every read  *)
(* of g_game_pid and of g_service is a step of its own.                    *)
(***************************************************************************)
EXTENDS Driver, Integers, FiniteSets

CONSTANTS Notifiers,   \* kernel threads in which notification routines run
          Pids,        \* process ids; an id is used again after an exit
          Observed     \* the kinds of events that happen besides processes

ASSUME MonitorAssumption ==
  /\ None \notin Pids
  /\ IsFiniteSet(Notifiers)
  /\ Observed \subseteq {"image", "thread", "ob"}

VARIABLES
  gamePid,    \* g_game_pid
  proc,       \* life of a process id: "free", "starting", "running", "ending"
  game,       \* the image of this process has the name in g_game_name
  npc, ev,    \* where a notifier is, and the event it handles
  held,       \* the service whose exit the notifier holds up
  rundown,    \* references to a living service process taken minus given back
  alive,      \* the service process has not exited
  announced,  \* history: ids reported in a game_process event
  matched,    \* history: ids whose name matched g_game_name
  bound,      \* history: services that sent INITIALIZE and no UNINITIALIZE since
  left,       \* history: a service exited while it was bound
  rebound     \* history: g_service was replaced while a notifier was using it

worldVars == <<proc, game, alive, bound, left>>
notifyVars == <<npc, ev, held, rundown, announced, matched>>
vars == <<driverVars, gamePid, worldVars, notifyVars, rebound>>

NotifierLabels == {"idle", "check", "lookup", "compare", "acquire", "post",
                   "release"}
(* After g_service was replaced under a notifier the counts drift apart; the *)
(* model stops them here.                                                    *)
RundownBound == Cardinality(Notifiers)

Busy(n) == npc[n] # "idle"

Step(n, l) == npc' = [npc EXCEPT ![n] = l]

(* The system calls a routine of kind k about process p.  A call into an   *)
(* image that is gone stops the machine.                                   *)
Call(n, k, p, create) ==
  /\ ~Busy(n)
  /\ loaded
  /\ os[k] > 0
  /\ ev' = [ev EXCEPT ![n] = [kind |-> k, pid |-> p, create |-> create]]
  /\ Step(n, IF k = "process" THEN "check" ELSE "compare")
  /\ UNCHANGED <<held, rundown, announced, matched>>

-----------------------------------------------------------------------------
(* Processes.  A process starts running when the process routine, if it is *)
(* installed, has returned, and its id is free again when the routine has  *)
(* returned from its exit.  Its threads have left every routine by then.   *)
Spawn(p, g) ==
  /\ proc[p] = "free"
  /\ game' = [game EXCEPT ![p] = g]
  /\ \/ /\ \E n \in Notifiers : Call(n, "process", p, TRUE)
        /\ proc' = [proc EXCEPT ![p] = "starting"]
     \/ /\ os["process"] = 0
        /\ proc' = [proc EXCEPT ![p] = "running"]
        /\ UNCHANGED notifyVars
  /\ UNCHANGED <<driverVars, gamePid, alive, bound, left, rebound>>

Exit(p) ==
  /\ proc[p] = "running"
  /\ \A n \in Notifiers : Busy(n) /\ ev[n].pid = p => ev[n].kind = "ob"
  /\ \/ /\ \E n \in Notifiers : Call(n, "process", p, FALSE)
        /\ proc' = [proc EXCEPT ![p] = "ending"]
        /\ UNCHANGED game
     \/ /\ os["process"] = 0
        /\ proc' = [proc EXCEPT ![p] = "free"]
        /\ game' = [game EXCEPT ![p] = FALSE]
        /\ UNCHANGED notifyVars
  /\ UNCHANGED <<driverVars, gamePid, alive, bound, left, rebound>>

(* An image is mapped or a thread created or ended in a running process; a *)
(* handle may be opened or duplicated as soon as the process exists.       *)
Observe(n, k, p) ==
  /\ proc[p] = "running" \/ (k = "ob" /\ proc[p] # "free")
  /\ Call(n, k, p, FALSE)
  /\ UNCHANGED <<driverVars, gamePid, worldVars, rebound>>

-----------------------------------------------------------------------------
NoEvent == [kind |-> "ob", pid |-> None, create |-> FALSE]

(* The routine returns; the creation or the exit it was called for goes on.*)
Leave(n) ==
  LET e == ev[n] IN
  /\ Step(n, "idle")
  /\ ev' = [ev EXCEPT ![n] = NoEvent]
  /\ IF e.kind = "process"
       THEN /\ proc' = [proc EXCEPT ![e.pid] = IF e.create THEN "running" ELSE "free"]
            /\ game' = [game EXCEPT ![e.pid] = @ /\ e.create]
       ELSE UNCHANGED <<proc, game>>

GoOn(n, l) == Step(n, l) /\ UNCHANGED <<ev, proc, game>>

(* Mutant of ReadGamePid: every new process is looked up.                  *)
ReadGamePidAlways(n) ==
  /\ npc[n] = "check"
  /\ GoOn(n, "lookup")
  /\ UNCHANGED <<driverVars, gamePid, alive, bound, left, rebound,
                 held, rundown, announced, matched>>

(* create_process_notify::Dispatcher: if (!g_game_pid).                    *)
ReadGamePid(n) ==
  /\ npc[n] = "check"
  /\ GoOn(n, IF gamePid = None THEN "lookup" ELSE "compare")
  /\ UNCHANGED <<driverVars, gamePid, alive, bound, left, rebound,
                 held, rundown, announced, matched>>

(* Mutant of LookupGame: any process is taken for the game.                *)
LookupGameAny(n) ==
  /\ npc[n] = "lookup"
  /\ GoOn(n, "compare")
  /\ gamePid' = ev[n].pid
  /\ matched' = IF game[ev[n].pid] THEN matched \cup {ev[n].pid} ELSE matched
  /\ UNCHANGED <<driverVars, alive, bound, left, rebound, held, rundown, announced>>

(* Mutant of LookupGame: the routine returns once it has found the game.   *)
LookupGameSilent(n) ==
  LET p == ev[n].pid IN
  /\ npc[n] = "lookup"
  /\ Leave(n)
  /\ gamePid' = IF game[p] THEN p ELSE gamePid
  /\ matched' = IF game[p] THEN matched \cup {p} ELSE matched
  /\ UNCHANGED <<driverVars, alive, bound, left, rebound, held, rundown, announced>>

(* PsLookupProcessByProcessId, which may fail, and the comparison of names.*)
LookupGame(n) ==
  LET p == ev[n].pid IN
  /\ npc[n] = "lookup"
  /\ \/ /\ Leave(n)
        /\ UNCHANGED <<gamePid, matched>>
     \/ /\ GoOn(n, "compare")
        /\ gamePid' = IF game[p] THEN p ELSE gamePid
        /\ matched' = IF game[p] THEN matched \cup {p} ELSE matched
  /\ UNCHANGED <<driverVars, alive, bound, left, rebound, held, rundown, announced>>

(* Every routine returns unless the event is about g_game_pid; the thread  *)
(* routine also returns if it cannot find the thread.                      *)
CompareGame(n) ==
  /\ npc[n] = "compare"
  /\ \/ gamePid = ev[n].pid /\ GoOn(n, "acquire")
     \/ (gamePid # ev[n].pid \/ ev[n].kind = "thread") /\ Leave(n)
  /\ UNCHANGED <<driverVars, gamePid, alive, bound, left, rebound,
                 held, rundown, announced, matched>>

(* invokeRequestCallbackEx reads g_service anew in each of its calls.  The *)
(* result of PsAcquireProcessExitSynchronization is not looked at: for a   *)
(* process that has exited it takes no reference.                          *)
Acquire(n) ==
  /\ npc[n] = "acquire"
  /\ rundown[svc] < RundownBound
  /\ held' = [held EXCEPT ![n] = svc]
  /\ rundown' = [rundown EXCEPT ![svc] = IF alive[svc] THEN @ + 1 ELSE @]
  /\ GoOn(n, "post")
  /\ UNCHANGED <<driverVars, gamePid, alive, bound, left, rebound, announced, matched>>

(* Mutant of Post: a failed allocation returns without the release.        *)
PostLeaks(n) ==
  /\ npc[n] = "post"
  /\ Leave(n)
  /\ held' = [held EXCEPT ![n] = None]
  /\ UNCHANGED <<driverVars, gamePid, alive, bound, left, rebound, rundown,
                 announced, matched>>

(* Attach to g_service, copy the event there and start a thread at         *)
(* g_service_callback; both may fail and the event is lost then, so this   *)
(* is the attempt.                                                         *)
Post(n) ==
  /\ npc[n] = "post"
  /\ announced' = IF ev[n].kind = "process"
                    THEN announced \cup {ev[n].pid} ELSE announced
  /\ GoOn(n, "release")
  /\ UNCHANGED <<driverVars, gamePid, alive, bound, left, rebound, held, rundown, matched>>

(* PsReleaseProcessExitSynchronization.  The count of a process that has   *)
(* exited is read by nobody any more.                                      *)
Release(n) ==
  /\ npc[n] = "release"
  /\ rundown[svc] > -RundownBound
  /\ rundown' = [rundown EXCEPT ![svc] = IF alive[svc] THEN @ - 1 ELSE @]
  /\ held' = [held EXCEPT ![n] = None]
  /\ Leave(n)
  /\ UNCHANGED <<driverVars, gamePid, alive, bound, left, rebound, announced, matched>>

-----------------------------------------------------------------------------
(* A service process ends, cleanly or not; the system waits for the        *)
(* references to it and for its requests.                                  *)
ExitService(s) ==
  /\ alive[s]
  /\ rundown[s] = 0
  /\ \A t \in Threads : who[t] # s
  /\ alive' = [alive EXCEPT ![s] = FALSE]
  /\ left' = (left \/ s \in bound)
  /\ UNCHANGED <<driverVars, gamePid, proc, game, notifyVars, bound, rebound>>

(* Removing a routine waits until no thread runs it.                       *)
Drained(t) == \A n \in Notifiers : Busy(n) => ev[n].kind # at[t]

(* The steps of the driver's requests, in a world that goes on.            *)
FreshLoad ==
  /\ Load
  /\ gamePid' = None
  /\ announced' = {}
  /\ matched' = {}
  /\ bound' = {}

ServiceRequest(t, s) ==
  /\ alive[s]
  /\ \/ StartInit(t, s) /\ bound' = bound \cup {s}
     \/ StartUninit(t, s) /\ UNCHANGED bound
  /\ UNCHANGED <<gamePid, announced, matched>>

EndRequest(t) ==
  /\ Complete(t)
  /\ bound' = IF op[t] = "uninit" THEN bound \ {who[t]} ELSE bound
  /\ UNCHANGED <<gamePid, announced, matched>>

WithinRequest ==
  /\ \/ StartUnload \/ FinishUnload
     \/ \E t \in Callers : Bind(t) \/ Register(t) \/ RegisterFails(t) \/ SetFlag(t)
     \/ \E t \in Threads : \/ Check(t) \/ Clear(t) \/ RemoveFails(t)
                           \/ Drained(t) /\ Remove(t)
  /\ UNCHANGED <<gamePid, announced, matched, bound>>

DriverStep ==
  /\ \/ FreshLoad \/ WithinRequest
     \/ \E t \in Callers : EndRequest(t) \/ \E s \in Services : ServiceRequest(t, s)
  /\ rebound' = (rebound \/ (svc' # svc /\ \E n \in Notifiers : held[n] # None))
  /\ UNCHANGED <<proc, game, alive, left, npc, ev, held, rundown>>

MonitorInit ==
  /\ Init
  /\ gamePid = None
  /\ proc = [p \in Pids |-> "free"]
  /\ game = [p \in Pids |-> FALSE]
  /\ npc = [n \in Notifiers |-> "idle"]
  /\ ev = [n \in Notifiers |-> NoEvent]
  /\ held = [n \in Notifiers |-> None]
  /\ rundown = [s \in Services |-> 0]
  /\ alive = [s \in Services |-> TRUE]
  /\ announced = {}
  /\ matched = {}
  /\ bound = {}
  /\ left = FALSE
  /\ rebound = FALSE

Routine(n) ==
  \/ ReadGamePid(n) \/ LookupGame(n) \/ CompareGame(n)
  \/ Acquire(n) \/ Post(n) \/ Release(n)

MonitorNext ==
  \/ DriverStep
  \/ \E p \in Pids : Exit(p) \/ \E g \in BOOLEAN : Spawn(p, g)
  \/ \E n \in Notifiers : Routine(n)
  \/ \E n \in Notifiers, k \in Observed, p \in Pids : Observe(n, k, p)
  \/ \E s \in Services : ExitService(s)

MonitorSpec == MonitorInit /\ [][MonitorNext]_vars

-----------------------------------------------------------------------------
MonitorTypeOK ==
  /\ TypeOK
  /\ gamePid \in Pids \cup {None}
  /\ proc \in [Pids -> {"free", "starting", "running", "ending"}]
  /\ game \in [Pids -> BOOLEAN]
  /\ npc \in [Notifiers -> NotifierLabels]
  /\ ev \in [Notifiers -> [kind : Kinds, pid : Pids \cup {None}, create : BOOLEAN]]
  /\ held \in [Notifiers -> Services \cup {None}]
  /\ rundown \in [Services -> Int]
  /\ alive \in [Services -> BOOLEAN]
  /\ announced \subseteq Pids
  /\ matched \subseteq Pids
  /\ bound \subseteq Services
  /\ left \in BOOLEAN
  /\ rebound \in BOOLEAN

(* The service is told that a process is the game only if a process with   *)
(* that id was found to bear the game's name, even when two processes are  *)
(* created at once and both find g_game_pid empty.                         *)
AnnouncedMatched == announced \subseteq matched

(* An image or thread event reaches the service only after a game_process  *)
(* event for the same process id was posted, though g_game_pid is          *)
(* published before that event is.                                         *)
GameEventFirst ==
  \A n \in Notifiers :
    npc[n] = "post" /\ ev[n].kind \in {"image", "thread"} => ev[n].pid \in announced

(* Every reference invokeRequestCallbackEx takes on a living service       *)
(* process is given back to it on every path, unless a second service      *)
(* bound itself meanwhile: the process can always exit.                    *)
RundownBalanced ==
  ~rebound => \A s \in Services :
    alive[s] => rundown[s] = Cardinality({n \in Notifiers : held[n] = s})

(* A service process that sent UNINITIALIZE before it exits is never       *)
(* attached to after its exit, provided every service does so, requests    *)
(* come one at a time and the system refused no removal: no routine is     *)
(* still on its way to it.                                                 *)
LiveTarget ==
  ~Overlap /\ ~left /\ ~removeFailed =>
    \A n \in Notifiers : npc[n] \in {"post", "release"} => alive[svc]

(* When the image is unloaded no thread is inside it, unless the system    *)
(* refused a removal.                                                      *)
NobodyInsideUnloadedImage ==
  ~Overlap /\ ~loaded /\ ~removeFailed => \A n \in Notifiers : ~Busy(n)

(* Which process is the game may be contested while several new processes  *)
(* find g_game_pid empty at once; when the last of them has decided, the   *)
(* choice stands until the driver is loaded again, whatever the service    *)
(* sends and whichever processes come and go.                              *)
Settled == gamePid # None /\ \A n \in Notifiers : npc[n] # "lookup"

GamePidSettles ==
  [][Settled => \/ Settled' /\ gamePid' = gamePid
                \/ ~loaded /\ loaded']_vars
=============================================================================
