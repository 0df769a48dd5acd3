------------------------------ MODULE Heartbeat ------------------------------
(***************************************************************************)
(* Who is alive?  The detection thread of the internal module posts a      *)
(* report to the service ten times a second; a thread of the service       *)
(* stores the time it handles one at (Service/callbacks.cpp); main looks   *)
(* at that time every Period seconds and sends the server a verdict        *)
(* (Service/entry.cpp).  The driver's answer, which goes with it, is asked *)
(* anew in each turn and left out.                                         *)
(*                                                                         *)
(* time(nullptr) is the wall clock, which may be set.  Instead of times    *)
(* the state has ages: what the clock shows now minus the time in          *)
(* question.  An age is not counted beyond Far, where it compares like any *)
(* greater one, even if the clock is set as far as it may be.              *)
(***************************************************************************)
EXTENDS Integers

CONSTANTS Callbacks,  \* threads started for reports
          Window,     \* 10 seconds
          Period,     \* 4 seconds
          MaxSet,     \* bound on the seconds the clock is set, both ways together
          MaxPause    \* bound on the seconds between the two reads of Judge

ASSUME HeartbeatAssumption ==
  /\ Window \in Nat \ {0} /\ Period \in Nat \ {0}
  /\ MaxSet \in Nat /\ MaxPause \in Nat

Far == Window + MaxSet + MaxPause

VARIABLES
  module,   \* the detection thread: not yet there, running, or gone
  pc, left, \* where main is, and how long it still sleeps
  tick,     \* age of g_last_internal_tick
  looked,   \* age of the time main has read
  ev, held, \* where a report's thread is, and the age of the time it has read
  verdict,  \* what main has found out in this turn
  report,   \* what the server was last told
  heard,    \* history: seconds since a thread last read the time
  stored,   \* history: seconds since a thread last stored it
  lag,      \* history: the longest a thread took between the two
  ahead,    \* history: seconds the clock was set forward,
  behind    \* and back

mainVars   == <<pc, left, looked, verdict, report>>
threadVars == <<tick, ev, held, heard, stored, lag>>
clockVars  == <<ahead, behind>>
vars == <<mainVars, threadVars, module, clockVars>>

AtMost(a, b) == IF a <= b THEN a ELSE b
Later(a)     == AtMost(a + 1, Far)
Longer(a, b) == IF a <= b THEN b ELSE a

-----------------------------------------------------------------------------
(* The internal module.  It starts once it is injected, before main's      *)
(* first turn or during it; its thread may end, be ended or be suspended   *)
(* for good.                                                               *)
ModuleStarts ==
  /\ module = "absent" /\ module' = "running"
  /\ UNCHANGED <<mainVars, threadVars, clockVars>>

ModuleEnds ==
  /\ module = "running" /\ module' = "gone"
  /\ UNCHANGED <<mainVars, threadVars, clockVars>>

(* A report: a buffer and a thread in the service.  One that fails is      *)
(* lost, and leaves nothing that could be seen here.                       *)
SendReport(c) ==
  /\ module = "running" /\ pc # "ended"
  /\ ev[c] = "idle"
  /\ ev' = [ev EXCEPT ![c] = "posted"]
  /\ UNCHANGED <<mainVars, tick, held, heard, stored, lag, module, clockVars>>

-----------------------------------------------------------------------------
(* The thread of a report.                                                 *)
ReadTime(c) ==
  /\ ev[c] = "posted" /\ pc # "ended"
  /\ ev' = [ev EXCEPT ![c] = "read"]
  /\ held' = [held EXCEPT ![c] = 0]
  /\ heard' = 0
  /\ UNCHANGED <<mainVars, tick, stored, lag, module, clockVars>>

(* The store may come after that of a report that was read later.          *)
StoreTime(c) ==
  /\ ev[c] = "read" /\ pc # "ended"
  /\ tick' = held[c]
  /\ ev' = [ev EXCEPT ![c] = "idle"]
  /\ held' = [held EXCEPT ![c] = 0]
  /\ stored' = 0
  /\ lag' = Longer(lag, held[c])
  /\ UNCHANGED <<mainVars, heard, module, clockVars>>

-----------------------------------------------------------------------------
(* main.                                                                   *)
Wake ==
  /\ pc = "sleep" /\ left = 0
  /\ pc' = "time"
  /\ UNCHANGED <<left, looked, verdict, report, threadVars, module, clockVars>>

(* The difference is one expression: the call of time() comes first, then  *)
(* the load of the tick, and a thread may store a later one in between.    *)
LookAtClock ==
  /\ pc = "time"
  /\ pc' = "judge"
  /\ UNCHANGED <<left, looked, verdict, report, threadVars, module, clockVars>>

(* Mutant of Judge: the difference is unsigned, like the tick.             *)
JudgeUnsigned ==
  /\ pc = "judge"
  /\ verdict' = (tick - looked \in 0..Window - 1)
  /\ looked' = 0
  /\ pc' = "send"
  /\ UNCHANGED <<left, report, threadVars, module, clockVars>>

(* Mutant of Judge: off by one.                                            *)
JudgeLate ==
  /\ pc = "judge"
  /\ verdict' = (tick - looked <= Window)
  /\ looked' = 0
  /\ pc' = "send"
  /\ UNCHANGED <<left, report, threadVars, module, clockVars>>

(* Mutant of Judge: a module that was once alive stays so.                 *)
JudgeSticky ==
  /\ pc = "judge"
  /\ verdict' = (report \/ tick - looked < Window)
  /\ looked' = 0
  /\ pc' = "send"
  /\ UNCHANGED <<left, report, threadVars, module, clockVars>>

(* time_t has 64 bits and a sign, to which the tick is converted.          *)
Judge ==
  /\ pc = "judge"
  /\ verdict' = (tick - looked < Window)
  /\ looked' = 0
  /\ pc' = "send"
  /\ UNCHANGED <<left, report, threadVars, module, clockVars>>

(* server::sendHeartbeat takes as long as the server lets it.  If it fails *)
(* the exception ends the session (module Service).                        *)
Send ==
  /\ pc = "send"
  /\ \/ report' = verdict /\ pc' = "sleep" /\ left' = Period
     \/ pc' = "ended" /\ UNCHANGED <<report, left>>
  /\ verdict' = FALSE
  /\ UNCHANGED <<looked, threadVars, module, clockVars>>

-----------------------------------------------------------------------------
(* The world.                                                              *)
(* A second passes.  Nobody looks once the session has ended.              *)
Second ==
  /\ pc # "ended" /\ (pc = "judge" => looked < MaxPause)
  /\ left' = IF left > 0 THEN left - 1 ELSE 0
  /\ tick' = Later(tick)
  /\ looked' = IF pc = "judge" THEN looked + 1 ELSE looked
  /\ held' = [c \in Callbacks |-> IF ev[c] = "read" THEN Later(held[c]) ELSE held[c]]
  /\ heard' = Later(heard)
  /\ stored' = Later(stored)
  /\ UNCHANGED <<pc, verdict, report, ev, lag, module, clockVars>>

(* The user or a time server sets the clock.                               *)
SetClock(d) ==
  /\ pc # "ended"
  /\ ahead + behind < MaxSet
  /\ IF d > 0
       THEN ahead' = ahead + d /\ UNCHANGED behind
       ELSE behind' = behind - d /\ UNCHANGED ahead
  /\ tick' = AtMost(tick + d, Far)
  /\ looked' = IF pc = "judge" THEN looked + d ELSE looked
  /\ held' = [c \in Callbacks |->
                IF ev[c] = "read" THEN AtMost(held[c] + d, Far) ELSE held[c]]
  /\ UNCHANGED <<pc, left, verdict, report, ev, heard, stored, lag, module>>

-----------------------------------------------------------------------------
(* The loop is entered with the module injected; the tick is 0, a time     *)
(* long past.                                                              *)
Init ==
  /\ module = "absent"
  /\ pc = "sleep" /\ left = Period
  /\ tick = Far /\ looked = 0
  /\ ev = [c \in Callbacks |-> "idle"] /\ held = [c \in Callbacks |-> 0]
  /\ verdict = FALSE /\ report = FALSE
  /\ heard = Far /\ stored = Far
  /\ lag = 0 /\ ahead = 0 /\ behind = 0

Turn == Wake \/ LookAtClock \/ Judge \/ Send

Next ==
  \/ ModuleStarts \/ ModuleEnds
  \/ \E c \in Callbacks : SendReport(c) \/ ReadTime(c) \/ StoreTime(c)
  \/ Turn
  \/ Second \/ \E d \in {-1, 1} : SetClock(d)

Spec == Init /\ [][Next]_vars

(* The system schedules main and the reports' threads, calls return and    *)
(* time passes.  Nobody has to report.                                     *)
FairSpec ==
  /\ Spec
  /\ WF_vars(Turn) /\ WF_vars(Second)
  /\ \A c \in Callbacks : WF_vars(ReadTime(c)) /\ WF_vars(StoreTime(c))

-----------------------------------------------------------------------------
HeartbeatTypeOK ==
  /\ module \in {"absent", "running", "gone"}
  /\ pc \in {"sleep", "time", "judge", "send", "ended"}
  /\ left \in 0..Period
  /\ tick \in -MaxSet..Far
  /\ looked \in -MaxSet..MaxPause + MaxSet
  /\ ev \in [Callbacks -> {"idle", "posted", "read"}]
  /\ held \in [Callbacks -> -MaxSet..Far]
  /\ verdict \in BOOLEAN /\ report \in BOOLEAN
  /\ heard \in 0..Far /\ stored \in 0..Far
  /\ lag \in 0..Far
  /\ ahead \in 0..MaxSet /\ behind \in 0..MaxSet

(* The internal module is found alive only if a report was handled within  *)
(* the window before main looked at the clock, or the clock was set back   *)
(* by what is missing: no report that is stored late, or after a later     *)
(* one, makes a silent module alive.                                       *)
AliveMeansHeard ==
  [][pc = "judge" /\ pc' = "send" /\ verdict'
       => heard - looked < Window + behind]_vars

(* It is found dead only if nothing was stored for the window, less the    *)
(* longest a thread took to store its time and what the clock was set      *)
(* forward: a tick that changes while main compares it accuses nobody.     *)
DeadMeansSilent ==
  [][pc = "judge" /\ pc' = "send" /\ ~verdict'
       => stored - looked >= Window - lag - ahead]_vars

(* A module that is gone is reported gone in the end, and from then on,    *)
(* for as long as the session lasts: whatever reports were in flight.      *)
GoneNoticed ==
  module = "gone" ~> [](~report \/ pc = "ended")
=============================================================================
