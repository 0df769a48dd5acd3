--------------------------- MODULE HeartbeatProofs ---------------------------
(***************************************************************************)
(* What the verdict on the internal module means, for any number of        *)
(* threads, any window and any bounds on pauses and on setting the clock.  *)
(***************************************************************************)
EXTENDS Heartbeat, TLAPS

Reading == {c \in Callbacks : ev[c] = "read"}

(* No time that is stored or about to be is later than the last that was   *)
(* read, but for the clock's being set back.                               *)
NotEarlier ==
  /\ heard <= tick + behind
  /\ \A c \in Reading : heard <= held[c] + behind

(* The time that is stored was read no longer ago than its thread took and *)
(* the clock was set forward.                                              *)
NotStale == tick <= stored + lag + ahead

(* What main has seen of the clock since it looked.                        *)
Looked ==
  /\ -behind <= looked /\ looked <= MaxPause + ahead
  /\ pc # "judge" => looked = 0

HeartbeatInv == HeartbeatTypeOK /\ NotEarlier /\ NotStale /\ Looked

-----------------------------------------------------------------------------
LEMMA FarNat ==
  /\ Window \in Nat \ {0} /\ Period \in Nat \ {0} /\ MaxSet \in Nat /\ MaxPause \in Nat
  /\ Far \in Nat /\ MaxSet <= Far /\ 0 < Far
BY HeartbeatAssumption DEF Far

LEMMA InitInv == Init => HeartbeatInv
<1> SUFFICES ASSUME Init PROVE HeartbeatInv
  OBVIOUS
<1>1. HeartbeatTypeOK
  <2>1. verdict \in BOOLEAN /\ report \in BOOLEAN
    BY DEF Init
  <2> QED BY <2>1, FarNat DEF Init, HeartbeatTypeOK
<1>2. NotEarlier /\ NotStale /\ Looked
  BY FarNat DEF Init, NotEarlier, NotStale, Looked, Reading
<1> QED BY <1>1, <1>2 DEF HeartbeatInv

LEMMA NextInv == HeartbeatInv /\ [Next]_vars => HeartbeatInv'
<1> SUFFICES ASSUME HeartbeatInv, [Next]_vars PROVE HeartbeatInv'
  OBVIOUS
<1> USE FarNat DEF HeartbeatInv, HeartbeatTypeOK, NotEarlier, NotStale, Looked, Reading,
      mainVars, threadVars, clockVars
<1>1. CASE ModuleStarts \/ ModuleEnds
  BY <1>1 DEF ModuleStarts, ModuleEnds
<1>2. ASSUME NEW c \in Callbacks, SendReport(c) PROVE HeartbeatInv'
  BY <1>2 DEF SendReport
<1>3. ASSUME NEW c \in Callbacks, ReadTime(c) PROVE HeartbeatInv'
  BY <1>3 DEF ReadTime
<1>4. ASSUME NEW c \in Callbacks, StoreTime(c) PROVE HeartbeatInv'
  BY <1>4 DEF StoreTime, Longer
<1>5. CASE Wake \/ LookAtClock
  BY <1>5 DEF Wake, LookAtClock
<1>6. CASE Judge
  BY <1>6 DEF Judge
<1>7. CASE Send
  <2>1. verdict' \in BOOLEAN
    BY <1>7 DEF Send
  <2> QED BY <1>7, <2>1 DEF Send
<1>8. CASE Second
  BY <1>8 DEF Second, Later, AtMost
<1>9. ASSUME NEW d \in {-1, 1}, SetClock(d) PROVE HeartbeatInv'
  BY <1>9 DEF SetClock, AtMost
<1>10. CASE UNCHANGED vars
  BY <1>10 DEF vars
<1> QED
  BY <1>1, <1>2, <1>3, <1>4, <1>5, <1>6, <1>7, <1>8, <1>9, <1>10 DEF Next, Turn

LEMMA InvHolds == Spec => []HeartbeatInv
BY InitInv, NextInv, PTL DEF Spec

-----------------------------------------------------------------------------
(* The variables keep to their types, the ages between their bounds.       *)
THEOREM HeartbeatTypeCorrect == Spec => []HeartbeatTypeOK
<1>1. HeartbeatInv => HeartbeatTypeOK
  BY DEF HeartbeatInv
<1> QED BY <1>1, InvHolds, PTL

(* Alive means heard of: the time that main compares is not later than the *)
(* last report's.                                                          *)
THEOREM AliveMeansHeardHolds == Spec => AliveMeansHeard
<1>1. HeartbeatInv /\ [Next]_vars =>
        [pc = "judge" /\ pc' = "send" /\ verdict' => heard - looked < Window + behind]_vars
  <2> SUFFICES ASSUME HeartbeatInv, Next, pc = "judge", pc' = "send", verdict'
               PROVE  heard - looked < Window + behind
    OBVIOUS
  <2>1. Judge
    BY DEF Next, Turn, ModuleStarts, ModuleEnds, SendReport, ReadTime, StoreTime, Wake,
           LookAtClock, Send, Second, SetClock, mainVars
  <2>2. tick - looked < Window
    BY <2>1 DEF Judge
  <2> QED
    BY <2>2, FarNat DEF HeartbeatInv, HeartbeatTypeOK, NotEarlier
<1> QED BY <1>1, InvHolds, PTL DEF Spec, AliveMeansHeard

(* Dead means silent: the time that main compares is not older than the    *)
(* last store, its thread's delay and the clock allow.                     *)
THEOREM DeadMeansSilentHolds == Spec => DeadMeansSilent
<1>1. HeartbeatInv /\ [Next]_vars =>
        [pc = "judge" /\ pc' = "send" /\ ~verdict'
           => stored - looked >= Window - lag - ahead]_vars
  <2> SUFFICES ASSUME HeartbeatInv, Next, pc = "judge", pc' = "send", ~verdict'
               PROVE  stored - looked >= Window - lag - ahead
    OBVIOUS
  <2>1. Judge
    BY DEF Next, Turn, ModuleStarts, ModuleEnds, SendReport, ReadTime, StoreTime, Wake,
           LookAtClock, Send, Second, SetClock, mainVars
  <2>2. ~(tick - looked < Window)
    BY <2>1 DEF Judge
  <2> QED
    BY <2>2, FarNat DEF HeartbeatInv, HeartbeatTypeOK, NotStale
<1> QED BY <1>1, InvHolds, PTL DEF Spec, DeadMeansSilent
=============================================================================
