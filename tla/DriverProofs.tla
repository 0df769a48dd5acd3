---------------------------- MODULE DriverProofs ----------------------------
(***************************************************************************)
(* Proofs about the driver.  First Driver alone: the type invariant,       *)
(* BoundBeforeInstalled for requests that overlap, and the properties of   *)
(* requests one at a time.  Then Monitor: the driver at work is still the  *)
(* driver, so that all this holds while notification routines run and      *)
(* processes come and go; and what Monitor promises of the routines, for   *)
(* any number of kernel threads, processes and services.                   *)
(***************************************************************************)
EXTENDS Monitor, DriverInv, FiniteSetTheorems, TLAPS

(* An update inside the domain keeps a function's type.                    *)
LEMMA ExceptType ==
  ASSUME NEW A, NEW B, NEW f \in [A -> B], NEW a \in A, NEW b \in B
  PROVE  [f EXCEPT ![a] = b] \in [A -> B]
  OBVIOUS

(* Every request visits callbacks and then ends.                           *)
LEMMA AfterType ==
  \A o \in {"init", "uninit", "unload"}, k \in Kinds :
    After[o][k] \in Kinds \cup {"end"}
  BY DEF After, Kinds, Notify

LEMMA InitAfter ==
  \A k \in Kinds : After["init"][k] \in Notify \cup {"end"}
  BY DEF After, Kinds, Notify

LEMMA TypeInit == Init => TypeInv
<1> SUFFICES ASSUME Init PROVE TypeInv
  OBVIOUS
<1>1. TypeOK
  <2>1. 0 \in 0..MaxNotify
    BY DriverAssumption
  <2>2. QED
    BY <2>1 DEF Init, TypeOK, Labels
<1>2. Placed
  BY DEF Init, Placed, Removing
<1>3. QED
  BY <1>1, <1>2 DEF TypeInv

LEMMA TypeStep == TypeInv /\ [Next]_driverVars => TypeInv'
<1> SUFFICES ASSUME TypeInv, [Next]_driverVars PROVE TypeInv'
  OBVIOUS
<1> USE DriverAssumption DEF TypeInv
<1>1. CASE Load
  BY <1>1 DEF Load, TypeOK, Placed, callerVars
<1>2. CASE StartUnload
  BY <1>2, ZenonT(60) DEF StartUnload, TypeOK, Placed, Threads, Kinds, Notify, Labels, Removing
<1>3. CASE FinishUnload
  BY <1>3 DEF FinishUnload, Finish, TypeOK, Placed, Threads, Labels, Removing, Kinds, Notify
<1>4. ASSUME NEW t \in Callers, Request(t) PROVE TypeInv'
  <2> t \in Threads /\ t # System BY DEF Threads
  <2>1. CASE Bind(t)
    BY <2>1 DEF Bind, GoTo, TypeOK, Placed, Threads, Kinds, Notify, Labels, Removing
  <2>2. CASE Register(t)
    <3>1. os' \in [Kinds -> 0..MaxNotify]
      <4>1. at[t] \in Kinds
        BY <2>2 DEF Register, Placed
      <4>2. os[at[t]] + 1 \in 0..MaxNotify
        BY <2>2, <4>1 DEF Register, TypeOK, Accepts
      <4>3. os \in [Kinds -> 0..MaxNotify]
        BY DEF TypeOK
      <4>4. os' = [os EXCEPT ![at[t]] = os[at[t]] + 1]
        BY <2>2 DEF Register
      <4>5. [os EXCEPT ![at[t]] = os[at[t]] + 1] \in [Kinds -> 0..MaxNotify]
        BY <4>1, <4>2, <4>3, ExceptType, Zenon
      <4>6. QED
        BY <4>4, <4>5, Zenon
    <3>2. TypeOK'
      <4>1. CASE at[t] = "ob"
        <5>1. After[op[t]][at[t]] \in Kinds \cup {"end"}
          BY <2>2, <4>1, AfterType DEF Register, Placed, Kinds
        <5>2. /\ flag' \in [Kinds -> BOOLEAN]
              /\ pc' \in [Threads -> Labels]
              /\ at' \in [Threads -> Kinds \cup {"end"}]
          BY <2>2, <4>1, <5>1 DEF Register, Advance, TypeOK, Labels
        <5>3. QED
          BY <2>2, <3>1, <4>1, <5>2 DEF Register, Advance, TypeOK
      <4>2. CASE at[t] # "ob"
        BY <2>2, <3>1, <4>2 DEF Register, GoTo, TypeOK, Labels
      <4>3. QED
        BY <4>1, <4>2
    <3>3. Placed'
      BY <2>2, InitAfter DEF Register, GoTo, Advance, TypeOK, Placed, Kinds, Notify, Labels, Removing
    <3>4. QED
      BY <3>2, <3>3
  <2>3. CASE RegisterFails(t)
    BY <2>3 DEF RegisterFails, GoTo, TypeOK, Placed, Labels, Removing
  <2>4. CASE SetFlag(t)
    BY <2>4, InitAfter DEF SetFlag, Advance, TypeOK, Placed, Threads, Kinds, Notify, Labels, Removing
  <2>5. CASE Complete(t)
    BY <2>5 DEF Complete, Finish, TypeOK, Placed, Threads, Kinds, Notify, Labels, Removing
  <2>6. ASSUME NEW s \in Services, StartInit(t, s) PROVE TypeInv'
    BY <2>6 DEF StartInit, Open, TypeOK, Placed, Threads, Kinds, Notify, Labels, Removing
  <2>7. ASSUME NEW s \in Services, StartUninit(t, s) PROVE TypeInv'
    BY <2>7 DEF StartUninit, Open, TypeOK, Placed, Threads, Kinds, Notify, Labels, Removing
  <2>8. QED
    BY <1>4, <2>1, <2>2, <2>3, <2>4, <2>5, <2>6, <2>7 DEF Request
<1>5. ASSUME NEW t \in Threads, Removal(t) PROVE TypeInv'
  <2>1. CASE Check(t)
    BY <2>1, AfterType DEF Check, GoTo, Advance, TypeOK, Placed, Kinds, Notify, Labels, Removing
  <2>2. CASE Clear(t)
    BY <2>2, AfterType DEF Clear, GoTo, Advance, TypeOK, Placed, Kinds, Notify, Labels, Removing
  <2>3. CASE Remove(t)
    BY <2>3, AfterType DEF Remove, GoTo, Advance, TypeOK, Placed, Kinds, Notify, Labels, Removing
  <2>4. CASE RemoveFails(t)
    BY <2>4 DEF RemoveFails, GoTo, TypeOK, Placed, Kinds, Notify, Labels, Removing
  <2>5. QED
    BY <1>5, <2>1, <2>2, <2>3, <2>4 DEF Removal
<1>6. CASE UNCHANGED driverVars
  BY <1>6 DEF driverVars, TypeOK, Placed
<1>7. QED
  BY <1>1, <1>2, <1>3, <1>4, <1>5, <1>6 DEF Next

(* The types of the driver's state hold for any number of callers and      *)
(* services, any table size, and whether or not requests overlap.          *)
THEOREM TypeInvariant == Spec => []TypeInv
<1>1. Init => TypeInv
  BY TypeInit
<1>2. TypeInv /\ [Next]_driverVars => TypeInv'
  BY TypeStep
<1>3. QED
  BY <1>1, <1>2, PTL DEF Spec

(* The part of TypeInvariant that the runs check.                          *)
THEOREM TypeCorrect == Spec => []TypeOK
<1>1. TypeInv => TypeOK
  BY DEF TypeInv
<1>2. QED
  BY <1>1, TypeInvariant, PTL

-----------------------------------------------------------------------------
(* The two globals a callback uses.  Only Load, which finds no routine     *)
(* installed and no request in progress, sets them to null.                *)
LEMMA AnnouncedInit == Init => Announced
  BY DEF Init, Announced, BoundBeforeInstalled

LEMMA AnnouncedStep ==
  TypeInv /\ Announced /\ [Next]_driverVars => Announced'
<1> SUFFICES ASSUME TypeInv, Announced, [Next]_driverVars PROVE Announced'
  OBVIOUS
<1> USE DriverAssumption DEF TypeInv, Announced, BoundBeforeInstalled
<1>1. CASE Load
  BY <1>1 DEF Load, TypeOK, Quiet, Idle, callerVars
<1>2. CASE StartUnload
  BY <1>2 DEF StartUnload, TypeOK
<1>3. CASE FinishUnload
  BY <1>3 DEF FinishUnload, Finish, TypeOK
<1>4. ASSUME NEW t \in Callers, Request(t) PROVE Announced'
  <2> t \in Threads BY DEF Threads
  <2>1. CASE Bind(t)
    BY <2>1 DEF Bind, GoTo, TypeOK, Placed
  <2>2. CASE Register(t)
    BY <2>2 DEF Register, GoTo, Advance, TypeOK
  <2>3. CASE RegisterFails(t)
    BY <2>3 DEF RegisterFails, GoTo, TypeOK
  <2>4. CASE SetFlag(t)
    BY <2>4 DEF SetFlag, Advance, TypeOK
  <2>5. CASE Complete(t)
    BY <2>5 DEF Complete, Finish, TypeOK
  <2>6. ASSUME NEW s \in Services, StartInit(t, s) PROVE Announced'
    BY <2>6 DEF StartInit, Open, TypeOK
  <2>7. ASSUME NEW s \in Services, StartUninit(t, s) PROVE Announced'
    BY <2>7 DEF StartUninit, Open, TypeOK
  <2>8. QED
    BY <1>4, <2>1, <2>2, <2>3, <2>4, <2>5, <2>6, <2>7 DEF Request
<1>5. ASSUME NEW t \in Threads, Removal(t) PROVE Announced'
  <2>1. CASE Check(t)
    BY <2>1 DEF Check, GoTo, Advance, TypeOK
  <2>2. CASE Clear(t)
    BY <2>2 DEF Clear, GoTo, Advance, TypeOK
  <2>3. CASE Remove(t)
    BY <2>3 DEF Remove, GoTo, Advance, TypeOK, Placed, Removing
  <2>4. CASE RemoveFails(t)
    BY <2>4 DEF RemoveFails, GoTo, TypeOK
  <2>5. QED
    BY <1>5, <2>1, <2>2, <2>3, <2>4 DEF Removal
<1>6. CASE UNCHANGED driverVars
  BY <1>6 DEF driverVars
<1>7. QED
  BY <1>1, <1>2, <1>3, <1>4, <1>5, <1>6 DEF Next

(* However many requests overlap and whatever the system refuses, a        *)
(* callback that can be called finds both g_service and g_service_callback *)
(* set.                                                                    *)
THEOREM BoundBeforeInstalledHolds == Spec => []BoundBeforeInstalled
<1>1. Init => Announced
  BY AnnouncedInit
<1>2. TypeInv /\ Announced /\ [Next]_driverVars => Announced'
  BY AnnouncedStep
<1>3. Announced => BoundBeforeInstalled
  BY DEF Announced
<1>4. QED
  BY <1>1, <1>2, <1>3, TypeInvariant, PTL DEF Spec

-----------------------------------------------------------------------------
(* The notify routines when requests overlap.                              *)
LEMMA HeldStep ==
  ASSUME TypeInv, [Next]_driverVars, NEW k \in Notify,
         os[k] <= 1, os[k] = 1 => Recorded(k)
  PROVE  os'[k] > 0 => Recorded(k)'
<1> DEFINE Goal == os'[k] > 0 => Recorded(k)'
<1> SUFFICES Goal
  OBVIOUS
<1> USE DriverAssumption DEF TypeInv, Recorded
<1>0. k \in Kinds /\ k # "ob" /\ os[k] \in {0, 1}
  BY DEF Kinds, Notify, TypeOK
<1>1. CASE Load
  BY <1>0, <1>1 DEF Load, TypeOK
<1>2. CASE StartUnload
  BY <1>0, <1>2 DEF StartUnload, TypeOK, Quiet, Idle, Threads
<1>3. CASE FinishUnload
  BY <1>0, <1>3 DEF FinishUnload, Finish, TypeOK
<1>4. ASSUME NEW t \in Callers, Request(t) PROVE Goal
  <2> t \in Threads BY DEF Threads
  <2>1. CASE Bind(t)
    BY <1>0, <2>1 DEF Bind, GoTo, TypeOK
  <2>2. CASE Register(t)
    BY <1>0, <2>2 DEF Register, Accepts, GoTo, Advance, TypeOK, Placed
  <2>3. CASE RegisterFails(t)
    BY <1>0, <2>3 DEF RegisterFails, GoTo, TypeOK
  <2>4. CASE SetFlag(t)
    BY <1>0, <2>4 DEF SetFlag, Advance, TypeOK, Placed
  <2>5. CASE Complete(t)
    BY <1>0, <2>5 DEF Complete, Finish, TypeOK
  <2>6. ASSUME NEW s \in Services, StartInit(t, s) PROVE Goal
    BY <1>0, <2>6 DEF StartInit, Open, Idle, TypeOK
  <2>7. ASSUME NEW s \in Services, StartUninit(t, s) PROVE Goal
    BY <1>0, <2>7 DEF StartUninit, Open, Idle, TypeOK
  <2>8. QED
    BY <1>4, <2>1, <2>2, <2>3, <2>4, <2>5, <2>6, <2>7 DEF Request
<1>5. ASSUME NEW t \in Threads, Removal(t) PROVE Goal
  <2>1. CASE Check(t)
    BY <1>0, <2>1 DEF Check, GoTo, Advance, TypeOK
  <2>2. CASE Clear(t)
    BY <1>0, <2>2 DEF Clear, GoTo, Advance, TypeOK, Placed, Removing
  <2>3. CASE Remove(t)
    BY <1>0, <2>3 DEF Remove, GoTo, Advance, TypeOK, Placed, Removing
  <2>4. CASE RemoveFails(t)
    <3>1. os' = os /\ flag' = flag
      BY <2>4 DEF RemoveFails
    <3>2. (removeFailed \/ os[at[t]] > 0) => removeFailed'
      BY <2>4 DEF RemoveFails
    <3>3. \A u \in Threads : u # t => pc'[u] = pc[u] /\ at'[u] = at[u]
      BY <2>4 DEF RemoveFails, GoTo, TypeOK
    <3>4. CASE at[t] = k
      BY <1>0, <3>1, <3>2, <3>3, <3>4 DEF TypeOK
    <3>5. CASE at[t] # k
      BY <1>0, <3>1, <3>2, <3>3, <3>5 DEF TypeOK
    <3>6. QED
      BY <3>4, <3>5
  <2>5. QED
    BY <1>5, <2>1, <2>2, <2>3, <2>4 DEF Removal
<1>6. CASE UNCHANGED driverVars
  BY <1>0, <1>6 DEF driverVars
<1>7. QED
  BY <1>1, <1>2, <1>3, <1>4, <1>5, <1>6 DEF Next


(* How often the system holds the process routine.                         *)
LEMMA ProcessOnce ==
  ASSUME TypeInv, [Next]_driverVars, os["process"] \in {0, 1}
  PROVE  os'["process"] \in {0, 1}
<1> USE DriverAssumption DEF TypeInv
<1>1. ASSUME NEW t \in Callers, Request(t) PROVE os'["process"] \in {0, 1}
  <2>1. CASE Register(t)
    BY <2>1 DEF Register, Accepts, TypeOK, Kinds, Notify
  <2>2. CASE ~Register(t)
    <3>1. os' = os
      BY <1>1, <2>2 DEF Request, Bind, RegisterFails, SetFlag, Complete, StartInit, StartUninit, Open
    <3> QED BY <3>1
  <2> QED BY <2>1, <2>2
<1>2. ASSUME NEW t \in Threads, Removal(t) PROVE os'["process"] \in {0, 1}
  <2>1. CASE Remove(t)
    BY <2>1 DEF Remove, TypeOK, Kinds, Notify
  <2>2. CASE ~Remove(t)
    <3>1. os' = os
      BY <1>2, <2>2 DEF Removal, Check, Clear, RemoveFails
    <3> QED BY <3>1
  <2> QED BY <2>1, <2>2
<1>3. CASE Load \/ StartUnload \/ FinishUnload \/ UNCHANGED driverVars
  BY <1>3 DEF Load, StartUnload, FinishUnload, driverVars
<1> QED BY <1>1, <1>2, <1>3 DEF Next

LEMMA AccountedInit == Init => Accounted
  BY DEF Init, Accounted, ProcessRoutineAccounted, Kinds, Notify

LEMMA AccountedStep ==
  TypeInv /\ Accounted /\ [Next]_driverVars => Accounted'
<1> SUFFICES ASSUME TypeInv, Accounted, [Next]_driverVars PROVE Accounted'
  OBVIOUS
<1>1. "process" \in Notify /\ os["process"] \in {0, 1}
  BY DEF Notify, Accounted
<1>2. os'["process"] \in {0, 1}
  BY <1>1, ProcessOnce
<1>3. os["process"] = 1 => Recorded("process")
  BY DEF Accounted, ProcessRoutineAccounted
<1>4. os'["process"] > 0 => Recorded("process")'
  BY <1>1, <1>3, HeldStep
<1> QED BY <1>2, <1>4 DEF Accounted, ProcessRoutineAccounted

(* A notify routine that the system holds once stays accounted for until   *)
(* it is removed: only a second registration under one flag, or a refused  *)
(* removal, loses one.                                                     *)
THEOREM HeldOnceStaysRecordedHolds == Spec => HeldOnceStaysRecorded
<1>1. ASSUME TypeInv, [Next]_driverVars
      PROVE  [\A k \in Notify : os[k] <= 1 /\ (os[k] = 1 => Recorded(k)) =>
                (os[k] > 0 => Recorded(k))']_driverVars
  BY <1>1, HeldStep
<1> QED BY <1>1, TypeInvariant, PTL DEF Spec, HeldOnceStaysRecorded

(* The process routine is never lost track of: any number of overlapping   *)
(* requests leaves it removable by the next UNINITIALIZE, unless a removal *)
(* failed or is still to come.                                             *)
THEOREM ProcessRoutineAccountedHolds == Spec => []ProcessRoutineAccounted
<1>1. Init => Accounted
  BY AccountedInit
<1>2. TypeInv /\ Accounted /\ [Next]_driverVars => Accounted'
  BY AccountedStep
<1>3. Accounted => ProcessRoutineAccounted
  BY DEF Accounted
<1>4. QED
  BY <1>1, <1>2, <1>3, TypeInvariant, PTL DEF Spec
-----------------------------------------------------------------------------
(* One request at a time: FlagHonest, InitializeHonest, UnloadClean and      *)
(* BookkeepingExact.                                                       *)

(* Going on to the next callback adds exactly the one left behind to those *)
(* a request has dealt with.                                               *)
LEMMA BeforeAfter ==
  \A o \in {"init", "uninit", "unload"}, k \in Kinds :
    /\ k \notin Before[o][k]
    /\ Before[o][After[o][k]] = Before[o][k] \cup {k}
<1> SUFFICES ASSUME NEW o \in {"init", "uninit", "unload"}, NEW k \in Kinds
             PROVE  /\ k \notin Before[o][k]
                    /\ Before[o][After[o][k]] = Before[o][k] \cup {k}
  OBVIOUS
<1>1. CASE o = "init"
  BY <1>1 DEF Before, After, Kinds, Notify
<1>2. CASE o = "uninit"
  BY <1>2 DEF Before, After, Kinds, Notify
<1>3. CASE o = "unload"
  BY <1>3 DEF Before, After, Kinds, Notify
<1>4. QED
  BY <1>1, <1>2, <1>3

(* No other thread is active beside one that is, and it stays where it is  *)
(* when that one moves.                                                    *)
Alone(t) ==
  \A u \in Threads : u # t =>
    /\ pc[u] = "idle" /\ pc'[u] = "idle"
    /\ at'[u] = at[u] /\ op'[u] = op[u]

LEMMA SerialInit == Init => SerialInv
<1> SUFFICES ASSUME Init PROVE SerialInv
  OBVIOUS
<1>1. Mutex /\ Present
  BY DEF Init, Mutex, Present, Quiet, Idle, Threads
<1>2. Honest /\ ObExact
  BY DEF Init, Honest, ObExact, Kinds
<1>3. InitSoFar /\ GoneSoFar
  BY DEF Init, InitSoFar, GoneSoFar, Removing, Kinds
<1>4. Exact
  BY DEF Init, Exact, Chain, Removing, Kinds, Notify
<1>5. QED
  BY <1>1, <1>2, <1>3, <1>4 DEF SerialInv

LEMMA SerialBind ==
  ASSUME TypeInv, SerialInv, ~Overlap, NEW t \in Callers, Bind(t)
  PROVE  SerialInv'
<1> USE DEF SerialInv, TypeInv
<1>0. t \in Threads /\ pc[t] # "idle" /\ Alone(t)
  BY DEF Bind, GoTo, Threads, Alone, Mutex, TypeOK
<1>1. Mutex'
  BY <1>0 DEF Mutex, Alone
<1>2. Present'
  BY <1>0 DEF Bind, GoTo, Present, Quiet, Idle, TypeOK, Alone, Threads
<1>3. Honest'
  BY <1>0, AfterType DEF Bind, GoTo, Honest, TypeOK, Placed, Alone, Removing, Kinds, Notify
<1>4. ObExact'
  BY <1>0 DEF Bind, GoTo, ObExact, Honest, TypeOK, Placed, Alone, Removing, Kinds
<1>5. InitSoFar'
  <2>1. Before["init"]["ob"] = {}
    BY DEF Before
  <2>2. QED
    BY <1>0, <2>1 DEF Bind, GoTo, InitSoFar, TypeOK, Placed, Alone
<1>6. GoneSoFar'
  BY <1>0, BeforeAfter, AfterType DEF Bind, GoTo, GoneSoFar, Exact, Honest, ObExact, Present, Quiet, Idle, TypeOK, Placed, Alone, Removing
<1>7. Exact'
  BY <1>0, BeforeAfter, AfterType DEF Bind, GoTo, Exact, Chain, Honest, ObExact, InitSoFar, GoneSoFar, TypeOK, Placed, Alone, Removing, Kinds, Notify
<1>8. QED
  BY <1>1, <1>2, <1>3, <1>4, <1>5, <1>6, <1>7

LEMMA SerialRegister ==
  ASSUME TypeInv, SerialInv, ~Overlap, NEW t \in Callers, Register(t)
  PROVE  SerialInv'
<1> USE DEF SerialInv, TypeInv
<1>0. t \in Threads /\ pc[t] # "idle" /\ Alone(t)
  BY DEF Register, GoTo, Advance, Accepts, Threads, Alone, Mutex, TypeOK
<1>1. Mutex'
  BY <1>0 DEF Mutex, Alone
<1>2. Present'
  BY <1>0 DEF Register, GoTo, Advance, Accepts, Present, Quiet, Idle, TypeOK, Alone, Threads
<1>3. Honest'
  BY <1>0, AfterType DEF Register, GoTo, Advance, Accepts, Honest, TypeOK, Placed, Alone, Removing, Kinds, Notify
<1>4. ObExact'
  BY <1>0 DEF Register, GoTo, Advance, Accepts, ObExact, Honest, TypeOK, Placed, Alone, Removing, Kinds
<1>5. InitSoFar'
  <2>1. \A k \in Kinds : (os[k] >= 1 => os'[k] >= 1) /\ (flag[k] => flag'[k])
    BY DEF Register, TypeOK, Kinds
  <2>2. op'[t] = "init" /\ at[t] \in Kinds
    BY <1>0 DEF Register, GoTo, Advance, Placed
  <2>3. CASE at[t] = "ob"
    <3>1. Before["init"][at'[t]] = {"ob"}
      BY <1>0, <2>2, <2>3 DEF Register, Advance, Placed, TypeOK, Before, After
    <3>2. os'["ob"] >= 1 /\ flag'["ob"]
      BY <2>2, <2>3 DEF Register, TypeOK
    <3>3. pc'[t] = "register"
      BY <1>0, <2>2, <2>3 DEF Register, Advance, Placed, TypeOK, After
    <3>4. QED
      BY <1>0, <3>1, <3>2, <3>3 DEF InitSoFar, Alone
  <2>4. CASE at[t] # "ob"
    <3>1. at'[t] = at[t] /\ pc'[t] = "setFlag"
      BY <1>0, <2>4 DEF Register, GoTo, TypeOK
    <3>2. \A k \in Before["init"][at[t]] : k \in Kinds /\ os[k] >= 1 /\ flag[k]
      BY <1>0, <2>2 DEF Register, InitSoFar, Placed, Before, Kinds, Notify
    <3>3. QED
      BY <1>0, <2>1, <2>2, <3>1, <3>2 DEF InitSoFar, Alone, TypeOK
  <2>5. QED
    BY <2>3, <2>4
<1>6. GoneSoFar'
  BY <1>0, BeforeAfter, AfterType DEF Register, GoTo, Advance, Accepts, GoneSoFar, Exact, Honest, ObExact, Present, Quiet, Idle, TypeOK, Placed, Alone, Removing
<1>7. Exact'
  <2> SUFFICES ASSUME ~removeFailed PROVE Exact'
    BY DEF Exact, Register
  <2>1. op[t] = "init" /\ at[t] \in Kinds
    BY <1>0 DEF Register, Placed
  <2>2. os' = [os EXCEPT ![at[t]] = os[at[t]] + 1]
    BY DEF Register
  <2>3. \A u \in Threads : pc[u] \notin Removing
    BY <1>0 DEF Register, Alone, Removing
  <2>4. CASE at[t] = "ob"
    <3>1. \A k \in Kinds : os[k] = 0
      BY <2>3, <2>4 DEF Register, Accepts, Exact, Chain, TypeOK, Kinds, Notify
    <3>2. \A k \in Kinds : os'[k] = IF k = "ob" THEN 1 ELSE 0
      BY <2>2, <2>4, <3>1 DEF TypeOK
    <3>3. at'[t] = "process" /\ pc'[t] = "register"
      BY <1>0, <2>1, <2>4 DEF Register, Advance, After, TypeOK
    <3>4. QED
      BY <1>0, <3>2, <3>3 DEF Exact, Chain, Alone, Before, Kinds, Notify, Removing
  <2>5. CASE at[t] # "ob"
    <3>1. os[at[t]] = 0
      BY <1>0, <2>5 DEF Register, Exact
    <3>2. \A k \in Kinds : os'[k] = IF k = at[t] THEN 1 ELSE os[k]
      BY <2>1, <2>2, <3>1 DEF TypeOK
    <3>3. at'[t] = at[t] /\ pc'[t] = "setFlag" /\ flag' = flag
      BY <1>0, <2>5 DEF Register, GoTo, TypeOK
    <3>4. \A k \in Before["init"][at[t]] : os[k] >= 1
      BY <1>0, <2>1 DEF Register, InitSoFar
    <3>5. \A k \in Kinds \ (Before["init"][at[t]] \cup {at[t]}) : os'[k] = 0
      BY <1>0, <2>5, <3>2 DEF Register, Exact
    <3>6. \A k \in Kinds : os[k] \in {0, 1} /\ os'[k] \in {0, 1}
      BY <3>2 DEF Exact
    <3>7. Chain'
      <4>1. CASE at[t] = "process"
        <5>1. Before["init"][at[t]] = {"ob"}
          BY <4>1 DEF Before
        <5>2. QED
          BY <3>2, <3>4, <3>5, <3>6, <4>1, <5>1 DEF Chain, Kinds, Notify
      <4>2. CASE at[t] = "image"
        <5>1. Before["init"][at[t]] = {"ob", "process"}
          BY <4>2 DEF Before
        <5>2. QED
          BY <3>2, <3>4, <3>5, <3>6, <4>2, <5>1 DEF Chain, Kinds, Notify
      <4>3. CASE at[t] = "thread"
        <5>1. Before["init"][at[t]] = {"ob", "process", "image"}
          BY <4>3 DEF Before
        <5>2. QED
          BY <3>2, <3>4, <3>5, <3>6, <4>3, <5>1 DEF Chain, Kinds, Notify
      <4>4. QED
        BY <2>1, <2>5, <4>1, <4>2, <4>3 DEF Kinds, Notify
    <3>8. \A k \in Notify : os'[k] = 1 =>
            flag'[k] \/ \E u \in Threads : at'[u] = k /\ pc'[u] \in {"setFlag", "remove"}
      <4> SUFFICES ASSUME NEW k \in Notify, os'[k] = 1, k # at[t]
                   PROVE  flag[k]
        BY <1>0, <3>3
      <4>1. os[k] = 1
        BY <3>2 DEF Kinds
      <4>2. QED
        BY <1>0, <4>1 DEF Exact, Alone, Register
    <3>9. QED
      BY <1>0, <2>5, <3>3, <3>5, <3>6, <3>7, <3>8 DEF Exact, Alone
  <2>6. QED
    BY <2>4, <2>5
<1>8. QED
  BY <1>1, <1>2, <1>3, <1>4, <1>5, <1>6, <1>7

LEMMA SerialRegisterFails ==
  ASSUME TypeInv, SerialInv, ~Overlap, NEW t \in Callers, RegisterFails(t)
  PROVE  SerialInv'
<1> USE DEF SerialInv, TypeInv
<1>0. t \in Threads /\ pc[t] # "idle" /\ Alone(t)
  BY DEF RegisterFails, GoTo, Threads, Alone, Mutex, TypeOK
<1>1. Mutex'
  BY <1>0 DEF Mutex, Alone
<1>2. Present'
  BY <1>0 DEF RegisterFails, GoTo, Present, Quiet, Idle, TypeOK, Alone, Threads
<1>3. Honest'
  BY <1>0, AfterType DEF RegisterFails, GoTo, Honest, TypeOK, Placed, Alone, Removing, Kinds, Notify
<1>4. ObExact'
  BY <1>0 DEF RegisterFails, GoTo, ObExact, Honest, TypeOK, Placed, Alone, Removing, Kinds
<1>5. InitSoFar'
  BY <1>0, BeforeAfter, AfterType DEF RegisterFails, GoTo, InitSoFar, Honest, TypeOK, Placed, Alone, Removing, Labels
<1>6. GoneSoFar'
  BY <1>0, BeforeAfter, AfterType DEF RegisterFails, GoTo, GoneSoFar, Exact, Honest, ObExact, Present, Quiet, Idle, TypeOK, Placed, Alone, Removing
<1>7. Exact'
  BY <1>0, BeforeAfter, AfterType DEF RegisterFails, GoTo, Exact, Chain, Honest, ObExact, InitSoFar, GoneSoFar, TypeOK, Placed, Alone, Removing, Kinds, Notify
<1>8. QED
  BY <1>1, <1>2, <1>3, <1>4, <1>5, <1>6, <1>7

LEMMA SerialSetFlag ==
  ASSUME TypeInv, SerialInv, ~Overlap, NEW t \in Callers, SetFlag(t)
  PROVE  SerialInv'
<1> USE DEF SerialInv, TypeInv
<1>0. t \in Threads /\ pc[t] # "idle" /\ Alone(t)
  BY DEF SetFlag, Advance, Threads, Alone, Mutex, TypeOK
<1>1. Mutex'
  BY <1>0 DEF Mutex, Alone
<1>2. Present'
  BY <1>0 DEF SetFlag, Advance, Present, Quiet, Idle, TypeOK, Alone, Threads
<1>3. Honest'
  BY <1>0, AfterType DEF SetFlag, Advance, Honest, TypeOK, Placed, Alone, Removing, Kinds, Notify
<1>4. ObExact'
  BY <1>0 DEF SetFlag, Advance, ObExact, Honest, TypeOK, Placed, Alone, Removing, Kinds
<1>5. InitSoFar'
  BY <1>0, BeforeAfter, AfterType DEF SetFlag, Advance, InitSoFar, Honest, TypeOK, Placed, Alone, Removing, Labels
<1>6. GoneSoFar'
  BY <1>0, BeforeAfter, AfterType DEF SetFlag, Advance, GoneSoFar, Exact, Honest, ObExact, Present, Quiet, Idle, TypeOK, Placed, Alone, Removing
<1>7. Exact'
  BY <1>0, BeforeAfter, AfterType DEF SetFlag, Advance, Exact, Chain, Honest, ObExact, InitSoFar, GoneSoFar, TypeOK, Placed, Alone, Removing, Kinds, Notify
<1>8. QED
  BY <1>1, <1>2, <1>3, <1>4, <1>5, <1>6, <1>7

LEMMA SerialComplete ==
  ASSUME TypeInv, SerialInv, ~Overlap, NEW t \in Callers, Complete(t)
  PROVE  SerialInv'
<1> USE DEF SerialInv, TypeInv
<1>0. t \in Threads /\ pc[t] # "idle" /\ Alone(t)
  BY DEF Complete, Finish, Threads, Alone, Mutex, TypeOK
<1>1. Mutex'
  BY <1>0 DEF Mutex, Alone
<1>2. Present'
  BY <1>0 DEF Complete, Finish, Present, Quiet, Idle, TypeOK, Alone, Threads
<1>3. Honest'
  BY <1>0, AfterType DEF Complete, Finish, Honest, TypeOK, Placed, Alone, Removing, Kinds, Notify
<1>4. ObExact'
  BY <1>0 DEF Complete, Finish, ObExact, Honest, TypeOK, Placed, Alone, Removing, Kinds
<1>5. InitSoFar'
  BY <1>0, BeforeAfter, AfterType DEF Complete, Finish, InitSoFar, Honest, TypeOK, Placed, Alone, Removing, Labels
<1>6. GoneSoFar'
  BY <1>0, BeforeAfter, AfterType DEF Complete, Finish, GoneSoFar, Exact, Honest, ObExact, Present, Quiet, Idle, TypeOK, Placed, Alone, Removing
<1>7. Exact'
  BY <1>0, BeforeAfter, AfterType DEF Complete, Finish, Exact, Chain, Honest, ObExact, InitSoFar, GoneSoFar, TypeOK, Placed, Alone, Removing, Kinds, Notify
<1>8. QED
  BY <1>1, <1>2, <1>3, <1>4, <1>5, <1>6, <1>7

LEMMA SerialCheck ==
  ASSUME TypeInv, SerialInv, ~Overlap, NEW t \in Threads, Check(t)
  PROVE  SerialInv'
<1> USE DEF SerialInv, TypeInv
<1>0. t \in Threads /\ pc[t] # "idle" /\ Alone(t)
  BY DEF Check, GoTo, Advance, Threads, Alone, Mutex, TypeOK
<1>1. Mutex'
  BY <1>0 DEF Mutex, Alone
<1>2. Present'
  BY <1>0 DEF Check, GoTo, Advance, Present, Quiet, Idle, TypeOK, Alone, Threads
<1>3. Honest'
  BY <1>0, AfterType DEF Check, GoTo, Advance, Honest, TypeOK, Placed, Alone, Removing, Kinds, Notify
<1>4. ObExact'
  BY <1>0 DEF Check, GoTo, Advance, ObExact, Honest, TypeOK, Placed, Alone, Removing, Kinds
<1>5. InitSoFar'
  BY <1>0, BeforeAfter, AfterType DEF Check, GoTo, Advance, InitSoFar, Honest, TypeOK, Placed, Alone, Removing, Labels
<1>6. GoneSoFar'
  <2>1. op[t] \in {"uninit", "unload"} /\ at[t] \in Kinds /\ op' = op /\ os' = os
    BY <1>0 DEF Check, GoTo, Advance, Placed, Removing
  <2>2. ~flag[at[t]] => (at[t] = "ob" \/ ~removeFailed => os[at[t]] = 0)
    BY <1>0, <2>1 DEF Check, Exact, ObExact, Alone, Kinds
  <2>3. op[t] = "unload" /\ After[op[t]][at[t]] = "end" => at[t] = "ob"
    BY <2>1 DEF After, Kinds, Notify
  <2>5. CASE flag[at[t]]
    BY <1>0, <2>1, <2>5 DEF Check, GoTo, GoneSoFar, TypeOK, Alone, Removing
  <2>6. CASE ~flag[at[t]]
    <3>1. /\ at'[t] = After[op[t]][at[t]]
          /\ pc'[t] = IF at'[t] = "end" THEN "succeed" ELSE "check"
          /\ loaded' = loaded /\ removeFailed' = removeFailed
      BY <1>0, <2>6 DEF Check, Advance, TypeOK
    <3>2. Before[op[t]][at'[t]] = Before[op[t]][at[t]] \cup {at[t]}
      BY <2>1, <3>1, BeforeAfter
    <3>3. ~removeFailed => \A k \in Before[op[t]][at[t]] : os[k] = 0
      BY <1>0, <2>1 DEF Check, GoneSoFar, Removing
    <3>4. QED
      BY <1>0, <2>1, <2>2, <2>3, <2>6, <3>1, <3>2, <3>3 DEF GoneSoFar, Alone, Removing
  <2>7. QED
    BY <2>5, <2>6
<1>7. Exact'
  BY <1>0, BeforeAfter, AfterType, SMTT(30) DEF Check, GoTo, Advance, Exact, Chain, Honest, ObExact, InitSoFar, GoneSoFar, TypeOK, Placed, Alone, Removing, Kinds, Notify
<1>8. QED
  BY <1>1, <1>2, <1>3, <1>4, <1>5, <1>6, <1>7

LEMMA SerialClear ==
  ASSUME TypeInv, SerialInv, ~Overlap, NEW t \in Threads, Clear(t)
  PROVE  SerialInv'
<1> USE DEF SerialInv, TypeInv
<1>0. t \in Threads /\ pc[t] # "idle" /\ Alone(t)
  BY DEF Clear, GoTo, Advance, Threads, Alone, Mutex, TypeOK
<1>1. Mutex'
  BY <1>0 DEF Mutex, Alone
<1>2. Present'
  BY <1>0 DEF Clear, GoTo, Advance, Present, Quiet, Idle, TypeOK, Alone, Threads
<1>3. Honest'
  BY <1>0, AfterType DEF Clear, GoTo, Advance, Honest, TypeOK, Placed, Alone, Removing, Kinds, Notify
<1>4. ObExact'
  BY <1>0 DEF Clear, GoTo, Advance, ObExact, Honest, TypeOK, Placed, Alone, Removing, Kinds
<1>5. InitSoFar'
  BY <1>0, BeforeAfter, AfterType DEF Clear, GoTo, Advance, InitSoFar, Honest, TypeOK, Placed, Alone, Removing, Labels
<1>6. GoneSoFar'
  BY <1>0, BeforeAfter, AfterType DEF Clear, GoTo, Advance, GoneSoFar, Exact, Honest, ObExact, Present, Quiet, Idle, TypeOK, Placed, Alone, Removing
<1>7. Exact'
  BY <1>0, BeforeAfter, AfterType, SMTT(30) DEF Clear, GoTo, Advance, Exact, Chain, Honest, ObExact, InitSoFar, GoneSoFar, TypeOK, Placed, Alone, Removing, Kinds, Notify
<1>8. QED
  BY <1>1, <1>2, <1>3, <1>4, <1>5, <1>6, <1>7

LEMMA SerialRemove ==
  ASSUME TypeInv, SerialInv, ~Overlap, NEW t \in Threads, Remove(t)
  PROVE  SerialInv'
<1> USE DEF SerialInv, TypeInv
<1>0. t \in Threads /\ pc[t] # "idle" /\ Alone(t)
  BY DEF Remove, GoTo, Advance, Threads, Alone, Mutex, TypeOK
<1>1. Mutex'
  BY <1>0 DEF Mutex, Alone
<1>2. Present'
  BY <1>0 DEF Remove, GoTo, Advance, Present, Quiet, Idle, TypeOK, Alone, Threads
<1>3. Honest'
  <2>1. at[t] \in Kinds /\ (flag[at[t]] <=> at[t] = "ob") /\ flag' = flag
    BY <1>0 DEF Remove, Honest, Placed, Removing
  <2>2. os' = [os EXCEPT ![at[t]] = os[at[t]] - 1]
    BY DEF Remove
  <2>3. CASE at[t] = "ob"
    <3>1. os'["ob"] = 0 /\ pc'[t] = "clear" /\ at'[t] = "ob"
      BY <1>0, <2>1, <2>2, <2>3 DEF Remove, GoTo, ObExact, TypeOK
    <3>2. \A k \in Kinds : k # "ob" => os'[k] = os[k]
      BY <2>2, <2>3 DEF TypeOK
    <3>3. QED
      BY <1>0, <2>1, <2>3, <3>1, <3>2 DEF Honest, Alone, Remove
  <2>4. CASE at[t] # "ob"
    <3>1. pc'[t] \in {"check", "succeed"}
      BY <1>0, <2>4 DEF Remove, Advance, TypeOK
    <3>2. \A k \in Kinds : k # at[t] => os'[k] = os[k]
      BY <2>2 DEF TypeOK
    <3>3. QED
      BY <1>0, <2>1, <2>4, <3>1, <3>2 DEF Honest, Alone, Remove
  <2>5. QED
    BY <2>3, <2>4
<1>4. ObExact'
  BY <1>0 DEF Remove, GoTo, Advance, ObExact, Honest, TypeOK, Placed, Alone, Removing, Kinds
<1>5. InitSoFar'
  BY <1>0, BeforeAfter, AfterType DEF Remove, GoTo, Advance, InitSoFar, Honest, TypeOK, Placed, Alone, Removing, Labels
<1>6. GoneSoFar'
  <2>1. op[t] \in {"uninit", "unload"} /\ at[t] \in Kinds /\ op' = op
    BY <1>0 DEF Remove, GoTo, Advance, Placed, Removing
  <2>2. os' = [os EXCEPT ![at[t]] = os[at[t]] - 1]
    BY DEF Remove
  <2>3. ~removeFailed => os'[at[t]] = 0
    BY <1>0, <2>1, <2>2 DEF Remove, Exact, TypeOK
  <2>4. ~removeFailed => \A k \in Before[op[t]][at[t]] : os[k] = 0 /\ k \in Kinds
    BY <1>0, <2>1 DEF Remove, GoneSoFar, Removing, Before, Kinds, Notify
  <2>5. at[t] \notin Before[op[t]][at[t]]
    BY <2>1, BeforeAfter
  <2>6. ~removeFailed => \A k \in Before[op[t]][at[t]] : os'[k] = 0
    BY <2>2, <2>4, <2>5 DEF TypeOK
  <2>7. loaded /\ loaded' = loaded /\ removeFailed' = removeFailed
    BY <1>0 DEF Remove, Present, Quiet, Idle
  <2>8. CASE at[t] = "ob"
    BY <1>0, <2>1, <2>6, <2>7, <2>8 DEF Remove, GoTo, GoneSoFar, TypeOK, Alone, Removing
  <2>9. CASE at[t] # "ob"
    <3>1. /\ at'[t] = After[op[t]][at[t]]
          /\ pc'[t] = IF at'[t] = "end" THEN "succeed" ELSE "check"
      BY <1>0, <2>9 DEF Remove, Advance, TypeOK
    <3>2. Before[op[t]][at'[t]] = Before[op[t]][at[t]] \cup {at[t]}
      BY <2>1, <3>1, BeforeAfter
    <3>3. op[t] = "unload" => at'[t] # "end"
      BY <2>1, <2>9, <3>1 DEF After, Kinds, Notify
    <3>4. QED
      BY <1>0, <2>1, <2>3, <2>6, <2>7, <3>1, <3>2, <3>3 DEF GoneSoFar, Alone, Removing
  <2>10. QED
    BY <2>8, <2>9
<1>7. Exact'
  BY <1>0, BeforeAfter, AfterType, SMTT(30) DEF Remove, GoTo, Advance, Exact, Chain, Honest, ObExact, InitSoFar, GoneSoFar, TypeOK, Placed, Alone, Removing, Kinds, Notify
<1>8. QED
  BY <1>1, <1>2, <1>3, <1>4, <1>5, <1>6, <1>7

LEMMA SerialRemoveFails ==
  ASSUME TypeInv, SerialInv, ~Overlap, NEW t \in Threads, RemoveFails(t)
  PROVE  SerialInv'
<1> USE DEF SerialInv, TypeInv
<1>0. t \in Threads /\ pc[t] # "idle" /\ Alone(t)
  BY DEF RemoveFails, GoTo, Threads, Alone, Mutex, TypeOK
<1>1. Mutex'
  BY <1>0 DEF Mutex, Alone
<1>2. Present'
  BY <1>0 DEF RemoveFails, GoTo, Present, Quiet, Idle, TypeOK, Alone, Threads
<1>3. Honest'
  BY <1>0, AfterType DEF RemoveFails, GoTo, Honest, TypeOK, Placed, Alone, Removing, Kinds, Notify
<1>4. ObExact'
  BY <1>0 DEF RemoveFails, GoTo, ObExact, Honest, TypeOK, Placed, Alone, Removing, Kinds
<1>5. InitSoFar'
  BY <1>0, BeforeAfter, AfterType DEF RemoveFails, GoTo, InitSoFar, Honest, TypeOK, Placed, Alone, Removing, Labels
<1>6. GoneSoFar'
  BY <1>0, BeforeAfter, AfterType DEF RemoveFails, GoTo, GoneSoFar, Exact, Honest, ObExact, Present, Quiet, Idle, TypeOK, Placed, Alone, Removing
<1>7. Exact'
  BY <1>0, BeforeAfter, AfterType DEF RemoveFails, GoTo, Exact, Chain, Honest, ObExact, InitSoFar, GoneSoFar, TypeOK, Placed, Alone, Removing, Kinds, Notify
<1>8. QED
  BY <1>1, <1>2, <1>3, <1>4, <1>5, <1>6, <1>7

LEMMA SerialStartInit ==
  ASSUME TypeInv, SerialInv, ~Overlap, NEW t \in Callers, NEW s \in Services, StartInit(t, s)
  PROVE  SerialInv'
<1> USE DEF SerialInv, TypeInv
<1>0. \A u \in Threads : pc[u] = "idle"
  BY DEF StartInit, Open, Quiet, Idle
<1>1. Mutex' /\ Present'
  BY <1>0, DriverAssumption DEF StartInit, Open, Mutex, Present, Quiet, Idle, TypeOK, Threads
<1>2. Honest' /\ ObExact'
  BY <1>0 DEF StartInit, Open, Honest, ObExact, TypeOK, Kinds, Notify
<1>3. InitSoFar'
  BY <1>0 DEF StartInit, Open, InitSoFar, TypeOK
<1>4. GoneSoFar'
  BY <1>0 DEF StartInit, Open, GoneSoFar, Present, TypeOK, Before, Removing, Threads
<1>5. Exact'
  BY <1>0 DEF StartInit, Open, Exact, Chain, TypeOK, Removing, Kinds, Notify, Threads
<1>6. QED
  BY <1>1, <1>2, <1>3, <1>4, <1>5

LEMMA SerialStartUninit ==
  ASSUME TypeInv, SerialInv, ~Overlap, NEW t \in Callers, NEW s \in Services, StartUninit(t, s)
  PROVE  SerialInv'
<1> USE DEF SerialInv, TypeInv
<1>0. \A u \in Threads : pc[u] = "idle"
  BY DEF StartUninit, Open, Quiet, Idle
<1>1. Mutex' /\ Present'
  BY <1>0, DriverAssumption DEF StartUninit, Open, Mutex, Present, Quiet, Idle, TypeOK, Threads
<1>2. Honest' /\ ObExact'
  BY <1>0 DEF StartUninit, Open, Honest, ObExact, TypeOK, Kinds, Notify
<1>3. InitSoFar'
  BY <1>0 DEF StartUninit, Open, InitSoFar, TypeOK
<1>4. GoneSoFar'
  BY <1>0 DEF StartUninit, Open, GoneSoFar, Present, TypeOK, Before, Removing, Threads
<1>5. Exact'
  BY <1>0 DEF StartUninit, Open, Exact, Chain, TypeOK, Removing, Kinds, Notify, Threads
<1>6. QED
  BY <1>1, <1>2, <1>3, <1>4, <1>5

LEMMA SerialStartUnload ==
  ASSUME TypeInv, SerialInv, ~Overlap, StartUnload
  PROVE  SerialInv'
<1> USE DEF SerialInv, TypeInv
<1>0. \A u \in Threads : pc[u] = "idle"
  BY DEF StartUnload, Quiet, Idle
<1>1. Mutex' /\ Present'
  BY <1>0 DEF StartUnload, Mutex, Present, Quiet, Idle, TypeOK, Threads
<1>2. Honest' /\ ObExact'
  BY <1>0 DEF StartUnload, Honest, ObExact, TypeOK, Kinds, Notify
<1>3. InitSoFar'
  BY <1>0 DEF StartUnload, InitSoFar, TypeOK
<1>4. GoneSoFar'
  BY <1>0 DEF StartUnload, GoneSoFar, Present, TypeOK, Before, Removing, Threads
<1>5. Exact'
  BY <1>0 DEF StartUnload, Exact, Chain, TypeOK, Removing, Kinds, Notify, Threads
<1>6. QED
  BY <1>1, <1>2, <1>3, <1>4, <1>5

LEMMA SerialLoad ==
  ASSUME TypeInv, SerialInv, ~Overlap, Load
  PROVE  SerialInv'
<1> USE DEF SerialInv, TypeInv
<1>0. \A u \in Threads : pc[u] = "idle"
  BY DEF Load, callerVars, Quiet, Idle
<1>1. Mutex' /\ Present'
  BY <1>0 DEF Load, callerVars, Mutex, Present, Quiet, Idle, TypeOK, Threads
<1>2. Honest' /\ ObExact'
  BY <1>0 DEF Load, callerVars, Honest, ObExact, TypeOK, Kinds, Notify
<1>3. InitSoFar'
  BY <1>0 DEF Load, callerVars, InitSoFar, TypeOK
<1>4. GoneSoFar'
  BY <1>0 DEF Load, callerVars, GoneSoFar, Present, TypeOK, Before, Removing, Threads
<1>5. Exact'
  BY <1>0 DEF Load, callerVars, Exact, Chain, TypeOK, Removing, Kinds, Notify, Threads
<1>6. QED
  BY <1>1, <1>2, <1>3, <1>4, <1>5

LEMMA SerialFinishUnload ==
  ASSUME TypeInv, SerialInv, ~Overlap, FinishUnload
  PROVE  SerialInv'
<1> USE DEF SerialInv, TypeInv
<1>0. System \in Threads /\ pc[System] # "idle" /\ Alone(System)
  BY DEF FinishUnload, Finish, Threads, Alone, Mutex, TypeOK
<1>1. op[System] = "unload" /\ at[System] = "end"
  BY <1>0 DEF FinishUnload, Placed, GoneSoFar
<1>2. os["ob"] = 0 /\ (~removeFailed => \A k \in Kinds : os[k] = 0)
  BY <1>0, <1>1 DEF FinishUnload, GoneSoFar, Before
<1>3. Mutex' /\ Present'
  BY <1>0 DEF FinishUnload, Finish, Mutex, Present, Quiet, Idle, TypeOK, Alone
<1>4. Honest' /\ ObExact'
  BY <1>0 DEF FinishUnload, Finish, Honest, ObExact, TypeOK, Alone
<1>5. InitSoFar'
  BY <1>0 DEF FinishUnload, Finish, InitSoFar, TypeOK, Alone
<1>6. GoneSoFar'
  BY <1>0, <1>2 DEF FinishUnload, Finish, GoneSoFar, TypeOK, Alone, Removing
<1>7. Exact'
  BY <1>0, <1>2 DEF FinishUnload, Finish, Exact, Chain, TypeOK, Alone, Removing, Kinds, Notify
<1>8. QED
  BY <1>3, <1>4, <1>5, <1>6, <1>7

-----------------------------------------------------------------------------
LEMMA SerialStep ==
  ASSUME ~Overlap
  PROVE  TypeInv /\ SerialInv /\ [Next]_driverVars => SerialInv'
<1> SUFFICES ASSUME TypeInv, SerialInv, [Next]_driverVars PROVE SerialInv'
  OBVIOUS
<1>1. CASE Load \/ StartUnload \/ FinishUnload
  BY <1>1, SerialLoad, SerialStartUnload, SerialFinishUnload
<1>2. ASSUME NEW t \in Callers, Request(t) PROVE SerialInv'
  BY <1>2, SerialBind, SerialRegister, SerialRegisterFails, SerialSetFlag,
     SerialComplete, SerialStartInit, SerialStartUninit DEF Request
<1>3. ASSUME NEW t \in Threads, Removal(t) PROVE SerialInv'
  BY <1>3, SerialCheck, SerialClear, SerialRemove, SerialRemoveFails DEF Removal
<1>4. CASE UNCHANGED driverVars
  BY <1>4 DEF driverVars, SerialInv, Mutex, Present, Quiet, Idle, Honest, ObExact,
     InitSoFar, GoneSoFar, Exact, Chain
<1>5. QED
  BY <1>1, <1>2, <1>3, <1>4 DEF Next

LEMMA SerialInvariant ==
  ASSUME ~Overlap
  PROVE  Spec => []SerialInv
<1>1. Init => SerialInv
  BY SerialInit
<1>2. TypeInv /\ SerialInv /\ [Next]_driverVars => SerialInv'
  BY SerialStep
<1>3. QED
  BY <1>1, <1>2, TypeInvariant, PTL DEF Spec

(* One request at a time never asks the system to remove a routine it does *)
(* not hold, whatever registrations and removals have failed before.       *)
THEOREM FlagHonestHolds == Spec => []FlagHonest
<1>1. CASE Overlap
  BY <1>1, PTL DEF FlagHonest
<1>2. CASE ~Overlap
  <2>1. TypeInv /\ SerialInv => FlagHonest
    BY DEF TypeInv, TypeOK, Placed, Removing, SerialInv, Honest, FlagHonest
  <2>2. Spec => []SerialInv
    BY <1>2, SerialInvariant
  <2>3. QED
    BY <2>1, <2>2, TypeInvariant, PTL
<1>3. QED
  BY <1>1, <1>2

(* INITIALIZE succeeds only with everything installed and recorded, also   *)
(* when it is retried after any sequence of partial failures.              *)
THEOREM InitializeHonestHolds == Spec => []InitializeHonest
<1>1. CASE Overlap
  BY <1>1, PTL DEF InitializeHonest
<1>2. CASE ~Overlap
  <2>1. TypeInv /\ SerialInv => InitializeHonest
    <3> SUFFICES ASSUME TypeInv, SerialInv, NEW t \in Threads,
                        pc[t] = "succeed", op[t] = "init"
                 PROVE  \A k \in Kinds : os[k] >= 1 /\ flag[k]
      BY DEF InitializeHonest
    <3>1. at[t] = "end"
      BY DEF SerialInv, InitSoFar
    <3>2. QED
      BY <3>1 DEF SerialInv, InitSoFar, Before
  <2>2. Spec => []SerialInv
    BY <1>2, SerialInvariant
  <2>3. QED
    BY <2>1, <2>2, TypeInvariant, PTL
<1>3. QED
  BY <1>1, <1>2

(* g_service and g_service_callback name one service outside the two       *)
(* stores of an INITIALIZE.                                                *)
LEMMA MatchedStep ==
  ASSUME ~Overlap, TypeInv, Mutex, Matched, [Next]_driverVars
  PROVE  Matched'
<1> USE DriverAssumption DEF TypeInv, Matched
<1>1. CASE Load
  BY <1>1 DEF Load, TypeOK, Quiet, Idle, callerVars
<1>2. CASE StartUnload
  BY <1>2 DEF StartUnload, TypeOK, Quiet, Idle
<1>3. CASE FinishUnload
  BY <1>3 DEF FinishUnload, Finish, TypeOK, Threads
<1>4. ASSUME NEW t \in Callers, Request(t) PROVE Matched'
  <2> t \in Threads BY DEF Threads
  <2>1. CASE Bind(t)
    BY <2>1 DEF Bind, GoTo, TypeOK, Mutex
  <2>2. CASE Register(t) \/ RegisterFails(t) \/ SetFlag(t) \/ Complete(t)
    <3>1. cb' = cb /\ svc' = svc /\ pc[t] # "bind" /\ pc'[t] # "bind"
      BY <2>2 DEF Register, RegisterFails, SetFlag, Complete, GoTo, Advance, Finish, TypeOK
    <3>2. \A u \in Threads : u # t => pc'[u] = pc[u] /\ who'[u] = who[u]
      BY <2>2 DEF Register, RegisterFails, SetFlag, Complete, GoTo, Advance, Finish, TypeOK
    <3> QED BY <3>1, <3>2
  <2>3. ASSUME NEW s \in Services, StartInit(t, s) PROVE Matched'
    BY <2>3 DEF StartInit, Open, Quiet, Idle, TypeOK
  <2>4. ASSUME NEW s \in Services, StartUninit(t, s) PROVE Matched'
    BY <2>4 DEF StartUninit, Open, Quiet, Idle, TypeOK
  <2> QED BY <1>4, <2>1, <2>2, <2>3, <2>4 DEF Request
<1>5. ASSUME NEW t \in Threads, Removal(t) PROVE Matched'
  <2>1. cb' = cb /\ svc' = svc /\ who' = who /\ pc[t] # "bind" /\ pc'[t] # "bind"
    BY <1>5 DEF Removal, Check, Clear, Remove, RemoveFails, GoTo, Advance, TypeOK
  <2>2. \A u \in Threads : u # t => pc'[u] = pc[u]
    BY <1>5 DEF Removal, Check, Clear, Remove, RemoveFails, GoTo, Advance, TypeOK
  <2> QED BY <2>1, <2>2
<1>6. CASE UNCHANGED driverVars
  BY <1>6 DEF driverVars
<1> QED BY <1>1, <1>2, <1>3, <1>4, <1>5, <1>6 DEF Next

(* With requests one at a time no routine writes an event into one service *)
(* and calls another, whichever services sent INITIALIZE before.           *)
THEOREM TargetMatchedHolds == Spec => []TargetMatched
<1>1. CASE Overlap
  BY <1>1, PTL DEF TargetMatched
<1>2. CASE ~Overlap
  <2>1. Init => Matched
    BY DEF Init, Matched
  <2>2. TypeInv /\ SerialInv /\ Matched /\ [Next]_driverVars => Matched'
    BY <1>2, MatchedStep DEF SerialInv
  <2>3. Spec => []SerialInv
    BY <1>2, SerialInvariant
  <2>4. Matched => TargetMatched
    BY DEF Matched, TargetMatched
  <2> QED BY <2>1, <2>2, <2>3, <2>4, TypeInvariant, PTL DEF Spec
<1> QED BY <1>1, <1>2

(* Unloading leaves nothing installed unless the system refused a removal, *)
(* and never leaves the object callback.                                   *)
THEOREM UnloadCleanHolds == Spec => []UnloadClean
<1>1. CASE Overlap
  BY <1>1, PTL DEF UnloadClean
<1>2. CASE ~Overlap
  <2>1. TypeInv /\ SerialInv => UnloadClean
    BY DEF SerialInv, GoneSoFar, UnloadClean
  <2>2. Spec => []SerialInv
    BY <1>2, SerialInvariant
  <2>3. QED
    BY <2>1, <2>2, TypeInvariant, PTL
<1>3. QED
  BY <1>1, <1>2

(* Between requests flags and installed routines agree exactly.            *)
THEOREM BookkeepingExactHolds == Spec => []BookkeepingExact
<1>1. CASE Overlap
  BY <1>1, PTL DEF BookkeepingExact
<1>2. CASE ~Overlap
  <2>1. TypeInv /\ SerialInv => BookkeepingExact
    <3> SUFFICES ASSUME TypeInv, SerialInv, Quiet, ~removeFailed, NEW k \in Kinds
                 PROVE  os[k] = IF flag[k] THEN 1 ELSE 0
      BY DEF BookkeepingExact
    <3>1. \A t \in Threads : pc[t] = "idle"
      BY DEF Quiet, Idle
    <3>2. os[k] \in {0, 1} /\ (os[k] = 1 => flag[k])
      BY <3>1 DEF SerialInv, Exact, ObExact, Kinds
    <3>3. flag[k] => os[k] >= 1
      BY <3>1 DEF SerialInv, Honest
    <3>4. QED
      BY <3>2, <3>3
  <2>2. Spec => []SerialInv
    BY <1>2, SerialInvariant
  <2>3. QED
    BY <2>1, <2>2, TypeInvariant, PTL
<1>3. QED
  BY <1>1, <1>2

-----------------------------------------------------------------------------
(* The driver at work: Monitor.                                            *)

(* A routine runs only while the system holds it, about a process that is  *)
(* where the event needs it to be; one thread at most brings it there.     *)
OfProcess(n, p) == Busy(n) /\ ev[n].kind = "process" /\ ev[n].pid = p

Inside ==
  \A n \in Notifiers :
    /\ Busy(n) => ev[n].pid \in Pids /\ os[ev[n].kind] > 0
    /\ npc[n] \in {"check", "lookup"} => ev[n].kind = "process"

Attended ==
  \A n \in Notifiers : Busy(n) =>
    /\ ev[n].kind = "process" =>
         /\ proc[ev[n].pid] = IF ev[n].create THEN "starting" ELSE "ending"
         /\ \A m \in Notifiers : OfProcess(m, ev[n].pid) => m = n
    /\ ev[n].kind \in {"image", "thread"} => proc[ev[n].pid] = "running"

(* Who is taken for the game bore its name, and is announced or about to.  *)
Announcing(n, p) ==
  npc[n] \in {"compare", "acquire", "post"} /\ ev[n].kind = "process" /\ ev[n].pid = p

Chosen ==
  /\ gamePid # None =>
       gamePid \in matched /\ (gamePid \in announced \/ \E n \in Notifiers : Announcing(n, gamePid))
  /\ \A n \in Notifiers : npc[n] \in {"acquire", "post", "release"} =>
       /\ ev[n].pid \in matched
       /\ ev[n].kind \in {"image", "thread"} => ev[n].pid \in announced

(* Who holds up the exit of a service, and of which.                       *)
Holding ==
  \A n \in Notifiers :
    /\ held[n] # None <=> npc[n] \in {"post", "release"}
    /\ ~rebound => held[n] \in {None, svc}

(* With one request at a time, and none of the services gone without       *)
(* UNINITIALIZE, installed routines report to one that is still bound.     *)
Serving ==
  ~Overlap =>
    /\ \A t \in Threads : op[t] = "init" /\ pc[t] # "idle" =>
         /\ who[t] \in bound
         /\ pc[t] \in {"register", "setFlag"} => svc = who[t]
    /\ \A t \in Threads :
         op[t] = "uninit" /\ pc[t] = "succeed" /\ ~removeFailed => at[t] = "end"
    /\ ~removeFailed /\ (\E k \in Kinds : os[k] > 0) => svc \in bound
    /\ ~left => \A s \in bound : alive[s]

MonitorInv ==
  /\ MonitorTypeOK /\ Inside /\ Attended /\ Chosen /\ AnnouncedMatched
  /\ Holding /\ RundownBalanced /\ Serving
-----------------------------------------------------------------------------

LEMMA MonitorStep == [MonitorNext]_vars => [Next]_driverVars
<1> SUFFICES ASSUME [MonitorNext]_vars PROVE [Next]_driverVars
  OBVIOUS
<1>1. CASE DriverStep
  <2>1. CASE FreshLoad
    BY <2>1 DEF FreshLoad, Next
  <2>2. CASE WithinRequest
    BY <2>2 DEF WithinRequest, Next, Request, Removal
  <2>3. ASSUME NEW t \in Callers, EndRequest(t) PROVE Next
    BY <2>3 DEF EndRequest, Next, Request
  <2>4. ASSUME NEW t \in Callers, NEW s \in Services, ServiceRequest(t, s) PROVE Next
    BY <2>4 DEF ServiceRequest, Next, Request
  <2>5. QED
    BY <1>1, <2>1, <2>2, <2>3, <2>4 DEF DriverStep
<1>2. ASSUME NEW p \in Pids, Exit(p) \/ \E g \in BOOLEAN : Spawn(p, g)
      PROVE  UNCHANGED driverVars
  BY <1>2 DEF Exit, Spawn
<1>3. ASSUME NEW n \in Notifiers, Routine(n) PROVE UNCHANGED driverVars
  BY <1>3 DEF Routine, ReadGamePid, LookupGame, CompareGame, Acquire, Post, Release
<1>4. ASSUME NEW n \in Notifiers, NEW k \in Observed, NEW p \in Pids, Observe(n, k, p)
      PROVE  UNCHANGED driverVars
  BY <1>4 DEF Observe
<1>5. ASSUME NEW s \in Services, ExitService(s) PROVE UNCHANGED driverVars
  BY <1>5 DEF ExitService
<1>6. CASE UNCHANGED vars
  BY <1>6 DEF vars
<1>7. QED
  BY <1>1, <1>2, <1>3, <1>4, <1>5, <1>6 DEF MonitorNext

(* Every step of the driver at work is a step of Driver or leaves the      *)
(* driver's state alone, so that Driver is an abstraction of Monitor.      *)
THEOREM MonitorImplementsDriver == MonitorSpec => Spec
<1>1. MonitorInit => Init
  BY DEF MonitorInit
<1>2. [MonitorNext]_vars => [Next]_driverVars
  BY MonitorStep
<1>3. QED
  BY <1>1, <1>2, PTL DEF MonitorSpec, Spec
-----------------------------------------------------------------------------
(* How many threads hold up the exit of service s.                         *)
HeldBy(f, s) == {n \in Notifiers : f[n] = s}

LEMMA OneMore ==
  ASSUME NEW f, NEW g, NEW n \in Notifiers, NEW s \in Services,
         f[n] = None, g[n] = s, \A m \in Notifiers \ {n} : g[m] = f[m]
  PROVE  /\ Cardinality(HeldBy(f, s)) \in Nat
         /\ Cardinality(HeldBy(g, s)) = Cardinality(HeldBy(f, s)) + 1
         /\ \A t \in Services \ {s} : HeldBy(g, t) = HeldBy(f, t)
<1>1. IsFiniteSet(HeldBy(f, s))
  <2>1. HeldBy(f, s) \in SUBSET Notifiers
    BY DEF HeldBy
  <2> QED BY <2>1, FS_Subset, MonitorAssumption DEF MonitorAssumption
<1>2. s # None
  BY DriverAssumption DEF DriverAssumption
<1>3. HeldBy(g, s) = HeldBy(f, s) \cup {n} /\ n \notin HeldBy(f, s)
  BY <1>2 DEF HeldBy
<1>4. Cardinality(HeldBy(f, s) \cup {n}) = Cardinality(HeldBy(f, s)) + 1
  BY <1>1, <1>3, FS_AddElement
<1>5. \A t \in Services \ {s} : HeldBy(g, t) = HeldBy(f, t)
  BY DriverAssumption DEF DriverAssumption, HeldBy
<1> QED BY <1>1, <1>3, <1>4, <1>5, FS_CardinalityType

LEMMA BalanceIs ==
  /\ RundownBalanced <=>
       (~rebound => \A s \in Services : alive[s] => rundown[s] = Cardinality(HeldBy(held, s)))
  /\ RundownBalanced' <=>
       (~rebound' => \A s \in Services : alive'[s] => rundown'[s] = Cardinality(HeldBy(held', s)))
BY DEF RundownBalanced, HeldBy

(* The account of references where no thread takes or gives back one.      *)
LEMMA SameBalance ==
  ASSUME RundownBalanced, UNCHANGED <<rundown, held>>, rebound => rebound',
         \A s \in Services : alive'[s] => alive[s]
  PROVE  RundownBalanced'
BY BalanceIs

(* What the driver's own invariants say in every state of Monitor.         *)
DriverFacts == TypeInv /\ BoundBeforeInstalled /\ (~Overlap => SerialInv)

LEMMA MonitorInitInv == MonitorInit => MonitorInv
<1> SUFFICES ASSUME MonitorInit PROVE MonitorInv
  OBVIOUS
<1>1. MonitorTypeOK
  <2>1. TypeOK
    BY TypeInit DEF MonitorInit, TypeInv
  <2>2. "ob" \in Kinds /\ FALSE \in BOOLEAN
    BY DEF Kinds
  <2>3. NoEvent \in [kind : Kinds, pid : Pids \cup {None}, create : BOOLEAN]
    BY <2>2 DEF NoEvent
  <2>4. game \in [Pids -> BOOLEAN] /\ alive \in [Services -> BOOLEAN]
    BY DEF MonitorInit
  <2>5. left \in BOOLEAN /\ rebound \in BOOLEAN
    BY DEF MonitorInit
  <2> QED BY <2>1, <2>3, <2>4, <2>5 DEF MonitorInit, MonitorTypeOK, NotifierLabels
<1>2. Inside /\ Attended /\ Chosen /\ AnnouncedMatched /\ Holding
  BY DEF MonitorInit, Inside, Attended, Chosen, AnnouncedMatched, Holding, Busy
<1>3. RundownBalanced
  <2>1. \A s \in Services : HeldBy(held, s) = {}
    BY DriverAssumption DEF MonitorInit, HeldBy, DriverAssumption
  <2> QED BY <2>1, FS_EmptySet, BalanceIs DEF MonitorInit
<1>4. Serving
  BY DEF MonitorInit, Init, Serving
<1> QED BY <1>1, <1>2, <1>3, <1>4 DEF MonitorInv

-----------------------------------------------------------------------------
(* A request leaves the routines that run, and what they hold, alone.      *)
LEMMA DriverInside ==
  ASSUME MonitorInv, DriverFacts, DriverStep
  PROVE  Inside'
<1> USE DEF MonitorInv, DriverFacts
<1>1. UNCHANGED <<npc, ev>>
  BY DEF DriverStep
<1>2. ASSUME NEW n \in Notifiers, Busy(n) PROVE os'[ev[n].kind] > 0
  <2>1. ev[n].kind \in Kinds /\ os[ev[n].kind] \in Nat /\ os[ev[n].kind] > 0
    BY <1>2 DEF Inside, MonitorTypeOK, TypeOK
  <2>2. CASE os' = os
    BY <2>1, <2>2
  <2>3. ASSUME NEW t \in Callers, Register(t) PROVE os'[ev[n].kind] > 0
    <3>1. at[t] \in Kinds
      BY <2>3 DEF Register, TypeInv, Placed, Threads
    <3>2. os' = [os EXCEPT ![at[t]] = os[at[t]] + 1] /\ os \in [Kinds -> 0..MaxNotify]
      BY <2>3 DEF Register, MonitorTypeOK, TypeOK
    <3> QED BY <2>1, <3>1, <3>2, DriverAssumption DEF DriverAssumption
  <2>4. ASSUME NEW t \in Threads, Drained(t), Remove(t) PROVE os'[ev[n].kind] > 0
    <3>1. ev[n].kind # at[t]
      BY <1>2, <2>4 DEF Drained
    <3>2. os' = [os EXCEPT ![at[t]] = os[at[t]] - 1] /\ os \in [Kinds -> 0..MaxNotify]
      BY <2>4 DEF Remove, MonitorTypeOK, TypeOK
    <3> QED BY <2>1, <3>1, <3>2
  <2>5. CASE FreshLoad
    BY <2>2, <2>5 DEF FreshLoad, Load
  <2>6. CASE WithinRequest
    BY <2>2, <2>3, <2>4, <2>6 DEF WithinRequest, StartUnload, FinishUnload, Bind,
       RegisterFails, SetFlag, Check, Clear, RemoveFails
  <2>7. ASSUME NEW t \in Callers, EndRequest(t) \/ \E s \in Services : ServiceRequest(t, s)
        PROVE  os' = os
    BY <2>7 DEF EndRequest, Complete, ServiceRequest, StartInit, StartUninit, Open
  <2> QED BY <2>2, <2>5, <2>6, <2>7 DEF DriverStep
<1> QED BY <1>1, <1>2 DEF Inside, Busy

(* What a request does to the history of the game: nothing, or the driver  *)
(* is loaded, with no routine running.                                     *)
LEMMA DriverHistory ==
  ASSUME MonitorInv, DriverStep
  PROVE  \/ UNCHANGED <<gamePid, announced, matched>>
         \/ /\ gamePid' = None /\ announced' = {} /\ matched' = {} /\ bound' = {}
            /\ \A n \in Notifiers : ~Busy(n)
<1> USE DEF MonitorInv
<1>1. CASE FreshLoad
  <2>1. \A k \in Kinds : os[k] = 0
    BY <1>1 DEF FreshLoad, Load
  <2>2. \A n \in Notifiers : ev[n].kind \in Kinds
    BY DEF MonitorTypeOK
  <2>3. \A n \in Notifiers : ~Busy(n)
    BY <2>1, <2>2 DEF Inside
  <2> QED BY <1>1, <2>3 DEF FreshLoad
<1> QED BY <1>1 DEF DriverStep, WithinRequest, EndRequest, ServiceRequest

(* One request at a time: whom the installed routines report to.           *)
LEMMA DriverServing ==
  ASSUME MonitorInv, DriverFacts, DriverFacts', DriverStep
  PROVE  Serving'
<1> SUFFICES ASSUME ~Overlap PROVE Serving'
  BY DEF Serving
<1> USE DEF MonitorInv, DriverFacts, TypeInv, MonitorTypeOK
<1>1. /\ SerialInv /\ SerialInv'
      /\ UNCHANGED <<alive, left>>
      /\ \A t \in Callers : t \in Threads /\ t # System
      /\ System \in Threads
  BY DriverAssumption DEF DriverStep, DriverAssumption, Threads
<1>2. \A t \in Threads : pc[t] # "idle" => \A u \in Threads \ {t} : pc[u] = "idle"
  BY <1>1 DEF SerialInv, Mutex
<1>3. CASE FreshLoad
  BY <1>1, <1>3 DEF FreshLoad, Load, callerVars, Quiet, Idle, Serving, TypeOK
<1>4. CASE StartUnload /\ UNCHANGED bound
  BY <1>1, <1>4 DEF StartUnload, Quiet, Idle, Serving, TypeOK
<1>5. CASE FinishUnload /\ UNCHANGED bound
  BY <1>1, <1>5 DEF FinishUnload, Finish, Serving, TypeOK
<1>6. ASSUME NEW t \in Callers, Bind(t), UNCHANGED bound PROVE Serving'
  BY <1>1, <1>2, <1>6 DEF Bind, GoTo, Serving, TypeOK, Placed
<1>7. ASSUME NEW t \in Callers, Register(t), UNCHANGED bound PROVE Serving'
  <2>1. op[t] = "init" /\ svc = who[t] /\ svc \in bound /\ svc' = svc /\ who' = who /\ op' = op
    BY <1>1, <1>7 DEF Register, GoTo, Advance, Serving, TypeOK, Placed
  <2>2. \A u \in Threads \ {t} : pc'[u] = "idle"
    BY <1>1, <1>2, <1>7 DEF Register, GoTo, Advance, TypeOK
  <2> QED BY <1>1, <1>7, <2>1, <2>2 DEF Serving
<1>8. ASSUME NEW t \in Callers, RegisterFails(t), UNCHANGED bound PROVE Serving'
  BY <1>1, <1>2, <1>8 DEF RegisterFails, GoTo, Serving, TypeOK, Placed
<1>9. ASSUME NEW t \in Callers, SetFlag(t), UNCHANGED bound PROVE Serving'
  BY <1>1, <1>2, <1>9 DEF SetFlag, Advance, Serving, TypeOK, Placed
<1>10. ASSUME NEW t \in Threads, Removal(t), UNCHANGED bound PROVE Serving'
  <2>1. /\ pc[t] # "idle" /\ op[t] # "init" /\ at[t] \in Kinds
        /\ svc' = svc /\ who' = who /\ op' = op
    BY <1>10 DEF Removal, Check, Clear, Remove, RemoveFails, GoTo, Advance, Placed, Removing
  <2>2. \A u \in Threads \ {t} : pc'[u] = "idle"
    BY <1>2, <1>10, <2>1 DEF Removal, Check, Clear, Remove, RemoveFails, GoTo, Advance, TypeOK
  <2>3. ~removeFailed' => ~removeFailed
    BY <1>10 DEF Removal, Check, Clear, Remove, RemoveFails
  <2>4. \A k \in Kinds : os'[k] > 0 => os[k] > 0
    BY <1>10, <2>1 DEF Removal, Check, Clear, Remove, RemoveFails, TypeOK
  <2>5. ~removeFailed' /\ op[t] = "uninit" /\ pc'[t] = "succeed" => at'[t] = "end"
    BY <1>1, <1>10, <2>1 DEF Removal, Check, Clear, Remove, RemoveFails, GoTo, Advance,
       TypeOK, SerialInv, Honest
  <2> QED BY <1>1, <1>10, <2>1, <2>2, <2>3, <2>4, <2>5 DEF Serving
<1>11. ASSUME NEW t \in Callers, EndRequest(t) PROVE Serving'
  <2>1. \A u \in Threads : pc'[u] = "idle"
    BY <1>1, <1>2, <1>11 DEF EndRequest, Complete, Finish, TypeOK
  <2>2. UNCHANGED <<os, svc, removeFailed>> /\ bound' \subseteq bound
    BY <1>11 DEF EndRequest, Complete
  <2>3. CASE op[t] = "uninit" /\ ~removeFailed
    <3>1. pc[t] = "succeed" /\ at[t] = "end"
      BY <1>1, <1>11, <2>3 DEF EndRequest, Complete, Placed, Serving
    <3>2. \A k \in Kinds : os[k] = 0
      BY <1>1, <2>3, <3>1 DEF SerialInv, GoneSoFar, Before
    <3> QED BY <1>1, <2>1, <2>2, <3>2 DEF Serving, TypeOK
  <2>4. CASE op[t] # "uninit" \/ removeFailed
    BY <1>1, <1>11, <2>1, <2>2, <2>4 DEF EndRequest, Serving
  <2> QED BY <2>3, <2>4
<1>12. ASSUME NEW t \in Callers, NEW s \in Services, ServiceRequest(t, s) PROVE Serving'
  <2>1. \A u \in Threads : pc[u] = "idle"
    BY <1>12 DEF ServiceRequest, StartInit, StartUninit, Open, Quiet, Idle
  <2>2. UNCHANGED <<os, svc, removeFailed>> /\ alive[s]
    BY <1>12 DEF ServiceRequest, StartInit, StartUninit, Open
  <2>3. \A u \in Threads \ {t} : pc'[u] = "idle"
    BY <1>12, <2>1 DEF ServiceRequest, StartInit, StartUninit, Open, TypeOK
  <2>4. CASE StartInit(t, s) /\ bound' = bound \cup {s}
    <3>1. who'[t] = s /\ pc'[t] = "bind" /\ op'[t] = "init"
      BY <1>1, <2>4 DEF StartInit, Open, TypeOK
    <3> QED BY <1>1, <2>2, <2>3, <2>4, <3>1 DEF Serving
  <2>5. CASE StartUninit(t, s) /\ UNCHANGED bound
    <3>1. pc'[t] = "check" /\ op'[t] = "uninit"
      BY <1>1, <2>5 DEF StartUninit, Open, TypeOK
    <3> QED BY <1>1, <2>2, <2>3, <2>5, <3>1 DEF Serving
  <2> QED BY <1>12, <2>4, <2>5 DEF ServiceRequest
<1>13. CASE WithinRequest
  BY <1>4, <1>5, <1>6, <1>7, <1>8, <1>9, <1>10, <1>13 DEF WithinRequest, Removal
<1> QED BY <1>3, <1>11, <1>12, <1>13 DEF DriverStep

LEMMA DriverStepInv ==
  ASSUME MonitorInv, DriverFacts, DriverFacts', DriverStep
  PROVE  MonitorInv'
<1> USE DEF MonitorInv
<1>1. UNCHANGED <<proc, game, alive, left, npc, ev, held, rundown>>
  BY DEF DriverStep
<1>2. MonitorTypeOK'
  <2>1. gamePid' \in Pids \cup {None} /\ announced' \subseteq Pids /\ matched' \subseteq Pids
    BY DriverHistory DEF MonitorTypeOK
  <2>2. bound' \subseteq Services
    BY DEF DriverStep, FreshLoad, WithinRequest, EndRequest, ServiceRequest, MonitorTypeOK
  <2>3. rebound' \in BOOLEAN
    <3>1. rebound' = (rebound \/ (svc' # svc /\ \E n \in Notifiers : held[n] # None))
      BY DEF DriverStep
    <3> QED BY <3>1, Zenon
  <2>4. TypeOK'
    BY DEF DriverFacts, TypeInv
  <2> QED BY <1>1, <2>1, <2>2, <2>3, <2>4 DEF MonitorTypeOK
<1>3. Attended'
  BY <1>1 DEF Attended, Busy, OfProcess
<1>4. Chosen' /\ AnnouncedMatched'
  BY <1>1, DriverHistory DEF Chosen, AnnouncedMatched, Announcing, Busy
<1>5. Holding'
  BY <1>1 DEF DriverStep, Holding
<1>6. RundownBalanced'
  BY <1>1, SameBalance DEF DriverStep
<1> QED BY <1>2, <1>3, <1>4, <1>5, <1>6, DriverInside, DriverServing
-----------------------------------------------------------------------------
(* What a step of the world or of a routine leaves alone.                  *)
LEMMA SameServing ==
  ASSUME Serving, UNCHANGED driverVars, UNCHANGED <<alive, bound, left>>
  PROVE  Serving'
BY DEF Serving, driverVars

LEMMA KindsOfCall == "process" \in Kinds /\ (\A k \in Observed : k \in Kinds \ {"process"})
BY MonitorAssumption DEF MonitorAssumption, Kinds, Notify

(* The system calls a routine.                                             *)
LEMMA CallStep ==
  ASSUME MonitorInv, NEW n \in Notifiers, NEW k \in Kinds, NEW p \in Pids,
         NEW create \in BOOLEAN, Call(n, k, p, create),
         UNCHANGED <<driverVars, gamePid, alive, bound, left, rebound>>
  PROVE  /\ Inside' /\ Chosen' /\ AnnouncedMatched' /\ Holding' /\ RundownBalanced' /\ Serving'
         /\ npc' \in [Notifiers -> NotifierLabels]
         /\ ev' \in [Notifiers -> [kind : Kinds, pid : Pids \cup {None}, create : BOOLEAN]]
         /\ \A m \in Notifiers \ {n} : ev'[m] = ev[m] /\ npc'[m] = npc[m]
         /\ Busy(n)' /\ ev'[n] = [kind |-> k, pid |-> p, create |-> create]
<1> USE DEF MonitorInv
<1>1. /\ npc[n] = "idle" /\ os[k] > 0 /\ os' = os
      /\ UNCHANGED <<held, rundown, announced, matched>>
  BY DEF Call, Busy, driverVars
<1>2. npc' \in [Notifiers -> NotifierLabels] /\ npc'[n] \in {"check", "compare"}
      /\ (npc'[n] = "check" => k = "process")
  BY DEF Call, Step, MonitorTypeOK, NotifierLabels
<1>3. [kind |-> k, pid |-> p, create |-> create] \in
        [kind : Kinds, pid : Pids \cup {None}, create : BOOLEAN]
  OBVIOUS
<1>4. /\ ev' \in [Notifiers -> [kind : Kinds, pid : Pids \cup {None}, create : BOOLEAN]]
      /\ ev'[n] = [kind |-> k, pid |-> p, create |-> create]
  BY <1>3 DEF Call, MonitorTypeOK
<1>5. \A m \in Notifiers \ {n} : ev'[m] = ev[m] /\ npc'[m] = npc[m]
  BY DEF Call, Step, MonitorTypeOK
<1>6. Busy(n)'
  BY <1>2 DEF Busy
<1>7. Inside'
  BY <1>1, <1>2, <1>4, <1>5 DEF Inside, Busy
<1>8. Chosen'
  BY <1>1, <1>2, <1>5 DEF Chosen, Announcing
<1>9. AnnouncedMatched'
  BY <1>1 DEF AnnouncedMatched
<1>10. Holding'
  BY <1>1, <1>2, <1>5 DEF Holding, driverVars
<1>11. RundownBalanced'
  BY <1>1, SameBalance
<1>12. Serving'
  BY SameServing
<1> QED BY <1>2, <1>4, <1>5, <1>6, <1>7, <1>8, <1>9, <1>10, <1>11, <1>12

LEMMA SpawnInv ==
  ASSUME MonitorInv, DriverFacts', NEW p \in Pids, NEW g \in BOOLEAN, Spawn(p, g)
  PROVE  MonitorInv'
<1> USE DEF MonitorInv
<1>1. /\ UNCHANGED <<driverVars, gamePid, alive, bound, left, rebound>>
      /\ proc[p] = "free" /\ game' = [game EXCEPT ![p] = g]
      /\ TypeOK'
  BY DEF Spawn, DriverFacts, TypeInv
<1>2. game' \in [Pids -> BOOLEAN]
  BY <1>1, ExceptType DEF MonitorTypeOK
<1>3. ASSUME NEW n \in Notifiers, Call(n, "process", p, TRUE),
             proc' = [proc EXCEPT ![p] = "starting"]
      PROVE  MonitorInv'
  <2>1. TRUE \in BOOLEAN
    OBVIOUS
  <2>2. /\ Inside' /\ Chosen' /\ AnnouncedMatched' /\ Holding' /\ RundownBalanced' /\ Serving'
        /\ npc' \in [Notifiers -> NotifierLabels]
        /\ ev' \in [Notifiers -> [kind : Kinds, pid : Pids \cup {None}, create : BOOLEAN]]
        /\ \A m \in Notifiers \ {n} : ev'[m] = ev[m] /\ npc'[m] = npc[m]
        /\ ev'[n] = [kind |-> "process", pid |-> p, create |-> TRUE]
    BY <1>1, <1>3, <2>1, CallStep, KindsOfCall
  <2>3. /\ proc' \in [Pids -> {"free", "starting", "running", "ending"}]
        /\ proc'[p] = "starting" /\ \A q \in Pids \ {p} : proc'[q] = proc[q]
    BY <1>3 DEF MonitorTypeOK
  <2>4. MonitorTypeOK'
    BY <1>1, <1>2, <1>3, <2>2, <2>3 DEF MonitorTypeOK, Call
  <2>5. Attended'
    <3>1. ASSUME NEW m \in Notifiers \ {n}, Busy(m), ev[m].kind \in {"process", "image", "thread"}
          PROVE  ev[m].pid \in Pids \ {p}
      BY <1>1, <3>1 DEF Attended, Inside
    <3> QED BY <2>2, <2>3, <3>1 DEF Attended, Busy, OfProcess
  <2> QED BY <2>2, <2>4, <2>5
<1>4. CASE proc' = [proc EXCEPT ![p] = "running"] /\ os["process"] = 0 /\ UNCHANGED notifyVars
  <2>1. /\ proc' \in [Pids -> {"free", "starting", "running", "ending"}]
        /\ \A q \in Pids \ {p} : proc'[q] = proc[q]
    BY <1>4 DEF MonitorTypeOK
  <2>2. MonitorTypeOK'
    BY <1>1, <1>2, <1>4, <2>1 DEF MonitorTypeOK, notifyVars
  <2>3. Attended'
    <3>1. ASSUME NEW m \in Notifiers, Busy(m), ev[m].kind \in {"process", "image", "thread"}
          PROVE  ev[m].pid \in Pids \ {p}
      BY <1>1, <3>1 DEF Attended, Inside
    <3> QED BY <1>4, <2>1, <3>1 DEF Attended, Busy, OfProcess, notifyVars
  <2>4. Inside' /\ Chosen' /\ AnnouncedMatched' /\ Holding'
    BY <1>1, <1>4 DEF Inside, Chosen, Announcing, AnnouncedMatched, Holding, Busy,
       notifyVars, driverVars
  <2>5. RundownBalanced' /\ Serving'
    BY <1>1, <1>4, SameBalance, SameServing DEF notifyVars
  <2> QED BY <2>2, <2>3, <2>4, <2>5
<1> QED BY <1>3, <1>4 DEF Spawn

LEMMA ExitInv ==
  ASSUME MonitorInv, DriverFacts', NEW p \in Pids, Exit(p)
  PROVE  MonitorInv'
<1> USE DEF MonitorInv
<1>1. /\ UNCHANGED <<driverVars, gamePid, alive, bound, left, rebound>>
      /\ TypeOK'
  BY DEF Exit, DriverFacts, TypeInv
<1>2. ASSUME NEW m \in Notifiers, Busy(m), ev[m].kind \in {"process", "image", "thread"}
      PROVE  ev[m].pid \in Pids \ {p}
  BY <1>2 DEF Exit, Inside
<1>3. ASSUME NEW n \in Notifiers, Call(n, "process", p, FALSE),
             proc' = [proc EXCEPT ![p] = "ending"], UNCHANGED game
      PROVE  MonitorInv'
  <2>1. FALSE \in BOOLEAN
    OBVIOUS
  <2>2. /\ Inside' /\ Chosen' /\ AnnouncedMatched' /\ Holding' /\ RundownBalanced' /\ Serving'
        /\ npc' \in [Notifiers -> NotifierLabels]
        /\ ev' \in [Notifiers -> [kind : Kinds, pid : Pids \cup {None}, create : BOOLEAN]]
        /\ \A m \in Notifiers \ {n} : ev'[m] = ev[m] /\ npc'[m] = npc[m]
        /\ ev'[n] = [kind |-> "process", pid |-> p, create |-> FALSE]
    BY <1>1, <1>3, <2>1, CallStep, KindsOfCall
  <2>3. /\ proc' \in [Pids -> {"free", "starting", "running", "ending"}]
        /\ proc'[p] = "ending" /\ \A q \in Pids \ {p} : proc'[q] = proc[q]
    BY <1>3 DEF MonitorTypeOK
  <2>4. MonitorTypeOK'
    BY <1>1, <1>3, <2>2, <2>3 DEF MonitorTypeOK, Call
  <2>5. Attended'
    BY <1>2, <2>2, <2>3 DEF Attended, Busy, OfProcess
  <2> QED BY <2>2, <2>4, <2>5
<1>4. CASE /\ proc' = [proc EXCEPT ![p] = "free"] /\ game' = [game EXCEPT ![p] = FALSE]
           /\ UNCHANGED notifyVars
  <2>1. /\ proc' \in [Pids -> {"free", "starting", "running", "ending"}]
        /\ \A q \in Pids \ {p} : proc'[q] = proc[q]
    BY <1>4 DEF MonitorTypeOK
  <2>2. game' \in [Pids -> BOOLEAN]
    BY <1>4, ExceptType DEF MonitorTypeOK
  <2>3. MonitorTypeOK'
    BY <1>1, <1>4, <2>1, <2>2 DEF MonitorTypeOK, notifyVars
  <2>4. Attended'
    BY <1>2, <1>4, <2>1 DEF Attended, Busy, OfProcess, notifyVars
  <2>5. Inside' /\ Chosen' /\ AnnouncedMatched' /\ Holding'
    BY <1>1, <1>4 DEF Inside, Chosen, Announcing, AnnouncedMatched, Holding, Busy,
       notifyVars, driverVars
  <2>6. RundownBalanced' /\ Serving'
    BY <1>1, <1>4, SameBalance, SameServing DEF notifyVars
  <2> QED BY <2>3, <2>4, <2>5, <2>6
<1> QED BY <1>3, <1>4 DEF Exit

LEMMA ObserveInv ==
  ASSUME MonitorInv, DriverFacts', NEW n \in Notifiers, NEW k \in Observed, NEW p \in Pids,
         Observe(n, k, p)
  PROVE  MonitorInv'
<1> USE DEF MonitorInv
<1>1. /\ UNCHANGED <<driverVars, gamePid, proc, game, alive, bound, left, rebound>>
      /\ TypeOK' /\ Call(n, k, p, FALSE)
  BY DEF Observe, DriverFacts, TypeInv, worldVars
<1>2. k \in Kinds \ {"process"} /\ FALSE \in BOOLEAN
  BY KindsOfCall
<1>3. /\ Inside' /\ Chosen' /\ AnnouncedMatched' /\ Holding' /\ RundownBalanced' /\ Serving'
      /\ npc' \in [Notifiers -> NotifierLabels]
      /\ ev' \in [Notifiers -> [kind : Kinds, pid : Pids \cup {None}, create : BOOLEAN]]
      /\ \A m \in Notifiers \ {n} : ev'[m] = ev[m] /\ npc'[m] = npc[m]
      /\ ev'[n] = [kind |-> k, pid |-> p, create |-> FALSE]
  BY <1>1, <1>2, CallStep
<1>4. MonitorTypeOK'
  BY <1>1, <1>3 DEF MonitorTypeOK, Call
<1>5. Attended'
  <2>1. k \in {"image", "thread"} => proc[p] = "running"
    BY DEF Observe
  <2> QED BY <1>1, <1>2, <1>3, <2>1 DEF Attended, Busy, OfProcess
<1> QED BY <1>3, <1>4, <1>5
-----------------------------------------------------------------------------
(* A routine goes on, or returns: where it was needed, it is no longer.    *)
LEMMA GoOnStep ==
  ASSUME MonitorInv, NEW n \in Notifiers, NEW l \in NotifierLabels \ {"idle"}, GoOn(n, l),
         Busy(n), l \in {"check", "lookup"} => npc[n] \in {"check", "lookup"},
         UNCHANGED driverVars
  PROVE  /\ Inside' /\ Attended'
         /\ npc' \in [Notifiers -> NotifierLabels]
         /\ npc'[n] = l /\ \A m \in Notifiers \ {n} : npc'[m] = npc[m]
<1> USE DEF MonitorInv
<1>1. /\ npc' \in [Notifiers -> NotifierLabels]
      /\ npc'[n] = l /\ \A m \in Notifiers \ {n} : npc'[m] = npc[m]
      /\ UNCHANGED <<ev, proc, game, os>>
  BY DEF GoOn, Step, MonitorTypeOK, driverVars
<1>2. \A m \in Notifiers : Busy(m)' <=> Busy(m)
  BY <1>1 DEF Busy
<1>3. Inside'
  BY <1>1, <1>2 DEF Inside
<1>4. Attended'
  BY <1>1, <1>2 DEF Attended, OfProcess
<1> QED BY <1>1, <1>3, <1>4

LEMMA LeaveStep ==
  ASSUME MonitorInv, NEW n \in Notifiers, Leave(n), Busy(n), UNCHANGED driverVars
  PROVE  /\ Inside' /\ Attended'
         /\ npc' \in [Notifiers -> NotifierLabels]
         /\ ev' \in [Notifiers -> [kind : Kinds, pid : Pids \cup {None}, create : BOOLEAN]]
         /\ proc' \in [Pids -> {"free", "starting", "running", "ending"}]
         /\ game' \in [Pids -> BOOLEAN]
         /\ npc'[n] = "idle"
         /\ \A m \in Notifiers \ {n} : npc'[m] = npc[m] /\ ev'[m] = ev[m]
<1> USE DEF MonitorInv
<1>1. /\ npc' \in [Notifiers -> NotifierLabels]
      /\ npc'[n] = "idle" /\ \A m \in Notifiers \ {n} : npc'[m] = npc[m]
  BY DEF Leave, Step, MonitorTypeOK, NotifierLabels
<1>2. NoEvent \in [kind : Kinds, pid : Pids \cup {None}, create : BOOLEAN]
  <2>1. "ob" \in Kinds /\ FALSE \in BOOLEAN
    BY DEF Kinds
  <2> QED BY <2>1 DEF NoEvent
<1>3. /\ ev' \in [Notifiers -> [kind : Kinds, pid : Pids \cup {None}, create : BOOLEAN]]
      /\ \A m \in Notifiers \ {n} : ev'[m] = ev[m]
  BY <1>2 DEF Leave, MonitorTypeOK
<1>4. Inside'
  BY <1>1, <1>3 DEF Inside, Busy, driverVars
<1>5. CASE ev[n].kind = "process"
  <2>1. ev[n].pid \in Pids /\ proc[ev[n].pid] \in {"starting", "ending"}
    BY <1>5 DEF Inside, Attended
  <2>2. /\ proc' \in [Pids -> {"free", "starting", "running", "ending"}]
        /\ \A q \in Pids \ {ev[n].pid} : proc'[q] = proc[q]
    BY <1>5, <2>1 DEF Leave, MonitorTypeOK
  <2>3. game' \in [Pids -> BOOLEAN]
    <3>1. (game[ev[n].pid] /\ ev[n].create) \in BOOLEAN
      BY Zenon
    <3>2. game' = [game EXCEPT ![ev[n].pid] = game[ev[n].pid] /\ ev[n].create]
      BY <1>5 DEF Leave
    <3> QED BY <2>1, <3>1, <3>2, ExceptType DEF MonitorTypeOK
  <2>4. \A m \in Notifiers \ {n} : Busy(m) /\ ev[m].kind \in {"process", "image", "thread"} =>
           ev[m].pid \in Pids \ {ev[n].pid}
    BY <1>5, <2>1 DEF Inside, Attended, OfProcess
  <2>5. Attended'
    BY <1>1, <1>3, <2>2, <2>4 DEF Attended, Busy, OfProcess
  <2> QED BY <1>1, <1>3, <1>4, <2>2, <2>3, <2>5
<1>6. CASE ev[n].kind # "process"
  <2>1. UNCHANGED <<proc, game>>
    BY <1>6 DEF Leave
  <2>2. Attended'
    BY <1>1, <1>3, <2>1 DEF Attended, Busy, OfProcess
  <2> QED BY <1>1, <1>3, <1>4, <2>1, <2>2 DEF MonitorTypeOK
<1> QED BY <1>5, <1>6

(* What a routine that holds no reference, and takes none, leaves alone.   *)
LEMMA NoReference ==
  ASSUME MonitorInv, NEW n \in Notifiers,
         UNCHANGED <<driverVars, held, rundown, alive, bound, left, rebound>>,
         \A m \in Notifiers \ {n} : npc'[m] = npc[m],
         npc'[n] \in {"post", "release"} <=> npc[n] \in {"post", "release"}
  PROVE  Holding' /\ RundownBalanced' /\ Serving'
<1> USE DEF MonitorInv
<1>1. Holding'
  BY DEF Holding, driverVars
<1>2. RundownBalanced'
  BY SameBalance
<1>3. Serving'
  BY SameServing
<1> QED BY <1>1, <1>2, <1>3

LEMMA ReadGamePidInv ==
  ASSUME MonitorInv, DriverFacts', NEW n \in Notifiers, ReadGamePid(n)
  PROVE  MonitorInv'
<1> USE DEF MonitorInv
<1>1. /\ UNCHANGED <<driverVars, gamePid, alive, bound, left, rebound, held, rundown,
                     announced, matched>>
      /\ npc[n] = "check" /\ Busy(n) /\ TypeOK'
  BY DEF ReadGamePid, Busy, DriverFacts, TypeInv
<1>2. PICK l \in {"lookup", "compare"} : GoOn(n, l)
  BY DEF ReadGamePid
<1>3. /\ Inside' /\ Attended'
      /\ npc' \in [Notifiers -> NotifierLabels]
      /\ npc'[n] = l /\ \A m \in Notifiers \ {n} : npc'[m] = npc[m]
  BY <1>1, <1>2, GoOnStep DEF NotifierLabels
<1>4. MonitorTypeOK'
  BY <1>1, <1>2, <1>3 DEF MonitorTypeOK, GoOn
<1>5. Chosen' /\ AnnouncedMatched'
  BY <1>1, <1>2, <1>3 DEF Chosen, Announcing, AnnouncedMatched, GoOn
<1>6. Holding' /\ RundownBalanced' /\ Serving'
  BY <1>1, <1>3, NoReference
<1> QED BY <1>3, <1>4, <1>5, <1>6

LEMMA LookupGameInv ==
  ASSUME MonitorInv, DriverFacts', NEW n \in Notifiers, LookupGame(n)
  PROVE  MonitorInv'
<1> USE DEF MonitorInv
<1>1. /\ UNCHANGED <<driverVars, alive, bound, left, rebound, held, rundown, announced>>
      /\ npc[n] = "lookup" /\ Busy(n) /\ TypeOK'
      /\ ev[n].pid \in Pids /\ ev[n].kind = "process"
  BY DEF LookupGame, Busy, DriverFacts, TypeInv, Inside
<1>2. CASE Leave(n) /\ UNCHANGED <<gamePid, matched>>
  <2>1. /\ Inside' /\ Attended'
        /\ npc' \in [Notifiers -> NotifierLabels]
        /\ ev' \in [Notifiers -> [kind : Kinds, pid : Pids \cup {None}, create : BOOLEAN]]
        /\ proc' \in [Pids -> {"free", "starting", "running", "ending"}]
        /\ game' \in [Pids -> BOOLEAN]
        /\ npc'[n] = "idle"
        /\ \A m \in Notifiers \ {n} : npc'[m] = npc[m] /\ ev'[m] = ev[m]
    BY <1>1, <1>2, LeaveStep
  <2>2. MonitorTypeOK'
    BY <1>1, <1>2, <2>1 DEF MonitorTypeOK
  <2>3. Chosen' /\ AnnouncedMatched'
    BY <1>1, <1>2, <2>1 DEF Chosen, Announcing, AnnouncedMatched
  <2>4. Holding' /\ RundownBalanced' /\ Serving'
    BY <1>1, <2>1, NoReference
  <2> QED BY <2>1, <2>2, <2>3, <2>4
<1>3. CASE /\ GoOn(n, "compare")
           /\ gamePid' = IF game[ev[n].pid] THEN ev[n].pid ELSE gamePid
           /\ matched' = IF game[ev[n].pid] THEN matched \cup {ev[n].pid} ELSE matched
  <2>1. /\ Inside' /\ Attended'
        /\ npc' \in [Notifiers -> NotifierLabels]
        /\ npc'[n] = "compare" /\ \A m \in Notifiers \ {n} : npc'[m] = npc[m]
        /\ UNCHANGED <<ev, proc, game>>
    BY <1>1, <1>3, GoOnStep DEF NotifierLabels, GoOn
  <2>2. MonitorTypeOK'
    BY <1>1, <1>3, <2>1 DEF MonitorTypeOK
  <2>3. Chosen' /\ AnnouncedMatched'
    BY <1>1, <1>3, <2>1 DEF Chosen, Announcing, AnnouncedMatched
  <2>4. Holding' /\ RundownBalanced' /\ Serving'
    BY <1>1, <2>1, NoReference
  <2> QED BY <2>1, <2>2, <2>3, <2>4
<1> QED BY <1>2, <1>3 DEF LookupGame

LEMMA CompareGameInv ==
  ASSUME MonitorInv, DriverFacts', NEW n \in Notifiers, CompareGame(n)
  PROVE  MonitorInv'
<1> USE DEF MonitorInv
<1>1. /\ UNCHANGED <<driverVars, gamePid, alive, bound, left, rebound, held, rundown,
                     announced, matched>>
      /\ npc[n] = "compare" /\ Busy(n) /\ TypeOK'
      /\ ev[n].pid \in Pids /\ ev[n].kind \in Kinds
  BY DEF CompareGame, Busy, DriverFacts, TypeInv, Inside, MonitorTypeOK
<1>2. CASE (gamePid # ev[n].pid \/ ev[n].kind = "thread") /\ Leave(n)
  <2>1. /\ Inside' /\ Attended'
        /\ npc' \in [Notifiers -> NotifierLabels]
        /\ ev' \in [Notifiers -> [kind : Kinds, pid : Pids \cup {None}, create : BOOLEAN]]
        /\ proc' \in [Pids -> {"free", "starting", "running", "ending"}]
        /\ game' \in [Pids -> BOOLEAN]
        /\ npc'[n] = "idle"
        /\ \A m \in Notifiers \ {n} : npc'[m] = npc[m] /\ ev'[m] = ev[m]
    BY <1>1, <1>2, LeaveStep
  <2>2. MonitorTypeOK'
    BY <1>1, <2>1 DEF MonitorTypeOK
  <2>3. Chosen' /\ AnnouncedMatched'
    <3>1. ~Announcing(n, gamePid)
      BY <1>2 DEF Announcing
    <3> QED BY <1>1, <2>1, <3>1 DEF Chosen, Announcing, AnnouncedMatched
  <2>4. Holding' /\ RundownBalanced' /\ Serving'
    BY <1>1, <2>1, NoReference
  <2> QED BY <2>1, <2>2, <2>3, <2>4
<1>3. CASE gamePid = ev[n].pid /\ GoOn(n, "acquire")
  <2>1. /\ Inside' /\ Attended'
        /\ npc' \in [Notifiers -> NotifierLabels]
        /\ npc'[n] = "acquire" /\ \A m \in Notifiers \ {n} : npc'[m] = npc[m]
        /\ UNCHANGED <<ev, proc, game>>
    BY <1>1, <1>3, GoOnStep DEF NotifierLabels, GoOn
  <2>2. MonitorTypeOK'
    BY <1>1, <2>1 DEF MonitorTypeOK
  <2>3. gamePid \in matched
    BY <1>1, <1>3, MonitorAssumption DEF Chosen, MonitorAssumption
  <2>4. ev[n].kind \in {"image", "thread"} => ev[n].pid \in announced
    <3> SUFFICES ASSUME ev[n].kind \in {"image", "thread"} PROVE gamePid \in announced
      BY <1>3
    <3>1. proc[gamePid] = "running"
      BY <1>1, <1>3 DEF Attended
    <3>2. \A m \in Notifiers : ~Announcing(m, gamePid)
      BY <3>1 DEF Announcing, Attended, Busy
    <3> QED BY <1>1, <1>3, <3>2, MonitorAssumption DEF Chosen, MonitorAssumption
  <2>5. Chosen' /\ AnnouncedMatched'
    BY <1>1, <1>3, <2>1, <2>3, <2>4 DEF Chosen, Announcing, AnnouncedMatched
  <2>6. Holding' /\ RundownBalanced' /\ Serving'
    BY <1>1, <2>1, NoReference
  <2> QED BY <2>1, <2>2, <2>5, <2>6
<1> QED BY <1>2, <1>3 DEF CompareGame

(* Acquire and Release account for one reference to g_service.             *)
LEMMA AcquireInv ==
  ASSUME MonitorInv, DriverFacts, DriverFacts', NEW n \in Notifiers, Acquire(n)
  PROVE  MonitorInv'
<1> USE DEF MonitorInv
<1>1. /\ UNCHANGED <<driverVars, gamePid, alive, bound, left, rebound, announced, matched>>
      /\ npc[n] = "acquire" /\ Busy(n) /\ TypeOK' /\ GoOn(n, "post")
      /\ held' = [held EXCEPT ![n] = svc]
      /\ rundown' = [rundown EXCEPT ![svc] = IF alive[svc] THEN @ + 1 ELSE @]
  BY DEF Acquire, Busy, DriverFacts, TypeInv
<1>2. svc \in Services /\ svc' = svc
  <2>1. os[ev[n].kind] > 0 /\ ev[n].kind \in Kinds
    BY <1>1 DEF Inside, MonitorTypeOK
  <2> QED BY <1>1, <2>1 DEF DriverFacts, BoundBeforeInstalled, MonitorTypeOK, TypeOK, driverVars
<1>3. /\ Inside' /\ Attended'
      /\ npc' \in [Notifiers -> NotifierLabels]
      /\ npc'[n] = "post" /\ \A m \in Notifiers \ {n} : npc'[m] = npc[m]
      /\ UNCHANGED <<ev, proc, game>>
  BY <1>1, GoOnStep DEF NotifierLabels, GoOn
<1>4. /\ held' \in [Notifiers -> Services \cup {None}] /\ rundown' \in [Services -> Int]
      /\ held'[n] = svc /\ \A m \in Notifiers \ {n} : held'[m] = held[m]
      /\ rundown'[svc] = IF alive[svc] THEN rundown[svc] + 1 ELSE rundown[svc]
      /\ \A s \in Services \ {svc} : rundown'[s] = rundown[s]
  BY <1>1, <1>2 DEF MonitorTypeOK
<1>5. MonitorTypeOK'
  BY <1>1, <1>3, <1>4 DEF MonitorTypeOK
<1>6. Chosen' /\ AnnouncedMatched'
  BY <1>1, <1>3 DEF Chosen, Announcing, AnnouncedMatched
<1>7. Holding'
  BY <1>1, <1>2, <1>3, <1>4, DriverAssumption DEF Holding, DriverAssumption
<1>8. RundownBalanced'
  <2>1. held[n] = None
    BY <1>1 DEF Holding
  <2>2. /\ Cardinality(HeldBy(held', svc)) = Cardinality(HeldBy(held, svc)) + 1
        /\ \A s \in Services \ {svc} : HeldBy(held', s) = HeldBy(held, s)
    BY <1>2, <1>4, <2>1, OneMore
  <2> QED BY <1>1, <1>2, <1>4, <2>2, BalanceIs
<1>9. Serving'
  BY <1>1, SameServing
<1> QED BY <1>3, <1>5, <1>6, <1>7, <1>8, <1>9

LEMMA PostInv ==
  ASSUME MonitorInv, DriverFacts', NEW n \in Notifiers, Post(n)
  PROVE  MonitorInv'
<1> USE DEF MonitorInv
<1>1. /\ UNCHANGED <<driverVars, gamePid, alive, bound, left, rebound, held, rundown, matched>>
      /\ npc[n] = "post" /\ Busy(n) /\ TypeOK' /\ GoOn(n, "release")
      /\ announced' = IF ev[n].kind = "process" THEN announced \cup {ev[n].pid} ELSE announced
      /\ ev[n].pid \in matched
  BY DEF Post, Busy, DriverFacts, TypeInv, Chosen
<1>2. /\ Inside' /\ Attended'
      /\ npc' \in [Notifiers -> NotifierLabels]
      /\ npc'[n] = "release" /\ \A m \in Notifiers \ {n} : npc'[m] = npc[m]
      /\ UNCHANGED <<ev, proc, game>>
  BY <1>1, GoOnStep DEF NotifierLabels, GoOn
<1>3. MonitorTypeOK'
  BY <1>1, <1>2 DEF MonitorTypeOK
<1>4. Chosen' /\ AnnouncedMatched'
  BY <1>1, <1>2 DEF Chosen, Announcing, AnnouncedMatched
<1>5. Holding' /\ RundownBalanced' /\ Serving'
  BY <1>1, <1>2, NoReference
<1> QED BY <1>2, <1>3, <1>4, <1>5

LEMMA ReleaseInv ==
  ASSUME MonitorInv, DriverFacts, DriverFacts', NEW n \in Notifiers, Release(n)
  PROVE  MonitorInv'
<1> USE DEF MonitorInv
<1>1. /\ UNCHANGED <<driverVars, gamePid, alive, bound, left, rebound, announced, matched>>
      /\ npc[n] = "release" /\ Busy(n) /\ TypeOK' /\ Leave(n)
      /\ held' = [held EXCEPT ![n] = None]
      /\ rundown' = [rundown EXCEPT ![svc] = IF alive[svc] THEN rundown[svc] - 1 ELSE rundown[svc]]
  BY DEF Release, Busy, DriverFacts, TypeInv
<1>2. svc \in Services /\ svc' = svc
  <2>1. os[ev[n].kind] > 0 /\ ev[n].kind \in Kinds
    BY <1>1 DEF Inside, MonitorTypeOK
  <2> QED BY <1>1, <2>1 DEF DriverFacts, BoundBeforeInstalled, MonitorTypeOK, TypeOK, driverVars
<1>3. /\ Inside' /\ Attended'
      /\ npc' \in [Notifiers -> NotifierLabels]
      /\ ev' \in [Notifiers -> [kind : Kinds, pid : Pids \cup {None}, create : BOOLEAN]]
      /\ proc' \in [Pids -> {"free", "starting", "running", "ending"}]
      /\ game' \in [Pids -> BOOLEAN]
      /\ npc'[n] = "idle"
      /\ \A m \in Notifiers \ {n} : npc'[m] = npc[m] /\ ev'[m] = ev[m]
  BY <1>1, LeaveStep
<1>4. /\ held' \in [Notifiers -> Services \cup {None}] /\ rundown' \in [Services -> Int]
      /\ held'[n] = None /\ \A m \in Notifiers \ {n} : held'[m] = held[m]
      /\ rundown'[svc] = IF alive[svc] THEN rundown[svc] - 1 ELSE rundown[svc]
      /\ \A s \in Services \ {svc} : rundown'[s] = rundown[s]
  BY <1>1, <1>2 DEF MonitorTypeOK
<1>5. MonitorTypeOK'
  BY <1>1, <1>3, <1>4 DEF MonitorTypeOK
<1>6. Chosen' /\ AnnouncedMatched'
  BY <1>1, <1>3 DEF Chosen, Announcing, AnnouncedMatched
<1>7. Holding'
  BY <1>1, <1>2, <1>3, <1>4 DEF Holding
<1>8. RundownBalanced'
  <2> SUFFICES ASSUME ~rebound PROVE RundownBalanced'
    BY <1>1, BalanceIs
  <2>1. held[n] = svc
    BY <1>1 DEF Holding
  <2>2. /\ Cardinality(HeldBy(held', svc)) \in Nat
        /\ Cardinality(HeldBy(held, svc)) = Cardinality(HeldBy(held', svc)) + 1
        /\ \A s \in Services \ {svc} : HeldBy(held, s) = HeldBy(held', s)
    BY <1>2, <1>4, <2>1, OneMore
  <2>3. rundown[svc] \in Int /\ (alive[svc] => rundown[svc] = Cardinality(HeldBy(held, svc)))
    BY <1>2, BalanceIs DEF MonitorTypeOK
  <2>4. alive[svc] => rundown'[svc] = Cardinality(HeldBy(held', svc))
    BY <1>4, <2>2, <2>3
  <2> QED BY <1>1, <1>2, <1>4, <2>2, <2>4, BalanceIs
<1>9. Serving'
  BY <1>1, SameServing
<1> QED BY <1>3, <1>5, <1>6, <1>7, <1>8, <1>9
-----------------------------------------------------------------------------
LEMMA ExitServiceInv ==
  ASSUME MonitorInv, DriverFacts', NEW s \in Services, ExitService(s)
  PROVE  MonitorInv'
<1> USE DEF MonitorInv
<1>1. /\ UNCHANGED <<driverVars, gamePid, proc, game, npc, ev, held, rundown, announced, matched,
                     bound, rebound>>
      /\ alive' = [alive EXCEPT ![s] = FALSE] /\ left' = (left \/ s \in bound) /\ TypeOK'
  BY DEF ExitService, DriverFacts, TypeInv, notifyVars
<1>2. alive' \in [Services -> BOOLEAN] /\ left' \in BOOLEAN
  <2>1. alive' \in [Services -> BOOLEAN]
    BY <1>1, ExceptType DEF MonitorTypeOK
  <2>2. left' \in BOOLEAN
    BY <1>1, Zenon
  <2> QED BY <2>1, <2>2
<1>3. \A u \in Services : alive'[u] <=> alive[u] /\ u # s
  BY <1>1 DEF MonitorTypeOK
<1>4. MonitorTypeOK'
  BY <1>1, <1>2 DEF MonitorTypeOK
<1>5. Inside' /\ Attended' /\ Chosen' /\ AnnouncedMatched' /\ Holding'
  BY <1>1 DEF Inside, Attended, Chosen, Announcing, AnnouncedMatched, Holding, Busy, OfProcess,
     driverVars
<1>6. RundownBalanced'
  BY <1>1, <1>3, SameBalance
<1>7. Serving'
  <2>1. ~Overlap /\ ~left' => \A u \in bound' : alive'[u]
    BY <1>1, <1>3 DEF Serving, MonitorTypeOK
  <2> QED BY <1>1, <2>1 DEF Serving, driverVars
<1> QED BY <1>4, <1>5, <1>6, <1>7

LEMMA MonitorInvStep ==
  ASSUME MonitorInv, DriverFacts, DriverFacts', [MonitorNext]_vars
  PROVE  MonitorInv'
<1>1. CASE DriverStep
  BY <1>1, DriverStepInv
<1>2. ASSUME NEW p \in Pids, Exit(p) \/ \E g \in BOOLEAN : Spawn(p, g) PROVE MonitorInv'
  BY <1>2, ExitInv, SpawnInv
<1>3. ASSUME NEW n \in Notifiers, Routine(n) PROVE MonitorInv'
  BY <1>3, ReadGamePidInv, LookupGameInv, CompareGameInv, AcquireInv, PostInv, ReleaseInv
  DEF Routine
<1>4. ASSUME NEW n \in Notifiers, NEW k \in Observed, NEW p \in Pids, Observe(n, k, p)
      PROVE  MonitorInv'
  BY <1>4, ObserveInv
<1>5. ASSUME NEW s \in Services, ExitService(s) PROVE MonitorInv'
  BY <1>5, ExitServiceInv
<1>6. CASE UNCHANGED vars
  <2>1. UNCHANGED <<driverVars, gamePid, proc, game, alive, bound, left, npc, ev, held, rundown,
                    announced, matched, rebound>>
    BY <1>6 DEF vars, worldVars, notifyVars
  <2>2. MonitorTypeOK'
    BY <2>1 DEF MonitorInv, MonitorTypeOK, DriverFacts, TypeInv
  <2>3. (Inside /\ Attended /\ Chosen /\ AnnouncedMatched /\ Holding)'
    BY <2>1 DEF MonitorInv, Inside, Attended, Chosen, Announcing, AnnouncedMatched, Holding,
       Busy, OfProcess, driverVars
  <2>4. RundownBalanced' /\ Serving'
    BY <2>1, SameBalance, SameServing DEF MonitorInv
  <2> QED BY <2>2, <2>3, <2>4 DEF MonitorInv
<1> QED BY <1>1, <1>2, <1>3, <1>4, <1>5, <1>6 DEF MonitorNext

LEMMA DriverFactsHold == MonitorSpec => []DriverFacts
<1>1. CASE Overlap
  <2>1. TypeInv /\ BoundBeforeInstalled => DriverFacts
    BY <1>1 DEF DriverFacts
  <2> QED BY <2>1, MonitorImplementsDriver, TypeInvariant, BoundBeforeInstalledHolds, PTL
<1>2. CASE ~Overlap
  <2>1. TypeInv /\ BoundBeforeInstalled /\ SerialInv => DriverFacts
    BY DEF DriverFacts
  <2>2. Spec => []SerialInv
    BY <1>2, SerialInvariant
  <2> QED BY <2>1, <2>2, MonitorImplementsDriver, TypeInvariant, BoundBeforeInstalledHolds, PTL
<1> QED BY <1>1, <1>2

LEMMA MonitorInvariant == MonitorSpec => []MonitorInv
<1>1. MonitorInit => MonitorInv
  BY MonitorInitInv
<1>2. MonitorInv /\ DriverFacts /\ DriverFacts' /\ [MonitorNext]_vars => MonitorInv'
  BY MonitorInvStep
<1> QED BY <1>1, <1>2, DriverFactsHold, PTL DEF MonitorSpec

(* Every variable keeps its type, the driver's and the world's.            *)
THEOREM MonitorTypeCorrect == MonitorSpec => []MonitorTypeOK
<1>1. MonitorInv => MonitorTypeOK
  BY DEF MonitorInv
<1> QED BY <1>1, MonitorInvariant, PTL

(* No process is reported as the game whose name did not match.            *)
THEOREM AnnouncedMatchedHolds == MonitorSpec => []AnnouncedMatched
<1>1. MonitorInv => AnnouncedMatched
  BY DEF MonitorInv
<1> QED BY <1>1, MonitorInvariant, PTL

(* The first event of the game a service sees is the game process.         *)
THEOREM GameEventFirstHolds == MonitorSpec => []GameEventFirst
<1>1. MonitorInv => GameEventFirst
  BY DEF MonitorInv, Chosen, GameEventFirst
<1> QED BY <1>1, MonitorInvariant, PTL

(* References to a living service are given back, all of them and no more. *)
THEOREM RundownBalancedHolds == MonitorSpec => []RundownBalanced
<1>1. MonitorInv => RundownBalanced
  BY DEF MonitorInv
<1> QED BY <1>1, MonitorInvariant, PTL

(* A routine never attaches to a service that has exited, when requests    *)
(* come one at a time and each service sends UNINITIALIZE before it exits. *)
THEOREM LiveTargetHolds == MonitorSpec => []LiveTarget
<1>1. MonitorInv => LiveTarget
  <2> SUFFICES ASSUME MonitorInv, ~Overlap, ~left, ~removeFailed, NEW n \in Notifiers,
                      npc[n] \in {"post", "release"}
               PROVE  alive[svc]
    BY DEF LiveTarget
  <2>1. ev[n].kind \in Kinds /\ os[ev[n].kind] > 0
    BY DEF MonitorInv, MonitorTypeOK, Inside, Busy
  <2>2. svc \in bound
    BY <2>1 DEF MonitorInv, Serving
  <2> QED BY <2>2 DEF MonitorInv, Serving
<1> QED BY <1>1, MonitorInvariant, PTL

(* No thread is inside the image when it is unloaded.                      *)
THEOREM NobodyInsideHolds == MonitorSpec => []NobodyInsideUnloadedImage
<1>1. MonitorInv /\ UnloadClean => NobodyInsideUnloadedImage
  BY DEF MonitorInv, MonitorTypeOK, Inside, UnloadClean, NobodyInsideUnloadedImage
<1> QED BY <1>1, MonitorInvariant, MonitorImplementsDriver, UnloadCleanHolds, PTL

(* Once settled, the choice of the game stands until the next load.        *)
THEOREM GamePidSettlesHolds == MonitorSpec => GamePidSettles
<1>1. MonitorTypeOK /\ [MonitorNext]_vars =>
        [Settled => (Settled' /\ gamePid' = gamePid) \/ (~loaded /\ loaded')]_vars
  <2> SUFFICES ASSUME MonitorTypeOK, MonitorNext, Settled
               PROVE  (Settled' /\ gamePid' = gamePid) \/ (~loaded /\ loaded')
    OBVIOUS
  <2>1. CASE DriverStep
    BY <2>1 DEF DriverStep, FreshLoad, Load, WithinRequest, EndRequest, ServiceRequest, Settled
  <2>2. ASSUME NEW n \in Notifiers, NEW k, NEW p, NEW c, Call(n, k, p, c), gamePid' = gamePid
        PROVE  Settled'
    BY <2>2 DEF Call, Step, Settled, MonitorTypeOK
  <2>3. ASSUME NEW p \in Pids, Exit(p) \/ \E g \in BOOLEAN : Spawn(p, g)
        PROVE  Settled' /\ gamePid' = gamePid
    <3>1. CASE UNCHANGED notifyVars
      BY <2>3, <3>1 DEF Exit, Spawn, Settled, notifyVars
    <3> QED BY <2>2, <2>3, <3>1 DEF Exit, Spawn
  <2>4. ASSUME NEW n \in Notifiers, Routine(n) PROVE Settled' /\ gamePid' = gamePid
    BY <2>4 DEF Routine, ReadGamePid, LookupGame, CompareGame, Acquire, Post, Release,
       GoOn, Leave, Step, Settled, MonitorTypeOK
  <2>5. ASSUME NEW n \in Notifiers, NEW k \in Observed, NEW p \in Pids, Observe(n, k, p)
        PROVE  Settled' /\ gamePid' = gamePid
    BY <2>2, <2>5 DEF Observe
  <2>6. ASSUME NEW s \in Services, ExitService(s) PROVE Settled' /\ gamePid' = gamePid
    BY <2>6 DEF ExitService, Settled, notifyVars
  <2> QED BY <2>1, <2>3, <2>4, <2>5, <2>6 DEF MonitorNext
<1> QED BY <1>1, MonitorTypeCorrect, PTL DEF MonitorSpec, GamePidSettles

(* Whatever requests overlap, a routine that is delivering finds a service *)
(* and its callback in the globals: it takes its reference on, attaches to *)
(* and releases a process, and starts its thread at an address.            *)
TargetKnown ==
  \A n \in Notifiers :
    npc[n] \in {"acquire", "post", "release"} => svc # None /\ cb # None

(* The globals are never null under a routine that reads them, which may   *)
(* be long after the system called it: the removal that would let the      *)
(* image go waits for it.                                                  *)
THEOREM TargetKnownHolds == MonitorSpec => []TargetKnown
<1>1. MonitorInv /\ BoundBeforeInstalled => TargetKnown
  <2> SUFFICES ASSUME MonitorInv, BoundBeforeInstalled, NEW n \in Notifiers,
                      npc[n] \in {"acquire", "post", "release"}
               PROVE  svc # None /\ cb # None
    BY DEF TargetKnown
  <2>1. ev[n].kind \in Kinds /\ os[ev[n].kind] > 0
    BY DEF MonitorInv, MonitorTypeOK, Inside, Busy
  <2> QED BY <2>1 DEF BoundBeforeInstalled
<1> QED BY <1>1, MonitorInvariant, MonitorImplementsDriver, BoundBeforeInstalledHolds, PTL

=============================================================================
