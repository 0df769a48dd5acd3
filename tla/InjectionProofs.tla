--------------------------- MODULE InjectionProofs ---------------------------
(***************************************************************************)
(* What Injection promises, for files of any size: the inductive invariant *)
(* InjectionInv says, for every place of main, what is held there, what    *)
(* has been copied and whom the process ids met so far belong to.          *)
(***************************************************************************)
EXTENDS Injection, TLAPS

Streaming == {"connect", "header", "body", "length"}
Attaching == {"check", "allocate", "copy", "release"}
Mapping   == {"acquire", "dereference"} \cup Attaching
Unmapped  == Streaming \cup {"map", "lookup", "acquire", "check", "allocate"}
Calling   == {"context", "write", "thread", "wait"}

(* From the request on the service has a page or more of the file.         *)
Sized ==
  /\ pc \in Streaming => length = 0 \/ length = file % Word
  /\ pc \notin Streaming \cup {"raised", "box"} => length = file % Word /\ length >= Page

(* Who holds what, by the place of main.                                   *)
Held ==
  /\ ref <=> pc \in Mapping
  /\ rundown = (IF pc \in Attaching THEN 1 ELSE 0) - (IF refused THEN 1 ELSE 0)
  /\ refused => pc \notin Streaming \cup {"map", "lookup", "acquire"}
  /\ input <=> pc \in {"lookup", "status", "open"} \cup Mapping \cup Calling
  /\ handle # "none" => pc \in Calling
  /\ pc \in {"write", "thread", "wait"} => handle # "none"

(* An entry point is returned for a whole image only, and a section comes  *)
(* from behind the buffer once all of the buffer has been used.            *)
Mapped ==
  /\ pc \in {"acquire", "check", "allocate", "copy"} => target # "none"
  /\ home \in {"none", target}
  /\ pc \in Unmapped => home = "none" /\ copied = 0
  /\ pc = "copy" => home # "none"
  /\ copied <= file
  /\ beyond => copied > length /\ pc \notin Unmapped
  /\ ep => copied = file /\ home # "none"
  /\ pc \in Calling \cup {"open", "loop"} => ep

(* Another process's id was only met if the game's is that process's now.  *)
Traced ==
  /\ id # "game" => game = "gone"
  /\ "other" \in {target, handle, thread} => id = "other"

(* A thread was started with everything in place, DllMain ran in it, and   *)
(* only DllMain starts the module.                                         *)
Threaded ==
  /\ pc \in {"thread", "wait", "loop"} => context
  /\ thread # "none" <=> pc \in {"wait", "loop"}
  /\ returned => thread = "game" /\ home = "game"
  /\ module => returned /\ game = "running"
  /\ pc = "loop" => returned \/ game # "running"

InjectionInv ==
  /\ InjectionTypeOK
  /\ Sized /\ Held /\ Mapped /\ Traced /\ Threaded
-----------------------------------------------------------------------------
(* What a word holds of a natural number is not more than the number, and  *)
(* less only if the number has more than a word.                           *)
LEMMA WordHolds ==
  ASSUME NEW n \in Nat
  PROVE  n % Word \in Nat /\ (n > n % Word => n >= Word)
<1>1. Word \in Nat \ {0}
  BY InjectionAssumption
<1>2. n % Word \in Nat
  BY <1>1
<1>3. n < Word => n % Word = n
  BY <1>1, SMTT(30)
<1> QED BY <1>1, <1>2, <1>3

LEMMA InitInv == Init => InjectionInv
<1> SUFFICES ASSUME Init PROVE InjectionInv
  OBVIOUS
<1> USE InjectionAssumption DEF Init, Streaming, Attaching, Mapping, Unmapped, Calling
<1>1. InjectionTypeOK
  BY DEF InjectionTypeOK
<1>2. Sized /\ Held /\ Mapped /\ Traced /\ Threaded
  <2>1. Sized
    BY DEF Sized
  <2>2. Held
    BY DEF Held
  <2>3. Mapped
    BY DEF Mapped
  <2> QED BY <2>1, <2>2, <2>3 DEF Traced, Threaded
<1> QED BY <1>1, <1>2 DEF InjectionInv

LEMMA NextInv == InjectionInv /\ [Next]_vars => InjectionInv'
<1> SUFFICES ASSUME InjectionInv, [Next]_vars PROVE InjectionInv'
  OBVIOUS
<1>0. file \in Nat /\ file % Word \in Nat /\ Page \in Nat
  BY WordHolds, InjectionAssumption DEF InjectionInv, InjectionTypeOK
<1>a. InjectionTypeOK /\ Sized /\ Held /\ Mapped /\ Traced /\ Threaded
  BY DEF InjectionInv
<1> USE DEF InjectionTypeOK, Sized, Held, Mapped, Traced, Threaded,
      Streaming, Attaching, Mapping, Unmapped, Calling, GoTo, From, Ending,
      serverVars, gameVars, driverVars, callVars
<1>1. CASE Connect
  <2>1. InjectionTypeOK'
    BY <1>0, <1>a, <1>1 DEF Connect
  <2>2. Sized' /\ Held'
    BY <1>0, <1>a, <1>1 DEF Connect
  <2>3. Mapped'
    BY <1>0, <1>a, <1>1 DEF Connect
  <2>4. Traced' /\ Threaded'
    BY <1>0, <1>a, <1>1 DEF Connect
  <2> QED BY <2>1, <2>2, <2>3, <2>4 DEF InjectionInv
<1>2. CASE Receive
  <2>1. InjectionTypeOK'
    BY <1>0, <1>a, <1>2 DEF Receive
  <2>2. Sized' /\ Held'
    BY <1>0, <1>a, <1>2 DEF Receive
  <2>3. Mapped'
    BY <1>0, <1>a, <1>2 DEF Receive
  <2>4. Traced' /\ Threaded'
    BY <1>0, <1>a, <1>2 DEF Receive
  <2> QED BY <2>1, <2>2, <2>3, <2>4 DEF InjectionInv
<1>3. CASE TakeLength
  <2>1. InjectionTypeOK'
    BY <1>0, <1>a, <1>3 DEF TakeLength
  <2>2. Sized' /\ Held'
    BY <1>0, <1>a, <1>3 DEF TakeLength
  <2>3. Mapped'
    BY <1>0, <1>a, <1>3 DEF TakeLength
  <2>4. Traced' /\ Threaded'
    BY <1>0, <1>a, <1>3 DEF TakeLength
  <2> QED BY <2>1, <2>2, <2>3, <2>4 DEF InjectionInv
<1>4. CASE Request
  <2>1. InjectionTypeOK'
    BY <1>0, <1>a, <1>4, ZenonT(60) DEF Request
  <2>2. Sized' /\ Held'
    BY <1>0, <1>a, <1>4 DEF Request
  <2>3. Mapped'
    BY <1>0, <1>a, <1>4 DEF Request
  <2>4. Traced' /\ Threaded'
    BY <1>0, <1>a, <1>4 DEF Request
  <2> QED BY <2>1, <2>2, <2>3, <2>4 DEF InjectionInv
<1>5. CASE Lookup
  <2>1. InjectionTypeOK'
    BY <1>0, <1>a, <1>5, ZenonT(60) DEF Lookup
  <2>2. Sized' /\ Held'
    BY <1>0, <1>a, <1>5 DEF Lookup
  <2>3. Mapped'
    BY <1>0, <1>a, <1>5 DEF Lookup
  <2>4. Traced' /\ Threaded'
    BY <1>0, <1>a, <1>5 DEF Lookup
  <2> QED BY <2>1, <2>2, <2>3, <2>4 DEF InjectionInv
<1>6. CASE Acquire
  <2>0. refused' \in BOOLEAN
    BY <1>a, <1>6 DEF Acquire
  <2>1. InjectionTypeOK'
    BY <1>0, <1>a, <1>6, <2>0 DEF Acquire
  <2>2. Sized' /\ Held'
    BY <1>0, <1>a, <1>6, <2>0 DEF Acquire
  <2>3. Mapped'
    BY <1>0, <1>a, <1>6, <2>0 DEF Acquire
  <2>4. Traced' /\ Threaded'
    BY <1>0, <1>a, <1>6, <2>0 DEF Acquire
  <2> QED BY <2>1, <2>2, <2>3, <2>4 DEF InjectionInv
<1>7. CASE Check
  <2>1. InjectionTypeOK'
    BY <1>0, <1>a, <1>7 DEF Check
  <2>2. Sized' /\ Held'
    BY <1>0, <1>a, <1>7 DEF Check
  <2>3. Mapped'
    BY <1>0, <1>a, <1>7 DEF Check
  <2>4. Traced' /\ Threaded'
    BY <1>0, <1>a, <1>7 DEF Check
  <2> QED BY <2>1, <2>2, <2>3, <2>4 DEF InjectionInv
<1>8. CASE Allocate
  <2>1. InjectionTypeOK'
    BY <1>0, <1>a, <1>8 DEF Allocate
  <2>2. Sized' /\ Held'
    BY <1>0, <1>a, <1>8 DEF Allocate
  <2>3. Mapped'
    BY <1>0, <1>a, <1>8 DEF Allocate
  <2>4. Traced' /\ Threaded'
    BY <1>0, <1>a, <1>8 DEF Allocate
  <2> QED BY <2>1, <2>2, <2>3, <2>4 DEF InjectionInv
<1>9. CASE CopySection
  <2>0. ep' \in BOOLEAN /\ beyond' \in BOOLEAN
    BY <1>a, <1>9 DEF CopySection
  <2>1. InjectionTypeOK'
    BY <1>0, <1>a, <1>9, <2>0 DEF CopySection
  <2>2. Sized' /\ Held'
    BY <1>0, <1>a, <1>9, <2>0 DEF CopySection
  <2>3. Mapped'
    BY <1>0, <1>a, <1>9, <2>0 DEF CopySection
  <2>4. Traced' /\ Threaded'
    BY <1>0, <1>a, <1>9, <2>0 DEF CopySection
  <2> QED BY <2>1, <2>2, <2>3, <2>4 DEF InjectionInv
<1>10. CASE Release
  <2>1. InjectionTypeOK'
    BY <1>0, <1>a, <1>10 DEF Release
  <2>2. Sized' /\ Held'
    BY <1>0, <1>a, <1>10 DEF Release
  <2>3. Mapped'
    BY <1>0, <1>a, <1>10 DEF Release
  <2>4. Traced' /\ Threaded'
    BY <1>0, <1>a, <1>10 DEF Release
  <2> QED BY <2>1, <2>2, <2>3, <2>4 DEF InjectionInv
<1>11. CASE Dereference
  <2>0. ref' \in BOOLEAN
    BY <1>a, <1>11 DEF Dereference
  <2>1. InjectionTypeOK'
    BY <1>0, <1>a, <1>11, <2>0 DEF Dereference
  <2>2. Sized' /\ Held'
    BY <1>0, <1>a, <1>11, <2>0 DEF Dereference
  <2>3. Mapped'
    BY <1>0, <1>a, <1>11, <2>0 DEF Dereference
  <2>4. Traced' /\ Threaded'
    BY <1>0, <1>a, <1>11, <2>0 DEF Dereference
  <2> QED BY <2>1, <2>2, <2>3, <2>4 DEF InjectionInv
<1>12. CASE Status
  <2>0. input' \in BOOLEAN
    BY <1>a, <1>12 DEF Status, Fail
  <2>1. InjectionTypeOK'
    <3>1. pc' \in {"open", "box"} /\ handle' \in {handle, "none"}
      BY <1>12 DEF Status, Fail
    <3>2. UNCHANGED <<serverVars, length, gameVars, driverVars, context, thread>>
      BY <1>12 DEF Status
    <3> QED BY <1>a, <2>0, <3>1, <3>2
  <2>2. Sized' /\ Held'
    BY <1>0, <1>a, <1>12, <2>0 DEF Status, Fail
  <2>3. Mapped'
    BY <1>0, <1>a, <1>12, <2>0 DEF Status, Fail
  <2>4. Traced' /\ Threaded'
    BY <1>0, <1>a, <1>12, <2>0 DEF Status, Fail
  <2> QED BY <2>1, <2>2, <2>3, <2>4 DEF InjectionInv
<1>13. CASE Open
  <2>1. InjectionTypeOK'
    BY <1>0, <1>a, <1>13 DEF Open
  <2>2. Sized' /\ Held'
    BY <1>0, <1>a, <1>13 DEF Open
  <2>3. Mapped'
    BY <1>0, <1>a, <1>13 DEF Open
  <2>4. Traced' /\ Threaded'
    BY <1>0, <1>a, <1>13 DEF Open
  <2> QED BY <2>1, <2>2, <2>3, <2>4 DEF InjectionInv
<1>14. CASE Context
  <2>1. InjectionTypeOK'
    BY <1>0, <1>a, <1>14, ZenonT(60) DEF Context, Fail
  <2>2. Sized' /\ Held'
    BY <1>0, <1>a, <1>14 DEF Context, Fail
  <2>3. Mapped'
    BY <1>0, <1>a, <1>14 DEF Context, Fail
  <2>4. Traced' /\ Threaded'
    BY <1>0, <1>a, <1>14 DEF Context, Fail
  <2> QED BY <2>1, <2>2, <2>3, <2>4 DEF InjectionInv
<1>15. CASE WriteContext
  <2>1. InjectionTypeOK'
    BY <1>0, <1>a, <1>15, ZenonT(60) DEF WriteContext, Fail
  <2>2. Sized' /\ Held'
    BY <1>0, <1>a, <1>15 DEF WriteContext, Fail
  <2>3. Mapped'
    BY <1>0, <1>a, <1>15 DEF WriteContext, Fail
  <2>4. Traced' /\ Threaded'
    BY <1>0, <1>a, <1>15 DEF WriteContext, Fail
  <2> QED BY <2>1, <2>2, <2>3, <2>4 DEF InjectionInv
<1>16. CASE StartThread
  <2>1. InjectionTypeOK'
    BY <1>0, <1>a, <1>16, ZenonT(60) DEF StartThread, Fail
  <2>2. Sized' /\ Held'
    BY <1>0, <1>a, <1>16 DEF StartThread, Fail
  <2>3. Mapped'
    BY <1>0, <1>a, <1>16 DEF StartThread, Fail
  <2>4. Traced' /\ Threaded'
    BY <1>0, <1>a, <1>16 DEF StartThread, Fail
  <2> QED BY <2>1, <2>2, <2>3, <2>4 DEF InjectionInv
<1>17. CASE Wait
  <2>1. InjectionTypeOK'
    BY <1>0, <1>a, <1>17 DEF Wait
  <2>2. Sized' /\ Held'
    BY <1>0, <1>a, <1>17 DEF Wait
  <2>3. Mapped'
    BY <1>0, <1>a, <1>17 DEF Wait
  <2>4. Traced' /\ Threaded'
    BY <1>0, <1>a, <1>17 DEF Wait
  <2> QED BY <2>1, <2>2, <2>3, <2>4 DEF InjectionInv
<1>18. CASE DllMain
  <2>0. returned' \in BOOLEAN /\ module' \in BOOLEAN
    BY <1>a, <1>18 DEF DllMain
  <2>1. InjectionTypeOK'
    BY <1>0, <1>a, <1>18, <2>0 DEF DllMain
  <2>2. Sized' /\ Held'
    BY <1>0, <1>a, <1>18 DEF DllMain
  <2>3. Mapped'
    BY <1>0, <1>a, <1>18 DEF DllMain
  <2>4. Traced' /\ Threaded'
    BY <1>0, <1>a, <1>18 DEF DllMain
  <2> QED BY <2>1, <2>2, <2>3, <2>4 DEF InjectionInv
<1>19. CASE GameExits
  <2>0. module' \in BOOLEAN
    BY <1>a, <1>19 DEF GameExits
  <2>1. InjectionTypeOK'
    BY <1>0, <1>a, <1>19, <2>0 DEF GameExits
  <2>2. Sized' /\ Held'
    BY <1>0, <1>a, <1>19, <2>0 DEF GameExits
  <2>3. Mapped'
    BY <1>0, <1>a, <1>19, <2>0 DEF GameExits
  <2>4. Traced' /\ Threaded'
    BY <1>0, <1>a, <1>19, <2>0 DEF GameExits
  <2> QED BY <2>1, <2>2, <2>3, <2>4 DEF InjectionInv
<1>20. CASE GameGone
  <2>1. InjectionTypeOK'
    BY <1>0, <1>a, <1>20 DEF GameGone
  <2>2. Sized' /\ Held'
    BY <1>0, <1>a, <1>20 DEF GameGone
  <2>3. Mapped'
    BY <1>0, <1>a, <1>20 DEF GameGone
  <2>4. Traced' /\ Threaded'
    BY <1>0, <1>a, <1>20 DEF GameGone
  <2> QED BY <2>1, <2>2, <2>3, <2>4 DEF InjectionInv
<1>21. CASE IdFreed
  <2>1. InjectionTypeOK'
    BY <1>0, <1>a, <1>21 DEF IdFreed
  <2>2. Sized' /\ Held'
    BY <1>0, <1>a, <1>21 DEF IdFreed
  <2>3. Mapped'
    BY <1>0, <1>a, <1>21 DEF IdFreed
  <2>4. Traced' /\ Threaded'
    BY <1>0, <1>a, <1>21 DEF IdFreed
  <2> QED BY <2>1, <2>2, <2>3, <2>4 DEF InjectionInv
<1>22. CASE IdReused
  <2>1. InjectionTypeOK'
    BY <1>0, <1>a, <1>22 DEF IdReused
  <2>2. Sized' /\ Held'
    BY <1>0, <1>a, <1>22 DEF IdReused
  <2>3. Mapped'
    BY <1>0, <1>a, <1>22 DEF IdReused
  <2>4. Traced' /\ Threaded'
    BY <1>0, <1>a, <1>22 DEF IdReused
  <2> QED BY <2>1, <2>2, <2>3, <2>4 DEF InjectionInv
<1>23. CASE UNCHANGED vars
  <2>1. InjectionTypeOK'
    BY <1>0, <1>a, <1>23 DEF vars
  <2>2. Sized' /\ Held'
    BY <1>0, <1>a, <1>23 DEF vars
  <2>3. Mapped'
    BY <1>0, <1>a, <1>23 DEF vars
  <2>4. Traced' /\ Threaded'
    BY <1>0, <1>a, <1>23 DEF vars
  <2> QED BY <2>1, <2>2, <2>3, <2>4 DEF InjectionInv
<1> QED
  BY <1>1, <1>2, <1>3, <1>4, <1>5, <1>6, <1>7, <1>8, <1>9, <1>10, <1>11, <1>12,
     <1>13, <1>14, <1>15, <1>16, <1>17, <1>18, <1>19, <1>20, <1>21, <1>22, <1>23
     DEF Next, Stream, Map, Inject, World

-----------------------------------------------------------------------------
LEMMA InvHolds == Spec => []InjectionInv
BY InitInv, NextInv, PTL DEF Spec

(* The variables keep to their types.                                      *)
THEOREM InjectionTypeCorrect == Spec => []InjectionTypeOK
<1>1. InjectionInv => InjectionTypeOK
  BY DEF InjectionInv
<1> QED BY <1>1, InvHolds, PTL

(* The module runs in a whole image: the thread it came with was started   *)
(* when everything was in place.                                           *)
THEOREM ModuleWholeHolds == Spec => []ModuleWhole
<1>1. InjectionInv => ModuleWhole
  <2> SUFFICES ASSUME InjectionInv, module PROVE ModuleWhole
    BY DEF ModuleWhole
  <2>1. pc \in {"wait", "loop"} /\ home = "game"
    BY DEF InjectionInv, Threaded
  <2>2. ep /\ context /\ length = file % Word /\ length >= Page
    BY <2>1 DEF InjectionInv, Mapped, Threaded, Sized, Streaming, Calling
  <2>3. copied = file /\ (beyond => copied > length)
    BY <2>2 DEF InjectionInv, Mapped
  <2>4. file \in Nat
    BY InjectionAssumption DEF InjectionInv, InjectionTypeOK
  <2> QED BY <2>1, <2>2, <2>3, <2>4, WordHolds DEF ModuleWhole
<1> QED BY <1>1, InvHolds, PTL

(* A failure started nothing, a success ran DllMain or lost the game, and  *)
(* no other process got the thread unless it had got the id.               *)
THEOREM InjectHonestHolds == Spec => []InjectHonest
<1>1. InjectionInv => InjectHonest
  BY DEF InjectionInv, InjectionTypeOK, Mapped, Traced, Threaded, Calling, InjectHonest
<1> QED BY <1>1, InvHolds, PTL

(* Neither the driver nor the service keeps anything.                      *)
THEOREM NothingHeldHolds == Spec => []NothingHeld
<1>1. InjectionInv => NothingHeld
  BY DEF InjectionInv, InjectionTypeOK, Held, Attaching, Mapping, Calling, NothingHeld
<1> QED BY <1>1, InvHolds, PTL
=============================================================================
