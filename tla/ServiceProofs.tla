--------------------------- MODULE ServiceProofs ---------------------------
(***************************************************************************)
(* What Service promises, for any number of events at a time: who owns the *)
(* buffers, by counting what each thread has to free, and that a session   *)
(* closed by the exception handler leaves no routine installed.            *)
(***************************************************************************)
EXTENDS Service, FiniteSetTheorems, TLAPS

(* What each thread has to free, and what a function of threads adds up to. *)
Own == [c \in Callbacks |-> Owned(c)]
With(f, n) == {c \in Callbacks : f[c] = n}
Total(f) == Cardinality(With(f, 1)) + 2 * Cardinality(With(f, 2))

(* Before INITIALIZE nothing can happen but that main fails.               *)
Quiet ==
  pc[Main] \in {"stream", "init"} =>
    /\ ~hooked /\ ~claimed /\ ~seen /\ ~injected
    /\ \A c \in Callbacks : pc[c] = "idle"

(* Installed routines that are not recorded are those a removal is at.     *)
Removed ==
  hooked /\ ~claimed /\ ~refused /\ ~crossed => \E t \in Threads : pc[t] = "removing"

(* A thread that has UNINITIALIZE behind it has left nothing recorded, if  *)
(* the request reached the driver.                                         *)
Disclaimed ==
  (\E t \in Threads : pc[t] \in {"removing", "destroy", "exit"}) /\ ~crossed /\ ~unsent
    => ~claimed

LoadedWhile ==
  /\ claimed => loaded
  /\ pc[Main] = "registering" => loaded

Ended == alive <=> ending = "none"

ServiceInv ==
  /\ ServiceTypeOK /\ BuffersAccounted
  /\ Quiet /\ Removed /\ Disclaimed /\ LoadedWhile
  /\ Ended /\ ExitUnhooked
-----------------------------------------------------------------------------
(* Who holds n buffers, when thread b holds n of them, or not.             *)
LEMMA Split ==
  ASSUME NEW f \in [Callbacks -> 0..2], NEW b \in Callbacks, NEW n \in 0..2
  PROVE  /\ Cardinality(With(f, n)) \in Nat
         /\ Cardinality(With(f, n) \ {b}) \in Nat
         /\ Cardinality(With(f, n))
              = Cardinality(With(f, n) \ {b}) + (IF f[b] = n THEN 1 ELSE 0)
<1>1. IsFiniteSet(With(f, n))
  BY FS_Subset, ServiceAssumption DEF With
<1>2. Cardinality(With(f, n)) \in Nat
  BY <1>1, FS_CardinalityType
<1>3. /\ IsFiniteSet(With(f, n) \ {b})
      /\ Cardinality(With(f, n) \ {b})
           = IF b \in With(f, n) THEN Cardinality(With(f, n)) - 1 ELSE Cardinality(With(f, n))
  BY <1>1, FS_RemoveElement
<1>4. Cardinality(With(f, n) \ {b}) \in Nat
  BY <1>3, FS_CardinalityType
<1>5. b \in With(f, n) <=> f[b] = n
  BY DEF With
<1> QED BY <1>2, <1>3, <1>4, <1>5

(* What all threads but b hold.                                            *)
Others(f, b) == Cardinality(With(f, 1) \ {b}) + 2 * Cardinality(With(f, 2) \ {b})

LEMMA Apart ==
  ASSUME NEW f \in [Callbacks -> 0..2], NEW b \in Callbacks
  PROVE  Others(f, b) \in Nat /\ Total(f) = Others(f, b) + f[b]
<1>1. f[b] \in 0..2 /\ 1 \in 0..2 /\ 2 \in 0..2
  OBVIOUS
<1>2. /\ Cardinality(With(f, 1) \ {b}) \in Nat
      /\ Cardinality(With(f, 1)) = Cardinality(With(f, 1) \ {b}) + (IF f[b] = 1 THEN 1 ELSE 0)
  BY <1>1, Split
<1>3. /\ Cardinality(With(f, 2) \ {b}) \in Nat
      /\ Cardinality(With(f, 2)) = Cardinality(With(f, 2) \ {b}) + (IF f[b] = 2 THEN 1 ELSE 0)
  BY <1>1, Split
<1> QED BY <1>1, <1>2, <1>3 DEF Total, Others

(* A total changes as one of its terms does.                               *)
LEMMA Recount ==
  ASSUME NEW f \in [Callbacks -> 0..2], NEW g \in [Callbacks -> 0..2], NEW b \in Callbacks,
         \A c \in Callbacks \ {b} : g[c] = f[c]
  PROVE  /\ Total(f) \in Nat /\ Total(g) \in Nat
         /\ f[b] <= Total(f)
         /\ Total(g) = Total(f) - f[b] + g[b]
<1>1. \A n \in 1..2 : With(g, n) \ {b} = With(f, n) \ {b}
  BY DEF With
<1>2. Others(g, b) = Others(f, b)
  BY <1>1, SMTT(30) DEF Others
<1>3. f[b] \in 0..2 /\ g[b] \in 0..2
  OBVIOUS
<1> QED BY <1>2, <1>3, Apart

LEMMA OwnType ==
  ASSUME ServiceTypeOK
  PROVE  Own \in [Callbacks -> 0..2]
BY DEF ServiceTypeOK, Own, Owned, Size

LEMMA TotalType ==
  ASSUME NEW f \in [Callbacks -> 0..2]
  PROVE  Total(f) \in Nat
<1>1. \A n \in {1, 2} : With(f, n) \in SUBSET Callbacks
  BY DEF With
<1>2. \A n \in {1, 2} : Cardinality(With(f, n)) \in Nat
  BY <1>1, FS_Subset, FS_CardinalityType, ServiceAssumption DEF ServiceAssumption
<1> QED BY <1>2 DEF Total

LEMMA CountsType == ServiceTypeOK => buffers \in Nat /\ orphans \in Nat
BY ServiceAssumption DEF ServiceTypeOK

(* The account, in terms of Own, in the state of a step and in the next.   *)
LEMMA AccountIs ==
  /\ BuffersAccounted <=> buffers - orphans = Total(Own)
  /\ BuffersAccounted' <=> buffers' - orphans' = Total(Own')
<1>1. With(Own, 1) = {c \in Callbacks : Owned(c) = 1}
  BY DEF With, Own
<1>2. With(Own, 2) = {c \in Callbacks : Owned(c) = 2}
  BY DEF With, Own
<1>3. With(Own', 1) = {c \in Callbacks : Owned(c)' = 1}
  BY DEF With, Own
<1>4. With(Own', 2) = {c \in Callbacks : Owned(c)' = 2}
  BY DEF With, Own
<1>5. BuffersAccounted <=> buffers - orphans = Total(Own)
  BY <1>1, <1>2, Zenon DEF BuffersAccounted, Total
<1>6. BuffersAccounted' <=> buffers' - orphans' = Total(Own')
  BY <1>3, <1>4, Zenon DEF BuffersAccounted, Total
<1> QED BY <1>5, <1>6

(* The buffers there are suffice for what a thread has to free.            *)
LEMMA Covered ==
  ASSUME ServiceTypeOK, BuffersAccounted, NEW b \in Callbacks
  PROVE  buffers >= orphans + Owned(b)
<1>1. Own[b] <= Total(Own) /\ Total(Own) \in Nat /\ Own[b] \in 0..2
  BY OwnType, Recount
<1>2. buffers - orphans = Total(Own)
  BY AccountIs
<1>3. Own[b] = Owned(b)
  BY DEF Own
<1> QED BY <1>1, <1>2, <1>3, CountsType

(* The account stays right if it changes by what one thread's share does.  *)
LEMMA Account ==
  ASSUME ServiceTypeOK, BuffersAccounted, NEW b \in Callbacks,
         pc' \in [Threads -> Labels], kind' \in [Callbacks -> EventKinds],
         \A c \in Callbacks \ {b} : pc'[c] = pc[c] /\ kind'[c] = kind[c],
         buffers' \in Int, orphans' \in Int,
         buffers' - orphans' = buffers - orphans - Owned(b) + Owned(b)'
  PROVE  BuffersAccounted'
<1>1. Own \in [Callbacks -> 0..2] /\ Own' \in [Callbacks -> 0..2]
  BY OwnType DEF Own, Owned, Size, Labels
<1>2. \A c \in Callbacks \ {b} : Own'[c] = Own[c]
  BY DEF Own, Owned, Size
<1>3. /\ Total(Own) \in Nat /\ Total(Own') \in Nat
      /\ Total(Own') = Total(Own) - Own[b] + Own'[b]
  BY <1>1, <1>2, Recount
<1>4. Own[b] = Owned(b) /\ Own'[b] = Owned(b)'
  BY DEF Own
<1>5. Own[b] \in 0..2 /\ Own'[b] \in 0..2
  BY <1>1
<1>6. buffers - orphans = Total(Own)
  BY AccountIs
<1>7. buffers' - orphans' = Total(Own')
  BY <1>3, <1>4, <1>5, <1>6, CountsType
<1>8. BuffersAccounted' <=> buffers' - orphans' = Total(Own')
  BY AccountIs
<1> QED BY <1>7, <1>8

(* And while no share changes.                                             *)
LEMMA SameAccount ==
  ASSUME ServiceTypeOK, BuffersAccounted,
         \A c \in Callbacks : Owned(c)' = Owned(c),
         UNCHANGED bufferVars
  PROVE  BuffersAccounted'
<1>1. Own' = Own
  BY DEF Own
<1> QED BY <1>1, AccountIs DEF bufferVars
-----------------------------------------------------------------------------
LEMMA InitInv == Init => ServiceInv
<1> SUFFICES ASSUME Init PROVE ServiceInv
  OBVIOUS
<1>1. Main \in Threads /\ \A c \in Callbacks : c \in Threads /\ c # Main
  BY ServiceAssumption DEF ServiceAssumption, Threads
<1>2. ServiceTypeOK
  <2>1. pc \in [Threads -> Labels] /\ kind \in [Callbacks -> EventKinds]
    BY DEF Init, Labels, EventKinds, KernelKinds
  <2>2. /\ alive \in BOOLEAN /\ pid \in BOOLEAN /\ torn \in BOOLEAN /\ loaded \in BOOLEAN
        /\ hooked \in BOOLEAN /\ claimed \in BOOLEAN /\ refused \in BOOLEAN
        /\ crossed \in BOOLEAN /\ unsent \in BOOLEAN /\ seen \in BOOLEAN /\ injected \in BOOLEAN
    BY DEF Init
  <2>3. buffers \in Nat /\ orphans \in 0..MaxOrphans
    BY ServiceAssumption DEF Init, ServiceAssumption
  <2> QED BY <2>1, <2>2, <2>3 DEF Init, ServiceTypeOK
<1>3. BuffersAccounted
  <2>1. \A c \in Callbacks : Owned(c) = 0
    BY <1>1 DEF Init, Owned
  <2>2. With(Own, 1) = {} /\ With(Own, 2) = {}
    BY <2>1 DEF With, Own
  <2>3. Total(Own) = 0
    BY <2>2, FS_EmptySet DEF Total
  <2> QED BY <2>3, AccountIs DEF Init
<1>4. Quiet /\ Removed /\ Disclaimed /\ LoadedWhile /\ Ended /\ ExitUnhooked
  BY <1>1 DEF Init, Quiet, Removed, Disclaimed, LoadedWhile, Ended, ExitUnhooked
<1> QED BY <1>2, <1>3, <1>4 DEF ServiceInv
LEMMA OwnedSame ==
  ASSUME NEW c \in Callbacks, pc'[c] = pc[c], kind'[c] = kind[c]
  PROVE  Owned(c)' = Owned(c)
BY DEF Owned, Size

(* A step of main leaves the threads for events alone.                     *)
LEMMA MainAlone ==
  ASSUME ServiceTypeOK, BuffersAccounted, NEW l \in Labels, GoTo(Main, l),
         UNCHANGED <<kind, bufferVars>>
  PROVE  /\ pc' \in [Threads -> Labels] /\ pc'[Main] = l
         /\ \A t \in Threads : t # Main => pc'[t] = pc[t]
         /\ \A c \in Callbacks : c \in Threads /\ c # Main
         /\ BuffersAccounted'
<1>1. Main \in Threads /\ \A c \in Callbacks : c \in Threads /\ c # Main
  BY ServiceAssumption DEF ServiceAssumption, Threads
<1>2. pc' \in [Threads -> Labels] /\ pc'[Main] = l /\ \A t \in Threads : t # Main => pc'[t] = pc[t]
  BY <1>1 DEF ServiceTypeOK, GoTo
<1>3. \A c \in Callbacks : Owned(c)' = Owned(c)
  BY <1>1, <1>2, OwnedSame
<1>4. BuffersAccounted'
  BY <1>3, SameAccount
<1> QED BY <1>1, <1>2, <1>4

LEMMA MainInv ==
  ASSUME ServiceInv, MainStep
  PROVE  ServiceInv'
<1>0. /\ ServiceTypeOK /\ BuffersAccounted /\ Quiet /\ Removed /\ Disclaimed
      /\ LoadedWhile /\ Ended /\ ExitUnhooked
  BY DEF ServiceInv
<1>a. Main \in Threads
  BY DEF Threads
<1> USE DEF Quiet, Removed, Disclaimed, LoadedWhile, Ended, ExitUnhooked
<1>1. CASE Stream
  <2>1. \E l \in {"init", "box"} : GoTo(Main, l)
    BY <1>1 DEF Stream
  <2>2. {"init", "box"} \subseteq Labels
    BY DEF Labels
  <2>3. UNCHANGED <<kind, bufferVars>>
    BY <1>1 DEF Stream
  <2>4. /\ pc' \in [Threads -> Labels] /\ pc'[Main] \in {"init", "box"}
        /\ \A t \in Threads : t # Main => pc'[t] = pc[t]
        /\ \A c \in Callbacks : c \in Threads /\ c # Main
        /\ BuffersAccounted'
    BY <1>0, <2>1, <2>2, <2>3, MainAlone
  <2>5. ServiceTypeOK'
    BY <1>0, <1>1, <2>3, <2>4 DEF Stream, driverVars, gameVars, bufferVars, ServiceTypeOK
  <2>6. Quiet' /\ Removed' /\ Disclaimed' /\ LoadedWhile' /\ Ended' /\ ExitUnhooked'
    BY <1>0, <1>a, <1>1, <2>3, <2>4 DEF Stream, driverVars, gameVars, bufferVars, ServiceTypeOK
  <2> QED BY <2>4, <2>5, <2>6 DEF ServiceInv
<1>2. CASE ConnectionError
  <2>1. \E l \in {"unit"} : GoTo(Main, l)
    BY <1>2 DEF ConnectionError, Raise
  <2>2. {"unit"} \subseteq Labels
    BY DEF Labels
  <2>3. UNCHANGED <<kind, bufferVars>>
    BY <1>2 DEF ConnectionError
  <2>4. /\ pc' \in [Threads -> Labels] /\ pc'[Main] \in {"unit"}
        /\ \A t \in Threads : t # Main => pc'[t] = pc[t]
        /\ \A c \in Callbacks : c \in Threads /\ c # Main
        /\ BuffersAccounted'
    BY <1>0, <2>1, <2>2, <2>3, MainAlone
  <2>5. ServiceTypeOK'
    BY <1>0, <1>2, <2>3, <2>4 DEF ConnectionError, Raise, driverVars, gameVars, bufferVars, ServiceTypeOK
  <2>6. Quiet' /\ Removed' /\ Disclaimed' /\ LoadedWhile' /\ Ended' /\ ExitUnhooked'
    BY <1>0, <1>a, <1>2, <2>3, <2>4 DEF ConnectionError, Raise, driverVars, gameVars, bufferVars, ServiceTypeOK
  <2> QED BY <2>4, <2>5, <2>6 DEF ServiceInv
<1>3. CASE InitStart
  <2>1. \E l \in {"registering", "box"} : GoTo(Main, l)
    BY <1>3 DEF InitStart
  <2>2. {"registering", "box"} \subseteq Labels
    BY DEF Labels
  <2>3. UNCHANGED <<kind, bufferVars>>
    BY <1>3 DEF InitStart
  <2>4. /\ pc' \in [Threads -> Labels] /\ pc'[Main] \in {"registering", "box"}
        /\ \A t \in Threads : t # Main => pc'[t] = pc[t]
        /\ \A c \in Callbacks : c \in Threads /\ c # Main
        /\ BuffersAccounted'
    BY <1>0, <2>1, <2>2, <2>3, MainAlone
  <2>b. hooked' \in BOOLEAN /\ claimed' \in BOOLEAN
    BY <1>0, <1>3, Zenon DEF InitStart, ServiceTypeOK, driverVars, gameVars
  <2>5. ServiceTypeOK'
    BY <1>0, <1>3, <2>3, <2>4, <2>b DEF InitStart, driverVars, gameVars, bufferVars, ServiceTypeOK
  <2>c. \A t \in Threads : pc'[t] \notin {"removing", "destroy", "exit"}
    BY <1>0, <1>3, <2>4 DEF InitStart, Threads
  <2>6. Quiet' /\ Disclaimed'
    BY <1>0, <1>3, <2>4, <2>c DEF InitStart, gameVars
  <2>7. ~hooked
    BY <1>0, <1>3 DEF InitStart
  <2>8. Removed'
    <3>1. CASE claimed' = TRUE
      BY <3>1
    <3>2. CASE UNCHANGED <<hooked, claimed>>
      BY <2>7, <3>2
    <3> QED BY <1>3, <3>1, <3>2 DEF InitStart
  <2>9. LoadedWhile'
    <3>1. CASE loaded
      BY <1>3, <3>1 DEF InitStart
    <3>2. CASE GoTo(Main, "box") /\ UNCHANGED claimed
      <4>1. pc'[Main] = "box"
        BY <1>0, <1>a, <3>2 DEF GoTo, ServiceTypeOK
      <4> QED BY <1>0, <1>3, <3>2, <4>1 DEF InitStart
    <3> QED BY <1>3, <3>1, <3>2 DEF InitStart
  <2>10. Ended' /\ ExitUnhooked'
    BY <1>0, <1>3 DEF InitStart
  <2> QED BY <2>4, <2>5, <2>6, <2>8, <2>9, <2>10 DEF ServiceInv
<1>4. CASE InitEnd
  <2>1. \E l \in {"wait", "box"} : GoTo(Main, l)
    BY <1>4 DEF InitEnd
  <2>2. {"wait", "box"} \subseteq Labels
    BY DEF Labels
  <2>3. UNCHANGED <<kind, bufferVars>>
    BY <1>4 DEF InitEnd
  <2>4. /\ pc' \in [Threads -> Labels] /\ pc'[Main] \in {"wait", "box"}
        /\ \A t \in Threads : t # Main => pc'[t] = pc[t]
        /\ \A c \in Callbacks : c \in Threads /\ c # Main
        /\ BuffersAccounted'
    BY <1>0, <2>1, <2>2, <2>3, MainAlone
  <2>b. hooked' \in BOOLEAN /\ claimed' \in BOOLEAN /\ crossed' \in BOOLEAN
    BY <1>0, <1>4, Zenon DEF InitEnd, ServiceTypeOK, driverVars, gameVars
  <2>5. ServiceTypeOK'
    BY <1>0, <1>4, <2>3, <2>4, <2>b DEF InitEnd, driverVars, gameVars, bufferVars, ServiceTypeOK
  <2>6. Quiet' /\ Removed' /\ Disclaimed' /\ LoadedWhile' /\ Ended' /\ ExitUnhooked'
    BY <1>0, <1>a, <1>4, <2>3, <2>4, <2>b DEF InitEnd, driverVars, gameVars, bufferVars, ServiceTypeOK
  <2> QED BY <2>4, <2>5, <2>6 DEF ServiceInv
<1>5. CASE WaitGame
  <2>1. \E l \in {"inject"} : GoTo(Main, l)
    BY <1>5 DEF WaitGame
  <2>2. {"inject"} \subseteq Labels
    BY DEF Labels
  <2>3. UNCHANGED <<kind, bufferVars>>
    BY <1>5 DEF WaitGame
  <2>4. /\ pc' \in [Threads -> Labels] /\ pc'[Main] \in {"inject"}
        /\ \A t \in Threads : t # Main => pc'[t] = pc[t]
        /\ \A c \in Callbacks : c \in Threads /\ c # Main
        /\ BuffersAccounted'
    BY <1>0, <2>1, <2>2, <2>3, MainAlone
  <2>5. ServiceTypeOK'
    BY <1>0, <1>5, <2>3, <2>4 DEF WaitGame, driverVars, gameVars, bufferVars, ServiceTypeOK
  <2>6. Quiet' /\ Removed' /\ Disclaimed' /\ LoadedWhile' /\ Ended' /\ ExitUnhooked'
    BY <1>0, <1>a, <1>5, <2>3, <2>4 DEF WaitGame, driverVars, gameVars, bufferVars, ServiceTypeOK
  <2> QED BY <2>4, <2>5, <2>6 DEF ServiceInv
<1>6. CASE Inject
  <2>1. \E l \in {"loop", "box"} : GoTo(Main, l)
    BY <1>6 DEF Inject
  <2>2. {"loop", "box"} \subseteq Labels
    BY DEF Labels
  <2>3. UNCHANGED <<kind, bufferVars>>
    BY <1>6 DEF Inject
  <2>4. /\ pc' \in [Threads -> Labels] /\ pc'[Main] \in {"loop", "box"}
        /\ \A t \in Threads : t # Main => pc'[t] = pc[t]
        /\ \A c \in Callbacks : c \in Threads /\ c # Main
        /\ BuffersAccounted'
    BY <1>0, <2>1, <2>2, <2>3, MainAlone
  <2>b. injected' \in BOOLEAN
    BY <1>0, <1>6, Zenon DEF Inject, ServiceTypeOK, driverVars, gameVars
  <2>5. ServiceTypeOK'
    BY <1>0, <1>6, <2>3, <2>4, <2>b DEF Inject, driverVars, gameVars, bufferVars, ServiceTypeOK
  <2>6. Quiet' /\ Removed' /\ Disclaimed' /\ LoadedWhile' /\ Ended' /\ ExitUnhooked'
    BY <1>0, <1>a, <1>6, <2>3, <2>4, <2>b DEF Inject, driverVars, gameVars, bufferVars, ServiceTypeOK
  <2> QED BY <2>4, <2>5, <2>6 DEF ServiceInv
<1>7. CASE Return
  <2>1. ServiceTypeOK'
    <3>1. /\ UNCHANGED <<pc, kind, pid, buffers, orphans, torn, loaded, hooked, claimed, refused,
                        crossed, unsent, game, seen, injected, cause>>
          /\ alive' = FALSE /\ ending' = "return"
      BY <1>7 DEF Return, EndProcess, driverVars, gameVars, bufferVars
    <3>2. {alive', hooked', claimed'} \subseteq BOOLEAN
      BY <1>0, <3>1 DEF ServiceTypeOK
    <3> QED BY <1>0, <3>1, <3>2 DEF ServiceTypeOK
  <2>2. BuffersAccounted'
    BY <1>0, <1>7, OwnedSame, SameAccount DEF Return, EndProcess
  <2>3. Quiet' /\ Removed' /\ Disclaimed' /\ LoadedWhile' /\ Ended' /\ ExitUnhooked'
    BY <1>0, <1>7 DEF Return, EndProcess, driverVars, gameVars
  <2> QED BY <2>1, <2>2, <2>3 DEF ServiceInv
<1> QED
  BY <1>1, <1>2, <1>3, <1>4, <1>5, <1>6, <1>7 DEF MainStep
Started(t) ==
  pc'[t] = pc[t] \/ (t \in Callbacks /\ pc[t] = "idle" /\ pc'[t] = "dispatch")

(* Posting an event starts a thread with its buffers, loses them or has none. *)
LEMMA PostInv ==
  ASSUME ServiceTypeOK, BuffersAccounted, NEW k \in EventKinds, Post(k)
  PROVE  /\ pc' \in [Threads -> Labels] /\ kind' \in [Callbacks -> EventKinds]
         /\ buffers' \in Nat /\ orphans' \in 0..MaxOrphans
         /\ \A t \in Threads : Started(t)
         /\ BuffersAccounted'
<1>0. /\ pc \in [Threads -> Labels] /\ kind \in [Callbacks -> EventKinds]
      /\ buffers \in Nat /\ orphans \in Nat /\ orphans \in 0..MaxOrphans /\ MaxOrphans \in Nat
      /\ Size(k) \in 1..2
  BY CountsType, ServiceAssumption DEF ServiceTypeOK, ServiceAssumption, Size
<1>1. ASSUME NEW c \in Callbacks, pc[c] = "idle", GoTo(c, "dispatch"),
             kind' = [kind EXCEPT ![c] = k], buffers' = buffers + Size(k), UNCHANGED orphans
      PROVE  pc' \in [Threads -> Labels] /\ kind' \in [Callbacks -> EventKinds]
             /\ buffers' \in Nat /\ orphans' \in 0..MaxOrphans
             /\ (\A t \in Threads : Started(t)) /\ BuffersAccounted'
  <2>1. /\ pc' \in [Threads -> Labels] /\ kind' \in [Callbacks -> EventKinds]
        /\ c \in Threads
    BY <1>0, <1>1 DEF GoTo, Labels, Threads
  <2>2. /\ pc'[c] = "dispatch" /\ kind'[c] = k
        /\ \A t \in Threads \ {c} : pc'[t] = pc[t]
        /\ \A d \in Callbacks \ {c} : pc'[d] = pc[d] /\ kind'[d] = kind[d]
    BY <1>0, <1>1, <2>1 DEF GoTo, Threads
  <2>3. Owned(c) = 0 /\ Owned(c)' = Size(k)
    BY <1>1, <2>2 DEF Owned, Size
  <2>4. BuffersAccounted'
    <3>1. /\ buffers' \in Int /\ orphans' \in Int
          /\ buffers' - orphans' = buffers - orphans - Owned(c) + Owned(c)'
      BY <1>0, <1>1, <2>3
    <3> QED BY <2>1, <2>2, <3>1, Account
  <2>5. \A t \in Threads : Started(t)
    BY <1>1, <2>2 DEF Started
  <2>6. buffers' \in Nat /\ orphans' \in 0..MaxOrphans
    BY <1>0, <1>1
  <2> QED BY <2>1, <2>4, <2>5, <2>6
<1>2. ASSUME NEW n \in 1..Size(k), orphans + n <= MaxOrphans, buffers' = buffers + n,
             orphans' = orphans + n, UNCHANGED <<pc, kind>>
      PROVE  buffers' \in Nat /\ orphans' \in 0..MaxOrphans /\ BuffersAccounted'
  <2>0. n \in Nat
    BY <1>0
  <2>1. /\ buffers' \in Nat /\ orphans' \in 0..MaxOrphans
        /\ buffers' - orphans' = buffers - orphans
    BY <1>0, <1>2, <2>0
  <2>2. Own' = Own
    BY <1>2 DEF Own, Owned, Size
  <2>3. BuffersAccounted'
    BY <2>1, <2>2, AccountIs
  <2> QED BY <2>1, <2>3
<1>3. CASE UNCHANGED <<pc, kind, bufferVars>>
  <2>1. UNCHANGED pc /\ UNCHANGED kind /\ UNCHANGED buffers /\ UNCHANGED orphans
    BY <1>3 DEF bufferVars
  <2>2. \A c \in Callbacks : Owned(c)' = Owned(c)
    BY <2>1, OwnedSame
  <2>3. BuffersAccounted'
    BY <1>3, <2>2, SameAccount
  <2>4. \A t \in Threads : Started(t)
    BY <2>1 DEF Started
  <2> QED BY <1>0, <2>1, <2>3, <2>4
<1>4. UNCHANGED pc => \A t \in Threads : Started(t)
  BY DEF Started
<1> QED BY <1>0, <1>1, <1>2, <1>3, <1>4 DEF Post

LEMMA WorldInv ==
  ASSUME ServiceInv, World
  PROVE  ServiceInv'
<1>0. /\ ServiceTypeOK /\ BuffersAccounted /\ Quiet /\ Removed /\ Disclaimed
      /\ LoadedWhile /\ Ended /\ ExitUnhooked
  BY DEF ServiceInv
<1>1. PICK k \in EventKinds : Post(k)
  BY DEF World, GameStarts, GameEnds, KernelEvent, InternalEvent, Post,
         EventKinds, KernelKinds, InternalKinds
<1>2. /\ pc' \in [Threads -> Labels] /\ kind' \in [Callbacks -> EventKinds]
      /\ buffers' \in Nat /\ orphans' \in 0..MaxOrphans
      /\ \A t \in Threads : Started(t)
      /\ BuffersAccounted'
  BY <1>0, <1>1, PostInv
<1>3. Main \in Threads /\ Main \notin Callbacks /\ Callbacks \subseteq Threads
  BY ServiceAssumption DEF ServiceAssumption, Threads
<1>4. pc'[Main] = pc[Main]
  BY <1>2, <1>3 DEF Started
<1>5. /\ UNCHANGED <<alive, ending, pid, torn, cause, driverVars>>
      /\ game' \in {"none", "running", "over"} /\ seen' \in BOOLEAN /\ injected' \in BOOLEAN
  <2>1. CASE GameStarts
    BY <1>0, <2>1 DEF GameStarts, ServiceTypeOK
  <2>2. injected \in BOOLEAN /\ FALSE \in BOOLEAN
    BY <1>0 DEF ServiceTypeOK
  <2>3. CASE GameEnds
    BY <1>0, <2>2, <2>3, Zenon DEF GameEnds, ServiceTypeOK
  <2>4. CASE KernelEvent \/ InternalEvent
    BY <1>0, <2>4 DEF KernelEvent, InternalEvent, ServiceTypeOK, gameVars
  <2> QED BY <2>1, <2>3, <2>4 DEF World
<1>6. ServiceTypeOK'
  BY <1>0, <1>2, <1>5 DEF ServiceTypeOK, driverVars
<1>7. Quiet'
  <2> SUFFICES ASSUME pc'[Main] \in {"stream", "init"}
               PROVE  /\ ~hooked' /\ ~claimed' /\ ~seen' /\ ~injected'
                      /\ \A c \in Callbacks : pc'[c] = "idle"
    BY DEF Quiet
  <2>1. /\ ~hooked /\ ~claimed /\ ~seen /\ ~injected
        /\ \A c \in Callbacks : pc[c] = "idle"
    BY <1>0, <1>4 DEF Quiet
  <2>2. UNCHANGED <<pc, hooked, claimed>> /\ ~seen' /\ ~injected'
    BY <2>1 DEF World, GameStarts, GameEnds, KernelEvent, InternalEvent, driverVars
  <2> QED BY <2>1, <2>2
<1>8. \A t \in Threads : /\ pc[t] = "removing" => pc'[t] = "removing"
                         /\ pc'[t] \in {"removing", "destroy", "exit"} => pc'[t] = pc[t]
  BY <1>2 DEF Started
<1>9. Removed' /\ Disclaimed'
  BY <1>0, <1>5, <1>8 DEF Removed, Disclaimed, driverVars
<1>10. LoadedWhile' /\ Ended' /\ ExitUnhooked'
  BY <1>0, <1>4, <1>5 DEF LoadedWhile, Ended, ExitUnhooked, driverVars
<1> QED BY <1>2, <1>6, <1>7, <1>9, <1>10 DEF ServiceInv
(* An event's way through its thread touches neither driver nor main.      *)
LEMMA EventAlone ==
  ASSUME ServiceInv, NEW c \in Callbacks, pc[c] \in {"dispatch", "append", "free"},
         NEW l \in {"append", "free", "unit", "idle"}, GoTo(c, l),
         UNCHANGED <<alive, ending, driverVars, gameVars>>
  PROVE  /\ pc' \in [Threads -> Labels] /\ pc'[c] = l
         /\ \A d \in Callbacks \ {c} : pc'[d] = pc[d]
         /\ Quiet' /\ Removed' /\ Disclaimed' /\ LoadedWhile' /\ Ended' /\ ExitUnhooked'
<1>0. /\ ServiceTypeOK /\ Quiet /\ Removed /\ Disclaimed /\ LoadedWhile /\ Ended /\ ExitUnhooked
  BY DEF ServiceInv
<1>1. Main \in Threads /\ Main # c /\ c \in Threads /\ Callbacks \subseteq Threads
  BY ServiceAssumption DEF ServiceAssumption, Threads
<1>2. pc' \in [Threads -> Labels] /\ pc'[c] = l /\ \A t \in Threads \ {c} : pc'[t] = pc[t]
  BY <1>0, <1>1 DEF GoTo, ServiceTypeOK, Labels
<1>3. Quiet'
  BY <1>0, <1>1, <1>2 DEF Quiet
<1>4. \A t \in Threads : pc[t] \in {"removing", "destroy", "exit"} \/ pc'[t] \in {"removing", "destroy", "exit"}
                            => pc'[t] = pc[t]
  BY <1>2
<1>5. Removed' /\ Disclaimed'
  BY <1>0, <1>4 DEF Removed, Disclaimed, driverVars
<1>6. LoadedWhile' /\ Ended' /\ ExitUnhooked'
  BY <1>0, <1>1, <1>2 DEF LoadedWhile, Ended, ExitUnhooked, driverVars
<1> QED BY <1>1, <1>2, <1>3, <1>5, <1>6

(* The account, when thread c frees n of its buffers.                      *)
LEMMA FreeInv ==
  ASSUME ServiceTypeOK, BuffersAccounted, NEW c \in Callbacks, NEW n \in 0..1,
         pc' \in [Threads -> Labels], \A d \in Callbacks \ {c} : pc'[d] = pc[d],
         UNCHANGED <<kind, orphans>>, buffers' = buffers - n,
         Owned(c) \in Nat, Owned(c)' \in Nat, Owned(c)' = Owned(c) - n
  PROVE  buffers' \in Nat /\ BuffersAccounted'
<1>1. buffers \in Nat /\ orphans \in Nat /\ buffers >= orphans + Owned(c)
  BY CountsType, Covered
<1>2. buffers' \in Nat /\ buffers' - orphans' = buffers - orphans - Owned(c) + Owned(c)'
  BY <1>1
<1>3. kind' \in [Callbacks -> EventKinds] /\ \A d \in Callbacks \ {c} : pc'[d] = pc[d] /\ kind'[d] = kind[d]
  BY DEF ServiceTypeOK
<1>4. BuffersAccounted'
  BY <1>1, <1>2, <1>3, Account
<1> QED BY <1>2, <1>4

LEMMA DispatchInv ==
  ASSUME ServiceInv, NEW c \in Callbacks, Dispatch(c)
  PROVE  ServiceInv'
<1>0. ServiceTypeOK /\ BuffersAccounted
  BY DEF ServiceInv
<1>1. pc[c] \in {"dispatch", "append", "free"}
  BY DEF Dispatch, AtDispatch, OnCreated, OnEnded, OnImage, Append, OnIntegrity, OnHeartbeat, Free
<1>2. PICK l \in {"append", "free", "unit", "idle"} : GoTo(c, l)
  BY DEF Dispatch, OnCreated, OnEnded, OnImage, Append, OnIntegrity, OnHeartbeat, Free, Raise
<1>3. UNCHANGED <<alive, ending, kind, orphans, driverVars, gameVars>>
  BY DEF Dispatch, OnCreated, OnEnded, OnImage, Append, OnIntegrity, OnHeartbeat, Free, bufferVars
<1>4. /\ pc' \in [Threads -> Labels] /\ pc'[c] = l
      /\ \A d \in Callbacks \ {c} : pc'[d] = pc[d]
      /\ Quiet' /\ Removed' /\ Disclaimed' /\ LoadedWhile' /\ Ended' /\ ExitUnhooked'
  BY <1>1, <1>2, <1>3, EventAlone
<1>5. pid' \in BOOLEAN /\ torn' \in BOOLEAN
  BY <1>0, Zenon DEF Dispatch, OnCreated, OnEnded, OnImage, Append, OnIntegrity,
     OnHeartbeat, Free, ServiceTypeOK
<1>6. cause' \in {"none", "connection", "ended", "path", "vector", "patches"}
  BY <1>0 DEF Dispatch, OnCreated, OnEnded, OnImage, Append, OnIntegrity,
     OnHeartbeat, Free, Raise, ServiceTypeOK
<1>7. \E n \in 0..1 : /\ buffers' = buffers - n
                      /\ Owned(c) \in Nat /\ Owned(c)' \in Nat /\ Owned(c)' = Owned(c) - n
  <2>1. buffers - 0 = buffers
    BY <1>0 DEF ServiceTypeOK
  <2>2. CASE OnCreated(c) \/ OnEnded(c) \/ OnImage(c) \/ Append(c) \/ OnHeartbeat(c)
    <3>1. UNCHANGED buffers
      BY <2>2 DEF OnCreated, OnEnded, OnImage, Append, OnHeartbeat, bufferVars
    <3>2. pc[c] # "idle" /\ (pc[c] = "dispatch" => kind[c] # "integrity")
      BY <2>2 DEF AtDispatch, OnCreated, OnEnded, OnImage, Append, OnHeartbeat
    <3>3. l \in {"append", "free", "unit"}
      BY <1>2, <1>4, <2>2, <1>0 DEF OnCreated, OnEnded, OnImage, Append, OnHeartbeat, Raise, GoTo,
         ServiceTypeOK, Threads
    <3>4. Owned(c) = 1 /\ Owned(c)' = 1
      BY <1>4, <3>2, <3>3 DEF Owned, Size
    <3> QED BY <2>1, <3>1, <3>4
  <2>3. CASE AtDispatch(c, "integrity") /\ buffers' = buffers - 1 /\ GoTo(c, "free")
    <3>1. pc'[c] = "free"
      BY <1>0, <2>3 DEF GoTo, ServiceTypeOK, Threads
    <3>2. Owned(c) = 2 /\ Owned(c)' = 1
      BY <2>3, <3>1 DEF AtDispatch, Owned, Size
    <3> QED BY <2>3, <3>2
  <2>4. CASE AtDispatch(c, "bare") /\ Raise(c, "patches") /\ UNCHANGED buffers
    <3>1. pc'[c] = "unit"
      BY <1>0, <2>4 DEF GoTo, Raise, ServiceTypeOK, Threads
    <3>2. Owned(c) = 1 /\ Owned(c)' = 1
      BY <2>4, <3>1, <1>3 DEF AtDispatch, Owned, Size
    <3> QED BY <2>1, <2>4, <3>2
  <2>5. CASE Free(c)
    <3>1. pc[c] = "free" /\ pc'[c] = "idle" /\ buffers' = buffers - 1
      BY <1>0, <2>5 DEF Free, GoTo, ServiceTypeOK, Threads
    <3>2. Owned(c) = 1 /\ Owned(c)' = 0
      BY <3>1 DEF Owned
    <3> QED BY <3>1, <3>2
  <2> QED BY <2>2, <2>3, <2>4, <2>5 DEF Dispatch, OnIntegrity
<1>8. buffers' \in Nat /\ BuffersAccounted'
  BY <1>0, <1>3, <1>4, <1>7, FreeInv
<1>9. ServiceTypeOK'
  BY <1>0, <1>3, <1>4, <1>5, <1>6, <1>8 DEF ServiceTypeOK, driverVars, gameVars
<1> QED BY <1>4, <1>8, <1>9 DEF ServiceInv
(* A thread in the exception handler has one buffer, whichever step it is at. *)
LEMMA CloseAlone ==
  ASSUME ServiceInv, NEW t \in Threads, pc[t] \in {"unit", "removing", "destroy"},
         NEW l \in {"removing", "destroy", "exit"}, GoTo(t, l), UNCHANGED <<kind, bufferVars>>
  PROVE  /\ pc' \in [Threads -> Labels] /\ pc'[t] = l
         /\ \A u \in Threads \ {t} : pc'[u] = pc[u]
         /\ pc[Main] \notin {"stream", "init"} /\ pc'[Main] \notin {"stream", "init"}
         /\ pc'[Main] = "registering" => pc[Main] = "registering"
         /\ BuffersAccounted'
<1>0. ServiceTypeOK /\ BuffersAccounted /\ Quiet
  BY DEF ServiceInv
<1>1. Main \in Threads /\ Callbacks \subseteq Threads /\ Threads = Callbacks \cup {Main}
  BY DEF Threads
<1>2. pc' \in [Threads -> Labels] /\ pc'[t] = l /\ \A u \in Threads \ {t} : pc'[u] = pc[u]
  BY <1>0 DEF GoTo, ServiceTypeOK, Labels
<1>3. pc[Main] \notin {"stream", "init"}
  BY <1>0, <1>1 DEF Quiet
<1>4. ASSUME NEW c \in Callbacks PROVE Owned(c)' = Owned(c)
  <2>1. CASE c = t
    BY <1>2, <2>1 DEF Owned
  <2>2. CASE c # t
    BY <1>1, <1>2, <2>2, OwnedSame
  <2> QED BY <2>1, <2>2
<1>5. BuffersAccounted'
  BY <1>0, <1>4, SameAccount
<1> QED BY <1>1, <1>2, <1>3, <1>5

LEMMA CloseInv ==
  ASSUME ServiceInv, NEW t \in Threads, Close(t)
  PROVE  ServiceInv'
<1>0. /\ ServiceTypeOK /\ BuffersAccounted /\ Quiet /\ Removed /\ Disclaimed
      /\ LoadedWhile /\ Ended /\ ExitUnhooked
  BY DEF ServiceInv
<1>1. CASE UnitStart(t)
  <2>1. PICK l \in {"removing", "destroy"} : GoTo(t, l)
    BY <1>1 DEF UnitStart
  <2>2. pc[t] = "unit" /\ UNCHANGED <<kind, bufferVars>>
    BY <1>1 DEF UnitStart
  <2>3. /\ pc' \in [Threads -> Labels] /\ pc'[t] = l
        /\ \A u \in Threads \ {t} : pc'[u] = pc[u]
        /\ pc[Main] \notin {"stream", "init"} /\ pc'[Main] \notin {"stream", "init"}
        /\ pc'[Main] = "registering" => pc[Main] = "registering"
        /\ BuffersAccounted'
    BY <2>1, <2>2, CloseAlone
  <2>4. claimed' \in BOOLEAN /\ unsent' \in BOOLEAN
    BY <1>0, <1>1, Zenon DEF UnitStart, ServiceTypeOK
  <2>5. ServiceTypeOK'
    BY <1>0, <1>1, <2>3, <2>4 DEF UnitStart, ServiceTypeOK, bufferVars, gameVars
  <2>6. Quiet' /\ Disclaimed' /\ Removed' /\ LoadedWhile'
    <3>1. CASE claimed' = FALSE /\ loaded /\ GoTo(t, "removing") /\ UNCHANGED unsent
      <4>1. pc'[t] = "removing" /\ ~claimed'
        BY <1>0, <3>1 DEF GoTo, ServiceTypeOK
      <4>2. Quiet' /\ Disclaimed' /\ LoadedWhile'
        BY <1>0, <1>1, <2>3, <4>1 DEF UnitStart, Quiet, Disclaimed, LoadedWhile
      <4>3. Removed'
        BY <4>1 DEF Removed
      <4> QED BY <4>2, <4>3
    <3>2. CASE unsent' = (unsent \/ claimed) /\ UNCHANGED claimed
      <4>1. UNCHANGED <<hooked, claimed, refused, crossed, loaded>>
        BY <1>1, <3>2 DEF UnitStart
      <4>2. \A u \in Threads : pc[u] = "removing" => pc'[u] = "removing"
        BY <2>2, <2>3
      <4>3. Removed'
        BY <1>0, <4>1, <4>2 DEF Removed
      <4>4. claimed => unsent'
        BY <3>2, Zenon
      <4>5. Disclaimed'
        BY <4>1, <4>4 DEF Disclaimed
      <4>6. Quiet' /\ LoadedWhile'
        BY <1>0, <2>3, <4>1 DEF Quiet, LoadedWhile
      <4> QED BY <4>3, <4>5, <4>6
    <3> QED BY <1>1, <3>1, <3>2 DEF UnitStart
  <2>8. Ended' /\ ExitUnhooked'
    BY <1>0, <1>1 DEF UnitStart, Ended, ExitUnhooked
  <2> QED BY <2>3, <2>5, <2>6, <2>8 DEF ServiceInv
<1>2. CASE UnitEnd(t)
  <2>1. pc[t] = "removing" /\ GoTo(t, "destroy") /\ UNCHANGED <<kind, bufferVars>>
    BY <1>2 DEF UnitEnd
  <2>2. /\ pc' \in [Threads -> Labels] /\ pc'[t] = "destroy"
        /\ \A u \in Threads \ {t} : pc'[u] = pc[u]
        /\ pc[Main] \notin {"stream", "init"} /\ pc'[Main] \notin {"stream", "init"}
        /\ pc'[Main] = "registering" => pc[Main] = "registering"
        /\ BuffersAccounted'
    BY <2>1, CloseAlone
  <2>3. hooked' \in BOOLEAN /\ refused' \in BOOLEAN
    BY <1>0, <1>2, Zenon DEF UnitEnd, ServiceTypeOK
  <2>4. ServiceTypeOK'
    BY <1>0, <1>2, <2>2, <2>3 DEF UnitEnd, ServiceTypeOK, bufferVars, gameVars
  <2>5. Quiet'
    BY <2>2 DEF Quiet
  <2>6. Disclaimed'
    BY <1>0, <1>2, <2>1, <2>2 DEF UnitEnd, Disclaimed
  <2>7. Removed'
    <3>1. CASE refused' = TRUE
      BY <3>1 DEF Removed
    <3>2. CASE hooked' = (\E u \in Threads \ {t} : pc[u] = "removing")
      BY <2>2, <3>2 DEF Removed
    <3> QED BY <1>2, <3>1, <3>2 DEF UnitEnd
  <2>8. LoadedWhile' /\ Ended'
    BY <1>0, <1>2, <2>2 DEF UnitEnd, LoadedWhile, Ended
  <2>9. ExitUnhooked'
    BY <1>0, <1>2 DEF UnitEnd, Ended, ExitUnhooked
  <2> QED BY <2>2, <2>4, <2>5, <2>6, <2>7, <2>8, <2>9 DEF ServiceInv
<1>3. CASE Destroy(t)
  <2>1. pc[t] = "destroy" /\ GoTo(t, "exit") /\ UNCHANGED <<kind, bufferVars>>
    BY <1>3 DEF Destroy
  <2>2. /\ pc' \in [Threads -> Labels] /\ pc'[t] = "exit"
        /\ \A u \in Threads \ {t} : pc'[u] = pc[u]
        /\ pc[Main] \notin {"stream", "init"} /\ pc'[Main] \notin {"stream", "init"}
        /\ pc'[Main] = "registering" => pc[Main] = "registering"
        /\ BuffersAccounted'
    BY <2>1, CloseAlone
  <2>3. Quiet' /\ Ended' /\ ExitUnhooked'
    BY <1>0, <1>3, <2>2 DEF Destroy, Quiet, Ended, ExitUnhooked
  <2>4. CASE /\ loaded /\ \A u \in Threads : ~InRequest(u)
             /\ loaded' = FALSE /\ claimed' = FALSE
             /\ \/ hooked' = (hooked /\ ~claimed) /\ UNCHANGED refused
                \/ claimed /\ refused' = TRUE /\ UNCHANGED hooked
    <3>1. /\ loaded' \in BOOLEAN /\ claimed' \in BOOLEAN
          /\ hooked' \in BOOLEAN /\ refused' \in BOOLEAN
      BY <1>0, <2>4, Zenon DEF ServiceTypeOK
    <3>2. ServiceTypeOK'
      BY <1>0, <1>3, <2>2, <3>1 DEF Destroy, ServiceTypeOK, bufferVars, gameVars
    <3>3. Main \in Threads
      BY DEF Threads
    <3>4. Disclaimed' /\ LoadedWhile'
      BY <2>2, <2>4, <3>3 DEF Disclaimed, LoadedWhile, InRequest
    <3>5. UNCHANGED crossed
      BY <1>3 DEF Destroy
    <3>6. Removed'
      <4>1. CASE refused' = TRUE
        BY <4>1 DEF Removed
      <4>2. CASE hooked' = (hooked /\ ~claimed) /\ UNCHANGED refused
        BY <1>0, <2>4, <3>5, <4>2 DEF Removed, InRequest
      <4> QED BY <2>4, <4>1, <4>2
    <3> QED BY <2>2, <2>3, <3>2, <3>4, <3>6 DEF ServiceInv
  <2>5. CASE UNCHANGED <<loaded, hooked, claimed, refused>>
    <3>1. ServiceTypeOK'
      BY <1>0, <1>3, <2>2, <2>5 DEF Destroy, ServiceTypeOK, bufferVars, gameVars
    <3>2. UNCHANGED <<crossed, unsent>>
      BY <1>3 DEF Destroy
    <3>3. Removed' /\ LoadedWhile'
      BY <1>0, <2>1, <2>2, <2>5, <3>2 DEF Removed, LoadedWhile
    <3>4. Disclaimed'
      BY <1>0, <2>1, <2>2, <2>5, <3>2 DEF Disclaimed
    <3> QED BY <2>2, <2>3, <3>1, <3>3, <3>4 DEF ServiceInv
  <2> QED BY <1>3, <2>4, <2>5 DEF Destroy
<1>4. CASE Exit(t)
  <2>1. /\ alive /\ pc[t] = "exit" /\ alive' = FALSE /\ ending' = "handler"
        /\ UNCHANGED <<pc, kind, pid, bufferVars, torn, driverVars, gameVars, cause>>
        /\ \A u \in Threads : pc[u] # "removing"
    BY <1>4 DEF Exit, EndProcess, InRequest
  <2>a. alive' \in BOOLEAN
    BY <2>1, Zenon
  <2>2. ServiceTypeOK'
    BY <1>0, <2>1, <2>a DEF ServiceTypeOK, bufferVars, driverVars, gameVars
  <2>3. BuffersAccounted'
    BY <1>0, <2>1, OwnedSame, SameAccount
  <2>4. Quiet' /\ Removed' /\ Disclaimed' /\ LoadedWhile' /\ Ended'
    BY <1>0, <2>1 DEF Quiet, Removed, Disclaimed, LoadedWhile, Ended, driverVars, gameVars
  <2>5. ExitUnhooked'
    BY <1>0, <2>1 DEF Removed, Disclaimed, LoadedWhile, ExitUnhooked, driverVars
  <2> QED BY <2>2, <2>3, <2>4, <2>5 DEF ServiceInv
<1> QED BY <1>1, <1>2, <1>3, <1>4 DEF Close

LEMMA NextInv == ServiceInv /\ [Next]_vars => ServiceInv'
<1> SUFFICES ASSUME ServiceInv, [Next]_vars PROVE ServiceInv'
  OBVIOUS
<1>1. CASE MainStep
  BY <1>1, MainInv
<1>2. CASE World
  BY <1>2, WorldInv
<1>3. ASSUME NEW c \in Callbacks, Dispatch(c) PROVE ServiceInv'
  BY <1>3, DispatchInv
<1>4. ASSUME NEW t \in Threads, Close(t) PROVE ServiceInv'
  BY <1>4, CloseInv
<1>5. CASE UNCHANGED vars
  <2>0. ServiceTypeOK /\ BuffersAccounted
    BY DEF ServiceInv
  <2>1. ServiceTypeOK'
    BY <1>5, <2>0 DEF ServiceTypeOK, vars, bufferVars, driverVars, gameVars
  <2>2. BuffersAccounted'
    BY <1>5, <2>0, OwnedSame, SameAccount DEF vars
  <2>3. Quiet' /\ Removed' /\ Disclaimed' /\ LoadedWhile' /\ Ended' /\ ExitUnhooked'
    BY <1>5 DEF ServiceInv, Quiet, Removed, Disclaimed, LoadedWhile, Ended, ExitUnhooked,
       vars, driverVars, gameVars
  <2> QED BY <2>1, <2>2, <2>3 DEF ServiceInv
<1> QED BY <1>1, <1>2, <1>3, <1>4, <1>5 DEF Next
-----------------------------------------------------------------------------
LEMMA Invariance == Spec => []ServiceInv
BY InitInv, NextInv, PTL DEF Spec

(* Every variable of the service stays in its range.                       *)
THEOREM ServiceTypeCorrect == Spec => []ServiceTypeOK
<1>1. ServiceInv => ServiceTypeOK
  BY DEF ServiceInv
<1> QED BY <1>1, Invariance, PTL

(* Every event buffer has one owner or lost its thread, however many events *)
(* there are at a time.                                                    *)
THEOREM BuffersAccountedHolds == Spec => []BuffersAccounted
<1>1. ServiceInv => BuffersAccounted
  BY DEF ServiceInv
<1> QED BY <1>1, Invariance, PTL

(* A session that ends in the exception handler leaves no routine behind   *)
(* unless UNINITIALIZE and the unload both failed, however many threads    *)
(* close it.                                                               *)
THEOREM ExitUnhookedHolds == Spec => []ExitUnhooked
<1>1. ServiceInv => ExitUnhooked
  BY DEF ServiceInv
<1> QED BY <1>1, Invariance, PTL
=============================================================================
