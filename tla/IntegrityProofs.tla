--------------------------- MODULE IntegrityProofs ---------------------------
(***************************************************************************)
(* The integrity check for any number of bytes, any choice of sections and *)
(* any changes of the game's memory beside the scan.                       *)
(***************************************************************************)
EXTENDS Integrity, SequenceTheorems, FiniteSetTheorems, FunctionTheorems, TLAPS

Element == Patch \cup {Zero}

(* The scan has passed byte o.                                             *)
Passed(o) == pc \in {"copy", "post"} \/ (pc = "scan" /\ o < at)

(* What a turn holds, by the place of the thread.                          *)
Kept ==
  /\ blocks = (IF pc = "scan" THEN 1 ELSE 0) + (IF Capacity > 0 THEN 1 ELSE 0)
  /\ file <=> pc \in {"read", "scan"}
  /\ pc \in {"begin", "open", "read"} => storage = <<>> /\ size = 0
  /\ pc = "scan" => at > 0
  /\ pc # "scan" => at = 0
  /\ pc \in {"copy", "post"} => size > 0

(* What has been found so far: the differing bytes passed, in their order. *)
Collected ==
  pc \in {"scan", "copy", "post"} =>
    /\ \A i \in 1..size :
         /\ storage[i] \in Patch /\ Passed(storage[i].offset)
         /\ storage[i].offset \in Scanned /\ storage[i].value # Original
         /\ storage[i].offset \notin touched => storage[i].value = mem[storage[i].offset]
    /\ \A i, j \in 1..size : i < j => storage[i].offset < storage[j].offset
    /\ \A o \in Scanned \ touched :
         Passed(o) /\ mem[o] # Original => \E i \in 1..size : storage[i].offset = o

(* The patches in the service: those found, or none, from the copying on.  *)
Whole ==
  /\ pc \in {"post", "sleep"} => Len(list) \in {0, size}
  /\ pc \in {"open", "read", "scan", "copy"} => list = <<>>
  /\ pc = "sleep" /\ list # <<>> => event.result = "lost"

IntegrityInv ==
  /\ IntegrityTypeOK
  /\ Kept /\ Collected /\ Whole /\ EventWhole
-----------------------------------------------------------------------------
LEMMA FoundIs ==
  ASSUME IntegrityTypeOK
  PROVE  /\ Found \in Seq(Element) /\ Len(Found) = size
         /\ \A i \in 1..size : Found[i] = storage[i]
<1>1. size \in Nat /\ size <= Len(storage) /\ storage \in Seq(Element)
  BY DEF IntegrityTypeOK, Capacity, Element
<1>2. \A i \in 1..size : storage[i] \in Element
  BY <1>1
<1> QED BY <1>1, <1>2, SubSeqProperties DEF Found

(* A place is made for one more element, and those there are stay.         *)
LEMMA RoomEffect ==
  ASSUME IntegrityTypeOK
  PROVE  /\ Room \in Seq(Element) /\ Len(Room) >= size + 1
         /\ \A i \in 1..size : Room[i] = storage[i]
<1>1. /\ size \in Nat /\ size <= Len(storage) /\ storage \in Seq(Element)
      /\ Len(storage) \in Nat
  BY DEF IntegrityTypeOK, Capacity, Element
<1>2. CASE size < Capacity
  BY <1>1, <1>2 DEF Room, Capacity
<1>3. CASE ~(size < Capacity)
  <2> DEFINE n == IF Capacity = 0 THEN 1 ELSE 2 * Capacity
  <2>1. n \in Nat /\ n >= size + 1 /\ Room = Grown(n)
    BY <1>1, <1>3 DEF Room, Capacity
  <2> HIDE DEF n
  <2>2. Grown(n) \in [1..n -> Element]
    BY <1>1 DEF Grown, Element
  <2>3. Grown(n) \in Seq(Element) /\ Len(Grown(n)) = n
    BY <2>1, <2>2
  <2>4. \A j \in 1..size : Grown(n)[j] = storage[j]
    BY <1>1, <2>1 DEF Grown
  <2> QED BY <2>1, <2>3, <2>4
<1> QED BY <1>2, <1>3

LEMMA PushBackEffect ==
  ASSUME IntegrityTypeOK, NEW p \in Element, PushBack(p)
  PROVE  /\ storage' \in Seq(Element) /\ Len(storage') >= size + 1
         /\ size' = size + 1 /\ storage'[size + 1] = p
         /\ \A i \in 1..size : storage'[i] = storage[i]
<1>1. size \in Nat
  BY DEF IntegrityTypeOK, Capacity
<1>2. Room \in Seq(Element) /\ Len(Room) \in Nat /\ Len(Room) >= size + 1
  BY RoomEffect
<1>3. storage' = [Room EXCEPT ![size + 1] = p] /\ size' = size + 1
  BY DEF PushBack
<1>4. /\ storage' \in Seq(Element) /\ Len(storage') = Len(Room)
      /\ storage'[size + 1] = p
      /\ \A i \in 1..Len(Room) : i # size + 1 => storage'[i] = Room[i]
  BY <1>1, <1>2, <1>3
<1> QED BY <1>1, <1>2, <1>3, <1>4, RoomEffect

(* An initial segment of a list without repetition counts a set.           *)
LEMMA Counts ==
  ASSUME NEW n \in Nat, NEW S, NEW f \in [1..n -> S],
         \A i, j \in 1..n : i < j => f[i] # f[j],
         \A x \in S : \E i \in 1..n : f[i] = x
  PROVE  Cardinality(S) = n
<1>1. f \in Bijection(1..n, S)
  BY DEF Bijection, Injection, Surjection, IsInjective
<1>2. ExistsBijection(1..n, S)
  BY <1>1 DEF ExistsBijection
<1> QED BY <1>2, FS_CountingElements

-----------------------------------------------------------------------------
LEMMA InitInv == Init => IntegrityInv
<1> SUFFICES ASSUME Init PROVE IntegrityInv
  OBVIOUS
<1> USE IntegrityAssumption DEF Init
<1>1. Len(storage) = 0 /\ storage \in Seq(Element) /\ list \in Seq(Element)
  OBVIOUS
<1>2. event \in [result : {"none", "failed", "valid", "lost", "sent"},
                count : Nat, patches : Seq(Element)] /\ event.result = "none"
  BY DEF Nothing
<1>3. IntegrityTypeOK
  <2>1. file \in BOOLEAN
    OBVIOUS
  <2> QED BY <1>1, <1>2, <2>1 DEF IntegrityTypeOK, Capacity, Element
<1>4. Kept
  BY <1>1 DEF Kept, Capacity
<1>5. Collected /\ Whole /\ EventWhole
  BY <1>2 DEF Collected, Whole, EventWhole
<1> QED BY <1>3, <1>4, <1>5 DEF IntegrityInv

(* If nothing changed during the scan there are as many patches as bytes   *)
(* that differ.                                                            *)
LEMMA AllCounted ==
  ASSUME IntegrityInv, pc \in {"copy", "post"}, touched = {}
  PROVE  size = Cardinality({o \in Scanned : mem[o] # Original})
<1> DEFINE S == {o \in Scanned : mem[o] # Original}
<1> DEFINE f == [i \in 1..size |-> storage[i].offset]
<1>1. size \in Nat /\ Collected
  BY DEF IntegrityInv, IntegrityTypeOK, Capacity
<1>2. \A i \in 1..size : storage[i].offset \in S
  BY <1>1 DEF Collected
<1>3. \A i, j \in 1..size : i < j => f[i] # f[j]
  <2>1. \A i \in 1..size : storage[i].offset \in Nat
    BY <1>1 DEF Collected, Patch, Offsets
  <2>2. \A i, j \in 1..size : i < j => storage[i].offset < storage[j].offset
    BY <1>1 DEF Collected
  <2> QED BY <2>1, <2>2
<1>4. \A x \in S : \E i \in 1..size : f[i] = x
  BY <1>1 DEF Collected, Passed
<1>5. f \in [1..size -> S]
  BY <1>2
<1> HIDE DEF f, S
<1>6. Cardinality(S) = size
  BY <1>1, <1>3, <1>4, <1>5, Counts
<1> QED BY <1>6 DEF S

(* The memory changes.                                                     *)
LEMMA ChangeInv ==
  ASSUME IntegrityInv, NEW o \in Offsets, NEW v \in Values, Change(o, v)
  PROVE  IntegrityInv'
<1> USE DEF IntegrityInv, Change
<1>1. /\ mem' \in [Offsets -> Values] /\ touched' \subseteq Offsets /\ o \in touched'
      /\ touched' = touched \cup {o}
      /\ \A x \in Offsets \ {o} : mem'[x] = mem[x]
  BY DEF IntegrityTypeOK
<1>2. UNCHANGED <<pc, at, storage, size, blocks, file, list, event>>
  BY DEF vectorVars
<1>3. IntegrityTypeOK'
  BY <1>1, <1>2 DEF IntegrityTypeOK, Capacity
<1>4. Kept' /\ Whole'
  BY <1>2 DEF Kept, Whole, Capacity
<1>5. Collected'
  <2> SUFFICES ASSUME pc \in {"scan", "copy", "post"} PROVE Collected'
    BY <1>2 DEF Collected
  <2>1. \A i \in 1..size : storage[i].offset \in Offsets
    BY DEF Collected, Patch
  <2>2. \A x : Passed(x)' = Passed(x)
    BY <1>2 DEF Passed
  <2>3. Scanned \subseteq Offsets
    BY IntegrityAssumption DEF Offsets
  <2> QED BY <1>1, <1>2, <2>1, <2>2, <2>3 DEF Collected
<1>6. EventWhole'
  BY <1>1, <1>2 DEF EventWhole
<1> QED BY <1>3, <1>4, <1>5, <1>6

(* A byte is compared, and listed if it differs.                           *)
LEMMA ScanInv ==
  ASSUME IntegrityInv, Scan
  PROVE  IntegrityInv'
<1> USE IntegrityAssumption DEF IntegrityInv
<1>1. /\ pc = "scan" /\ at \in 1..Bytes /\ at' = at + 1 /\ at \in Nat
      /\ UNCHANGED <<mem, pc, file, list, event, touched>>
  BY DEF Scan, IntegrityTypeOK, Kept
<1>2. mem \in [Offsets -> Values] /\ size \in Nat
      /\ storage \in Seq(Element) /\ Len(storage) \in Nat /\ size <= Len(storage)
  BY DEF IntegrityTypeOK, Capacity, Element
<1>3. Whole' /\ EventWhole'
  BY <1>1 DEF Whole, EventWhole
<1>4. \A o \in Offsets : Passed(o)' <=> Passed(o) \/ o = at
  BY <1>1 DEF Passed, Offsets
<1>5. CASE at \in Scanned /\ mem[at] # Original
  <2> DEFINE p == [offset |-> at, value |-> mem[at]]
  <2>1. p \in Patch /\ p \in Element /\ p.offset = at /\ p.value = mem[at]
    BY <1>1, <1>2 DEF Patch, Offsets, Element
  <2>2. PushBack(p) /\ blocks' = IF Capacity = 0 THEN blocks + 1 ELSE blocks
    BY <1>5 DEF Scan, PushBack
  <2> HIDE DEF p
  <2>3. /\ storage' \in Seq(Element) /\ Len(storage') \in Nat /\ Len(storage') >= size + 1
        /\ size' = size + 1 /\ storage'[size + 1] = p
        /\ \A i \in 1..size : storage'[i] = storage[i]
    BY <2>1, <2>2, PushBackEffect
  <2>4. IntegrityTypeOK'
    BY <1>1, <1>2, <2>2, <2>3 DEF IntegrityTypeOK, Capacity, Element
  <2>5. Kept'
    BY <1>1, <1>2, <2>2, <2>3 DEF Kept, Capacity
  <2>6. Collected'
    <3>1. \A i \in 1..size :
            /\ storage[i] \in Patch /\ storage[i].offset < at
            /\ storage[i].offset \in Scanned /\ storage[i].value # Original
            /\ storage[i].offset \notin touched =>
                 storage[i].value = mem[storage[i].offset]
      BY <1>1 DEF Collected, Passed
    <3>2. \A i \in 1..size' : i \in 1..size \/ i = size + 1
      BY <1>2, <2>3
    <3>3. \A i \in 1..size' :
            /\ storage'[i] \in Patch /\ storage'[i].offset < at'
            /\ storage'[i].offset \in Scanned /\ storage'[i].value # Original
            /\ storage'[i].offset \notin touched =>
                 storage'[i].value = mem[storage'[i].offset]
      <4> TAKE i \in 1..size'
      <4>1. CASE i \in 1..size
        <5>1. storage'[i] = storage[i] /\ storage[i].offset \in Nat
          BY <2>3, <3>1, <4>1 DEF Patch, Offsets
        <5> QED BY <1>1, <3>1, <4>1, <5>1
      <4>2. CASE i = size + 1
        BY <1>1, <1>5, <2>1, <2>3, <4>2
      <4> QED BY <3>2, <4>1, <4>2
    <3>4. \A i, j \in 1..size' : i < j => storage'[i].offset < storage'[j].offset
      <4> SUFFICES ASSUME NEW i \in 1..size', NEW j \in 1..size', i < j
                   PROVE  storage'[i].offset < storage'[j].offset
        OBVIOUS
      <4>1. i \in 1..size
        BY <1>2, <2>3
      <4>2. CASE j \in 1..size
        BY <1>1, <2>3, <4>1, <4>2 DEF Collected
      <4>3. CASE j = size + 1
        BY <2>1, <2>3, <3>1, <4>1, <4>3
      <4> QED BY <3>2, <4>2, <4>3
    <3>5. \A o \in Scanned \ touched :
            Passed(o)' /\ mem[o] # Original => \E i \in 1..size' : storage'[i].offset = o
      <4> SUFFICES ASSUME NEW o \in Scanned \ touched, Passed(o)', mem[o] # Original
                   PROVE  \E i \in 1..size' : storage'[i].offset = o
        OBVIOUS
      <4>1. CASE o = at
        BY <1>2, <2>1, <2>3, <4>1
      <4>2. CASE Passed(o)
        <5>1. PICK i \in 1..size : storage[i].offset = o
          BY <1>1, <4>2 DEF Collected
        <5> QED BY <5>1, <1>2, <2>3
      <4> QED BY <1>4, <4>1, <4>2 DEF Offsets
    <3> QED BY <1>1, <3>3, <3>4, <3>5 DEF Collected, Passed
  <2> QED BY <1>3, <2>4, <2>5, <2>6
<1>6. CASE ~(at \in Scanned /\ mem[at] # Original)
  <2>1. UNCHANGED <<storage, size, blocks>>
    BY <1>6 DEF Scan, vectorVars
  <2>2. IntegrityTypeOK' /\ Kept'
    BY <1>1, <1>2, <2>1 DEF IntegrityTypeOK, Kept, Capacity
  <2>3. Collected'
    <3>1. \A i \in 1..size : storage[i].offset \in Offsets
      BY <1>1 DEF Collected, Patch
    <3>2. Scanned \subseteq Offsets
      BY DEF Offsets
    <3> QED BY <1>1, <1>4, <1>6, <2>1, <3>1, <3>2 DEF Collected
  <2> QED BY <1>3, <2>2, <2>3
<1> QED BY <1>5, <1>6

(* The patches become an event.                                            *)
LEMMA DeliverInv ==
  ASSUME IntegrityInv, CopyPatches \/ PostEvent
  PROVE  IntegrityInv'
<1> USE DEF IntegrityInv
<1>1. size \in Nat /\ size > 0
  BY DEF IntegrityTypeOK, Capacity, Kept, CopyPatches, PostEvent
<1>2. CASE CopyPatches
  <2>1. [i \in 1..size |-> Zero] \in Seq(Element) /\ Len([i \in 1..size |-> Zero]) = size
    <3>1. [i \in 1..size |-> Zero] \in [1..size -> Element]
      BY DEF Element
    <3> QED BY <1>1, <3>1
  <2>2. <<>> \in Seq(Element) /\ Len(<<>>) = 0
    OBVIOUS
  <2>3. list' \in Seq(Element) /\ Len(list') \in {0, size}
    BY <1>2, <2>1, <2>2, FoundIs DEF CopyPatches
  <2>4. /\ pc = "copy" /\ pc' = "post"
        /\ UNCHANGED <<mem, at, storage, size, blocks, file, event, touched>>
    BY <1>2 DEF CopyPatches, vectorVars
  <2> QED
    BY <2>3, <2>4 DEF IntegrityTypeOK, Capacity, Element, Kept, Collected, Passed, Whole,
                      EventWhole
<1>3. CASE PostEvent
  <2>1. /\ pc = "post" /\ pc' = "sleep"
        /\ UNCHANGED <<mem, at, storage, size, blocks, file, touched>>
    BY <1>3 DEF PostEvent, EndTurn, vectorVars
  <2>2. \/ event' = [result |-> "sent", count |-> size, patches |-> list] /\ list' = <<>>
        \/ event' = [result |-> "lost", count |-> 0, patches |-> <<>>] /\ list' = list
    BY <1>3 DEF PostEvent, EndTurn, Nothing
  <2>3. list \in Seq(Element) /\ Len(list) \in {0, size}
    BY <2>1 DEF IntegrityTypeOK, Element, Whole
  <2>4. event' \in [result : {"none", "failed", "valid", "lost", "sent"},
                     count : Nat, patches : Seq(Element)]
    <3>1. CASE event' = [result |-> "sent", count |-> size, patches |-> list]
      BY <1>1, <2>3, <3>1
    <3>2. CASE event' = [result |-> "lost", count |-> 0, patches |-> <<>>]
      <4>1. <<>> \in Seq(Element)
        OBVIOUS
      <4> QED BY <3>2, <4>1
    <3> QED BY <2>2, <3>1, <3>2
  <2>a. list' \in Seq(Element) /\ Len(list') \in {0, size}
    BY <2>2, <2>3, EmptySeq
  <2>5. IntegrityTypeOK'
    BY <2>1, <2>4, <2>a DEF IntegrityTypeOK, Capacity, Element
  <2>6. Kept' /\ Collected'
    BY <2>1 DEF Kept, Capacity, Collected
  <2>b. Whole'
    BY <2>1, <2>2, <2>a DEF Whole
  <2>7. touched = {} => size = Cardinality({o \in Scanned : mem[o] # Original})
    BY <2>1, AllCounted
  <2>8. EventWhole'
    BY <1>1, <2>1, <2>2, <2>3, <2>7 DEF EventWhole
  <2> QED BY <2>5, <2>6, <2>8, <2>b
<1> QED BY <1>2, <1>3

LEMMA NextInv == IntegrityInv /\ [Next]_vars => IntegrityInv'
<1> SUFFICES ASSUME IntegrityInv, [Next]_vars PROVE IntegrityInv'
  OBVIOUS
<1> USE IntegrityAssumption DEF IntegrityInv
<1>0. /\ IntegrityTypeOK /\ Kept /\ Collected /\ Whole /\ EventWhole
      /\ storage \in Seq(Element) /\ Len(storage) \in Nat /\ size \in Nat
  BY DEF IntegrityTypeOK, Capacity, Element
<1>1. \A r \in {"none", "failed", "valid", "lost"} :
        /\ Nothing(r) \in [result : {"none", "failed", "valid", "lost", "sent"},
                            count : Nat, patches : Seq(Element)]
        /\ Nothing(r).result = r
  BY DEF Nothing
<1>2. ASSUME NEW o \in Offsets, NEW v \in Values, Change(o, v) PROVE IntegrityInv'
  BY <1>2, ChangeInv
<1>3. CASE Begin
  <2>1. /\ pc = "begin" /\ pc' = "open" /\ touched' = {} /\ list' = <<>>
        /\ UNCHANGED <<mem, at, storage, size, blocks, file, event>>
    BY <1>3 DEF Begin, vectorVars
  <2>2. list' \in Seq(Element)
    BY <2>1
  <2> QED
    BY <1>0, <2>1, <2>2 DEF IntegrityTypeOK, Capacity, Kept, Collected, Whole, EventWhole
<1>4. CASE OpenFile
  <2>1. /\ pc = "open" /\ UNCHANGED <<mem, at, storage, size, blocks, list, touched>>
        /\ \/ pc' = "read" /\ file' = TRUE /\ event' = event
           \/ pc' = "sleep" /\ file' = file /\ event' = Nothing("failed")
    BY <1>4 DEF OpenFile, EndTurn, vectorVars
  <2>2. file' \in BOOLEAN
    BY <1>0, <2>1 DEF IntegrityTypeOK
  <2>3. IntegrityTypeOK'
    BY <1>0, <1>1, <2>1, <2>2 DEF IntegrityTypeOK, Capacity, Element
  <2> QED
    BY <1>0, <1>1, <2>1, <2>3 DEF Capacity, Kept, Collected, Whole, EventWhole
<1>5. CASE ReadFile
  <2>1. /\ pc = "read" /\ UNCHANGED <<mem, storage, size, list, touched>>
        /\ \/ /\ pc' = "scan" /\ at' = 1 /\ blocks' = blocks + 1
              /\ UNCHANGED <<file, event>>
           \/ /\ pc' = "sleep" /\ event' = Nothing("failed") /\ file' = FALSE
              /\ UNCHANGED <<at, blocks>>
    BY <1>5 DEF ReadFile, EndTurn, vectorVars
  <2>2. file' \in BOOLEAN
    BY <1>0, <2>1 DEF IntegrityTypeOK
  <2>3. IntegrityTypeOK'
    <3>1. 1 \in 0..Bytes + 1
      OBVIOUS
    <3>2. at' \in 0..Bytes + 1 /\ blocks' \in Nat
      BY <1>0, <2>1, <3>1 DEF IntegrityTypeOK
    <3>3. event' \in [result : {"none", "failed", "valid", "lost", "sent"},
                      count : Nat, patches : Seq(Element)]
      BY <1>0, <1>1, <2>1 DEF IntegrityTypeOK, Element
    <3>4. pc' \in {"begin", "open", "read", "scan", "copy", "post", "sleep"}
      BY <2>1
    <3> QED
      BY <1>0, <2>1, <2>2, <3>2, <3>3, <3>4 DEF IntegrityTypeOK, Capacity, Element
  <2>4. size = 0 /\ storage = <<>> /\ blocks = 0 /\ at = 0 /\ file
    BY <1>0, <2>1 DEF Kept, Capacity
  <2>5. Kept'
    <3>1. Len(storage) = 0 /\ ~(0 > 0) /\ storage' = storage /\ size' = 0
      BY <2>1, <2>4
    <3>2. CASE pc' = "scan"
      BY <2>1, <2>4, <3>1, <3>2 DEF Capacity, Kept
    <3>3. CASE pc' = "sleep"
      BY <2>1, <2>4, <3>1, <3>3 DEF Capacity, Kept
    <3> QED BY <2>1, <3>2, <3>3
  <2>6. Whole' /\ EventWhole'
    BY <1>0, <1>1, <2>1 DEF Whole, EventWhole
  <2>7. Collected'
    <3>1. CASE pc' = "scan"
      <4>1. size' = 0 /\ at' = 1 /\ \A o \in Scanned : ~(o < at')
        BY <2>1, <2>4, <3>1
      <4> QED BY <3>1, <4>1 DEF Collected, Passed
    <3>2. CASE pc' = "sleep"
      BY <3>2 DEF Collected
    <3> QED BY <2>1, <3>1, <3>2
  <2> QED BY <2>3, <2>5, <2>6, <2>7
<1>6. CASE Scan
  BY <1>6, ScanInv
<1>7. CASE Verified
  <2>1. /\ pc = "scan" /\ at > Bytes /\ blocks' = blocks - 1 /\ file' = FALSE /\ at' = 0
        /\ UNCHANGED <<mem, storage, size, list, touched>>
        /\ \/ size = 0 /\ pc' = "sleep" /\ event' = Nothing("valid")
           \/ size # 0 /\ pc' = "copy" /\ event' = event
    BY <1>7 DEF Verified, EndTurn, vectorVars
  <2>2. file' \in BOOLEAN
    BY <2>1
  <2>3. IntegrityTypeOK'
    BY <1>0, <1>1, <2>1, <2>2 DEF IntegrityTypeOK, Kept, Capacity, Element
  <2>4. Kept' /\ Whole' /\ EventWhole'
    BY <1>0, <1>1, <2>1 DEF Capacity, Kept, Whole, EventWhole
  <2>5. \A o \in Offsets : Passed(o)
    BY <1>0, <2>1 DEF Passed, Offsets, IntegrityTypeOK
  <2>6. Collected'
    BY <1>0, <2>1, <2>5 DEF Collected, Passed, Offsets
  <2> QED BY <2>3, <2>4, <2>6
<1>8. CASE CopyPatches \/ PostEvent
  BY <1>8, DeliverInv
<1>9. CASE Destroy
  <2>1. /\ pc = "sleep" /\ pc' = "begin" /\ storage' = <<>> /\ size' = 0
        /\ blocks' = IF Capacity > 0 THEN blocks - 1 ELSE blocks
        /\ UNCHANGED <<mem, at, file, list, event, touched>>
    BY <1>9 DEF Destroy
  <2>2. <<>> \in Seq(Element) /\ Len(<<>>) = 0
    OBVIOUS
  <2>3. IntegrityTypeOK'
    BY <1>0, <2>1, <2>2 DEF IntegrityTypeOK, Kept, Capacity, Element
  <2> QED
    BY <1>0, <2>1, <2>2, <2>3 DEF Capacity, Kept, Collected, Whole, EventWhole
<1>10. CASE UNCHANGED vars
  <2>1. UNCHANGED <<mem, pc, at, storage, size, blocks, file, list, event, touched>>
    BY <1>10 DEF vars, vectorVars
  <2> QED
    BY <1>0, <2>1 DEF IntegrityTypeOK, Capacity, Kept, Collected, Passed, Whole, EventWhole
<1> QED
  BY <1>2, <1>3, <1>4, <1>5, <1>6, <1>7, <1>8, <1>9, <1>10 DEF Next, Turn

-----------------------------------------------------------------------------
LEMMA InvHolds == Spec => []IntegrityInv
BY InitInv, NextInv, PTL DEF Spec

(* The variables keep to their types; the vector never has more elements   *)
(* than its block has room for.                                            *)
THEOREM IntegrityTypeCorrect == Spec => []IntegrityTypeOK
<1>1. IntegrityInv => IntegrityTypeOK
  BY DEF IntegrityInv
<1> QED BY <1>1, InvHolds, PTL

(* The list of patches is exact, whatever changed during the scan.         *)
THEOREM PatchesExactHolds == Spec => []PatchesExact
<1>1. IntegrityInv => PatchesExact
  <2> SUFFICES ASSUME IntegrityInv, pc \in {"copy", "post"} \/ (pc = "scan" /\ at > Bytes)
               PROVE  PatchesExact
    BY DEF PatchesExact
  <2>1. size \in Nat /\ \A i \in 1..size : Found[i] = storage[i]
    BY FoundIs DEF IntegrityInv, IntegrityTypeOK, Capacity
  <2>2. \A o \in Scanned : Passed(o)
    BY IntegrityAssumption DEF IntegrityInv, IntegrityTypeOK, Passed
  <2> HIDE DEF Found
  <2> QED BY <2>1, <2>2 DEF IntegrityInv, Collected, PatchesExact
<1> QED BY <1>1, InvHolds, PTL

(* An event that is sent is whole.                                         *)
THEOREM EventWholeHolds == Spec => []EventWhole
<1>1. IntegrityInv => EventWhole
  BY DEF IntegrityInv
<1> QED BY <1>1, InvHolds, PTL

(* A turn gives back what it took in the game, and leaves patches behind   *)
(* in the service only if their event was lost.                            *)
THEOREM TurnReleasesHolds == Spec => []TurnReleases
<1>1. IntegrityInv => TurnReleases
  <2> SUFFICES ASSUME IntegrityInv PROVE TurnReleases
    OBVIOUS
  <2>1. list \in Seq(Element) /\ (Len(list) = 0 => list = <<>>)
    BY EmptySeq DEF IntegrityInv, IntegrityTypeOK, Element
  <2> QED BY <2>1 DEF IntegrityInv, Kept, Whole, Capacity, TurnReleases
<1> QED BY <1>1, InvHolds, PTL
=============================================================================
