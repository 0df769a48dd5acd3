------------------------------ MODULE MmuProofs ------------------------------
(***************************************************************************)
(* The allocation table for any set of blocks and any size of a chunk.     *)
(***************************************************************************)
EXTENDS Mmu, TLAPS

(* A function on an initial segment of the naturals is a sequence.         *)
LEMMA SegmentIsSeq ==
  ASSUME NEW S, NEW m \in Nat, NEW f \in [1..m -> S]
  PROVE  f \in Seq(S) /\ Len(f) = m
OBVIOUS

(* Removing an entry by moving the later ones down leaves a table without  *)
(* doubles whose entries are the others.                                   *)
LEMMA WithoutEntry ==
  ASSUME NEW i \in DOMAIN table, table \in Seq(Blocks),
         \A j, k \in DOMAIN table : table[j] = table[k] => j = k
  PROVE  /\ Without(i) \in Seq(Blocks)
         /\ Len(Without(i)) = Len(table) - 1
         /\ {Without(i)[j] : j \in DOMAIN Without(i)} = Entries \ {table[i]}
         /\ \A j, k \in DOMAIN Without(i) : Without(i)[j] = Without(i)[k] => j = k
<1> DEFINE n == Len(table)
<1> DEFINE w == Without(i)
<1>1. n \in Nat /\ DOMAIN table = 1..n /\ i \in 1..n /\ n - 1 \in Nat
      /\ \A j \in 1..n : table[j] \in Blocks
  OBVIOUS
<1>2. /\ DOMAIN w = 1..(n - 1)
      /\ \A j \in 1..(n - 1) : w[j] = IF j < i THEN table[j] ELSE table[j + 1]
  BY DEF Without
<1>3. \A j \in 1..(n - 1) : j \in 1..n /\ j + 1 \in 1..n
  BY <1>1
<1>4. w \in [1..(n - 1) -> Blocks]
  BY <1>1, <1>3 DEF Without
<1>5. w \in Seq(Blocks) /\ Len(w) = n - 1
  BY <1>1, <1>4, SegmentIsSeq
<1>6. \A j, k \in DOMAIN w : w[j] = w[k] => j = k
  <2> HIDE DEF w
  <2> SUFFICES ASSUME NEW j \in 1..(n - 1), NEW k \in 1..(n - 1), w[j] = w[k] PROVE j = k
    BY <1>2
  <2> DEFINE from(x) == IF x < i THEN x ELSE x + 1
  <2>1. from(j) \in 1..n /\ from(k) \in 1..n /\ table[from(j)] = table[from(k)]
    BY <1>2, <1>3
  <2>2. from(j) = from(k)
    BY <2>1, <1>1
  <2> QED BY <2>2, <1>1
<1>7. \A j \in DOMAIN w : w[j] \in Entries \ {table[i]}
  <2> HIDE DEF w
  <2> SUFFICES ASSUME NEW j \in 1..(n - 1) PROVE w[j] \in Entries \ {table[i]}
    BY <1>2
  <2>1. PICK m \in 1..n : m # i /\ w[j] = table[m]
    BY <1>1, <1>2, <1>3
  <2> QED BY <2>1, <1>1 DEF Entries
<1>8. ASSUME NEW b \in Entries \ {table[i]} PROVE \E j \in DOMAIN w : w[j] = b
  <2> HIDE DEF w
  <2>1. PICK m \in 1..n : table[m] = b /\ m # i
    BY <1>1 DEF Entries
  <2>2. CASE m < i
    <3>1. m \in 1..(n - 1) /\ w[m] = b
      BY <2>1, <2>2, <1>1, <1>2
    <3> QED BY <3>1, <1>2
  <2>3. CASE m > i
    <3>1. (m - 1) \in 1..(n - 1) /\ ~(m - 1 < i) /\ (m - 1) + 1 = m
      BY <2>3, <1>1
    <3>2. w[m - 1] = b
      BY <3>1, <2>1, <1>2
    <3> QED BY <3>1, <3>2, <1>2
  <2> QED BY <2>1, <2>2, <2>3, <1>1
<1>9. {w[j] : j \in DOMAIN w} = Entries \ {table[i]}
  <2> HIDE DEF w
  <2> QED BY <1>7, <1>8
<1> QED BY <1>5, <1>6, <1>9

(* What freeEx does to the parts of the invariant.                         *)
LEMMA FreeExEffect ==
  ASSUME MmuTypeOK, TableExact, phase # "unloaded",
         NEW i \in DOMAIN table, freeEx(i)
  PROVE  /\ table' \in Seq(Blocks) /\ live' \subseteq Blocks
         /\ Len(table') = Len(table) - 1 /\ Len(table) \in Nat \ {0}
         /\ Entries' = live'
         /\ \A j, k \in DOMAIN table' : table'[j] = table'[k] => j = k
<1>1. /\ table \in Seq(Blocks) /\ Entries = live
      /\ \A j, k \in DOMAIN table : table[j] = table[k] => j = k
  BY DEF MmuTypeOK, TableExact
<1>2. table' = Without(i) /\ live' = live \ {table[i]}
  BY DEF freeEx
<1>3. Entries' = Entries \ {table[i]}
  <2>1. {Without(i)[j] : j \in DOMAIN Without(i)} = Entries \ {table[i]}
    BY <1>1, WithoutEntry
  <2>2. Entries' = {table'[j] : j \in DOMAIN table'}
    BY DEF Entries
  <2> QED BY <1>2, <2>1, <2>2
<1>4. /\ table' \in Seq(Blocks) /\ Len(table') = Len(table) - 1
      /\ \A j, k \in DOMAIN table' : table'[j] = table'[k] => j = k
  BY <1>1, <1>2, WithoutEntry
<1>5. live \subseteq Blocks
  BY DEF MmuTypeOK
<1>6. Len(table) \in Nat \ {0}
  BY <1>1
<1> QED BY <1>1, <1>2, <1>3, <1>4, <1>5, <1>6

-----------------------------------------------------------------------------
LEMMA InitInv == Init => MmuInv
<1> SUFFICES ASSUME Init PROVE MmuInv
  OBVIOUS
<1>1. MmuTypeOK
  BY MmuAssumption DEF Init, MmuTypeOK
<1>2. Sized
  BY MmuAssumption DEF Init, Sized
<1>3. TableExact
  BY DEF Init, TableExact, Entries
<1> QED BY <1>1, <1>2, <1>3 DEF MmuInv

LEMMA AllocateInv ==
  ASSUME MmuInv, NEW b \in Blocks, Allocate(b)
  PROVE  MmuInv'
<1> USE DEF Allocate
<1>1. /\ table \in Seq(Blocks) /\ chunks \in Nat \ {0} /\ capacity \in Nat
      /\ live \subseteq Blocks /\ Entries = live
      /\ \A i, j \in DOMAIN table : table[i] = table[j] => i = j
      /\ ChunkSize \in Nat \ {0}
  BY MmuAssumption DEF MmuInv, MmuTypeOK, TableExact
<1>2. /\ table' = Append(table, b) /\ Len(table') = Len(table) + 1 /\ Len(table) \in Nat
      /\ \A i \in DOMAIN table : table'[i] = table[i]
      /\ table'[Len(table) + 1] = b
      /\ DOMAIN table' = DOMAIN table \cup {Len(table) + 1}
  BY <1>1
<1>3. Sized' /\ chunks' \in Nat \ {0} /\ capacity' \in Nat
  <2>1. capacity = chunks * ChunkSize /\ Len(table) <= capacity
    BY DEF MmuInv, Sized
  <2>2. CASE Grow
    <3>1. chunks' = chunks + 1 /\ capacity' = chunks' * ChunkSize
      BY <2>2
    <3>2. (chunks + 1) * ChunkSize = chunks * ChunkSize + ChunkSize
      BY <1>1
    <3>3. Len(table') <= capacity' /\ capacity' \in Nat
      BY <1>1, <1>2, <2>1, <3>1, <3>2
    <3> QED BY <1>1, <3>1, <3>3 DEF Sized
  <2>3. CASE ~Grow
    <3>1. chunks' = chunks /\ capacity' = capacity
      BY <2>3
    <3>2. Len(table) < capacity
      BY <2>1, <2>3, <1>1, <1>2 DEF Grow
    <3>3. Len(table') <= capacity'
      BY <1>1, <1>2, <3>1, <3>2
    <3> QED BY <1>1, <2>1, <3>1, <3>3 DEF Sized
  <2> QED BY <2>2, <2>3
<1>4. MmuTypeOK'
  <2>1. table' \in Seq(Blocks) /\ live' \subseteq Blocks
    BY <1>1
  <2> QED BY <2>1, <1>3 DEF MmuInv, MmuTypeOK
<1>5. TableExact'
  <2>1. b \notin Entries
    BY <1>1
  <2>2. Entries' = Entries \cup {b}
    BY <1>2 DEF Entries
  <2>3. \A i, j \in DOMAIN table' : table'[i] = table'[j] => i = j
    BY <1>1, <1>2, <2>1 DEF Entries
  <2> QED BY <1>1, <2>2, <2>3 DEF TableExact
<1> QED BY <1>3, <1>4, <1>5 DEF MmuInv

LEMMA FreeInv ==
  ASSUME MmuInv, NEW b \in Blocks, Free(b)
  PROVE  MmuInv'
<1>1. PICK i \in DOMAIN table : freeEx(i)
  BY DEF Free
<1>2. phase = "loaded" /\ UNCHANGED <<chunks, capacity, cursor, phase>>
  BY DEF Free
<1>3. /\ table' \in Seq(Blocks) /\ live' \subseteq Blocks
      /\ Len(table') = Len(table) - 1 /\ Len(table) \in Nat \ {0}
      /\ Entries' = live'
      /\ \A j, k \in DOMAIN table' : table'[j] = table'[k] => j = k
  BY <1>1, <1>2, FreeExEffect DEF MmuInv
<1>4. MmuTypeOK'
  BY <1>2, <1>3 DEF MmuInv, MmuTypeOK
<1>5. Sized'
  BY <1>2, <1>3 DEF MmuInv, MmuTypeOK, Sized
<1>6. TableExact'
  BY <1>3 DEF TableExact
<1> QED BY <1>4, <1>5, <1>6 DEF MmuInv

LEMMA ReleaseStepInv ==
  ASSUME MmuInv, ReleaseStep
  PROVE  MmuInv'
<1>1. /\ phase = "releasing" /\ UNCHANGED <<chunks, capacity, phase>>
      /\ cursor < Len(table) /\ cursor' = cursor + 1 /\ freeEx(cursor + 1)
      /\ cursor \in Nat
  BY DEF ReleaseStep, MmuInv, MmuTypeOK
<1>2. cursor + 1 \in DOMAIN table
  BY <1>1 DEF MmuInv, MmuTypeOK
<1>3. /\ table' \in Seq(Blocks) /\ live' \subseteq Blocks
      /\ Len(table') = Len(table) - 1 /\ Len(table) \in Nat \ {0}
      /\ Entries' = live'
      /\ \A j, k \in DOMAIN table' : table'[j] = table'[k] => j = k
  BY <1>1, <1>2, FreeExEffect DEF MmuInv
<1>4. MmuTypeOK'
  BY <1>1, <1>3 DEF MmuInv, MmuTypeOK
<1>5. Sized'
  BY <1>1, <1>3 DEF MmuInv, MmuTypeOK, Sized
<1>6. TableExact'
  BY <1>3 DEF TableExact
<1> QED BY <1>4, <1>5, <1>6 DEF MmuInv

LEMMA FinishReleaseInv ==
  ASSUME MmuInv, FinishRelease
  PROVE  MmuInv'
<1> USE DEF FinishRelease
<1>1. MmuTypeOK'
  BY DEF MmuInv, MmuTypeOK
<1>2. Sized'
  BY DEF MmuInv, MmuTypeOK, Sized
<1>3. TableExact'
  BY DEF TableExact
<1> QED BY <1>1, <1>2, <1>3 DEF MmuInv

LEMMA NextInv == MmuInv /\ [Next]_vars => MmuInv'
<1> SUFFICES ASSUME MmuInv, [Next]_vars PROVE MmuInv'
  OBVIOUS
<1>1. ASSUME NEW b \in Blocks, Allocate(b) PROVE MmuInv'
  BY <1>1, AllocateInv
<1>2. ASSUME NEW b \in Blocks, Free(b) PROVE MmuInv'
  BY <1>2, FreeInv
<1>3. CASE StartRelease
  BY <1>3 DEF StartRelease, MmuInv, MmuTypeOK, Sized, TableExact, Entries
<1>4. CASE ReleaseStep
  BY <1>4, ReleaseStepInv
<1>5. CASE FinishRelease
  BY <1>5, FinishReleaseInv
<1>6. CASE UNCHANGED vars
  BY <1>6 DEF vars, MmuInv, MmuTypeOK, Sized, TableExact, Entries
<1> QED BY <1>1, <1>2, <1>3, <1>4, <1>5, <1>6 DEF Next

LEMMA Invariant == Spec => []MmuInv
BY InitInv, NextInv, PTL DEF Spec

(* Every variable has its type: mmu::Init, Allocate, Free and Release.     *)
THEOREM MmuTypeCorrect == Spec => []MmuTypeOK
<1>1. MmuInv => MmuTypeOK
  BY DEF MmuInv
<1> QED BY <1>1, Invariant, PTL

(* allocateEx never writes behind the block at g_allocs.                   *)
THEOREM InBoundsHolds == Spec => []InBounds
<1>1. MmuInv => InBounds
  BY DEF MmuInv, Sized, InBounds
<1> QED BY <1>1, Invariant, PTL

(* freeEx keeps the table equal to what the system has handed out.         *)
THEOREM TableExactHolds == Spec => []TableExact
<1>1. MmuInv => TableExact
  BY DEF MmuInv
<1> QED BY <1>1, Invariant, PTL
=============================================================================
