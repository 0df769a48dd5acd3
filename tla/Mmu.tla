--------------------------------- MODULE Mmu ---------------------------------
(***************************************************************************)
(* The driver's table of allocations (Kernel/mmu.cpp): it grows by chunks, *)
(* is kept without gaps, and is emptied by Release when the driver         *)
(* unloads.  Release is a loop by index over a table that each freeEx      *)
(* shortens, so it is modelled one turn at a time; of n blocks it leaves   *)
(* n \div 2 with the system.  Allocate's only caller, findKernelBase, is    *)
(* called by nobody: in this program the table stays empty.                *)
(***************************************************************************)
EXTENDS Naturals, FiniteSets, Sequences

CONSTANTS Blocks,     \* addresses the system can hand out
          ChunkSize   \* chunk_size

ASSUME MmuAssumption == IsFiniteSet(Blocks) /\ ChunkSize \in Nat \ {0}

VARIABLES
  table,      \* g_allocs up to g_alloc_count
  chunks,     \* g_chunk_count
  capacity,   \* entries the block behind g_allocs has room for
  live,       \* blocks the system has handed out and not got back
  cursor,     \* turns Release has behind it
  phase       \* "loaded", "releasing", "unloaded"

vars == <<table, chunks, capacity, live, cursor, phase>>

Entries == {table[i] : i \in DOMAIN table}

(* The table without its i-th entry: the later ones move down.             *)
Without(i) ==
  [j \in 1..(Len(table) - 1) |-> IF j < i THEN table[j] ELSE table[j + 1]]

-----------------------------------------------------------------------------
(* Mutant of Grow: the table is full at its capacity, not before.          *)
GrowLate == Len(table) > chunks * ChunkSize

Grow == Len(table) >= chunks * ChunkSize

(* allocateEx, with Reallocate if the table is full.                       *)
Allocate(b) ==
  /\ phase = "loaded"
  /\ b \notin live
  /\ IF Grow
       THEN chunks' = chunks + 1 /\ capacity' = chunks' * ChunkSize
       ELSE UNCHANGED <<chunks, capacity>>
  /\ table' = Append(table, b)
  /\ live' = live \cup {b}
  /\ UNCHANGED <<cursor, phase>>

(* Mutant of freeEx: the entries move down from one place too late.        *)
freeExLate(i) ==
  /\ table' = [j \in 1..(Len(table) - 1) |-> IF j <= i THEN table[j] ELSE table[j + 1]]
  /\ live' = live \ {table[i]}

freeEx(i) ==
  /\ table' = Without(i)
  /\ live' = live \ {table[i]}

(* Free: Find, and freeEx if there is an entry.                            *)
Free(b) ==
  /\ phase = "loaded"
  /\ \E i \in DOMAIN table : table[i] = b /\ freeEx(i)
  /\ UNCHANGED <<chunks, capacity, cursor, phase>>

(* driverUnload calls Release.                                             *)
StartRelease ==
  /\ phase = "loaded"
  /\ phase' = "releasing"
  /\ cursor' = 0
  /\ UNCHANGED <<table, chunks, capacity, live>>

ReleaseStep ==
  /\ phase = "releasing"
  /\ cursor < Len(table)
  /\ freeEx(cursor + 1)
  /\ cursor' = cursor + 1
  /\ UNCHANGED <<chunks, capacity, phase>>

(* The counters are reset; the block behind g_allocs is not given back.    *)
FinishRelease ==
  /\ phase = "releasing"
  /\ cursor >= Len(table)
  /\ table' = <<>>
  /\ chunks' = 1
  /\ phase' = "unloaded"
  /\ UNCHANGED <<capacity, live, cursor>>

-----------------------------------------------------------------------------
(* mmu::Init.                                                              *)
Init ==
  /\ table = <<>>
  /\ chunks = 1
  /\ capacity = ChunkSize
  /\ live = {}
  /\ cursor = 0
  /\ phase = "loaded"

Next ==
  \/ \E b \in Blocks : Allocate(b) \/ Free(b)
  \/ StartRelease \/ ReleaseStep \/ FinishRelease

Spec == Init /\ [][Next]_vars

-----------------------------------------------------------------------------
MmuTypeOK ==
  /\ table \in Seq(Blocks)
  /\ chunks \in Nat \ {0}
  /\ capacity \in Nat
  /\ live \subseteq Blocks
  /\ cursor \in Nat
  /\ phase \in {"loaded", "releasing", "unloaded"}

(* No entry is written behind the end of the block at g_allocs, wherever   *)
(* growth and freeing leave the count.                                     *)
InBounds == Len(table) <= capacity

(* The table is what the system has handed out, each block once, while     *)
(* Release runs as well: nothing is freed twice and nothing is lost.       *)
TableExact ==
  phase # "unloaded" =>
    /\ Entries = live
    /\ \A i, j \in DOMAIN table : table[i] = table[j] => i = j

(* The inductive invariant: before Release the block has room for          *)
(* chunks * ChunkSize entries.                                             *)
Sized ==
  /\ phase = "loaded" => capacity = chunks * ChunkSize
  /\ Len(table) <= capacity

MmuInv == MmuTypeOK /\ Sized /\ TableExact
=============================================================================
