------------------------------ MODULE Integrity ------------------------------
(***************************************************************************)
(* The integrity check of the internal module: ten times a second it       *)
(* compares the executable sections of the game in memory with the game's  *)
(* file (Internal/integrity.cpp), collects the differences in a vector     *)
(* that grows by doubling (vector.hpp) and sends them to the service       *)
(* (Internal/entry.cpp).  Whoever patches the game does so in another      *)
(* thread, beside the scan.                                                *)
(***************************************************************************)
EXTENDS Naturals, Sequences, FiniteSets

CONSTANTS Bytes,    \* number of bytes in the sections, in the order scanned
          Scanned,  \* those in sections that are executable and not writable
          Values,   \* what a byte may be
          Original  \* the value of every byte of the file

ASSUME IntegrityAssumption ==
  /\ Bytes \in Nat
  /\ Scanned \subseteq 1..Bytes
  /\ Original \in Values

Offsets == 1..Bytes
Patch   == [offset : Offsets, value : Values]
Zero    == [offset |-> 0, value |-> Original]   \* fresh memory, no patch

VARIABLES
  mem,       \* the game's sections in memory
  pc, at,    \* where the detection thread is, and the byte it is at
  storage,   \* the vector's block, of m_capacity elements
  size,      \* m_size
  blocks,    \* blocks allocated by the check in the game
  file,      \* the handle of the game's file is open
  list,      \* the turn's patches in the service, as long as no event
             \* that was sent points to them
  event,     \* the last turn: what was sent, or what became of it
  touched    \* history: bytes that changed since the turn began

vectorVars == <<storage, size>>
vars == <<mem, pc, at, vectorVars, blocks, file, list, event, touched>>

Nothing(result) == [result |-> result, count |-> 0, patches |-> <<>>]

-----------------------------------------------------------------------------
(* One byte of the game changes, in any thread and for any reason.         *)
Change(o, v) ==
  /\ mem[o] # v
  /\ mem' = [mem EXCEPT ![o] = v]
  /\ touched' = touched \cup {o}
  /\ UNCHANGED <<pc, at, vectorVars, blocks, file, list, event>>

-----------------------------------------------------------------------------
(* vector<patch_t>.  A block that is full is replaced by one of twice the  *)
(* size, into which the elements are copied, and freed.                    *)
Capacity == Len(storage)

(* Mutant of Grown: the elements are not copied.                           *)
GrownEmpty(n) == [i \in 1..n |-> Zero]

Grown(n) == [i \in 1..n |-> IF i <= size THEN storage[i] ELSE Zero]

Room == IF size < Capacity THEN storage
        ELSE Grown(IF Capacity = 0 THEN 1 ELSE 2 * Capacity)

Found == SubSeq(storage, 1, size)

PushBack(p) ==
  /\ storage' = [Room EXCEPT ![size + 1] = p]
  /\ size' = size + 1
  /\ blocks' = IF Capacity = 0 THEN blocks + 1 ELSE blocks

-----------------------------------------------------------------------------
(* The turn begins with an empty vector.  Of what an earlier one left in   *)
(* the service nothing is known any more.                                  *)
Begin ==
  /\ pc = "begin"
  /\ pc' = "open"
  /\ list' = <<>>
  /\ touched' = {}
  /\ UNCHANGED <<mem, at, vectorVars, blocks, file, event>>

EndTurn(e) == pc' = "sleep" /\ event' = e

(* verifyModule: the file's name or the file itself may not be had.        *)
OpenFile ==
  /\ pc = "open"
  /\ \/ pc' = "read" /\ file' = TRUE /\ UNCHANGED event
     \/ EndTurn(Nothing("failed")) /\ UNCHANGED file
  /\ UNCHANGED <<mem, at, vectorVars, blocks, list, touched>>

(* Mutant of ReadFile: the failure keeps the file open.                    *)
ReadFileLeaks ==
  /\ pc = "read"
  /\ \/ /\ pc' = "scan" /\ at' = 1
        /\ blocks' = blocks + 1
        /\ UNCHANGED <<file, event>>
     \/ EndTurn(Nothing("failed")) /\ UNCHANGED <<at, blocks, file>>
  /\ UNCHANGED <<mem, vectorVars, list, touched>>

(* Mutant of ReadFile: the scan begins with the second byte.               *)
ReadFileSecond ==
  /\ pc = "read"
  /\ \/ /\ pc' = "scan" /\ at' = 2
        /\ blocks' = blocks + 1
        /\ UNCHANGED <<file, event>>
     \/ EndTurn(Nothing("failed")) /\ file' = FALSE /\ UNCHANGED <<at, blocks>>
  /\ UNCHANGED <<mem, vectorVars, list, touched>>

(* A buffer for the file, freed at once if it cannot be read.              *)
ReadFile ==
  /\ pc = "read"
  /\ \/ /\ pc' = "scan" /\ at' = 1
        /\ blocks' = blocks + 1
        /\ UNCHANGED <<file, event>>
     \/ EndTurn(Nothing("failed")) /\ file' = FALSE /\ UNCHANGED <<at, blocks>>
  /\ UNCHANGED <<mem, vectorVars, list, touched>>

(* One byte of memory is read and compared.                                *)
Scan ==
  /\ pc = "scan" /\ at <= Bytes
  /\ at' = at + 1
  /\ IF at \in Scanned /\ mem[at] # Original
       THEN PushBack([offset |-> at, value |-> mem[at]])
       ELSE UNCHANGED <<vectorVars, blocks>>
  /\ UNCHANGED <<mem, pc, file, list, event, touched>>

(* Buffer and file are given back; the status says whether there is a      *)
(* patch.                                                                  *)
Verified ==
  /\ pc = "scan" /\ at > Bytes
  /\ blocks' = blocks - 1 /\ file' = FALSE /\ at' = 0
  /\ IF size = 0 THEN EndTurn(Nothing("valid")) ELSE pc' = "copy" /\ UNCHANGED event
  /\ UNCHANGED <<mem, vectorVars, list, touched>>

(* Mutant of CopyPatches: as many as the block could hold.                 *)
CopyCapacity ==
  /\ pc = "copy"
  /\ pc' = "post"
  /\ list' \in {<<>>, [i \in 1..size |-> Zero], storage}
  /\ UNCHANGED <<mem, at, vectorVars, blocks, file, event, touched>>

(* detectionsThread: the patches are copied into the service.  If there is *)
(* no memory a null pointer is sent; whether they were written is not      *)
(* looked at.                                                              *)
CopyPatches ==
  /\ pc = "copy"
  /\ pc' = "post"
  /\ list' \in {<<>>, [i \in 1..size |-> Zero], Found}
  /\ UNCHANGED <<mem, at, vectorVars, blocks, file, event, touched>>

(* invokeRequestCallback: the event's handler frees the patches.  If it    *)
(* cannot be allocated, written or its thread not be started, its result   *)
(* is not looked at and the patches stay.                                  *)
PostEvent ==
  /\ pc = "post"
  /\ \/ /\ EndTurn([result |-> "sent", count |-> size, patches |-> list])
        /\ list' = <<>>
     \/ EndTurn(Nothing("lost")) /\ UNCHANGED list
  /\ UNCHANGED <<mem, at, vectorVars, blocks, file, touched>>

(* The end of the loop's body, after the Sleep: the vector is destroyed.   *)
Destroy ==
  /\ pc = "sleep"
  /\ pc' = "begin"
  /\ storage' = <<>> /\ size' = 0
  /\ blocks' = IF Capacity > 0 THEN blocks - 1 ELSE blocks
  /\ UNCHANGED <<mem, at, file, list, event, touched>>

-----------------------------------------------------------------------------
Init ==
  /\ mem \in [Offsets -> Values]
  /\ pc = "begin" /\ at = 0
  /\ storage = <<>> /\ size = 0
  /\ blocks = 0 /\ file = FALSE
  /\ list = <<>>
  /\ event = Nothing("none")
  /\ touched = {}

Turn ==
  \/ Begin \/ OpenFile \/ ReadFile \/ Scan \/ Verified \/ CopyPatches \/ PostEvent \/ Destroy

Next == Turn \/ \E o \in Offsets, v \in Values : Change(o, v)

Spec == Init /\ [][Next]_vars

(* The detection thread is scheduled and its calls return.                 *)
FairSpec == Spec /\ WF_vars(Turn)

-----------------------------------------------------------------------------
IntegrityTypeOK ==
  /\ mem \in [Offsets -> Values]
  /\ pc \in {"begin", "open", "read", "scan", "copy", "post", "sleep"}
  /\ at \in 0..Bytes + 1
  /\ storage \in Seq(Patch \cup {Zero})
  /\ size \in 0..Capacity
  /\ blocks \in Nat
  /\ file \in BOOLEAN
  /\ list \in Seq(Patch \cup {Zero})
  /\ event \in [result : {"none", "failed", "valid", "lost", "sent"},
                count : Nat, patches : Seq(Patch \cup {Zero})]
  /\ touched \subseteq Offsets

(* When the scan is over, the vector lists, in order and once each, the    *)
(* bytes that differ from the file, with their values: exactly, for every  *)
(* byte that was left alone during the scan; a byte that changed meanwhile *)
(* may be missing, but what is listed of it is a value it did not have in  *)
(* the file.  A byte of a writable or a plain data section is not listed.  *)
PatchesExact ==
  pc \in {"copy", "post"} \/ (pc = "scan" /\ at > Bytes) =>
    /\ \A i, j \in 1..size : i < j => Found[i].offset < Found[j].offset
    /\ \A i \in 1..size :
         /\ Found[i].offset \in Scanned /\ Found[i].value # Original
         /\ Found[i].offset \notin touched => Found[i].value = mem[Found[i].offset]
    /\ \A o \in Scanned \ touched :
         mem[o] # Original => \E i \in 1..size : Found[i].offset = o

(* An event that was sent counts at least one patch, and what it points at *)
(* are as many patches, none, or as many empty ones; no violation is sent  *)
(* of a game whose bytes were all left alone and are the file's.           *)
EventWhole ==
  event.result = "sent" =>
    /\ event.count > 0
    /\ Len(event.patches) \in {0, event.count}
    /\ pc = "sleep" /\ touched = {} =>
         event.count = Cardinality({o \in Scanned : mem[o] # Original})

(* Every turn gives back what it took in the game: nothing but the         *)
(* vector's block is left when it sleeps, and nothing when the next one    *)
(* begins.  In the service it leaves patches that no handler frees only if *)
(* the event was lost, and then as many as were found or none.             *)
TurnReleases ==
  /\ pc = "begin" => blocks = 0 /\ ~file
  /\ pc = "sleep" => /\ blocks = (IF Capacity > 0 THEN 1 ELSE 0) /\ ~file
                     /\ list # <<>> => event.result = "lost" /\ Len(list) = size

(* A byte that is changed for good is reported again and again, unless     *)
(* turns keep failing: the file cannot be read, the patches not be copied  *)
(* or the event not be delivered.                                          *)
Reports(o) ==
  event.result = "sent" /\ \E i \in DOMAIN event.patches : event.patches[i].offset = o

TurnFails ==
  \/ event.result \in {"failed", "lost"}
  \/ event.result = "sent" /\ \A i \in DOMAIN event.patches : event.patches[i] = Zero

PatchReported ==
  \A o \in Scanned : <>[](mem[o] # Original) => []<>(Reports(o) \/ TurnFails)
=============================================================================
