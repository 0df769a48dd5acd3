------------------------------- MODULE Server -------------------------------
(***************************************************************************)
(* The server: one thread runs the io service, accepts one connection at a *)
(* time and dispatches its request (Server/entry.cpp, handlers.cpp); the   *)
(* workers take requests from a queue behind a mutex and a condition       *)
(* variable (queue.hpp, workers.cpp).  A request with a reply is critical: *)
(* it goes to the front and the io thread looks at the reply's pointer     *)
(* every 10 ms until the handler has set it.                               *)
(*                                                                         *)
(* Requests and replies are abstracted to their type and to how much of    *)
(* the reply is stored.                                                    *)
(***************************************************************************)
EXTENDS Naturals, Sequences, FiniteSets, SequencesExt

CONSTANTS Requests,   \* the connections of a run, one request each
          Workers,    \* the threads createWorkers starts
          None        \* no request

ASSUME ServerAssumption ==
  /\ None \notin Requests
  /\ Workers # {}

(* The packet types: those with an entry in the table, and all others.     *)
Table == {"none", "heartbeat", "shellcode"}
Types == Table \cup {"unknown"}

VARIABLES
  up,        \* the process runs
  io, cur,   \* where the io thread is, and the connection it serves
  kind,      \* kind[r]: packet type of the request, "unsent" before it comes
  queue,     \* g_works
  waiting,   \* workers asleep on the condition variable
  wpc, job,  \* where a worker is, and the request it handles
  out,       \* the reply of a request, from no pointer to all of it and freed
  sent,      \* what the client was sent
  handled,   \* requests whose handler has returned
  failed,    \* history: a handler returned without setting its reply
  hasty      \* history: requests whose reply the io thread took while the
             \* handler was still storing it

ioVars == <<io, cur, kind, sent, hasty>>
workVars == <<waiting, wpc, job, handled, failed>>
vars == <<up, ioVars, queue, workVars, out>>

HasInput(r)  == kind[r] \in {"heartbeat", "shellcode"}
HasOutput(r) == kind[r] = "shellcode"

-----------------------------------------------------------------------------
(* The io thread.                                                          *)
NextConnection == io' = "accept" /\ cur' = None

Accept(r, k) ==
  /\ up /\ io = "accept"
  /\ kind[r] = "unsent"
  /\ kind' = [kind EXCEPT ![r] = k]
  /\ cur' = r
  /\ io' = "header"
  /\ UNCHANGED <<up, sent, hasty, queue, workVars, out>>

(* The header is read; a type outside the table closes the connection.     *)
ReadHeader ==
  /\ up /\ io = "header"
  /\ IF kind[cur] \in Table
       THEN /\ io' = IF HasInput(cur) THEN "body" ELSE "queue"
            /\ UNCHANGED cur
       ELSE NextConnection
  /\ UNCHANGED <<up, kind, sent, hasty, queue, workVars, out>>

ReadBody ==
  /\ up /\ io = "body"
  /\ io' = "queue"
  /\ UNCHANGED <<up, cur, kind, sent, hasty, queue, workVars, out>>

(* notify_one *)
Notify == IF waiting = {} THEN UNCHANGED waiting
          ELSE \E w \in waiting : waiting' = waiting \ {w}

(* Mutant of Push: nobody is notified.                                     *)
PushSilent ==
  /\ up /\ io = "queue"
  /\ queue' = IF HasOutput(cur) THEN <<cur>> \o queue ELSE Append(queue, cur)
  /\ IF HasOutput(cur) THEN io' = "poll" /\ UNCHANGED cur ELSE NextConnection
  /\ UNCHANGED <<up, kind, sent, hasty, workVars, out>>

(* Mutant of Push: a critical request goes to the back like any other.     *)
PushBack ==
  /\ up /\ io = "queue"
  /\ queue' = Append(queue, cur)
  /\ Notify
  /\ IF HasOutput(cur) THEN io' = "poll" /\ UNCHANGED cur ELSE NextConnection
  /\ UNCHANGED <<up, kind, sent, hasty, wpc, job, handled, failed, out>>

(* workers::queueWork up to its loop.                                      *)
Push ==
  /\ up /\ io = "queue"
  /\ queue' = IF HasOutput(cur) THEN <<cur>> \o queue ELSE Append(queue, cur)
  /\ Notify
  /\ IF HasOutput(cur) THEN io' = "poll" /\ UNCHANGED cur ELSE NextConnection
  /\ UNCHANGED <<up, kind, sent, hasty, wpc, job, handled, failed, out>>

(* The loop of queueWork: a look at the pointer every 10 ms.  Nothing      *)
(* keeps the io thread from leaving it before the handler has returned.    *)
Poll ==
  /\ up /\ io = "poll"
  /\ out[cur] # "null"
  /\ hasty' = IF \E w \in Workers : job[w] = cur THEN hasty \cup {cur} ELSE hasty
  /\ io' = "reply"
  /\ UNCHANGED <<up, cur, kind, sent, queue, workVars, out>>

(* Mutant of Reply: the reply is not freed.                                *)
ReplyLeaks ==
  /\ up /\ io = "reply"
  /\ sent' = [sent EXCEPT ![cur] = IF out[cur] = "full" THEN "whole" ELSE "torn"]
  /\ NextConnection
  /\ UNCHANGED <<up, kind, hasty, queue, workVars, out>>

(* The write of output->size bytes from output, and the free.  A reply     *)
(* that is not all stored yet goes out with whatever the memory holds.     *)
Reply ==
  /\ up /\ io = "reply"
  /\ sent' = [sent EXCEPT ![cur] = IF out[cur] = "full" THEN "whole" ELSE "torn"]
  /\ out' = [out EXCEPT ![cur] = "freed"]
  /\ NextConnection
  /\ UNCHANGED <<up, kind, hasty, queue, workVars>>

(* The peer goes away: asio's read and write throw, and nothing between    *)
(* them and main catches.                                                  *)
PeerGone ==
  /\ up /\ io \in {"header", "body", "reply"}
  /\ up' = FALSE
  /\ UNCHANGED <<ioVars, queue, workVars, out>>

-----------------------------------------------------------------------------
(* The workers.  Pop holds the mutex but while it sleeps.                  *)
Sleep(w) ==
  /\ up /\ wpc[w] = "pop" /\ w \notin waiting
  /\ queue = <<>>
  /\ waiting' = waiting \cup {w}
  /\ UNCHANGED <<up, ioVars, queue, wpc, job, handled, failed, out>>

SpuriousWake(w) ==
  /\ up /\ w \in waiting
  /\ waiting' = waiting \ {w}
  /\ UNCHANGED <<up, ioVars, queue, wpc, job, handled, failed, out>>

(* Mutant of Pop: the element at the other end is taken.                   *)
PopBack(w) ==
  /\ up /\ wpc[w] = "pop" /\ w \notin waiting
  /\ queue # <<>>
  /\ job' = [job EXCEPT ![w] = Last(queue)]
  /\ queue' = Front(queue)
  /\ wpc' = [wpc EXCEPT ![w] = "handle"]
  /\ UNCHANGED <<up, ioVars, waiting, handled, failed, out>>

Pop(w) ==
  /\ up /\ wpc[w] = "pop" /\ w \notin waiting
  /\ queue # <<>>
  /\ job' = [job EXCEPT ![w] = Head(queue)]
  /\ queue' = Tail(queue)
  /\ wpc' = [wpc EXCEPT ![w] = "handle"]
  /\ UNCHANGED <<up, ioVars, waiting, handled, failed, out>>

(* The handler returns and the worker goes back to Pop.                    *)
Done(w) ==
  /\ handled' = handled \cup {job[w]}
  /\ job' = [job EXCEPT ![w] = None]
  /\ wpc' = [wpc EXCEPT ![w] = "pop"]
  /\ UNCHANGED waiting

(* onHeartbeat.                                                            *)
Heartbeat(w) ==
  /\ up /\ wpc[w] = "handle" /\ kind[job[w]] = "heartbeat"
  /\ Done(w)
  /\ UNCHANGED <<up, ioVars, queue, failed, out>>

(* The table's entry for type none has no handler; calling it ends the     *)
(* process.                                                                *)
NullHandler(w) ==
  /\ up /\ wpc[w] = "handle" /\ kind[job[w]] = "none"
  /\ up' = FALSE
  /\ UNCHANGED <<ioVars, queue, workVars, out>>

(* onShellcode returns early: an unknown shellcode, a file it cannot read. *)
ShellcodeFails(w) ==
  /\ up /\ wpc[w] = "handle" /\ kind[job[w]] = "shellcode"
  /\ failed' = TRUE
  /\ Done(w)
  /\ UNCHANGED <<up, ioVars, queue, out>>

(* Mutant of Publish: the handler returns without a reply.                 *)
PublishNothing(w) ==
  /\ up /\ wpc[w] = "handle" /\ kind[job[w]] = "shellcode"
  /\ Done(w)
  /\ UNCHANGED <<up, ioVars, queue, failed, out>>

(* *output = malloc(size): from here on the io thread may see the reply.   *)
Publish(w) ==
  /\ up /\ wpc[w] = "handle" /\ kind[job[w]] = "shellcode"
  /\ out' = [out EXCEPT ![job[w]] = "raw"]
  /\ wpc' = [wpc EXCEPT ![w] = "size"]
  /\ UNCHANGED <<up, ioVars, queue, waiting, job, handled, failed>>

(* A store through *output.  Once the io thread has freed the reply and    *)
(* left Dispatcher, whose local variable output points at, it hits memory  *)
(* of something else: the process may go on or not.                        *)
Store(w, value) ==
  IF out[job[w]] = "freed"
    THEN up' \in BOOLEAN /\ UNCHANGED out
    ELSE out' = [out EXCEPT ![job[w]] = value] /\ UNCHANGED up

StoreSize(w) ==
  /\ up /\ wpc[w] = "size"
  /\ Store(w, "sized")
  /\ wpc' = [wpc EXCEPT ![w] = "data"]
  /\ UNCHANGED <<ioVars, queue, waiting, job, handled, failed>>

(* Mutant of StoreData: the bytes of the file are not copied.              *)
StoreNoData(w) ==
  /\ up /\ wpc[w] = "data"
  /\ Done(w)
  /\ UNCHANGED <<up, out, ioVars, queue, failed>>

(* The length and the bytes of the file.                                   *)
StoreData(w) ==
  /\ up /\ wpc[w] = "data"
  /\ Store(w, "full")
  /\ Done(w)
  /\ UNCHANGED <<ioVars, queue, failed>>

-----------------------------------------------------------------------------
Init ==
  /\ up = TRUE
  /\ io = "accept"
  /\ cur = None
  /\ kind = [r \in Requests |-> "unsent"]
  /\ queue = <<>>
  /\ waiting = {}
  /\ wpc = [w \in Workers |-> "pop"]
  /\ job = [w \in Workers |-> None]
  /\ out = [r \in Requests |-> "null"]
  /\ sent = [r \in Requests |-> "nothing"]
  /\ handled = {}
  /\ failed = FALSE
  /\ hasty = {}

Io == ReadHeader \/ ReadBody \/ Push \/ Poll \/ Reply

Work(w) ==
  \/ Sleep(w) \/ Pop(w) \/ Heartbeat(w) \/ NullHandler(w)
  \/ ShellcodeFails(w) \/ Publish(w) \/ StoreSize(w) \/ StoreData(w)

Next ==
  \/ Io \/ PeerGone
  \/ \E r \in Requests, k \in Types : Accept(r, k)
  \/ \E w \in Workers : Work(w) \/ SpuriousWake(w)

Spec == Init /\ [][Next]_vars

(* The io thread and the workers are scheduled; a client sends what it     *)
(* announced or goes away.  Nobody has to connect.                         *)
Fairness == WF_vars(Io \/ PeerGone) /\ \A w \in Workers : WF_vars(Work(w))

FairSpec == Spec /\ Fairness

-----------------------------------------------------------------------------
ServerTypeOK ==
  /\ up \in BOOLEAN
  /\ io \in {"accept", "header", "body", "queue", "poll", "reply"}
  /\ cur \in Requests \cup {None}
  /\ kind \in [Requests -> Types \cup {"unsent"}]
  /\ queue \in Seq({r \in Requests : kind[r] \in Table})
  /\ waiting \subseteq Workers
  /\ wpc \in [Workers -> {"pop", "handle", "size", "data"}]
  /\ job \in [Workers -> Requests \cup {None}]
  /\ out \in [Requests -> {"null", "raw", "sized", "full", "freed"}]
  /\ sent \in [Requests -> {"nothing", "torn", "whole"}]
  /\ handled \subseteq Requests
  /\ failed \in BOOLEAN
  /\ hasty \subseteq Requests

(* The io thread waits for each critical request, so the front of the      *)
(* queue never builds up a stack of them: at most one is queued, and it    *)
(* stands before all others.                                               *)
OneUrgent ==
  \A i \in 1..Len(queue) : HasOutput(queue[i]) => i = 1 /\ queue[i] = cur

(* A reply pointer that is published is freed before the io thread accepts *)
(* again, though the handler that allocates it knows nothing of the free.  *)
RepliesReleased ==
  io = "accept" => \A r \in Requests : out[r] \in {"null", "freed"}

(* The io thread's look at the pointer is all that orders its use of a     *)
(* reply after the handler's stores.  Unless it looks while the handler is *)
(* still storing, the client is sent the whole reply and no handler stores *)
(* into a reply that was freed.                                            *)
ReplyWhole ==
  \A r \in Requests \ hasty :
    /\ sent[r] # "torn"
    /\ out[r] = "freed" => \A w \in Workers : job[w] # r

(* The queue keeps its promise while the condition variable, the io        *)
(* thread's loop and the two ends of the deque do the work: what stands    *)
(* behind a critical request at the front, or all of it, is the backlog.   *)
Critical == {r \in ToSet(queue) : HasOutput(r)}
Ordinary == IF queue # <<>> /\ HasOutput(Head(queue)) THEN Tail(queue) ELSE queue
Served   == {job[w] : w \in Workers} \ {None}

Order == INSTANCE WorkOrder WITH
  urgent <- Critical, backlog <- Ordinary, serving <- Served, finished <- handled

ImplementsOrder == Order!OrderSpec

(* A queued request is handled unless the process ends: the one notify_one *)
(* per Push loses nothing, whichever way it races with a worker going to   *)
(* sleep.                                                                  *)
QueuedIsHandled ==
  \A r \in Requests : r \in ToSet(queue) ~> (r \in handled \/ ~up)

(* The io thread comes back to accept the next connection unless the       *)
(* process ends or a handler returned without a reply, for which it waits  *)
(* for ever.                                                               *)
AcceptsAgain == []<>(io = "accept" \/ ~up \/ failed)
=============================================================================
