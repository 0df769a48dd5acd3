---------------------------- MODULE ServerProofs ----------------------------
(***************************************************************************)
(* What the server promises of requests and replies, for any number of     *)
(* connections and workers: the type invariant, OneUrgent, RepliesReleased *)
(* and ReplyWhole; and that the queue implements WorkOrder.  Liveness is   *)
(* only model-checked.                                                     *)
(***************************************************************************)
EXTENDS Server, TLAPS

(* The connection the io thread serves.                                    *)
Serving ==
  /\ io = "accept" <=> cur = None
  /\ io # "accept" => kind[cur] # "unsent"
  /\ io \in {"body", "queue"} => kind[cur] \in Table
  /\ io \in {"poll", "reply"} => HasOutput(cur)
  /\ io = "poll" => out[cur] # "freed"
  /\ io = "reply" => out[cur] \in {"raw", "sized", "full"}
                     /\ (cur \notin hasty => out[cur] = "full")

(* A request that is not queued yet is nowhere.                            *)
Coming(r) == kind[r] = "unsent" \/ (r = cur /\ io \in {"header", "body", "queue"})

Fresh ==
  \A r \in Requests : Coming(r) =>
    /\ \A i \in 1..Len(queue) : queue[i] # r
    /\ \A w \in Workers : job[w] # r
    /\ out[r] = "null"

(* A request is in one place at a time.                                    *)
OnePlace ==
  /\ \A i, j \in 1..Len(queue) : queue[i] = queue[j] => i = j
  /\ \A w \in Workers : \A i \in 1..Len(queue) : queue[i] # job[w]
  /\ \A v, w \in Workers : job[v] = job[w] /\ job[w] # None => v = w

(* A worker has a request while its handler runs; the stores follow the    *)
(* pointer, which the io thread frees early only if it was hasty.          *)
Handling ==
  \A w \in Workers :
    /\ wpc[w] = "pop" <=> job[w] = None
    /\ wpc[w] = "handle" /\ HasOutput(job[w]) =>
         job[w] = cur /\ io = "poll" /\ out[cur] = "null"
    /\ wpc[w] = "size" => HasOutput(job[w]) /\ out[job[w]] \in {"raw", "freed"}
    /\ wpc[w] = "data" => HasOutput(job[w]) /\ out[job[w]] \in {"sized", "freed"}
    /\ wpc[w] # "pop" /\ out[job[w]] = "freed" => job[w] \in hasty

(* A request in the queue has no reply yet; a critical one is the first,   *)
(* and the io thread waits for it.                                         *)
Urgent ==
  \A i \in 1..Len(queue) :
    /\ out[queue[i]] = "null"
    /\ HasOutput(queue[i]) => i = 1 /\ queue[i] = cur /\ io = "poll"

(* A published reply belongs to the connection served, and its handler is  *)
(* at work until all of it is stored.                                      *)
Published ==
  \A r \in Requests : out[r] \in {"raw", "sized", "full"} =>
    /\ r = cur /\ io \in {"poll", "reply"}
    /\ out[r] # "full" <=> \E w \in Workers : job[w] = r

ServerInv ==
  /\ ServerTypeOK /\ Serving /\ Fresh /\ OnePlace /\ Handling
  /\ Urgent /\ Published /\ ReplyWhole
-----------------------------------------------------------------------------
LEMMA SeqGrows ==
  ASSUME NEW S, NEW T, S \subseteq T, NEW q \in Seq(S)
  PROVE  q \in Seq(T)
OBVIOUS

LEMMA QueueType ==
  ASSUME ServerTypeOK
  PROVE  /\ queue \in Seq(Requests) /\ Len(queue) \in Nat
         /\ \A i \in 1..Len(queue) : queue[i] \in Requests /\ kind[queue[i]] \in Table
<1>1. queue \in Seq({r \in Requests : kind[r] \in Table})
  BY DEF ServerTypeOK
<1>2. \A i \in 1..Len(queue) : queue[i] \in {r \in Requests : kind[r] \in Table}
  BY <1>1
<1>3. queue \in Seq(Requests)
  BY <1>1, SeqGrows
<1> QED BY <1>1, <1>2, <1>3

LEMMA ServerInitInv == Init => ServerInv
<1> SUFFICES ASSUME Init PROVE ServerInv
  OBVIOUS
<1>1. Len(queue) = 0 /\ queue \in Seq({r \in Requests : kind[r] \in Table})
  BY DEF Init
<1>2. up \in BOOLEAN /\ failed \in BOOLEAN
  BY DEF Init
<1>3. ServerTypeOK
  BY <1>1, <1>2 DEF Init, ServerTypeOK, Types
<1>4. Serving /\ Fresh /\ OnePlace /\ Handling /\ Urgent /\ Published /\ ReplyWhole
  BY <1>1, ServerAssumption DEF Init, Serving, Fresh, OnePlace, Handling, Urgent, Published,
     ReplyWhole, Coming, ServerAssumption
<1> QED BY <1>3, <1>4 DEF ServerInv
-----------------------------------------------------------------------------
(* The io thread.                                                          *)
LEMMA AcceptInv ==
  ASSUME ServerInv, NEW r \in Requests, NEW k \in Types, Accept(r, k)
  PROVE  ServerInv'
<1> USE DEF ServerInv
<1>1. /\ UNCHANGED <<up, sent, hasty, queue, workVars, out>>
      /\ io = "accept" /\ io' = "header" /\ cur = None /\ cur' = r
      /\ kind[r] = "unsent" /\ kind' = [kind EXCEPT ![r] = k]
      /\ k # "unsent" /\ r # None
  BY ServerAssumption DEF Accept, Serving, Types, Table, ServerAssumption
<1>2. /\ kind' \in [Requests -> Types \cup {"unsent"}] /\ kind'[r] = k
      /\ \A q \in Requests \ {r} : kind'[q] = kind[q]
  BY <1>1 DEF ServerTypeOK
<1>3. ServerTypeOK'
  <2>1. {q \in Requests : kind[q] \in Table} \subseteq {q \in Requests : kind'[q] \in Table}
    BY <1>1, <1>2 DEF Table
  <2>2. queue' \in Seq({q \in Requests : kind'[q] \in Table})
    BY <1>1, <2>1, SeqGrows DEF ServerTypeOK
  <2> QED BY <1>1, <1>2, <2>2 DEF ServerTypeOK, workVars
<1>4. /\ \A i \in 1..Len(queue) : queue[i] # r
      /\ \A w \in Workers : job[w] # r
      /\ out[r] = "null"
  BY <1>1 DEF Fresh, Coming
<1>5. \A q \in Requests \ {r} : HasOutput(q)' <=> HasOutput(q)
  BY <1>2 DEF HasOutput
<1>6. Serving'
  BY <1>1, <1>2 DEF Serving
<1>7. Fresh'
  BY <1>1, <1>2, <1>4 DEF Fresh, Coming, workVars
<1>8. OnePlace'
  BY <1>1 DEF OnePlace, workVars
<1>9. Handling'
  BY <1>1, <1>4, <1>5 DEF Handling, ServerTypeOK, workVars
<1>10. Urgent'
  BY <1>1, <1>4, <1>5, QueueType DEF Urgent
<1>11. Published'
  BY <1>1, <1>4 DEF Published, workVars
<1>12. ReplyWhole'
  BY <1>1 DEF ReplyWhole, workVars
<1> QED BY <1>3, <1>6, <1>7, <1>8, <1>9, <1>10, <1>11, <1>12

(* The request is read, or refused for its type.                           *)
LEMMA ReadInv ==
  ASSUME ServerInv, ReadHeader \/ ReadBody
  PROVE  ServerInv'
<1> USE DEF ServerInv
<1>1. /\ UNCHANGED <<up, kind, sent, hasty, queue, workVars, out>>
      /\ io \in {"header", "body"}
      /\ \/ io' \in {"body", "queue"} /\ cur' = cur /\ kind[cur] \in Table
         \/ io' = "accept" /\ cur' = None
  BY DEF ReadHeader, ReadBody, NextConnection, Serving
<1>2. ServerTypeOK'
  BY <1>1 DEF ServerTypeOK, workVars
<1>3. Serving'
  BY <1>1, ServerAssumption DEF Serving, ServerTypeOK, ServerAssumption
<1>4. Fresh' /\ OnePlace'
  BY <1>1 DEF Fresh, Coming, OnePlace, workVars
<1>5. Handling' /\ Urgent' /\ Published' /\ ReplyWhole'
  BY <1>1 DEF Handling, Urgent, Published, ReplyWhole, HasOutput, workVars
<1> QED BY <1>2, <1>3, <1>4, <1>5

LEMMA PollInv ==
  ASSUME ServerInv, Poll
  PROVE  ServerInv'
<1> USE DEF ServerInv
<1>1. /\ UNCHANGED <<up, cur, kind, sent, queue, workVars, out>>
      /\ io = "poll" /\ io' = "reply" /\ out[cur] # "null"
      /\ hasty' = IF \E w \in Workers : job[w] = cur THEN hasty \cup {cur} ELSE hasty
  BY DEF Poll
<1>2. cur \in Requests /\ out[cur] \in {"raw", "sized", "full"}
  BY <1>1 DEF Serving, ServerTypeOK
<1>3. ServerTypeOK'
  BY <1>1, <1>2 DEF ServerTypeOK, workVars
<1>4. Serving'
  BY <1>1, <1>2 DEF Serving, Published, HasOutput
<1>5. Fresh' /\ OnePlace' /\ Urgent' /\ Published'
  BY <1>1 DEF Fresh, Coming, OnePlace, Urgent, Published, HasOutput, workVars
<1>6. Handling'
  BY <1>1 DEF Handling, HasOutput, workVars
<1>7. ReplyWhole'
  BY <1>1 DEF ReplyWhole, workVars
<1> QED BY <1>3, <1>4, <1>5, <1>6, <1>7

LEMMA ReplyInv ==
  ASSUME ServerInv, Reply
  PROVE  ServerInv'
<1> USE DEF ServerInv
<1>1. /\ UNCHANGED <<up, kind, hasty, queue, workVars>>
      /\ io = "reply" /\ io' = "accept" /\ cur' = None
      /\ sent' = [sent EXCEPT ![cur] = IF out[cur] = "full" THEN "whole" ELSE "torn"]
      /\ out' = [out EXCEPT ![cur] = "freed"]
      /\ cur \in Requests
  BY DEF Reply, NextConnection, Serving, ServerTypeOK
<1>2. /\ out' \in [Requests -> {"null", "raw", "sized", "full", "freed"}]
      /\ out'[cur] = "freed" /\ \A r \in Requests \ {cur} : out'[r] = out[r]
      /\ sent' \in [Requests -> {"nothing", "torn", "whole"}]
      /\ \A r \in Requests \ {cur} : sent'[r] = sent[r]
      /\ sent'[cur] = IF out[cur] = "full" THEN "whole" ELSE "torn"
  BY <1>1 DEF ServerTypeOK
<1>3. ServerTypeOK'
  BY <1>1, <1>2 DEF ServerTypeOK, workVars
<1>4. out[cur] \in {"raw", "sized", "full"}
  BY <1>1 DEF Serving
<1>5. \A w \in Workers : job[w] = cur => cur \in hasty
  BY <1>1, <1>4 DEF Serving, Published
<1>6. Serving'
  BY <1>1 DEF Serving
<1>7. Fresh'
  BY <1>1, <1>2, <1>4 DEF Fresh, Coming, workVars
<1>8. OnePlace'
  BY <1>1 DEF OnePlace, workVars
<1>9. Handling'
  BY <1>1, <1>2, <1>5 DEF Handling, HasOutput, ServerTypeOK, workVars
<1>10. Urgent'
  <2>1. \A i \in 1..Len(queue) : queue[i] \in Requests \ {cur}
    BY <1>4, QueueType DEF Urgent
  <2> QED BY <1>1, <1>2, <2>1 DEF Urgent, HasOutput
<1>11. Published'
  BY <1>1, <1>2 DEF Published, workVars
<1>12. ReplyWhole'
  BY <1>1, <1>2, <1>5 DEF ReplyWhole, Serving, workVars
<1> QED BY <1>3, <1>6, <1>7, <1>8, <1>9, <1>10, <1>11, <1>12

(* The queue with the connection's request put in.                         *)
LEMMA PushQueue ==
  ASSUME ServerTypeOK, cur \in Requests, kind[cur] \in Table,
         queue' = IF HasOutput(cur) THEN <<cur>> \o queue ELSE Append(queue, cur)
  PROVE  /\ queue' \in Seq({r \in Requests : kind[r] \in Table})
         /\ Len(queue') = Len(queue) + 1
         /\ IF HasOutput(cur)
              THEN /\ queue'[1] = cur
                   /\ \A i \in 1..Len(queue') : i # 1 => i - 1 \in 1..Len(queue) /\ queue'[i] = queue[i - 1]
              ELSE /\ queue'[Len(queue')] = cur
                   /\ \A i \in 1..Len(queue') : i # Len(queue') => i \in 1..Len(queue) /\ queue'[i] = queue[i]
<1> DEFINE S == {r \in Requests : kind[r] \in Table}
<1>1. queue \in Seq(S) /\ cur \in S
  BY DEF ServerTypeOK
<1> HIDE DEF S
<1>2. CASE HasOutput(cur)
  <2>1. queue' = <<cur>> \o queue
    BY <1>2
  <2>2. <<cur>> \o queue \in Seq(S)
    BY <1>1
  <2>3. Len(queue') = Len(queue) + 1 /\ queue'[1] = cur
    BY <1>1, <2>1
  <2>4. ASSUME NEW i \in 1..Len(queue'), i # 1
        PROVE  i - 1 \in 1..Len(queue) /\ queue'[i] = queue[i - 1]
    <3>1. Len(queue) \in Nat /\ Len(<<cur>>) = 1
      BY <1>1
    <3>2. i - 1 \in 1..Len(queue)
      BY <2>3, <2>4, <3>1
    <3>3. (<<cur>> \o queue)[i] = queue[i - 1]
      BY <1>1, <2>3, <2>4, <3>1, <3>2
    <3> QED BY <2>1, <3>2, <3>3
  <2> QED BY <1>2, <2>1, <2>2, <2>3, <2>4 DEF S
<1>3. CASE ~HasOutput(cur)
  <2>1. queue' = Append(queue, cur)
    BY <1>3
  <2>2. Append(queue, cur) \in Seq(S)
    BY <1>1
  <2>3. Len(queue') = Len(queue) + 1 /\ queue'[Len(queue')] = cur
    BY <1>1, <2>1
  <2>4. ASSUME NEW i \in 1..Len(queue'), i # Len(queue')
        PROVE  i \in 1..Len(queue) /\ queue'[i] = queue[i]
    <3>1. Len(queue) \in Nat
      BY <1>1
    <3>2. i \in 1..Len(queue)
      BY <2>3, <2>4, <3>1
    <3>3. Append(queue, cur)[i] = queue[i]
      BY <1>1, <3>2
    <3> QED BY <2>1, <3>2, <3>3
  <2> QED BY <1>3, <2>1, <2>2, <2>3, <2>4 DEF S
<1> QED BY <1>2, <1>3

LEMMA PushInv ==
  ASSUME ServerInv, Push
  PROVE  ServerInv'
<1> USE DEF ServerInv
<1>1. /\ UNCHANGED <<up, kind, sent, hasty, wpc, job, handled, failed, out>>
      /\ queue' = IF HasOutput(cur) THEN <<cur>> \o queue ELSE Append(queue, cur)
      /\ io = "queue" /\ cur \in Requests /\ kind[cur] \in Table
      /\ waiting' \subseteq waiting
  BY DEF Push, Notify, Serving, ServerTypeOK
<1>2. CASE HasOutput(cur)
  <2>1. io' = "poll" /\ cur' = cur
    BY <1>2 DEF Push
  <2>2. /\ queue' \in Seq({r \in Requests : kind[r] \in Table})
        /\ Len(queue') = Len(queue) + 1 /\ queue'[1] = cur
        /\ \A i \in 1..Len(queue') : i # 1 => i - 1 \in 1..Len(queue) /\ queue'[i] = queue[i - 1]
    BY <1>1, <1>2, PushQueue
  <2>3. /\ \A i \in 1..Len(queue) : queue[i] # cur /\ ~HasOutput(queue[i])
        /\ \A w \in Workers : job[w] # cur
        /\ out[cur] = "null"
    BY <1>1 DEF Fresh, Coming, Urgent
  <2>4. ServerTypeOK'
    BY <1>1, <2>1, <2>2 DEF ServerTypeOK
  <2>5. Serving'
    BY <1>1, <1>2, <2>1, <2>3 DEF Serving, HasOutput
  <2>6. Fresh'
    <3>1. \A r \in Requests : Coming(r)' => Coming(r) /\ r # cur
      BY <1>1, <2>1, <1>2 DEF Coming, HasOutput
    <3> QED BY <1>1, <2>2, <3>1 DEF Fresh
  <2>7. OnePlace'
    <3>1. \A i, j \in 1..Len(queue') : queue'[i] = queue'[j] => i = j
      <4> SUFFICES ASSUME NEW i \in 1..Len(queue'), NEW j \in 1..Len(queue'), queue'[i] = queue'[j]
                   PROVE  i = j
        OBVIOUS
      <4>1. CASE i = 1 \/ j = 1
        BY <2>2, <2>3, <4>1
      <4>2. CASE i # 1 /\ j # 1
        <5>1. i - 1 = j - 1
          BY <2>2, <4>2 DEF OnePlace
        <5> QED BY <5>1
      <4> QED BY <4>1, <4>2
    <3>2. \A w \in Workers : \A i \in 1..Len(queue') : queue'[i] # job[w]
      BY <2>2, <2>3 DEF OnePlace
    <3> QED BY <1>1, <3>1, <3>2 DEF OnePlace
  <2>8. Handling'
    BY <1>1, <2>1 DEF Handling, HasOutput
  <2>9. Urgent'
    BY <1>1, <2>1, <2>2, <2>3 DEF Urgent, HasOutput
  <2>10. Published' /\ ReplyWhole'
    BY <1>1, <2>1 DEF Published, ReplyWhole
  <2> QED BY <2>4, <2>5, <2>6, <2>7, <2>8, <2>9, <2>10
<1>3. CASE ~HasOutput(cur)
  <2>1. io' = "accept" /\ cur' = None
    BY <1>3 DEF Push, NextConnection
  <2>2. /\ queue' \in Seq({r \in Requests : kind[r] \in Table})
        /\ Len(queue') = Len(queue) + 1 /\ queue'[Len(queue')] = cur
        /\ \A i \in 1..Len(queue') : i # Len(queue') => i \in 1..Len(queue) /\ queue'[i] = queue[i]
    BY <1>1, <1>3, PushQueue
  <2>3. /\ \A i \in 1..Len(queue) : queue[i] # cur /\ ~HasOutput(queue[i])
        /\ \A w \in Workers : job[w] # cur
        /\ out[cur] = "null"
    BY <1>1 DEF Fresh, Coming, Urgent
  <2>4. ServerTypeOK'
    BY <1>1, <2>1, <2>2 DEF ServerTypeOK
  <2>5. Serving'
    BY <2>1 DEF Serving
  <2>6. Fresh'
    <3>1. \A r \in Requests : Coming(r)' => Coming(r) /\ r # cur
      BY <1>1, <2>1 DEF Coming, Table
    <3> QED BY <1>1, <2>2, <3>1 DEF Fresh
  <2>7. OnePlace'
    <3>1. \A i, j \in 1..Len(queue') : queue'[i] = queue'[j] => i = j
      BY <2>2, <2>3 DEF OnePlace
    <3>2. \A w \in Workers : \A i \in 1..Len(queue') : queue'[i] # job[w]
      BY <2>2, <2>3 DEF OnePlace
    <3> QED BY <1>1, <3>1, <3>2 DEF OnePlace
  <2>8. Handling'
    BY <1>1, <2>1 DEF Handling, HasOutput
  <2>9. Urgent'
    BY <1>1, <1>3, <2>2, <2>3 DEF Urgent, HasOutput
  <2>10. Published' /\ ReplyWhole'
    BY <1>1, <2>1 DEF Published, ReplyWhole
  <2> QED BY <2>4, <2>5, <2>6, <2>7, <2>8, <2>9, <2>10
<1> QED BY <1>2, <1>3

-----------------------------------------------------------------------------
(* Steps that move no request.                                             *)
LEMMA StillInv ==
  ASSUME ServerInv, UNCHANGED <<ioVars, queue, wpc, job, handled, failed, out>>,
         up' \in BOOLEAN, waiting' \subseteq Workers
  PROVE  ServerInv'
<1> USE DEF ServerInv, ioVars
<1>1. ServerTypeOK'
  BY DEF ServerTypeOK
<1>2. Serving' /\ Fresh' /\ OnePlace' /\ Handling' /\ Urgent' /\ Published' /\ ReplyWhole'
  BY DEF Serving, Fresh, Coming, OnePlace, Handling, Urgent, Published, ReplyWhole, HasOutput
<1> QED BY <1>1, <1>2

LEMMA PopInv ==
  ASSUME ServerInv, NEW w \in Workers, Pop(w)
  PROVE  ServerInv'
<1> USE DEF ServerInv, ioVars
<1>1. /\ UNCHANGED <<up, io, cur, kind, sent, hasty, waiting, handled, failed, out>>
      /\ wpc[w] = "pop" /\ job[w] = None
      /\ job' = [job EXCEPT ![w] = Head(queue)]
      /\ queue' = Tail(queue)
      /\ wpc' = [wpc EXCEPT ![w] = "handle"]
      /\ queue # <<>>
  BY DEF Pop, Handling
<1>2. /\ queue \in Seq({r \in Requests : kind[r] \in Table}) /\ queue \in Seq(Requests)
      /\ Len(queue) \in Nat
      /\ \A i \in 1..Len(queue) : queue[i] \in Requests
  BY QueueType DEF ServerTypeOK
<1>3. Len(queue) > 0 /\ 1 \in 1..Len(queue) /\ Head(queue) = queue[1]
  BY <1>1, <1>2
<1>4. /\ queue' \in Seq({r \in Requests : kind[r] \in Table})
      /\ Len(queue') = Len(queue) - 1
  BY <1>1, <1>2
<1>5. ASSUME NEW i \in 1..Len(queue') PROVE i + 1 \in 1..Len(queue) /\ queue'[i] = queue[i + 1]
  BY <1>1, <1>2, <1>3, <1>4
<1>6. /\ job' \in [Workers -> Requests \cup {None}] /\ job'[w] = queue[1]
      /\ \A v \in Workers \ {w} : job'[v] = job[v] /\ wpc'[v] = wpc[v]
      /\ wpc' \in [Workers -> {"pop", "handle", "size", "data"}] /\ wpc'[w] = "handle"
  BY <1>1, <1>2, <1>3 DEF ServerTypeOK
<1>7. queue[1] # None /\ \A v \in Workers : job[v] # queue[1]
  BY <1>2, <1>3, ServerAssumption DEF OnePlace, ServerAssumption
<1>8. out[queue[1]] = "null"
  BY <1>3 DEF Urgent
<1>9. ServerTypeOK'
  BY <1>1, <1>4, <1>6 DEF ServerTypeOK
<1>10. Serving'
  BY <1>1 DEF Serving, HasOutput
<1>11. Fresh'
  BY <1>1, <1>3, <1>5, <1>6 DEF Fresh, Coming
<1>12. OnePlace'
  <2>1. \A i, j \in 1..Len(queue') : queue'[i] = queue'[j] => i = j
    <3> SUFFICES ASSUME NEW i \in 1..Len(queue'), NEW j \in 1..Len(queue'), queue'[i] = queue'[j]
                 PROVE  i = j
      OBVIOUS
    <3>1. i + 1 = j + 1
      BY <1>5 DEF OnePlace
    <3> QED BY <3>1
  <2>2. \A v \in Workers : \A i \in 1..Len(queue') : queue'[i] # job'[v]
    <3> SUFFICES ASSUME NEW v \in Workers, NEW i \in 1..Len(queue') PROVE queue'[i] # job'[v]
      OBVIOUS
    <3>1. i + 1 # 1 /\ i + 1 \in 1..Len(queue) /\ queue'[i] = queue[i + 1]
      BY <1>5
    <3>2. queue[i + 1] # queue[1]
      BY <1>3, <3>1 DEF OnePlace
    <3> QED BY <1>6, <3>1, <3>2 DEF OnePlace
  <2>3. \A u, v \in Workers : job'[u] = job'[v] /\ job'[v] # None => u = v
    BY <1>6, <1>7 DEF OnePlace
  <2> QED BY <2>1, <2>2, <2>3 DEF OnePlace
<1>13. Handling'
  <2>1. HasOutput(queue[1]) => queue[1] = cur /\ io = "poll"
    BY <1>3 DEF Urgent
  <2> QED BY <1>1, <1>6, <1>7, <1>8, <2>1 DEF Handling, HasOutput
<1>14. Urgent'
  BY <1>1, <1>5 DEF Urgent, HasOutput
<1>15. Published'
  BY <1>1, <1>3, <1>6, <1>7, <1>8 DEF Published, Serving, HasOutput
<1>16. ReplyWhole'
  BY <1>1, <1>6, <1>8 DEF ReplyWhole
<1> QED BY <1>9, <1>10, <1>11, <1>12, <1>13, <1>14, <1>15, <1>16

(* The handler of w returns, having stored all of the reply or none of it. *)
LEMMA DoneInv ==
  ASSUME ServerInv, NEW w \in Workers, Done(w), wpc[w] # "pop",
         UNCHANGED <<ioVars, queue>>, up' \in BOOLEAN, failed' \in BOOLEAN,
         \/ out' = out /\ (wpc[w] = "handle" \/ out[job[w]] = "freed")
         \/ out' = [out EXCEPT ![job[w]] = "full"] /\ wpc[w] = "data" /\ out[job[w]] # "freed"
  PROVE  ServerInv'
<1> USE DEF ServerInv, ioVars
<1>1. /\ job[w] \in Requests /\ job[w] # None
      /\ handled' = handled \cup {job[w]} /\ waiting' = waiting
      /\ job' \in [Workers -> Requests \cup {None}] /\ job'[w] = None
      /\ wpc' \in [Workers -> {"pop", "handle", "size", "data"}] /\ wpc'[w] = "pop"
      /\ \A v \in Workers \ {w} : job'[v] = job[v] /\ wpc'[v] = wpc[v]
  BY DEF Done, Handling, ServerTypeOK
<1>2. /\ out' \in [Requests -> {"null", "raw", "sized", "full", "freed"}]
      /\ \A r \in Requests \ {job[w]} : out'[r] = out[r]
  BY <1>1 DEF ServerTypeOK
<1>3. \/ out'[job[w]] = out[job[w]] /\ out[job[w]] \notin {"raw", "sized", "full"}
      \/ out'[job[w]] = "full" /\ out[job[w]] = "sized"
  <2>1. CASE out' = out /\ out[job[w]] = "freed"
    BY <2>1
  <2>2. CASE out' = out /\ wpc[w] = "handle"
    <3>1. HasOutput(job[w]) => out[job[w]] = "null"
      BY <2>2 DEF Handling
    <3>2. out[job[w]] \in {"raw", "sized", "full"} => HasOutput(job[w])
      BY <1>1 DEF Published, Serving
    <3> QED BY <2>2, <3>1, <3>2
  <2>3. CASE out' = [out EXCEPT ![job[w]] = "full"] /\ wpc[w] = "data" /\ out[job[w]] # "freed"
    BY <1>1, <2>3 DEF Handling, ServerTypeOK
  <2> QED BY <2>1, <2>2, <2>3
<1>4. \A v \in Workers \ {w} : job[v] # job[w]
  BY <1>1 DEF OnePlace
<1>5. ServerTypeOK'
  BY <1>1, <1>2 DEF ServerTypeOK
<1>6. Serving'
  <2>1. io \in {"poll", "reply"} => cur \in Requests
    BY DEF Serving, ServerTypeOK
  <2> QED BY <1>2, <1>3, <2>1 DEF Serving, HasOutput
<1>7. Fresh'
  BY <1>1, <1>2, ServerAssumption DEF Fresh, Coming, ServerAssumption
<1>8. OnePlace'
  <2>1. \A i \in 1..Len(queue) : queue[i] # None
    BY QueueType, ServerAssumption DEF ServerAssumption
  <2> QED BY <1>1, <2>1 DEF OnePlace
<1>9. Handling'
  <2>1. \A v \in Workers \ {w} : job[v] # None => job[v] \in Requests \ {job[w]}
    BY <1>4 DEF ServerTypeOK
  <2> QED BY <1>1, <1>2, <2>1 DEF Handling, HasOutput
<1>10. Urgent'
  <2>1. \A i \in 1..Len(queue) : queue[i] \in Requests \ {job[w]}
    BY QueueType DEF OnePlace
  <2> QED BY <1>2, <2>1 DEF Urgent, HasOutput
<1>11. Published'
  BY <1>1, <1>2, <1>3, <1>4, ServerAssumption DEF Published, ServerAssumption
<1>12. ReplyWhole'
  BY <1>1, <1>2, <1>3, ServerAssumption DEF ReplyWhole, ServerAssumption
<1> QED BY <1>5, <1>6, <1>7, <1>8, <1>9, <1>10, <1>11, <1>12

LEMMA PublishInv ==
  ASSUME ServerInv, NEW w \in Workers, Publish(w)
  PROVE  ServerInv'
<1> USE DEF ServerInv, ioVars
<1>1. /\ UNCHANGED <<up, io, cur, kind, sent, hasty, queue, waiting, job, handled, failed>>
      /\ wpc[w] = "handle" /\ HasOutput(job[w])
      /\ out' = [out EXCEPT ![job[w]] = "raw"]
      /\ wpc' = [wpc EXCEPT ![w] = "size"]
  BY DEF Publish, HasOutput
<1>2. /\ job[w] \in Requests /\ job[w] = cur /\ io = "poll" /\ out[cur] = "null"
      /\ wpc' \in [Workers -> {"pop", "handle", "size", "data"}] /\ wpc'[w] = "size"
      /\ \A v \in Workers \ {w} : wpc'[v] = wpc[v] /\ job[v] # cur
  BY <1>1 DEF Handling, OnePlace, ServerTypeOK
<1>3. /\ out' \in [Requests -> {"null", "raw", "sized", "full", "freed"}]
      /\ out'[cur] = "raw" /\ \A r \in Requests \ {cur} : out'[r] = out[r]
  BY <1>1, <1>2 DEF ServerTypeOK
<1>4. ServerTypeOK'
  BY <1>1, <1>2, <1>3 DEF ServerTypeOK
<1>5. Serving'
  BY <1>1, <1>2, <1>3 DEF Serving, HasOutput
<1>6. Fresh'
  BY <1>1, <1>2, <1>3 DEF Fresh, Coming
<1>7. OnePlace'
  BY <1>1 DEF OnePlace
<1>8. Handling'
  <2>1. \A v \in Workers \ {w} : job[v] # None => job[v] \in Requests \ {cur}
    BY <1>2 DEF ServerTypeOK
  <2> QED BY <1>1, <1>2, <1>3, <2>1 DEF Handling, HasOutput
<1>9. Urgent'
  <2>1. \A i \in 1..Len(queue) : queue[i] \in Requests \ {cur}
    BY <1>2, QueueType DEF OnePlace
  <2> QED BY <1>1, <1>3, <2>1 DEF Urgent, HasOutput
<1>10. Published'
  BY <1>1, <1>2, <1>3 DEF Published
<1>11. ReplyWhole'
  BY <1>1, <1>3 DEF ReplyWhole
<1> QED BY <1>4, <1>5, <1>6, <1>7, <1>8, <1>9, <1>10, <1>11

LEMMA StoreSizeInv ==
  ASSUME ServerInv, NEW w \in Workers, StoreSize(w)
  PROVE  ServerInv'
<1> USE DEF ServerInv, ioVars
<1>1. /\ UNCHANGED <<io, cur, kind, sent, hasty, queue, waiting, job, handled, failed>>
      /\ wpc[w] = "size" /\ HasOutput(job[w]) /\ out[job[w]] \in {"raw", "freed"}
      /\ wpc' = [wpc EXCEPT ![w] = "data"]
      /\ up' \in BOOLEAN
      /\ \/ out' = out /\ out[job[w]] = "freed"
         \/ out' = [out EXCEPT ![job[w]] = "sized"] /\ out[job[w]] = "raw"
  <2>1. wpc[w] = "size" /\ HasOutput(job[w]) /\ out[job[w]] \in {"raw", "freed"}
    BY DEF StoreSize, Handling
  <2> QED BY <2>1 DEF StoreSize, Store, ServerTypeOK
<1>2. /\ job[w] \in Requests
      /\ wpc' \in [Workers -> {"pop", "handle", "size", "data"}] /\ wpc'[w] = "data"
      /\ \A v \in Workers \ {w} : wpc'[v] = wpc[v] /\ job[v] # job[w]
  BY <1>1 DEF Handling, OnePlace, ServerTypeOK
<1>3. /\ out' \in [Requests -> {"null", "raw", "sized", "full", "freed"}]
      /\ \A r \in Requests \ {job[w]} : out'[r] = out[r]
      /\ \/ out'[job[w]] = "freed" /\ out[job[w]] = "freed"
         \/ out'[job[w]] = "sized" /\ out[job[w]] = "raw"
  BY <1>1, <1>2 DEF ServerTypeOK
<1>4. ServerTypeOK'
  BY <1>1, <1>2, <1>3 DEF ServerTypeOK
<1>5. Serving'
  <2>1. io \in {"poll", "reply"} => cur \in Requests
    BY DEF Serving, ServerTypeOK
  <2> QED BY <1>1, <1>3, <2>1 DEF Serving, HasOutput
<1>6. Fresh'
  BY <1>1, <1>2, <1>3 DEF Fresh, Coming
<1>7. OnePlace'
  BY <1>1 DEF OnePlace
<1>8. Handling'
  <2>1. \A v \in Workers \ {w} : job[v] # None => job[v] \in Requests \ {job[w]}
    BY <1>2 DEF ServerTypeOK
  <2> QED BY <1>1, <1>2, <1>3, <2>1 DEF Handling, HasOutput
<1>9. Urgent'
  <2>1. \A i \in 1..Len(queue) : queue[i] \in Requests \ {job[w]}
    BY <1>2, QueueType DEF OnePlace
  <2> QED BY <1>1, <1>3, <2>1 DEF Urgent, HasOutput
<1>10. Published'
  BY <1>1, <1>2, <1>3 DEF Published
<1>11. ReplyWhole'
  BY <1>1, <1>2, <1>3 DEF ReplyWhole
<1> QED BY <1>4, <1>5, <1>6, <1>7, <1>8, <1>9, <1>10, <1>11

LEMMA StoreDataInv ==
  ASSUME ServerInv, NEW w \in Workers, StoreData(w)
  PROVE  ServerInv'
<1>1. /\ wpc[w] = "data" /\ Done(w) /\ UNCHANGED <<ioVars, queue, failed>>
      /\ Store(w, "full") /\ up /\ failed \in BOOLEAN /\ up \in BOOLEAN
  BY DEF StoreData, ServerInv, ServerTypeOK
<1>2. CASE out[job[w]] = "freed"
  <2>1. up' \in BOOLEAN /\ out' = out
    BY <1>1, <1>2 DEF Store
  <2> QED BY <1>1, <1>2, <2>1, DoneInv
<1>3. CASE out[job[w]] # "freed"
  <2>1. up' \in BOOLEAN /\ out' = [out EXCEPT ![job[w]] = "full"]
    BY <1>1, <1>3 DEF Store
  <2> QED BY <1>1, <1>3, <2>1, DoneInv
<1> QED BY <1>2, <1>3

-----------------------------------------------------------------------------
LEMMA ServerStep ==
  ASSUME ServerInv, [Next]_vars
  PROVE  ServerInv'
<1>1. /\ up \in BOOLEAN /\ failed \in BOOLEAN /\ waiting \subseteq Workers
      /\ TRUE \in BOOLEAN /\ FALSE \in BOOLEAN
  BY DEF ServerInv, ServerTypeOK
<1>2. CASE Io
  BY <1>2, ReadInv, PushInv, PollInv, ReplyInv DEF Io
<1>3. CASE PeerGone
  BY <1>1, <1>3, StillInv DEF PeerGone, workVars
<1>4. ASSUME NEW r \in Requests, NEW k \in Types, Accept(r, k) PROVE ServerInv'
  BY <1>4, AcceptInv
<1>5. ASSUME NEW w \in Workers, Work(w) PROVE ServerInv'
  <2>1. CASE Sleep(w)
    BY <1>1, <2>1, StillInv DEF Sleep
  <2>2. CASE NullHandler(w)
    BY <1>1, <2>2, StillInv DEF NullHandler, workVars
  <2>3. CASE Heartbeat(w)
    BY <1>1, <2>3, DoneInv DEF Heartbeat
  <2>4. CASE ShellcodeFails(w)
    BY <1>1, <2>4, DoneInv DEF ShellcodeFails
  <2> QED BY <1>5, <2>1, <2>2, <2>3, <2>4, PopInv, PublishInv, StoreSizeInv, StoreDataInv DEF Work
<1>6. ASSUME NEW w \in Workers, SpuriousWake(w) PROVE ServerInv'
  BY <1>1, <1>6, StillInv DEF SpuriousWake
<1>7. CASE UNCHANGED vars
  BY <1>1, <1>7, StillInv DEF vars, workVars
<1> QED BY <1>2, <1>3, <1>4, <1>5, <1>6, <1>7 DEF Next

LEMMA ServerInvariant == Spec => []ServerInv
<1>1. Init => ServerInv
  BY ServerInitInv
<1>2. ServerInv /\ [Next]_vars => ServerInv'
  BY ServerStep
<1> QED BY <1>1, <1>2, PTL DEF Spec

(* Every variable of the server keeps its type.                            *)
THEOREM ServerTypeCorrect == Spec => []ServerTypeOK
<1>1. ServerInv => ServerTypeOK
  BY DEF ServerInv
<1> QED BY <1>1, ServerInvariant, PTL

(* At most one critical request is queued, before all others.              *)
THEOREM OneUrgentHolds == Spec => []OneUrgent
<1>1. ServerInv => OneUrgent
  BY DEF ServerInv, Urgent, OneUrgent
<1> QED BY <1>1, ServerInvariant, PTL

(* No published reply outlives the connection it was published for.        *)
THEOREM RepliesReleasedHolds == Spec => []RepliesReleased
<1>1. ServerInv => RepliesReleased
  BY DEF ServerInv, ServerTypeOK, Published, RepliesReleased
<1> QED BY <1>1, ServerInvariant, PTL

(* But for the io thread's early look, replies go out whole and are not    *)
(* written to once freed.                                                  *)
THEOREM ReplyWholeHolds == Spec => []ReplyWhole
<1>1. ServerInv => ReplyWhole
  BY DEF ServerInv
<1> QED BY <1>1, ServerInvariant, PTL

-----------------------------------------------------------------------------
(* The refinement of WorkOrder.  A request that is not queued yet has not  *)
(* been handled, so that it is new to the abstract queue.                  *)
Unfinished == \A r \in Requests : Coming(r) => r \notin handled

(* The two parts of the queue, by position.                                *)
LEMMA Parts ==
  ASSUME ServerTypeOK
  PROVE  /\ Critical = {queue[i] : i \in {j \in 1..Len(queue) : HasOutput(queue[j])}}
         /\ queue = <<>> => Ordinary = <<>>
         /\ queue # <<>> => Head(queue) = queue[1] /\ 1 \in 1..Len(queue)
         /\ queue # <<>> /\ HasOutput(queue[1]) => Ordinary = Tail(queue)
         /\ queue # <<>> /\ ~HasOutput(queue[1]) => Ordinary = queue
<1>1. queue \in Seq(Requests) /\ \A i \in 1..Len(queue) : queue[i] \in Requests
  BY QueueType
<1>2. ToSet(queue) = {queue[i] : i \in 1..Len(queue)}
  BY <1>1 DEF ToSet
<1>3. Critical = {queue[i] : i \in {j \in 1..Len(queue) : HasOutput(queue[j])}}
  BY <1>2 DEF Critical
<1>4. queue # <<>> => Head(queue) = queue[1] /\ 1 \in 1..Len(queue)
  BY <1>1
<1> QED BY <1>3, <1>4 DEF Ordinary

(* And after a step that leaves the types of the requests alone.           *)
LEMMA PartsNext ==
  ASSUME queue' \in Seq(Requests), kind' = kind
  PROVE  /\ Critical' = {queue'[i] : i \in {j \in 1..Len(queue') : HasOutput(queue'[j])}}
         /\ queue' # <<>> /\ HasOutput(queue'[1]) => Ordinary' = Tail(queue')
         /\ queue' = <<>> \/ ~HasOutput(queue'[1]) => Ordinary' = queue'
<1>1. \A r : HasOutput(r)' <=> HasOutput(r)
  BY DEF HasOutput
<1>2. ToSet(queue)' = {queue'[i] : i \in 1..Len(queue')}
  BY DEF ToSet
<1>3. Critical' = {r \in ToSet(queue)' : HasOutput(r)}
  BY <1>1 DEF Critical
<1>4. queue' # <<>> => Head(queue') = queue'[1]
  OBVIOUS
<1>5. Ordinary' = IF queue' # <<>> /\ HasOutput(queue'[1]) THEN Tail(queue') ELSE queue'
  BY <1>4 DEF Ordinary, HasOutput
<1> QED BY <1>2, <1>3, <1>5

(* Steps that leave queue, jobs and handled requests, and the type of the  *)
(* requests that are queued.                                               *)
LEMMA OrderStutter ==
  ASSUME ServerTypeOK, UNCHANGED <<queue, job, handled>>,
         \A i \in 1..Len(queue) : HasOutput(queue[i])' <=> HasOutput(queue[i])
  PROVE  UNCHANGED Order!orderVars
<1>1. \A r \in ToSet(queue) : HasOutput(r)' <=> HasOutput(r)
  BY QueueType DEF ToSet
<1>2. Critical' = Critical
  BY <1>1 DEF Critical
<1>3. Ordinary' = Ordinary
  BY Parts DEF Ordinary
<1>4. Served' = Served
  BY DEF Served
<1> QED BY <1>2, <1>3, <1>4 DEF Order!orderVars

(* The request being queued is new.                                        *)
LEMMA CurIsNew ==
  ASSUME ServerInv, Unfinished, io = "queue"
  PROVE  cur \in Requests /\ cur \notin Order!Known
<1>1. /\ cur \in Requests /\ cur \notin handled
      /\ \A i \in 1..Len(queue) : queue[i] # cur
      /\ \A w \in Workers : job[w] # cur
  BY DEF ServerInv, ServerTypeOK, Serving, Fresh, Coming, Unfinished
<1>2. queue \in Seq(Requests) /\ \A i \in 1..Len(queue) : queue[i] \in Requests
  BY QueueType DEF ServerInv
<1>3. \A i \in 1..Len(Ordinary) : Ordinary[i] # cur
  <2>1. CASE Ordinary = queue
    BY <1>1, <2>1
  <2>2. CASE queue # <<>> /\ Ordinary = Tail(queue)
    <3>1. ASSUME NEW i \in 1..Len(Ordinary) PROVE i + 1 \in 1..Len(queue) /\ Ordinary[i] = queue[i + 1]
      BY <1>2, <2>2
    <3> QED BY <1>1, <3>1
  <2> QED BY <2>1, <2>2 DEF Ordinary
<1>4. cur \notin Critical
  BY <1>1, Parts DEF ServerInv
<1>5. cur \notin Served
  BY <1>1 DEF Served
<1> QED BY <1>1, <1>3, <1>4, <1>5 DEF Order!Known

(* Push submits: to the front what is critical, to the back the rest.      *)
LEMMA PushSubmits ==
  ASSUME ServerInv, Unfinished, Push
  PROVE  Order!OrderNext
<1> USE DEF ServerInv
<1>1. /\ io = "queue" /\ cur \in Requests /\ cur \notin Order!Known
      /\ UNCHANGED <<kind, job, handled>>
      /\ queue' = IF HasOutput(cur) THEN <<cur>> \o queue ELSE Append(queue, cur)
  BY CurIsNew DEF Push
<1>2. /\ queue \in Seq(Requests) /\ \A i \in 1..Len(queue) : queue[i] \in Requests
      /\ \A i \in 1..Len(queue) : ~HasOutput(queue[i])
  BY <1>1, QueueType DEF Urgent
<1>3. Served' = Served
  BY <1>1 DEF Served
<1>4. Critical = {} /\ Ordinary = queue
  BY <1>2, Parts
<1>5. CASE HasOutput(cur)
  <2>1. /\ queue' \in Seq(Requests)
        /\ Len(queue') = Len(queue) + 1 /\ queue'[1] = cur /\ queue' # <<>> /\ Tail(queue') = queue
        /\ \A i \in 1..Len(queue') : i # 1 => i - 1 \in 1..Len(queue) /\ queue'[i] = queue[i - 1]
    BY <1>1, <1>2, <1>5
  <2>2. \A i \in 1..Len(queue') : HasOutput(queue'[i]) <=> i = 1
    BY <1>2, <1>5, <2>1
  <2>3. 1 \in 1..Len(queue')
    BY <1>2, <2>1
  <2>4. Critical' = {cur} /\ Ordinary' = queue
    <3>1. {j \in 1..Len(queue') : HasOutput(queue'[j])} = {1}
      BY <2>2, <2>3
    <3>2. Critical' = {queue'[i] : i \in {1}}
      BY <1>1, <2>1, <3>1, PartsNext
    <3>3. Ordinary' = Tail(queue')
      BY <1>1, <1>5, <2>1, PartsNext
    <3> QED BY <2>1, <3>2, <3>3
  <2>5. Order!SubmitUrgent(cur)
    BY <1>1, <1>3, <1>4, <2>4 DEF Order!SubmitUrgent
  <2> QED BY <1>1, <2>5 DEF Order!OrderNext
<1>6. CASE ~HasOutput(cur)
  <2>1. /\ queue' \in Seq(Requests) /\ queue' = Append(queue, cur)
        /\ Len(queue') = Len(queue) + 1 /\ queue'[Len(queue')] = cur
        /\ \A i \in 1..Len(queue) : queue'[i] = queue[i]
    BY <1>1, <1>2, <1>6
  <2>2. 1 \in 1..Len(queue') /\ \A i \in 1..Len(queue') : ~HasOutput(queue'[i])
    BY <1>2, <1>6, <2>1
  <2>3. Critical' = {} /\ Ordinary' = queue'
    BY <1>1, <2>1, <2>2, PartsNext
  <2>4. Order!Submit(cur)
    BY <1>1, <1>3, <1>4, <2>1, <2>3 DEF Order!Submit
  <2> QED BY <1>1, <2>4 DEF Order!OrderNext
<1> QED BY <1>5, <1>6

(* Pop takes: what is critical if it is there, the head of the rest if not. *)
LEMMA PopTakes ==
  ASSUME ServerInv, NEW w \in Workers, Pop(w)
  PROVE  Order!OrderNext
<1> USE DEF ServerInv
<1>1. /\ queue # <<>> /\ job[w] = None
      /\ job' = [job EXCEPT ![w] = queue[1]] /\ queue' = Tail(queue)
      /\ UNCHANGED <<kind, handled>>
  BY Parts DEF Pop, ioVars, Handling
<1>2. /\ queue \in Seq(Requests) /\ \A i \in 1..Len(queue) : queue[i] \in Requests
      /\ 1 \in 1..Len(queue) /\ Head(queue) = queue[1] /\ queue[1] # None
      /\ \A i \in 1..Len(queue) : HasOutput(queue[i]) => i = 1
  BY <1>1, QueueType, Parts, ServerAssumption DEF Urgent, ServerAssumption
<1>3. Served' = Served \cup {queue[1]}
  <2>1. job'[w] = queue[1] /\ \A v \in Workers \ {w} : job'[v] = job[v]
    BY <1>1 DEF ServerTypeOK
  <2> QED BY <1>1, <1>2, <2>1 DEF Served
<1>4. /\ queue' \in Seq(Requests) /\ Len(queue') = Len(queue) - 1
      /\ \A i \in 1..Len(queue') : i + 1 \in 1..Len(queue) /\ queue'[i] = queue[i + 1]
  BY <1>1, <1>2
<1>5. \A i \in 1..Len(queue') : ~HasOutput(queue'[i])
  <2> SUFFICES ASSUME NEW i \in 1..Len(queue') PROVE ~HasOutput(queue'[i])
    OBVIOUS
  <2>1. i + 1 \in 1..Len(queue) /\ i + 1 # 1 /\ queue'[i] = queue[i + 1]
    BY <1>4
  <2> QED BY <1>2, <2>1
<1>6. queue' # <<>> => 1 \in 1..Len(queue')
  BY <1>4
<1>7. Critical' = {} /\ Ordinary' = Tail(queue)
  BY <1>1, <1>4, <1>5, <1>6, PartsNext
<1>8. CASE HasOutput(queue[1])
  <2>1. Critical = {queue[1]} /\ Ordinary = Tail(queue)
    BY <1>1, <1>2, <1>8, Parts
  <2>2. Order!TakeUrgent(queue[1])
    BY <1>1, <1>3, <1>7, <2>1 DEF Order!TakeUrgent
  <2> QED BY <1>2, <2>2 DEF Order!OrderNext
<1>9. CASE ~HasOutput(queue[1])
  <2>1. Critical = {} /\ Ordinary = queue
    BY <1>1, <1>2, <1>9, Parts
  <2>2. Order!Take
    BY <1>1, <1>2, <1>3, <1>7, <2>1 DEF Order!Take
  <2> QED BY <2>2 DEF Order!OrderNext
<1> QED BY <1>8, <1>9

(* A handler that returns finishes its request, which no other worker has. *)
LEMMA DoneFinishes ==
  ASSUME ServerInv, NEW w \in Workers, wpc[w] # "pop", Done(w), UNCHANGED <<kind, queue>>
  PROVE  Order!OrderNext
<1> USE DEF ServerInv
<1>1. /\ job[w] \in Requests /\ job[w] # None
      /\ job'[w] = None /\ \A v \in Workers \ {w} : job'[v] = job[v] /\ job[v] # job[w]
      /\ handled' = handled \cup {job[w]}
  BY DEF Done, Handling, OnePlace, ServerTypeOK
<1>2. job[w] \in Served /\ Served' = Served \ {job[w]}
  BY <1>1 DEF Served
<1>3. Critical' = Critical /\ Ordinary' = Ordinary
  BY DEF Critical, Ordinary, HasOutput
<1>4. Order!Finish(job[w])
  BY <1>1, <1>2, <1>3 DEF Order!Finish
<1> QED BY <1>1, <1>4 DEF Order!OrderNext

-----------------------------------------------------------------------------
(* Every step keeps Unfinished: what is handled was queued before.         *)
LEMMA UnfinishedStep ==
  ASSUME ServerInv, Unfinished, [Next]_vars
  PROVE  Unfinished'
<1> USE DEF ServerInv
<1>1. \/ handled' = handled
      \/ \E w \in Workers : wpc[w] # "pop" /\ Done(w) /\ UNCHANGED ioVars
  <2>1. CASE Io \/ PeerGone
    BY <2>1 DEF Io, PeerGone, ReadHeader, ReadBody, Push, Poll, Reply, workVars
  <2>2. ASSUME NEW r \in Requests, NEW k \in Types, Accept(r, k) PROVE handled' = handled
    BY <2>2 DEF Accept, workVars
  <2>3. ASSUME NEW w \in Workers, Work(w) PROVE <1>1!:
    BY <2>3 DEF Work, Sleep, Pop, Heartbeat, NullHandler, ShellcodeFails, Publish,
                StoreSize, StoreData, workVars
  <2>4. ASSUME NEW w \in Workers, SpuriousWake(w) PROVE handled' = handled
    BY <2>4 DEF SpuriousWake
  <2>5. CASE UNCHANGED vars
    BY <2>5 DEF vars, workVars
  <2> QED BY <2>1, <2>2, <2>3, <2>4, <2>5 DEF Next
<1>2. ASSUME NEW r \in Requests, Coming(r)' PROVE Coming(r)
  <2>1. CASE Io \/ PeerGone
    BY <1>2, <2>1 DEF Io, PeerGone, ReadHeader, ReadBody, Push, Poll, Reply, ioVars,
                      NextConnection, Coming
  <2>2. ASSUME NEW q \in Requests, NEW k \in Types, Accept(q, k) PROVE Coming(r)
    BY <1>2, <2>2 DEF Accept, Coming, ServerTypeOK
  <2>3. ASSUME NEW w \in Workers, Work(w) \/ SpuriousWake(w) PROVE Coming(r)
    <3>1. UNCHANGED ioVars
      BY <2>3 DEF Work, Sleep, Pop, Heartbeat, NullHandler, ShellcodeFails, Publish,
                  StoreSize, StoreData, SpuriousWake
    <3> QED BY <1>2, <3>1 DEF Coming, ioVars
  <2>4. CASE UNCHANGED vars
    BY <1>2, <2>4 DEF vars, ioVars, Coming
  <2> QED BY <2>1, <2>2, <2>3, <2>4 DEF Next
<1>3. ASSUME NEW w \in Workers, wpc[w] # "pop", Done(w), NEW r \in Requests, Coming(r)
      PROVE  r # job[w]
  BY <1>3 DEF Fresh
<1> QED BY <1>1, <1>2, <1>3 DEF Unfinished, Done

LEMMA OrderStep ==
  ASSUME ServerInv, Unfinished, [Next]_vars
  PROVE  [Order!OrderNext]_(Order!orderVars)
<1> USE DEF ServerInv
<1>1. CASE Io \/ PeerGone
  <2>1. CASE Push
    BY <2>1, PushSubmits
  <2>2. CASE ~Push
    <3>1. UNCHANGED <<queue, job, handled, kind>>
      BY <1>1, <2>2 DEF Io, PeerGone, ReadHeader, ReadBody, Poll, Reply, workVars, ioVars
    <3> QED BY <3>1, OrderStutter DEF HasOutput
  <2> QED BY <2>1, <2>2
<1>2. ASSUME NEW r \in Requests, NEW k \in Types, Accept(r, k)
      PROVE  UNCHANGED Order!orderVars
  <2>1. UNCHANGED <<queue, job, handled>> /\ kind[r] = "unsent" /\ kind' = [kind EXCEPT ![r] = k]
    BY <1>2 DEF Accept, workVars
  <2>2. \A i \in 1..Len(queue) : queue[i] \in Requests \ {r}
    BY <2>1, QueueType DEF Fresh, Coming
  <2>3. \A i \in 1..Len(queue) : HasOutput(queue[i])' <=> HasOutput(queue[i])
    BY <2>1, <2>2 DEF HasOutput, ServerTypeOK
  <2> QED BY <2>1, <2>3, OrderStutter
<1>3. ASSUME NEW w \in Workers, Work(w) \/ SpuriousWake(w)
      PROVE  [Order!OrderNext]_(Order!orderVars)
  <2>1. CASE Pop(w)
    BY <2>1, PopTakes
  <2>2. CASE Heartbeat(w) \/ ShellcodeFails(w) \/ StoreData(w)
    <3>1. wpc[w] # "pop" /\ Done(w) /\ UNCHANGED <<kind, queue>>
      BY <2>2 DEF Heartbeat, ShellcodeFails, StoreData, ioVars
    <3> QED BY <3>1, DoneFinishes
  <2>3. CASE \/ Sleep(w) \/ NullHandler(w) \/ Publish(w) \/ StoreSize(w)
             \/ SpuriousWake(w)
    <3>1. UNCHANGED <<queue, job, handled, kind>>
      BY <2>3 DEF Sleep, NullHandler, Publish, StoreSize, SpuriousWake, ioVars, workVars
    <3> QED BY <3>1, OrderStutter DEF HasOutput
  <2> QED BY <1>3, <2>1, <2>2, <2>3 DEF Work
<1>4. CASE UNCHANGED vars
  <2>1. UNCHANGED <<queue, job, handled, kind>>
    BY <1>4 DEF vars, ioVars, workVars
  <2> QED BY <2>1, OrderStutter DEF HasOutput
<1> QED BY <1>1, <1>2, <1>3, <1>4 DEF Next

(* The queue of the server implements WorkOrder: with any number of        *)
(* workers that sleep, are woken for nothing or race for an element, every *)
(* request queued is taken once and finished once, a critical one before   *)
(* all others and those in the order they came.                            *)
THEOREM ServerImplementsOrder == Spec => ImplementsOrder
<1>1. Init => Order!OrderInit /\ Unfinished
  <2> SUFFICES ASSUME Init PROVE Order!OrderInit /\ Unfinished
    OBVIOUS
  <2>1. Critical = {} /\ Ordinary = <<>>
    BY DEF Init, Critical, Ordinary, ToSet
  <2>2. Served = {}
    BY DEF Init, Served
  <2> QED BY <2>1, <2>2 DEF Init, Order!OrderInit, Unfinished
<1>2. ServerInv /\ Unfinished /\ [Next]_vars => Unfinished'
  BY UnfinishedStep
<1>3. ServerInv /\ Unfinished /\ [Next]_vars => [Order!OrderNext]_(Order!orderVars)
  BY OrderStep
<1> QED BY <1>1, <1>2, <1>3, ServerInvariant, PTL DEF Spec, ImplementsOrder, Order!OrderSpec

-----------------------------------------------------------------------------
(* A request whose handler has returned is neither queued nor with any     *)
(* worker.                                                                 *)
HandledOnce ==
  \A r \in handled :
    /\ \A i \in 1..Len(queue) : queue[i] # r
    /\ \A w \in Workers : job[w] # r

(* While something is queued not every worker sleeps; and the io thread    *)
(* only waits for a pointer that the queue or a worker will yet fill, but  *)
(* for a handler that returned without it.                                 *)
SomebodyAwake == queue # <<>> => \E w \in Workers : w \notin waiting

AnswerComes ==
  io = "poll" /\ out[cur] = "null" /\ ~failed =>
    \/ \E i \in 1..Len(queue) : queue[i] = cur
    \/ \E w \in Workers : wpc[w] = "handle" /\ job[w] = cur

NobodyStuck == SomebodyAwake /\ AnswerComes

(* What the queue holds after the two operations on it.                    *)
LEMMA PushHolds ==
  ASSUME ServerTypeOK, io = "queue", cur \in Requests, Push
  PROVE  /\ queue' \in Seq(Requests)
         /\ \E i \in 1..Len(queue') : queue'[i] = cur
         /\ \A i \in 1..Len(queue') :
              queue'[i] = cur \/ \E j \in 1..Len(queue) : queue'[i] = queue[j]
<1>1. queue \in Seq(Requests) /\ queue' = IF HasOutput(cur) THEN <<cur>> \o queue ELSE Append(queue, cur)
  BY QueueType DEF Push
<1>2. CASE HasOutput(cur)
  <2>1. /\ queue' \in Seq(Requests) /\ 1 \in 1..Len(queue') /\ queue'[1] = cur
        /\ \A i \in 1..Len(queue') : i # 1 => i - 1 \in 1..Len(queue) /\ queue'[i] = queue[i - 1]
    BY <1>1, <1>2
  <2> QED BY <2>1
<1>3. CASE ~HasOutput(cur)
  <2>1. /\ queue' \in Seq(Requests) /\ Len(queue') = Len(queue) + 1
        /\ Len(queue') \in 1..Len(queue') /\ queue'[Len(queue')] = cur
        /\ \A i \in 1..Len(queue') : i # Len(queue') => i \in 1..Len(queue) /\ queue'[i] = queue[i]
    BY <1>1, <1>3
  <2> QED BY <2>1
<1> QED BY <1>2, <1>3

LEMMA PopHolds ==
  ASSUME ServerTypeOK, NEW w \in Workers, Pop(w)
  PROVE  /\ 1 \in 1..Len(queue) /\ job' = [job EXCEPT ![w] = queue[1]]
         /\ \A i \in 1..Len(queue') : i + 1 \in 1..Len(queue) /\ queue'[i] = queue[i + 1]
         /\ \A j \in 1..Len(queue) :
              j = 1 \/ \E i \in 1..Len(queue') : queue'[i] = queue[j]
<1>1. /\ queue \in Seq(Requests) /\ queue # <<>> /\ queue' = Tail(queue)
      /\ job' = [job EXCEPT ![w] = Head(queue)]
  BY QueueType DEF Pop
<1>2. 1 \in 1..Len(queue) /\ Head(queue) = queue[1]
  BY <1>1
<1>3. \A i \in 1..Len(queue') : i + 1 \in 1..Len(queue) /\ queue'[i] = queue[i + 1]
  BY <1>1
<1>4. ASSUME NEW j \in 1..Len(queue), j # 1
      PROVE  j - 1 \in 1..Len(queue') /\ queue'[j - 1] = queue[j]
  BY <1>1, <1>4
<1> QED BY <1>1, <1>2, <1>3, <1>4

(* Where queue, jobs and handled requests may change.                      *)
LEMMA OnlyPushPopDone ==
  ASSUME [Next]_vars
  PROVE  \/ Push
         \/ \E w \in Workers : Pop(w)
         \/ \E w \in Workers : wpc[w] \in {"handle", "data"} /\ Done(w) /\ UNCHANGED queue
         \/ UNCHANGED <<queue, job, handled>>
<1>1. CASE Io \/ PeerGone
  BY <1>1 DEF Io, PeerGone, ReadHeader, ReadBody, Poll, Reply, workVars
<1>2. ASSUME NEW r \in Requests, NEW k \in Types, Accept(r, k)
      PROVE  UNCHANGED <<queue, job, handled>>
  BY <1>2 DEF Accept, workVars
<1>3. ASSUME NEW w \in Workers, Work(w) \/ SpuriousWake(w)
      PROVE  \/ Pop(w)
             \/ wpc[w] \in {"handle", "data"} /\ Done(w) /\ UNCHANGED queue
             \/ UNCHANGED <<queue, job, handled>>
  BY <1>3 DEF Work, Sleep, Heartbeat, NullHandler, ShellcodeFails, Publish, StoreSize,
              StoreData, SpuriousWake, workVars
<1>4. CASE UNCHANGED vars
  BY <1>4 DEF vars, workVars
<1> QED BY <1>1, <1>2, <1>3, <1>4 DEF Next

LEMMA HandledOnceStep ==
  ASSUME ServerInv, Unfinished, HandledOnce, [Next]_vars
  PROVE  HandledOnce'
<1> USE DEF ServerInv
<1>1. CASE Push
  <2>1. io = "queue" /\ cur \in Requests /\ cur \notin handled /\ UNCHANGED <<job, handled>>
    BY <1>1, CurIsNew DEF Push, Order!Known
  <2>2. \A i \in 1..Len(queue') :
          queue'[i] = cur \/ \E j \in 1..Len(queue) : queue'[i] = queue[j]
    BY <1>1, <2>1, PushHolds
  <2> QED BY <2>1, <2>2 DEF HandledOnce
<1>2. ASSUME NEW w \in Workers, Pop(w) PROVE HandledOnce'
  <2>1. /\ handled' = handled /\ 1 \in 1..Len(queue)
        /\ \A i \in 1..Len(queue') : \E j \in 1..Len(queue) : queue'[i] = queue[j]
    BY <1>2, PopHolds DEF Pop
  <2>2. job'[w] = queue[1] /\ \A v \in Workers \ {w} : job'[v] = job[v]
    BY <1>2, PopHolds DEF ServerTypeOK
  <2> QED BY <2>1, <2>2 DEF HandledOnce
<1>3. ASSUME NEW w \in Workers, wpc[w] \in {"handle", "data"}, Done(w), UNCHANGED queue
      PROVE  HandledOnce'
  <2>1. /\ job[w] # None /\ job[w] \in Requests /\ handled' = handled \cup {job[w]}
        /\ job'[w] = None /\ \A v \in Workers \ {w} : job'[v] = job[v] /\ job[v] # job[w]
    BY <1>3 DEF Done, Handling, OnePlace, ServerTypeOK
  <2>2. None \notin handled'
    BY <2>1, ServerAssumption DEF ServerTypeOK, ServerAssumption
  <2>3. \A i \in 1..Len(queue) : queue[i] # job[w]
    BY DEF OnePlace
  <2> QED BY <1>3, <2>1, <2>2, <2>3 DEF HandledOnce
<1>4. CASE UNCHANGED <<queue, job, handled>>
  BY <1>4 DEF HandledOnce
<1> QED BY <1>1, <1>2, <1>3, <1>4, OnlyPushPopDone

(* No request is handled twice: once its handler has returned it is never  *)
(* queued and never given to a worker again, however workers race for the  *)
(* queue.                                                                  *)
THEOREM HandledOnceHolds == Spec => []HandledOnce
<1>1. Init => HandledOnce /\ Unfinished
  BY DEF Init, HandledOnce, Unfinished
<1>2. ServerInv /\ Unfinished /\ [Next]_vars => Unfinished'
  BY UnfinishedStep
<1>3. ServerInv /\ Unfinished /\ HandledOnce /\ [Next]_vars => HandledOnce'
  BY HandledOnceStep
<1> QED BY <1>1, <1>2, <1>3, ServerInvariant, PTL DEF Spec

LEMMA AwakeStep ==
  ASSUME ServerInv, SomebodyAwake, [Next]_vars
  PROVE  SomebodyAwake'
<1> USE DEF ServerInv
<1>1. CASE Push
  <2>1. \E w \in Workers : w \notin waiting'
    <3>1. CASE waiting = {}
      BY <1>1, <3>1, ServerAssumption DEF Push, Notify, ServerAssumption
    <3>2. CASE waiting # {}
      BY <1>1, <3>2 DEF Push, Notify, ServerTypeOK
    <3> QED BY <3>1, <3>2
  <2> QED BY <2>1 DEF SomebodyAwake
<1>2. ASSUME NEW w \in Workers, Pop(w) PROVE SomebodyAwake'
  BY <1>2 DEF Pop, SomebodyAwake
<1>3. ASSUME NEW w \in Workers, Sleep(w) PROVE SomebodyAwake'
  BY <1>3 DEF Sleep, SomebodyAwake
<1>4. ASSUME ~Push, \A w \in Workers : ~Pop(w) /\ ~Sleep(w)
      PROVE  queue' = queue /\ waiting' \subseteq waiting
  <2>1. CASE Io \/ PeerGone
    BY <1>4, <2>1 DEF Io, PeerGone, ReadHeader, ReadBody, Poll, Reply, workVars
  <2>2. ASSUME NEW r \in Requests, NEW k \in Types, Accept(r, k)
        PROVE  UNCHANGED <<queue, waiting>>
    BY <2>2 DEF Accept, workVars
  <2>3. ASSUME NEW w \in Workers, Work(w) \/ SpuriousWake(w)
        PROVE  queue' = queue /\ waiting' \subseteq waiting
    BY <1>4, <2>3 DEF Work, Heartbeat, NullHandler, ShellcodeFails, Publish, StoreSize,
                      StoreData, SpuriousWake, workVars, Done
  <2>4. CASE UNCHANGED vars
    BY <2>4 DEF vars, workVars
  <2> QED BY <2>1, <2>2, <2>3, <2>4 DEF Next
<1> QED BY <1>1, <1>2, <1>3, <1>4 DEF SomebodyAwake

LEMMA AnswerStep ==
  ASSUME ServerInv, AnswerComes, [Next]_vars
  PROVE  AnswerComes'
<1> SUFFICES ASSUME io' = "poll", out'[cur'] = "null", ~failed'
             PROVE  \/ \E i \in 1..Len(queue') : queue'[i] = cur'
                    \/ \E w \in Workers : wpc'[w] = "handle" /\ job'[w] = cur'
  BY DEF AnswerComes
<1> USE DEF ServerInv
<1>1. CASE Push
  <2>1. io = "queue" /\ cur \in Requests /\ cur' = cur
    BY <1>1, CurIsNew DEF Push, NextConnection, Serving, ServerTypeOK
  <2> QED BY <1>1, <2>1, PushHolds
<1>2. CASE (Io /\ ~Push) \/ PeerGone
  BY <1>2 DEF Io, PeerGone, ReadHeader, ReadBody, Poll, Reply, NextConnection, ioVars
<1>3. ASSUME NEW r \in Requests, NEW k \in Types, Accept(r, k) PROVE FALSE
  BY <1>3 DEF Accept
<1>4. ASSUME NEW w \in Workers, Work(w) \/ SpuriousWake(w)
      PROVE  \/ \E i \in 1..Len(queue') : queue'[i] = cur
             \/ \E v \in Workers : wpc'[v] = "handle" /\ job'[v] = cur
  <2>1. UNCHANGED ioVars /\ io = "poll" /\ cur' = cur /\ cur \in Requests /\ kind[cur] = "shellcode"
    BY <1>4 DEF Work, Sleep, Pop, Heartbeat, NullHandler, ShellcodeFails, Publish, StoreSize,
                StoreData, SpuriousWake, ioVars, Serving, HasOutput, ServerTypeOK
  <2>2. wpc[w] # "pop" => job[w] \in Requests
    BY DEF Handling, ServerTypeOK
  <2>3. out[cur] = "null" /\ ~failed
    BY <1>4, <2>1, <2>2 DEF Work, Sleep, Pop, Heartbeat, NullHandler, ShellcodeFails, Publish,
       StoreSize, StoreData, Store, Done, SpuriousWake, workVars, ServerTypeOK
  <2>4. \/ \E i \in 1..Len(queue) : queue[i] = cur
        \/ \E v \in Workers : wpc[v] = "handle" /\ job[v] = cur
    BY <2>1, <2>3 DEF AnswerComes
  <2>5. CASE Pop(w)
    <3>1. /\ job'[w] = queue[1] /\ wpc'[w] = "handle" /\ wpc[w] = "pop"
          /\ \A v \in Workers \ {w} : job'[v] = job[v] /\ wpc'[v] = wpc[v]
      BY <2>5, PopHolds DEF Pop, ServerTypeOK
    <3>2. \A j \in 1..Len(queue) : j = 1 \/ \E i \in 1..Len(queue') : queue'[i] = queue[j]
      BY <2>5, PopHolds
    <3> QED BY <2>4, <3>1, <3>2
  <2>6. CASE ~Pop(w)
    <3>1. queue' = queue /\ \A v \in Workers \ {w} : job'[v] = job[v] /\ wpc'[v] = wpc[v]
      BY <1>4, <2>6 DEF Work, Sleep, Heartbeat, NullHandler, ShellcodeFails, Publish,
         StoreSize, StoreData, Done, SpuriousWake, workVars, ServerTypeOK
    <3>2. wpc[w] = "handle" /\ job[w] = cur => wpc'[w] = wpc[w] /\ job'[w] = job[w]
      BY <1>4, <2>1, <2>6 DEF Work, Sleep, Heartbeat, NullHandler, ShellcodeFails, Publish,
         StoreSize, StoreData, Done, SpuriousWake, workVars, ServerTypeOK
    <3> QED BY <2>4, <3>1, <3>2
  <2> QED BY <2>5, <2>6
<1>5. CASE UNCHANGED vars
  BY <1>5 DEF vars, ioVars, workVars, AnswerComes
<1>6. ASSUME NEW w \in Workers, Work(w) \/ SpuriousWake(w) PROVE cur' = cur
  BY <1>6 DEF Work, Sleep, Pop, Heartbeat, NullHandler, ShellcodeFails, Publish, StoreSize,
              StoreData, SpuriousWake, ioVars
<1> QED BY <1>1, <1>2, <1>3, <1>4, <1>5, <1>6 DEF Next

(* No wake-up is lost and nobody waits for nobody: what QueuedIsHandled    *)
(* and AcceptsAgain rest on besides fairness.  While a request is queued   *)
(* some worker is awake, and the reply the io thread polls for is still to *)
(* be made, unless a handler returned without one.                         *)
THEOREM NobodyStuckHolds == Spec => []NobodyStuck
<1>1. Init => NobodyStuck
  BY DEF Init, NobodyStuck, SomebodyAwake, AnswerComes
<1>2. ServerInv /\ NobodyStuck /\ [Next]_vars => NobodyStuck'
  BY AwakeStep, AnswerStep DEF NobodyStuck
<1> QED BY <1>1, <1>2, ServerInvariant, PTL DEF Spec

=============================================================================
