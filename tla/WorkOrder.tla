------------------------------ MODULE WorkOrder ------------------------------
(***************************************************************************)
(* What the server's work queue promises: every request submitted is taken *)
(* once and finished once, an urgent request is taken before any other,    *)
(* and the others are taken in the order they came.                        *)
(***************************************************************************)
EXTENDS Naturals, Sequences

CONSTANTS Requests

VARIABLES urgent,    \* urgent requests not yet taken
          backlog,   \* the other requests not yet taken, in order
          serving,   \* requests a worker has taken and not finished
          finished   \* requests finished

orderVars == <<urgent, backlog, serving, finished>>

Known == urgent \cup {backlog[i] : i \in 1..Len(backlog)} \cup serving \cup finished

SubmitUrgent(r) ==
  /\ r \notin Known
  /\ urgent' = urgent \cup {r}
  /\ UNCHANGED <<backlog, serving, finished>>

Submit(r) ==
  /\ r \notin Known
  /\ backlog' = Append(backlog, r)
  /\ UNCHANGED <<urgent, serving, finished>>

TakeUrgent(r) ==
  /\ r \in urgent
  /\ urgent' = urgent \ {r}
  /\ serving' = serving \cup {r}
  /\ UNCHANGED <<backlog, finished>>

Take ==
  /\ urgent = {}
  /\ backlog # <<>>
  /\ backlog' = Tail(backlog)
  /\ serving' = serving \cup {Head(backlog)}
  /\ UNCHANGED <<urgent, finished>>

Finish(r) ==
  /\ r \in serving
  /\ serving' = serving \ {r}
  /\ finished' = finished \cup {r}
  /\ UNCHANGED <<urgent, backlog>>

OrderInit == urgent = {} /\ backlog = <<>> /\ serving = {} /\ finished = {}

OrderNext ==
  \/ Take
  \/ \E r \in Requests : SubmitUrgent(r) \/ Submit(r) \/ TakeUrgent(r) \/ Finish(r)

OrderSpec == OrderInit /\ [][OrderNext]_orderVars
=============================================================================
