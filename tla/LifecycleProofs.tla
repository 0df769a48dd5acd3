--------------------------- MODULE LifecycleProofs ---------------------------
(***************************************************************************)
(* Proofs about Lifecycle, for any set of launches and any number of       *)
(* mishaps: the type invariant, NoWedge, LaunchAloneSucceeds and           *)
(* SessionKeepsDriver.  LaunchEnds, a liveness property, is only           *)
(* model-checked.                                                          *)
(***************************************************************************)
EXTENDS Lifecycle, TLAPS

Boot(l) == <<"boot", l>>
Sess(l) == <<"session", l>>

BootPlaces == {"off", "clean", "create", "start", "launch", "game", "done", "undo", "failed"}
SessPlaces == {"off", "init", "work", "unit", "cleanup", "gone"}

(* Which step of a function of scm belongs to which place of a program,    *)
(* and when a handle to the entry is open: from the open to the close.     *)
Steps(a) ==
  /\ sub[a] \in {"stop", "poll", "delete"} => pc[a] \in Destroys
  /\ sub[a] \in {"closeOld", "create"} => pc[a] = "create"
  /\ sub[a] = "start" => pc[a] = "start"
  /\ sub[a] = "close" => pc[a] \in Destroys \cup {"create", "start"}
  /\ sub[a] = "closeFailed" => pc[a] \in Destroys \cup {"start"}
  /\ a \in handle <=> sub[a] \notin {"ready", "create"}

(* The session begins when its Bootstrapper has started the driver, and    *)
(* has the device open only in a request.                                  *)
Programs(l) ==
  /\ pc[Boot(l)] \in BootPlaces
  /\ pc[Sess(l)] \in SessPlaces
  /\ Sess(l) \in device => pc[Sess(l)] \in {"init", "work", "unit"}
  /\ pc[Boot(l)] \in {"off", "clean", "create", "start", "launch"} => pc[Sess(l)] = "off"

(* The manager: a marked entry is kept by the driver or by a handle; a     *)
(* driver that is loaded, or an open handle, keeps the entry.              *)
Kept ==
  /\ entry = "marked" => driver # "stopped" \/ handle # {}
  /\ driver # "stopped" \/ handle # {} => entry # "none"

(* Nobody is active beside a launch that is active and undisturbed.        *)
Alone(l) ==
  l \notin disturbed /\ (Active(Boot(l)) \/ Active(Sess(l))) => Beside(l) = {}

(* What an undisturbed launch that met no mishap finds at each place.      *)
Clean(b) ==
  /\ sub[b] \in {"ready", "stop"} => driver # "stopping"
  /\ sub[b] = "poll" => driver # "running"
  /\ sub[b] \in {"delete", "close", "closeFailed"} => driver = "stopped"
  /\ sub[b] \in {"close", "closeFailed"} => entry = "marked"

Creating(b) ==
  /\ driver = "stopped"
  /\ sub[b] \in {"ready", "create", "close"}
  /\ entry = IF sub[b] = "close" THEN "registered" ELSE "none"

Starting(b) ==
  /\ entry = "registered"
  /\ sub[b] # "closeFailed"
  /\ driver = IF sub[b] = "close" THEN "running" ELSE "stopped"

Found(b) ==
  /\ pc[b] \notin {"undo", "failed"}
  /\ pc[b] = "clean" => Clean(b)
  /\ pc[b] = "create" => Creating(b)
  /\ pc[b] = "start" => Starting(b)
  /\ pc[b] = "launch" => driver = "running"

Clear(l) ==
  l \notin disturbed /\ Boot(l) \notin mishap =>
    /\ Found(Boot(l))
    /\ pc[Sess(l)] \in {"init", "work"} => driver = "running"

LifecycleInv ==
  /\ LifecycleTypeOK
  /\ Kept
  /\ \A a \in Agents : Steps(a)
  /\ \A l \in Launches : Programs(l) /\ Alone(l) /\ Clear(l)

-----------------------------------------------------------------------------
LEMMA AgentFacts ==
  /\ \A l \in Launches :
       /\ Boot(l) \in Boots /\ Boot(l) \in Agents /\ Boot(l)[2] = l
       /\ Sess(l) \in Sessions /\ Sess(l) \in Agents /\ Sess(l)[2] = l
  /\ \A l, m \in Launches : Boot(l) # Sess(m)
  /\ \A a \in Agents : \E l \in Launches : a \in {Boot(l), Sess(l)}
  /\ \A s \in Sessions : \E l \in Launches : s = Sess(l)
BY DEF Agents, Boots, Sessions, Boot, Sess

LEMMA Outcomes ==
  /\ OnSuccess["clean"] = "create" /\ OnFailure["clean"] = "create"
  /\ OnSuccess["create"] = "start" /\ OnFailure["create"] = "failed"
  /\ OnSuccess["start"] = "launch" /\ OnFailure["start"] = "undo"
  /\ OnSuccess["launch"] = "game" /\ OnFailure["launch"] = "undo"
  /\ OnSuccess["game"] = "done" /\ OnFailure["game"] = "undo"
  /\ OnSuccess["undo"] = "failed" /\ OnFailure["undo"] = "failed"
  /\ OnSuccess["cleanup"] = "gone" /\ OnFailure["cleanup"] = "gone"
  /\ DOMAIN OnSuccess =
       {"clean", "create", "start", "launch", "game", "undo", "cleanup"}
BY DEF OnSuccess, OnFailure

LEMMA LifecycleInitInv == Init => LifecycleInv
<1> SUFFICES ASSUME Init PROVE LifecycleInv
  OBVIOUS
<1>1. LifecycleTypeOK
  BY DEF Init, LifecycleTypeOK, Resting
<1>2. Kept /\ \A a \in Agents : Steps(a)
  BY DEF Init, Kept, Steps
<1>3. ASSUME NEW l \in Launches PROVE Programs(l) /\ Alone(l) /\ Clear(l)
  <2>1. pc[Boot(l)] = "off" /\ pc[Sess(l)] = "off" /\ device = {}
    BY AgentFacts DEF Init
  <2> QED BY <2>1 DEF Programs, Alone, Clear, Found, Active, Resting, BootPlaces, SessPlaces
<1> QED BY <1>1, <1>2, <1>3 DEF LifecycleInv

-----------------------------------------------------------------------------
(* A step of one agent: the others stay where they are, with what they     *)
(* have open.                                                              *)
OnlyMoves(a) ==
  /\ \A c \in Agents \ {a} :
       /\ pc'[c] = pc[c] /\ sub'[c] = sub[c]
       /\ c \in handle' <=> c \in handle
       /\ c \in device' => c \in device
  /\ mishap \subseteq mishap' /\ disturbed' = disturbed

(* It leaves the other launches what they had: one that is active has no   *)
(* agent beside it, unless it is disturbed; one that is not needs nothing. *)
LEMMA OthersStay ==
  ASSUME LifecycleInv, NEW a \in Agents, Active(a), OnlyMoves(a),
         NEW l \in Launches, a[2] # l
  PROVE  Programs(l)' /\ Alone(l)' /\ Clear(l)'
<1>1. Boot(l) \in Agents \ {a} /\ Sess(l) \in Agents \ {a}
  BY AgentFacts
<1>2. /\ pc'[Boot(l)] = pc[Boot(l)] /\ sub'[Boot(l)] = sub[Boot(l)]
      /\ pc'[Sess(l)] = pc[Sess(l)]
      /\ Sess(l) \in device' => Sess(l) \in device
      /\ mishap \subseteq mishap' /\ disturbed' = disturbed
  BY <1>1 DEF OnlyMoves
<1>3. l \in disturbed \/ (~Active(Boot(l)) /\ ~Active(Sess(l)))
  BY DEF LifecycleInv, Alone, Beside
<1>4. Programs(l)'
  BY <1>2 DEF LifecycleInv, Programs
<1>5. Alone(l)'
  BY <1>2, <1>3 DEF Alone, Active
<1>6. Clear(l)'
  BY <1>2, <1>3 DEF LifecycleInv, Clear, Found, Active, Resting
<1> QED BY <1>4, <1>5, <1>6

(* What a step of an agent has to show of its own launch.                  *)
LEMMA AgentStep ==
  ASSUME LifecycleInv, NEW l \in Launches, NEW a \in {Boot(l), Sess(l)},
         Active(a), OnlyMoves(a),
         LifecycleTypeOK', Kept', Steps(a)', Programs(l)', Clear(l)'
  PROVE  LifecycleInv'
<1>1. a \in Agents /\ a[2] = l
  BY AgentFacts
<1>2. \A c \in Agents : Steps(c)'
  BY DEF LifecycleInv, OnlyMoves, Steps
<1>3. Alone(l)'
  <2>1. l \notin disturbed => Beside(l) = {}
    BY DEF LifecycleInv, Alone
  <2>2. \A c \in Agents : c[2] # l => pc'[c] = pc[c]
    BY <1>1 DEF OnlyMoves
  <2>3. disturbed' = disturbed
    BY DEF OnlyMoves
  <2> QED BY <2>1, <2>2, <2>3 DEF Alone, Beside, Active
<1>4. \A m \in Launches : Programs(m)' /\ Alone(m)' /\ Clear(m)'
  BY <1>1, <1>3, OthersStay
<1> QED BY <1>2, <1>4 DEF LifecycleInv

(* A session's steps: its Bootstrapper is past the start of the driver.    *)
LEMMA SessionOwn ==
  ASSUME LifecycleInv, NEW l \in Launches, OnlyMoves(Sess(l)), Active(Sess(l)),
         pc'[Sess(l)] \in SessPlaces \ {"off"},
         pc'[Sess(l)] \in {"init", "work"} => pc[Sess(l)] \in {"init", "work"} /\ driver' = driver,
         Sess(l) \in device' => pc'[Sess(l)] \in {"init", "work", "unit"}
  PROVE  Programs(l)' /\ Clear(l)'
<1>1. /\ pc'[Boot(l)] = pc[Boot(l)] /\ mishap \subseteq mishap' /\ disturbed' = disturbed
  BY AgentFacts DEF OnlyMoves
<1>2. /\ pc[Boot(l)] \in BootPlaces
      /\ pc[Boot(l)] \notin {"off", "clean", "create", "start", "launch"}
  BY DEF LifecycleInv, Programs, Active, Resting
<1>3. Programs(l)'
  BY <1>1, <1>2 DEF Programs
<1>4. Clear(l)'
  BY <1>1, <1>2 DEF LifecycleInv, Clear, Found
<1> QED BY <1>3, <1>4

(* What an undisturbed launch that met no mishap knows in a function of    *)
(* scm: no handle to the entry is open but its own.                        *)
LEMMA Undisturbed ==
  ASSUME LifecycleInv, NEW l \in Launches, l \notin disturbed, Boot(l) \notin mishap,
         pc[Boot(l)] \in Destroys \cup {"create", "start"}
  PROVE  /\ handle \subseteq {Boot(l)}
         /\ pc[Boot(l)] \in {"clean", "create", "start"} /\ pc[Sess(l)] = "off"
         /\ pc[Boot(l)] = "clean" => Clean(Boot(l))
         /\ pc[Boot(l)] = "create" => Creating(Boot(l))
         /\ pc[Boot(l)] = "start" => Starting(Boot(l))
<1>1. pc[Boot(l)] \in {"clean", "create", "start"}
  BY DEF LifecycleInv, Programs, Clear, Found, BootPlaces, Destroys
<1>2. pc[Sess(l)] = "off"
  BY <1>1 DEF LifecycleInv, Programs
<1>3. ASSUME NEW c \in handle PROVE c = Boot(l)
  <2>1. c \in Agents /\ pc[c] \in Destroys \cup {"create", "start"}
    BY DEF LifecycleInv, LifecycleTypeOK, Steps
  <2>2. Active(c) /\ Active(Boot(l))
    BY <1>1, <2>1 DEF Active, Resting, Destroys
  <2>3. c[2] = l
    BY <2>1, <2>2 DEF LifecycleInv, Alone, Beside
  <2>4. c # Sess(l)
    BY <1>2, <2>1 DEF Destroys
  <2> QED BY <2>1, <2>3, <2>4, AgentFacts
<1> QED BY <1>1, <1>2, <1>3 DEF LifecycleInv, Clear, Found

(* A step inside a function of scm, or out of it.                          *)
Subs == {"ready", "stop", "poll", "delete", "close", "closeFailed", "closeOld", "create", "start"}

Scheduled(a) ==
  \/ \E s \in Subs : To(a, s)
  \/ pc[a] \in DOMAIN OnSuccess /\ \E ok \in BOOLEAN : Return(a, ok)

ScmMove(a) ==
  /\ pc[a] \in Destroys \cup {"create", "start"}
  /\ Scheduled(a)
  /\ handle' \in {handle, handle \cup {a}, handle \ {a}}
  /\ Granted \/ Refused(a)
  /\ UNCHANGED <<device, disturbed>>

LEMMA ScmFrame ==
  ASSUME LifecycleInv, NEW a \in Agents, ScmMove(a), Steps(a)',
         entry' \in {"none", "registered", "marked"},
         driver' \in {"stopped", "running", "stopping"}
  PROVE  /\ LifecycleTypeOK' /\ OnlyMoves(a)
         /\ pc'[a] \in {pc[a], OnSuccess[pc[a]], OnFailure[pc[a]]}
<1> USE DEF LifecycleInv
<1>1. /\ pc' \in [Agents -> DOMAIN OnSuccess \cup Resting \cup {"init", "work", "unit"}]
      /\ sub' \in [Agents -> Subs]
      /\ \A c \in Agents \ {a} : pc'[c] = pc[c] /\ sub'[c] = sub[c]
      /\ pc'[a] \in {pc[a], OnSuccess[pc[a]], OnFailure[pc[a]]}
  <2>1. ASSUME NEW s \in Subs, To(a, s) PROVE <1>1!:
    BY <2>1 DEF To, LifecycleTypeOK, Subs
  <2>2. ASSUME NEW ok \in BOOLEAN, pc[a] \in DOMAIN OnSuccess, Return(a, ok) PROVE <1>1!:
    <3>1. {OnSuccess[pc[a]], OnFailure[pc[a]]} \subseteq DOMAIN OnSuccess \cup Resting
      BY <2>2, Outcomes DEF Resting
    <3> QED BY <2>2, <3>1 DEF Return, LifecycleTypeOK, Subs
  <2> QED BY <2>1, <2>2 DEF ScmMove, Scheduled
<1>2. mishap \subseteq mishap' /\ mishap' \subseteq Agents
  BY DEF ScmMove, Granted, Refused, LifecycleTypeOK
<1>3. OnlyMoves(a)
  BY <1>1, <1>2 DEF ScmMove, OnlyMoves
<1>4. handle' \subseteq {c \in Agents : sub'[c] # "ready"}
  BY <1>1 DEF ScmMove, Steps, LifecycleTypeOK
<1>5. LifecycleTypeOK'
  BY <1>1, <1>2, <1>4 DEF ScmMove, LifecycleTypeOK, Subs
<1> QED BY <1>1, <1>3, <1>5

(* What such a step has to show.                                           *)
LEMMA ScmStep ==
  ASSUME LifecycleInv, NEW l \in Launches, NEW a \in {Boot(l), Sess(l)}, ScmMove(a),
         entry' \in {"none", "registered", "marked"},
         driver' \in {"stopped", "running", "stopping"},
         Kept', Steps(a)',
         a = Boot(l) /\ l \notin disturbed /\ a \notin mishap' => Found(a)'
  PROVE  LifecycleInv'
<1>1. /\ a \in Agents /\ Active(a) /\ pc[a] \in Destroys \cup {"create", "start"}
      /\ mishap \subseteq mishap' /\ UNCHANGED <<device, disturbed>>
  BY AgentFacts DEF ScmMove, Granted, Refused, Active, Resting, Destroys
<1>2. /\ LifecycleTypeOK' /\ OnlyMoves(a)
      /\ pc'[a] \in {pc[a], OnSuccess[pc[a]], OnFailure[pc[a]]}
  BY <1>1, ScmFrame
<1>3. CASE a = Boot(l)
  <2>1. pc'[Sess(l)] = pc[Sess(l)] /\ pc[Boot(l)] \in BootPlaces
    BY <1>2, <1>3, AgentFacts DEF OnlyMoves, LifecycleInv, Programs
  <2>2. Programs(l)'
    BY <1>1, <1>2, <1>3, <2>1, Outcomes DEF LifecycleInv, Programs, BootPlaces, Destroys
  <2>3. Clear(l)'
    BY <1>1, <1>3, <2>1, Undisturbed DEF Clear
  <2> QED BY <1>1, <1>2, <1>3, <2>2, <2>3, AgentStep
<1>4. CASE a = Sess(l)
  <2>1. pc[a] = "cleanup" /\ a \notin device
    BY <1>1, <1>4 DEF LifecycleInv, Programs, SessPlaces, Destroys
  <2>2. pc'[a] \in {"cleanup", "gone"}
    BY <1>2, <2>1, Outcomes
  <2>3. Programs(l)' /\ Clear(l)'
    BY <1>1, <1>2, <1>4, <2>1, <2>2, SessionOwn DEF SessPlaces
  <2> QED BY <1>1, <1>2, <1>4, <2>3, AgentStep
<1> QED BY <1>3, <1>4

-----------------------------------------------------------------------------
(* What a move makes of the place and of the step of the agent.            *)
LEMMA ToFacts ==
  ASSUME LifecycleInv, NEW a \in Agents, NEW s \in Subs, To(a, s)
  PROVE  Scheduled(a) /\ pc'[a] = pc[a] /\ sub'[a] = s
BY DEF Scheduled, To, LifecycleInv, LifecycleTypeOK

LEMMA ReturnFacts ==
  ASSUME LifecycleInv, NEW a \in Agents, NEW ok \in BOOLEAN, pc[a] \in DOMAIN OnSuccess,
         Return(a, ok)
  PROVE  /\ Scheduled(a) /\ sub'[a] = "ready"
         /\ pc'[a] = IF ok THEN OnSuccess[pc[a]] ELSE OnFailure[pc[a]]
BY DEF Scheduled, Return, LifecycleInv, LifecycleTypeOK

LEMMA InDestroys ==
  ASSUME NEW p \in Destroys \cup {"create", "start"}
  PROVE  p \in DOMAIN OnSuccess
BY Outcomes DEF Destroys

(* scm::Destroy.                                                           *)
LEMMA OpenToDestroyInv ==
  ASSUME LifecycleInv, NEW l \in Launches, NEW a \in {Boot(l), Sess(l)}, OpenToDestroy(a)
  PROVE  LifecycleInv'
<1> USE DEF LifecycleInv
<1>1. /\ a \in Agents /\ pc[a] \in Destroys /\ sub[a] = "ready" /\ a \notin handle
      /\ UNCHANGED <<entry, driver, device, disturbed>>
      /\ entry \in {"none", "registered", "marked"}
      /\ driver \in {"stopped", "running", "stopping"}
  BY AgentFacts DEF OpenToDestroy, At, Steps, LifecycleTypeOK
<1>2. CASE entry # "none" /\ handle' = handle \cup {a} /\ To(a, "stop") /\ Granted
  <2>1. Scheduled(a) /\ pc'[a] = pc[a] /\ sub'[a] = "stop"
    BY <1>1, <1>2, ToFacts DEF Subs
  <2>2. ScmMove(a) /\ Steps(a)' /\ Kept'
    BY <1>1, <1>2, <2>1 DEF ScmMove, Steps, Kept
  <2>3. a = Boot(l) /\ l \notin disturbed /\ a \notin mishap' => Found(a)'
    BY <1>1, <1>2, <2>1, Undisturbed DEF Granted, Found, Clean, Destroys
  <2> QED BY <1>1, <2>2, <2>3, ScmStep
<1>3. CASE /\ Return(a, FALSE) /\ UNCHANGED handle
           /\ IF entry = "none" THEN Granted ELSE Refused(a)
  <2>1. Scheduled(a) /\ pc'[a] = OnFailure[pc[a]] /\ sub'[a] = "ready"
    BY <1>1, <1>3, ReturnFacts, InDestroys
  <2>2. ScmMove(a) /\ Steps(a)' /\ Kept'
    BY <1>1, <1>3, <2>1 DEF ScmMove, Steps, Kept
  <2>3. a = Boot(l) /\ l \notin disturbed /\ a \notin mishap' => Found(a)'
    <3> SUFFICES ASSUME a = Boot(l), l \notin disturbed, a \notin mishap' PROVE Found(a)'
      OBVIOUS
    <3>1. entry = "none" /\ driver = "stopped" /\ a \notin mishap
      BY <1>1, <1>3 DEF Granted, Refused, Kept
    <3>2. pc[a] = "clean"
      BY <1>1, <3>1, Undisturbed DEF Destroys
    <3> QED BY <1>1, <2>1, <3>1, <3>2, Outcomes DEF Found, Creating
  <2> QED BY <1>1, <2>2, <2>3, ScmStep
<1> QED BY <1>2, <1>3 DEF OpenToDestroy

LEMMA StopInv ==
  ASSUME LifecycleInv, NEW l \in Launches, NEW a \in {Boot(l), Sess(l)}, Stop(a)
  PROVE  LifecycleInv'
<1> USE DEF LifecycleInv
<1>1. /\ a \in Agents /\ pc[a] \in Destroys /\ sub[a] = "stop" /\ a \in handle
      /\ UNCHANGED <<entry, handle, device, disturbed>>
      /\ entry \in {"none", "registered", "marked"}
      /\ driver \in {"stopped", "running", "stopping"}
  BY AgentFacts DEF Stop, At, Steps, LifecycleTypeOK
<1>2. \/ driver = "running" /\ driver' = "stopping" /\ To(a, "poll") /\ Granted
      \/ driver = "stopped" /\ To(a, "delete") /\ Granted /\ driver' = driver
      \/ /\ To(a, "closeFailed") /\ driver' = driver
         /\ IF driver = "stopping" THEN Granted ELSE Refused(a)
  BY DEF Stop
<1>3. /\ Scheduled(a) /\ pc'[a] = pc[a]
      /\ \/ sub'[a] = "poll" /\ driver' = "stopping" /\ Granted
         \/ sub'[a] = "delete" /\ driver = "stopped" /\ driver' = driver /\ Granted
         \/ /\ sub'[a] = "closeFailed" /\ driver' = driver
            /\ IF driver = "stopping" THEN Granted ELSE Refused(a)
  BY <1>1, <1>2, ToFacts DEF Subs
<1>4. ScmMove(a) /\ Steps(a)' /\ Kept' /\ driver' \in {"stopped", "running", "stopping"}
  BY <1>1, <1>3 DEF ScmMove, Steps, Kept
<1>5. a = Boot(l) /\ l \notin disturbed /\ a \notin mishap' => Found(a)'
  <2> SUFFICES ASSUME a = Boot(l), l \notin disturbed, a \notin mishap' PROVE Found(a)'
    OBVIOUS
  <2>1. a \notin mishap
    BY <1>3 DEF Granted, Refused
  <2>2. pc[a] = "clean" /\ driver # "stopping"
    BY <1>1, <2>1, Undisturbed DEF Clean, Destroys
  <2> QED BY <1>3, <2>2 DEF Refused, Found, Clean
<1> QED BY <1>1, <1>4, <1>5, ScmStep

LEMMA PollInv ==
  ASSUME LifecycleInv, NEW l \in Launches, NEW a \in {Boot(l), Sess(l)}, Poll(a)
  PROVE  LifecycleInv'
<1> USE DEF LifecycleInv
<1>1. /\ a \in Agents /\ pc[a] \in Destroys /\ sub[a] = "poll" /\ a \in handle
      /\ driver # "stopping"
      /\ UNCHANGED <<entry, driver, handle, device, mishap, disturbed>>
      /\ entry \in {"none", "registered", "marked"}
      /\ driver \in {"stopped", "running", "stopping"}
  BY AgentFacts DEF Poll, At, Steps, LifecycleTypeOK
<1>2. /\ Scheduled(a) /\ pc'[a] = pc[a]
      /\ sub'[a] = IF driver = "stopped" THEN "delete" ELSE "closeFailed"
  BY <1>1, ToFacts DEF Poll, Subs
<1>3. ScmMove(a) /\ Steps(a)' /\ Kept'
  BY <1>1, <1>2 DEF ScmMove, Steps, Kept, Granted
<1>4. a = Boot(l) /\ l \notin disturbed /\ a \notin mishap' => Found(a)'
  BY <1>1, <1>2, Undisturbed DEF Found, Clean, Destroys
<1> QED BY <1>1, <1>3, <1>4, ScmStep

LEMMA PollFailsInv ==
  ASSUME LifecycleInv, NEW l \in Launches, NEW a \in {Boot(l), Sess(l)}, PollFails(a)
  PROVE  LifecycleInv'
<1> USE DEF LifecycleInv
<1>1. /\ a \in Agents /\ pc[a] \in Destroys /\ sub[a] = "poll" /\ a \in handle
      /\ Refused(a) /\ To(a, "closeFailed")
      /\ UNCHANGED <<entry, driver, handle, device, disturbed>>
      /\ entry \in {"none", "registered", "marked"}
      /\ driver \in {"stopped", "running", "stopping"}
  BY AgentFacts DEF PollFails, At, Steps, LifecycleTypeOK
<1>2. Scheduled(a) /\ pc'[a] = pc[a] /\ sub'[a] = "closeFailed"
  BY <1>1, ToFacts DEF Subs
<1>3. ScmMove(a) /\ Steps(a)' /\ Kept'
  BY <1>1, <1>2 DEF ScmMove, Steps, Kept
<1>4. a \in mishap'
  BY <1>1 DEF Refused
<1> QED BY <1>1, <1>3, <1>4, ScmStep

LEMMA DeleteInv ==
  ASSUME LifecycleInv, NEW l \in Launches, NEW a \in {Boot(l), Sess(l)}, Delete(a)
  PROVE  LifecycleInv'
<1> USE DEF LifecycleInv
<1>1. /\ a \in Agents /\ pc[a] \in Destroys /\ sub[a] = "delete" /\ a \in handle
      /\ UNCHANGED <<driver, handle, device, disturbed>>
      /\ entry \in {"none", "registered", "marked"}
      /\ driver \in {"stopped", "running", "stopping"}
  BY AgentFacts DEF Delete, At, Steps, LifecycleTypeOK
<1>2. /\ Scheduled(a) /\ pc'[a] = pc[a]
      /\ \/ sub'[a] = "close" /\ entry' = "marked" /\ Granted
         \/ /\ sub'[a] = "closeFailed" /\ entry' = entry
            /\ IF entry = "marked" THEN Granted ELSE Refused(a)
  BY <1>1, ToFacts DEF Delete, Subs
<1>3. ScmMove(a) /\ Steps(a)' /\ Kept' /\ entry' \in {"none", "registered", "marked"}
  BY <1>1, <1>2 DEF ScmMove, Steps, Kept
<1>4. a = Boot(l) /\ l \notin disturbed /\ a \notin mishap' => Found(a)'
  <2> SUFFICES ASSUME a = Boot(l), l \notin disturbed, a \notin mishap' PROVE Found(a)'
    OBVIOUS
  <2>1. a \notin mishap
    BY <1>2 DEF Granted, Refused
  <2>2. pc[a] = "clean" /\ driver = "stopped"
    BY <1>1, <2>1, Undisturbed DEF Clean, Destroys
  <2> QED BY <1>1, <1>2, <2>2 DEF Refused, Found, Clean
<1> QED BY <1>1, <1>3, <1>4, ScmStep

(* The entry when a handle to it is closed.                                *)
LEMMA CloseFacts ==
  ASSUME LifecycleInv, NEW a \in Agents, Close(a), driver' = driver
  PROVE  /\ handle' = handle \ {a} /\ Kept'
         /\ entry' \in {"none", "registered", "marked"}
         /\ entry' \in {entry, "none"}
         /\ entry # "marked" \/ driver # "stopped" => entry' = entry
         /\ entry = "marked" /\ driver = "stopped" /\ handle \subseteq {a} => entry' = "none"
BY DEF LifecycleInv, LifecycleTypeOK, Kept, Close, Reap

LEMMA CloseReturnInv ==
  ASSUME LifecycleInv, NEW l \in Launches, NEW a \in {Boot(l), Sess(l)},
         CloseFailed(a) \/ CloseDone(a)
  PROVE  LifecycleInv'
<1> USE DEF LifecycleInv
<1>1. /\ a \in Agents /\ Close(a) /\ a \in handle
      /\ UNCHANGED <<driver, device, mishap, disturbed>>
      /\ driver \in {"stopped", "running", "stopping"}
  BY AgentFacts DEF CloseFailed, CloseDone, Steps, LifecycleTypeOK
<1>2. /\ pc[a] \in Destroys \cup {"create", "start"}
      /\ Scheduled(a) /\ sub'[a] = "ready"
      /\ \/ sub[a] = "closeFailed" /\ pc'[a] = OnFailure[pc[a]] /\ pc[a] # "create"
         \/ sub[a] = "close" /\ pc'[a] = OnSuccess[pc[a]]
  <2>1. CASE CloseFailed(a)
    <3>1. sub[a] = "closeFailed" /\ Return(a, FALSE) /\ pc[a] \in Destroys \cup {"start"}
      BY <1>1, <2>1 DEF CloseFailed, Steps
    <3> QED BY <1>1, <3>1, ReturnFacts, InDestroys DEF Destroys
  <2>2. CASE CloseDone(a)
    <3>1. sub[a] = "close" /\ Return(a, TRUE) /\ pc[a] \in Destroys \cup {"create", "start"}
      BY <1>1, <2>2 DEF CloseDone, Steps
    <3> QED BY <1>1, <3>1, ReturnFacts, InDestroys
  <2> QED BY <2>1, <2>2
<1>3. /\ ScmMove(a) /\ Steps(a)' /\ Kept' /\ entry' \in {"none", "registered", "marked"}
  BY <1>1, <1>2, CloseFacts DEF ScmMove, Steps, Granted
<1>4. a = Boot(l) /\ l \notin disturbed /\ a \notin mishap' => Found(a)'
  <2> SUFFICES ASSUME a = Boot(l), l \notin disturbed, a \notin mishap' PROVE Found(a)'
    OBVIOUS
  <2>1. /\ handle \subseteq {a} /\ pc[a] \in {"clean", "create", "start"}
        /\ pc[a] = "clean" => Clean(a)
        /\ pc[a] = "create" => Creating(a)
        /\ pc[a] = "start" => Starting(a)
    BY <1>1, <1>2, Undisturbed
  <2>2. CASE pc[a] = "clean"
    <3>1. pc'[a] = "create" /\ driver = "stopped" /\ entry = "marked"
      BY <1>2, <2>1, <2>2, Outcomes DEF Clean
    <3>2. entry' = "none"
      BY <1>1, <2>1, <3>1, CloseFacts
    <3> QED BY <1>1, <1>2, <3>1, <3>2 DEF Found, Creating
  <2>3. CASE pc[a] = "create"
    <3>1. pc'[a] = "start" /\ driver = "stopped" /\ entry = "registered"
      BY <1>2, <2>1, <2>3, Outcomes DEF Creating
    <3>2. entry' = "registered"
      BY <1>1, <3>1, CloseFacts
    <3> QED BY <1>1, <1>2, <3>1, <3>2 DEF Found, Starting
  <2>4. CASE pc[a] = "start"
    <3>1. pc'[a] = "launch" /\ driver = "running"
      BY <1>2, <2>1, <2>4, Outcomes DEF Starting
    <3> QED BY <1>1, <3>1 DEF Found
  <2> QED BY <2>1, <2>2, <2>3, <2>4
<1> QED BY <1>1, <1>3, <1>4, ScmStep

-----------------------------------------------------------------------------
(* scm::Create.                                                            *)
LEMMA OpenToReplaceInv ==
  ASSUME LifecycleInv, NEW l \in Launches, NEW a \in {Boot(l), Sess(l)}, OpenToReplace(a)
  PROVE  LifecycleInv'
<1> USE DEF LifecycleInv
<1>1. /\ a \in Agents /\ pc[a] = "create" /\ sub[a] = "ready" /\ a \notin handle
      /\ UNCHANGED <<driver, device, disturbed>>
      /\ entry \in {"none", "registered", "marked"}
      /\ driver \in {"stopped", "running", "stopping"}
  BY AgentFacts DEF OpenToReplace, At, Steps, LifecycleTypeOK
<1>2. /\ Scheduled(a) /\ pc'[a] = pc[a]
      /\ \/ /\ sub'[a] = "closeOld" /\ entry # "none" /\ handle' = handle \cup {a}
            /\ (entry' = "marked" /\ Granted) \/ (entry' = entry /\ Refused(a))
         \/ /\ sub'[a] = "create" /\ entry' = entry /\ handle' = handle
            /\ IF entry = "none" THEN Granted ELSE Refused(a)
  BY <1>1, ToFacts DEF OpenToReplace, Subs
<1>3. ScmMove(a) /\ Steps(a)' /\ Kept' /\ entry' \in {"none", "registered", "marked"}
  BY <1>1, <1>2 DEF ScmMove, Steps, Kept
<1>4. a = Boot(l) /\ l \notin disturbed /\ a \notin mishap' => Found(a)'
  <2> SUFFICES ASSUME a = Boot(l), l \notin disturbed, a \notin mishap' PROVE Found(a)'
    OBVIOUS
  <2>1. a \notin mishap
    BY <1>2 DEF Granted, Refused
  <2>2. driver = "stopped" /\ entry = "none"
    BY <1>1, <2>1, Undisturbed DEF Creating
  <2> QED BY <1>1, <1>2, <2>2 DEF Found, Creating
<1> QED BY <1>1, <1>3, <1>4, ScmStep

LEMMA CloseOldInv ==
  ASSUME LifecycleInv, NEW l \in Launches, NEW a \in {Boot(l), Sess(l)}, CloseOld(a)
  PROVE  LifecycleInv'
<1> USE DEF LifecycleInv
<1>1. /\ a \in Agents /\ pc[a] = "create" /\ sub[a] = "closeOld" /\ Close(a)
      /\ UNCHANGED <<driver, device, mishap, disturbed>>
      /\ driver \in {"stopped", "running", "stopping"}
  BY AgentFacts DEF CloseOld, Steps, LifecycleTypeOK
<1>2. Scheduled(a) /\ pc'[a] = pc[a] /\ sub'[a] = "create"
  BY <1>1, ToFacts DEF CloseOld, Subs
<1>3. /\ ScmMove(a) /\ Steps(a)' /\ Kept' /\ entry' \in {"none", "registered", "marked"}
  BY <1>1, <1>2, CloseFacts DEF ScmMove, Steps, Granted
<1>4. a = Boot(l) /\ l \notin disturbed /\ a \notin mishap' => Found(a)'
  BY <1>1, Undisturbed DEF Creating
<1> QED BY <1>1, <1>3, <1>4, ScmStep

LEMMA CreateInv ==
  ASSUME LifecycleInv, NEW l \in Launches, NEW a \in {Boot(l), Sess(l)}, Create(a)
  PROVE  LifecycleInv'
<1> USE DEF LifecycleInv
<1>1. /\ a \in Agents /\ pc[a] = "create" /\ sub[a] = "create" /\ a \notin handle
      /\ UNCHANGED <<driver, device, disturbed>>
      /\ entry \in {"none", "registered", "marked"}
      /\ driver \in {"stopped", "running", "stopping"}
  BY AgentFacts DEF Create, At, Steps, LifecycleTypeOK
<1>2. CASE /\ entry = "none" /\ entry' = "registered" /\ handle' = handle \cup {a}
           /\ To(a, "close") /\ Granted
  <2>1. Scheduled(a) /\ pc'[a] = pc[a] /\ sub'[a] = "close"
    BY <1>1, <1>2, ToFacts DEF Subs
  <2>2. ScmMove(a) /\ Steps(a)' /\ Kept' /\ entry' \in {"none", "registered", "marked"}
    BY <1>1, <1>2, <2>1 DEF ScmMove, Steps, Kept
  <2>3. a = Boot(l) /\ l \notin disturbed /\ a \notin mishap' => Found(a)'
    BY <1>1, <1>2, <2>1, Undisturbed DEF Granted, Found, Creating
  <2> QED BY <1>1, <2>2, <2>3, ScmStep
<1>3. CASE /\ Return(a, FALSE) /\ UNCHANGED <<entry, handle>>
           /\ IF entry # "none" THEN Granted ELSE Refused(a)
  <2>1. Scheduled(a) /\ pc'[a] = OnFailure[pc[a]] /\ sub'[a] = "ready"
    BY <1>1, <1>3, ReturnFacts, InDestroys
  <2>2. ScmMove(a) /\ Steps(a)' /\ Kept' /\ entry' \in {"none", "registered", "marked"}
    BY <1>1, <1>3, <2>1 DEF ScmMove, Steps, Kept
  <2>3. a = Boot(l) /\ l \notin disturbed /\ a \notin mishap' => Found(a)'
    <3> SUFFICES ASSUME a = Boot(l), l \notin disturbed, a \notin mishap' PROVE FALSE
      OBVIOUS
    <3>1. entry # "none" /\ a \notin mishap
      BY <1>3 DEF Granted, Refused
    <3> QED BY <1>1, <3>1, Undisturbed DEF Creating
  <2> QED BY <1>1, <2>2, <2>3, ScmStep
<1> QED BY <1>2, <1>3 DEF Create

(* scm::Start.                                                             *)
LEMMA OpenToStartInv ==
  ASSUME LifecycleInv, NEW l \in Launches, NEW a \in {Boot(l), Sess(l)}, OpenToStart(a)
  PROVE  LifecycleInv'
<1> USE DEF LifecycleInv
<1>1. /\ a \in Agents /\ pc[a] = "start" /\ sub[a] = "ready" /\ a \notin handle
      /\ UNCHANGED <<entry, driver, device, disturbed>>
      /\ entry \in {"none", "registered", "marked"}
      /\ driver \in {"stopped", "running", "stopping"}
  BY AgentFacts DEF OpenToStart, At, Steps, LifecycleTypeOK
<1>2. CASE entry # "none" /\ handle' = handle \cup {a} /\ To(a, "start") /\ Granted
  <2>1. Scheduled(a) /\ pc'[a] = pc[a] /\ sub'[a] = "start"
    BY <1>1, <1>2, ToFacts DEF Subs
  <2>2. ScmMove(a) /\ Steps(a)' /\ Kept'
    BY <1>1, <1>2, <2>1 DEF ScmMove, Steps, Kept
  <2>3. a = Boot(l) /\ l \notin disturbed /\ a \notin mishap' => Found(a)'
    BY <1>1, <1>2, <2>1, Undisturbed DEF Granted, Found, Starting
  <2> QED BY <1>1, <2>2, <2>3, ScmStep
<1>3. CASE /\ Return(a, FALSE) /\ UNCHANGED handle
           /\ IF entry = "none" THEN Granted ELSE Refused(a)
  <2>1. Scheduled(a) /\ pc'[a] = OnFailure[pc[a]] /\ sub'[a] = "ready"
    BY <1>1, <1>3, ReturnFacts, InDestroys
  <2>2. ScmMove(a) /\ Steps(a)' /\ Kept'
    BY <1>1, <1>3, <2>1 DEF ScmMove, Steps, Kept
  <2>3. a = Boot(l) /\ l \notin disturbed /\ a \notin mishap' => Found(a)'
    <3> SUFFICES ASSUME a = Boot(l), l \notin disturbed, a \notin mishap' PROVE FALSE
      OBVIOUS
    <3>1. entry = "none" /\ a \notin mishap
      BY <1>3 DEF Granted, Refused
    <3> QED BY <1>1, <3>1, Undisturbed DEF Starting
  <2> QED BY <1>1, <2>2, <2>3, ScmStep
<1> QED BY <1>2, <1>3 DEF OpenToStart

LEMMA StartInv ==
  ASSUME LifecycleInv, NEW l \in Launches, NEW a \in {Boot(l), Sess(l)}, Start(a)
  PROVE  LifecycleInv'
<1> USE DEF LifecycleInv
<1>1. /\ a \in Agents /\ pc[a] = "start" /\ sub[a] = "start" /\ a \in handle
      /\ UNCHANGED <<entry, handle, device, disturbed>>
      /\ entry \in {"none", "registered", "marked"}
      /\ driver \in {"stopped", "running", "stopping"}
  BY AgentFacts DEF Start, At, Steps, LifecycleTypeOK
<1>2. /\ Scheduled(a) /\ pc'[a] = pc[a]
      /\ \/ /\ sub'[a] = "close" /\ entry = "registered" /\ driver' = "running" /\ Granted
         \/ /\ sub'[a] = "closeFailed" /\ driver' = driver
            /\ IF entry = "registered" /\ driver = "stopped" THEN Refused(a) ELSE Granted
  BY <1>1, ToFacts DEF Start, Subs
<1>3. ScmMove(a) /\ Steps(a)' /\ Kept' /\ driver' \in {"stopped", "running", "stopping"}
  BY <1>1, <1>2 DEF ScmMove, Steps, Kept
<1>4. a = Boot(l) /\ l \notin disturbed /\ a \notin mishap' => Found(a)'
  <2> SUFFICES ASSUME a = Boot(l), l \notin disturbed, a \notin mishap' PROVE Found(a)'
    OBVIOUS
  <2>1. a \notin mishap
    BY <1>2 DEF Granted, Refused
  <2>2. entry = "registered" /\ driver = "stopped"
    BY <1>1, <2>1, Undisturbed DEF Starting
  <2> QED BY <1>1, <1>2, <2>2 DEF Refused, Found, Starting
<1> QED BY <1>1, <1>3, <1>4, ScmStep

-----------------------------------------------------------------------------
(* The steps of the programs outside scm.  A launch that begins undisturbed *)
(* finds a driver that is not stopping and nobody active.                   *)
LEMMA BeginInv ==
  ASSUME LifecycleInv, NEW l \in Launches, Begin(l)
  PROVE  LifecycleInv'
<1> USE DEF LifecycleInv
<1>1. /\ pc[Boot(l)] = "off" /\ pc' = [pc EXCEPT ![Boot(l)] = "clean"]
      /\ disturbed' = disturbed \cup {a[2] : a \in Beside(l)}
                               \cup {m \in {l} : Beside(l) # {} \/ driver = "stopping"}
      /\ UNCHANGED <<entry, driver, sub, handle, device, mishap>>
  BY DEF Begin, Boot
<1>2. /\ Boot(l) \in Agents /\ Boot(l) # Sess(l) /\ sub[Boot(l)] = "ready"
      /\ pc[Sess(l)] = "off"
  <2>1. Boot(l) \in Agents /\ Boot(l) # Sess(l)
    BY AgentFacts
  <2>2. sub[Boot(l)] = "ready"
    BY <1>1, <2>1 DEF LifecycleTypeOK, Steps, Destroys
  <2>3. pc[Sess(l)] = "off"
    BY <1>1 DEF Programs
  <2> QED BY <2>1, <2>2, <2>3
<1>3. /\ pc' \in [Agents -> DOMAIN OnSuccess \cup Resting \cup {"init", "work", "unit"}]
      /\ pc'[Boot(l)] = "clean" /\ \A c \in Agents \ {Boot(l)} : pc'[c] = pc[c]
  BY <1>1, <1>2, Outcomes DEF LifecycleTypeOK
<1>4. \A c \in Beside(l) : c[2] \in Launches
  BY AgentFacts DEF Beside
<1>5. LifecycleTypeOK' /\ Kept'
  BY <1>1, <1>3, <1>4 DEF LifecycleTypeOK, Kept
<1>6. \A c \in Agents : Steps(c)'
  BY <1>1, <1>2, <1>3 DEF Steps
<1>7. Programs(l)' /\ Alone(l)' /\ Clear(l)'
  <2>1. pc'[Sess(l)] = "off"
    BY <1>2, <1>3, AgentFacts
  <2>2. Programs(l)'
    BY <1>1, <1>3, <2>1 DEF Programs, BootPlaces, SessPlaces
  <2>3. l \notin disturbed' => Beside(l) = {} /\ driver # "stopping"
    BY <1>1
  <2>4. Beside(l)' = Beside(l)
    BY <1>2, <1>3, AgentFacts DEF Beside, Active
  <2> QED BY <1>1, <1>2, <1>3, <2>1, <2>2, <2>3, <2>4 DEF Alone, Clear, Found, Clean
<1>8. ASSUME NEW m \in Launches \ {l} PROVE Programs(m)' /\ Alone(m)' /\ Clear(m)'
  <2>1. /\ Boot(m) \in Agents \ {Boot(l)} /\ Sess(m) \in Agents \ {Boot(l)}
        /\ Boot(m)[2] = m /\ Sess(m)[2] = m
    BY AgentFacts
  <2>2. pc'[Boot(m)] = pc[Boot(m)] /\ pc'[Sess(m)] = pc[Sess(m)]
    BY <1>3, <2>1
  <2>3. Programs(m)'
    BY <1>1, <2>2 DEF Programs
  <2>4. m \in disturbed' \/ (~Active(Boot(m)) /\ ~Active(Sess(m)))
    BY <1>1, <2>1 DEF Beside
  <2>5. Alone(m)'
    BY <2>2, <2>4 DEF Alone, Active
  <2>6. m \notin disturbed' => m \notin disturbed
    BY <1>1
  <2>7. Clear(m)'
    BY <1>1, <2>2, <2>4, <2>6 DEF Clear, Found, Active, Resting
  <2> QED BY <2>3, <2>5, <2>7
<1> QED BY <1>5, <1>6, <1>7, <1>8

LEMMA LaunchServiceInv ==
  ASSUME LifecycleInv, NEW l \in Launches, LaunchService(l)
  PROVE  LifecycleInv'
<1> USE DEF LifecycleInv
<1>1. /\ pc[Boot(l)] = "launch" /\ pc[Sess(l)] = "off"
      /\ UNCHANGED <<entry, driver, sub, handle, device, disturbed>>
      /\ \/ pc' = [pc EXCEPT ![Boot(l)] = "game", ![Sess(l)] = "init"] /\ Granted
         \/ pc' = [pc EXCEPT ![Boot(l)] = "undo"] /\ Refused(Boot(l))
  BY DEF LaunchService, Boot, Sess, Programs
<1>2. Boot(l) \in Agents /\ Sess(l) \in Agents /\ Boot(l) # Sess(l) /\ Boot(l)[2] = l /\ Sess(l)[2] = l
  BY AgentFacts
<1>3. sub[Boot(l)] = "ready" /\ sub[Sess(l)] = "ready" /\ Active(Boot(l))
  BY <1>1, <1>2 DEF LifecycleTypeOK, Steps, Destroys, Active, Resting
<1>4. CASE pc' = [pc EXCEPT ![Boot(l)] = "game", ![Sess(l)] = "init"] /\ Granted
  <2>1. /\ pc' \in [Agents -> DOMAIN OnSuccess \cup Resting \cup {"init", "work", "unit"}]
        /\ pc'[Boot(l)] = "game" /\ pc'[Sess(l)] = "init"
        /\ \A c \in Agents \ {Boot(l), Sess(l)} : pc'[c] = pc[c]
    BY <1>2, <1>4, Outcomes DEF LifecycleTypeOK
  <2>2. LifecycleTypeOK' /\ Kept'
    BY <1>1, <1>4, <2>1 DEF LifecycleTypeOK, Kept, Granted
  <2>3. \A c \in Agents : Steps(c)'
    BY <1>1, <1>3, <2>1 DEF Steps
  <2>4. Programs(l)'
    BY <2>1 DEF Programs, BootPlaces, SessPlaces
  <2>5. Alone(l)'
    <3>1. l \notin disturbed => Beside(l) = {}
      BY <1>3 DEF Alone
    <3> QED BY <1>1, <1>2, <2>1, <3>1 DEF Alone, Beside, Active
  <2>6. Clear(l)'
    BY <1>1, <1>4, <2>1 DEF Clear, Found, Granted
  <2>7. ASSUME NEW m \in Launches \ {l} PROVE Programs(m)' /\ Alone(m)' /\ Clear(m)'
    <3>1. pc'[Boot(m)] = pc[Boot(m)] /\ pc'[Sess(m)] = pc[Sess(m)]
      BY <2>1, AgentFacts
    <3>2. m \in disturbed \/ (~Active(Boot(m)) /\ ~Active(Sess(m)))
      BY <1>2, <1>3 DEF Alone, Beside
    <3>3. Programs(m)'
      BY <1>1, <3>1 DEF Programs
    <3>4. Alone(m)'
      BY <1>1, <3>1, <3>2 DEF Alone, Active
    <3>5. Clear(m)'
      BY <1>1, <1>4, <3>1 DEF Clear, Found, Clean, Creating, Starting, Granted
    <3> QED BY <3>3, <3>4, <3>5
  <2> QED BY <2>2, <2>3, <2>4, <2>5, <2>6, <2>7
<1>5. CASE pc' = [pc EXCEPT ![Boot(l)] = "undo"] /\ Refused(Boot(l))
  <2>1. /\ pc' \in [Agents -> DOMAIN OnSuccess \cup Resting \cup {"init", "work", "unit"}]
        /\ pc'[Boot(l)] = "undo" /\ \A c \in Agents \ {Boot(l)} : pc'[c] = pc[c]
        /\ mishap' = mishap \cup {Boot(l)}
    BY <1>2, <1>5, Outcomes DEF LifecycleTypeOK, Refused
  <2>2. LifecycleTypeOK' /\ Kept'
    BY <1>1, <1>2, <2>1 DEF LifecycleTypeOK, Kept
  <2>3. Steps(Boot(l))'
    BY <1>1, <1>2, <1>3, <2>1 DEF Steps
  <2>4. OnlyMoves(Boot(l))
    BY <1>1, <2>1 DEF OnlyMoves
  <2>5. Programs(l)'
    BY <1>1, <1>2, <2>1 DEF Programs, BootPlaces, SessPlaces
  <2>6. Clear(l)'
    BY <2>1 DEF Clear
  <2> QED BY <1>3, <2>2, <2>3, <2>4, <2>5, <2>6, AgentStep
<1> QED BY <1>1, <1>4, <1>5

LEMMA LaunchGameInv ==
  ASSUME LifecycleInv, NEW l \in Launches, LaunchGame(l)
  PROVE  LifecycleInv'
<1> USE DEF LifecycleInv
<1>1. /\ pc[Boot(l)] = "game"
      /\ UNCHANGED <<entry, driver, handle, device, disturbed>>
      /\ \/ Return(Boot(l), TRUE) /\ Granted
         \/ Return(Boot(l), FALSE) /\ Refused(Boot(l))
  BY DEF LaunchGame, Boot
<1>2. Boot(l) \in Agents /\ Boot(l) # Sess(l) /\ Sess(l) \in Agents
  BY AgentFacts
<1>3. sub[Boot(l)] = "ready" /\ Active(Boot(l))
  BY <1>1, <1>2 DEF LifecycleTypeOK, Steps, Destroys, Active, Resting
<1>4. /\ pc' \in [Agents -> DOMAIN OnSuccess \cup Resting \cup {"init", "work", "unit"}]
      /\ sub' \in [Agents -> Subs] /\ sub'[Boot(l)] = "ready"
      /\ \A c \in Agents \ {Boot(l)} : pc'[c] = pc[c] /\ sub'[c] = sub[c]
      /\ \/ pc'[Boot(l)] = "done" /\ mishap' = mishap
         \/ pc'[Boot(l)] = "undo" /\ mishap' = mishap \cup {Boot(l)}
  <2>1. CASE Return(Boot(l), TRUE) /\ Granted
    BY <1>1, <1>2, <2>1, Outcomes DEF Return, Granted, LifecycleTypeOK, Subs, Resting
  <2>2. CASE Return(Boot(l), FALSE) /\ Refused(Boot(l))
    BY <1>1, <1>2, <2>2, Outcomes DEF Return, Refused, LifecycleTypeOK, Subs
  <2> QED BY <1>1, <2>1, <2>2
<1>5. handle' \subseteq {c \in Agents : sub'[c] # "ready"}
  BY <1>1, <1>3, <1>4 DEF LifecycleTypeOK
<1>6. LifecycleTypeOK' /\ Kept'
  BY <1>1, <1>2, <1>4, <1>5 DEF LifecycleTypeOK, Kept, Subs
<1>7. Steps(Boot(l))'
  BY <1>1, <1>2, <1>3, <1>4 DEF Steps
<1>8. OnlyMoves(Boot(l))
  BY <1>1, <1>4 DEF OnlyMoves
<1>9. Programs(l)'
  BY <1>1, <1>2, <1>4 DEF Programs, BootPlaces
<1>10. Clear(l)'
  BY <1>1, <1>2, <1>4 DEF Clear, Found
<1> QED BY <1>3, <1>6, <1>7, <1>8, <1>9, <1>10, AgentStep

(* A session's use of the device, and its end.                             *)
LEMMA DeviceInv ==
  ASSUME LifecycleInv, NEW l \in Launches, Device(Sess(l)) \/ Closing(Sess(l))
  PROVE  LifecycleInv'
<1> USE DEF LifecycleInv
<1> DEFINE s == Sess(l)
<1>1. /\ UNCHANGED <<entry, driver, sub, handle, mishap, disturbed>>
      /\ pc[s] \in {"init", "work", "unit"}
      /\ \/ pc' = pc /\ device' = device \cup {s}
         \/ /\ device' = device \ {s}
            /\ pc' = [pc EXCEPT ![s] = IF @ = "init" THEN "work"
                                       ELSE IF @ = "unit" THEN "cleanup" ELSE @]
         \/ device' = device /\ s \notin device /\ pc' = [pc EXCEPT ![s] = "gone"]
         \/ device' = device /\ s \notin device /\ pc' = [pc EXCEPT ![s] = "cleanup"]
         \/ device' = device /\ s \notin device /\ pc' = [pc EXCEPT ![s] = "unit"]
  BY DEF Device, OpenDevice, CloseDevice, NoDevice, Closing, agentVars, Programs
<1>2. s \in Agents /\ s \in Sessions /\ s # Boot(l)
  BY AgentFacts
<1>3. sub[s] = "ready" /\ Active(s)
  BY <1>1, <1>2 DEF LifecycleTypeOK, Steps, Destroys, Active, Resting
<1>4. /\ pc' \in [Agents -> DOMAIN OnSuccess \cup Resting \cup {"init", "work", "unit"}]
      /\ pc'[s] \in {"init", "work", "unit", "cleanup", "gone"}
      /\ pc'[s] \in {"init", "work"} => pc[s] \in {"init", "work"}
      /\ s \in device' => pc'[s] \in {"init", "work", "unit"}
      /\ \A c \in Agents \ {s} : pc'[c] = pc[c] /\ (c \in device' <=> c \in device)
      /\ device' \subseteq Sessions
  BY <1>1, <1>2, Outcomes DEF LifecycleTypeOK, Resting
<1>5. LifecycleTypeOK' /\ Kept'
  BY <1>1, <1>4 DEF LifecycleTypeOK, Kept
<1>6. Steps(s)' /\ OnlyMoves(s)
  BY <1>1, <1>2, <1>3, <1>4 DEF Steps, OnlyMoves
<1>7. Programs(l)' /\ Clear(l)'
  BY <1>1, <1>3, <1>4, <1>6, SessionOwn DEF SessPlaces
<1> QED BY <1>3, <1>5, <1>6, <1>7, AgentStep

LEMMA UnitFailsInv ==
  ASSUME LifecycleInv, NEW l \in Launches, UnitFails(Sess(l))
  PROVE  LifecycleInv'
<1> USE DEF LifecycleInv
<1> DEFINE s == Sess(l)
<1>1. /\ pc[s] = "unit" /\ s \notin device /\ mishap' = mishap \cup {s}
      /\ pc' = [pc EXCEPT ![s] = "cleanup"]
      /\ UNCHANGED <<entry, driver, sub, handle, device, disturbed>>
  BY DEF UnitFails, Refused
<1>2. s \in Agents /\ s \in Sessions
  BY AgentFacts
<1>3. sub[s] = "ready" /\ Active(s)
  BY <1>1, <1>2 DEF LifecycleTypeOK, Steps, Destroys, Active, Resting
<1>4. /\ pc' \in [Agents -> DOMAIN OnSuccess \cup Resting \cup {"init", "work", "unit"}]
      /\ pc'[s] = "cleanup" /\ \A c \in Agents \ {s} : pc'[c] = pc[c]
  BY <1>1, <1>2, Outcomes DEF LifecycleTypeOK
<1>5. LifecycleTypeOK' /\ Kept'
  BY <1>1, <1>2, <1>4 DEF LifecycleTypeOK, Kept
<1>6. Steps(s)' /\ OnlyMoves(s)
  BY <1>1, <1>3, <1>4 DEF Steps, OnlyMoves
<1>7. Programs(l)' /\ Clear(l)'
  BY <1>1, <1>3, <1>4, <1>6, SessionOwn DEF SessPlaces
<1> QED BY <1>3, <1>5, <1>6, <1>7, AgentStep

LEMMA KilledInv ==
  ASSUME LifecycleInv, NEW l \in Launches, Killed(Sess(l))
  PROVE  LifecycleInv'
<1> USE DEF LifecycleInv
<1> DEFINE s == Sess(l)
<1>1. /\ Active(s) /\ Close(s) /\ device' = device \ {s} /\ mishap' = mishap \cup {s}
      /\ pc' = [pc EXCEPT ![s] = "gone"] /\ sub' = [sub EXCEPT ![s] = "ready"]
      /\ UNCHANGED <<driver, disturbed>>
  BY DEF Killed, Refused
<1>2. s \in Agents /\ s \in Sessions
  BY AgentFacts
<1>3. /\ pc' \in [Agents -> DOMAIN OnSuccess \cup Resting \cup {"init", "work", "unit"}]
      /\ sub' \in [Agents -> Subs] /\ pc'[s] = "gone" /\ sub'[s] = "ready"
      /\ \A c \in Agents \ {s} : pc'[c] = pc[c] /\ sub'[c] = sub[c]
  BY <1>1, <1>2 DEF LifecycleTypeOK, Subs, Resting
<1>4. handle' = handle \ {s} /\ Kept' /\ entry' \in {"none", "registered", "marked"}
  BY <1>1, <1>2, CloseFacts
<1>5. LifecycleTypeOK'
  BY <1>1, <1>2, <1>3, <1>4 DEF LifecycleTypeOK, Subs
<1>6. Steps(s)' /\ OnlyMoves(s)
  BY <1>1, <1>3, <1>4 DEF Steps, OnlyMoves
<1>7. Programs(l)' /\ Clear(l)'
  BY <1>1, <1>3, <1>6, SessionOwn DEF SessPlaces
<1> QED BY <1>1, <1>4, <1>5, <1>6, <1>7, AgentStep

LEMMA UnloadInv ==
  ASSUME LifecycleInv, Unload
  PROVE  LifecycleInv'
<1> USE DEF LifecycleInv
<1>1. /\ driver = "stopping" /\ driver' = "stopped" /\ entry' = Reap(entry, "stopped", handle)
      /\ UNCHANGED <<pc, sub, handle, device, mishap, disturbed>>
  BY DEF Unload, agentVars
<1>2. LifecycleTypeOK' /\ Kept'
  BY <1>1 DEF LifecycleTypeOK, Kept, Reap
<1>3. \A a \in Agents : Steps(a)'
  BY <1>1 DEF Steps
<1>4. ASSUME NEW l \in Launches PROVE Programs(l)' /\ Alone(l)' /\ Clear(l)'
  <2>1. Programs(l)'
    BY <1>1 DEF Programs
  <2>2. Alone(l)'
    BY <1>1 DEF Alone, Beside, Active
  <2>3. Clear(l)'
    BY <1>1 DEF Clear, Found, Clean, Creating, Starting
  <2> QED BY <2>1, <2>2, <2>3
<1> QED BY <1>2, <1>3, <1>4

-----------------------------------------------------------------------------
LEMMA ScmInv ==
  ASSUME LifecycleInv, NEW l \in Launches, NEW a \in {Boot(l), Sess(l)}, Scm(a)
  PROVE  LifecycleInv'
BY OpenToDestroyInv, StopInv, PollInv, DeleteInv, CloseReturnInv,
   OpenToReplaceInv, CloseOldInv, CreateInv, OpenToStartInv, StartInv DEF Scm

LEMMA LifecycleStep ==
  ASSUME LifecycleInv, [Next]_vars
  PROVE  LifecycleInv'
<1>1. CASE Unload
  BY <1>1, UnloadInv
<1>2. ASSUME NEW a \in Agents, Scm(a) \/ PollFails(a) PROVE LifecycleInv'
  BY <1>2, ScmInv, PollFailsInv, AgentFacts
<1>3. ASSUME NEW l \in Launches, Begin(l) \/ LaunchService(l) \/ LaunchGame(l)
      PROVE  LifecycleInv'
  BY <1>3, BeginInv, LaunchServiceInv, LaunchGameInv
<1>4. ASSUME NEW s \in Sessions, Device(s) \/ Closing(s) \/ UnitFails(s) \/ Killed(s)
      PROVE  LifecycleInv'
  BY <1>4, DeviceInv, UnitFailsInv, KilledInv, AgentFacts
<1>5. CASE UNCHANGED vars
  <2>1. UNCHANGED <<entry, driver, pc, sub, handle, device, mishap, disturbed>>
    BY <1>5 DEF vars, agentVars
  <2>2. LifecycleTypeOK' /\ Kept'
    BY <2>1 DEF LifecycleInv, LifecycleTypeOK, Kept
  <2>3. \A a \in Agents : Steps(a)'
    BY <2>1 DEF LifecycleInv, Steps
  <2>4. ASSUME NEW l \in Launches PROVE Programs(l)' /\ Alone(l)' /\ Clear(l)'
    <3>1. Programs(l)' /\ Alone(l)'
      BY <2>1 DEF LifecycleInv, Programs, Alone, Beside, Active
    <3>2. Clear(l)'
      BY <2>1 DEF LifecycleInv, Clear, Found, Clean, Creating, Starting
    <3> QED BY <3>1, <3>2
  <2> QED BY <2>2, <2>3, <2>4 DEF LifecycleInv
<1> QED BY <1>1, <1>2, <1>3, <1>4, <1>5 DEF Next

LEMMA LifecycleInvariant == Spec => []LifecycleInv
<1>1. LifecycleInv /\ [Next]_vars => LifecycleInv'
  BY LifecycleStep
<1> QED BY <1>1, LifecycleInitInv, PTL DEF Spec

(* Every variable keeps its type: no agent leaves its program, and handles *)
(* to the entry are open only inside the functions of scm.                 *)
THEOREM LifecycleTypeCorrect == Spec => []LifecycleTypeOK
<1>1. LifecycleInv => LifecycleTypeOK
  BY DEF LifecycleInv
<1> QED BY <1>1, LifecycleInvariant, PTL

(* With nobody in scm and the driver stopped, no entry stays marked for    *)
(* deletion, whatever calls the system refused and whoever was killed.     *)
THEOREM NoWedgeHolds == Spec => []NoWedge
<1>1. LifecycleInv => NoWedge
  BY DEF LifecycleInv, LifecycleTypeOK, Kept, NoWedge
<1> QED BY <1>1, LifecycleInvariant, PTL

(* A launch that runs alone fails only if the system refused it something. *)
THEOREM LaunchAloneSucceedsHolds == Spec => []LaunchAloneSucceeds
<1>1. LifecycleInv => LaunchAloneSucceeds
  BY DEF LifecycleInv, Clear, Found, Boot, LaunchAloneSucceeds
<1> QED BY <1>1, LifecycleInvariant, PTL

(* A session at work keeps its driver, if no other launch overlaps it and  *)
(* its own Bootstrapper met no mishap.                                     *)
THEOREM SessionKeepsDriverHolds == Spec => []SessionKeepsDriver
<1>1. LifecycleInv => SessionKeepsDriver
  BY DEF LifecycleInv, Clear, Boot, Sess, SessionKeepsDriver
<1> QED BY <1>1, LifecycleInvariant, PTL
=============================================================================
