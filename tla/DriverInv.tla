------------------------------ MODULE DriverInv ------------------------------
(***************************************************************************)
(* The inductive invariants behind the safety properties of Driver.        *)
(***************************************************************************)
EXTENDS Driver

Removing == {"check", "clear", "remove"}

(* Where a thread is agrees with the request it executes.                  *)
Placed ==
  \A t \in Threads :
    /\ pc[t] \in {"register", "setFlag"} \cup Removing => at[t] \in Kinds
    /\ pc[t] \in {"bind", "register", "setFlag", "fail"} =>
         op[t] = "init" /\ t \in Callers
    /\ pc[t] \in Removing => op[t] \in {"uninit", "unload"}
    /\ pc[t] = "setFlag" => at[t] \in Notify
    /\ pc[t] = "bind" => who[t] \in Services /\ at[t] = "ob"
    /\ pc[t] # "idle" => (op[t] = "unload" <=> t = System)

TypeInv == TypeOK /\ Placed

(* A request that may still register a callback has set both globals, and  *)
(* no request clears them.                                                 *)
Announced ==
  /\ \A t \in Threads :
       /\ pc[t] = "bind" => cb # None
       /\ pc[t] \in {"register", "setFlag"} => svc # None /\ cb # None
  /\ BoundBeforeInstalled

(* The process routine is held at most once, and never unaccounted for.    *)
Accounted == os["process"] \in {0, 1} /\ ProcessRoutineAccounted

-----------------------------------------------------------------------------
(* One request at a time.                                                  *)
Mutex == \A t, u \in Threads : pc[t] # "idle" /\ pc[u] # "idle" => t = u

(* The image is in memory while a request runs, and only a loaded image    *)
(* has a live link.                                                        *)
Present ==
  /\ link = "live" => loaded
  /\ ~Quiet => loaded
  /\ pc[System] # "idle" => link # "live"

(* The callbacks a request has dealt with when it is at callback k.        *)
Before ==
  [init   |-> [ob |-> {}, process |-> {"ob"}, image |-> {"ob", "process"},
               thread |-> {"ob", "process", "image"}, end |-> Kinds],
   uninit |-> [ob |-> {}, process |-> {"ob"}, thread |-> {"ob", "process"},
               image |-> {"ob", "process", "thread"}, end |-> Kinds],
   unload |-> [process |-> {}, thread |-> {"process"},
               image |-> {"process", "thread"}, ob |-> Notify, end |-> Kinds]]

Between(t, k) == at[t] = k /\ pc[t] \in {"setFlag", "remove"}

(* A raised flag is honest, except that of the object callback between the *)
(* call that removes it and the assignment after it.                       *)
Honest ==
  /\ \A k \in Kinds :
       flag[k] => os[k] >= 1 \/ (k = "ob" /\ \E t \in Threads :
                                              pc[t] = "clear" /\ at[t] = "ob")
  /\ \A t \in Threads :
       /\ pc[t] = "remove" => os[at[t]] >= 1
       /\ pc[t] = "clear" /\ at[t] = "ob" => os["ob"] = 0 /\ flag["ob"]
       /\ pc[t] = "clear" /\ at[t] # "ob" => flag[at[t]]
       /\ pc[t] = "remove" => (flag[at[t]] <=> at[t] = "ob")
       /\ pc[t] = "setFlag" => os[at[t]] >= 1

(* The object callback is accounted for exactly, whatever fails.           *)
ObExact ==
  /\ os["ob"] \in {0, 1}
  /\ os["ob"] = 1 => flag["ob"]

(* What INITIALIZE has passed is installed and recorded.                   *)
InitSoFar ==
  \A t \in Threads :
    op[t] = "init" /\ pc[t] \in {"register", "setFlag", "succeed"} =>
      /\ pc[t] = "succeed" => at[t] = "end"
      /\ \A k \in Before["init"][at[t]] : os[k] >= 1 /\ flag[k]

(* What a removing request has passed is gone, unless a removal failed; the *)
(* object callback is gone even then.                                      *)
GoneSoFar ==
  /\ \A t \in Threads :
       op[t] # "init" /\ pc[t] \in Removing \cup {"succeed"} =>
         /\ op[t] = "unload" /\ at[t] = "end" => os["ob"] = 0
         /\ ~removeFailed => \A k \in Before[op[t]][at[t]] : os[k] = 0
  /\ \A t \in Threads :
       pc[t] = "succeed" /\ op[t] = "unload" => at[t] = "end"
  /\ ~loaded => os["ob"] = 0
  /\ ~loaded /\ ~removeFailed => \A k \in Kinds : os[k] = 0

(* Without failed removals the routines installed are always the first few *)
(* of INITIALIZE's order, each once and each recorded.                     *)
Chain ==
  /\ os["process"] > 0 => os["ob"] > 0
  /\ os["image"] > 0 => os["process"] > 0
  /\ os["thread"] > 0 => os["image"] > 0

Exact ==
  ~removeFailed =>
    /\ \A k \in Kinds : os[k] \in {0, 1}
    /\ \A k \in Notify : os[k] = 1 =>
         flag[k] \/ \E t \in Threads : at[t] = k /\ pc[t] \in {"setFlag", "remove"}
    /\ (\A t \in Threads : pc[t] \notin Removing) => Chain
    /\ \A t \in Threads :
         /\ pc[t] \in {"register", "setFlag"} /\ at[t] # "ob" =>
              \A k \in Kinds \ (Before["init"][at[t]] \cup {at[t]}) : os[k] = 0
         /\ pc[t] = "register" /\ at[t] # "ob" => os[at[t]] = 0

(* Between its two stores an INITIALIZE has set the callback only.         *)
Matched ==
  /\ \A t \in Threads : pc[t] = "bind" => cb = who[t]
  /\ (\A t \in Threads : pc[t] # "bind") => cb = svc

SerialInv ==
  Mutex /\ Present /\ Honest /\ ObExact /\ InitSoFar /\ GoneSoFar /\ Exact
=============================================================================
