------------------------------- MODULE Driver -------------------------------
(***************************************************************************)
(* The control plane of the kernel driver: driverLoad and driverUnload     *)
(* (Kernel/entry.cpp), the INITIALIZE and UNINITIALIZE requests            *)
(* (Kernel/ioctl.cpp) and the Register/Unregister pairs of the four        *)
(* callbacks the driver installs in the operating system                   *)
(* (Kernel/create_process_notify.cpp, create_thread_notify.cpp,            *)
(* load_image_notify.cpp, ob_pre_operation.cpp).                           *)
(*                                                                         *)
(* Each request runs in the thread of the process that sent it, and no     *)
(* lock protects the driver's globals, so a request is split at every      *)
(* access to a global and at every call into the operating system.         *)
(***************************************************************************)
EXTENDS Naturals

CONSTANTS Callers,     \* threads that send requests to the device
          System,      \* the system thread that unloads the driver
          Services,    \* processes running the service program
          None,        \* the null pointer
          MaxNotify,   \* size of the system's table of notify routines
          Overlap      \* may two requests be in progress at a time?

Threads == Callers \cup {System}

(* The callbacks, "ob" being the object-manager one of ob_pre_operation. *)
Notify == {"process", "image", "thread"}
Kinds  == Notify \cup {"ob"}

ASSUME DriverAssumption ==
  /\ System \notin Callers
  /\ None \notin Services
  /\ MaxNotify \in Nat \ {0}
  /\ Overlap \in BOOLEAN

VARIABLES
  loaded,       \* the driver image is in memory
  link,         \* the symbolic link: "none", "live" or "stale" (no device)
  os,           \* os[k]: how often the system holds the routine of kind k
  flag,         \* g_is_registered of each notify routine, g_handle # null for "ob"
  svc,          \* g_service
  cb,           \* g_service_callback, named by the service it belongs to
  pc, op, at,   \* where a thread is, in which request, at which callback
  who,          \* the process a request runs in
  removeFailed  \* history: the system refused a removal it could have done

callerVars == <<pc, op, at, who>>
driverVars == <<loaded, link, os, flag, svc, cb, pc, op, at, who, removeFailed>>

(* Mutant of After: driverUnload forgets the image routine. *)
AfterWithoutImage ==
  [init   |-> [ob |-> "process", process |-> "image",
               image |-> "thread", thread |-> "end"],
   uninit |-> [ob |-> "process", process |-> "thread",
               thread |-> "image", image |-> "end"],
   unload |-> [process |-> "thread", thread |-> "ob", ob |-> "end"]]

(* Mutant of After: UNINITIALIZE forgets the thread routine. *)
AfterUninitWithoutThread ==
  [init   |-> [ob |-> "process", process |-> "image",
               image |-> "thread", thread |-> "end"],
   uninit |-> [ob |-> "process", process |-> "image", image |-> "end"],
   unload |-> [process |-> "thread", thread |-> "image",
               image |-> "ob", ob |-> "end"]]

(* The order in which each request visits the callbacks. *)
After ==
  [init   |-> [ob |-> "process", process |-> "image",
               image |-> "thread", thread |-> "end"],
   uninit |-> [ob |-> "process", process |-> "thread",
               thread |-> "image", image |-> "end"],
   unload |-> [process |-> "thread", thread |-> "image",
               image |-> "ob", ob |-> "end"]]

Labels == {"idle", "bind", "register", "setFlag", "check", "clear", "remove",
           "succeed", "fail"}

Idle(t) == pc[t] = "idle"
Quiet   == \A t \in Threads : Idle(t)

(* The thread goes on with the next callback of its request at label l. *)
Advance(t, l) ==
  LET next == After[op[t]][at[t]] IN
  /\ at' = [at EXCEPT ![t] = next]
  /\ pc' = [pc EXCEPT ![t] = IF next = "end" THEN "succeed" ELSE l]
  /\ UNCHANGED <<op, who>>

GoTo(t, l) ==
  /\ pc' = [pc EXCEPT ![t] = l]
  /\ UNCHANGED <<op, at, who>>

Finish(t) ==
  /\ pc' = [pc EXCEPT ![t] = "idle"]
  /\ op' = [op EXCEPT ![t] = "init"]
  /\ at' = [at EXCEPT ![t] = "end"]
  /\ who' = [who EXCEPT ![t] = None]

-----------------------------------------------------------------------------
(* driverLoad, ioctl::Register and mmu::Init.  A load that finds a stale   *)
(* symbolic link fails in IoCreateSymbolicLink, deletes its device again   *)
(* and changes nothing.  A routine left in the system's tables by an       *)
(* earlier image makes the machine stop at the next event.                 *)
Load ==
  /\ ~loaded
  /\ link = "none"
  /\ \A k \in Kinds : os[k] = 0
  /\ Quiet
  /\ loaded' = TRUE
  /\ link' = "live"
  /\ flag' = [k \in Kinds |-> FALSE]
  /\ svc' = None
  /\ cb' = None
  /\ UNCHANGED <<os, callerVars, removeFailed>>

(* A service process opens the device and sends a request.                 *)
Open(t, o, s, first, l) ==
  /\ link = "live"
  /\ Idle(t)
  /\ Overlap \/ Quiet
  /\ op' = [op EXCEPT ![t] = o]
  /\ who' = [who EXCEPT ![t] = s]
  /\ at' = [at EXCEPT ![t] = first]
  /\ pc' = [pc EXCEPT ![t] = l]
  /\ UNCHANGED <<loaded, link, os, flag, svc, removeFailed>>

StartInit(t, s) ==
  /\ Open(t, "init", s, "ob", "bind")
  /\ cb' = s

StartUninit(t, s) ==
  /\ Open(t, "uninit", s, "ob", "check")
  /\ UNCHANGED cb

(* Mutant of Bind: g_service is assigned only after the registrations.     *)
BindLate(t) ==
  /\ pc[t] = "bind"
  /\ GoTo(t, "register")
  /\ UNCHANGED <<loaded, link, os, flag, svc, cb, removeFailed>>

(* Mutant of Bind: g_service is assigned only while it is null.            *)
BindOnce(t) ==
  /\ pc[t] = "bind"
  /\ svc' = IF svc = None THEN who[t] ELSE svc
  /\ GoTo(t, "register")
  /\ UNCHANGED <<loaded, link, os, flag, cb, removeFailed>>

(* g_service = IoGetCurrentProcess().                                      *)
Bind(t) ==
  /\ pc[t] = "bind"
  /\ svc' = who[t]
  /\ GoTo(t, "register")
  /\ UNCHANGED <<loaded, link, os, flag, cb, removeFailed>>

(* What the system accepts: it refuses a second object callback at the     *)
(* driver's altitude and a process routine it already holds, but takes the *)
(* same image or thread routine again while its table has room.            *)
Accepts(k) == IF k \in {"ob", "process"} THEN os[k] = 0 ELSE os[k] < MaxNotify

(* The call of Register(); ObRegisterCallbacks stores g_handle itself.     *)
Register(t) ==
  /\ pc[t] = "register"
  /\ Accepts(at[t])
  /\ os' = [os EXCEPT ![at[t]] = @ + 1]
  /\ IF at[t] = "ob"
       THEN /\ flag' = [flag EXCEPT !["ob"] = TRUE]
            /\ Advance(t, "register")
       ELSE /\ GoTo(t, "setFlag")
            /\ UNCHANGED flag
  /\ UNCHANGED <<loaded, link, svc, cb, removeFailed>>

(* Mutant of RegisterFails: INITIALIZE goes on after a failure.            *)
RegisterFailsIgnored(t) ==
  /\ pc[t] = "register"
  /\ Advance(t, "register")
  /\ UNCHANGED <<loaded, link, os, flag, svc, cb, removeFailed>>

(* The system may refuse any registration; INITIALIZE then stops where it  *)
(* is and removes nothing.                                                 *)
RegisterFails(t) ==
  /\ pc[t] = "register"
  /\ GoTo(t, "fail")
  /\ UNCHANGED <<loaded, link, os, flag, svc, cb, removeFailed>>

(* Mutant of SetFlag: Register() forgets g_is_registered = true.           *)
SetFlagForgotten(t) ==
  /\ pc[t] = "setFlag"
  /\ Advance(t, "register")
  /\ UNCHANGED <<loaded, link, os, flag, svc, cb, removeFailed>>

(* g_is_registered = true.                                                 *)
SetFlag(t) ==
  /\ pc[t] = "setFlag"
  /\ flag' = [flag EXCEPT ![at[t]] = TRUE]
  /\ Advance(t, "register")
  /\ UNCHANGED <<loaded, link, os, svc, cb, removeFailed>>

(* The test at the head of Unregister(): a notify routine clears its flag  *)
(* before it calls the system, the object callback forgets its handle      *)
(* after the call.                                                         *)
Check(t) ==
  /\ pc[t] = "check"
  /\ IF flag[at[t]]
       THEN GoTo(t, IF at[t] = "ob" THEN "remove" ELSE "clear")
       ELSE Advance(t, "check")
  /\ UNCHANGED <<loaded, link, os, flag, svc, cb, removeFailed>>

(* Mutant of Clear: the flag stays up after the removal.                   *)
ClearForgotten(t) ==
  /\ pc[t] = "clear"
  /\ IF at[t] = "ob" THEN Advance(t, "check") ELSE GoTo(t, "remove")
  /\ UNCHANGED <<loaded, link, os, flag, svc, cb, removeFailed>>

(* g_is_registered = false, or g_handle = nullptr.                         *)
Clear(t) ==
  /\ pc[t] = "clear"
  /\ flag' = [flag EXCEPT ![at[t]] = FALSE]
  /\ IF at[t] = "ob" THEN Advance(t, "check") ELSE GoTo(t, "remove")
  /\ UNCHANGED <<loaded, link, os, svc, cb, removeFailed>>

Remove(t) ==
  /\ pc[t] = "remove"
  /\ os[at[t]] > 0
  /\ os' = [os EXCEPT ![at[t]] = @ - 1]
  /\ IF at[t] = "ob" THEN GoTo(t, "clear") ELSE Advance(t, "check")
  /\ UNCHANGED <<loaded, link, flag, svc, cb, removeFailed>>

(* A removal fails: the rest of the else-if chain is skipped.  UNINITIALIZE *)
(* reports success all the same; driverUnload still removes the object     *)
(* callback.  Removing the object callback returns nothing.                *)
RemoveFails(t) ==
  /\ pc[t] = "remove"
  /\ \/ at[t] # "ob"
     \/ os["ob"] = 0
  /\ removeFailed' = (removeFailed \/ os[at[t]] > 0)
  /\ IF at[t] = "ob" THEN GoTo(t, "clear")
     ELSE IF op[t] = "uninit" THEN GoTo(t, "succeed")
     ELSE /\ at' = [at EXCEPT ![t] = "ob"]
          /\ pc' = [pc EXCEPT ![t] = "check"]
          /\ UNCHANGED <<op, who>>
  /\ UNCHANGED <<loaded, link, os, flag, svc, cb>>

(* IofCompleteRequest: the caller closes its handle.                       *)
Complete(t) ==
  /\ pc[t] \in {"succeed", "fail"}
  /\ op[t] # "unload"
  /\ Finish(t)
  /\ UNCHANGED <<loaded, link, os, flag, svc, cb, removeFailed>>

(* driverUnload runs once every handle to the device is closed.  It        *)
(* deletes the link and the device first; if the link cannot be deleted    *)
(* the notify routines are skipped.                                        *)
StartUnload ==
  /\ loaded
  /\ link = "live"
  /\ Quiet
  /\ op' = [op EXCEPT ![System] = "unload"]
  /\ pc' = [pc EXCEPT ![System] = "check"]
  /\ \/ /\ link' = "none"
        /\ at' = [at EXCEPT ![System] = "process"]
        /\ UNCHANGED removeFailed
     \/ /\ link' = "stale"
        /\ at' = [at EXCEPT ![System] = "ob"]
        /\ removeFailed' = TRUE
  /\ UNCHANGED <<loaded, os, flag, svc, cb, who>>

FinishUnload ==
  /\ pc[System] = "succeed"
  /\ Finish(System)
  /\ loaded' = FALSE
  /\ UNCHANGED <<link, os, flag, svc, cb, removeFailed>>

-----------------------------------------------------------------------------
Init ==
  /\ loaded = FALSE
  /\ link = "none"
  /\ os = [k \in Kinds |-> 0]
  /\ flag = [k \in Kinds |-> FALSE]
  /\ svc = None
  /\ cb = None
  /\ pc = [t \in Threads |-> "idle"]
  /\ op = [t \in Threads |-> "init"]
  /\ at = [t \in Threads |-> "end"]
  /\ who = [t \in Threads |-> None]
  /\ removeFailed = FALSE

Request(t) ==
  \/ Bind(t) \/ Register(t) \/ RegisterFails(t) \/ SetFlag(t)
  \/ Complete(t)
  \/ \E s \in Services : StartInit(t, s) \/ StartUninit(t, s)

Removal(t) == Check(t) \/ Clear(t) \/ Remove(t) \/ RemoveFails(t)

Next ==
  \/ Load \/ StartUnload \/ FinishUnload
  \/ \E t \in Callers : Request(t)
  \/ \E t \in Threads : Removal(t)

Spec == Init /\ [][Next]_driverVars

-----------------------------------------------------------------------------
TypeOK ==
  /\ loaded \in BOOLEAN
  /\ link \in {"none", "live", "stale"}
  /\ os \in [Kinds -> 0..MaxNotify]
  /\ flag \in [Kinds -> BOOLEAN]
  /\ svc \in Services \cup {None}
  /\ cb \in Services \cup {None}
  /\ pc \in [Threads -> Labels]
  /\ op \in [Threads -> {"init", "uninit", "unload"}]
  /\ at \in [Threads -> Kinds \cup {"end"}]
  /\ who \in [Threads -> Services \cup {None}]
  /\ removeFailed \in BOOLEAN

(* No routine of the driver is installed before the service it reports to  *)
(* is known: a callback never dereferences a null g_service or calls a     *)
(* null g_service_callback, whatever requests overlap.                     *)
BoundBeforeInstalled ==
  (\E k \in Kinds : os[k] > 0) => svc # None /\ cb # None

(* With requests one at a time an event is written into the process whose  *)
(* callback is then called: outside the two stores of an INITIALIZE both   *)
(* globals name one service, whichever services sent INITIALIZE before,    *)
(* failed in it, or went away.  Two INITIALIZE requests that overlap may   *)
(* leave one's callback with the other's process.                          *)
TargetMatched ==
  ~Overlap /\ (\A t \in Threads : pc[t] # "bind") => cb = svc

(* A notify routine is accounted for: its flag is up, or a request is      *)
(* between the flag and the call, or a removal has failed.                 *)
Recorded(k) ==
  \/ flag[k]
  \/ \E t \in Threads : at[t] = k /\ pc[t] \in {"setFlag", "remove"}
  \/ removeFailed

(* The process routine, which the system never holds twice, is accounted   *)
(* for whenever it is installed, even when requests overlap.               *)
ProcessRoutineAccounted == os["process"] = 1 => Recorded("process")

(* Two INITIALIZE requests that overlap can install the image and thread   *)
(* routines twice under one flag, and the second copy is then forgotten.   *)
(* That is the only way to lose one: a routine that is held once stays     *)
(* accounted for until it is removed, however requests overlap.            *)
HeldOnceStaysRecorded ==
  [][\A k \in Notify :
       os[k] <= 1 /\ (os[k] = 1 => Recorded(k)) =>
         (os[k] > 0 => Recorded(k))']_driverVars

(* With requests one at a time the driver's bookkeeping is exact between   *)
(* requests: a flag is up if and only if its routine is installed, once.   *)
BookkeepingExact ==
  ~Overlap /\ Quiet /\ ~removeFailed =>
    \A k \in Kinds : os[k] = IF flag[k] THEN 1 ELSE 0

(* Even after failed removals a raised flag never lies: UNINITIALIZE and   *)
(* driverUnload only ask the system to remove what it holds.               *)
FlagHonest ==
  ~Overlap => \A t \in Threads : pc[t] = "remove" => os[at[t]] > 0

(* INITIALIZE reports success only with all four callbacks installed and   *)
(* recorded; a retry after a partial failure cannot report success on top  *)
(* of the half that was left behind.                                       *)
InitializeHonest ==
  ~Overlap => \A t \in Threads :
    pc[t] = "succeed" /\ op[t] = "init" => \A k \in Kinds : os[k] >= 1 /\ flag[k]

(* Nothing of the driver stays installed once its image is gone, if the    *)
(* system refused no removal; the object callback is gone even then.       *)
UnloadClean ==
  ~Overlap /\ ~loaded =>
    /\ os["ob"] = 0
    /\ ~removeFailed => \A k \in Kinds : os[k] = 0

=============================================================================
