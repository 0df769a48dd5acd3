------------------------------ MODULE Injection ------------------------------
(***************************************************************************)
(* How the internal module comes into the game: the service asks the       *)
(* server for the image (Service/server.cpp), hands it to the driver,      *)
(* which attaches to the game and maps it (Kernel/manual_mapper.cpp), and  *)
(* starts a thread at its entry point (Service/kernel.cpp).  Any call on   *)
(* the way may fail and the game may end between any two of them; its      *)
(* process id may then come to name another process.                       *)
(*                                                                         *)
(* Sizes are counted in sections: the image has one section per unit of    *)
(* its file.                                                               *)
(***************************************************************************)
EXTENDS Naturals, Integers

CONSTANTS FileSizes,  \* sizes the server's file may have
          Page,       \* 0x1000
          Word        \* 2^16

ASSUME InjectionAssumption ==
  /\ FileSizes \subseteq Nat \ {0}
  /\ Page \in Nat \ {0} /\ Word \in Nat \ {0}

VARIABLES
  file, valid,    \* size of the server's file; does it start like an image?
  pc,             \* where main is, in the service or inside the driver
  length,         \* the bytes of it that the service has
  game, id,       \* the game's process; whom its id names
  returned,       \* DllMain ran to its end in the game
  module,         \* the detection thread runs in the game
  target, ref,    \* the process the driver is attached to, and its reference
  rundown,        \* references on the target that keep it from ending
  refused,        \* history: the target was ending when one was asked for
  home, copied,   \* the process the image is in, and the sections copied
  beyond,         \* history: a section was read from behind the buffer
  ep,             \* the driver returns an entry point
  input, handle,  \* kernel::Inject's request buffer, and its open handle
  context,        \* dllmain_ctx_t is in that process
  thread          \* the process the thread was started in

serverVars == <<file, valid>>
gameVars   == <<game, id, returned, module>>
driverVars == <<target, ref, rundown, refused, home, copied, beyond, ep>>
callVars   == <<input, handle, context, thread>>
vars == <<serverVars, pc, length, gameVars, driverVars, callVars>>

GoTo(l) == pc' = l
From(a, b) == pc = a /\ GoTo(b)

-----------------------------------------------------------------------------
(* server::streamShellcode.  A failure of the connection raises, which     *)
(* ends the session (module Service).                                      *)
Connect ==
  /\ \E l \in {"header", "raised"} : From("connect", l)
  /\ UNCHANGED <<serverVars, length, gameVars, driverVars, callVars>>

Receive ==
  /\ \/ \E l \in {"body", "raised"} : From("header", l)
     \/ \E l \in {"length", "raised"} : From("body", l)
  /\ UNCHANGED <<serverVars, length, gameVars, driverVars, callVars>>

(* The server has stored the size of the file in 16 bits.                  *)
TakeLength ==
  /\ From("length", IF file % Word < Page THEN "box" ELSE "map")
  /\ length' = file % Word
  /\ UNCHANGED <<serverVars, gameVars, driverVars, callVars>>

-----------------------------------------------------------------------------
(* kernel::Inject, up to the driver.                                       *)
Request ==
  /\ \/ From("map", "lookup") /\ input' = TRUE
     \/ From("map", "box") /\ UNCHANGED input   \* the device cannot be opened
  /\ UNCHANGED <<serverVars, length, gameVars, driverVars, handle, context, thread>>

(* manual_mapper::inject.                                                  *)
Lookup ==
  /\ \/ /\ id # "none"
        /\ From("lookup", "acquire")
        /\ target' = id /\ ref' = TRUE
     \/ /\ From("lookup", "status")
        /\ UNCHANGED <<target, ref>>
  /\ UNCHANGED <<serverVars, length, gameVars, rundown, refused, home, copied, beyond,
                 ep, callVars>>

Ending(p) == p = "game" /\ game # "running"

(* The result is not looked at.                                            *)
Acquire ==
  /\ From("acquire", "check")
  /\ IF Ending(target)
       THEN refused' = TRUE /\ UNCHANGED rundown
       ELSE rundown' = rundown + 1 /\ UNCHANGED refused
  /\ UNCHANGED <<serverVars, length, gameVars, target, ref, home, copied, beyond, ep,
                 callVars>>

(* Mutant of Check: the wrong magic is answered without the releases.      *)
CheckLeaks ==
  /\ From("check", IF valid THEN "allocate" ELSE "status")
  /\ UNCHANGED <<serverVars, length, gameVars, driverVars, callVars>>

Check ==
  /\ From("check", IF valid THEN "allocate" ELSE "release")
  /\ UNCHANGED <<serverVars, length, gameVars, driverVars, callVars>>

Allocate ==
  /\ \/ From("allocate", "copy") /\ home' = target
     \/ From("allocate", "release") /\ UNCHANGED home
  /\ UNCHANGED <<serverVars, length, gameVars, target, ref, rundown, refused, copied,
                 beyond, ep, callVars>>

(* Mutant of CopySection: the last section is left out.                    *)
CopySectionShort ==
  /\ pc = "copy"
  /\ IF copied < file - 1
       THEN /\ copied' = copied + 1
            /\ beyond' = (beyond \/ copied >= length)
            /\ UNCHANGED <<pc, ep>>
       ELSE GoTo("release") /\ ep' = TRUE /\ UNCHANGED <<copied, beyond>>
  /\ UNCHANGED <<serverVars, length, gameVars, target, ref, rundown, refused, home,
                 callVars>>

(* The sections are those of the image's header, not of what is there.     *)
CopySection ==
  /\ pc = "copy"
  /\ IF copied < file
       THEN /\ copied' = copied + 1
            /\ beyond' = (beyond \/ copied >= length)
            /\ UNCHANGED <<pc, ep>>
       ELSE GoTo("release") /\ ep' = TRUE /\ UNCHANGED <<copied, beyond>>
  /\ UNCHANGED <<serverVars, length, gameVars, target, ref, rundown, refused, home,
                 callVars>>

Release ==
  /\ From("release", "dereference")
  /\ rundown' = rundown - 1
  /\ UNCHANGED <<serverVars, length, gameVars, target, ref, refused, home, copied,
                 beyond, ep, callVars>>

Dereference ==
  /\ From("dereference", "status")
  /\ ref' = FALSE
  /\ UNCHANGED <<serverVars, length, gameVars, target, rundown, refused, home, copied,
                 beyond, ep, callVars>>

-----------------------------------------------------------------------------
(* kernel::Inject, after the driver.                                       *)
Fail == GoTo("box") /\ input' = FALSE /\ handle' = "none"

(* Mutant of Status: the driver's status is not looked at.                 *)
StatusIgnored ==
  /\ From("status", "open")
  /\ UNCHANGED <<input, handle>>
  /\ UNCHANGED <<serverVars, length, gameVars, driverVars, context, thread>>

(* ioctl::Dispatcher fails the request if there is no entry point.         *)
Status ==
  /\ pc = "status"
  /\ IF ep THEN GoTo("open") /\ UNCHANGED <<input, handle>> ELSE Fail
  /\ UNCHANGED <<serverVars, length, gameVars, driverVars, context, thread>>

(* OpenProcess answers a failure with null, which is taken for a handle.   *)
Open ==
  /\ From("open", "context")
  /\ handle' \in {"none", id}
  /\ UNCHANGED <<serverVars, length, gameVars, driverVars, input, context, thread>>

(* Mutant of Context: a failure gives nothing back.                        *)
ContextLeaks ==
  /\ pc = "context"
  /\ (handle # "none" /\ GoTo("write")) \/ GoTo("box")
  /\ UNCHANGED <<input, handle>>
  /\ UNCHANGED <<serverVars, length, gameVars, driverVars, context, thread>>

(* VirtualAllocEx, and WriteProcessMemory.  VirtualFree on the other       *)
(* process's block frees nothing there.                                    *)
Context ==
  /\ pc = "context"
  /\ \/ /\ handle # "none"
        /\ GoTo("write")
        /\ UNCHANGED <<input, handle>>
     \/ Fail
  /\ UNCHANGED <<serverVars, length, gameVars, driverVars, context, thread>>

WriteContext ==
  /\ pc = "write"
  /\ \/ GoTo("thread") /\ context' = TRUE /\ UNCHANGED <<input, handle>>
     \/ Fail /\ UNCHANGED context
  /\ UNCHANGED <<serverVars, length, gameVars, driverVars, thread>>

StartThread ==
  /\ pc = "thread"
  /\ \/ /\ ~Ending(handle)
        /\ GoTo("wait")
        /\ thread' = handle
        /\ UNCHANGED <<input, handle>>
     \/ Fail /\ UNCHANGED thread
  /\ UNCHANGED <<serverVars, length, gameVars, driverVars, context>>

(* WaitForSingleObject: DllMain has returned or its process is gone.       *)
Wait ==
  /\ From("wait", "loop")
  /\ returned \/ thread = "other" \/ game = "gone"
  /\ input' = FALSE /\ handle' = "none"
  /\ UNCHANGED <<serverVars, length, gameVars, driverVars, context, thread>>

-----------------------------------------------------------------------------
(* The game.  DllMain starts the detection thread and returns true whether *)
(* there is one or not; what runs in sections that came from behind the    *)
(* buffer may as well end the game.                                        *)
DllMain ==
  /\ thread = "game" /\ home = "game" /\ game = "running" /\ ~returned
  /\ \/ returned' = TRUE /\ module' \in BOOLEAN /\ UNCHANGED game
     \/ beyond /\ game' = "exiting" /\ UNCHANGED <<returned, module>>
  /\ UNCHANGED <<serverVars, pc, length, id, driverVars, callVars>>

GameExits ==
  /\ game = "running"
  /\ game' = "exiting" /\ module' = FALSE
  /\ UNCHANGED <<serverVars, pc, length, id, returned, driverVars, callVars>>

(* It waits for the references of the driver.                              *)
GameGone ==
  /\ game = "exiting"
  /\ target = "game" => rundown <= 0
  /\ game' = "gone"
  /\ UNCHANGED <<serverVars, pc, length, id, returned, module, driverVars, callVars>>

(* The id is free once nobody refers to the process.                       *)
IdFreed ==
  /\ id = "game" /\ game = "gone"
  /\ ~(ref /\ target = "game") /\ handle # "game"
  /\ id' = "none"
  /\ UNCHANGED <<serverVars, pc, length, game, returned, module, driverVars, callVars>>

IdReused ==
  /\ id = "none" /\ id' = "other"
  /\ UNCHANGED <<serverVars, pc, length, game, returned, module, driverVars, callVars>>

-----------------------------------------------------------------------------
(* The service has been told of the game by the time it maps the image.    *)
Init ==
  /\ file \in FileSizes /\ valid \in BOOLEAN
  /\ pc = "connect" /\ length = 0
  /\ game = "running" /\ id = "game" /\ returned = FALSE /\ module = FALSE
  /\ target = "none" /\ ref = FALSE
  /\ rundown = 0 /\ refused = FALSE
  /\ home = "none" /\ copied = 0 /\ beyond = FALSE
  /\ ep = FALSE
  /\ input = FALSE /\ handle = "none" /\ context = FALSE /\ thread = "none"

Stream == Connect \/ Receive \/ TakeLength
Map    == Lookup \/ Acquire \/ Check \/ Allocate \/ CopySection \/ Release \/ Dereference
Inject == Request \/ Map \/ Status \/ Open \/ Context \/ WriteContext \/ StartThread \/ Wait
World  == DllMain \/ GameExits \/ GameGone \/ IdFreed \/ IdReused

Next == Stream \/ Inject \/ World

Spec == Init /\ [][Next]_vars

(* main is scheduled and its calls return; so is the game's thread, and an *)
(* exit ends once nothing holds it.  The server need not answer.           *)
FairSpec == Spec /\ WF_vars(Inject) /\ WF_vars(DllMain) /\ WF_vars(GameGone)

-----------------------------------------------------------------------------
InjectionTypeOK ==
  /\ file \in FileSizes /\ valid \in BOOLEAN
  /\ pc \in {"connect", "header", "body", "length", "map", "lookup", "acquire", "check",
             "allocate", "copy", "release", "dereference", "status", "open", "context",
             "write", "thread", "wait", "loop", "box", "raised"}
  /\ length \in Nat
  /\ game \in {"running", "exiting", "gone"} /\ id \in {"game", "none", "other"}
  /\ returned \in BOOLEAN /\ module \in BOOLEAN
  /\ target \in {"game", "none", "other"} /\ ref \in BOOLEAN
  /\ rundown \in {-1, 0, 1} /\ refused \in BOOLEAN
  /\ home \in {"game", "none", "other"}
  /\ copied \in Nat /\ beyond \in BOOLEAN
  /\ ep \in BOOLEAN
  /\ input \in BOOLEAN /\ handle \in {"game", "none", "other"}
  /\ context \in BOOLEAN /\ thread \in {"game", "none", "other"}

(* The detection thread only runs in a game that has every section of the  *)
(* image and the context DllMain reads.  The service has at least a page   *)
(* of it, which holds the headers, and each section came from the server's *)
(* file unless the file has 64 KiB or more: then the service has less of   *)
(* it than the headers say.                                                *)
ModuleWhole ==
  module => /\ home = "game" /\ copied = file /\ context
            /\ length >= Page
            /\ beyond => file >= Word

(* Inject's answer: after a failure nothing was started, neither DllMain   *)
(* nor the module; after a success DllMain ran to its end unless the game  *)
(* is ending.  That the detection thread exists is more than the answer    *)
(* says.  A thread is started in no other process than the one with the    *)
(* image unless the game was gone by then and its id somebody else's.      *)
InjectHonest ==
  /\ pc \in {"box", "raised"} => thread = "none" /\ ~returned /\ ~module
  /\ pc = "loop" => returned \/ game # "running"
  /\ thread # "none" => thread = home \/ id = "other"

(* Whichever call failed, neither the driver nor the service still holds   *)
(* the game, and no request is left behind.  A rundown reference that was  *)
(* refused, because the game was ending, is released all the same.         *)
NothingHeld ==
  pc \in {"box", "loop", "raised"} =>
    /\ ~ref /\ rundown = (IF refused THEN -1 ELSE 0)
    /\ ~input /\ handle = "none"

(* Mapping never keeps the game from ending.                               *)
GameMayEnd == game = "exiting" ~> game = "gone"
=============================================================================
