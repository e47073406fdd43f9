------------------------------- MODULE SystemX -------------------------------
(***************************************************************************)
(* The system calls (src/src/SystemX/AlopexOS/SystemX.cpp) over AVFS.  A   *)
(* call is known by its number; its error code is to be found in rcx.  The *)
(* handlers put it there with an inline assembler statement inside a C++   *)
(* function, so code that the compiler places behind the statement may     *)
(* change the register again: write and read destroy an array there, and   *)
(* leave in it what they please, also the 0 of Success.                    *)
(*                                                                         *)
(* The handlers of write and read make a dynarr over the buffer of the     *)
(* caller, with capacity 0 (Dynarr).  read_file resizes that array, which  *)
(* moves it to the heap and deletes the caller's buffer; the bytes go into *)
(* the array and with it out of reach.                                     *)
(***************************************************************************)
EXTENDS Avfs, FiniteSets

CONSTANT Garbage    \* what rcx may hold that is no code

Data == {c.data : c \in Calls}

ASSUME SystemXAssumption == Data \subseteq Seq(Nat) /\ Absent \notin Seq(Nat)

VARIABLES
    attached,   \* attachAVFS has been called
    buffer,     \* the bytes in the caller's buffer
    deleted,    \* the caller's buffer has been given to operator delete
    rcx,
    sys         \* [id, open]: the last call with a code, and whether it is under way

sysVars == <<attached, buffer, deleted, rcx, sys>>
allVars == <<vars, sysVars>>

NoCall == [id |-> 0, open |-> FALSE]

SysInit ==
    /\ Init
    /\ attached = FALSE
    /\ buffer \in Data /\ deleted = FALSE
    /\ rcx = Garbage
    /\ sys = NoCall

\* kmain up to attachAVFS.  It mounts a drive itself; the write and the read that
\* it makes later are the same calls of AVFS as those of programs.
Boot == (ConstructGaossd \/ Format \/ AvfsInit) /\ UNCHANGED sysVars

KernelMount(path) == ~attached /\ Mount(path) /\ UNCHANGED sysVars

attachAVFS ==
    /\ pc = "ready" /\ ~attached
    /\ attached' = TRUE
    /\ UNCHANGED <<vars, buffer, deleted, rcx, sys>>

-----------------------------------------------------------------------------
(* Dispatch *)

Handlers == <<"write", "read", "exists", "mount", "dismount", "spawn", "kill", "get_pid", "exit",
              "mmap", "munmap", "net_send", "net_recv", "diagnostic", "os_arch", "os_type">>

\* The switch of syscall.
Handler(id) == IF id \in DOMAIN Handlers THEN Handlers[id] ELSE "default"

Callable == attached /\ ~sys.open /\ ~deleted

Enter(id, name) ==
    /\ Callable /\ Handler(id) = name
    /\ sys' = [id |-> id, open |-> TRUE]
    /\ UNCHANGED <<attached, buffer, deleted, rcx>>

SysWrite(id, path) == Enter(id, "write") /\ Write(path, buffer)
SysRead(id, path) == Enter(id, "read") /\ Read(path, Len(buffer))
SysExists(id, path) == Enter(id, "exists") /\ Exists(path)
SysMount(id, path) == Enter(id, "mount") /\ Mount(path)
SysDismount(id, path) == Enter(id, "dismount") /\ Dismount(path)

\* os_arch and os_type write the address of a text to rcx.
SysInfo(id) ==
    /\ Callable /\ Handler(id) \in {"os_arch", "os_type"}
    /\ rcx' = Handler(id)
    /\ sys' = NoCall
    /\ UNCHANGED <<vars, attached, buffer, deleted>>

\* What rcx may hold when code behind has used it: 0 is Success.
Disturbed(c) == {c, Garbage, "Success"}

\* Handlers without a body, and numbers without a handler.
Unimplemented == {"spawn", "kill", "get_pid", "exit", "mmap", "munmap", "net_send",
                  "net_recv", "diagnostic", "default"}
SysNothing(id) ==
    /\ Callable /\ Handler(id) \in Unimplemented
    /\ rcx' \in Disturbed(rcx)
    /\ sys' = NoCall
    /\ UNCHANGED <<vars, attached, buffer, deleted>>

-----------------------------------------------------------------------------
(* The way back *)

\* With nothing behind the statement the code stays.
RcxAfter == IF asked.op \in {"write", "read"} THEN Disturbed(code) ELSE {code}

\* read_file resizes the array once it has found a file that is not empty, which
\* deletes the buffer below it.  The destructor at the end of a handler leaves
\* memory alone that the array does not own.
DeletesBuffer == asked.op = "read" /\ (code = "IOError" \/ (code = "Success" /\ result # <<>>))
Unclear == asked.op = "read" /\ code = "Success" /\ astray

SysReturn ==
    /\ sys.open /\ ~busy
    /\ rcx' \in RcxAfter
    /\ deleted' \in IF Unclear THEN BOOLEAN ELSE {DeletesBuffer}
    /\ sys' = [sys EXCEPT !.open = FALSE]
    /\ UNCHANGED <<vars, attached, buffer>>

\* The program goes on, with a buffer and a use of rcx of its own.
Program ==
    /\ ~sys.open
    /\ buffer' \in Data
    /\ deleted' = FALSE
    /\ rcx' = Garbage
    /\ sys' = NoCall
    /\ UNCHANGED <<vars, attached>>

syscall(id) ==
    \/ \E path \in Paths :
         \/ SysWrite(id, path) \/ SysRead(id, path)
         \/ SysExists(id, path) \/ SysMount(id, path) \/ SysDismount(id, path)
    \/ SysInfo(id) \/ SysNothing(id)

SysNext ==
    \/ Boot \/ attachAVFS
    \/ \E path \in Paths : KernelMount(path)
    \/ \E id \in 0 .. 17 : syscall(id)
    \/ Serve /\ UNCHANGED sysVars
    \/ SysReturn
    \/ Program

SysSpec == SysInit /\ [][SysNext]_allVars

-----------------------------------------------------------------------------
(* Properties *)

AllTypeOK ==
    /\ TypeOK
    /\ buffer \in Data /\ deleted \in BOOLEAN
    /\ rcx \in {"Success", "Generic_Error", "NotFound", "FileNotFound"} \cup Store!Errors
              \cup {Garbage, "os_arch", "os_type"}
    /\ sys.id \in 0 .. 5
    /\ busy => sys.open

\* The call is over and says Success: in rcx, or for write and read, which leave
\* anything there, as the answer of AVFS.
Returned(id) ==
    /\ sys = [id |-> id, open |-> FALSE]
    /\ "Success" = IF id \in {1, 2} THEN code ELSE rcx

\* The file holds the bytes that are not zero, in their order: all of them and no
\* others if it is new, or else as far as it is long.
HoldsNonzero(file, bytes, had) ==
    LET kept == {i \in DOMAIN bytes : bytes[i] # 0}
        Place(i) == Cardinality({j \in kept : j <= i})
    IN  kept # {} => /\ file # Absent
                     /\ ~had => Len(file) = Cardinality(kept)
                     /\ \A i \in kept : Place(i) <= Len(file) => file[Place(i)] = bytes[i]

\* Success means done, whatever was called before: after call 1 the file that the
\* path names holds the bytes of the buffer that are not zero, up to the length it
\* was created with, unless AbtrFS has lost its files; after call 4 a drive is
\* mounted, after call 5 the one that paths reach is not, and after each of the
\* calls there is a drive.
SuccessMeansDone ==
    /\ Returned(1) /\ ~astray => HoldsNonzero(files[asked.dir], buffer, asked.had)
    /\ Returned(4) => \E i \in DOMAIN drives : drives[i].format = "abtrfs"
    /\ Returned(5) => drives[1].format = ""
    /\ (\E id \in 1 .. 5 : Returned(id)) => drives # <<>>

=============================================================================
