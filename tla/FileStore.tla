------------------------------ MODULE FileStore ------------------------------
(***************************************************************************)
(* What a file system with the interface of AbtrFS promises its caller:    *)
(* a map from paths to contents, reached by one call at a time.            *)
(*                                                                         *)
(*  - write_file on a new path creates the file with all its data at once  *)
(*    or not at all;                                                       *)
(*  - write_file on an existing file replaces the bytes it names, in any   *)
(*    order and perhaps not all of them if it then reports an error, and   *)
(*    no others; a file that has to grow for that grows at once;           *)
(*  - Success means done: after a write the file holds the data, after a   *)
(*    read the result is what the file holds;                              *)
(*  - FileNotFound means that there is no such file.                       *)
(***************************************************************************)
EXTENDS Naturals, Sequences

CONSTANTS
    Calls,      \* [op, path, data, off, max]: what can be asked
    Paths, RootPaths,
    Absent      \* no file

VARIABLES
    files,      \* [Paths -> contents or Absent]
    busy,       \* a call is being served
    call,       \* the current or last call
    ret,        \* what the last call returned
    result      \* the bytes that the last read_file delivered

vars == <<files, busy, call, ret, result>>

Init ==
    /\ files = [p \in Paths |-> Absent]
    /\ busy = FALSE
    /\ call \in Calls
    /\ ret = "none"
    /\ result = <<>>

Call(c) ==
    /\ ~busy
    /\ busy' = TRUE
    /\ call' = c
    /\ UNCHANGED <<files, ret, result>>

\* The bytes of the file that the current write names.
target == call.off + Len(call.data)
InRange(i) == call.off < i /\ i <= target
Written(i) == call.data[i - call.off]

\* Some of them arrive in the file.
Patched(file, done) ==
    [i \in 1 .. Len(file) |-> IF i \in done THEN Written(i) ELSE file[i]]
Patches ==
    IF call.op # "write" \/ files[call.path] = Absent THEN {files}
    ELSE {[files EXCEPT ![call.path] = Patched(@, done)] :
             done \in SUBSET {i \in 1 .. Len(files[call.path]) : InRange(i)}}

Patch ==
    /\ busy
    /\ files' \in Patches
    /\ UNCHANGED <<busy, call, ret, result>>

\* A file appears or grows at once, with all the data; bytes that nobody wrote
\* are zero.
Grows(file) == ~(file # Absent /\ target <= Len(file))
Enlarged(file) ==
    [i \in 1 .. target |->
        IF InRange(i) THEN Written(i)
        ELSE IF file # Absent /\ i <= Len(file) THEN file[i] ELSE 0]

Enlargements ==
    IF call.op = "write" /\ call.path \notin RootPaths /\ target > 0
       /\ Grows(files[call.path])
    THEN {[files EXCEPT ![call.path] = Enlarged(@)]}
    ELSE {}

Stored(file) ==
    /\ file # Absent
    /\ target <= Len(file)
    /\ \A i \in 1 .. Len(file) : InRange(i) => file[i] = Written(i)

\* read_file(path, data, read_offset, max_read_size); a max of 0 is no limit.
Slice(content) ==
    LET avail == Len(content) - call.off
        n == IF call.max > 0 /\ call.max < avail THEN call.max ELSE avail
    IN  IF call.off >= Len(content) THEN <<>>
        ELSE SubSeq(content, call.off + 1, call.off + n)

Errors == {"DeviceNotMounted", "InvalidPath", "InvalidParameters",
           "NoSpaceLeft", "WriteFailed", "IOError"}

\* What may be answered, and with which bytes, when the file ends up as file.
Answer(file, code, bytes) ==
    \/ /\ code = "Success" /\ call.path \notin RootPaths
       /\ call.op = "write" => Stored(file) /\ bytes = <<>>
       /\ call.op = "read" => file # Absent /\ bytes = Slice(file)
       /\ call.op = "exists" => file # Absent /\ bytes = <<>>
    \/ code = "FileNotFound" /\ call.op # "write" /\ file = Absent /\ bytes = <<>>
    \/ /\ code \in Errors /\ bytes = <<>>
       /\ code = "InvalidPath" => call.path \in RootPaths
       /\ code \in {"NoSpaceLeft", "WriteFailed", "InvalidParameters"} => call.op = "write"
       /\ code = "NoSpaceLeft" => Grows(file)
       /\ code = "InvalidParameters" => file = Absent

Return ==
    /\ busy
    /\ busy' = FALSE
    /\ files' \in Patches \cup Enlargements
    /\ Answer(files'[call.path], ret', result')
    /\ UNCHANGED call

Next == (\E c \in Calls : Call(c)) \/ Patch \/ Return

Spec == Init /\ [][Next]_vars

=============================================================================
