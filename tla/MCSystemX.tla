----------------------------- MODULE MCSystemX -----------------------------
(***************************************************************************)
(* AVFS and the system calls for TLC: up to two storage devices, a         *)
(* controller with and without a model number, one file, buffers with and  *)
(* without a zero, and longer than the file.                               *)
(***************************************************************************)
EXTENDS SystemX

BaseAddresses == {0, 1}
ModelTexts == {"", "QEMU NVMe Ctrl"}
Directories == {"file"}
Roots == {}

\* No device, or two: the second at the address that gaossd has for all, the first
\* at another.
Machines == {<<>>, <<1, 0>>}

\* The names of the controller with what may follow them, the default name, and
\* a malformed path.
Named(text, pad, sep, dir) == [drive |-> [text |-> text, pad |-> pad], sep |-> sep, dir |-> dir]
AskedPaths ==
    {Named("QEMU NVMe Ctrl", pad, "://", "file") : pad \in {"none", "blanks", "tabs"}}
    \cup {Named("QEMU NVMe Ctrl", "none", ":", "file"), Named(DefaultName.text, "blanks", "://", "file")}

\* The buffers of programs, and a call to start with.  In blocks of two bytes a
\* file of one byte has room for a second one, and a third takes another block.
Payloads == {<<1>>, <<0, 2, 1>>, <<1, 1, 2>>}
StoreCalls == [op : {"write"}, path : {"file"}, data : Payloads, off : {0}, max : {0}]

=============================================================================
