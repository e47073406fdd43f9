----------------------------- MODULE BlockDevice -----------------------------
(***************************************************************************)
(* What the storage stack promises to the file system: a synchronous       *)
(* device that serves one call at a time.  A call moves one file-system    *)
(* block between the caller's buffer and the medium, takes effect at one   *)
(* instant between its start and its return, and returns Success exactly   *)
(* when it took effect.  A call that returns an error may have taken       *)
(* effect or not; nothing but the block it names is ever touched.          *)
(*                                                                         *)
(* AbtrFS::read_block and AbtrFS::write_block are written against this     *)
(* promise; NvmeIo, the queue pair of NVMe::Controller, is shown to keep   *)
(* it.                                                                     *)
(***************************************************************************)
CONSTANTS
    LBAs,       \* the addresses of the medium, in file-system blocks
    Values      \* the contents a block can have

VARIABLES
    media,      \* [LBAs -> Values], what the medium holds
    buffer,     \* the caller's buffer, the target or the source of the call
    phase,      \* "idle", "busy" (called), "served" (took effect or failed)
    req,        \* [opc, lba] of the current or of the last call
    outcome,    \* whether the served call succeeded; TRUE when idle
    ret         \* what the last finished call returned

vars == <<media, buffer, phase, req, outcome, ret>>

Requests == [opc : {"read", "write"}, lba : LBAs]

TypeOK ==
    /\ media \in [LBAs -> Values]
    /\ buffer \in Values
    /\ phase \in {"idle", "busy", "served"}
    /\ req \in Requests
    /\ outcome \in BOOLEAN
    /\ ret \in {"Success", "Generic_Error"}

Init ==
    /\ media \in [LBAs -> Values]
    /\ buffer \in Values
    /\ phase = "idle"
    /\ req \in Requests
    /\ outcome = TRUE
    /\ ret = "Success"

\* The caller hands over a request; a write comes with the buffer's content.
Call(r, v) ==
    /\ phase = "idle"
    /\ phase' = "busy"
    /\ req' = r
    /\ buffer' = v
    /\ UNCHANGED <<media, outcome, ret>>

\* The effect of a call that will return Success.
Serve ==
    /\ phase = "busy"
    /\ phase' = "served"
    /\ outcome' = TRUE
    /\ IF req.opc = "write"
       THEN media' = [media EXCEPT ![req.lba] = buffer] /\ UNCHANGED buffer
       ELSE buffer' = media[req.lba] /\ UNCHANGED media
    /\ UNCHANGED <<req, ret>>

\* A call that will return an error: a write may still have landed, and a read
\* may have left anything in the buffer.
Fail ==
    /\ phase = "busy"
    /\ phase' = "served"
    /\ outcome' = FALSE
    /\ IF req.opc = "write"
       THEN media' \in {media, [media EXCEPT ![req.lba] = buffer]} /\ UNCHANGED buffer
       ELSE buffer' \in Values /\ UNCHANGED media
    /\ UNCHANGED <<req, ret>>

Return ==
    /\ phase = "served"
    /\ phase' = "idle"
    /\ ret' = IF outcome THEN "Success" ELSE "Generic_Error"
    /\ outcome' = TRUE
    /\ UNCHANGED <<media, buffer, req>>

Next ==
    \/ \E r \in Requests, v \in Values : Call(r, v)
    \/ Serve
    \/ Fail
    \/ Return

SafeSpec == Init /\ [][Next]_vars
Spec == SafeSpec /\ WF_vars(Serve \/ Fail) /\ WF_vars(Return)

=============================================================================
