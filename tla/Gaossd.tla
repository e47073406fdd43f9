------------------------------- MODULE Gaossd -------------------------------
(***************************************************************************)
(* The storage layer between AbtrFS and the NVMe driver                    *)
(* (src/src/gaossd/gaossd.cpp, AbtrFS::read_block and write_block).        *)
(*                                                                         *)
(* A gaossd object has a table of devices, filled by its constructor, and  *)
(* a queue of pointers to requests that live on the stack of the caller.   *)
(* kmain makes one object and keeps it: read_block uses that one.          *)
(* write_block makes a new one for each block, whose constructor calls     *)
(* Controller::init again.  init does nothing when the controller is up;   *)
(* otherwise it sends Format NVM, among others, and may fail anywhere.     *)
(*                                                                         *)
(* Below is the driver, by the promise that NvmeIo is shown to keep        *)
(* (Device); above, read_block and write_block together are shown to keep  *)
(* the promise that AbtrFS is written against (Promise).                   *)
(***************************************************************************)
EXTENDS Naturals, Sequences

CONSTANTS LBAs, Values,
    Zero,           \* the content of a block after Format NVM
    None

\* What a gaossd object keeps: the number of its devices and the pointers in its
\* queue, of which there is never more than one.
Objects == [devices : {0, 1}, queue : {<<>>, <<"req">>}]

ASSUME GaossdAssumption == Zero \in Values /\ LBAs # {} /\ None \notin Objects

VARIABLES
    media, buffer, dphase, dreq, doutcome, dret,    \* the driver and the medium
    m_initialized,  \* of the one NVMe::Controller
    bus,            \* what the bus has: PCIe is active, and find_nvme_bar0 is not 0
    kept,           \* the gaossd of kmain
    temp,           \* the gaossd of write_block
    req,            \* the request on the stack of read_block or write_block
    pc,
    ok              \* what the last of them returned

deviceVars == <<media, buffer, dphase, dreq, doutcome, dret>>
vars == <<deviceVars, m_initialized, bus, kept, temp, req, pc, ok>>

Device == INSTANCE BlockDevice
            WITH phase <- dphase, req <- dreq, outcome <- doutcome, ret <- dret

Blank == [l \in LBAs |-> Zero]

\* AlopexOS_REQUEST_storage; only one handle is ever used.
NewRequest(opc, l) ==
    [OpCode |-> opc, lba |-> l, device_handle |-> 0, status |-> "Success", completed |-> FALSE]

Init ==
    /\ Device!Init
    /\ m_initialized = FALSE
    /\ bus \in [active : BOOLEAN, bar0 : BOOLEAN]
    /\ kept = None /\ temp = None
    /\ req = NewRequest("read", CHOOSE l \in LBAs : TRUE)
    /\ pc = "boot"
    /\ ok = TRUE

-----------------------------------------------------------------------------
(* The constructor *)

\* Controller::init: what it leaves on the medium and whether it is true.
InitOutcomes ==
    IF m_initialized THEN {[up |-> TRUE, media |-> media]}
    ELSE {[up |-> TRUE, media |-> Blank], [up |-> FALSE, media |-> media],
          [up |-> FALSE, media |-> Blank]}

\* register_device appends to the table, which is the number of its entries here.
Registered_FirstOnly(o) == IF o.up /\ ~m_initialized THEN 1 ELSE 0     \* mutant
Registered(o) == IF o.up THEN 1 ELSE 0

\* gaossd::gaossd(), into the variable object.
Construct(object) ==
    IF bus.active /\ bus.bar0
    THEN \E o \in InitOutcomes :
            /\ object = [devices |-> Registered(o), queue |-> <<>>]
            /\ m_initialized' = (m_initialized \/ o.up)
            /\ media' = o.media
    ELSE /\ object = [devices |-> 0, queue |-> <<>>]
         /\ UNCHANGED <<m_initialized, media>>

Boot ==
    /\ pc = "boot"
    /\ Construct(kept')
    /\ pc' = "idle"
    /\ UNCHANGED <<buffer, dphase, dreq, doutcome, dret, bus, temp, req, ok>>

-----------------------------------------------------------------------------
(* read_block and write_block *)

ReadBlock(l) ==
    /\ pc = "idle"
    /\ req' = NewRequest("read", l)
    /\ pc' = "submit"
    /\ UNCHANGED <<deviceVars, m_initialized, bus, kept, temp, ok>>

WriteBlock(l, v) ==
    /\ pc = "idle"
    /\ req' = NewRequest("write", l)
    /\ buffer' = v
    /\ pc' = "construct"
    /\ UNCHANGED <<media, dphase, dreq, doutcome, dret, m_initialized, bus, kept, temp, ok>>

ConstructTemporary ==
    /\ pc = "construct"
    /\ Construct(temp')
    /\ pc' = "submit"
    /\ UNCHANGED <<buffer, dphase, dreq, doutcome, dret, bus, kept, req, ok>>

\* The object that the caller submits to, and its next value.
ssd == IF temp = None THEN kept ELSE temp
Update(object) ==
    IF temp = None THEN kept' = object /\ UNCHANGED temp
    ELSE temp' = object /\ UNCHANGED kept

submit_request ==
    /\ pc = "submit"
    /\ IF req.device_handle >= ssd.devices
       THEN pc' = "return" /\ UNCHANGED <<kept, temp>>
       ELSE pc' = "process" /\ Update([ssd EXCEPT !.queue = Append(@, "req")])
    /\ UNCHANGED <<deviceVars, m_initialized, bus, req, ok>>

\* process_queue up to submit_fn, which is nvme_submit_thunk.
process_queue ==
    /\ pc = "process"
    /\ ssd.queue # <<>> /\ ~req.completed
    /\ IF req.device_handle >= ssd.devices
       THEN /\ req' = [req EXCEPT !.status = "InvalidParameters", !.completed = TRUE]
            /\ pc' = "clear"
            /\ UNCHANGED deviceVars
       ELSE /\ Device!Call([opc |-> req.OpCode, lba |-> req.lba], buffer)
            /\ pc' = "served"
            /\ UNCHANGED req
    /\ UNCHANGED <<m_initialized, bus, kept, temp, ok>>

\* The driver at work.
Drive ==
    /\ pc = "served"
    /\ Device!Serve \/ Device!Fail \/ Device!Return
    /\ UNCHANGED <<m_initialized, bus, kept, temp, req, pc, ok>>

\* submit_fn has returned; process_fn always succeeds.
Complete ==
    /\ pc = "served" /\ dphase = "idle"
    /\ req' = [req EXCEPT !.status = dret, !.completed = TRUE]
    /\ pc' = "clear"
    /\ UNCHANGED <<deviceVars, m_initialized, bus, kept, temp, ok>>

\* The end of process_queue.
Cleared_SuccessOnly(queue) == IF req.status = "Success" THEN <<>> ELSE queue   \* mutant
Cleared(queue) == <<>>

ClearQueue ==
    /\ pc = "clear"
    /\ Update([ssd EXCEPT !.queue = Cleared(@)])
    /\ pc' = "return"
    /\ UNCHANGED <<deviceVars, m_initialized, bus, req, ok>>

\* What read_block and write_block return; the temporary object goes with it.
Answer_StatusOnly == req.status = "Success"          \* mutant: completed is not looked at
Answer == req.completed /\ req.status = "Success"

MayReturn_Completed == req.completed                 \* mutant: it waits for the request
MayReturn == TRUE

Return ==
    /\ pc = "return"
    /\ MayReturn
    /\ ok' = Answer
    /\ temp' = None
    /\ pc' = "idle"
    /\ UNCHANGED <<deviceVars, m_initialized, bus, kept, req>>

Steps ==
    \/ ConstructTemporary \/ submit_request \/ process_queue
    \/ Drive \/ Complete \/ ClearQueue \/ Return

Next ==
    \/ Boot
    \/ \E l \in LBAs : ReadBlock(l)
    \/ \E l \in LBAs, v \in Values : WriteBlock(l, v)
    \/ Steps

\* One thread runs all of this and nothing stops it; the driver returns from every call.
Spec == Init /\ [][Next]_vars /\ WF_vars(Steps)

-----------------------------------------------------------------------------
(* Properties *)

TypeOK ==
    /\ Device!TypeOK
    /\ m_initialized \in BOOLEAN /\ ok \in BOOLEAN
    /\ kept \in Objects \cup {None} /\ temp \in Objects \cup {None}
    /\ pc \in {"boot", "idle", "construct", "submit", "process", "served", "clear", "return"}

\* The queue holds a pointer to the request only while the caller that owns the
\* request is inside submit and process: no pointer outlives the stack frame it
\* points into, whether the request was refused, failed or served.
QueueDrained ==
    pc \in {"boot", "idle", "construct", "submit", "return"} =>
        \A object \in {kept, temp} \ {None} : object.queue = <<>>

\* When the object that serves reads knows the device, so does every temporary
\* object that is made for a write, although each of them runs init again.
WritesReachDevice ==
    kept # None /\ temp # None /\ kept.devices > 0 => temp.devices > 0

\* Before the controller is up nothing can be stored, and the medium counts as blank.
Phase ==
    CASE pc \in {"boot", "idle"} -> "idle"
      [] pc \in {"clear", "return"} -> "served"
      [] pc = "served" /\ dphase # "busy" -> "served"
      [] OTHER -> "busy"
Outcome ==
    CASE pc = "served" /\ dphase = "served" -> doutcome
      [] pc = "served" /\ dphase = "idle" -> dret = "Success"
      [] pc \in {"clear", "return"} -> req.completed /\ req.status = "Success"
      [] OTHER -> TRUE

Promise == INSTANCE BlockDevice
             WITH media <- IF m_initialized THEN media ELSE Blank,
                  phase <- Phase, outcome <- Outcome,
                  req <- [opc |-> req.OpCode, lba |-> req.lba],
                  ret <- IF ok THEN "Success" ELSE "Generic_Error"

\* read_block and write_block are a block device: success means done, a call
\* touches no block but its own - no constructor formats a medium that is in
\* use - and a call that is refused has no effect.
ImplementsBlockDevice == Promise!SafeSpec

\* Every block operation returns, refused ones too.
BlockOpReturns == (pc # "idle" /\ pc # "boot") ~> (pc = "idle")

=============================================================================
