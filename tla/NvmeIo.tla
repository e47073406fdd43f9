-------------------------------- MODULE NvmeIo --------------------------------
(***************************************************************************)
(* The I/O queue pair of NVMe::Controller (src/src/PCI/nvme/nvme.cpp) and  *)
(* the device on the other side of it, from a freshly created queue pair   *)
(* (create_io_queues) on.                                                  *)
(*                                                                         *)
(* Controller::read and Controller::write build a command in the slot at   *)
(* m_io_sq_tail, advance the tail, ring the submission doorbell and spin   *)
(* on the completion slot at m_io_cq_head until its phase bit equals       *)
(* m_io_cq_phase.  They never look at the command identifier of the        *)
(* completion: whatever turns up with the right phase is taken for the     *)
(* answer, and the caller's buffer, which the device reaches by DMA, is    *)
(* given back.  That this is right, command after command and through      *)
(* every wrap of the two rings, is what this module is about.              *)
(*                                                                         *)
(* The device is not part of the repository: DevFetch, DevExecute and      *)
(* DevPost are what the driver relies on.  The device takes commands in    *)
(* ring order, may finish them in any order, moves the data before it      *)
(* posts the completion, and posts only into a ring it knows not to be     *)
(* full.                                                                   *)
(***************************************************************************)
EXTENDS Naturals

CONSTANTS
    QueueDepth,     \* entries of each ring, 64 in nvme.hpp
    LBAs,           \* addresses of the medium
    Values,         \* contents of a block
    TagSpace        \* bound: commands are numbered modulo TagSpace

\* A ring of one slot cannot tell full from empty: NVMe wants two at least.
ASSUME QueueDepthAssumption == QueueDepth \in Nat /\ QueueDepth >= 2

\* Address 0 is what a zeroed command names.
ASSUME LBAsAssumption == LBAs \subseteq Nat /\ 0 \in LBAs

\* The numbers of the commands whose completions can be in the ring differ.
ASSUME TagSpaceAssumption == TagSpace \in Nat /\ TagSpace > QueueDepth

Slots == 0 .. QueueDepth - 1
Tags == 0 .. TagSpace - 1

\* tag is a history variable: the number of the command, unknown to the driver.
\* Opcode 0, that of zeroed memory, is the Flush command.
Commands == [opc : {"flush", "read", "write"}, lba : LBAs, cid : Slots, tag : Tags]
Completions == [phase : {0, 1}, ok : BOOLEAN, cid : Slots, tag : Tags]
Requests == [opc : {"read", "write"}, lba : LBAs]

VARIABLES
    pc,             \* where read or write is: ready, filled, polling, consumed
    m_io_sq, m_io_cq,
    m_io_sq_tail, m_io_cq_head, m_io_cq_phase,
    sq_doorbell, cq_doorbell,
    status_field,   \* the completion taken by the polling loop
    ret,            \* what the last call returned
    buffer,         \* the caller's memory that dptr[0] points to
    req,            \* the arguments of the current or last call
    issued,         \* history: number of the current or last command
    dev_sq_head, dev_cq_tail, dev_phase,
    inflight,       \* commands the device has fetched and not executed
    executed,       \* completions the device has not posted yet
    media

drvVars == <<pc, m_io_sq, m_io_sq_tail, m_io_cq_head, m_io_cq_phase,
             sq_doorbell, cq_doorbell, status_field, ret, req, issued>>
devVars == <<m_io_cq, dev_sq_head, dev_cq_tail, dev_phase, inflight, executed>>
vars == <<drvVars, devVars, buffer, media>>

\* (i + 1) % 64
SuccNoWrap(i) == i + 1          \* mutant: the index runs off the ring
Succ(i) == (i + 1) % QueueDepth

\* The phase of the current pass once the index has come to i.
Flip(i, phase) == IF i = 0 THEN 1 - phase ELSE phase

TypeOK ==
    /\ pc \in {"ready", "filled", "polling", "consumed"}
    /\ m_io_sq \in [Slots -> Commands]
    /\ m_io_cq \in [Slots -> Completions]
    /\ m_io_sq_tail \in Slots
    /\ m_io_cq_head \in Slots
    /\ m_io_cq_phase \in {0, 1}
    /\ sq_doorbell \in Slots
    /\ cq_doorbell \in Slots
    /\ status_field \in Completions
    /\ ret \in {"Success", "Generic_Error"}
    /\ buffer \in Values
    /\ req \in Requests
    /\ issued \in Tags
    /\ dev_sq_head \in Slots
    /\ dev_cq_tail \in Slots
    /\ dev_phase \in {0, 1}
    /\ inflight \subseteq Commands
    /\ executed \subseteq Completions
    /\ media \in [LBAs -> Values]

\* The zeroed queue memory, the indices of nvme.hpp and a device that has just
\* been given the two rings by create_io_queues.
ZeroSqe == [opc |-> "flush", lba |-> 0, cid |-> 0, tag |-> 0]
ZeroCqe == [phase |-> 0, ok |-> TRUE, cid |-> 0, tag |-> 0]

Init ==
    /\ pc = "ready"
    /\ m_io_sq = [s \in Slots |-> ZeroSqe]
    /\ m_io_cq = [s \in Slots |-> ZeroCqe]
    /\ m_io_sq_tail = 0 /\ m_io_cq_head = 0 /\ m_io_cq_phase = 1
    /\ sq_doorbell = 0 /\ cq_doorbell = 0
    /\ status_field = ZeroCqe
    /\ ret = "Success"
    /\ buffer \in Values
    /\ req \in Requests
    /\ issued = 0
    /\ dev_sq_head = 0 /\ dev_cq_tail = 0 /\ dev_phase = 1
    /\ inflight = {} /\ executed = {}
    /\ media \in [LBAs -> Values]

-----------------------------------------------------------------------------
(* The driver *)

\* Both calls begin by building the command in the slot at the tail.
FillSlot(opc, lba) ==
    /\ pc = "ready"
    /\ issued' = (issued + 1) % TagSpace
    /\ m_io_sq' = [m_io_sq EXCEPT ![m_io_sq_tail] =
                     [opc |-> opc, lba |-> lba, cid |-> m_io_sq_tail, tag |-> issued']]
    /\ req' = [opc |-> opc, lba |-> lba]
    /\ pc' = "filled"
    /\ UNCHANGED <<m_io_sq_tail, m_io_cq_head, m_io_cq_phase, sq_doorbell,
                   cq_doorbell, status_field, ret, devVars, media>>

Read(lba) == FillSlot("read", lba) /\ UNCHANGED buffer

\* The caller has put v in the buffer that src_phys names.
Write(lba, v) == FillSlot("write", lba) /\ buffer' = v

RingSqDoorbell ==
    /\ pc = "filled"
    /\ m_io_sq_tail' = Succ(m_io_sq_tail)
    /\ sq_doorbell' = m_io_sq_tail'
    /\ pc' = "polling"
    /\ UNCHANGED <<m_io_sq, m_io_cq_head, m_io_cq_phase, cq_doorbell,
                   status_field, ret, req, issued, devVars, buffer, media>>

\* The completion at the head is one of this pass over the ring.
AnyCqe == TRUE                  \* mutant: whatever the slot holds is the answer
CqeReady == m_io_cq[m_io_cq_head].phase = m_io_cq_phase

\* The phase expected of the next completion, head being its slot.
PhaseKept(head) == m_io_cq_phase   \* mutant: no flip when the ring wraps
PhaseAt(head) == Flip(head, m_io_cq_phase)

\* An iteration of the polling loop that leaves it; the others change nothing.
Consume ==
    /\ pc = "polling"
    /\ CqeReady
    /\ status_field' = m_io_cq[m_io_cq_head]
    /\ m_io_cq_head' = Succ(m_io_cq_head)
    /\ m_io_cq_phase' = PhaseAt(m_io_cq_head')
    /\ pc' = "consumed"
    /\ UNCHANGED <<m_io_sq, m_io_sq_tail, sq_doorbell, cq_doorbell, ret, req,
                   issued, devVars, buffer, media>>

DoorbellLost == cq_doorbell     \* mutant: the doorbell is not rung
CqDoorbellValue == m_io_cq_head

AlwaysSuccess == "Success"      \* mutant: the status is logged, not returned
Result == IF status_field.ok THEN "Success" ELSE "Generic_Error"

RingCqDoorbell ==
    /\ pc = "consumed"
    /\ cq_doorbell' = CqDoorbellValue
    /\ ret' = Result
    /\ pc' = "ready"
    /\ UNCHANGED <<m_io_sq, m_io_sq_tail, m_io_cq_head, m_io_cq_phase,
                   sq_doorbell, status_field, req, issued, devVars, buffer, media>>

-----------------------------------------------------------------------------
(* The device, external to the repository *)

DevFetch ==
    /\ dev_sq_head # sq_doorbell
    /\ inflight' = inflight \cup {m_io_sq[dev_sq_head]}
    /\ dev_sq_head' = Succ(dev_sq_head)
    /\ UNCHANGED <<m_io_cq, dev_cq_tail, dev_phase, executed, drvVars, buffer, media>>

\* The data of a command that succeeds moves; one that fails may have left a
\* write on the medium, or anything in the buffer of a read.
Transfer(c, ok) ==
    /\ media' \in (IF c.opc = "write" THEN {[media EXCEPT ![c.lba] = buffer]} ELSE {media})
                   \cup (IF ok THEN {} ELSE {media})
    /\ buffer' \in (IF c.opc # "read" THEN {buffer}
                    ELSE IF ok THEN {media[c.lba]} ELSE Values)

DevExecute(c, ok) ==
    /\ Transfer(c, ok)
    /\ inflight' = inflight \ {c}
    /\ executed' = executed \cup {[phase |-> 0, ok |-> ok, cid |-> c.cid, tag |-> c.tag]}
    /\ UNCHANGED <<m_io_cq, dev_sq_head, dev_cq_tail, dev_phase, drvVars>>

DevPost(e) ==
    /\ Succ(dev_cq_tail) # cq_doorbell
    /\ m_io_cq' = [m_io_cq EXCEPT ![dev_cq_tail] = [e EXCEPT !.phase = dev_phase]]
    /\ dev_cq_tail' = Succ(dev_cq_tail)
    /\ dev_phase' = Flip(dev_cq_tail', dev_phase)
    /\ executed' = executed \ {e}
    /\ UNCHANGED <<dev_sq_head, inflight, drvVars, buffer, media>>

-----------------------------------------------------------------------------
Call == \E lba \in LBAs : Read(lba) \/ \E v \in Values : Write(lba, v)
Execute == \E c \in inflight, ok \in BOOLEAN : DevExecute(c, ok)
Post == \E e \in executed : DevPost(e)

Next ==
    \/ Call
    \/ RingSqDoorbell
    \/ Consume
    \/ RingCqDoorbell
    \/ DevFetch
    \/ Execute
    \/ Post

\* The driver's thread is the only one and interrupts are off: what it can do
\* next it does.  A device that works takes, serves and posts what it was given.
Fairness ==
    /\ WF_vars(RingSqDoorbell \/ Consume \/ RingCqDoorbell)
    /\ WF_vars(DevFetch)
    /\ WF_vars(Execute)
    /\ WF_vars(Post)

Spec == Init /\ [][Next]_vars
FairSpec == Spec /\ Fairness

-----------------------------------------------------------------------------
(* Properties *)

\* The completion that read and write take for the answer belongs to the
\* command they issued, although they never compare its command identifier.
OwnCompletion ==
    pc = "consumed" =>
        /\ status_field.tag = issued
        /\ m_io_sq[status_field.cid].tag = issued

\* When a call has returned, the device holds nothing that could still move
\* data: the caller may reuse or free the buffer.
NoDmaAfterReturn ==
    pc = "ready" => inflight = {} /\ executed = {} /\ dev_sq_head = sq_doorbell

\* Every call comes back.
CallReturns == pc # "ready" ~> pc = "ready"

\* The calls behave as those of a synchronous block device: a call is served
\* when the device has executed its command, and until it returns.
Posted == pc = "polling" /\ dev_cq_tail # m_io_cq_head
Served == executed # {} \/ Posted \/ pc = "consumed"
PhaseOfCall == IF pc = "ready" THEN "idle" ELSE IF Served THEN "served" ELSE "busy"
OutcomeOfCall ==
    /\ \A e \in executed : e.ok
    /\ Posted => m_io_cq[m_io_cq_head].ok
    /\ pc = "consumed" => status_field.ok

Abstract == INSTANCE BlockDevice
    WITH phase <- PhaseOfCall, outcome <- OutcomeOfCall

ImplementsBlockDevice == Abstract!Spec

-----------------------------------------------------------------------------
(* The inductive invariant behind the safety properties *)

\* The phase bits split the completion ring at the device's tail: the slots
\* before it were written in this pass, the others in the one before.
PhaseBits ==
    \A s \in Slots :
        m_io_cq[s].phase = IF s < dev_cq_tail THEN dev_phase ELSE 1 - dev_phase

\* c is the command of the current call, in the slot that its cid names.
IsCurrent(c) ==
    /\ m_io_sq[c.cid] = c
    /\ c.tag = issued
    /\ c.opc = req.opc
    /\ c.lba = req.lba

\* e completes it.
Completes(e) == e.tag = issued /\ m_io_sq[e.cid].tag = issued

CqAtHead == dev_cq_tail = m_io_cq_head /\ dev_phase = m_io_cq_phase
SqEmpty == dev_sq_head = sq_doorbell

\* Where the one outstanding command is.
AtDoorbell ==
    /\ sq_doorbell = Succ(dev_sq_head)
    /\ m_io_sq[dev_sq_head].cid = dev_sq_head
    /\ IsCurrent(m_io_sq[dev_sq_head])
    /\ inflight = {} /\ executed = {}
    /\ CqAtHead
InDevice ==
    /\ SqEmpty
    /\ \E c \in Commands : inflight = {c} /\ IsCurrent(c)
    /\ executed = {}
    /\ CqAtHead
Done ==
    /\ SqEmpty
    /\ inflight = {}
    /\ \E e \in Completions : executed = {e} /\ Completes(e)
    /\ CqAtHead
InRing ==
    /\ SqEmpty
    /\ inflight = {} /\ executed = {}
    /\ dev_cq_tail = Succ(m_io_cq_head)
    /\ dev_phase = Flip(dev_cq_tail, m_io_cq_phase)
    /\ Completes(m_io_cq[m_io_cq_head])
Quiet == SqEmpty /\ inflight = {} /\ executed = {} /\ CqAtHead

\* The rings, the doorbells and the device agree on one outstanding command.
CallInv ==
    /\ sq_doorbell = m_io_sq_tail
    /\ pc # "consumed" => cq_doorbell = m_io_cq_head
    /\ pc \in {"ready", "filled", "consumed"} => Quiet
    /\ pc = "filled" => /\ m_io_sq[m_io_sq_tail].cid = m_io_sq_tail
                        /\ IsCurrent(m_io_sq[m_io_sq_tail])
    /\ pc = "polling" => AtDoorbell \/ InDevice \/ Done \/ InRing
    /\ pc = "consumed" => Completes(status_field)

QueueInv == PhaseBits /\ CallInv
IInv == TypeOK /\ QueueInv

=============================================================================
