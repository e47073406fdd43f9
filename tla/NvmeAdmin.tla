------------------------------ MODULE NvmeAdmin ------------------------------
(***************************************************************************)
(* NVMe::Controller::init (src/src/PCI/nvme/nvme.cpp): reset, enabling and *)
(* the six admin commands that bring the controller up, and the calls of   *)
(* init that the kernel makes.                                             *)
(*                                                                         *)
(* Every gaossd object calls init when it is built.  kmain builds one; and *)
(* write_block of AbtrFS builds a temporary one for every block it writes, *)
(* so init is called again and again.  It returns at once when a call has  *)
(* succeeded before.  When none has, it starts over: it resets the         *)
(* controller, which forgets its queue positions, but keeps its own        *)
(* m_sq_tail, m_cq_head and m_cq_phase.  The first doorbell after that     *)
(* makes the device fetch the whole ring up to the new command, and with   *)
(* it every command of the failed attempt once more.                       *)
(*                                                                         *)
(* The device is not part of the repository; it is modelled as the driver  *)
(* uses it.  It fetches in ring order, finishes fetched commands in any    *)
(* order, and may fail any of them.                                        *)
(***************************************************************************)
EXTENDS Naturals, Sequences

CONSTANTS
    QueueDepth,     \* entries of each admin ring, 64 in nvme.hpp
    MaxCalls        \* bound: calls of init

\* The commands of init, in order.
Commands == <<"identify", "identify_namespace", "format_namespace", "namespace_attach",
              "create_io_cq", "create_io_sq">>

\* Two attempts do not go round the rings.
ASSUME AdminAssumption ==
    /\ QueueDepth \in Nat /\ QueueDepth > 2 * Len(Commands)
    /\ MaxCalls \in Nat

Slots == 0 .. QueueDepth - 1
Names == {Commands[i] : i \in 1 .. Len(Commands)}
Completions == [phase : {0, 1}, status : {"ok", "attached", "error"}]

VARIABLES
    pc, step,           \* where init is, and at which of the commands
    m_sq_tail, m_cq_head, m_cq_phase,
    m_admin_sq,         \* the names of the commands; "none" in a zeroed slot
    m_admin_cq,
    m_initialized,
    calls,
    registered,         \* kmain's own gaossd has the device
    dev,                \* the controller
    done                \* history: commands that the device has carried out

vars == <<pc, step, m_sq_tail, m_cq_head, m_cq_phase, m_admin_sq, m_admin_cq,
          m_initialized, calls, registered, dev, done>>

\* CC.EN, CSTS.RDY and CSTS.CFS; the doorbells; the device's own positions; the
\* commands it works on; and whether it has the I/O queues.
OffDevice ==
    [en |-> FALSE, rdy |-> FALSE, cfs |-> FALSE, sq_doorbell |-> 0, cq_doorbell |-> 0,
     sq_head |-> 0, cq_tail |-> 0, phase |-> 1, working |-> {}, io_cq |-> FALSE, io_sq |-> FALSE]
Devices ==
    [en : BOOLEAN, rdy : BOOLEAN, cfs : BOOLEAN, sq_doorbell : Slots, cq_doorbell : Slots,
     sq_head : Slots, cq_tail : Slots, phase : {0, 1}, working : SUBSET Slots,
     io_cq : BOOLEAN, io_sq : BOOLEAN]

\* The firmware may leave the controller enabled.
Init ==
    /\ pc = "idle" /\ step = 1
    /\ m_sq_tail = 0 /\ m_cq_head = 0 /\ m_cq_phase = 1
    /\ m_admin_sq = [s \in Slots |-> "none"]
    /\ m_admin_cq = [s \in Slots |-> [phase |-> 0, status |-> "ok"]]
    /\ m_initialized = FALSE
    /\ calls = 0
    /\ registered = FALSE
    /\ dev \in {OffDevice, [OffDevice EXCEPT !.en = TRUE, !.rdy = TRUE]}
    /\ done = {}

Succ(i) == (i + 1) % QueueDepth

-----------------------------------------------------------------------------
(* The driver *)

AlreadyUp_Never == FALSE                            \* mutant: init always starts over
AlreadyUp == m_initialized

\* gaossd::gaossd calls init.  The first call is kmain's, the second that of
\* AbtrFS::format, later ones those of write_file, which AVFS reaches only if
\* kmain's gaossd has a device.
CallInit ==
    /\ pc = "idle" /\ calls < MaxCalls
    /\ calls <= 1 \/ registered
    /\ calls' = calls + 1
    /\ IF AlreadyUp THEN UNCHANGED <<pc, step, dev>>
       ELSE /\ step' = 1
            /\ IF dev.en
               THEN pc' = "reset" /\ dev' = [OffDevice EXCEPT !.rdy = dev.rdy]
               ELSE pc' = "enable" /\ UNCHANGED dev
    /\ UNCHANGED <<m_sq_tail, m_cq_head, m_cq_phase, m_admin_sq, m_admin_cq,
                   m_initialized, registered, done>>

\* while (m_regs->csts & 0x1)
ResetDone ==
    /\ pc = "reset" /\ ~dev.rdy
    /\ pc' = "enable"
    /\ UNCHANGED <<step, m_sq_tail, m_cq_head, m_cq_phase, m_admin_sq, m_admin_cq,
                   m_initialized, calls, registered, dev, done>>

enable ==
    /\ pc = "enable"
    /\ dev' = [dev EXCEPT !.en = TRUE]
    /\ pc' = "enabling"
    /\ UNCHANGED <<step, m_sq_tail, m_cq_head, m_cq_phase, m_admin_sq, m_admin_cq,
                   m_initialized, calls, registered, done>>

EnableLoopEnds_WhenReady == dev.rdy                 \* mutant: the fatal status is not looked at
EnableLoopEnds == dev.rdy \/ dev.cfs

EnableDone ==
    /\ pc = "enabling" /\ EnableLoopEnds
    /\ pc' = IF dev.rdy THEN "submit" ELSE "idle"
    /\ UNCHANGED <<step, m_sq_tail, m_cq_head, m_cq_phase, m_admin_sq, m_admin_cq,
                   m_initialized, calls, registered, dev, done>>

\* The command is built in the slot at the tail, whose number is its cid; the
\* device sees it once the doorbell is rung.
Submit ==
    /\ pc = "submit"
    /\ m_admin_sq' = [m_admin_sq EXCEPT ![m_sq_tail] = Commands[step]]
    /\ m_sq_tail' = Succ(m_sq_tail)
    /\ dev' = [dev EXCEPT !.sq_doorbell = m_sq_tail']
    /\ pc' = "poll"
    /\ UNCHANGED <<step, m_cq_head, m_cq_phase, m_admin_cq, m_initialized, calls,
                   registered, done>>

CqeReady_Any == TRUE                                \* mutant: the phase bit is not looked at
CqeReady == m_admin_cq[m_cq_head].phase = m_cq_phase

\* check_status; and Namespace Attach may find the namespace attached.
Accepted(status) ==
    status = "ok" \/ (status = "attached" /\ Commands[step] = "namespace_attach")

NextStep_Beyond == step + 1                         \* mutant: one command too many
NextStep == IF step < Len(Commands) THEN step + 1 ELSE step

Poll ==
    LET accepted == Accepted(m_admin_cq[m_cq_head].status)
        last == step = Len(Commands)
    IN  /\ pc = "poll" /\ CqeReady
        /\ m_cq_head' = Succ(m_cq_head)
        /\ m_cq_phase' = IF m_cq_head' = 0 THEN 1 - m_cq_phase ELSE m_cq_phase
        /\ dev' = [dev EXCEPT !.cq_doorbell = m_cq_head']
        /\ pc' = IF accepted /\ ~last THEN "submit" ELSE "idle"
        /\ step' = IF accepted THEN NextStep ELSE step
        /\ m_initialized' = (accepted /\ last)
        /\ registered' = (registered \/ (accepted /\ last /\ calls = 1))
        /\ UNCHANGED <<m_sq_tail, m_admin_sq, m_admin_cq, calls, done>>

Driver == ResetDone \/ enable \/ EnableDone \/ Submit \/ Poll

-----------------------------------------------------------------------------
(* The device *)

DevUnchanged == UNCHANGED <<pc, step, m_sq_tail, m_cq_head, m_cq_phase, m_admin_sq,
                            m_initialized, calls, registered>>

DevNotReady ==
    /\ ~dev.en /\ dev.rdy
    /\ dev' = [dev EXCEPT !.rdy = FALSE]
    /\ DevUnchanged /\ UNCHANGED <<m_admin_cq, done>>

DevReady ==
    /\ dev.en /\ ~dev.rdy /\ ~dev.cfs
    /\ \/ dev' = [dev EXCEPT !.rdy = TRUE]
       \/ dev' = [dev EXCEPT !.cfs = TRUE]
    /\ DevUnchanged /\ UNCHANGED <<m_admin_cq, done>>

DevFetch ==
    /\ dev.rdy /\ dev.en /\ dev.sq_head # dev.sq_doorbell
    /\ dev' = [dev EXCEPT !.sq_head = Succ(dev.sq_head), !.working = @ \cup {dev.sq_head}]
    /\ DevUnchanged /\ UNCHANGED <<m_admin_cq, done>>

\* An I/O queue cannot be created twice, nor a submission queue without its
\* completion queue.  Anything may fail.
Outcomes(name) ==
    {"error"} \cup
    (IF \/ name = "create_io_cq" /\ dev.io_cq
        \/ name = "create_io_sq" /\ (dev.io_sq \/ ~dev.io_cq)
     THEN {}
     ELSE {"ok"}) \cup
    (IF name = "namespace_attach" THEN {"attached"} ELSE {})

DevComplete ==
    /\ dev.rdy /\ dev.en /\ Succ(dev.cq_tail) # dev.cq_doorbell
    /\ \E cid \in dev.working : \E status \in Outcomes(m_admin_sq[cid]) :
          LET name == m_admin_sq[cid]
          IN  /\ m_admin_cq' = [m_admin_cq EXCEPT ![dev.cq_tail] =
                                  [phase |-> dev.phase, status |-> status]]
              /\ dev' = [dev EXCEPT
                           !.working = @ \ {cid},
                           !.cq_tail = Succ(@),
                           !.phase = IF Succ(dev.cq_tail) = 0 THEN 1 - @ ELSE @,
                           !.io_cq = @ \/ (name = "create_io_cq" /\ status = "ok"),
                           !.io_sq = @ \/ (name = "create_io_sq" /\ status = "ok")]
              /\ done' = IF status = "error" THEN done ELSE done \cup {name}
    /\ DevUnchanged

Device == DevNotReady \/ DevReady \/ DevFetch \/ DevComplete

-----------------------------------------------------------------------------
Next == CallInit \/ Driver \/ Device

Spec == Init /\ [][Next]_vars

\* The kernel has one thread, which polls; the device makes progress.
FairSpec == Spec /\ WF_vars(Driver) /\ WF_vars(Device)

-----------------------------------------------------------------------------
(* Properties *)

TypeOK ==
    /\ pc \in {"idle", "reset", "enable", "enabling", "submit", "poll"}
    /\ step \in 1 .. Len(Commands)
    /\ m_sq_tail \in Slots /\ m_cq_head \in Slots /\ m_cq_phase \in {0, 1}
    /\ m_admin_sq \in [Slots -> Names \cup {"none"}]
    /\ m_admin_cq \in [Slots -> Completions]
    /\ m_initialized \in BOOLEAN /\ registered \in BOOLEAN
    /\ calls \in 0 .. MaxCalls
    /\ dev \in Devices
    /\ done \subseteq Names

\* Once init has returned true, every command has been carried out and the
\* controller is up with the two I/O queues; no later call of init takes them
\* away, and no failed attempt before makes an old answer look like a new one.
ReadyMeansUp ==
    m_initialized => dev.en /\ dev.rdy /\ dev.io_cq /\ dev.io_sq /\ done = Names

\* When the driver takes a completion the device has nothing left to do, even
\* if it was made to repeat the commands of a failed attempt: none of them
\* writes to memory behind the back of a later step.  The completion is the
\* last one that was posted: but for the first command of a repeated attempt,
\* it is that of the command which was submitted.
NothingOutstanding ==
    pc = "poll" /\ CqeReady =>
        /\ dev.working = {} /\ dev.sq_head = dev.sq_doorbell
        /\ dev.cq_tail = Succ(m_cq_head)

\* Every call of init returns.
InitReturns == pc # "idle" ~> pc = "idle"

=============================================================================
