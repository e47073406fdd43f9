----------------------------- MODULE NvmeIoProofs -----------------------------
(***************************************************************************)
(* What NvmeIo satisfies for every depth of the rings, every medium and    *)
(* every set of block contents.                                            *)
(***************************************************************************)
EXTENDS NvmeIo, Integers, TLAPS

-----------------------------------------------------------------------------
(* The ring *)

\* The index arithmetic of nvme.cpp, (i + 1) % 64: the next slot, or slot 0
\* after the last one.
LEMMA SuccIsNextSlot ==
    ASSUME NEW i \in Slots
    PROVE  /\ Succ(i) \in Slots
           /\ Succ(i) # i
           /\ i # QueueDepth - 1 => Succ(i) = i + 1
           /\ i = QueueDepth - 1 => Succ(i) = 0
BY QueueDepthAssumption DEF Slots, Succ

\* Command numbers stay in their space.
LEMMA NextTag ==
    ASSUME NEW t \in Tags
    PROVE  (t + 1) % TagSpace \in Tags
BY QueueDepthAssumption, TagSpaceAssumption DEF Tags

\* The phase bit stays a bit.
LEMMA FlipIsBit ==
    ASSUME NEW i \in Slots, NEW p \in {0, 1}
    PROVE  Flip(i, p) \in {0, 1}
BY DEF Flip

-----------------------------------------------------------------------------
(* Type correctness *)

LEMMA ZeroesAreTyped == ZeroSqe \in Commands /\ ZeroCqe \in Completions
BY QueueDepthAssumption, LBAsAssumption, TagSpaceAssumption
   DEF ZeroSqe, ZeroCqe, Commands, Completions, Slots, Tags

LEMMA InitType == Init => TypeOK
BY ZeroesAreTyped, QueueDepthAssumption, TagSpaceAssumption
   DEF Init, TypeOK, Slots, Tags

LEMMA NextType == TypeOK /\ [Next]_vars => TypeOK'
<1> SUFFICES ASSUME TypeOK, [Next]_vars PROVE TypeOK'
  OBVIOUS
<1> USE DEF TypeOK
<1>1. CASE Call
  <2>1. PICK lba \in LBAs, opc \in {"read", "write"} : FillSlot(opc, lba)
    BY <1>1 DEF Call, Read, Write
  <2>2. buffer' \in Values
    BY <1>1 DEF Call, Read, Write
  <2>3. issued' \in Tags
    BY <2>1, NextTag DEF FillSlot
  <2>4. [opc |-> opc, lba |-> lba, cid |-> m_io_sq_tail, tag |-> issued'] \in Commands
    BY <2>3 DEF Commands
  <2> QED
    BY <2>1, <2>2, <2>3, <2>4 DEF FillSlot, Requests, devVars
<1>2. CASE RingSqDoorbell
  BY <1>2, SuccIsNextSlot DEF RingSqDoorbell, devVars
<1>3. CASE Consume
  BY <1>3, SuccIsNextSlot, FlipIsBit DEF Consume, PhaseAt, devVars
<1>4. CASE RingCqDoorbell
  BY <1>4 DEF RingCqDoorbell, CqDoorbellValue, Result, devVars
<1>5. CASE DevFetch
  BY <1>5, SuccIsNextSlot DEF DevFetch, drvVars
<1>6. CASE Execute
  <2>1. PICK c \in inflight, ok \in BOOLEAN : DevExecute(c, ok)
    BY <1>6 DEF Execute
  <2>2. c \in Commands
    OBVIOUS
  <2>3. [phase |-> 0, ok |-> ok, cid |-> c.cid, tag |-> c.tag] \in Completions
    BY <2>2 DEF Commands, Completions
  <2>4. media' \in [LBAs -> Values] /\ buffer' \in Values
    BY <2>1, <2>2 DEF DevExecute, Transfer, Commands
  <2> QED
    BY <2>1, <2>3, <2>4 DEF DevExecute, drvVars
<1>7. CASE Post
  <2>1. PICK e \in executed : DevPost(e)
    BY <1>7 DEF Post
  <2>2. [e EXCEPT !.phase = dev_phase] \in Completions
    BY DEF Completions
  <2> QED
    BY <2>1, <2>2, SuccIsNextSlot, FlipIsBit DEF DevPost, drvVars
<1>8. CASE UNCHANGED vars
  BY <1>8 DEF vars, drvVars, devVars
<1> QED
  BY <1>1, <1>2, <1>3, <1>4, <1>5, <1>6, <1>7, <1>8 DEF Next

\* Whatever the depth of the rings, every index stays inside them, every phase
\* is a bit and memory holds only well-formed entries.
THEOREM TypeCorrect == Spec => []TypeOK
BY InitType, NextType, PTL DEF Spec

-----------------------------------------------------------------------------
(* The queue invariant *)

LEMMA InitQueue == Init => QueueInv
<1> SUFFICES ASSUME Init PROVE QueueInv
  OBVIOUS
<1>1. PhaseBits
  BY QueueDepthAssumption DEF Init, PhaseBits, ZeroCqe, Slots
<1>2. CallInv
  BY DEF Init, CallInv, Quiet, SqEmpty, CqAtHead
<1> QED
  BY <1>1, <1>2 DEF QueueInv

\* Posting a completion moves the border between this pass and the last one
\* by one slot, and turns the roles round when it comes to the ring's end.
LEMMA PostPhaseBits ==
    ASSUME TypeOK, PhaseBits, NEW e \in executed, DevPost(e)
    PROVE  PhaseBits'
<1> USE DEF TypeOK, PhaseBits
<1>1. /\ m_io_cq' = [m_io_cq EXCEPT ![dev_cq_tail] = [e EXCEPT !.phase = dev_phase]]
      /\ dev_cq_tail' = Succ(dev_cq_tail)
      /\ dev_phase' = Flip(Succ(dev_cq_tail), dev_phase)
  BY DEF DevPost
<1>2. m_io_cq'[dev_cq_tail].phase = dev_phase
  BY <1>1 DEF Completions
<1>3. \A s \in Slots \ {dev_cq_tail} : m_io_cq'[s] = m_io_cq[s]
  BY <1>1
<1>4. CASE dev_cq_tail # QueueDepth - 1
  <2>1. dev_cq_tail' = dev_cq_tail + 1 /\ dev_phase' = dev_phase
    BY <1>1, <1>4, SuccIsNextSlot DEF Flip, Slots
  <2> QED
    BY <1>2, <1>3, <2>1 DEF Slots
<1>5. CASE dev_cq_tail = QueueDepth - 1
  <2>1. dev_cq_tail' = 0 /\ dev_phase' = 1 - dev_phase
    BY <1>1, <1>5, SuccIsNextSlot DEF Flip
  <2>2. dev_phase = 1 - dev_phase'
    BY <2>1
  <2>3. \A s \in Slots : ~(s < dev_cq_tail')
    BY <2>1 DEF Slots
  <2>4. \A s \in Slots : m_io_cq'[s].phase = dev_phase
    BY <1>2, <1>3, <1>5, QueueDepthAssumption DEF Slots
  <2> QED
    BY <2>2, <2>3, <2>4
<1> QED
  BY <1>4, <1>5

\* As long as the device has posted nothing new, the polling loop goes on.
LEMMA NotReadyAtHead ==
    ASSUME TypeOK, PhaseBits, CqAtHead
    PROVE  ~CqeReady
BY DEF TypeOK, PhaseBits, CqAtHead, CqeReady, Slots

LEMMA NextQueue == TypeOK /\ QueueInv /\ [Next]_vars => QueueInv'
<1> SUFFICES ASSUME TypeOK, QueueInv, [Next]_vars PROVE QueueInv'
  OBVIOUS
<1>p. PhaseBits /\ CallInv
  BY DEF QueueInv
<1>1. CASE Call
  <2>1. PICK lba \in LBAs, opc \in {"read", "write"} : FillSlot(opc, lba)
    BY <1>1 DEF Call, Read, Write
  <2>2. PhaseBits'
    BY <2>1, <1>p DEF FillSlot, PhaseBits, devVars
  <2>3. m_io_sq'[m_io_sq_tail] =
            [opc |-> opc, lba |-> lba, cid |-> m_io_sq_tail, tag |-> issued']
    BY <2>1 DEF FillSlot, TypeOK
  <2>4. CallInv'
    BY <2>1, <2>3, <1>p
       DEF FillSlot, CallInv, Quiet, SqEmpty, CqAtHead, IsCurrent, devVars
  <2> QED
    BY <2>2, <2>4 DEF QueueInv
<1>2. CASE RingSqDoorbell
  <2>1. PhaseBits'
    BY <1>2, <1>p DEF RingSqDoorbell, PhaseBits, devVars
  <2>2. AtDoorbell'
    BY <1>2, <1>p DEF RingSqDoorbell, CallInv, Quiet, SqEmpty, CqAtHead,
                      AtDoorbell, IsCurrent, devVars
  <2>3. CallInv'
    BY <1>2, <1>p, <2>2 DEF RingSqDoorbell, CallInv
  <2> QED
    BY <2>1, <2>3 DEF QueueInv
<1>3. CASE Consume
  <2>1. PhaseBits'
    BY <1>3, <1>p DEF Consume, PhaseBits, devVars
  <2>2. InRing
    BY <1>3, <1>p, NotReadyAtHead DEF Consume, CallInv, AtDoorbell, InDevice, Done
  <2>3. Quiet' /\ Completes(status_field)'
    BY <1>3, <2>2 DEF Consume, InRing, Quiet, SqEmpty, CqAtHead, Completes, PhaseAt, devVars
  <2>4. CallInv'
    BY <1>3, <1>p, <2>3 DEF Consume, CallInv
  <2> QED
    BY <2>1, <2>4 DEF QueueInv
<1>4. CASE RingCqDoorbell
  <2>1. PhaseBits'
    BY <1>4, <1>p DEF RingCqDoorbell, PhaseBits, devVars
  <2>2. CallInv'
    BY <1>4, <1>p DEF RingCqDoorbell, CqDoorbellValue, CallInv, Quiet, SqEmpty,
                      CqAtHead, devVars
  <2> QED
    BY <2>1, <2>2 DEF QueueInv
<1>5. CASE DevFetch
  <2>1. PhaseBits'
    BY <1>5, <1>p DEF DevFetch, PhaseBits
  <2>2. pc = "polling" /\ AtDoorbell
    BY <1>5, <1>p DEF DevFetch, CallInv, TypeOK, Quiet, SqEmpty, InDevice, Done, InRing
  <2>3. m_io_sq[dev_sq_head] \in Commands
    BY DEF TypeOK
  <2>4. InDevice'
    BY <1>5, <2>2, <2>3 DEF DevFetch, AtDoorbell, InDevice, SqEmpty, CqAtHead,
                            IsCurrent, drvVars
  <2>5. CallInv'
    BY <1>5, <1>p, <2>2, <2>4 DEF DevFetch, CallInv, drvVars
  <2> QED
    BY <2>1, <2>5 DEF QueueInv
<1>6. CASE Execute
  <2>1. PICK c \in inflight, ok \in BOOLEAN : DevExecute(c, ok)
    BY <1>6 DEF Execute
  <2>2. PhaseBits'
    BY <2>1, <1>p DEF DevExecute, PhaseBits
  <2>3. pc = "polling" /\ InDevice
    BY <1>p DEF CallInv, TypeOK, Quiet, AtDoorbell, Done, InRing
  <2>4. c \in Commands /\ inflight = {c} /\ IsCurrent(c)
    BY <2>3 DEF InDevice
  <2> DEFINE e == [phase |-> 0, ok |-> ok, cid |-> c.cid, tag |-> c.tag]
  <2>5. e \in Completions /\ Completes(e)
    BY <2>4 DEF Completions, Commands, Completes, IsCurrent
  <2>6. executed' = {e} /\ inflight' = {}
    BY <2>1, <2>3, <2>4 DEF DevExecute, InDevice
  <2>7. Done'
    BY <2>1, <2>3, <2>5, <2>6 DEF DevExecute, InDevice, Done, SqEmpty, CqAtHead,
                                  Completes, drvVars
  <2>8. CallInv'
    BY <2>1, <1>p, <2>3, <2>7 DEF DevExecute, CallInv, drvVars
  <2> QED
    BY <2>2, <2>8 DEF QueueInv
<1>7. CASE Post
  <2>1. PICK e \in executed : DevPost(e)
    BY <1>7 DEF Post
  <2>2. PhaseBits'
    BY <2>1, <1>p, PostPhaseBits
  <2>3. pc = "polling" /\ Done
    BY <1>p DEF CallInv, TypeOK, Quiet, AtDoorbell, InDevice, InRing
  <2>4. e \in Completions /\ executed = {e} /\ Completes(e)
    BY <2>3 DEF Done
  <2>5. m_io_cq'[m_io_cq_head] = [e EXCEPT !.phase = dev_phase]
    BY <2>1, <2>3 DEF DevPost, Done, CqAtHead, TypeOK
  <2>6. Completes(m_io_cq[m_io_cq_head])'
    BY <2>1, <2>4, <2>5 DEF DevPost, Completes, Completions, drvVars
  <2>7. InRing'
    BY <2>1, <2>3, <2>4, <2>6 DEF DevPost, Done, InRing, SqEmpty, CqAtHead, drvVars
  <2>8. CallInv'
    BY <2>1, <1>p, <2>3, <2>7 DEF DevPost, CallInv, drvVars
  <2> QED
    BY <2>2, <2>8 DEF QueueInv
<1>8. CASE UNCHANGED vars
  BY <1>8, <1>p DEF vars, drvVars, devVars, QueueInv, PhaseBits, CallInv, Quiet, SqEmpty,
                    CqAtHead, AtDoorbell, InDevice, Done, InRing, IsCurrent, Completes
<1> QED
  BY <1>1, <1>2, <1>3, <1>4, <1>5, <1>6, <1>7, <1>8 DEF Next

\* The rings, the doorbells, the phase bits and the device agree, at every
\* moment, on where the one outstanding command is.
THEOREM QueueCorrect == Spec => []QueueInv
<1>1. Init => TypeOK /\ QueueInv
  BY InitType, InitQueue
<1>2. (TypeOK /\ QueueInv) /\ [Next]_vars => (TypeOK /\ QueueInv)'
  BY NextType, NextQueue
<1> QED
  BY <1>1, <1>2, PTL DEF Spec

\* The driver takes its own completion although it never looks at the command
\* identifier, for every depth of the rings and through every wrap.
THEOREM CompletionIsOwn == Spec => []OwnCompletion
<1>1. QueueInv => OwnCompletion
  BY DEF QueueInv, CallInv, Completes, OwnCompletion
<1> QED
  BY <1>1, QueueCorrect, PTL

\* A call that has returned left the device nothing to move.
THEOREM BufferIsReleased == Spec => []NoDmaAfterReturn
<1>1. QueueInv => NoDmaAfterReturn
  BY DEF QueueInv, CallInv, Quiet, SqEmpty, NoDmaAfterReturn
<1> QED
  BY <1>1, QueueCorrect, PTL

-----------------------------------------------------------------------------
(* The queue pair implements the block device *)

\* What a call looks like from above, by the place of its command.
View ==
    /\ pc = "ready" => PhaseOfCall = "idle" /\ OutcomeOfCall = TRUE
    /\ pc = "filled" => PhaseOfCall = "busy" /\ OutcomeOfCall = TRUE
    /\ pc = "polling" /\ (AtDoorbell \/ InDevice)
         => PhaseOfCall = "busy" /\ OutcomeOfCall = TRUE
    /\ pc = "polling" /\ Done
         => PhaseOfCall = "served" /\ OutcomeOfCall = (\A e \in executed : e.ok)
    /\ pc = "polling" /\ InRing
         => PhaseOfCall = "served" /\ OutcomeOfCall = m_io_cq[m_io_cq_head].ok
    /\ pc = "consumed" => PhaseOfCall = "served" /\ OutcomeOfCall = status_field.ok

LEMMA ViewOfCall == TypeOK /\ QueueInv => View
<1> SUFFICES ASSUME TypeOK, QueueInv PROVE View
  OBVIOUS
<1> USE DEF PhaseOfCall, OutcomeOfCall, Served, Posted, CqAtHead
<1>1. pc \in {"ready", "filled", "consumed"} => Quiet
  BY DEF QueueInv, CallInv
<1>2. pc = "ready" => PhaseOfCall = "idle" /\ OutcomeOfCall = TRUE
  BY <1>1 DEF Quiet
<1>3. pc = "filled" => PhaseOfCall = "busy" /\ OutcomeOfCall = TRUE
  BY <1>1 DEF Quiet
<1>4. pc = "polling" /\ (AtDoorbell \/ InDevice)
        => PhaseOfCall = "busy" /\ OutcomeOfCall = TRUE
  BY DEF AtDoorbell, InDevice
<1>5. pc = "polling" /\ Done
        => PhaseOfCall = "served" /\ OutcomeOfCall = (\A e \in executed : e.ok)
  BY DEF Done
<1>6. pc = "polling" /\ InRing
        => PhaseOfCall = "served" /\ OutcomeOfCall = m_io_cq[m_io_cq_head].ok
  <2>1. m_io_cq[m_io_cq_head].ok \in BOOLEAN
    BY DEF TypeOK, Completions
  <2>2. InRing => dev_cq_tail # m_io_cq_head
    BY SuccIsNextSlot DEF InRing, TypeOK
  <2> QED
    BY <2>1, <2>2 DEF InRing
<1>7. pc = "consumed" => PhaseOfCall = "served" /\ OutcomeOfCall = status_field.ok
  <2>1. status_field.ok \in BOOLEAN
    BY DEF TypeOK, Completions
  <2> QED
    BY <1>1, <2>1 DEF Quiet
<1> QED
  BY <1>2, <1>3, <1>4, <1>5, <1>6, <1>7 DEF View

LEMMA InitImplements == Init => Abstract!Init
<1> SUFFICES ASSUME Init PROVE Abstract!Init
  OBVIOUS
<1>1. PhaseOfCall = "idle" /\ OutcomeOfCall = TRUE
  BY InitType, InitQueue, ViewOfCall DEF Init, View
<1> QED
  BY <1>1 DEF Init, Requests, Abstract!Init, Abstract!Requests

LEMMA StepImplements ==
    IInv /\ View /\ IInv' /\ View' /\ [Next]_vars => [Abstract!Next]_Abstract!vars
<1> SUFFICES ASSUME IInv, View, IInv', View', [Next]_vars
             PROVE  [Abstract!Next]_Abstract!vars
  OBVIOUS
<1>p. TypeOK /\ TypeOK' /\ CallInv /\ CallInv'
  BY DEF IInv, QueueInv
<1>1. CASE Call
  <2>1. PICK lba \in LBAs, opc \in {"read", "write"} : FillSlot(opc, lba)
    BY <1>1 DEF Call, Read, Write
  <2>2. PhaseOfCall = "idle" /\ OutcomeOfCall = TRUE
    BY <2>1 DEF FillSlot, View
  <2>3. PhaseOfCall' = "busy" /\ OutcomeOfCall' = TRUE
    BY <2>1 DEF FillSlot, View
  <2>4. req' \in Abstract!Requests /\ buffer' \in Values
    BY <1>p DEF TypeOK, Requests, Abstract!Requests
  <2>5. Abstract!Call(req', buffer')
    BY <2>1, <2>2, <2>3 DEF FillSlot, Abstract!Call
  <2> QED
    BY <2>4, <2>5 DEF Abstract!Next
<1>2. CASE RingSqDoorbell
  <2>1. PhaseOfCall = "busy" /\ OutcomeOfCall = TRUE
    BY <1>2 DEF RingSqDoorbell, View
  <2>2. pc' = "polling" /\ AtDoorbell'
    BY <1>2, <1>p DEF RingSqDoorbell, CallInv, Quiet, SqEmpty, CqAtHead,
                      AtDoorbell, IsCurrent, devVars
  <2>3. PhaseOfCall' = "busy" /\ OutcomeOfCall' = TRUE
    BY <2>2 DEF View
  <2> QED
    BY <1>2, <2>1, <2>3 DEF RingSqDoorbell, Abstract!vars
<1>3. CASE Consume
  <2>1. InRing /\ pc = "polling"
    BY <1>3, NotReadyAtHead
       DEF Consume, IInv, QueueInv, CallInv, AtDoorbell, InDevice, Done
  <2>2. PhaseOfCall = "served" /\ OutcomeOfCall = m_io_cq[m_io_cq_head].ok
    BY <2>1 DEF View
  <2>3. PhaseOfCall' = "served" /\ OutcomeOfCall' = status_field'.ok
    BY <1>3 DEF Consume, View
  <2> QED
    BY <1>3, <2>2, <2>3 DEF Consume, Abstract!vars
<1>4. CASE RingCqDoorbell
  <2>1. PhaseOfCall = "served" /\ OutcomeOfCall = status_field.ok
    BY <1>4 DEF RingCqDoorbell, View
  <2>2. PhaseOfCall' = "idle" /\ OutcomeOfCall' = TRUE
    BY <1>4 DEF RingCqDoorbell, View
  <2>3. Abstract!Return
    BY <1>4, <2>1, <2>2 DEF RingCqDoorbell, Result, Abstract!Return
  <2> QED
    BY <2>3 DEF Abstract!Next
<1>5. CASE DevFetch
  <2>1. pc = "polling" /\ AtDoorbell
    BY <1>5, <1>p DEF DevFetch, CallInv, TypeOK, Quiet, SqEmpty, InDevice, Done, InRing
  <2>2. pc' = "polling" /\ inflight' # {}
    BY <1>5, <2>1 DEF DevFetch, drvVars
  <2>3. InDevice'
    BY <1>p, <2>2 DEF CallInv, AtDoorbell, Done, InRing
  <2>4. PhaseOfCall = "busy" /\ OutcomeOfCall = TRUE
    BY <2>1 DEF View
  <2>5. PhaseOfCall' = "busy" /\ OutcomeOfCall' = TRUE
    BY <2>2, <2>3 DEF View
  <2> QED
    BY <1>5, <2>4, <2>5 DEF DevFetch, drvVars, Abstract!vars
<1>6. CASE Execute
  <2>1. PICK c \in inflight, ok \in BOOLEAN : DevExecute(c, ok)
    BY <1>6 DEF Execute
  <2>2. pc = "polling" /\ InDevice
    BY <1>p DEF CallInv, TypeOK, Quiet, AtDoorbell, Done, InRing
  <2>3. c.opc = req.opc /\ c.lba = req.lba
    BY <2>2 DEF InDevice, IsCurrent
  <2>4. pc' = "polling" /\ executed' # {}
    BY <2>1, <2>2 DEF DevExecute, drvVars
  <2>5. Done'
    BY <1>p, <2>4 DEF CallInv, AtDoorbell, InDevice, InRing
  <2>6. executed' = {[phase |-> 0, ok |-> ok, cid |-> c.cid, tag |-> c.tag]}
    BY <2>1, <2>2 DEF DevExecute, InDevice
  <2>7. PhaseOfCall = "busy"
    BY <2>2 DEF View
  <2>8. PhaseOfCall' = "served" /\ OutcomeOfCall' = ok
    <3>1. PhaseOfCall' = "served" /\ OutcomeOfCall' = (\A e \in executed' : e.ok)
      BY <2>4, <2>5 DEF View
    <3>2. (\A e \in executed' : e.ok) <=> ok
      <4> DEFINE d == [phase |-> 0, ok |-> ok, cid |-> c.cid, tag |-> c.tag]
      <4>1. d.ok = ok
        OBVIOUS
      <4> HIDE DEF d
      <4>2. executed' = {d}
        BY <2>6 DEF d
      <4> QED
        BY <4>1, <4>2
    <3> QED
      BY <3>1, <3>2
  <2>9. req.opc \in {"read", "write"}
    BY <1>p DEF TypeOK, Requests
  <2>10. Transfer(c, ok) /\ req' = req /\ ret' = ret
    BY <2>1 DEF DevExecute, drvVars
  <2>11. CASE ok
    <3>1. Abstract!Serve
      BY <2>11, <2>3, <2>7, <2>8, <2>9, <2>10 DEF Transfer, Abstract!Serve
    <3> QED
      BY <3>1 DEF Abstract!Next
  <2>12. CASE ~ok
    <3>1. Abstract!Fail
      BY <2>12, <2>3, <2>7, <2>8, <2>9, <2>10 DEF Transfer, Abstract!Fail
    <3> QED
      BY <3>1 DEF Abstract!Next
  <2> QED
    BY <2>11, <2>12
<1>7. CASE Post
  <2>1. PICK e \in executed : DevPost(e)
    BY <1>7 DEF Post
  <2>2. pc = "polling" /\ Done
    BY <1>p DEF CallInv, TypeOK, Quiet, AtDoorbell, InDevice, InRing
  <2>3. e \in Completions /\ executed = {e}
    BY <2>2 DEF Done
  <2>4. m_io_cq'[m_io_cq_head].ok = e.ok
    BY <2>1, <2>2, <2>3, <1>p DEF DevPost, Done, CqAtHead, TypeOK, Completions
  <2>5. pc' = "polling" /\ InRing'
    BY <2>1, <2>2, <2>3, <1>p, SuccIsNextSlot
       DEF DevPost, CallInv, Done, AtDoorbell, InDevice, CqAtHead, TypeOK, drvVars
  <2>6. PhaseOfCall = "served" /\ OutcomeOfCall = e.ok
    <3>1. e.ok \in BOOLEAN
      BY <2>3 DEF Completions
    <3> QED
      BY <2>2, <2>3, <3>1 DEF View
  <2>7. PhaseOfCall' = "served" /\ OutcomeOfCall' = m_io_cq'[m_io_cq_head'].ok
    BY <2>5 DEF View
  <2> QED
    BY <2>1, <2>4, <2>6, <2>7 DEF DevPost, drvVars, Abstract!vars
<1>8. CASE UNCHANGED vars
  BY <1>8 DEF vars, drvVars, devVars, Abstract!vars, PhaseOfCall, OutcomeOfCall, Served, Posted
<1> QED
  BY <1>1, <1>2, <1>3, <1>4, <1>5, <1>6, <1>7, <1>8 DEF Next

\* Controller::read and Controller::write are a synchronous block device: each
\* call takes effect once, between its start and its return, on the block it
\* names, and its result is that of its own command.
THEOREM ImplementsSafely == Spec => Abstract!SafeSpec
<1>1. Spec => []IInv
  BY TypeCorrect, QueueCorrect, PTL DEF IInv
<1>2. IInv => View
  BY ViewOfCall DEF IInv
<1> QED
  BY <1>1, <1>2, InitImplements, StepImplements, PTL DEF Spec, Abstract!SafeSpec

-----------------------------------------------------------------------------
(* The addresses of a transfer *)

\* The kernel's memory and the commands that name it (Dma), for every size of
\* page and memory, and every place of the kernel image.
CONSTANTS Cells, Page, Frames, Half, Hhdm, KVirt, KPhys, Answered, Buffers
VARIABLES memory, medium, at, request, sqe, step, status, result

DMA == INSTANCE Dma
              WITH mem <- memory, req <- request, pc <- step, ret <- result

\* Every buffer is in memory from end to end; where it begins is left open.
MappedBuffers == DMA!Layout /\ \A v \in Buffers : DMA!Mapped(v)

Memory == [DMA!Addresses -> Cells]
Medium == [DMA!Sectors -> Cells]

\* While a call is on its way the command is the one built for its request.
TransferInv ==
    /\ memory \in Memory /\ medium \in Medium
    /\ at \in Buffers /\ request \in [opc : {"read", "write"}, lba : LBAs]
    /\ step \in {"idle", "submitted", "completed"} /\ status \in BOOLEAN
    /\ result \in {"Success", "Generic_Error"}
    /\ step = "submitted" =>
         sqe = DMA!Command(request.opc, DMA!virt_to_phys(at), DMA!Sector(request.lba), Page)

\* Adding whole pages leaves the place in a page as it is.
LEMMA WholePages ==
    ASSUME NEW p \in Nat \ {0}, NEW x \in Nat, NEW y \in Nat, y % p = 0
    PROVE  /\ (x + y) % p = x % p
           /\ y <= x => (x - y) % p = x % p
<1>1. PICK q \in Int, r \in 0 .. p - 1 : x = p * q + r /\ r = x % p
  <2>1. x = p * (x \div p) + (x % p) /\ x \div p \in Int /\ x % p \in 0 .. p - 1
    BY SMT
  <2> QED
    BY <2>1
<1>2. PICK m \in Int : y = p * m
  <2>1. y = p * (y \div p) /\ y \div p \in Int
    BY SMT
  <2> QED
    BY <2>1
<1>3. \A k \in Int : (p * k + r) % p = r
  BY SMT
<1>4. q + m \in Int /\ q - m \in Int
  OBVIOUS
<1>5. x + y = p * (q + m) + r /\ x - y = p * (q - m) + r
  BY <1>1, <1>2, SMT
<1>6. (p * (q + m) + r) % p = r /\ (p * (q - m) + r) % p = r
  BY <1>3, <1>4
<1> QED
  BY <1>1, <1>5, <1>6, Zenon

\* virt_to_phys agrees with the page tables; the memory that a command names for a
\* buffer is there, and no two cells of a transfer fall together.
LEMMA BufferIsThere ==
    ASSUME MappedBuffers, NEW v \in Buffers
    PROVE  /\ DMA!Translate(v) \in Nat
           /\ DMA!Translate(v) % Page = v % Page
           /\ DMA!PhysTarget(DMA!virt_to_phys(v)) = DMA!Translate(v)
           /\ DMA!Room(v) \in 1 .. Page
           /\ \A i \in 0 .. Page - 1 : /\ DMA!Translate(v + i) = DMA!Translate(v) + i
                                       /\ DMA!Translate(v + i) \in DMA!Addresses
           /\ \A i \in 0 .. Page - 1 :
                /\ DMA!Place(v, i) = IF i < DMA!Room(v) THEN DMA!Translate(v) + i ELSE i - DMA!Room(v)
                /\ DMA!Place(v, i) \in DMA!Addresses
           /\ \A i, j \in 0 .. Page - 1 : DMA!Place(v, i) = DMA!Place(v, j) => i = j
<1> DEFINE t == DMA!Translate(v)
           room == DMA!Room(v)
<1>1. /\ Page \in Nat \ {0} /\ Frames \in Nat /\ Hhdm \in Nat /\ KVirt \in Nat /\ KPhys \in Nat
      /\ Page * Frames \in Nat
      /\ Page * Frames <= Hhdm /\ Hhdm + Page * Frames <= KVirt
      /\ Hhdm % Page = 0 /\ KVirt % Page = 0 /\ KPhys % Page = 0
  BY SMT DEF MappedBuffers, DMA!Layout
<1>2. /\ v \in Nat
      /\ IF v >= KVirt THEN Answered /\ v - KVirt + KPhys + Page <= Page * Frames
         ELSE v >= Hhdm /\ v - Hhdm + Page <= Page * Frames
  BY DEF MappedBuffers, DMA!Mapped
<1>3. t \in Nat /\ t + Page <= Page * Frames
  BY <1>1, <1>2, SMT DEF DMA!Translate
<1>4. t % Page = v % Page
  <2>1. CASE v >= KVirt
    <3>1. (v - KVirt) % Page = v % Page /\ v - KVirt \in Nat
      <4>1. KVirt <= v /\ v - KVirt \in Nat
        BY <2>1, <1>1, <1>2, SMT
      <4> QED
        BY <4>1, <1>1, <1>2, WholePages
    <3>2. ((v - KVirt) + KPhys) % Page = (v - KVirt) % Page
      BY <3>1, <1>1, WholePages
    <3> QED
      BY <2>1, <3>1, <3>2 DEF DMA!Translate
  <2>2. CASE ~(v >= KVirt)
    <3>1. (v - Hhdm) % Page = v % Page
      BY <2>2, <1>1, <1>2, WholePages
    <3> QED
      BY <2>2, <3>1 DEF DMA!Translate
  <2> QED
    BY <2>1, <2>2
<1>5. DMA!virt_to_phys(v) = t /\ DMA!PhysTarget(t) = t
  BY <1>1, <1>2, <1>3, SMT DEF DMA!Translate, DMA!virt_to_phys, DMA!PhysTarget
<1>6. \A i \in 0 .. Page - 1 : DMA!Translate(v + i) = t + i
  BY <1>1, <1>2, SMT DEF DMA!Translate
<1>7. \A i \in 0 .. Page - 1 : DMA!Translate(v + i) \in DMA!Addresses
  BY <1>1, <1>3, <1>6, SMT DEF DMA!Addresses
<1>8. room \in 1 .. Page /\ Page - room <= t
  <2>1. t % Page \in 0 .. Page - 1 /\ t % Page <= t
    <3>1. \A n \in Nat : n % Page \in 0 .. Page - 1 /\ n % Page <= n
      BY <1>1, SMT
    <3> HIDE DEF t
    <3> QED
      BY <3>1, <1>3
  <2>2. room = Page - (t % Page)
    BY <1>4 DEF DMA!Room
  <2> HIDE DEF t, room
  <2> QED
    BY <2>1, <2>2, <1>1, <1>3
<1>9. \A i \in 0 .. Page - 1 : DMA!Place(v, i) = IF i < room THEN t + i ELSE i - room
  BY <1>6 DEF DMA!Place
<1> HIDE DEF t, room
<1>10. \A i \in 0 .. Page - 1 : DMA!Place(v, i) \in DMA!Addresses
  BY <1>1, <1>3, <1>8, <1>9, SMT DEF DMA!Addresses
<1>11. \A i, j \in 0 .. Page - 1 : DMA!Place(v, i) = DMA!Place(v, j) => i = j
  BY <1>1, <1>3, <1>8, <1>9, SMT
<1> QED
  BY <1>3, <1>4, <1>5, <1>6, <1>7, <1>8, <1>9, <1>10, <1>11 DEF t, room

\* For a buffer that begins at a page the memory named is the buffer.
LEMMA PageIsNamed ==
    ASSUME MappedBuffers, NEW v \in Buffers, v % Page = 0
    PROVE  DMA!Named(v) = DMA!Content(v)
<1>1. DMA!Room(v) = Page
  BY SMT DEF DMA!Room, MappedBuffers, DMA!Layout
<1>2. \A i \in 0 .. Page - 1 : DMA!Place(v, i) = DMA!Translate(v + i)
  BY <1>1, SMT DEF DMA!Place, MappedBuffers, DMA!Layout
<1> QED
  BY <1>2 DEF DMA!Named, DMA!Content

\* The two halves of a sector number make it whole again.
LEMMA HalvesJoin ==
    ASSUME NEW n \in Nat, NEW h \in Nat \ {0}, n < h * h
    PROVE  ((n \div h) % h) * h + (n % h) = n
<1>1. n \div h \in Nat /\ n = h * (n \div h) + (n % h) /\ n % h \in 0 .. h - 1
  BY SMT
<1>2. n \div h < h
  <2>1. SUFFICES ASSUME n \div h >= h PROVE FALSE
    BY <1>1, SMT
  <2> QED
    BY <2>1, <1>1, SMT
<1>3. (n \div h) % h = n \div h
  BY <1>1, <1>2, SMT
<1> QED
  BY <1>1, <1>3, SMT

\* Blocks of the file system have no sector in common.
LEMMA BlocksApart ==
    ASSUME DMA!Layout, NEW l \in LBAs, NEW k \in LBAs,
           NEW i \in 0 .. Page - 1, NEW j \in 0 .. Page - 1,
           l * Page + i = k * Page + j
    PROVE  l = k /\ i = j
<1>1. Page \in Nat /\ Page > 0 /\ l \in Nat /\ k \in Nat
  BY SMT DEF DMA!Layout
<1>2. l = (l * Page + i) \div Page /\ k = (k * Page + j) \div Page
  BY <1>1, SMT
<1> QED
  BY <1>1, <1>2, SMT

\* What the device makes of the command is what was asked for: the cells of
\* the memory named, in their order, and the sectors of the block.
LEMMA CommandExact ==
    ASSUME MappedBuffers, TransferInv, step = "submitted"
    PROVE  /\ DMA!Moved = 0 .. Page - 1
           /\ DMA!Slba = request.lba * Page
           /\ \A i \in 0 .. Page - 1 : DMA!Pointed(i) = DMA!Place(at, i)
           /\ sqe.opc = request.opc
<1>1. /\ at \in Buffers /\ request.lba \in LBAs
      /\ sqe = DMA!Command(request.opc, DMA!virt_to_phys(at), DMA!Sector(request.lba), Page)
  BY DEF TransferInv
<1>2. /\ Page \in Nat /\ Page > 0 /\ Half \in Nat \ {0} /\ Page <= 2^16
      /\ request.lba \in Nat /\ request.lba * Page < Half * Half /\ request.lba * Page \in Nat
  BY <1>1, SMT DEF MappedBuffers, DMA!Layout
<1> DEFINE t == DMA!Translate(at)
<1>3. /\ t \in Nat /\ t % Page = at % Page /\ DMA!PhysTarget(DMA!virt_to_phys(at)) = t
      /\ \A i \in 0 .. Page - 1 :
           DMA!Place(at, i) = IF i < DMA!Room(at) THEN t + i ELSE i - DMA!Room(at)
  BY <1>1, BufferIsThere
<1>4. /\ sqe.opc = request.opc /\ sqe.dptr[1] = t /\ sqe.dptr[2] = 0
      /\ sqe.cdw10 = (request.lba * Page) % Half
      /\ sqe.cdw11 = ((request.lba * Page) \div Half) % Half
      /\ sqe.cdw12 = DMA!ZeroBased(Page)
  BY <1>1, <1>3 DEF DMA!Command, DMA!Sector
<1>5. DMA!ZeroBased(Page) = Page - 1
  BY <1>2, SMT DEF DMA!ZeroBased
<1>6. DMA!Slba = request.lba * Page
  BY <1>2, <1>4, HalvesJoin DEF DMA!Slba
<1> HIDE DEF t
<1>7. \A i \in 0 .. Page - 1 : DMA!Pointed(i) = DMA!Place(at, i)
  <2>1. Page - (sqe.dptr[1] % Page) = DMA!Room(at)
    BY <1>3, <1>4 DEF DMA!Room
  <2>2. DMA!Room(at) \in Nat
    BY <1>1, <1>2, BufferIsThere
  <2> QED
    BY <2>1, <2>2, <1>2, <1>3, <1>4, SMT DEF DMA!Pointed
<1> QED
  BY <1>3, <1>4, <1>5, <1>6, <1>7 DEF DMA!Moved

\* A read fills the memory named with the block and changes no other memory.
LEMMA ReadMoves ==
    ASSUME MappedBuffers, TransferInv, DMA!Execute, request.opc = "read"
    PROVE  /\ medium' = medium /\ memory' \in Memory
           /\ \A i \in 0 .. Page - 1 : memory'[DMA!Place(at, i)] = medium[request.lba * Page + i]
           /\ \A a \in DMA!Addresses : memory'[a] # memory[a] => \E i \in 0 .. Page - 1 : a = DMA!Place(at, i)
<1>1. /\ step = "submitted" /\ at \in Buffers /\ request.lba \in LBAs
      /\ memory \in Memory /\ medium \in Medium
  BY DEF TransferInv, DMA!Execute
<1>2. Page \in Nat /\ Page > 0 /\ request.lba \in Nat
  BY <1>1, SMT DEF MappedBuffers, DMA!Layout
<1>3. /\ DMA!Moved = 0 .. Page - 1 /\ DMA!Slba = request.lba * Page
      /\ \A i \in 0 .. Page - 1 : DMA!Pointed(i) = DMA!Place(at, i)
      /\ sqe.opc = "read"
  BY <1>1, CommandExact
<1>4. /\ memory' = [a \in DMA!Addresses |->
                      IF \E i \in DMA!Moved : DMA!Pointed(i) = a
                      THEN medium[DMA!Slba + (CHOOSE i \in DMA!Moved : DMA!Pointed(i) = a)]
                      ELSE memory[a]]
      /\ medium' = medium
  BY <1>3 DEF DMA!Execute
<1>5. /\ \A i \in 0 .. Page - 1 : DMA!Place(at, i) \in DMA!Addresses
      /\ \A i, j \in 0 .. Page - 1 : DMA!Place(at, i) = DMA!Place(at, j) => i = j
  BY <1>1, BufferIsThere
<1>6. \A i \in 0 .. Page - 1 : request.lba * Page + i \in DMA!Sectors
  BY <1>1 DEF DMA!Sectors
<1>7. ASSUME NEW i \in 0 .. Page - 1
      PROVE  memory'[DMA!Place(at, i)] = medium[request.lba * Page + i]
  <2> DEFINE a == DMA!Place(at, i)
             k == CHOOSE k \in DMA!Moved : DMA!Pointed(k) = a
  <2>1. \E k0 \in DMA!Moved : DMA!Pointed(k0) = a
    BY <1>3
  <2>2. k \in 0 .. Page - 1 /\ DMA!Pointed(k) = a
    BY <2>1, <1>3
  <2>3. memory'[a] = medium[DMA!Slba + k]
    BY <1>4, <1>5, <2>1
  <2> HIDE DEF k
  <2>4. k = i
    BY <2>2, <1>3, <1>5
  <2> QED
    BY <2>3, <2>4, <1>3
<1>8. ASSUME NEW a \in DMA!Addresses
      PROVE  /\ memory'[a] \in Cells
             /\ memory'[a] # memory[a] => \E i \in 0 .. Page - 1 : a = DMA!Place(at, i)
  <2>1. CASE \E i \in DMA!Moved : DMA!Pointed(i) = a
    <3>1. PICK i \in 0 .. Page - 1 : DMA!Place(at, i) = a
      BY <2>1, <1>3
    <3>2. medium[request.lba * Page + i] \in Cells
      BY <1>1, <1>6 DEF Medium
    <3> QED
      BY <3>1, <3>2, <1>7
  <2>2. CASE ~\E i \in DMA!Moved : DMA!Pointed(i) = a
    BY <2>2, <1>1, <1>4 DEF Memory
  <2> QED
    BY <2>1, <2>2
<1>9. memory' \in Memory
  BY <1>4, <1>8 DEF Memory
<1> QED
  BY <1>4, <1>7, <1>8, <1>9

\* A write puts the memory named into the block and changes no other sector.
LEMMA WriteMoves ==
    ASSUME MappedBuffers, TransferInv, DMA!Execute, request.opc = "write"
    PROVE  /\ memory' = memory /\ medium' \in Medium
           /\ \A l \in LBAs, i \in 0 .. Page - 1 :
                medium'[l * Page + i] =
                  IF l = request.lba THEN memory[DMA!Place(at, i)] ELSE medium[l * Page + i]
<1>1. /\ step = "submitted" /\ at \in Buffers /\ request.lba \in LBAs
      /\ memory \in Memory /\ medium \in Medium
  BY DEF TransferInv, DMA!Execute
<1>2. Page \in Nat /\ Page > 0 /\ \A l \in LBAs : l \in Nat
  BY <1>1, SMT DEF MappedBuffers, DMA!Layout
<1>3. /\ DMA!Moved = 0 .. Page - 1 /\ DMA!Slba = request.lba * Page
      /\ \A i \in 0 .. Page - 1 : DMA!Pointed(i) = DMA!Place(at, i)
      /\ sqe.opc = "write"
  BY <1>1, CommandExact
<1> DEFINE In(s) == s - DMA!Slba \in DMA!Moved /\ s >= DMA!Slba
<1>4. /\ medium' = [s \in DMA!Sectors |-> IF In(s) THEN memory[DMA!Pointed(s - DMA!Slba)] ELSE medium[s]]
      /\ memory' = memory
  BY <1>3 DEF DMA!Execute
<1>5. \A i \in 0 .. Page - 1 : DMA!Place(at, i) \in DMA!Addresses
  BY <1>1, BufferIsThere
<1>6. ASSUME NEW l \in LBAs, NEW i \in 0 .. Page - 1
      PROVE  /\ medium'[l * Page + i] =
                  IF l = request.lba THEN memory[DMA!Place(at, i)] ELSE medium[l * Page + i]
             /\ medium'[l * Page + i] \in Cells
  <2> DEFINE s == l * Page + i
  <2>1. s \in DMA!Sectors
    BY DEF DMA!Sectors
  <2>2. CASE l = request.lba
    <3>1. In(s) /\ s - DMA!Slba = i
      <4>1. l * Page \in Nat
        BY <1>2, SMT
      <4> HIDE DEF In
      <4>2. s - DMA!Slba = i /\ s >= DMA!Slba
        BY <2>2, <4>1, <1>2, <1>3, SMT
      <4> QED
        BY <4>2, <1>3 DEF In
    <3> QED
      BY <3>1, <2>1, <2>2, <1>1, <1>3, <1>4, <1>5 DEF Memory
  <2>3. CASE l # request.lba
    <3>1. ~In(s)
      <4>1. SUFFICES ASSUME In(s) PROVE FALSE
        OBVIOUS
      <4> DEFINE j == s - request.lba * Page
      <4>2. j \in 0 .. Page - 1
        BY <4>1, <1>3
      <4>3. l * Page + i = request.lba * Page + j
        BY <1>1, <1>2, SMT
      <4> HIDE DEF j
      <4> QED
        BY <4>2, <4>3, <2>3, <1>1, BlocksApart DEF MappedBuffers
    <3> QED
      BY <3>1, <2>1, <2>3, <1>1, <1>4 DEF Medium
  <2> QED
    BY <2>2, <2>3
<1>7. medium' \in Medium
  <2>1. \A s \in DMA!Sectors : medium'[s] \in Cells
    BY <1>6 DEF DMA!Sectors
  <2> HIDE DEF In
  <2> QED
    BY <2>1, <1>4 DEF Medium
<1> QED
  BY <1>4, <1>6, <1>7

LEMMA TransferInit == MappedBuffers /\ DMA!Init => TransferInv
BY DEF DMA!Init, TransferInv, Memory, Medium

LEMMA TransferNext == MappedBuffers /\ TransferInv /\ [DMA!Next]_DMA!vars => TransferInv'
<1> SUFFICES ASSUME MappedBuffers, TransferInv, [DMA!Next]_DMA!vars PROVE TransferInv'
  OBVIOUS
<1>1. ASSUME NEW opc \in {"read", "write"}, NEW l \in LBAs, NEW v \in Buffers, NEW c \in DMA!Contents,
             DMA!Call(opc, l, v, c)
      PROVE  TransferInv'
  <2>1. memory' \in Memory
    <3>1. CASE opc = "read"
      BY <3>1, <1>1 DEF TransferInv, DMA!Call
    <3>2. CASE opc = "write"
      <4> DEFINE K(a) == CHOOSE i \in 0 .. Page - 1 : DMA!Translate(v + i) = a
      <4>1. memory' = [a \in DMA!Addresses |-> IF a \in DMA!Target(v) THEN c[K(a)] ELSE memory[a]]
        BY <3>2, <1>1 DEF DMA!Call
      <4>2. ASSUME NEW a \in DMA!Target(v) PROVE K(a) \in 0 .. Page - 1
        BY DEF DMA!Target
      <4> HIDE DEF K
      <4>3. \A a \in DMA!Target(v) : c[K(a)] \in Cells
        BY <4>2 DEF DMA!Contents
      <4> QED
        BY <4>1, <4>3 DEF Memory, TransferInv
    <3> QED
      BY <3>1, <3>2
  <2>2. /\ at' = v /\ step' = "submitted" /\ medium' = medium /\ status' = status /\ result' = result
        /\ request' = [opc |-> opc, lba |-> l]
        /\ sqe' = DMA!Command(opc, DMA!virt_to_phys(v), DMA!Sector(l), Page)
    BY <1>1 DEF DMA!Call
  <2>3. sqe' = DMA!Command(request'.opc, DMA!virt_to_phys(at'), DMA!Sector(request'.lba), Page)
    BY <2>2
  <2> QED
    BY <2>1, <2>2, <2>3 DEF TransferInv, Memory, Medium, DMA!Addresses, DMA!Sectors
<1>2. CASE DMA!Execute
  <2>1. memory' \in Memory /\ medium' \in Medium
    BY <1>2, ReadMoves, WriteMoves DEF TransferInv
  <2> QED
    BY <1>2, <2>1 DEF TransferInv, DMA!Execute
<1>3. CASE DMA!Refuse
  BY <1>3 DEF TransferInv, DMA!Refuse
<1>4. CASE DMA!Return
  BY <1>4 DEF TransferInv, DMA!Return
<1>5. CASE UNCHANGED DMA!vars
  BY <1>5 DEF TransferInv, DMA!vars
<1> QED
  BY <1>1, <1>2, <1>3, <1>4, <1>5 DEF DMA!Next

LEMMA TransferInvariant ==
    ASSUME MappedBuffers
    PROVE  DMA!Spec => []TransferInv
<1>1. DMA!Init => TransferInv
  BY TransferInit
<1>2. TransferInv /\ [DMA!Next]_DMA!vars => TransferInv'
  BY TransferNext
<1> QED
  BY <1>1, <1>2, PTL DEF DMA!Spec

\* While it serves a call the device writes the buffer no further than to the end of
\* the page it begins in, and of all other memory only as many cells at the start of
\* physical memory as the buffer has beyond that page: dptr[0] names the place the
\* kernel's page tables have for the buffer, wherever it begins, and the second page
\* pointer is 0.  A buffer that begins at a page loses nothing, and nothing else is hit.
THEOREM OnlyTheBufferIsWritten ==
    ASSUME MappedBuffers
    PROVE  DMA!Spec => DMA!OnlyBufferWritten
<1> DEFINE Reached(a) == \/ \E i \in 0 .. DMA!Room(at) - 1 : a = DMA!Translate(at + i)
                         \/ a < at % Page
           Kept == step = "submitted" => \A a \in DMA!Addresses : memory'[a] # memory[a] => Reached(a)
<1>1. ASSUME TransferInv, [DMA!Next]_DMA!vars PROVE [Kept]_DMA!vars
  <2> SUFFICES ASSUME step = "submitted", NEW a \in DMA!Addresses, memory'[a] # memory[a]
               PROVE  Reached(a)
    OBVIOUS
  <2>1. DMA!Execute
    BY <1>1 DEF DMA!Next, DMA!Call, DMA!Refuse, DMA!Return, DMA!vars
  <2>2. PICK i \in 0 .. Page - 1 : a = DMA!Place(at, i)
    BY <1>1, <2>1, ReadMoves, WriteMoves DEF TransferInv
  <2>3. /\ at \in Buffers /\ Page \in Nat \ {0}
    BY <1>1 DEF TransferInv, MappedBuffers, DMA!Layout
  <2>4. at \in Nat
    BY <2>3 DEF MappedBuffers, DMA!Mapped
  <2>5. CASE i < DMA!Room(at)
    <3>1. i \in 0 .. DMA!Room(at) - 1
      BY <2>3, <2>5, BufferIsThere
    <3> QED
      BY <2>2, <2>5, <3>1 DEF DMA!Place
  <2>6. CASE ~(i < DMA!Room(at))
    <3>1. a = i - (Page - (at % Page)) /\ at % Page \in 0 .. Page - 1
      BY <2>2, <2>3, <2>4, <2>6, SMT DEF DMA!Place, DMA!Room
    <3> QED
      BY <2>3, <3>1
  <2> QED
    BY <2>5, <2>6
<1> QED
  BY <1>1, TransferInvariant, PTL DEF DMA!Spec, DMA!OnlyBufferWritten

\* The memory named and the blocks of the medium have contents of a block.
LEMMA BlocksTyped ==
    ASSUME MappedBuffers, TransferInv
    PROVE  /\ DMA!Named(at) \in DMA!Contents
           /\ \A l \in LBAs : DMA!Block(l) \in DMA!Contents
<1>1. /\ memory \in Memory /\ medium \in Medium /\ at \in Buffers
  BY DEF TransferInv
<1>2. \A i \in 0 .. Page - 1 : DMA!Place(at, i) \in DMA!Addresses
  BY <1>1, BufferIsThere
<1>3. \A l \in LBAs, i \in 0 .. Page - 1 : l * Page + i \in DMA!Sectors
  BY DEF DMA!Sectors
<1> QED
  BY <1>1, <1>2, <1>3 DEF DMA!Named, DMA!Block, DMA!Contents, Memory, Medium

\* read_block and write_block keep the promise of BlockDevice through virt_to_phys
\* and the fields of the command, for buffers that begin anywhere: a call that
\* succeeds has moved exactly its block between the medium and the memory that the
\* command names, cell by cell.  That memory is the caller's buffer when it begins at
\* a page (PageIsNamed), and else the buffer only up to the end of that page.
THEOREM TransferImplementsBlockDevice ==
    ASSUME MappedBuffers
    PROVE  DMA!Spec => DMA!ImplementsBlockDevice
<1> DEFINE blocks == [l \in LBAs |-> DMA!Block(l)]
<1>1. ASSUME DMA!Init PROVE DMA!Promise!Init
  <2>1. TransferInv
    BY <1>1, TransferInit
  <2>2. blocks \in [LBAs -> DMA!Contents] /\ DMA!Named(at) \in DMA!Contents
    BY <1>1, <2>1, BlocksTyped
  <2>3. DMA!Phase = "idle" /\ request \in DMA!Promise!Requests
    BY <1>1 DEF DMA!Init, DMA!Phase, DMA!Promise!Requests
  <2> QED
    BY <1>1, <2>2, <2>3 DEF DMA!Promise!Init, DMA!Init
<1>2. ASSUME TransferInv, TransferInv', [DMA!Next]_DMA!vars
      PROVE  [DMA!Promise!Next]_DMA!Promise!vars
  <2>1. ASSUME NEW opc \in {"read", "write"}, NEW l \in LBAs, NEW v \in Buffers, NEW c \in DMA!Contents,
               DMA!Call(opc, l, v, c)
        PROVE  DMA!Promise!Next
    <3>1. /\ DMA!Phase = "idle" /\ DMA!Phase' = "busy"
          /\ request' \in DMA!Promise!Requests
          /\ status' = status /\ result' = result
      BY <2>1 DEF DMA!Call, DMA!Phase, DMA!Promise!Requests
    <3>2. blocks' = blocks
      BY <2>1 DEF DMA!Call, DMA!Block
    <3>3. DMA!Named(at)' \in DMA!Contents
      <4>1. at' = v /\ memory' \in Memory
        BY <2>1, <1>2 DEF DMA!Call, TransferInv, Memory, DMA!Addresses
      <4>2. \A i \in 0 .. Page - 1 : DMA!Place(v, i) \in DMA!Addresses
        BY BufferIsThere
      <4>3. DMA!Named(at)' = [i \in 0 .. Page - 1 |-> memory'[DMA!Place(v, i)]]
        BY <4>1 DEF DMA!Named, DMA!Place, DMA!Room, DMA!Translate
      <4> QED
        BY <4>1, <4>2, <4>3 DEF DMA!Contents, Memory
    <3>4. DMA!Promise!Call(request', DMA!Named(at)')
      BY <3>1, <3>2 DEF DMA!Promise!Call
    <3> QED
      BY <3>1, <3>3, <3>4 DEF DMA!Promise!Next
  <2>2. CASE DMA!Execute
    <3>1. /\ DMA!Phase = "busy" /\ DMA!Phase' = "served" /\ status' = TRUE
          /\ request' = request /\ result' = result /\ at' = at
      BY <2>2 DEF DMA!Execute, DMA!Phase
    <3>2. CASE request.opc = "write"
      <4>1. DMA!Named(at)' = DMA!Named(at)
        BY <1>2, <2>2, <3>1, <3>2, WriteMoves DEF DMA!Named
      <4>2. \A l \in LBAs : DMA!Block(l)' = IF l = request.lba THEN DMA!Named(at) ELSE DMA!Block(l)
        BY <1>2, <2>2, <3>2, WriteMoves DEF DMA!Block, DMA!Named
      <4>3. blocks' = [blocks EXCEPT ![request.lba] = DMA!Named(at)]
        BY <4>2
      <4> QED
        BY <3>1, <3>2, <4>1, <4>3 DEF DMA!Promise!Next, DMA!Promise!Serve
    <3>3. CASE request.opc = "read"
      <4>1. blocks' = blocks
        BY <1>2, <2>2, <3>3, ReadMoves DEF DMA!Block
      <4>2. DMA!Named(at)' = DMA!Block(request.lba)
        BY <1>2, <2>2, <3>1, <3>3, ReadMoves DEF DMA!Named, DMA!Place, DMA!Block
      <4>3. DMA!Named(at)' = blocks[request.lba]
        BY <4>2, <1>2 DEF TransferInv
      <4> QED
        BY <3>1, <3>3, <4>1, <4>3 DEF DMA!Promise!Next, DMA!Promise!Serve
    <3> QED
      BY <3>2, <3>3, <1>2 DEF TransferInv
  <2>3. CASE DMA!Refuse
    <3>1. /\ DMA!Phase = "busy" /\ DMA!Phase' = "served" /\ status' = FALSE
          /\ request' = request /\ result' = result
      BY <2>3 DEF DMA!Refuse, DMA!Phase
    <3>2. blocks' = blocks /\ DMA!Named(at)' = DMA!Named(at)
      BY <2>3 DEF DMA!Refuse, DMA!Block, DMA!Named
    <3>3. DMA!Named(at) \in DMA!Contents
      BY <1>2, BlocksTyped
    <3> QED
      BY <3>1, <3>2, <3>3 DEF DMA!Promise!Next, DMA!Promise!Fail
  <2>4. CASE DMA!Return
    <3>1. /\ DMA!Phase = "served" /\ DMA!Phase' = "idle" /\ status' = TRUE
          /\ result' = IF status THEN "Success" ELSE "Generic_Error"
          /\ request' = request
      BY <2>4 DEF DMA!Return, DMA!Phase
    <3>2. blocks' = blocks /\ DMA!Named(at)' = DMA!Named(at)
      BY <2>4 DEF DMA!Return, DMA!Block, DMA!Named
    <3> QED
      BY <3>1, <3>2 DEF DMA!Promise!Next, DMA!Promise!Return
  <2>5. CASE UNCHANGED DMA!vars
    <3>1. DMA!Phase' = DMA!Phase /\ blocks' = blocks /\ DMA!Named(at)' = DMA!Named(at)
      BY <2>5 DEF DMA!vars, DMA!Phase, DMA!Block, DMA!Named
    <3> QED
      BY <2>5, <3>1 DEF DMA!vars, DMA!Promise!vars
  <2> QED
    BY <1>2, <2>1, <2>2, <2>3, <2>4, <2>5 DEF DMA!Next
<1> QED
  BY <1>1, <1>2, TransferInvariant, PTL DEF DMA!Spec, DMA!ImplementsBlockDevice, DMA!Promise!SafeSpec

=============================================================================
