---------------------------- MODULE GaossdProofs ----------------------------
(***************************************************************************)
(* What Gaossd satisfies for every medium, every set of block contents and *)
(* every bus.                                                              *)
(***************************************************************************)
EXTENDS Gaossd, TLAPS

-----------------------------------------------------------------------------
(* The inductive invariant *)

InCall == {"submit", "process", "served", "clear", "return"}
Queued == {"process", "served", "clear"}

\* The types of what TypeOK leaves out.
Typed ==
    /\ TypeOK
    /\ bus \in [active : BOOLEAN, bar0 : BOOLEAN]
    /\ req \in [OpCode : {"read", "write"}, lba : LBAs, device_handle : {0},
                status : {"Success", "Generic_Error", "InvalidParameters"}, completed : BOOLEAN]

\* kmain's object lives from boot on, a temporary one during a write.
Lifetimes ==
    /\ kept = None <=> pc = "boot"
    /\ temp # None <=> pc \in InCall /\ req.OpCode = "write"

\* The pointer to the request is in the queue of the object that the request
\* was submitted to, and nowhere else.
Pointers ==
    /\ pc \in Queued => ssd.queue = <<"req">> /\ ssd.devices = 1
    /\ pc \notin Queued => \A object \in {kept, temp} \ {None} : object.queue = <<>>
    /\ temp # None => kept.queue = <<>>

\* An object has the device only after an init that succeeded, and once one has,
\* every object that is made has it.
Reachable ==
    /\ kept # None /\ kept.devices > 0 => m_initialized /\ bus.active /\ bus.bar0
    /\ temp # None => (temp.devices > 0 <=> m_initialized)
    /\ m_initialized => bus.active /\ bus.bar0

\* The driver works for the request of the call, and only between submit_fn and
\* its return.
DriverWorksForCall ==
    /\ pc # "served" => dphase = "idle"
    /\ dphase = "idle" => doutcome
    /\ pc = "served" => dreq = [opc |-> req.OpCode, lba |-> req.lba]
    /\ pc \in {"construct", "submit", "process", "served"} => ~req.completed
    /\ pc = "construct" => req.OpCode = "write"

GaossdInv == Typed /\ Lifetimes /\ Pointers /\ Reachable /\ DriverWorksForCall

-----------------------------------------------------------------------------
(* Steps *)

LEMMA InitInv == Init => GaossdInv
<1> SUFFICES ASSUME Init PROVE GaossdInv
  OBVIOUS
<1>1. (CHOOSE l \in LBAs : TRUE) \in LBAs
  BY GaossdAssumption
<1>2. Typed
  BY <1>1 DEF Init, Typed, TypeOK, NewRequest, Device!Init, Device!TypeOK, Device!Requests
<1> QED
  BY <1>2 DEF Init, GaossdInv, Lifetimes, Pointers, Reachable, DriverWorksForCall,
        InCall, Queued, NewRequest, Device!Init

\* The constructor makes an object that has the device iff the controller is up
\* afterwards, and formats no medium of a controller that was up before.
LEMMA ConstructMakes ==
    ASSUME Typed, Reachable, NEW object, Construct(object)
    PROVE  /\ object \in Objects /\ object.queue = <<>>
           /\ object.devices > 0 <=> m_initialized'
           /\ m_initialized => m_initialized' /\ media' = media
           /\ m_initialized' \in BOOLEAN
           /\ m_initialized' => bus.active /\ bus.bar0
           /\ m_initialized' /\ ~m_initialized => media' = Blank
           /\ media' \in [LBAs -> Values]
<1>1. Blank \in [LBAs -> Values]
  BY GaossdAssumption DEF Blank
<1>2. CASE bus.active /\ bus.bar0
  <2>1. PICK o \in InitOutcomes :
            /\ object = [devices |-> Registered(o), queue |-> <<>>]
            /\ m_initialized' = (m_initialized \/ o.up)
            /\ media' = o.media
    BY <1>2 DEF Construct
  <2>2. o.up \in BOOLEAN /\ (m_initialized => o.up /\ o.media = media)
        /\ o.media \in {media, Blank} /\ (~m_initialized /\ o.up => o.media = Blank)
    <3>1. \/ o = [up |-> TRUE, media |-> media] /\ m_initialized
          \/ o = [up |-> TRUE, media |-> Blank] /\ ~m_initialized
          \/ o = [up |-> FALSE, media |-> media] /\ ~m_initialized
          \/ o = [up |-> FALSE, media |-> Blank] /\ ~m_initialized
      BY DEF InitOutcomes
    <3>2. \/ o.up = TRUE /\ o.media = media /\ m_initialized
          \/ o.up = TRUE /\ o.media = Blank /\ ~m_initialized
          \/ o.up = FALSE /\ o.media \in {media, Blank} /\ ~m_initialized
      BY <3>1
    <3> QED
      BY <3>2, Zenon
  <2> QED
    BY <1>1, <1>2, <2>1, <2>2 DEF Registered, Objects, Typed, TypeOK, Device!TypeOK
<1>3. CASE ~(bus.active /\ bus.bar0)
  BY <1>3 DEF Construct, Objects, Typed, TypeOK, Device!TypeOK, Reachable
<1> QED
  BY <1>2, <1>3

LEMMA NoneIsNoObject == \A object \in Objects : object # None
BY GaossdAssumption

\* Every step keeps the invariant: one case for each action.
LEMMA NextInv == GaossdInv /\ [Next]_vars => GaossdInv'
<1> SUFFICES ASSUME GaossdInv, [Next]_vars PROVE GaossdInv'
  OBVIOUS
<1> USE NoneIsNoObject
<1> USE DEF GaossdInv, Lifetimes, Pointers, Reachable, DriverWorksForCall, InCall, Queued
<1>1. CASE Boot
  <2>1. kept' \in Objects /\ kept'.queue = <<>> /\ (kept'.devices > 0 <=> m_initialized')
        /\ m_initialized' \in BOOLEAN /\ (m_initialized' => bus.active /\ bus.bar0)
        /\ media' \in [LBAs -> Values]
    BY <1>1, ConstructMakes DEF Boot
  <2> QED
    BY <1>1, <2>1 DEF Boot, Typed, TypeOK, Device!TypeOK, Device!Requests
<1>2. ASSUME NEW l \in LBAs, ReadBlock(l) PROVE GaossdInv'
  BY <1>2 DEF ReadBlock, NewRequest, deviceVars, Typed, TypeOK, Device!TypeOK, Device!Requests
<1>3. ASSUME NEW l \in LBAs, NEW v \in Values, WriteBlock(l, v) PROVE GaossdInv'
  BY <1>3 DEF WriteBlock, NewRequest, Typed, TypeOK, Device!TypeOK, Device!Requests
<1>4. CASE ConstructTemporary
  <2>1. temp' \in Objects /\ temp'.queue = <<>> /\ (temp'.devices > 0 <=> m_initialized')
        /\ m_initialized' \in BOOLEAN /\ (m_initialized' => bus.active /\ bus.bar0)
        /\ (m_initialized => m_initialized') /\ media' \in [LBAs -> Values]
    BY <1>4, ConstructMakes DEF ConstructTemporary
  <2> QED
    BY <1>4, <2>1 DEF ConstructTemporary, Typed, TypeOK, Device!TypeOK, Device!Requests
<1>5. CASE submit_request
  <2>1. pc = "submit" /\ UNCHANGED <<media, buffer, dphase, dreq, doutcome, dret,
                                     m_initialized, bus, req, ok>>
    BY <1>5 DEF submit_request, deviceVars
  <2>2. ssd \in Objects /\ ssd.queue = <<>>
    BY <2>1 DEF ssd, Typed, TypeOK
  <2>3. CASE ssd.devices = 0
    BY <1>5, <2>1, <2>2, <2>3 DEF submit_request, Typed, TypeOK, Device!TypeOK, ssd
  <2>4. CASE ssd.devices = 1
    <3>1. pc' = "process" /\ Update([ssd EXCEPT !.queue = <<"req">>])
      BY <1>5, <2>2, <2>4 DEF submit_request, Objects, Typed
    <3>2. [ssd EXCEPT !.queue = <<"req">>] \in Objects
          /\ [ssd EXCEPT !.queue = <<"req">>].queue = <<"req">>
          /\ [ssd EXCEPT !.queue = <<"req">>].devices = 1
      BY <2>2, <2>4 DEF Objects
    <3>3. CASE temp = None
      BY <2>1, <2>4, <3>1, <3>2, <3>3 DEF Update, ssd, Typed, TypeOK, Device!TypeOK
    <3>4. CASE temp # None
      BY <2>1, <2>4, <3>1, <3>2, <3>4 DEF Update, ssd, Typed, TypeOK, Device!TypeOK
    <3> QED
      BY <3>3, <3>4
  <2> QED
    BY <2>2, <2>3, <2>4 DEF Objects
<1>6. CASE process_queue
  <2>1. req.device_handle = 0 /\ ssd.devices = 1
    BY <1>6 DEF process_queue, Typed
  <2>2. Device!Call([opc |-> req.OpCode, lba |-> req.lba], buffer) /\ pc' = "served"
        /\ pc = "process" /\ UNCHANGED <<req, m_initialized, bus, kept, temp, ok>>
    BY <1>6, <2>1 DEF process_queue
  <2> QED
    BY <2>2 DEF Device!Call, ssd, Typed, TypeOK, Device!TypeOK, Device!Requests
<1>7. CASE Drive
  <2>1. pc = "served" /\ UNCHANGED <<m_initialized, bus, kept, temp, req, pc, ok>>
    BY <1>7 DEF Drive
  <2>2. Device!TypeOK' /\ (dphase' = "idle" => doutcome') /\ UNCHANGED dreq
    <3>1. CASE Device!Serve
      BY <3>1 DEF Device!Serve, Typed, TypeOK, Device!TypeOK, Device!Requests
    <3>2. CASE Device!Fail
      <4>1. [media EXCEPT ![dreq.lba] = buffer] \in [LBAs -> Values]
        BY DEF Typed, TypeOK, Device!TypeOK, Device!Requests
      <4> QED
        BY <3>2, <4>1 DEF Device!Fail, Typed, TypeOK, Device!TypeOK
    <3>3. CASE Device!Return
      BY <3>3 DEF Device!Return, Typed, TypeOK, Device!TypeOK, Device!Requests
    <3> QED
      BY <1>7, <3>1, <3>2, <3>3 DEF Drive
  <2> QED
    BY <2>1, <2>2 DEF ssd, Typed, TypeOK
<1>8. CASE Complete
  BY <1>8 DEF Complete, deviceVars, ssd, Typed, TypeOK, Device!TypeOK, Device!Requests
<1>9. CASE ClearQueue
  <2>1. pc = "clear" /\ pc' = "return" /\ UNCHANGED <<media, buffer, dphase, dreq, doutcome, dret,
                                     m_initialized, bus, req, ok>>
    BY <1>9 DEF ClearQueue, deviceVars
  <2>2. ssd \in Objects /\ ssd.devices = 1
    BY <2>1 DEF ssd, Typed, TypeOK
  <2>3. Update([ssd EXCEPT !.queue = <<>>])
    BY <1>9, <2>2 DEF ClearQueue, Cleared, Objects
  <2>4. [ssd EXCEPT !.queue = <<>>] \in Objects /\ [ssd EXCEPT !.queue = <<>>].queue = <<>>
        /\ [ssd EXCEPT !.queue = <<>>].devices = 1
    BY <2>2 DEF Objects
  <2>5. CASE temp = None
    BY <2>1, <2>2, <2>3, <2>4, <2>5 DEF Update, ssd, Typed, TypeOK, Device!TypeOK
  <2>6. CASE temp # None
    BY <2>1, <2>2, <2>3, <2>4, <2>6 DEF Update, ssd, Typed, TypeOK, Device!TypeOK
  <2> QED
    BY <2>5, <2>6
<1>10. CASE Return
  BY <1>10 DEF Return, MayReturn, Answer, deviceVars, Typed, TypeOK, Device!TypeOK
<1>11. CASE UNCHANGED vars
  BY <1>11 DEF vars, deviceVars, ssd, Typed, TypeOK, Device!TypeOK, Device!Requests
<1> QED
  BY <1>1, <1>2, <1>3, <1>4, <1>5, <1>6, <1>7, <1>8, <1>9, <1>10, <1>11 DEF Next, Steps

\* The invariant holds in every run.
LEMMA AlwaysInv == Spec => []GaossdInv
BY InitInv, NextInv, PTL DEF Spec

\* Types, for every medium and bus.
THEOREM TypeCorrect == Spec => []TypeOK
<1>1. GaossdInv => TypeOK
  BY DEF GaossdInv, Typed
<1> QED
  BY <1>1, AlwaysInv, PTL

\* No pointer to a request outlives the call of read_block or write_block whose
\* stack holds the request, for every bus and whatever init and the device do.
THEOREM QueueAlwaysDrained == Spec => []QueueDrained
<1>1. GaossdInv => QueueDrained
  BY DEF GaossdInv, Pointers, Queued, QueueDrained
<1> QED
  BY <1>1, AlwaysInv, PTL

\* Every temporary object of write_block has the device if kmain's object has it.
THEOREM WritesAlwaysReachDevice == Spec => []WritesReachDevice
<1>1. GaossdInv => WritesReachDevice
  BY DEF GaossdInv, Reachable, WritesReachDevice
<1> QED
  BY <1>1, AlwaysInv, PTL

-----------------------------------------------------------------------------
(* The refinement *)

LEMMA InitPromise == Init => Promise!Init
<1> SUFFICES ASSUME Init PROVE Promise!Init
  OBVIOUS
<1>1. Blank \in [LBAs -> Values] /\ (CHOOSE l \in LBAs : TRUE) \in LBAs
  BY GaossdAssumption DEF Blank
<1> QED
  BY <1>1 DEF Init, Promise!Init, Promise!Requests, Device!Init, NewRequest, Phase, Outcome

\* The mapped variables, before and after a step.
mediaP == IF m_initialized THEN media ELSE Blank
reqP == [opc |-> req.OpCode, lba |-> req.lba]
retP == IF ok THEN "Success" ELSE "Generic_Error"

\* Each step is a step of the block device or leaves it as it is.
LEMMA NextPromise ==
    GaossdInv /\ GaossdInv' /\ [Next]_vars => [Promise!Next]_(Promise!vars)
<1> SUFFICES ASSUME GaossdInv, GaossdInv', [Next]_vars
             PROVE  Promise!Next \/ UNCHANGED <<mediaP, buffer, Phase, reqP, Outcome, retP>>
  BY DEF Promise!vars, mediaP, reqP, retP
<1> USE DEF GaossdInv, Lifetimes, DriverWorksForCall, InCall
<1>1. CASE Boot
  <2>1. (m_initialized => m_initialized' /\ media' = media)
        /\ (m_initialized' /\ ~m_initialized => media' = Blank) /\ m_initialized' \in BOOLEAN
    BY <1>1, ConstructMakes DEF Boot
  <2>2. mediaP' = mediaP
    BY <2>1 DEF mediaP, Blank
  <2> QED
    BY <1>1, <2>2 DEF Boot, Phase, Outcome, reqP, retP
<1>2. ASSUME NEW l \in LBAs, ReadBlock(l) PROVE Promise!Call([opc |-> "read", lba |-> l], buffer)
  BY <1>2 DEF ReadBlock, NewRequest, deviceVars, Promise!Call, Phase, Outcome
<1>3. ASSUME NEW l \in LBAs, NEW v \in Values, WriteBlock(l, v)
      PROVE  Promise!Call([opc |-> "write", lba |-> l], v)
  BY <1>3 DEF WriteBlock, NewRequest, Promise!Call, Phase, Outcome
<1>4. CASE ConstructTemporary
  <2>1. (m_initialized => m_initialized' /\ media' = media)
        /\ (m_initialized' /\ ~m_initialized => media' = Blank) /\ m_initialized' \in BOOLEAN
    BY <1>4, ConstructMakes DEF ConstructTemporary
  <2>2. mediaP' = mediaP
    BY <2>1 DEF mediaP, Blank
  <2> QED
    BY <1>4, <2>2 DEF ConstructTemporary, Phase, Outcome, reqP, retP
<1>5. CASE submit_request
  <2>1. pc = "submit" /\ UNCHANGED <<mediaP, buffer, reqP, retP, req>> /\ pc' \in {"process", "return"}
    BY <1>5 DEF submit_request, deviceVars, mediaP, Blank, reqP, retP
  <2>2. CASE pc' = "process"
    BY <2>1, <2>2 DEF Phase, Outcome
  <2>3. CASE pc' = "return"
    <3>1. Promise!Fail
      BY <2>1, <2>3 DEF Promise!Fail, Phase, Outcome, mediaP, reqP, retP, Typed, TypeOK, Device!TypeOK
    <3> QED
      BY <3>1 DEF Promise!Next
  <2> QED
    BY <2>1, <2>2, <2>3
<1>6. CASE process_queue
  <2>1. req.device_handle = 0 /\ ssd.devices = 1
    BY <1>6 DEF process_queue, Typed, Pointers, Queued
  <2>2. Device!Call([opc |-> req.OpCode, lba |-> req.lba], buffer) /\ pc' = "served"
        /\ pc = "process" /\ UNCHANGED <<req, m_initialized, bus, kept, temp, ok>>
    BY <1>6, <2>1 DEF process_queue
  <2> QED
    BY <2>2 DEF Device!Call, Phase, Outcome, mediaP, Blank, reqP, retP
<1>7. CASE Drive
  <2>1. pc = "served" /\ UNCHANGED <<m_initialized, req, pc, ok>> /\ m_initialized
    BY <1>7 DEF Drive, Pointers, Reachable, Queued, ssd
  <2>2. dreq = reqP
    BY <2>1 DEF reqP
  <2>3. CASE Device!Serve
    <3>1. Promise!Serve
      BY <2>1, <2>2, <2>3 DEF Device!Serve, Promise!Serve, Phase, Outcome, mediaP, reqP, retP
    <3> QED
      BY <3>1 DEF Promise!Next
  <2>4. CASE Device!Fail
    <3>1. Promise!Fail
      BY <2>1, <2>2, <2>4 DEF Device!Fail, Promise!Fail, Phase, Outcome, mediaP, reqP, retP
    <3> QED
      BY <3>1 DEF Promise!Next
  <2>5. CASE Device!Return
    BY <2>1, <2>5 DEF Device!Return, Phase, Outcome, mediaP, Blank, reqP, retP, Typed, TypeOK, Device!TypeOK
  <2> QED
    BY <1>7, <2>3, <2>4, <2>5 DEF Drive
<1>8. CASE Complete
  BY <1>8 DEF Complete, deviceVars, Phase, Outcome, mediaP, Blank, reqP, retP, Typed
<1>9. CASE ClearQueue
  BY <1>9 DEF ClearQueue, deviceVars, Phase, Outcome, mediaP, Blank, reqP, retP
<1>10. CASE Return
  <2>1. Promise!Return
    BY <1>10 DEF Return, MayReturn, Answer, deviceVars, Promise!Return, Phase, Outcome, Typed
  <2> QED
    BY <2>1 DEF Promise!Next
<1>11. CASE UNCHANGED vars
  BY <1>11 DEF vars, deviceVars, Phase, Outcome, mediaP, Blank, reqP, retP
<1>12. ASSUME NEW l \in LBAs PROVE /\ [opc |-> "read", lba |-> l] \in Promise!Requests
                                   /\ [opc |-> "write", lba |-> l] \in Promise!Requests
  BY DEF Promise!Requests
<1>13. buffer \in Values
  BY DEF Typed, TypeOK, Device!TypeOK
<1>14. CASE \E l \in LBAs : ReadBlock(l)
  BY <1>14, <1>2, <1>12, <1>13 DEF Promise!Next
<1>15. CASE \E l \in LBAs, v \in Values : WriteBlock(l, v)
  BY <1>15, <1>3, <1>12 DEF Promise!Next
<1> QED
  BY <1>1, <1>4, <1>5, <1>6, <1>7, <1>8, <1>9, <1>10, <1>11, <1>14, <1>15 DEF Next, Steps

\* For every medium, every set of contents and every bus, read_block and
\* write_block keep the promise of a block device: success means done, no block
\* but that of the call is touched, and no constructor of gaossd formats a medium
\* that is in use.
THEOREM GaossdImplementsBlockDevice == Spec => ImplementsBlockDevice
<1>1. Spec => []GaossdInv
  BY AlwaysInv
<1> QED
  BY <1>1, InitPromise, NextPromise, PTL DEF Spec, ImplementsBlockDevice, Promise!SafeSpec

=============================================================================
