--------------------------- MODULE NvmeAdminProofs ---------------------------
(***************************************************************************)
(* What Controller::init and the controller satisfy for every depth of the *)
(* admin rings that two attempts do not go round, and every number of      *)
(* calls.                                                                  *)
(***************************************************************************)
EXTENDS NvmeAdmin, FiniteSets, FiniteSetTheorems, TLAPS

-----------------------------------------------------------------------------
(* The inductive invariant *)

\* init is at work only before it has succeeded, in the first two calls.
Attempts ==
    /\ pc # "idle" => calls >= 1 /\ ~m_initialized
    /\ ~m_initialized => calls <= 2
    /\ registered => m_initialized
    /\ pc \in {"reset", "enable", "enabling"} => step = 1

\* Each attempt moves the rings by six entries at most.
Positions ==
    /\ m_cq_phase = 1 /\ dev.phase = 1
    /\ m_sq_tail = m_cq_head + (IF pc = "poll" THEN 1 ELSE 0)
    /\ m_cq_head <= 12
    /\ ~m_initialized =>
         m_cq_head <= IF pc = "idle" THEN 6 * calls ELSE 6 * (calls - 1) + step - 1

\* Between commands the device has none, and its positions are at the start of
\* the rings or where the driver is.
AtRest ==
    dev.working = {} /\ dev.sq_head = dev.sq_doorbell /\ dev.cq_tail = dev.sq_head
Fresh == AtRest /\ dev.sq_doorbell = 0 /\ ~dev.io_cq /\ ~dev.io_sq
Rest ==
    /\ pc # "poll" => AtRest /\ dev.sq_doorbell \in {0, m_sq_tail}
    /\ pc \in {"reset", "enable", "enabling"} => Fresh
    /\ pc = "submit" /\ step = 1 => Fresh
    /\ pc = "submit" /\ step > 1 => dev.sq_doorbell = m_sq_tail
    /\ pc \in {"idle", "enable"} /\ ~dev.en => Fresh /\ ~dev.rdy
    /\ pc \in {"reset", "enable"} => ~dev.en
    /\ pc = "enabling" => dev.en
    /\ pc \in {"submit", "poll"} => dev.en /\ dev.rdy

\* What is fetched and not answered is being worked on; what the device repeats
\* after a reset comes before the new command.
AtWork ==
    /\ IsFiniteSet(dev.working) /\ dev.working \subseteq 0 .. dev.sq_head - 1
    /\ dev.cq_tail + Cardinality(dev.working) = dev.sq_head
    /\ dev.sq_head <= dev.sq_doorbell
    /\ pc = "poll" => dev.sq_doorbell = m_sq_tail
    /\ pc = "poll" /\ step > 1 =>
         dev.cq_tail >= m_cq_head /\ dev.working \subseteq {m_cq_head}

\* From the driver's head on the phase bits say what was posted since the reset.
PhaseBits ==
    \A s \in Slots : s >= m_cq_head =>
        m_admin_cq[s].phase = IF s < dev.cq_tail THEN 1 ELSE 0

\* The ring: the new command behind those of the first attempt.  If identify has
\* never succeeded, nothing else was ever sent.
Ring ==
    /\ \A s \in Slots : s < m_sq_tail => m_admin_sq[s] \in Names
    /\ pc = "poll" => m_admin_sq[m_cq_head] = Commands[step]
    /\ "identify" \in done \/ \A s \in Slots : s < m_sq_tail => m_admin_sq[s] = "identify"

\* What has been achieved when a step is reached, and when its answer is there.
Accomplished ==
    /\ pc \in {"submit", "poll"} => \A i \in 1 .. step - 1 : Commands[i] \in done
    /\ pc \in {"submit", "poll"} /\ step > 5 => dev.io_cq
    /\ pc = "poll" /\ CqeReady /\ Accepted(m_admin_cq[m_cq_head].status) =>
         /\ Commands[step] \in done
         /\ step = 5 => dev.io_cq
         /\ step = 6 => dev.io_sq

AdminInv ==
    /\ TypeOK /\ Attempts /\ Positions /\ Rest /\ AtWork /\ PhaseBits /\ Ring
    /\ Accomplished /\ ReadyMeansUp

-----------------------------------------------------------------------------
(* Facts about the constants *)

LEMMA SixCommands ==
    /\ Len(Commands) = 6 /\ Names = {Commands[i] : i \in 1 .. 6}
    /\ Commands[1] = "identify" /\ Commands[2] = "identify_namespace"
    /\ Commands[3] = "format_namespace" /\ Commands[4] = "namespace_attach"
    /\ Commands[5] = "create_io_cq" /\ Commands[6] = "create_io_sq"
    /\ \A i \in 1 .. 6 : Commands[i] \in Names
<1>1. Len(Commands) = 6
  BY DEF Commands
<1> QED
  BY <1>1 DEF Commands, Names

LEMMA Depth == QueueDepth \in Nat /\ QueueDepth > 12 /\ MaxCalls \in Nat
BY AdminAssumption, SixCommands

\* Below the last entry the next one is the successor.
LEMMA SuccInside ==
    ASSUME NEW i \in Nat, i <= 11
    PROVE  Succ(i) = i + 1 /\ i \in Slots /\ i + 1 \in Slots
BY Depth DEF Succ, Slots

-----------------------------------------------------------------------------
(* Steps *)

\* A controller that is off.
LEMMA OffIsFresh ==
    /\ OffDevice \in Devices /\ OffDevice.en = FALSE /\ OffDevice.rdy = FALSE
    /\ OffDevice.working = {} /\ OffDevice.sq_head = 0 /\ OffDevice.sq_doorbell = 0
    /\ OffDevice.cq_tail = 0 /\ OffDevice.phase = 1
    /\ OffDevice.io_cq = FALSE /\ OffDevice.io_sq = FALSE
<1>1. 0 \in Slots /\ {} \in SUBSET Slots
  BY Depth DEF Slots
<1>2. OffDevice \in Devices
  BY <1>1 DEF Devices, OffDevice
<1> QED
  BY <1>2 DEF OffDevice

LEMMA InitInv == Init => AdminInv
<1> SUFFICES ASSUME Init PROVE AdminInv
  OBVIOUS
<1> USE Depth, SixCommands DEF Init
<1>1. 0 \in Slots
  BY DEF Slots
<1>2. dev \in Devices /\ Fresh /\ dev.phase = 1 /\ (~dev.en => ~dev.rdy)
  <2>1. CASE dev = OffDevice
    BY <2>1, OffIsFresh DEF Fresh, AtRest
  <2>2. CASE dev = [OffDevice EXCEPT !.en = TRUE, !.rdy = TRUE]
    BY <2>2, OffIsFresh DEF Fresh, AtRest, Devices
  <2> QED
    BY <2>1, <2>2
<1>3. TypeOK
  <2>1. [phase |-> 0, status |-> "ok"] \in Completions
    BY DEF Completions
  <2>2. m_admin_sq \in [Slots -> Names \cup {"none"}] /\ m_admin_cq \in [Slots -> Completions]
    BY <2>1
  <2>3. step \in 1 .. Len(Commands) /\ calls \in 0 .. MaxCalls /\ m_cq_phase \in {0, 1}
    OBVIOUS
  <2>4. m_initialized \in BOOLEAN /\ registered \in BOOLEAN /\ done \subseteq Names
    OBVIOUS
  <2> HIDE SixCommands
  <2> QED
    BY <1>1, <1>2, <2>2, <2>3, <2>4 DEF TypeOK
<1>4. Attempts /\ Positions /\ Rest
  BY <1>2 DEF Attempts, Positions, Rest, Fresh, AtRest
<1>5. AtWork
  <2>1. IsFiniteSet({}) /\ Cardinality({}) = 0
    BY FS_EmptySet
  <2> QED
    BY <1>2, <2>1 DEF AtWork, Fresh, AtRest
<1>6. PhaseBits
  BY <1>2 DEF PhaseBits, Fresh, AtRest, Slots
<1>7. Ring /\ Accomplished /\ ReadyMeansUp
  BY DEF Ring, Accomplished, ReadyMeansUp, Slots
<1> QED
  BY <1>3, <1>4, <1>5, <1>6, <1>7 DEF AdminInv

LEMMA CallInitInv == AdminInv /\ CallInit => AdminInv'
<1> SUFFICES ASSUME AdminInv, CallInit PROVE AdminInv'
  OBVIOUS
<1> USE Depth, SixCommands DEF AdminInv
<1>1. pc = "idle" /\ calls < MaxCalls /\ calls' = calls + 1
      /\ UNCHANGED <<m_sq_tail, m_cq_head, m_cq_phase, m_admin_sq, m_admin_cq,
                     m_initialized, registered, done>>
  BY DEF CallInit
<1>2. CASE m_initialized
  <2>1. UNCHANGED <<pc, step, dev>>
    BY <1>2 DEF CallInit, AlreadyUp
  <2>2. TypeOK' /\ Attempts' /\ Positions'
    BY <1>1, <1>2, <2>1 DEF TypeOK, Attempts, Positions
  <2>3. Rest' /\ AtWork' /\ PhaseBits'
    BY <1>1, <2>1 DEF Rest, Fresh, AtRest, AtWork, PhaseBits
  <2>4. Ring' /\ Accomplished' /\ ReadyMeansUp'
    BY <1>1, <2>1 DEF Ring, Accomplished, ReadyMeansUp
  <2> QED
    BY <2>2, <2>3, <2>4
<1>3. CASE ~m_initialized
  <2>1. calls <= 1 /\ step' = 1
    BY <1>3 DEF CallInit, AlreadyUp, Attempts
  <2>2. m_cq_head <= 6 * calls /\ m_sq_tail = m_cq_head
    BY <1>1, <1>3 DEF Positions, TypeOK, Slots
  <2>3. dev' \in Devices /\ Fresh' /\ dev'.phase = 1 /\ ~dev'.en
        /\ pc' \in {"reset", "enable"} /\ (pc' = "enable" => ~dev'.rdy)
    <3>1. CASE dev.en
      <4>1. pc' = "reset" /\ dev' = [OffDevice EXCEPT !.rdy = dev.rdy]
        BY <1>3, <3>1 DEF CallInit, AlreadyUp
      <4>2. dev.rdy \in BOOLEAN
        BY DEF TypeOK, Devices
      <4> QED
        BY <4>1, <4>2, OffIsFresh DEF Fresh, AtRest, Devices
    <3>2. CASE ~dev.en
      <4>1. pc' = "enable" /\ dev' = dev
        BY <1>3, <3>2 DEF CallInit, AlreadyUp
      <4> QED
        BY <1>1, <3>2, <4>1 DEF Rest, TypeOK, Positions, Fresh, AtRest
    <3> QED
      BY <3>1, <3>2
  <2>4. TypeOK' /\ Attempts' /\ Positions'
    BY <1>1, <1>3, <2>1, <2>2, <2>3 DEF TypeOK, Attempts, Positions
  <2>5. Rest'
    BY <1>1, <2>1, <2>3 DEF Rest, Fresh, AtRest
  <2>6. AtWork' /\ PhaseBits'
    <3>1. IsFiniteSet({}) /\ Cardinality({}) = 0
      BY FS_EmptySet
    <3>2. \A s \in Slots : s >= m_cq_head => m_admin_cq[s].phase = 0
      BY <1>1, <2>2 DEF PhaseBits, Rest, AtRest, TypeOK, Slots
    <3> QED
      BY <1>1, <2>1, <2>3, <3>1, <3>2 DEF AtWork, PhaseBits, Fresh, AtRest, Slots
  <2>7. Ring' /\ Accomplished' /\ ReadyMeansUp'
    BY <1>1, <1>3, <2>1, <2>3 DEF Ring, Accomplished, ReadyMeansUp
  <2> QED
    BY <2>4, <2>5, <2>6, <2>7
<1> QED
  BY <1>2, <1>3

LEMMA ResetDoneInv == AdminInv /\ ResetDone => AdminInv'
<1> SUFFICES ASSUME AdminInv, ResetDone PROVE AdminInv'
  OBVIOUS
<1> USE Depth, SixCommands DEF AdminInv, ResetDone
<1>1. TypeOK' /\ Attempts' /\ Positions' /\ Rest'
  BY DEF TypeOK, Attempts, Positions, Rest, Fresh, AtRest
<1>2. AtWork' /\ PhaseBits' /\ Ring' /\ Accomplished' /\ ReadyMeansUp'
  BY DEF AtWork, PhaseBits, Ring, Accomplished, ReadyMeansUp
<1> QED
  BY <1>1, <1>2

LEMMA EnableInv == AdminInv /\ enable => AdminInv'
<1> SUFFICES ASSUME AdminInv, enable PROVE AdminInv'
  OBVIOUS
<1> USE Depth, SixCommands DEF AdminInv
<1>1. /\ dev' \in Devices /\ dev'.en
      /\ \A f \in {"rdy", "cfs", "sq_doorbell", "cq_doorbell", "sq_head", "cq_tail", "phase",
                   "working", "io_cq", "io_sq"} : dev'[f] = dev[f]
  BY DEF enable, TypeOK, Devices
<1>2. TypeOK' /\ Attempts' /\ Positions'
  BY <1>1 DEF enable, TypeOK, Attempts, Positions
<1>3. Rest'
  BY <1>1 DEF enable, Rest, Fresh, AtRest
<1>4. AtWork' /\ PhaseBits' /\ Ring' /\ Accomplished' /\ ReadyMeansUp'
  BY <1>1 DEF enable, AtWork, PhaseBits, Ring, Accomplished, ReadyMeansUp, Attempts
<1> QED
  BY <1>2, <1>3, <1>4

LEMMA EnableDoneInv == AdminInv /\ EnableDone => AdminInv'
<1> SUFFICES ASSUME AdminInv, EnableDone PROVE AdminInv'
  OBVIOUS
<1> USE Depth, SixCommands DEF AdminInv, EnableDone
<1>1. TypeOK' /\ Attempts' /\ Positions'
  BY DEF TypeOK, Attempts, Positions
<1>2. Rest'
  BY DEF Rest, Fresh, AtRest, Attempts
<1>3. AtWork' /\ PhaseBits' /\ Ring' /\ Accomplished' /\ ReadyMeansUp'
  BY DEF AtWork, PhaseBits, Ring, Accomplished, ReadyMeansUp, Attempts
<1> QED
  BY <1>1, <1>2, <1>3

LEMMA SubmitInv == AdminInv /\ Submit => AdminInv'
<1> SUFFICES ASSUME AdminInv, Submit PROVE AdminInv'
  OBVIOUS
<1> USE Depth, SixCommands DEF AdminInv
<1>1. pc = "submit" /\ pc' = "poll" /\ m_sq_tail' = Succ(m_sq_tail)
      /\ m_admin_sq' = [m_admin_sq EXCEPT ![m_sq_tail] = Commands[step]]
      /\ UNCHANGED <<step, m_cq_head, m_cq_phase, m_admin_cq, m_initialized, calls,
                     registered, done>>
  BY DEF Submit
<1>2. m_sq_tail = m_cq_head /\ m_cq_head \in Nat /\ m_cq_head <= 11 /\ step \in 1 .. 6
      /\ calls \in Nat
  BY <1>1 DEF Positions, Attempts, TypeOK, Slots
<1>3. m_sq_tail' = m_cq_head + 1 /\ m_cq_head \in Slots /\ m_cq_head + 1 \in Slots
  BY <1>1, <1>2, SuccInside
<1>4. /\ dev' \in Devices /\ dev'.sq_doorbell = m_sq_tail'
      /\ dev'.en = dev.en /\ dev'.rdy = dev.rdy /\ dev'.sq_head = dev.sq_head
      /\ dev'.cq_tail = dev.cq_tail /\ dev'.phase = dev.phase /\ dev'.working = dev.working
      /\ dev'.io_cq = dev.io_cq /\ dev'.io_sq = dev.io_sq
  BY <1>3 DEF Submit, TypeOK, Devices
<1>5. Commands[step] \in Names
  BY <1>2
<1>6. TypeOK'
  BY <1>1, <1>3, <1>4, <1>5 DEF TypeOK
<1>7. Attempts' /\ Positions'
  BY <1>1, <1>2, <1>3, <1>4 DEF Attempts, Positions
<1>8. Rest'
  BY <1>1, <1>4 DEF Rest
<1>9. AtWork'
  <2>1. AtRest /\ dev.sq_doorbell \in {0, m_cq_head} /\ (step > 1 => dev.sq_doorbell = m_cq_head)
    BY <1>1, <1>2 DEF Rest
  <2> QED
    BY <1>1, <1>2, <1>3, <1>4, <2>1 DEF AtWork, AtRest
<1>10. PhaseBits'
  BY <1>1, <1>4 DEF PhaseBits
<1>11. Ring'
  <2>1. \A s \in Slots : m_admin_sq'[s] = IF s = m_cq_head THEN Commands[step] ELSE m_admin_sq[s]
    BY <1>1, <1>2 DEF TypeOK
  <2>2. \A s \in Slots : s < m_sq_tail' => s < m_sq_tail \/ s = m_cq_head
    BY <1>2, <1>3 DEF Slots
  <2>3. step > 1 => "identify" \in done
    BY <1>1, <1>2 DEF Accomplished
  <2>4. step = 1 => Commands[step] = "identify"
    OBVIOUS
  <2>5. step = 1 \/ step > 1
    BY <1>2
  <2> QED
    BY <1>1, <1>3, <1>5, <2>1, <2>2, <2>3, <2>4, <2>5 DEF Ring
<1>12. Accomplished'
  <2>1. m_admin_cq[m_cq_head].phase = 0
    BY <1>1, <1>2, <1>3 DEF PhaseBits, Rest, AtRest
  <2>2. ~CqeReady'
    BY <1>1, <2>1 DEF CqeReady, Positions
  <2> QED
    BY <1>1, <1>4, <2>2 DEF Accomplished
<1>13. ReadyMeansUp'
  BY <1>1 DEF ReadyMeansUp, Attempts
<1> QED
  BY <1>6, <1>7, <1>8, <1>9, <1>10, <1>11, <1>12, <1>13

\* When the driver finds an answer the device has nothing left to do.
LEMMA AnswerIsLast == AdminInv => NothingOutstanding
<1> SUFFICES ASSUME AdminInv, pc = "poll", CqeReady
             PROVE  /\ dev.working = {} /\ dev.sq_head = dev.sq_doorbell
                    /\ dev.cq_tail = Succ(m_cq_head)
  BY DEF NothingOutstanding
<1> USE Depth, SixCommands DEF AdminInv
<1>1. m_cq_head \in Slots /\ m_cq_head \in Nat /\ m_cq_head <= 11
      /\ dev.sq_doorbell = m_cq_head + 1
  BY DEF Positions, Attempts, TypeOK, Slots, AtWork
<1>2. m_admin_cq[m_cq_head].phase = 1
  BY DEF CqeReady, Positions
<1>3. dev.cq_tail > m_cq_head
  BY <1>1, <1>2 DEF PhaseBits
<1>4. Cardinality(dev.working) \in Nat
  BY FS_CardinalityType DEF AtWork
<1>5. dev.cq_tail \in Nat /\ dev.sq_head \in Nat
  BY DEF TypeOK, Devices, Slots
<1>6. Cardinality(dev.working) = 0 /\ dev.sq_head = m_cq_head + 1 /\ dev.cq_tail = m_cq_head + 1
  BY <1>1, <1>3, <1>4, <1>5 DEF AtWork
<1>7. dev.working = {}
  BY <1>6, FS_EmptySet DEF AtWork
<1> QED
  BY <1>1, <1>6, <1>7, SuccInside

LEMMA PollInv == AdminInv /\ Poll => AdminInv'
<1> SUFFICES ASSUME AdminInv, Poll PROVE AdminInv'
  OBVIOUS
<1> USE Depth, SixCommands DEF AdminInv
<1> DEFINE accepted == Accepted(m_admin_cq[m_cq_head].status)
           last == step = Len(Commands)
<1>1. pc = "poll" /\ CqeReady /\ m_cq_head' = Succ(m_cq_head)
      /\ m_cq_phase' = (IF m_cq_head' = 0 THEN 1 - m_cq_phase ELSE m_cq_phase)
      /\ pc' = (IF accepted /\ ~last THEN "submit" ELSE "idle")
      /\ step' = (IF accepted THEN NextStep ELSE step)
      /\ m_initialized' = (accepted /\ last)
      /\ registered' = (registered \/ (accepted /\ last /\ calls = 1))
      /\ UNCHANGED <<m_sq_tail, m_admin_sq, m_admin_cq, calls, done>>
  BY DEF Poll
<1> HIDE DEF accepted
<1>2. m_sq_tail = m_cq_head + 1 /\ m_cq_head \in Nat /\ m_cq_head <= 11 /\ step \in 1 .. 6
      /\ calls \in 1 .. 2 /\ m_cq_head <= 6 * (calls - 1) + step - 1 /\ ~m_initialized
  BY <1>1 DEF Positions, Attempts, TypeOK, Slots
<1>3. m_cq_head' = m_cq_head + 1 /\ m_cq_head' \in Slots /\ m_cq_phase' = 1
  BY <1>1, <1>2, SuccInside DEF Positions
<1>4. /\ dev' \in Devices
      /\ dev'.en = dev.en /\ dev'.rdy = dev.rdy /\ dev'.sq_head = dev.sq_head
      /\ dev'.cq_tail = dev.cq_tail /\ dev'.phase = dev.phase /\ dev'.working = dev.working
      /\ dev'.io_cq = dev.io_cq /\ dev'.io_sq = dev.io_sq /\ dev'.sq_doorbell = dev.sq_doorbell
  BY <1>3 DEF Poll, TypeOK, Devices
<1>5. dev.working = {} /\ dev.sq_head = dev.sq_doorbell /\ dev.cq_tail = m_cq_head + 1
      /\ dev.sq_doorbell = m_cq_head + 1
  BY <1>1, <1>2, <1>3, AnswerIsLast DEF NothingOutstanding, AtWork
<1>6. accepted \in BOOLEAN /\ (step' \in 1 .. 6) /\ (accepted /\ ~last => step' = step + 1)
  BY <1>1, <1>2 DEF NextStep, accepted, Accepted
<1>7. TypeOK'
  <2>1. m_initialized' \in BOOLEAN /\ registered' \in BOOLEAN
    BY <1>1, <1>6 DEF TypeOK
  <2> QED
    BY <1>1, <1>3, <1>4, <1>6, <2>1 DEF TypeOK
<1>8. Attempts' /\ Positions'
  <2>1. CASE accepted /\ ~last
    <3>1. pc' = "submit" /\ step' = step + 1 /\ ~m_initialized' /\ (registered' = registered)
      BY <1>1, <1>6, <2>1 DEF TypeOK
    <3> QED
      BY <1>1, <1>2, <1>3, <1>4, <3>1 DEF Attempts, Positions
  <2>2. CASE accepted /\ last
    <3>1. pc' = "idle" /\ m_initialized'
      BY <1>1, <2>2
    <3> QED
      BY <1>1, <1>2, <1>3, <1>4, <3>1 DEF Attempts, Positions
  <2>3. CASE ~accepted
    <3>1. pc' = "idle" /\ ~m_initialized' /\ (registered' = registered)
      BY <1>1, <2>3 DEF TypeOK
    <3> QED
      BY <1>1, <1>2, <1>3, <1>4, <3>1 DEF Attempts, Positions
  <2> QED
    BY <1>6, <2>1, <2>2, <2>3
<1>9. Rest'
  <2>1. AtRest' /\ dev'.sq_doorbell = m_sq_tail' /\ dev'.en /\ dev'.rdy
    BY <1>1, <1>2, <1>4, <1>5 DEF AtRest, Rest
  <2> QED
    BY <1>1, <1>6, <1>2, <2>1 DEF Rest
<1>10. AtWork'
  BY <1>1, <1>4, <1>5, FS_EmptySet DEF AtWork
<1>11. PhaseBits'
  BY <1>1, <1>2, <1>3, <1>4 DEF PhaseBits, Slots
<1>12. Ring'
  BY <1>1 DEF Ring
<1>13. Accomplished' /\ ReadyMeansUp'
  <2>1. accepted => Commands[step] \in done /\ (step = 5 => dev.io_cq) /\ (step = 6 => dev.io_sq)
    BY <1>1 DEF Accomplished, accepted
  <2>2. \A i \in 1 .. step - 1 : Commands[i] \in done
    BY <1>1 DEF Accomplished
  <2>3. step > 5 => dev.io_cq
    BY <1>1 DEF Accomplished
  <2>4. accepted => \A i \in 1 .. step : Commands[i] \in done
    BY <1>2, <2>1, <2>2
  <2>5. Accomplished'
    <3>1. CASE accepted /\ ~last
      BY <1>1, <1>2, <1>4, <1>6, <2>1, <2>3, <2>4, <3>1 DEF Accomplished
    <3>2. CASE ~(accepted /\ ~last)
      BY <1>1, <3>2 DEF Accomplished
    <3> QED
      BY <3>1, <3>2
  <2>6. ReadyMeansUp'
    <3> SUFFICES ASSUME accepted, last PROVE dev.en /\ dev.rdy /\ dev.io_cq /\ dev.io_sq /\ done = Names
      BY <1>1, <1>4 DEF ReadyMeansUp
    <3>1. done = Names
      BY <1>2, <2>4 DEF TypeOK
    <3> QED
      BY <1>1, <2>1, <2>3, <3>1 DEF Rest
  <2> QED
    BY <2>5, <2>6
<1> QED
  BY <1>7, <1>8, <1>9, <1>10, <1>11, <1>12, <1>13

-----------------------------------------------------------------------------
(* Steps of the device *)

LEMMA ReadinessInv == AdminInv /\ (DevNotReady \/ DevReady) => AdminInv'
<1> SUFFICES ASSUME AdminInv, DevNotReady \/ DevReady PROVE AdminInv'
  OBVIOUS
<1> USE Depth, SixCommands DEF AdminInv
<1>1. UNCHANGED <<pc, step, m_sq_tail, m_cq_head, m_cq_phase, m_admin_sq, m_admin_cq,
                  m_initialized, calls, registered, done>>
  BY DEF DevNotReady, DevReady, DevUnchanged
<1>2. /\ dev' \in Devices
      /\ dev'.en = dev.en /\ dev'.sq_head = dev.sq_head
      /\ dev'.cq_tail = dev.cq_tail /\ dev'.phase = dev.phase /\ dev'.working = dev.working
      /\ dev'.io_cq = dev.io_cq /\ dev'.io_sq = dev.io_sq /\ dev'.sq_doorbell = dev.sq_doorbell
  BY ZenonT(40) DEF DevNotReady, DevReady, TypeOK, Devices
<1>3. (dev.en => (dev.rdy => dev'.rdy)) /\ (~dev.en => ~dev'.rdy \/ dev' = dev)
  BY DEF DevNotReady, DevReady, TypeOK, Devices
<1>4. TypeOK' /\ Attempts' /\ Positions'
  BY <1>1, <1>2 DEF TypeOK, Attempts, Positions
<1>5. Rest'
  BY <1>1, <1>2, <1>3 DEF Rest, Fresh, AtRest
<1>6. AtWork' /\ PhaseBits' /\ Ring'
  BY <1>1, <1>2 DEF AtWork, PhaseBits, Ring
<1>7. Accomplished' /\ ReadyMeansUp'
  BY <1>1, <1>2, <1>3 DEF Accomplished, ReadyMeansUp, CqeReady, Accepted
<1> QED
  BY <1>4, <1>5, <1>6, <1>7

LEMMA FetchInv == AdminInv /\ DevFetch => AdminInv'
<1> SUFFICES ASSUME AdminInv, DevFetch PROVE AdminInv'
  OBVIOUS
<1> USE Depth, SixCommands DEF AdminInv
<1>1. UNCHANGED <<pc, step, m_sq_tail, m_cq_head, m_cq_phase, m_admin_sq, m_admin_cq,
                  m_initialized, calls, registered, done>>
  BY DEF DevFetch, DevUnchanged
<1>2. pc = "poll" /\ dev.sq_head # dev.sq_doorbell
  BY DEF DevFetch, Rest, AtRest
<1>3. m_sq_tail = m_cq_head + 1 /\ m_cq_head \in Nat /\ m_cq_head <= 11
      /\ dev.sq_doorbell = m_cq_head + 1 /\ dev.sq_head \in Nat /\ dev.sq_head <= m_cq_head
  BY <1>2 DEF Positions, Attempts, AtWork, TypeOK, Devices, Slots
<1>4. Succ(dev.sq_head) = dev.sq_head + 1 /\ dev.sq_head \in Slots /\ dev.sq_head + 1 \in Slots
  BY <1>3, SuccInside
<1>5. /\ dev' \in Devices
      /\ dev'.en = dev.en /\ dev'.rdy = dev.rdy /\ dev'.sq_head = dev.sq_head + 1
      /\ dev'.cq_tail = dev.cq_tail /\ dev'.phase = dev.phase
      /\ dev'.working = dev.working \cup {dev.sq_head}
      /\ dev'.io_cq = dev.io_cq /\ dev'.io_sq = dev.io_sq /\ dev'.sq_doorbell = dev.sq_doorbell
  BY <1>4 DEF DevFetch, TypeOK, Devices
<1>6. TypeOK' /\ Attempts' /\ Positions'
  BY <1>1, <1>5 DEF TypeOK, Attempts, Positions
<1>7. Rest'
  BY <1>1, <1>2, <1>5 DEF Rest
<1>8. AtWork'
  <2>1. dev.sq_head \notin dev.working
    BY <1>3 DEF AtWork
  <2>2. IsFiniteSet(dev'.working)
        /\ Cardinality(dev'.working) = Cardinality(dev.working) + 1
    BY <1>5, <2>1, FS_AddElement DEF AtWork
  <2>3. Cardinality(dev.working) \in Nat /\ dev.cq_tail \in Nat
    BY FS_CardinalityType DEF AtWork, TypeOK, Devices, Slots
  <2>4. dev'.working \subseteq 0 .. dev'.sq_head - 1
    BY <1>3, <1>5 DEF AtWork
  <2>5. step > 1 => dev.sq_head >= m_cq_head
    BY <1>2, <1>3, <2>3 DEF AtWork
  <2>6. step > 1 => dev'.working \subseteq {m_cq_head}
    BY <1>2, <1>3, <1>5, <2>5 DEF AtWork
  <2> QED
    BY <1>1, <1>2, <1>3, <1>5, <2>2, <2>3, <2>4, <2>6 DEF AtWork
<1>9. PhaseBits' /\ Ring'
  BY <1>1, <1>5 DEF PhaseBits, Ring
<1>10. Accomplished' /\ ReadyMeansUp'
  BY <1>1, <1>5 DEF Accomplished, ReadyMeansUp, CqeReady, Accepted
<1> QED
  BY <1>6, <1>7, <1>8, <1>9, <1>10

LEMMA CompleteInv == AdminInv /\ DevComplete => AdminInv'
<1> SUFFICES ASSUME AdminInv, DevComplete PROVE AdminInv'
  OBVIOUS
<1> USE Depth, SixCommands DEF AdminInv
<1>1. UNCHANGED <<pc, step, m_sq_tail, m_cq_head, m_cq_phase, m_admin_sq,
                  m_initialized, calls, registered>>
  BY DEF DevComplete, DevUnchanged
<1>2. PICK cid \in dev.working : \E status \in Outcomes(m_admin_sq[cid]) :
        /\ m_admin_cq' = [m_admin_cq EXCEPT ![dev.cq_tail] = [phase |-> dev.phase, status |-> status]]
        /\ dev' = [dev EXCEPT
                     !.working = @ \ {cid},
                     !.cq_tail = Succ(@),
                     !.phase = IF Succ(dev.cq_tail) = 0 THEN 1 - @ ELSE @,
                     !.io_cq = @ \/ (m_admin_sq[cid] = "create_io_cq" /\ status = "ok"),
                     !.io_sq = @ \/ (m_admin_sq[cid] = "create_io_sq" /\ status = "ok")]
        /\ done' = IF status = "error" THEN done ELSE done \cup {m_admin_sq[cid]}
  BY DEF DevComplete
<1> DEFINE name == m_admin_sq[cid]
<1>3. PICK status \in Outcomes(name) :
        /\ m_admin_cq' = [m_admin_cq EXCEPT ![dev.cq_tail] = [phase |-> dev.phase, status |-> status]]
        /\ dev' = [dev EXCEPT
                     !.working = @ \ {cid},
                     !.cq_tail = Succ(@),
                     !.phase = IF Succ(dev.cq_tail) = 0 THEN 1 - @ ELSE @,
                     !.io_cq = @ \/ (name = "create_io_cq" /\ status = "ok"),
                     !.io_sq = @ \/ (name = "create_io_sq" /\ status = "ok")]
        /\ done' = IF status = "error" THEN done ELSE done \cup {name}
  BY <1>2
<1>4. pc = "poll"
  BY <1>2 DEF Rest, AtRest
<1>5. m_sq_tail = m_cq_head + 1 /\ m_cq_head \in Nat /\ m_cq_head <= 11 /\ m_cq_head \in Slots
      /\ dev.sq_doorbell = m_cq_head + 1 /\ dev.sq_head \in Nat /\ dev.sq_head <= m_cq_head + 1
      /\ dev.cq_tail \in Nat /\ step \in 1 .. 6
  BY <1>4 DEF Positions, Attempts, AtWork, TypeOK, Devices, Slots
<1>6. cid \in Nat /\ cid < m_sq_tail /\ cid \in Slots
  BY <1>5 DEF AtWork, TypeOK, Devices
<1>7. /\ IsFiniteSet(dev.working \ {cid}) /\ Cardinality(dev.working) \in Nat
      /\ Cardinality(dev.working) >= 1
      /\ Cardinality(dev.working \ {cid}) = Cardinality(dev.working) - 1
  <2>1. IsFiniteSet(dev.working)
    BY DEF AtWork
  <2>2. Cardinality(dev.working) \in Nat
    BY <2>1, FS_CardinalityType
  <2>3. Cardinality(dev.working) # 0
    BY <2>1, FS_EmptySet
  <2>4. IsFiniteSet(dev.working \ {cid})
        /\ Cardinality(dev.working \ {cid}) = Cardinality(dev.working) - 1
    BY <2>1, FS_RemoveElement
  <2> QED
    BY <2>2, <2>3, <2>4
<1>8. dev.cq_tail <= m_cq_head
  BY <1>5, <1>7 DEF AtWork
<1>9. Succ(dev.cq_tail) = dev.cq_tail + 1 /\ dev.cq_tail \in Slots /\ dev.cq_tail + 1 \in Slots
  BY <1>5, <1>8, SuccInside
<1>10. status \in {"ok", "attached", "error"} /\ (status = "attached" => name = "namespace_attach")
  BY DEF Outcomes
<1>11. name \in Names
  BY <1>6 DEF Ring
<1>12. /\ dev' \in Devices
       /\ dev'.en = dev.en /\ dev'.rdy = dev.rdy /\ dev'.sq_head = dev.sq_head
       /\ dev'.cq_tail = dev.cq_tail + 1 /\ dev'.phase = 1
       /\ dev'.working = dev.working \ {cid} /\ dev'.sq_doorbell = dev.sq_doorbell
       /\ dev'.io_cq = (dev.io_cq \/ (name = "create_io_cq" /\ status = "ok"))
       /\ dev'.io_sq = (dev.io_sq \/ (name = "create_io_sq" /\ status = "ok"))
  <2> DEFINE cq == dev.io_cq \/ (name = "create_io_cq" /\ status = "ok")
             sq == dev.io_sq \/ (name = "create_io_sq" /\ status = "ok")
  <2>1. cq \in BOOLEAN /\ sq \in BOOLEAN
    BY DEF TypeOK, Devices
  <2>2. dev' = [dev EXCEPT !.working = dev.working \ {cid}, !.cq_tail = dev.cq_tail + 1,
                           !.phase = 1, !.io_cq = cq, !.io_sq = sq]
    <3>1. Succ(dev.cq_tail) # 0 /\ dev.phase = 1 /\ dev \in Devices
      BY <1>5, <1>9 DEF Positions, TypeOK
    <3> QED
      BY <1>3, <1>9, <3>1 DEF Devices
  <2> HIDE DEF cq, sq
  <2>3. dev' \in Devices /\ dev'.io_cq = cq /\ dev'.io_sq = sq
    BY <1>9, <2>1, <2>2 DEF TypeOK, Devices
  <2> QED
    BY <2>2, <2>3 DEF TypeOK, Devices, cq, sq
<1>13. \A s \in Slots : m_admin_cq'[s] = IF s = dev.cq_tail THEN [phase |-> 1, status |-> status]
                                         ELSE m_admin_cq[s]
  BY <1>3, <1>9 DEF TypeOK, Positions
<1>14. TypeOK'
  <2>1. [phase |-> dev.phase, status |-> status] \in Completions
    BY <1>10 DEF Completions, Positions
  <2>2. m_admin_cq' \in [Slots -> Completions]
    BY <1>3, <2>1 DEF TypeOK
  <2>3. done' \subseteq Names
    BY <1>3, <1>11 DEF TypeOK
  <2> HIDE SixCommands
  <2> QED
    BY <1>1, <1>12, <2>2, <2>3 DEF TypeOK
<1>15. Attempts' /\ Positions'
  BY <1>1, <1>12 DEF Attempts, Positions
<1>16. Rest'
  BY <1>1, <1>4, <1>12 DEF Rest
<1>17. AtWork'
  BY <1>1, <1>4, <1>5, <1>7, <1>12 DEF AtWork
<1>18. PhaseBits'
  <2> SUFFICES ASSUME NEW s \in Slots, s >= m_cq_head
               PROVE  m_admin_cq'[s].phase = IF s < dev.cq_tail + 1 THEN 1 ELSE 0
    BY <1>1, <1>12 DEF PhaseBits
  <2>1. CASE s = dev.cq_tail
    BY <1>5, <1>13, <2>1
  <2>2. CASE s # dev.cq_tail
    BY <1>5, <1>13, <2>2 DEF PhaseBits, Slots
  <2> QED
    BY <2>1, <2>2
<1>19. Ring'
  BY <1>1, <1>3 DEF Ring
<1>20. Accomplished'
  <2>1. done \subseteq done'
    BY <1>3
  <2>2. (dev.io_cq => dev'.io_cq) /\ (dev.io_sq => dev'.io_sq)
    BY <1>12
  <2>3. ASSUME CqeReady', Accepted(m_admin_cq[m_cq_head].status)'
        PROVE  Commands[step] \in done' /\ (step = 5 => dev'.io_cq) /\ (step = 6 => dev'.io_sq)
    <3>1. dev.cq_tail = m_cq_head
      <4>1. m_admin_cq'[m_cq_head].phase = 1
        BY <1>1, <2>3 DEF CqeReady, Positions
      <4> QED
        BY <1>1, <1>5, <1>8, <1>12, <1>18, <4>1 DEF PhaseBits
    <3>2. m_admin_cq'[m_cq_head].status = status
      BY <1>5, <1>13, <3>1
    <3>3. status = "ok" \/ (status = "attached" /\ Commands[step] = "namespace_attach")
      BY <1>1, <2>3, <3>2 DEF Accepted
    <3>4. done' = done \cup {name}
      BY <1>3, <3>3
    <3>5. CASE step = 1
      <4>1. name = "identify" \/ "identify" \in done
        BY <1>6 DEF Ring
      <4> QED
        BY <3>4, <3>5, <4>1
    <3>6. CASE step > 1
      <4>1. cid = m_cq_head
        BY <1>4, <3>6 DEF AtWork
      <4>2. name = Commands[step]
        BY <1>4, <4>1 DEF Ring
      <4> QED
        BY <1>12, <3>3, <3>4, <4>2
    <3> QED
      BY <1>5, <3>5, <3>6
  <2> QED
    BY <1>1, <2>1, <2>2, <2>3 DEF Accomplished
<1>21. ReadyMeansUp'
  BY <1>1, <1>4 DEF ReadyMeansUp, Attempts
<1> QED
  BY <1>14, <1>15, <1>16, <1>17, <1>18, <1>19, <1>20, <1>21

-----------------------------------------------------------------------------
(* Theorems *)

LEMMA NextInv == AdminInv /\ [Next]_vars => AdminInv'
<1>1. AdminInv /\ UNCHANGED vars => AdminInv'
  BY DEF vars, AdminInv, TypeOK, Attempts, Positions, Rest, Fresh, AtRest, AtWork, PhaseBits,
         Ring, Accomplished, ReadyMeansUp, CqeReady, Accepted
<1> QED
  BY <1>1, CallInitInv, ResetDoneInv, EnableInv, EnableDoneInv, SubmitInv, PollInv,
     ReadinessInv, FetchInv, CompleteInv DEF Next, Driver, Device

LEMMA AlwaysInv == Spec => []AdminInv
BY InitInv, NextInv, PTL DEF Spec

\* The driver's and the device's positions stay inside the rings, for every depth.
THEOREM TypeCorrect == Spec => []TypeOK
<1>1. AdminInv => TypeOK
  BY DEF AdminInv
<1> QED
  BY <1>1, AlwaysInv, PTL

\* Once init has returned true the controller is up, has both I/O queues and has
\* carried out all six commands, in every later state, whatever failed before and
\* in whatever order the device finished what it was made to repeat.
THEOREM InitMeansUp == Spec => []ReadyMeansUp
<1>1. AdminInv => ReadyMeansUp
  BY DEF AdminInv
<1> QED
  BY <1>1, AlwaysInv, PTL

\* No admin command is in the device when the driver takes a completion, so none
\* writes to memory behind a later step.
THEOREM NothingLeftOutstanding == Spec => []NothingOutstanding
BY AlwaysInv, AnswerIsLast, PTL

=============================================================================
