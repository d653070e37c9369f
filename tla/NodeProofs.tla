------------------------------ MODULE NodeProofs -----------------------------
(***************************************************************************)
(* Proofs of the properties of the node command path.                      *)
(***************************************************************************)
EXTENDS NodeCommand, EnvelopeProofs

(* While a command is in force its age is what the node's clock shows, and
   the last run of applyCommand found it within its time to live. *)
Deadline ==
    commandArmed => /\ age = ElapsedSince(lastCommandMs)
                    /\ age <= MaxTtl + sinceApply

(* A power that an enabled request with the key, a valid time to live and
   this node as its target asks for. *)
Authorised(power) ==
    \E w \in NodeWrites :
        /\ w.key /\ w.target /\ w.enable = 1 /\ w.ttl \in 1 .. MaxTtl
        /\ w.power = power

Backed(frame) == frame.enable = 1 => Authorised(frame.power)

(* Every command on its way to the device is backed by such a request. *)
Provenance ==
    /\ request \in NodeWrites \cup {NoRequest}
    /\ \A i \in 1 .. Len(line) : Backed(line[i])
    /\ Backed(command)
    /\ device # 0 => Authorised(device)

NodeInv == NodeTypeOK /\ Deadline /\ AppliedIsReal /\ Provenance

-----------------------------------------------------------------------------
LEMMA ZeroInInt16 == 0 \in Int16
  BY Int16Facts DEF Int16

(* What the gateway sends is a frame, with the power that was asked for. *)
LEMMA FrameFacts ==
    ASSUME NEW r \in Requests, Forwarded(r)
    PROVE  /\ FrameOf(r) \in Frames
           /\ r \in NodeWrites => Backed(FrameOf(r))
  <1>1. EncodeSigned(DecodeSigned(r.power)) = r.power
    BY RoundTrip DEF Requests
  <1>2. FrameOf(r) = [sequence |-> r.sequence, power |-> r.power,
                      enable |-> IF r.enable = 1 THEN 1 ELSE 0, ttl |-> r.ttl]
    BY <1>1 DEF FrameOf
  <1>3. FrameOf(r) \in Frames
    BY <1>2 DEF Frames, Requests, Forwarded
  <1>4. ASSUME r \in NodeWrites PROVE Backed(FrameOf(r))
    BY <1>2, <1>4 DEF Backed, Authorised, Forwarded
  <1> QED
    BY <1>3, <1>4

(* Initially nothing is commanded. *)
LEMMA NodeInitially == NodeInit => NodeInv
  <1> SUFFICES ASSUME NodeInit PROVE NodeInv
    OBVIOUS
  <1>1. NodeTypeOK
    <2>1. /\ request \in Requests /\ command \in Frames \cup {NoCommand}
          /\ line \in Seq(Frames) /\ Len(line) <= LineBound
      BY NodeAssumption, ZeroInInt16
      DEF NodeInit, NoRequest, Requests
    <2>2. commandArmed \in BOOLEAN /\ driverCompiled \in BOOLEAN
      BY NodeAssumption, Zenon DEF NodeInit
    <2>3. /\ lastCommandMs \in 0 .. ClockSize - 1
          /\ sinceApply \in 0 .. MaxNodeLoop /\ age \in 0 .. AgeCap
      BY NodeAssumption DEF NodeInit, AgeCap
    <2> QED
      BY <2>1, <2>2, <2>3, ZeroInInt16 DEF NodeInit, NodeTypeOK
  <1>2. Deadline /\ AppliedIsReal
    BY DEF NodeInit, Deadline, AppliedIsReal
  <1>3. Provenance
    BY DEF NodeInit, Provenance, Backed, NoCommand
  <1> QED
    BY <1>1, <1>2, <1>3 DEF NodeInv

-----------------------------------------------------------------------------
(* What a command in the registers looks like. *)
LEMMA CommandFacts ==
    ASSUME NodeTypeOK
    PROVE  /\ command.sequence \in Nat /\ command.power \in Int16
           /\ command.ttl \in 0 .. MaxTtl
  BY NodeAssumption, ZeroInInt16 DEF NodeTypeOK, Frames, NoCommand

(* Every step keeps the types. *)
LEMMA NodeTypeStep ==
    ASSUME NodeTypeOK, [NodeNext]_nodeCommandVars
    PROVE  NodeTypeOK'
  <1> USE NodeAssumption, ZeroInInt16
  <1>1. CASE WriteNodeCommand
    BY <1>1 DEF WriteNodeCommand, NodeTypeOK, nodeVars, timeVars
  <1>2. CASE TakeNodeCommand
    <2>1. request \in Requests /\ request.sequence \in Nat
      BY DEF NodeTypeOK, Requests
    <2>2. line' \in Seq(Frames) /\ Len(line') <= LineBound
      <3>1. CASE UNCHANGED line
        BY <3>1 DEF NodeTypeOK
      <3>2. CASE /\ Forwarded(request) /\ Len(line) < LineBound
                 /\ line' = Append(line, FrameOf(request))
        <4>1. FrameOf(request) \in Frames
          BY <2>1, <3>2, FrameFacts
        <4> QED
          BY <3>2, <4>1 DEF NodeTypeOK
      <3> QED
        BY <1>2, <3>1, <3>2 DEF TakeNodeCommand
    <2> QED
      BY <1>2, <2>1, <2>2
      DEF TakeNodeCommand, NodeTypeOK, nodeVars, timeVars
  <1>3. CASE GatewayRestart
    BY <1>3 DEF GatewayRestart, NodeTypeOK, nodeVars, timeVars, NoRequest,
                Requests
  <1>4. CASE ReceiveFrame
    <2>1. Head(line) \in Frames /\ Tail(line) \in Seq(Frames)
            /\ Len(Tail(line)) <= LineBound
      BY <1>4 DEF ReceiveFrame, NodeTypeOK
    <2> QED
      BY <1>4, <2>1 DEF ReceiveFrame, NodeTypeOK, gatewayVars, timeVars
  <1>5. CASE LoseFrame
    <2>1. Tail(line) \in Seq(Frames) /\ Len(Tail(line)) <= LineBound
      BY <1>5 DEF LoseFrame, NodeTypeOK
    <2> QED
      BY <1>5, <2>1 DEF LoseFrame, NodeTypeOK, gatewayVars, nodeVars, timeVars
  <1>6. CASE NewCommand
    <2>1. device' \in Int16 /\ applied' \in Int16 /\ result' \in 0 .. 4
            /\ commandArmed' \in BOOLEAN
      BY <1>6, CommandFacts DEF NewCommand, DriverReturns, NodeTypeOK
    <2>2. lastCommandSequence' \in Nat
      BY <1>6, CommandFacts DEF NewCommand
    <2>3. age' \in 0 .. AgeCap
      <3>1. age' \in {0, age}
        BY <1>6, Zenon DEF NewCommand
      <3> QED
        BY <3>1 DEF NodeTypeOK, AgeCap
    <2> QED
      BY <1>6, <2>1, <2>2, <2>3 DEF NewCommand, NodeTypeOK, gatewayVars
  <1>7. CASE Expire
    <2>1. device' \in Int16
      BY <1>7 DEF Expire, DriverReturns, NodeTypeOK
    <2>2. commandArmed' = FALSE /\ applied' = 0 /\ result' = 3
            /\ sinceApply' = 0
      BY <1>7, Zenon DEF Expire
    <2>3. UNCHANGED <<request, lastNodeSequence, line, command,
                      lastCommandSequence, lastCommandMs, driverCompiled,
                      clock, age>>
      BY <1>7 DEF Expire, gatewayVars
    <2>4. result' \in 0 .. 4 /\ sinceApply' \in 0 .. MaxNodeLoop
            /\ applied' \in Int16
      BY <2>2
    <2>5. commandArmed' \in BOOLEAN
      BY <2>2
    <2> QED
      BY <2>1, <2>3, <2>4, <2>5 DEF NodeTypeOK
  <1>8. CASE NothingToDo
    BY <1>8 DEF NothingToDo, NodeTypeOK, gatewayVars, nodeVars
  <1>9. CASE ProvisionNode
    BY <1>9 DEF ProvisionNode, NodeTypeOK, gatewayVars, timeVars
  <1>10. CASE NodeRestart
    <2>1. commandArmed' \in BOOLEAN /\ driverCompiled' \in BOOLEAN
      BY <1>10, Zenon DEF NodeRestart
    <2>2. /\ command' \in Frames \cup {NoCommand} /\ line' \in Seq(Frames)
          /\ Len(line') <= LineBound /\ applied' \in Int16
          /\ result' \in 0 .. 4 /\ lastCommandSequence' \in Nat
      BY <1>10 DEF NodeRestart
    <2>3. /\ lastCommandMs' \in 0 .. ClockSize - 1
          /\ clock' \in 0 .. ClockSize - 1 /\ sinceApply' \in 0 .. MaxNodeLoop
      BY <1>10 DEF NodeRestart
    <2>4. UNCHANGED <<request, lastNodeSequence, device, age>>
      BY <1>10 DEF NodeRestart, gatewayVars
    <2> QED
      BY <2>1, <2>2, <2>3, <2>4 DEF NodeTypeOK
  <1>11. CASE Second
    BY <1>11 DEF Second, NodeTypeOK, gatewayVars, nodeVars, Smaller, AgeCap
  <1>12. CASE UNCHANGED nodeCommandVars
    BY <1>12 DEF nodeCommandVars, NodeTypeOK, gatewayVars, nodeVars, timeVars
  <1> QED
    BY <1>1, <1>2, <1>3, <1>4, <1>5, <1>6, <1>7, <1>8, <1>9, <1>10, <1>11,
       <1>12 DEF NodeNext, ApplyCommand

(* The age of a command in force stays what the wrapping clock shows: a
   second later both have grown by one, because the command is younger than
   the clock's period. *)
LEMMA DeadlineStep ==
    ASSUME NodeTypeOK, Deadline, [NodeNext]_nodeCommandVars
    PROVE  Deadline'
  <1> USE NodeAssumption
  <1> SUFFICES ASSUME commandArmed'
               PROVE  /\ age' = ElapsedSince(lastCommandMs)'
                      /\ age' <= MaxTtl + sinceApply'
    BY DEF Deadline
  <1>1. CASE NewCommand
    BY <1>1 DEF NewCommand, NodeTypeOK, ElapsedSince
  <1>2. CASE NothingToDo
    <2>1. command.ttl \in 0 .. MaxTtl
      BY CommandFacts
    <2>2. /\ commandArmed /\ age' = age /\ sinceApply' = 0
          /\ lastCommandMs' = lastCommandMs /\ clock' = clock
          /\ age = ElapsedSince(lastCommandMs)
          /\ ~(ElapsedSince(lastCommandMs) > command.ttl)
      BY <1>2 DEF NothingToDo, nodeVars, Deadline
    <2>3. age <= MaxTtl
      BY <2>1, <2>2 DEF NodeTypeOK
    <2> QED
      BY <2>2, <2>3 DEF ElapsedSince
  <1>3. CASE Second
    <2>1. /\ commandArmed /\ age = ElapsedSince(lastCommandMs)
          /\ lastCommandMs' = lastCommandMs /\ sinceApply' = sinceApply + 1
          /\ age <= MaxTtl + sinceApply /\ sinceApply < MaxNodeLoop
      BY <1>3 DEF Second, nodeVars, Deadline
    <2>2. age' = age + 1
      BY <1>3, <2>1 DEF Second, NodeTypeOK, Smaller, AgeCap
    <2>3. age + 1 = ElapsedSince(lastCommandMs)'
      BY <1>3, <2>1 DEF Second, NodeTypeOK, ElapsedSince
    <2> QED
      BY <2>1, <2>2, <2>3 DEF NodeTypeOK
  <1>4. CASE Expire \/ NodeRestart
    BY <1>4 DEF Expire, NodeRestart
  <1>5. CASE UNCHANGED <<commandArmed, lastCommandMs, timeVars>>
    BY <1>5 DEF Deadline, ElapsedSince, timeVars
  <1> QED
    BY <1>1, <1>2, <1>3, <1>4, <1>5
    DEF NodeNext, ApplyCommand, nodeCommandVars, nodeVars, timeVars,
        WriteNodeCommand, TakeNodeCommand, GatewayRestart, ReceiveFrame,
        LoseFrame, ProvisionNode

(* The reported power is the device's. *)
LEMMA AppliedStep ==
    ASSUME NodeTypeOK, AppliedIsReal, [NodeNext]_nodeCommandVars
    PROVE  AppliedIsReal'
  <1>1. CASE NewCommand
    BY <1>1, CommandFacts
    DEF NewCommand, DriverReturns, AppliedIsReal, NodeTypeOK
  <1>2. CASE Expire \/ NodeRestart
    BY <1>2 DEF Expire, NodeRestart, AppliedIsReal
  <1>3. CASE UNCHANGED <<applied, commandArmed, device>>
    BY <1>3 DEF AppliedIsReal
  <1> QED
    BY <1>1, <1>2, <1>3
    DEF NodeNext, ApplyCommand, nodeCommandVars, nodeVars, WriteNodeCommand,
        TakeNodeCommand, GatewayRestart, ReceiveFrame, LoseFrame,
        ProvisionNode, NothingToDo, Second

(* No step makes up a command. *)
LEMMA ProvenanceStep ==
    ASSUME NodeTypeOK, Provenance, [NodeNext]_nodeCommandVars
    PROVE  Provenance'
  <1>1. CASE WriteNodeCommand
    BY <1>1 DEF WriteNodeCommand, nodeVars, Provenance
  <1>2. CASE GatewayRestart
    BY <1>2 DEF GatewayRestart, nodeVars, Provenance
  <1>3. CASE TakeNodeCommand
    <2>1. \A i \in 1 .. Len(line') : Backed(line'[i])
      <3>1. CASE UNCHANGED line
        BY <3>1 DEF Provenance
      <3>2. CASE /\ Forwarded(request)
                 /\ line' = Append(line, FrameOf(request))
        <4>1. request \in Requests /\ request \in NodeWrites
          BY <3>2 DEF Forwarded, NoRequest, Provenance, NodeTypeOK
        <4>2. FrameOf(request) \in Frames /\ Backed(FrameOf(request))
          BY <3>2, <4>1, FrameFacts
        <4> DEFINE f == FrameOf(request)
        <4> HIDE DEF f
        <4>3. /\ Len(line') = Len(line) + 1 /\ line'[Len(line) + 1] = f
              /\ \A i \in 1 .. Len(line) : line'[i] = line[i]
          BY <3>2, <4>2 DEF NodeTypeOK, f
        <4>4. \A i \in 1 .. Len(line') : i \in 1 .. Len(line) \/ i = Len(line) + 1
          BY <4>3 DEF NodeTypeOK
        <4> QED
          BY <4>2, <4>3, <4>4, Zenon DEF Provenance, f
      <3> QED
        BY <1>3, <3>1, <3>2 DEF TakeNodeCommand
    <2> QED
      BY <1>3, <2>1 DEF TakeNodeCommand, nodeVars, Provenance
  <1>4. CASE ReceiveFrame \/ LoseFrame
    <2>1. /\ line \in Seq(Frames) /\ line # <<>> /\ line' = Tail(line)
      BY <1>4 DEF ReceiveFrame, LoseFrame, NodeTypeOK
    <2>2. /\ 1 \in 1 .. Len(line) /\ Head(line) = line[1]
          /\ Len(line') = Len(line) - 1
          /\ \A i \in 1 .. Len(line') :
                 i + 1 \in 1 .. Len(line) /\ line'[i] = line[i + 1]
      BY <2>1
    <2>3. Backed(Head(line)) /\ \A i \in 1 .. Len(line') : Backed(line'[i])
      BY <2>2, Zenon DEF Provenance
    <2> QED
      BY <1>4, <2>3
      DEF ReceiveFrame, LoseFrame, gatewayVars, nodeVars, Provenance
  <1>5. CASE NewCommand
    <2>1. device' \in {device, command.power}
            /\ (device' # device => command.enable = 1)
      BY <1>5 DEF NewCommand, DriverReturns
    <2>2. device' # 0 => Authorised(device')
      BY <2>1, Zenon DEF Provenance, Backed
    <2> QED
      BY <1>5, <2>2 DEF NewCommand, gatewayVars, Provenance
  <1>6. CASE Expire
    <2>1. device' \in {device, 0}
      BY <1>6 DEF Expire, DriverReturns
    <2> QED
      BY <1>6, <2>1 DEF Expire, gatewayVars, Provenance
  <1>7. CASE NodeRestart
    <2>1. Len(line') = 0 /\ command'.enable = 0
      BY <1>7 DEF NodeRestart, NoCommand
    <2> QED
      BY <1>7, <2>1 DEF NodeRestart, gatewayVars, Provenance, Backed
  <1>8. CASE UNCHANGED <<request, line, command, device>>
    BY <1>8 DEF Provenance
  <1> QED
    BY <1>1, <1>2, <1>3, <1>4, <1>5, <1>6, <1>7, <1>8
    DEF NodeNext, ApplyCommand, nodeCommandVars, gatewayVars, nodeVars,
        ProvisionNode, NothingToDo, Second

LEMMA NodeInvStep == NodeInv /\ [NodeNext]_nodeCommandVars => NodeInv'
  BY NodeTypeStep, DeadlineStep, AppliedStep, ProvenanceStep DEF NodeInv

LEMMA NodeInvariant == NodeSpec => []NodeInv
  BY NodeInitially, NodeInvStep, PTL DEF NodeSpec

-----------------------------------------------------------------------------
(* The node holds no command that the gateway should not have sent, and its
   timers stay in their ranges. *)
THEOREM NodeTypeCorrect == NodeSpec => []NodeTypeOK
  <1>1. NodeInv => NodeTypeOK
    BY DEF NodeInv
  <1> QED
    BY <1>1, NodeInvariant, PTL

(* applyCommand keeps no command in force past the longest time to live and
   one iteration of the loop, for every clock that takes longer than that to
   wrap around. *)
THEOREM CommandExpires == NodeSpec => []ArmedCommandExpires
  <1>1. NodeInv => ArmedCommandExpires
    BY NodeAssumption DEF NodeInv, NodeTypeOK, Deadline, ArmedCommandExpires
  <1> QED
    BY <1>1, NodeInvariant, PTL

(* applyCommand reports an expired command only after its time to live. *)
THEOREM CommandNotCutShort == NodeSpec => NotExpiredEarly
  <1>1. NodeInv /\ [NodeNext]_nodeCommandVars
          => [result # 3 /\ result' = 3 => age > command.ttl]_nodeCommandVars
    <2> SUFFICES ASSUME NodeInv, [NodeNext]_nodeCommandVars,
                        result # 3, result' = 3
                 PROVE  age > command.ttl
      OBVIOUS
    <2>1. Expire
      BY DEF NodeNext, ApplyCommand, nodeCommandVars, nodeVars,
             WriteNodeCommand, TakeNodeCommand, GatewayRestart, ReceiveFrame,
             LoseFrame, NewCommand, NothingToDo, ProvisionNode, NodeRestart,
             Second
    <2> QED
      BY <2>1 DEF Expire, NodeInv, Deadline
  <1> QED
    BY <1>1, NodeInvariant, PTL DEF NodeSpec, NotExpiredEarly

(* The power applyCommand reports is the device's, and its time to live is
   being watched. *)
THEOREM AppliedSafe == NodeSpec => []AppliedIsReal
  <1>1. NodeInv => AppliedIsReal
    BY DEF NodeInv
  <1> QED
    BY <1>1, NodeInvariant, PTL

(* No power reaches the device that was not asked for with the key, a valid
   time to live and this node as the target. *)
THEOREM AuthorisedSafe == NodeSpec => []OnlyAuthorised
  <1>1. NodeInv => OnlyAuthorised
    BY DEF NodeInv, Provenance, Authorised, OnlyAuthorised
  <1> QED
    BY <1>1, NodeInvariant, PTL
=============================================================================
