----------------------------- MODULE DriverProofs -----------------------------
(***************************************************************************)
(* Proofs about the cabinet driver, for every value of its constants.      *)
(***************************************************************************)
EXTENDS SunStoragePro261Driver, EnvelopeProofs, TLAPS

(* Sequences of one and of two writes. *)
LEMMA One ==
    ASSUME NEW a
    PROVE  <<a>> # <<>> /\ Head(<<a>>) = a /\ Tail(<<a>>) = <<>>
  BY SMT

LEMMA Two ==
    ASSUME NEW a, NEW b
    PROVE  <<a, b>> # <<>> /\ Head(<<a, b>>) = a /\ Tail(<<a, b>>) = <<b>>
  BY SMT

-----------------------------------------------------------------------------
(* What the writes of each operation look like while they are pending. *)
CallShape ==
    \/ call.todo = <<>>
    \/ /\ call.op = "heartbeat"
       /\ call.todo \in {<<Write("HeartbeatEnable", 1),
                           Write("HeartbeatSeconds", HeartbeatTimeout)>>,
                         <<Write("HeartbeatSeconds", HeartbeatTimeout)>>}
    \/ /\ call.op = "setpoint" /\ drv.controlReady /\ drv.limitsValid
       /\ \E power \in PowerRange :
              /\ DriverAccepts(power, drv.bms)
              /\ call.todo = <<Write("PcsPowerCommand", EncodeSigned(power))>>
    \/ /\ call.op = "reactive"
       /\ \E raw \in Int16 :
              call.todo = <<Write("PcsReactivePowerCommand", raw)>>
    \/ call.op = "start" /\ call.todo = <<Write("PcsPowerOn", 1)>>
    \/ /\ call.op = "stop"
       /\ call.todo = <<Write("PcsPowerCommand", 0), Write("PcsPowerOn", 0)>>
    \/ /\ call.op = "stop" /\ call.todo = <<Write("PcsPowerOn", 0)>>
       /\ call.ok => reg["PcsPowerCommand"] = 0
    \/ /\ call.op = "soc"
       /\ \E lower, upper \in 0 .. SocFull :
              /\ lower < upper
              /\ \/ /\ call.todo = <<Write("PcsSocUpperLimit", upper),
                                     Write("PcsSocLowerLimit", lower)>>
                    /\ reg["PcsSocLowerLimit"] < upper
                 \/ /\ call.todo = <<Write("PcsSocLowerLimit", lower),
                                     Write("PcsSocUpperLimit", upper)>>
                    /\ lower < reg["PcsSocUpperLimit"]
                 \/ /\ call.todo = <<Write("PcsSocLowerLimit", lower)>>
                    /\ lower < reg["PcsSocUpperLimit"]
                 \/ /\ call.todo = <<Write("PcsSocUpperLimit", upper)>>
                    /\ reg["PcsSocLowerLimit"] < upper

(* The inductive invariant: a poll and a write operation never overlap, so
   the members an accepted write was checked against are still those of the
   poll before it when the write is performed. *)
DriverInv ==
    /\ DriverTypeOK
    /\ scan.active => call = Idle
    /\ CallShape
    /\ SocWindowOrdered
    /\ StopLeavesZero

-----------------------------------------------------------------------------
(* The values each register admits. *)
LEMMA ValuesFacts ==
    /\ Values("HeartbeatEnable") = {0, 1} /\ Values("PcsPowerOn") = {0, 1}
    /\ Values("HeartbeatSeconds") = 0 .. HeartbeatTimeout
    /\ Values("PcsSocUpperLimit") = 0 .. SocFull
    /\ Values("PcsSocLowerLimit") = 0 .. SocFull
    /\ Values("PcsPowerCommand") = Int16
    /\ Values("PcsReactivePowerCommand") = Int16
  BY DEF Values

LEMMA WriteType ==
    ASSUME NEW register \in Registers, NEW value \in Int,
           value \in Values(register)
    PROVE  Write(register, value) \in Writes
  BY DEF Write, Writes

LEMMA FreshTypes ==
    /\ FreshDriver.bms \in BmsReports
    /\ FreshDriver \in [telemetryValid : BOOLEAN, controlReady : BOOLEAN,
                        limitsValid : BOOLEAN, faultsClear : BOOLEAN,
                        gridModeReady : BOOLEAN, workModeReady : BOOLEAN,
                        bms : BmsReports]
    /\ NoScan \in [active : BOOLEAN, ok : BOOLEAN, powerOn : BOOLEAN,
                   status : PcsStatuses]
    /\ Idle \in [op : Ops, todo : Seq(Writes), ok : BOOLEAN]
    /\ ~NoScan.active
  BY Int16Facts
  DEF FreshDriver, BmsReports, Int16, NoScan, PcsStatuses, Idle, Ops

LEMMA DriverInitInv == DriverInit => DriverInv
  <1> SUFFICES ASSUME DriverInit PROVE DriverInv
    OBVIOUS
  <1>1. DriverTypeOK
    <2>1. PICK on \in PowerOnAtStart :
              reg = [r \in Registers |-> CASE r = "PcsPowerOn"       -> on
                                           [] r = "PcsSocUpperLimit" -> SocFull
                                           [] OTHER                  -> 0]
      BY DEF DriverInit
    <2>2. on \in {0, 1} /\ SocFull \in Nat \ {0} /\ HeartbeatTimeout \in Nat
      BY DriverAssumption
    <2>3. /\ reg \in [Registers -> Int]
          /\ \A register \in Registers : reg[register] \in Values(register)
      BY <2>1, <2>2, ValuesFacts, Int16Facts DEF Registers, Int16
    <2> QED
      BY <2>3, FreshTypes, DriverAssumption DEF DriverTypeOK, DriverInit
  <1>2. SocWindowOrdered
    BY DriverAssumption DEF SocWindowOrdered, DriverInit, Registers
  <1> QED
    BY <1>1, <1>2
    DEF DriverInv, DriverInit, CallShape, Idle, NoScan, StopLeavesZero

(* An operation that is refused, or whose writes are well formed, keeps the
   invariant when it begins. *)
LEMMA BeginInv ==
    ASSUME DriverInv, NEW op \in Ops, NEW accepted \in BOOLEAN, NEW todo,
           Begin(op, accepted, todo),
           accepted => todo \in Seq(Writes),
           accepted => CallShape',
           todo # <<>>
    PROVE  DriverInv'
  <1>1. /\ call = Idle /\ ~scan.active
        /\ call' = [op |-> op, ok |-> accepted,
                    todo |-> IF accepted THEN todo ELSE <<>>]
        /\ UNCHANGED <<reg, status, bms, link, scan, drv>>
    BY DEF Begin, Quiet
  <1>2. call' \in [op : Ops, todo : Seq(Writes), ok : BOOLEAN]
    BY <1>1
  <1>3. DriverTypeOK' /\ SocWindowOrdered'
    BY <1>1, <1>2 DEF DriverInv, DriverTypeOK, SocWindowOrdered
  <1>4. StopLeavesZero'
    BY <1>1 DEF StopLeavesZero, Finished
  <1>5. CallShape'
    BY <1>1 DEF CallShape
  <1> QED
    BY <1>1, <1>3, <1>4, <1>5 DEF DriverInv

LEMMA SeqOne ==
    ASSUME NEW S, NEW a \in S PROVE <<a>> \in Seq(S)
  OBVIOUS

LEMMA SeqTwo ==
    ASSUME NEW S, NEW a \in S, NEW b \in S PROVE <<a, b>> \in Seq(S)
  OBVIOUS

LEMMA HeartbeatInv == DriverInv /\ RefreshHeartbeat => DriverInv'
  <1> SUFFICES ASSUME DriverInv, RefreshHeartbeat PROVE DriverInv'
    OBVIOUS
  <1> DEFINE todo == <<Write("HeartbeatEnable", 1),
                       Write("HeartbeatSeconds", HeartbeatTimeout)>>
  <1>1. Begin("heartbeat", WritesEnabled, todo)
    BY DEF RefreshHeartbeat
  <1>2. /\ Write("HeartbeatEnable", 1) \in Writes
        /\ Write("HeartbeatSeconds", HeartbeatTimeout) \in Writes
    BY WriteType, ValuesFacts, DriverAssumption DEF Registers
  <1>3. todo \in Seq(Writes) /\ todo # <<>>
    BY <1>2, SeqTwo, Two
  <1>4. WritesEnabled => CallShape'
    BY <1>1 DEF Begin, CallShape
  <1> QED
    BY <1>1, <1>3, <1>4, BeginInv, DriverAssumption DEF Ops

LEMMA SetpointInv ==
    ASSUME DriverInv, NEW power \in PowerRange, WritePowerSetpointKw(power)
    PROVE  DriverInv'
  <1> DEFINE todo == <<Write("PcsPowerCommand", EncodeSigned(power))>>
             accepted == /\ WritesEnabled /\ drv.controlReady
                         /\ drv.limitsValid /\ DriverAccepts(power, drv.bms)
  <1>1. Begin("setpoint", accepted, todo)
    BY DEF WritePowerSetpointKw
  <1>2. power \in Int /\ EncodeSigned(power) \in Int16
          /\ EncodeSigned(power) \in Int
    BY EncodeType, DriverAssumption, Int16Facts DEF PowerRange, Int16
  <1>3. todo \in Seq(Writes) /\ todo # <<>>
    BY <1>2, WriteType, ValuesFacts, SeqOne, One DEF Registers
  <1>4. accepted => CallShape'
    BY <1>1 DEF Begin, CallShape
  <1>5. accepted \in BOOLEAN
    OBVIOUS
  <1> QED
    BY <1>1, <1>3, <1>4, <1>5, BeginInv DEF Ops

LEMMA ReactiveInv ==
    ASSUME DriverInv, NEW power \in ReactiveRange,
           WriteReactivePowerSetpointKvar(power)
    PROVE  DriverInv'
  <1> DEFINE todo == <<Write("PcsReactivePowerCommand", EncodeSigned(power))>>
             accepted == WritesEnabled /\ drv.controlReady
  <1>1. Begin("reactive", accepted, todo)
    BY DEF WriteReactivePowerSetpointKvar
  <1>2. EncodeSigned(power) \in Int16 /\ EncodeSigned(power) \in Int
    BY EncodeType, DriverAssumption, Int16Facts DEF Int16
  <1>3. todo \in Seq(Writes) /\ todo # <<>>
    BY <1>2, WriteType, ValuesFacts, SeqOne, One DEF Registers
  <1>4. accepted => CallShape'
    BY <1>1, <1>2 DEF Begin, CallShape
  <1>5. accepted \in BOOLEAN
    OBVIOUS
  <1> QED
    BY <1>1, <1>3, <1>4, <1>5, BeginInv DEF Ops

LEMMA PowerStateInv ==
    ASSUME DriverInv, NEW on \in BOOLEAN, WritePowerState(on)
    PROVE  DriverInv'
  <1>1. CASE on
    <2> DEFINE todo == <<Write("PcsPowerOn", 1)>>
               accepted == /\ WritesEnabled /\ drv.telemetryValid
                           /\ drv.faultsClear /\ drv.gridModeReady
                           /\ drv.workModeReady
    <2>1. Begin("start", accepted, todo)
      BY <1>1 DEF WritePowerState
    <2>2. todo \in Seq(Writes) /\ todo # <<>>
      BY WriteType, ValuesFacts, SeqOne, One DEF Registers
    <2>3. accepted => CallShape'
      BY <2>1 DEF Begin, CallShape
    <2>4. accepted \in BOOLEAN
      OBVIOUS
    <2> QED
      BY <2>1, <2>2, <2>3, <2>4, BeginInv DEF Ops
  <1>2. CASE ~on
    <2> DEFINE todo == <<Write("PcsPowerCommand", 0), Write("PcsPowerOn", 0)>>
               accepted == WritesEnabled /\ drv.telemetryValid
    <2>1. Begin("stop", accepted, todo)
      BY <1>2 DEF WritePowerState
    <2>2. todo \in Seq(Writes) /\ todo # <<>>
      BY WriteType, ValuesFacts, SeqTwo, Two, Int16Facts DEF Registers, Int16
    <2>3. accepted => CallShape'
      BY <2>1 DEF Begin, CallShape
    <2>4. accepted \in BOOLEAN
      OBVIOUS
    <2> QED
      BY <2>1, <2>2, <2>3, <2>4, BeginInv DEF Ops
  <1> QED
    BY <1>1, <1>2

LEMMA SocLimitsInv ==
    ASSUME DriverInv, NEW lower \in SocRange, NEW upper \in SocRange,
           WriteSocLimitsPct(lower, upper)
    PROVE  DriverInv'
  <1> DEFINE todo == SocTodo(lower, upper)
             writeUpper == Write("PcsSocUpperLimit", upper)
             writeLower == Write("PcsSocLowerLimit", lower)
             accepted == /\ WritesEnabled /\ drv.telemetryValid
                         /\ lower >= 0 /\ upper <= SocFull /\ lower < upper
                         /\ link
  <1>1. Begin("soc", accepted, todo)
    BY DEF WriteSocLimitsPct
  <1>2. /\ lower \in Nat /\ upper \in Nat /\ SocFull \in Nat
        /\ reg["PcsSocLowerLimit"] \in Int /\ reg["PcsSocUpperLimit"] \in Int
        /\ reg["PcsSocLowerLimit"] < reg["PcsSocUpperLimit"]
    BY DriverAssumption DEF DriverInv, DriverTypeOK, SocWindowOrdered, Registers
  <1>3. \/ todo = <<writeLower, writeUpper>>
           /\ lower < reg["PcsSocLowerLimit"]
        \/ todo = <<writeUpper, writeLower>>
           /\ (upper > reg["PcsSocUpperLimit"]
               \/ lower >= reg["PcsSocLowerLimit"])
    BY <1>2 DEF SocTodo
  <1>4. todo # <<>>
    BY <1>3, Two
  <1>5. ASSUME accepted
        PROVE  todo \in Seq(Writes) /\ CallShape'
    <2>1. lower \in 0 .. SocFull /\ upper \in 0 .. SocFull /\ lower < upper
      BY <1>2, <1>5
    <2>2. writeUpper \in Writes /\ writeLower \in Writes
      BY <2>1, <1>2, WriteType, ValuesFacts DEF Registers
    <2>3. todo \in Seq(Writes)
      BY <2>2, <1>3, SeqTwo
    <2>4. call'.op = "soc" /\ call'.todo = todo /\ reg' = reg
      BY <1>1, <1>5 DEF Begin
    <2> QED
      BY <2>1, <2>3, <2>4, <1>2, <1>3 DEF CallShape
  <1>6. accepted \in BOOLEAN
    BY DriverAssumption DEF DriverInv, DriverTypeOK
  <1> HIDE DEF todo, accepted
  <1> QED
    BY <1>1, <1>4, <1>5, <1>6, BeginInv DEF Ops

-----------------------------------------------------------------------------
(* One write performed, or not, on a well-typed cabinet. *)
LEMMA PerformType ==
    ASSUME DriverTypeOK, NEW w \in Writes, Perform(w)
    PROVE  /\ reg' \in [Registers -> Int]
           /\ \A register \in Registers : reg'[register] \in Values(register)
           /\ reg'[w.register] = w.value
           /\ \A register \in Registers \ {w.register} :
                  reg'[register] = reg[register]
  BY DEF DriverTypeOK, Perform, Writes

LEMMA TodoTypes ==
    ASSUME DriverTypeOK, call.todo # <<>>
    PROVE  /\ Head(call.todo) \in Writes
           /\ Tail(call.todo) \in Seq(Writes)
  BY DEF DriverTypeOK

(* What is left to write once the first write has been performed. *)
LEMMA AcknowledgedInv == DriverInv /\ WriteAcknowledged => DriverInv'
  <1> SUFFICES ASSUME DriverInv, WriteAcknowledged PROVE DriverInv'
    OBVIOUS
  <1> DEFINE w == Head(call.todo)
  <1>1. /\ call.todo # <<>> /\ w \in Writes /\ Tail(call.todo) \in Seq(Writes)
        /\ DriverTypeOK
    BY TodoTypes DEF DriverInv, WriteAcknowledged
  <1>2. /\ call' = [call EXCEPT !.todo = Tail(@)]
        /\ drv' = [drv EXCEPT !.controlReady = @ /\ w # Write("PcsPowerOn", 0)]
        /\ UNCHANGED <<status, bms, link, scan>>
        /\ Perform(w)
    BY DEF WriteAcknowledged
  <1>3. /\ call'.op = call.op /\ call'.ok = call.ok
        /\ call'.todo = Tail(call.todo)
        /\ call' \in [op : Ops, todo : Seq(Writes), ok : BOOLEAN]
    BY <1>1, <1>2 DEF DriverTypeOK
  <1>4. /\ reg' \in [Registers -> Int]
        /\ \A register \in Registers : reg'[register] \in Values(register)
        /\ reg'[w.register] = w.value
        /\ \A register \in Registers \ {w.register} :
               reg'[register] = reg[register]
    BY <1>1, <1>2, PerformType
  <1>5. drv' \in [telemetryValid : BOOLEAN, controlReady : BOOLEAN,
                  limitsValid : BOOLEAN, faultsClear : BOOLEAN,
                  gridModeReady : BOOLEAN, workModeReady : BOOLEAN,
                  bms : BmsReports]
    BY <1>1, <1>2 DEF DriverTypeOK
  <1>6. DriverTypeOK'
    BY <1>1, <1>2, <1>3, <1>4, <1>5 DEF DriverTypeOK
  <1>7. ~scan.active /\ ~scan'.active
    BY <1>1, <1>2, One DEF DriverInv, Idle, DriverTypeOK
  <1>8. /\ reg["PcsSocLowerLimit"] \in Int /\ reg["PcsSocUpperLimit"] \in Int
        /\ reg["PcsSocLowerLimit"] < reg["PcsSocUpperLimit"]
    BY <1>1 DEF DriverInv, SocWindowOrdered, DriverTypeOK, Registers
  <1> HIDE DEF w
  <1> SUFFICES CallShape' /\ SocWindowOrdered' /\ StopLeavesZero'
    BY <1>6, <1>7 DEF DriverInv
  <1>9. CASE call.op = "heartbeat"
    <2> DEFINE enable == Write("HeartbeatEnable", 1)
               seconds == Write("HeartbeatSeconds", HeartbeatTimeout)
    <2>1. call.todo \in {<<enable, seconds>>, <<seconds>>}
      BY <1>1, <1>9 DEF DriverInv, CallShape
    <2>2. w \in {enable, seconds} /\ Tail(call.todo) \in {<<>>, <<seconds>>}
      <3> HIDE DEF enable, seconds
      <3>1. /\ Head(<<enable, seconds>>) = enable
            /\ Tail(<<enable, seconds>>) = <<seconds>>
        BY Two
      <3>2. Head(<<seconds>>) = seconds /\ Tail(<<seconds>>) = <<>>
        BY One
      <3> QED
        BY <2>1, <3>1, <3>2, Zenon DEF w
    <2>3. w.register \in {"HeartbeatEnable", "HeartbeatSeconds"}
      BY <2>2 DEF Write
    <2>4. CallShape'
      BY <2>2, <1>3, <1>9 DEF CallShape
    <2> QED
      BY <2>3, <2>4, <1>3, <1>4, <1>8, <1>9
      DEF SocWindowOrdered, StopLeavesZero, Registers
  <1>10. CASE call.op \in {"setpoint", "reactive", "start"}
    <2>1. PICK value \in Int :
              call.todo \in {<<Write("PcsPowerCommand", value)>>,
                             <<Write("PcsReactivePowerCommand", value)>>,
                             <<Write("PcsPowerOn", value)>>}
      <3>1. ASSUME NEW power \in PowerRange PROVE EncodeSigned(power) \in Int
        BY EncodeType, DriverAssumption, Int16Facts DEF PowerRange, Int16
      <3>2. Int16 \subseteq Int
        BY Int16Facts DEF Int16
      <3>3. CASE call.op = "setpoint"
        <4>1. PICK power \in PowerRange :
                  call.todo = <<Write("PcsPowerCommand", EncodeSigned(power))>>
          BY <3>3, <1>1 DEF DriverInv, CallShape
        <4> QED
          BY <4>1, <3>1
      <3>4. CASE call.op = "reactive"
        BY <3>2, <3>4, <1>1 DEF DriverInv, CallShape
      <3>5. CASE call.op = "start"
        <4>1. call.todo = <<Write("PcsPowerOn", 1)>> /\ 1 \in Int
          BY <3>5, <1>1 DEF DriverInv, CallShape
        <4> QED
          BY <4>1
      <3> QED
        BY <3>3, <3>4, <3>5, <1>10
    <2>2. /\ w \in {Write("PcsPowerCommand", value),
                    Write("PcsReactivePowerCommand", value),
                    Write("PcsPowerOn", value)}
          /\ Tail(call.todo) = <<>>
      BY <2>1, One DEF w
    <2>3. w.register \in {"PcsPowerCommand", "PcsReactivePowerCommand",
                          "PcsPowerOn"}
      BY <2>2 DEF Write
    <2>4. CallShape'
      BY <2>2, <1>3 DEF CallShape
    <2> QED
      BY <2>3, <2>4, <1>3, <1>4, <1>8, <1>10
      DEF SocWindowOrdered, StopLeavesZero, Registers
  <1>11. CASE call.op = "stop"
    <2> DEFINE zero == Write("PcsPowerCommand", 0)
               off  == Write("PcsPowerOn", 0)
    <2>1. \/ call.todo = <<zero, off>>
          \/ call.todo = <<off>> /\ (call.ok => reg["PcsPowerCommand"] = 0)
      BY <1>1, <1>11 DEF DriverInv, CallShape
    <2>2. \/ w = zero /\ Tail(call.todo) = <<off>>
          \/ /\ w = off /\ Tail(call.todo) = <<>>
             /\ call.ok => reg["PcsPowerCommand"] = 0
      <3> HIDE DEF zero, off
      <3>1. Head(<<zero, off>>) = zero /\ Tail(<<zero, off>>) = <<off>>
        BY Two
      <3>2. Head(<<off>>) = off /\ Tail(<<off>>) = <<>>
        BY One
      <3> QED
        BY <2>1, <3>1, <3>2, Zenon DEF w
    <2>3. CASE w = zero /\ Tail(call.todo) = <<off>>
      <3>1. /\ reg'["PcsPowerCommand"] = 0 /\ SocWindowOrdered'
            /\ call'.todo = <<off>> /\ <<off>> # <<>>
        BY <2>3, <1>3, <1>4, <1>8, One DEF Write, SocWindowOrdered, Registers
      <3> QED
        BY <3>1, <1>3, <1>11 DEF CallShape, StopLeavesZero, Finished
    <2>4. CASE /\ w = off /\ Tail(call.todo) = <<>>
               /\ call.ok => reg["PcsPowerCommand"] = 0
      <3>1. /\ reg'["PcsPowerCommand"] = reg["PcsPowerCommand"]
            /\ SocWindowOrdered'
        BY <2>4, <1>4, <1>8 DEF Write, SocWindowOrdered, Registers
      <3> QED
        BY <3>1, <2>4, <1>3 DEF CallShape, StopLeavesZero
    <2> QED
      BY <2>2, <2>3, <2>4
  <1>12. CASE call.op = "soc"
    <2>1. PICK lower \in 0 .. SocFull, upper \in 0 .. SocFull :
              /\ lower < upper
              /\ \/ /\ call.todo = <<Write("PcsSocUpperLimit", upper),
                                     Write("PcsSocLowerLimit", lower)>>
                    /\ reg["PcsSocLowerLimit"] < upper
                 \/ /\ call.todo = <<Write("PcsSocLowerLimit", lower),
                                     Write("PcsSocUpperLimit", upper)>>
                    /\ lower < reg["PcsSocUpperLimit"]
                 \/ /\ call.todo = <<Write("PcsSocLowerLimit", lower)>>
                    /\ lower < reg["PcsSocUpperLimit"]
                 \/ /\ call.todo = <<Write("PcsSocUpperLimit", upper)>>
                    /\ reg["PcsSocLowerLimit"] < upper
      BY <1>1, <1>12 DEF DriverInv, CallShape
    <2> DEFINE raise == Write("PcsSocUpperLimit", upper)
               floor == Write("PcsSocLowerLimit", lower)
    <2>2. \/ /\ w = raise /\ reg["PcsSocLowerLimit"] < upper
             /\ Tail(call.todo) \in {<<>>, <<floor>>}
          \/ /\ w = floor /\ lower < reg["PcsSocUpperLimit"]
             /\ Tail(call.todo) \in {<<>>, <<raise>>}
      <3>1. \/ /\ call.todo \in {<<raise, floor>>, <<raise>>}
               /\ reg["PcsSocLowerLimit"] < upper
            \/ /\ call.todo \in {<<floor, raise>>, <<floor>>}
               /\ lower < reg["PcsSocUpperLimit"]
        BY <2>1
      <3> HIDE DEF raise, floor
      <3>2. /\ Head(<<raise, floor>>) = raise /\ Tail(<<raise, floor>>) = <<floor>>
            /\ Head(<<floor, raise>>) = floor /\ Tail(<<floor, raise>>) = <<raise>>
        BY Two
      <3>3. /\ Head(<<raise>>) = raise /\ Tail(<<raise>>) = <<>>
            /\ Head(<<floor>>) = floor /\ Tail(<<floor>>) = <<>>
        BY One
      <3> QED
        BY <3>1, <3>2, <3>3, Zenon DEF w
    <2>3. StopLeavesZero'
      BY <1>3, <1>12 DEF StopLeavesZero
    <2>4. CASE /\ w = raise /\ reg["PcsSocLowerLimit"] < upper
               /\ Tail(call.todo) \in {<<>>, <<floor>>}
      <3>1. /\ reg'["PcsSocUpperLimit"] = upper
            /\ reg'["PcsSocLowerLimit"] = reg["PcsSocLowerLimit"]
        BY <2>4, <1>4 DEF Write, Registers
      <3>2. \/ call'.todo = <<>>
            \/ /\ call'.op = "soc" /\ lower < upper
               /\ call'.todo = <<Write("PcsSocLowerLimit", lower)>>
               /\ lower < reg'["PcsSocUpperLimit"]
        BY <3>1, <2>1, <2>4, <1>3, <1>12
      <3>3. CallShape'
        BY <3>2, <2>1 DEF CallShape
      <3> QED
        BY <3>1, <3>3, <2>3, <2>4 DEF SocWindowOrdered
    <2>5. CASE /\ w = floor /\ lower < reg["PcsSocUpperLimit"]
               /\ Tail(call.todo) \in {<<>>, <<raise>>}
      <3>1. /\ reg'["PcsSocLowerLimit"] = lower
            /\ reg'["PcsSocUpperLimit"] = reg["PcsSocUpperLimit"]
        BY <2>5, <1>4 DEF Write, Registers
      <3>2. \/ call'.todo = <<>>
            \/ /\ call'.op = "soc" /\ lower < upper
               /\ call'.todo = <<Write("PcsSocUpperLimit", upper)>>
               /\ reg'["PcsSocLowerLimit"] < upper
        BY <3>1, <2>1, <2>5, <1>3, <1>12
      <3>3. CallShape'
        BY <3>2, <2>1 DEF CallShape
      <3> QED
        BY <3>1, <3>3, <2>3, <2>5 DEF SocWindowOrdered
    <2> QED
      BY <2>2, <2>3, <2>4, <2>5
  <1>13. call.op \in {"heartbeat", "setpoint", "reactive", "start", "stop", "soc"}
    BY <1>1 DEF DriverInv, CallShape
  <1> QED
    BY <1>9, <1>10, <1>11, <1>12, <1>13

(* A pending write of a limit keeps the window proper even if it is the
   last one the cabinet receives. *)
LEMMA NextWriteKeepsWindow ==
    ASSUME DriverInv, call.todo # <<>>
    PROVE  LET w == Head(call.todo)
           IN \/ w.register \notin {"PcsSocUpperLimit", "PcsSocLowerLimit"}
              \/ /\ w.register = "PcsSocUpperLimit"
                 /\ reg["PcsSocLowerLimit"] < w.value
              \/ /\ w.register = "PcsSocLowerLimit"
                 /\ w.value < reg["PcsSocUpperLimit"]
  <1> DEFINE w == Head(call.todo)
  <1>1. ASSUME NEW a, NEW v, call.todo = <<Write(a, v)>>
        PROVE  w.register = a /\ w.value = v
    BY <1>1, One DEF Write
  <1>2. ASSUME NEW a, NEW v, NEW b, call.todo = <<Write(a, v), b>>
        PROVE  w.register = a /\ w.value = v
    BY <1>2, Two DEF Write
  <1> HIDE DEF w
  <1>3. CASE call.op = "soc"
    <2>1. PICK lower, upper \in 0 .. SocFull :
              \/ /\ \/ call.todo = <<Write("PcsSocUpperLimit", upper),
                                    Write("PcsSocLowerLimit", lower)>>
                    \/ call.todo = <<Write("PcsSocUpperLimit", upper)>>
                 /\ reg["PcsSocLowerLimit"] < upper
              \/ /\ \/ call.todo = <<Write("PcsSocLowerLimit", lower),
                                    Write("PcsSocUpperLimit", upper)>>
                    \/ call.todo = <<Write("PcsSocLowerLimit", lower)>>
                 /\ lower < reg["PcsSocUpperLimit"]
      BY <1>3, Zenon DEF DriverInv, CallShape
    <2>2. \/ /\ w.register = "PcsSocUpperLimit" /\ w.value = upper
             /\ reg["PcsSocLowerLimit"] < upper
          \/ /\ w.register = "PcsSocLowerLimit" /\ w.value = lower
             /\ lower < reg["PcsSocUpperLimit"]
      BY <2>1, <1>1, <1>2, Zenon
    <2> QED
      BY <2>2 DEF w
  <1>4. CASE call.op # "soc"
    <2>1. CASE call.op \in {"heartbeat", "start", "stop"}
      <3>1. \/ call.todo = <<Write("HeartbeatEnable", 1),
                             Write("HeartbeatSeconds", HeartbeatTimeout)>>
            \/ call.todo = <<Write("HeartbeatSeconds", HeartbeatTimeout)>>
            \/ call.todo = <<Write("PcsPowerOn", 1)>>
            \/ call.todo = <<Write("PcsPowerCommand", 0),
                             Write("PcsPowerOn", 0)>>
            \/ call.todo = <<Write("PcsPowerOn", 0)>>
        BY <2>1 DEF DriverInv, CallShape
      <3>2. \/ w.register = "HeartbeatEnable" \/ w.register = "HeartbeatSeconds"
            \/ w.register = "PcsPowerOn" \/ w.register = "PcsPowerCommand"
        BY <3>1, <1>1, <1>2, Zenon
      <3> QED
        BY <3>2 DEF w
    <2>2. CASE call.op \in {"setpoint", "reactive"}
      <3>1. w.register \in {"PcsPowerCommand", "PcsReactivePowerCommand"}
        BY <2>2, <1>1, Zenon DEF DriverInv, CallShape
      <3> QED
        BY <3>1 DEF w
    <2> QED
      BY <2>1, <2>2, <1>4 DEF DriverInv, CallShape
  <1> QED
    BY <1>3, <1>4

LEMMA FailedInv == DriverInv /\ WriteFailed => DriverInv'
  <1> SUFFICES ASSUME DriverInv, WriteFailed PROVE DriverInv'
    OBVIOUS
  <1> DEFINE w == Head(call.todo)
  <1>1. /\ call.todo # <<>> /\ w \in Writes /\ Tail(call.todo) \in Seq(Writes)
        /\ DriverTypeOK
    BY TodoTypes DEF DriverInv, WriteFailed
  <1>2. /\ Perform(w) \/ UNCHANGED reg
        /\ call' = [call EXCEPT !.todo = AfterFailure, !.ok = FALSE]
        /\ UNCHANGED <<status, bms, link, scan, drv>>
    BY DEF WriteFailed
  <1>3. /\ call'.op = call.op /\ call'.ok = FALSE
        /\ call'.todo = AfterFailure /\ AfterFailure \in Seq(Writes)
        /\ call' \in [op : Ops, todo : Seq(Writes), ok : BOOLEAN]
    <2>1. AfterFailure \in Seq(Writes)
      BY <1>1 DEF AfterFailure
    <2> QED
      BY <2>1, <1>1, <1>2 DEF DriverTypeOK
  <1>4. /\ reg' \in [Registers -> Int]
        /\ \A register \in Registers : reg'[register] \in Values(register)
        /\ SocWindowOrdered'
    <2>1. CASE Perform(w)
      BY <2>1, <1>1, PerformType, NextWriteKeepsWindow
      DEF DriverInv, SocWindowOrdered, Registers
    <2>2. CASE UNCHANGED reg
      BY <2>2 DEF DriverInv, DriverTypeOK, SocWindowOrdered
    <2> QED
      BY <2>1, <2>2, <1>2
  <1>5. DriverTypeOK'
    BY <1>1, <1>2, <1>3, <1>4 DEF DriverTypeOK
  <1>6. ~scan'.active
    BY <1>1, <1>2, One DEF DriverInv, Idle, DriverTypeOK
  <1>7. StopLeavesZero'
    BY <1>3 DEF StopLeavesZero
  <1>8. CallShape'
    <2>1. CASE call.op # "stop"
      BY <2>1, <1>3 DEF AfterFailure, CallShape
    <2>2. CASE call.op = "stop"
      <3> DEFINE zero == Write("PcsPowerCommand", 0)
                 off  == Write("PcsPowerOn", 0)
      <3>1. call.todo \in {<<zero, off>>, <<off>>}
        BY <2>2, <1>1 DEF DriverInv, CallShape
      <3>2. call'.todo \in {<<>>, <<off>>}
        <4> HIDE DEF zero, off
        <4>1. call'.todo = Tail(call.todo)
          BY <2>2, <1>3 DEF AfterFailure
        <4>2. Tail(<<zero, off>>) = <<off>> /\ Tail(<<off>>) = <<>>
          BY One, Two
        <4> QED
          BY <4>1, <4>2, <3>1
      <3> QED
        BY <3>2, <2>2, <1>3 DEF CallShape
    <2> QED
      BY <2>1, <2>2
  <1> QED
    BY <1>4, <1>5, <1>6, <1>7, <1>8 DEF DriverInv

-----------------------------------------------------------------------------
LEMMA CabinetChangesInv == DriverInv /\ CabinetChanges => DriverInv'
  <1> SUFFICES ASSUME DriverInv, CabinetChanges PROVE DriverInv'
    OBVIOUS
  <1>1. UNCHANGED <<scan, drv, call>>
    BY DEF CabinetChanges
  <1>2. /\ status' \in PcsStatuses /\ bms' \in BmsReports /\ link' \in BOOLEAN
    BY DriverAssumption DEF CabinetChanges, DriverInv, DriverTypeOK
  <1>3. UNCHANGED reg
        \/ \E on \in {0, 1} : reg' = [reg EXCEPT !["PcsPowerOn"] = on]
    BY DEF CabinetChanges
  <1>4. /\ reg' \in [Registers -> Int]
        /\ \A register \in Registers : reg'[register] \in Values(register)
        /\ \A register \in Registers \ {"PcsPowerOn"} :
               reg'[register] = reg[register]
    BY <1>3, ValuesFacts DEF DriverInv, DriverTypeOK, Registers
  <1>5. /\ reg'["PcsPowerCommand"] = reg["PcsPowerCommand"]
        /\ reg'["PcsSocUpperLimit"] = reg["PcsSocUpperLimit"]
        /\ reg'["PcsSocLowerLimit"] = reg["PcsSocLowerLimit"]
    BY <1>4 DEF Registers
  <1>6. DriverTypeOK'
    BY <1>1, <1>2, <1>4 DEF DriverInv, DriverTypeOK
  <1>7. CallShape'
    BY <1>1, <1>5 DEF DriverInv, CallShape
  <1> QED
    BY <1>1, <1>5, <1>6, <1>7
    DEF DriverInv, SocWindowOrdered, StopLeavesZero, Finished

LEMMA CabinetTickInv == DriverInv /\ CabinetTick => DriverInv'
  <1> SUFFICES ASSUME DriverInv, CabinetTick PROVE DriverInv'
    OBVIOUS
  <1> DEFINE left == Larger(0, reg["HeartbeatSeconds"] - 1)
  <1>1. UNCHANGED <<status, bms, link, scan, drv, call>>
    BY DEF CabinetTick
  <1>2. /\ reg \in [Registers -> Int]
        /\ \A register \in Registers : reg[register] \in Values(register)
    BY DEF DriverInv, DriverTypeOK
  <1>3. left \in 0 .. HeartbeatTimeout /\ left \in Int /\ 0 \in Int16
    BY <1>2, ValuesFacts, DriverAssumption, Int16Facts
    DEF Larger, Registers, Int16
  <1>4. UNCHANGED reg
        \/ reg' = [reg EXCEPT
               !["HeartbeatSeconds"] = left,
               !["PcsPowerCommand"] = IF left = 0 THEN 0 ELSE @]
    BY DEF CabinetTick, CountDown
  <1> HIDE DEF left
  <1>5. /\ reg' \in [Registers -> Int]
        /\ reg'["HeartbeatSeconds"] \in {reg["HeartbeatSeconds"], left}
        /\ reg'["PcsPowerCommand"] \in {reg["PcsPowerCommand"], 0}
        /\ \A register \in Registers \ {"HeartbeatSeconds", "PcsPowerCommand"} :
               reg'[register] = reg[register]
    BY <1>2, <1>3, <1>4 DEF Registers
  <1>6. \A register \in Registers : reg'[register] \in Values(register)
    BY <1>2, <1>3, <1>5, ValuesFacts DEF Registers
  <1>7. /\ reg["PcsPowerCommand"] = 0 => reg'["PcsPowerCommand"] = 0
        /\ reg'["PcsSocUpperLimit"] = reg["PcsSocUpperLimit"]
        /\ reg'["PcsSocLowerLimit"] = reg["PcsSocLowerLimit"]
    BY <1>5 DEF Registers
  <1>8. DriverTypeOK'
    BY <1>1, <1>5, <1>6 DEF DriverInv, DriverTypeOK
  <1>9. CallShape'
    BY <1>1, <1>7 DEF DriverInv, CallShape
  <1> QED
    BY <1>1, <1>7, <1>8, <1>9
    DEF DriverInv, SocWindowOrdered, StopLeavesZero, Finished

LEMMA PollBeginInv == DriverInv /\ PollBegin => DriverInv'
  <1> SUFFICES ASSUME DriverInv, PollBegin PROVE DriverInv'
    OBVIOUS
  <1>1. /\ call = Idle /\ UNCHANGED <<reg, status, bms, link, drv, call>>
        /\ scan' = [active |-> TRUE, ok |-> link,
                    powerOn |-> reg["PcsPowerOn"] = 1, status |-> status]
    BY DEF PollBegin, Quiet
  <1>2. DriverTypeOK'
    BY <1>1 DEF DriverInv, DriverTypeOK
  <1>3. CallShape' /\ SocWindowOrdered' /\ StopLeavesZero'
    BY <1>1
    DEF DriverInv, CallShape, SocWindowOrdered, StopLeavesZero, Finished
  <1> QED
    BY <1>1, <1>2, <1>3 DEF DriverInv

LEMMA PollResultType ==
    ASSUME DriverTypeOK
    PROVE  /\ PollResult.read \in BOOLEAN /\ PollResult.good \in BOOLEAN
           /\ PollResult.limitsValid \in BOOLEAN
           /\ PollResult.controlReady \in BOOLEAN
           /\ PollResult.faulted \in BOOLEAN /\ PollResult.bms \in BmsReports
  <1>1. LimitsValid(bms) \in BOOLEAN
    BY DEF LimitsValid, DriverTypeOK, BmsReports
  <1> QED
    BY <1>1, FreshTypes DEF PollResult, DriverTypeOK, PcsStatuses

LEMMA PollEndInv == DriverInv /\ PollEnd => DriverInv'
  <1> SUFFICES ASSUME DriverInv, PollEnd PROVE DriverInv'
    OBVIOUS
  <1>1. /\ scan.active /\ call = Idle /\ scan' = NoScan
        /\ UNCHANGED <<reg, status, bms, link, call>>
    BY DEF PollEnd, DriverInv
  <1>2. drv' \in [telemetryValid : BOOLEAN, controlReady : BOOLEAN,
                  limitsValid : BOOLEAN, faultsClear : BOOLEAN,
                  gridModeReady : BOOLEAN, workModeReady : BOOLEAN,
                  bms : BmsReports]
    BY PollResultType DEF PollEnd, DriverInv, DriverTypeOK, PcsStatuses
  <1>3. DriverTypeOK'
    BY <1>1, <1>2, FreshTypes DEF DriverInv, DriverTypeOK
  <1>4. CallShape' /\ SocWindowOrdered' /\ StopLeavesZero'
    BY <1>1 DEF DriverInv, CallShape, SocWindowOrdered, StopLeavesZero, Idle
  <1> QED
    BY <1>1, <1>3, <1>4 DEF DriverInv

LEMMA ReturnInv == DriverInv /\ Return => DriverInv'
  <1> SUFFICES ASSUME DriverInv, Return PROVE DriverInv'
    OBVIOUS
  <1>1. call' = Idle /\ UNCHANGED <<reg, status, bms, link, scan, drv>>
    BY DEF Return
  <1> QED
    BY <1>1, FreshTypes
    DEF DriverInv, DriverTypeOK, CallShape, SocWindowOrdered, StopLeavesZero,
        Idle

LEMMA RestartInv == DriverInv /\ Restart => DriverInv'
  <1> SUFFICES ASSUME DriverInv, Restart PROVE DriverInv'
    OBVIOUS
  <1>1. /\ scan' = NoScan /\ drv' = FreshDriver /\ call' = Idle
        /\ UNCHANGED <<reg, status, bms, link>>
    BY DEF Restart, cabinetVars
  <1>2. DriverTypeOK'
    BY <1>1, FreshTypes DEF DriverInv, DriverTypeOK
  <1> QED
    BY <1>1, <1>2
    DEF DriverInv, CallShape, SocWindowOrdered, StopLeavesZero, Idle

LEMMA DriverStepInv == DriverInv /\ [DriverNext]_driverVars => DriverInv'
  <1> SUFFICES ASSUME DriverInv, [DriverNext]_driverVars PROVE DriverInv'
    OBVIOUS
  <1>1. CASE UNCHANGED driverVars
    BY <1>1
    DEF driverVars, DriverInv, DriverTypeOK, CallShape, SocWindowOrdered,
        StopLeavesZero, Finished
  <1>2. CASE \E power \in PowerRange : WritePowerSetpointKw(power)
    BY <1>2, SetpointInv
  <1>3. CASE \E power \in ReactiveRange : WriteReactivePowerSetpointKvar(power)
    BY <1>3, ReactiveInv
  <1>4. CASE \E on \in BOOLEAN : WritePowerState(on)
    BY <1>4, PowerStateInv
  <1>5. CASE \E lower, upper \in SocRange : WriteSocLimitsPct(lower, upper)
    BY <1>5, SocLimitsInv
  <1> QED
    BY <1>1, <1>2, <1>3, <1>4, <1>5, CabinetChangesInv, CabinetTickInv,
       PollBeginInv, PollEndInv, HeartbeatInv, AcknowledgedInv, FailedInv,
       ReturnInv, RestartInv
    DEF DriverNext

LEMMA DriverInvariant == DriverSpec => []DriverInv
  BY DriverInitInv, DriverStepInv, PTL DEF DriverSpec

-----------------------------------------------------------------------------
(* In every reachable state, whatever is called in whatever order and
   whichever exchange is lost, each register of the cabinet holds a value it
   admits and each pending write carries one: the range checks of the write
   operations suffice. *)
THEOREM DriverTypeCorrect == DriverSpec => []DriverTypeOK
  BY DriverInvariant, PTL DEF DriverInv

(* writeSocLimitsPct never leaves an inverted window of permitted state of
   charge in the cabinet, not even between its two writes or when only the
   first of them arrives. *)
THEOREM SocWindowSafe == DriverSpec => []SocWindowOrdered
  BY DriverInvariant, PTL DEF DriverInv

(* A stop that writePowerState reports as done left no power command. *)
THEOREM StopSafe == DriverSpec => []StopLeavesZero
  BY DriverInvariant, PTL DEF DriverInv

(* A power write that is not zero is one the driver has accepted. *)
LEMMA NextPowerWrite ==
    ASSUME DriverInv, call.todo # <<>>,
           Head(call.todo).register = "PcsPowerCommand",
           Head(call.todo).value # 0
    PROVE  /\ call.op = "setpoint" /\ drv.controlReady /\ drv.limitsValid
           /\ \E power \in PowerRange :
                  /\ DriverAccepts(power, drv.bms)
                  /\ Head(call.todo).value = EncodeSigned(power)
  <1> DEFINE w == Head(call.todo)
  <1>1. ASSUME NEW a, NEW v, call.todo = <<Write(a, v)>>
        PROVE  w.register = a /\ w.value = v
    BY <1>1, One DEF Write
  <1>2. ASSUME NEW a, NEW v, NEW b, call.todo = <<Write(a, v), b>>
        PROVE  w.register = a /\ w.value = v
    BY <1>2, Two DEF Write
  <1>3. w.register = "PcsPowerCommand" /\ w.value # 0
    OBVIOUS
  <1> HIDE DEF w
  <1>4. CASE call.op = "setpoint"
    <2>1. PICK power \in PowerRange :
              /\ drv.controlReady /\ drv.limitsValid
              /\ DriverAccepts(power, drv.bms)
              /\ call.todo = <<Write("PcsPowerCommand", EncodeSigned(power))>>
      BY <1>4 DEF DriverInv, CallShape
    <2>2. w.value = EncodeSigned(power)
      BY <2>1, <1>1
    <2> QED
      BY <1>4, <2>1, <2>2 DEF w
  <1>5. CASE call.op \in {"heartbeat", "start", "stop"}
    <2>1. \/ call.todo = <<Write("HeartbeatEnable", 1),
                           Write("HeartbeatSeconds", HeartbeatTimeout)>>
          \/ call.todo = <<Write("HeartbeatSeconds", HeartbeatTimeout)>>
          \/ call.todo = <<Write("PcsPowerOn", 1)>>
          \/ call.todo = <<Write("PcsPowerCommand", 0), Write("PcsPowerOn", 0)>>
          \/ call.todo = <<Write("PcsPowerOn", 0)>>
      BY <1>5 DEF DriverInv, CallShape
    <2>2. \/ w.register = "HeartbeatEnable" \/ w.register = "HeartbeatSeconds"
          \/ w.register = "PcsPowerOn" \/ w.value = 0
      BY <2>1, <1>1, <1>2, Zenon
    <2> QED
      BY <2>2, <1>3
  <1>6. CASE call.op \in {"reactive", "soc"}
    <2>1. \/ w.register = "PcsReactivePowerCommand"
          \/ w.register = "PcsSocUpperLimit" \/ w.register = "PcsSocLowerLimit"
      <3>1. CASE call.op = "reactive"
        <4>1. PICK raw : call.todo = <<Write("PcsReactivePowerCommand", raw)>>
          BY <3>1 DEF DriverInv, CallShape
        <4> QED
          BY <4>1, <1>1
      <3>2. CASE call.op = "soc"
        <4>1. PICK lower, upper :
                  \/ call.todo = <<Write("PcsSocUpperLimit", upper),
                                   Write("PcsSocLowerLimit", lower)>>
                  \/ call.todo = <<Write("PcsSocLowerLimit", lower),
                                   Write("PcsSocUpperLimit", upper)>>
                  \/ call.todo = <<Write("PcsSocLowerLimit", lower)>>
                  \/ call.todo = <<Write("PcsSocUpperLimit", upper)>>
          BY <3>2, Zenon DEF DriverInv, CallShape
        <4> QED
          BY <4>1, <1>1, <1>2, Zenon
      <3> QED
        BY <3>1, <3>2, <1>6
    <2> QED
      BY <2>1, <1>3
  <1> QED
    BY <1>4, <1>5, <1>6 DEF DriverInv, CallShape

(* What the driver accepts stays within the polled limits when rounded. *)
LEMMA AcceptedWithinLimits ==
    ASSUME NEW power \in PowerRange, NEW b \in BmsReports,
           DriverAccepts(power, b)
    PROVE  LET p == EncodeSigned(power)
           IN /\ p < 0 => ~b.chargeProhibited /\ -p <= b.maxCharge
              /\ p > 0 => ~b.dischargeProhibited /\ p <= b.maxDischarge
  <1> DEFINE p == EncodeSigned(power)
  <1>1. power \in Int /\ b.maxCharge \in Int16 /\ b.maxDischarge \in Int16
    BY DriverAssumption DEF PowerRange, BmsReports
  <1>2. /\ p \in Int /\ b.maxCharge \in Int /\ b.maxDischarge \in Int
    BY <1>1, EncodeType, Int16Facts DEF Int16
  <1>3. 0 \in Int16
    BY Int16Facts DEF Int16
  <1>4. (power <= 0 => p <= 0) /\ (power >= 0 => p >= 0)
    BY <1>1, <1>3, EncodeBound
  <1>5. b.maxCharge >= 0 /\ -power <= 2 * b.maxCharge => -p <= b.maxCharge
    BY <1>1, EncodeBound
  <1>6. b.maxDischarge >= 0 /\ power <= 2 * b.maxDischarge
            => p <= b.maxDischarge
    BY <1>1, EncodeBound
  <1> HIDE DEF p
  <1>7. p < 0 => ~b.chargeProhibited /\ -p <= b.maxCharge
    BY <1>1, <1>2, <1>4, <1>5 DEF DriverAccepts, Larger, DecodeSigned
  <1>8. p > 0 => ~b.dischargeProhibited /\ p <= b.maxDischarge
    BY <1>1, <1>2, <1>4, <1>6 DEF DriverAccepts, Larger, DecodeSigned
  <1> QED
    BY <1>7, <1>8 DEF p

LEMMA PowerStep ==
    ASSUME DriverInv, [DriverNext]_driverVars
    PROVE  [PowerWritten]_driverVars
  <1>1. ASSUME reg'["PcsPowerCommand"] = reg["PcsPowerCommand"]
               \/ reg'["PcsPowerCommand"] = 0
        PROVE  PowerWritten
    BY <1>1 DEF PowerWritten
  <1>2. CASE UNCHANGED driverVars
    BY <1>2
  <1>3. CASE WriteAcknowledged \/ WriteFailed
    <2>1. CASE UNCHANGED reg
      BY <2>1, <1>1
    <2>2. CASE call.todo # <<>> /\ Perform(Head(call.todo))
      <3> DEFINE w == Head(call.todo)
      <3>1. /\ w \in Writes /\ reg'[w.register] = w.value
            /\ \A register \in Registers \ {w.register} :
                   reg'[register] = reg[register]
        BY <2>2, TodoTypes, PerformType DEF DriverInv
      <3>2. CASE w.register # "PcsPowerCommand"
        BY <3>1, <3>2, <1>1 DEF Registers
      <3>3. CASE w.register = "PcsPowerCommand" /\ w.value # 0
        BY <3>1, <3>3, <2>2, NextPowerWrite, AcceptedWithinLimits
        DEF PowerWritten, DriverInv, DriverTypeOK
      <3> QED
        BY <3>1, <3>2, <3>3, <1>1
    <2> QED
      BY <2>1, <2>2, <1>3 DEF WriteAcknowledged, WriteFailed
  <1>4. CASE CabinetTick
    BY <1>1, <1>4
    DEF CabinetTick, CountDown, DriverInv, DriverTypeOK, Registers
  <1>5. CASE CabinetChanges
    BY <1>1, <1>5 DEF CabinetChanges, DriverInv, DriverTypeOK, Registers
  <1>6. CASE UNCHANGED reg
    BY <1>1, <1>6
  <1>7. PollBegin \/ PollEnd \/ RefreshHeartbeat \/ Return \/ Restart
          => UNCHANGED reg
    BY DEF PollBegin, PollEnd, RefreshHeartbeat, Begin, Return, Restart,
           cabinetVars
  <1>8. /\ \A power : WritePowerSetpointKw(power) => UNCHANGED reg
        /\ \A power : WriteReactivePowerSetpointKvar(power) => UNCHANGED reg
        /\ \A on : WritePowerState(on) => UNCHANGED reg
        /\ \A lower, upper : WriteSocLimitsPct(lower, upper) => UNCHANGED reg
    BY DEF WritePowerSetpointKw, WriteReactivePowerSetpointKvar,
           WritePowerState, WriteSocLimitsPct, Begin
  <1> QED
    BY <1>2, <1>3, <1>4, <1>5, <1>6, <1>7, <1>8 DEF DriverNext

(* A power other than zero is written to 5005 only within the limits and
   prohibitions of the last poll, whatever is called in whatever order: the
   driver's own check holds after rounding to the register and however the
   BMS report changes between the poll and the write. *)
THEOREM SetpointSafe == DriverSpec => SetpointWithinPolledLimits
  BY DriverInvariant, PowerStep, PTL
  DEF DriverSpec, SetpointWithinPolledLimits

-----------------------------------------------------------------------------
(* Without the approvals: no write is ever pending, and the watchdog of the
   cabinet, which would count register 5301 down, stays off. *)
LockedInv ==
    ~WritesEnabled => call.todo = <<>> /\ reg["HeartbeatEnable"] = 0

LEMMA LockedStep ==
    ASSUME ~WritesEnabled, DriverInv, LockedInv, [DriverNext]_driverVars
    PROVE  /\ LockedInv'
           /\ \/ UNCHANGED reg
              \/ LocalPanel /\ \E on \in {0, 1} :
                     reg' = [reg EXCEPT !["PcsPowerOn"] = on]
  <1>1. call.todo = <<>> /\ reg["HeartbeatEnable"] = 0
    BY DEF LockedInv
  <1>2. CASE UNCHANGED <<reg, call>>
    BY <1>1, <1>2 DEF LockedInv
  <1>3. CASE CabinetChanges
    BY <1>1, <1>3
    DEF CabinetChanges, LockedInv, DriverInv, DriverTypeOK, Registers
  <1>4. CASE UNCHANGED reg /\ call'.todo = <<>>
    BY <1>1, <1>4 DEF LockedInv
  <1>5. CASE Return \/ Restart
    BY <1>1, <1>5 DEF Return, Restart, Idle, cabinetVars, LockedInv
  <1>6. CabinetTick \/ PollBegin \/ PollEnd \/ UNCHANGED driverVars
          => UNCHANGED <<reg, call>>
    BY <1>1 DEF CabinetTick, CountDown, PollBegin, PollEnd, driverVars
  <1>7. ASSUME NEW op, NEW accepted, ~accepted, NEW todo,
               Begin(op, accepted, todo)
        PROVE  UNCHANGED reg /\ call'.todo = <<>>
    BY <1>7 DEF Begin
  <1>8. RefreshHeartbeat => UNCHANGED reg /\ call'.todo = <<>>
    BY <1>7 DEF RefreshHeartbeat
  <1>9. \A power : WritePowerSetpointKw(power)
                      => UNCHANGED reg /\ call'.todo = <<>>
    BY <1>7 DEF WritePowerSetpointKw
  <1>10. \A power : WriteReactivePowerSetpointKvar(power)
                      => UNCHANGED reg /\ call'.todo = <<>>
    BY <1>7 DEF WriteReactivePowerSetpointKvar
  <1>11. \A on : WritePowerState(on) => UNCHANGED reg /\ call'.todo = <<>>
    BY <1>7 DEF WritePowerState
  <1>12. \A lower, upper : WriteSocLimitsPct(lower, upper)
                             => UNCHANGED reg /\ call'.todo = <<>>
    BY <1>7 DEF WriteSocLimitsPct
  <1>13. ~WriteAcknowledged /\ ~WriteFailed
    BY <1>1 DEF WriteAcknowledged, WriteFailed
  <1> QED
    BY <1>2, <1>3, <1>4, <1>5, <1>6, <1>8, <1>9, <1>10, <1>11, <1>12, <1>13
    DEF DriverNext

(* Without the approvals of all three parties nothing the gateway does ever
   changes a register of the cabinet: each write operation repeats the check,
   and none is left out, whatever is called in whatever order. *)
THEOREM LockedSafe == DriverSpec => LockedMeansUntouched
  <1>1. DriverInit => LockedInv
    BY DEF DriverInit, LockedInv, Idle, Registers
  <1>2. DriverInv /\ LockedInv /\ [DriverNext]_driverVars => LockedInv'
    BY LockedStep DEF LockedInv
  <1>3. DriverInv /\ LockedInv /\ [DriverNext]_driverVars
          => [~WritesEnabled =>
                 \/ UNCHANGED reg
                 \/ LocalPanel /\ \E on \in {0, 1} :
                        reg' = [reg EXCEPT !["PcsPowerOn"] = on]]_driverVars
    BY LockedStep
  <1> QED
    BY <1>1, <1>2, <1>3, DriverInvariant, PTL
    DEF DriverSpec, LockedMeansUntouched
=============================================================================
