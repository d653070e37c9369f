-------------------------- MODULE EdgeServiceProofs --------------------------
(***************************************************************************)
(* Proofs about the control path, for every value of its constants.        *)
(*                                                                         *)
(*   1. Types, and that each step of the service is one of the driver.     *)
(*   2. Time: a power in the cabinet is always under a running watchdog,   *)
(*      and none is written for an EMS that has fallen silent.             *)
(*   3. Commands: the power the controller decides on is within every      *)
(*      limit, is never refused by the driver, is what the registers       *)
(*      report, stays off while the cabinet is switched off, and ends when *)
(*      the EMS is silent; an operator command answered with success has   *)
(*      been carried out.                                                  *)
(***************************************************************************)
EXTENDS EdgeService, DriverProofs

(* 1. Types and the driver.                                                 *)

(* The types of the service's variables, and where the contents of the bank
   come from: an operator request that is being carried out is one a client
   has written. *)
ServiceInv ==
    /\ ServiceTypeOK
    /\ ems \in EmsWrites \cup {ZeroEms}
    /\ operator \in OperatorWrites \cup {ZeroOperator}
    /\ operation.todo # <<>> => operation.request \in OperatorWrites
    /\ pc = "actionReply" => operation.todo # <<>>

-----------------------------------------------------------------------------
(* The envelope never asks for more than was requested. *)
LEMMA CappedType ==
    ASSUME NEW power \in Int, power >= 0, NEW caps \in SUBSET Int
    PROVE  Capped(power, caps) \in Int /\ Capped(power, caps) >= 0
  <1>1. CASE caps = {}
    BY <1>1 DEF Capped
  <1>2. CASE caps # {}
    <2>1. (CHOOSE cap \in caps : TRUE) \in Int
      BY <1>2
    <2> QED
      BY <1>2, <2>1 DEF Capped, Smaller, Larger
  <1> QED
    BY <1>1, <1>2

LEMMA BoundsType ==
    ASSUME NEW b \in BmsReports
    PROVE  /\ LowerBound(b, ChargeCap, {}) \in Int
           /\ LowerBound(b, ChargeCap, {}) <= 0
           /\ UpperBound(b, DischargeCap) \in Int
           /\ UpperBound(b, DischargeCap) >= 0
  <1> DEFINE charge == Larger(0, DecodeSigned(b.maxCharge))
             discharge == Larger(0, DecodeSigned(b.maxDischarge))
  <1>1. b.maxCharge \in Int /\ b.maxDischarge \in Int
    BY Int16Facts DEF BmsReports, Int16
  <1>2. charge \in Int /\ charge >= 0 /\ discharge \in Int /\ discharge >= 0
    BY <1>1 DEF Larger, DecodeSigned
  <1> HIDE DEF charge, discharge
  <1>3. Capped(charge, ChargeCap) \in Int /\ Capped(charge, ChargeCap) >= 0
    BY <1>2, CappedType, ServiceAssumption
  <1>4. Capped(Capped(charge, ChargeCap), {}) = Capped(charge, ChargeCap)
    BY DEF Capped
  <1>5. Capped(discharge, DischargeCap) \in Int
          /\ Capped(discharge, DischargeCap) >= 0
    BY <1>2, CappedType, ServiceAssumption
  <1>6. LowerBound(b, ChargeCap, {}) = (IF b.chargeProhibited THEN 0
                                        ELSE -Capped(charge, ChargeCap))
    BY <1>4 DEF LowerBound, charge
  <1>7. UpperBound(b, DischargeCap) = (IF b.dischargeProhibited THEN 0
                                       ELSE Capped(discharge, DischargeCap))
    BY DEF UpperBound, discharge
  <1> QED
    BY <1>3, <1>5, <1>6, <1>7

LEMMA EnvelopeType ==
    ASSUME ServiceTypeOK
    PROVE  Envelope \in PowerRange
  <1> DEFINE lo == LowerBound(tick.battery.bms, ChargeCap, {})
             hi == UpperBound(tick.battery.bms, DischargeCap)
  <1>1. requested \in -MaxPower .. MaxPower /\ MaxPower \in Nat
    BY DriverAssumption DEF ServiceTypeOK, PowerRange
  <1>2. lo \in Int /\ lo <= 0 /\ hi \in Int /\ hi >= 0
    BY BoundsType DEF ServiceTypeOK, Ticks, Batteries
  <1>3. Envelope = 0 \/ Envelope = Clamp(requested, lo, hi)
    BY DEF Envelope, Apply
  <1> HIDE DEF lo, hi
  <1>4. Clamp(requested, lo, hi) \in -MaxPower .. MaxPower
    BY <1>1, <1>2 DEF Clamp
  <1> QED
    BY <1>1, <1>3, <1>4 DEF PowerRange

-----------------------------------------------------------------------------
(* Every step of the service is a step of the driver's client, or leaves the
   driver alone. *)
LEMMA ServiceStepIsDriverStep ==
    ASSUME ServiceInv, [Next]_vars
    PROVE  [DriverNext]_driverVars
  <1>1. CASE UNCHANGED vars
    BY <1>1 DEF vars, driverVars
  <1>2. CASE TakeCommand \/ TakeOperatorCommand \/ OperatorDone \/ Publish
             \/ WriteEms \/ WriteOperator \/ StartAgain
    BY <1>2 DEF TakeCommand, TakeOperatorCommand, OperatorDone, Publish,
                WriteEms, WriteOperator, StartAgain
  <1>3. CASE Poll \/ PollDone \/ HeartbeatDone \/ SetpointDone
             \/ OperatorActionDone
    BY <1>3 DEF Poll, PollDone, HeartbeatDone, SetpointDone,
                OperatorActionDone, DriverNext
  <1>4. CASE Heartbeat
    BY <1>4 DEF Heartbeat, DriverNext
  <1>5. CASE ApplySetpoint
    BY <1>5, EnvelopeType DEF ApplySetpoint, DriverNext, ServiceInv
  <1>6. CASE OperatorAction
    <2>1. /\ operation.request.lower \in SocRange
          /\ operation.request.upper \in SocRange
          /\ DecodeSigned(operation.request.reactive) \in ReactiveRange
      BY <1>6, ServiceAssumption DEF OperatorAction, ServiceInv
    <2>2. (operation.request.run = 1) \in BOOLEAN
      OBVIOUS
    <2> QED
      BY <1>6, <2>1, <2>2 DEF OperatorAction, DriverNext
  <1>7. CASE Exchange
    BY <1>7 DEF Exchange, DriverNext
  <1>8. CASE Crash \/ Elapse \/ Cabinet
    BY <1>8 DEF Crash, Elapse, Cabinet, DriverNext
  <1> QED
    BY <1>1, <1>2, <1>3, <1>4, <1>5, <1>6, <1>7, <1>8 DEF Next, MainLoop

-----------------------------------------------------------------------------
LEMMA ZeroTypes ==
    /\ NoTick \in Ticks /\ NoBattery \in Batteries
    /\ ZeroEms \in EmsRegisters /\ ZeroOperator \in OperatorRegisters
    /\ NoOperation \in Operations /\ NoOperation.todo = <<>>
    /\ NothingTaken \in [sequence : Nat, heartbeat : Nat, operator : Nat]
    /\ [applied |-> 0, state |-> "Boot", operatorSequence |-> 0,
        operatorResult |-> 0] \in InputRegisters
    /\ 0 \in PowerRange
    /\ EmsTimeout + 1 \in 0 .. EmsTimeout + 1
    /\ HeartbeatRefresh \in 0 .. HeartbeatRefresh
    /\ 0 \in 0 .. MaxLoop
    /\ SilenceCap \in 0 .. SilenceCap
  <1>1. 0 \in Int16
    BY Int16Facts DEF Int16
  <1>2. 0 \in PowerRange
    BY DriverAssumption DEF PowerRange
  <1>3. NoBattery \in Batteries
    BY FreshTypes DEF NoBattery, Batteries
  <1>4. NoTick \in Ticks
    BY <1>2, <1>3 DEF NoTick, Ticks, EdgeStates
  <1>5. ZeroEms \in EmsRegisters
    BY <1>1 DEF ZeroEms, EmsRegisters
  <1>6. ZeroOperator \in OperatorRegisters
    BY <1>1 DEF ZeroOperator, OperatorRegisters
  <1>7. NoOperation \in Operations /\ NoOperation.todo = <<>>
    BY <1>6 DEF NoOperation, Operations
  <1>8. NothingTaken \in [sequence : Nat, heartbeat : Nat, operator : Nat]
    BY DEF NothingTaken
  <1>9. [applied |-> 0, state |-> "Boot", operatorSequence |-> 0,
         operatorResult |-> 0] \in InputRegisters
    BY <1>1 DEF InputRegisters, EdgeStates
  <1>10. /\ EmsTimeout + 1 \in 0 .. EmsTimeout + 1
         /\ HeartbeatRefresh \in 0 .. HeartbeatRefresh
         /\ 0 \in 0 .. MaxLoop
         /\ SilenceCap \in 0 .. SilenceCap
    BY ServiceAssumption DEF SilenceCap
  <1> QED
    BY <1>2, <1>3, <1>4, <1>5, <1>6, <1>7, <1>8, <1>9, <1>10

LEMMA ServiceInitInv == Init => ServiceInv
  BY ZeroTypes DEF Init, ServiceInit, ServiceInv, ServiceTypeOK, PcValues

LEMMA TakeCommandType == ServiceInv /\ TakeCommand => ServiceInv'
  <1> SUFFICES ASSUME ServiceInv, TakeCommand PROVE ServiceInv'
    OBVIOUS
  <1>1. /\ last' = [last EXCEPT !.sequence = ems.sequence,
                                !.heartbeat = ems.heartbeat]
        /\ requested' = IF ~CommandPending THEN requested
                        ELSE IF ems.enable = 1 THEN DecodeSigned(ems.power)
                             ELSE 0
        /\ commandAge' = IF CommandPending THEN 0 ELSE commandAge
        /\ loopAge' = 0 /\ pc' = "poll"
        /\ tick' = [NoTick EXCEPT
                       !.emsConnected = commandAge' <= EmsTimeout,
                       !.heartbeatOk = heartbeatAge < HeartbeatRefresh]
        /\ UNCHANGED <<ems, operator, heartbeatAge, operation, published,
                       emsSilence>>
    BY DEF TakeCommand
  <1>2. requested' \in PowerRange
    <2>1. DecodeSigned(ems.power) \in PowerRange
      BY ServiceAssumption, ZeroTypes
      DEF ServiceInv, ZeroEms, DecodeSigned
    <2> QED
      BY <1>1, <2>1, ZeroTypes DEF ServiceInv, ServiceTypeOK
  <1>3. /\ last' \in [sequence : Nat, heartbeat : Nat, operator : Nat]
        /\ commandAge' \in 0 .. EmsTimeout + 1
        /\ loopAge' \in 0 .. MaxLoop /\ pc' \in PcValues
    <2>1. ems.sequence \in Nat /\ ems.heartbeat \in Nat
      BY DEF ServiceInv, ServiceTypeOK, EmsRegisters
    <2>2. last' \in [sequence : Nat, heartbeat : Nat, operator : Nat]
      BY <1>1, <2>1 DEF ServiceInv, ServiceTypeOK
    <2>3. commandAge' \in 0 .. EmsTimeout + 1
      BY <1>1, ServiceAssumption DEF ServiceInv, ServiceTypeOK
    <2> QED
      BY <1>1, <2>2, <2>3, ZeroTypes DEF PcValues
  <1>4. tick' \in Ticks
    <2>1. (commandAge' <= EmsTimeout) \in BOOLEAN
          /\ (heartbeatAge < HeartbeatRefresh) \in BOOLEAN
      OBVIOUS
    <2> QED
      BY <1>1, <2>1, ZeroTypes DEF Ticks
  <1> QED
    BY <1>1, <1>2, <1>3, <1>4 DEF ServiceInv, ServiceTypeOK

LEMMA PollResultBattery ==
    ASSUME DriverTypeOK
    PROVE  PollResult \in Batteries
  <1>1. LimitsValid(bms) \in BOOLEAN
    BY DEF LimitsValid, DriverTypeOK, BmsReports
  <1>2. bms \in BmsReports /\ FreshDriver.bms \in BmsReports
        /\ scan.status.faulted \in BOOLEAN
    BY FreshTypes DEF DriverTypeOK, PcsStatuses
  <1> QED
    BY <1>1, <1>2 DEF PollResult, Batteries

LEMMA StateOfType ==
    ASSUME NEW t PROVE StateOf(t) \in EdgeStates
  BY DEF StateOf, EdgeStates

LEMMA TickType ==
    ASSUME DriverTypeOK, ServiceInv,
           PollDone \/ HeartbeatDone \/ ApplySetpoint \/ SetpointDone
    PROVE  ServiceInv'
  <1>1. /\ UNCHANGED <<ems, operator, emsSilence, last, requested, commandAge,
                       loopAge, operation, published>>
        /\ pc' \in {"heartbeat", "setpoint", "setpointReply", "operator"}
    BY DEF PollDone, HeartbeatDone, ApplySetpoint, SetpointDone, bankVars
  <1>2. heartbeatAge' \in 0 .. HeartbeatRefresh
    <2>1. Smaller(loopAge, HeartbeatRefresh) \in 0 .. HeartbeatRefresh
      BY ServiceAssumption DEF ServiceInv, ServiceTypeOK, Smaller
    <2> QED
      BY <2>1 DEF PollDone, HeartbeatDone, ApplySetpoint, SetpointDone,
                  ServiceInv, ServiceTypeOK
  <1>3. tick' \in Ticks
    <2>1. tick \in Ticks /\ Envelope \in PowerRange /\ 0 \in PowerRange
            /\ call.ok \in BOOLEAN
      BY EnvelopeType, ZeroTypes DEF ServiceInv, ServiceTypeOK, DriverTypeOK
    <2>2. CASE PollDone
      BY <2>1, <2>2, PollResultBattery DEF PollDone, Ticks
    <2>3. CASE HeartbeatDone
      BY <2>1, <2>3 DEF HeartbeatDone, Ticks
    <2>4. CASE ApplySetpoint
      BY <2>1, <2>4, StateOfType DEF ApplySetpoint, Ticks, EdgeStates
    <2>5. CASE SetpointDone
      BY <2>1, <2>5 DEF SetpointDone, Ticks, EdgeStates
    <2> QED
      BY <2>2, <2>3, <2>4, <2>5
  <1> QED
    BY <1>1, <1>2, <1>3 DEF ServiceInv, ServiceTypeOK, PcValues

(* The actions of a request are those its mask names, so a request without
   any is never carried out: what is carried out was written by a client. *)
LEMMA ActionOrderType ==
    ASSUME NEW mask
    PROVE  ActionOrder(mask) \in Seq(Actions)
  <1> DEFINE Only(action) == IF action \in mask THEN <<action>> ELSE <<>>
  <1>1. \A action \in Actions : Only(action) \in Seq(Actions)
    OBVIOUS
  <1>2. /\ Only("RunState") \in Seq(Actions) /\ Only("SocLimits") \in Seq(Actions)
        /\ Only("ReactivePower") \in Seq(Actions)
    BY <1>1 DEF Actions
  <1>3. ActionOrder(mask)
            = Only("RunState") \o Only("SocLimits") \o Only("ReactivePower")
    BY DEF ActionOrder
  <1> HIDE DEF Only
  <1> QED
    BY <1>2, <1>3

LEMMA OperatorType ==
    ASSUME DriverTypeOK, ServiceInv,
           TakeOperatorCommand \/ OperatorActionDone \/ OperatorDone
    PROVE  ServiceInv'
  <1>1. /\ UNCHANGED <<ems, operator, emsSilence, requested, commandAge,
                       heartbeatAge, loopAge, tick>>
        /\ pc' \in {"publish", "actions"}
    BY DEF TakeOperatorCommand, OperatorActionDone, OperatorDone, bankVars
  <1>2. /\ operator \in OperatorRegisters /\ operator.sequence \in Nat
        /\ operator.mask \subseteq Actions \cup {"Other"}
        /\ operation \in Operations /\ operation.request.sequence \in Nat
    BY DEF ServiceInv, ServiceTypeOK, OperatorRegisters, Operations
  <1>3. last' \in [sequence : Nat, heartbeat : Nat, operator : Nat]
    BY <1>2 DEF TakeOperatorCommand, OperatorActionDone, OperatorDone,
                ServiceInv, ServiceTypeOK
  <1>4. ASSUME NEW sequence \in Nat, NEW result \in 0 .. 4,
               PublishOperatorResult(sequence, result)
        PROVE  published' \in InputRegisters
    BY <1>4 DEF PublishOperatorResult, InputRegisters, ServiceInv,
                ServiceTypeOK
  <1>5. published' \in InputRegisters
    <2>1. CASE UNCHANGED published
      BY <2>1 DEF ServiceInv, ServiceTypeOK
    <2>2. CASE PublishOperatorResult(operator.sequence,
                                     IF operator.key THEN 3 ELSE 2)
      BY <2>2, <1>2, <1>4
    <2>3. CASE PublishOperatorResult(operation.request.sequence,
                                     IF operation.accepted THEN 1 ELSE 4)
      BY <2>3, <1>2, <1>4
    <2> QED
      BY <2>1, <2>2, <2>3
      DEF TakeOperatorCommand, OperatorActionDone, OperatorDone
  <1>6. /\ operation' \in Operations
        /\ operation'.todo # <<>> => operation'.request \in OperatorWrites
    <2>1. CASE TakeOperatorCommand /\ UNCHANGED operation
      BY <2>1 DEF ServiceInv, ServiceTypeOK
    <2>2. CASE /\ ~InvalidRequest(operator)
               /\ operation' = [request |-> operator,
                                todo |-> ActionOrder(operator.mask),
                                accepted |-> TRUE]
      <3>1. operator # ZeroOperator
        BY <2>2 DEF InvalidRequest, ZeroOperator
      <3>2. operator \in OperatorWrites
        BY <3>1 DEF ServiceInv
      <3>3. ActionOrder(operator.mask) \in Seq(Actions)
        BY <1>2, ActionOrderType
      <3> QED
        BY <2>2, <3>2, <3>3, <1>2 DEF Operations
    <2>3. CASE OperatorActionDone
      <3>1. call.ok \in BOOLEAN
        BY DEF DriverTypeOK
      <3>2. operation.todo # <<>> /\ operation.request \in OperatorWrites
        BY <2>3 DEF OperatorActionDone, ServiceInv
      <3>3. Tail(operation.todo) \in Seq(Actions)
        BY <1>2, <3>2 DEF Operations
      <3> QED
        BY <2>3, <3>1, <3>2, <3>3, <1>2 DEF OperatorActionDone, Operations
    <2>4. CASE OperatorDone
      BY <2>4 DEF OperatorDone, ServiceInv, ServiceTypeOK
    <2> QED
      BY <2>1, <2>2, <2>3, <2>4 DEF TakeOperatorCommand
  <1> QED
    BY <1>1, <1>3, <1>5, <1>6 DEF ServiceInv, ServiceTypeOK, PcValues

LEMMA ElapseType == ServiceInv /\ Elapse => ServiceInv'
  <1> SUFFICES ASSUME ServiceInv, Elapse PROVE ServiceInv'
    OBVIOUS
  <1>1. UNCHANGED <<pc, ems, operator, last, requested, tick, operation,
                    published>>
    BY DEF Elapse
  <1>2. loopAge' \in 0 .. MaxLoop
    BY ServiceAssumption DEF Elapse, ServiceInv, ServiceTypeOK
  <1>3. commandAge' \in 0 .. EmsTimeout + 1
    BY ServiceAssumption DEF Elapse, ServiceInv, ServiceTypeOK, Smaller
  <1>4. heartbeatAge' \in 0 .. HeartbeatRefresh
    BY ServiceAssumption DEF Elapse, ServiceInv, ServiceTypeOK, Smaller
  <1>5. emsSilence' \in 0 .. SilenceCap
    BY ServiceAssumption
    DEF Elapse, ServiceInv, ServiceTypeOK, Smaller, SilenceCap
  <1> QED
    BY <1>1, <1>2, <1>3, <1>4, <1>5 DEF ServiceInv, ServiceTypeOK

LEMMA PublishType == ServiceInv /\ Publish => ServiceInv'
  <1> SUFFICES ASSUME ServiceInv, Publish PROVE ServiceInv'
    OBVIOUS
  <1>1. /\ UNCHANGED <<ems, operator, emsSilence, last, requested, commandAge,
                       heartbeatAge, loopAge>>
        /\ pc' = "top" /\ tick' = NoTick /\ operation' = NoOperation
    BY DEF Publish, bankVars
  <1>2. tick.applied \in Int /\ tick.state \in EdgeStates
    BY DriverAssumption DEF ServiceInv, ServiceTypeOK, Ticks, PowerRange
  <1>3. published' \in InputRegisters
    BY <1>2, EncodeType DEF Publish, ServiceInv, ServiceTypeOK, InputRegisters
  <1> QED
    BY <1>1, <1>3, ZeroTypes DEF ServiceInv, ServiceTypeOK, PcValues

LEMMA BankType == ServiceInv /\ (WriteEms \/ WriteOperator) => ServiceInv'
  <1> SUFFICES ASSUME ServiceInv, WriteEms \/ WriteOperator PROVE ServiceInv'
    OBVIOUS
  <1>1. UNCHANGED <<pc, last, requested, commandAge, heartbeatAge, loopAge,
                    tick, operation, published>>
    BY DEF WriteEms, WriteOperator
  <1>2. /\ ems' \in EmsRegisters /\ ems' \in EmsWrites \cup {ZeroEms}
        /\ operator' \in OperatorRegisters
        /\ operator' \in OperatorWrites \cup {ZeroOperator}
    BY ServiceAssumption DEF WriteEms, WriteOperator, ServiceInv, ServiceTypeOK
  <1>3. emsSilence' \in 0 .. SilenceCap
    BY ServiceAssumption
    DEF WriteEms, WriteOperator, ServiceInv, ServiceTypeOK, SilenceCap
  <1> QED
    BY <1>1, <1>2, <1>3 DEF ServiceInv, ServiceTypeOK

LEMMA ServiceStepInv ==
    ASSUME DriverTypeOK, ServiceInv, [Next]_vars
    PROVE  ServiceInv'
  <1>1. CASE UNCHANGED serviceVars
    BY <1>1 DEF serviceVars, ServiceInv, ServiceTypeOK
  <1>2. CASE Poll \/ Heartbeat \/ StartAgain
    BY <1>2
    DEF Poll, Heartbeat, StartAgain, bankVars, ServiceInv, ServiceTypeOK,
        PcValues
  <1>3. CASE OperatorAction
    BY <1>3 DEF OperatorAction, bankVars, ServiceInv, ServiceTypeOK, PcValues
  <1>4. CASE Crash
    BY <1>4, ZeroTypes DEF Crash, ServiceInv, ServiceTypeOK, PcValues
  <1>5. UNCHANGED vars \/ Exchange \/ Cabinet => UNCHANGED serviceVars
    BY DEF vars, Exchange, Cabinet
  <1> QED
    BY <1>1, <1>2, <1>3, <1>4, <1>5, TakeCommandType, TickType, OperatorType,
       ElapseType, PublishType, BankType
    DEF Next, MainLoop

(* The service's invariant together with the driver's. *)
LEMMA ServiceInvariant == Spec => [](DriverInv /\ ServiceInv)
  <1>1. Init => DriverInv /\ ServiceInv
    BY DriverInitInv, ServiceInitInv DEF Init
  <1>2. DriverInv /\ ServiceInv /\ [Next]_vars => (DriverInv /\ ServiceInv)'
    BY ServiceStepIsDriverStep, DriverStepInv, ServiceStepInv DEF DriverInv
  <1> QED
    BY <1>1, <1>2, PTL DEF Spec

-----------------------------------------------------------------------------
(* Every variable of the control path keeps its type: the timers stay in
   their ranges and the applied power in the range of the requests. *)
THEOREM ServiceTypeCorrect == Spec => []TypeOK
  <1>1. DriverInv /\ ServiceInv => TypeOK
    BY DEF DriverInv, ServiceInv, TypeOK
  <1> QED
    BY <1>1, ServiceInvariant, PTL

(* The service uses the driver only as the driver's specification allows,
   whatever the EMS and the operator send: all that holds of the driver under
   an arbitrary client holds of it inside the service. *)
THEOREM ServiceRefinesDriver == Spec => DriverSpec
  <1>1. Init => DriverInit
    BY DEF Init
  <1>2. DriverInv /\ ServiceInv /\ [Next]_vars => [DriverNext]_driverVars
    BY ServiceStepIsDriverStep
  <1> QED
    BY <1>1, <1>2, ServiceInvariant, PTL DEF Spec, DriverSpec

-----------------------------------------------------------------------------
(* 2. Time.                                                                 *)

(* Between takeCommand and the end of tick. *)
InTick == {"poll", "polling", "heartbeat", "heartbeatReply", "setpoint",
           "setpointReply"}

(* From takeCommand to publish. *)
UntilReported ==
    InTick \cup {"operator", "actions", "actionReply", "publish"}

(* The operation in progress is the one the main loop waits for. *)
CallPlace ==
    /\ call.op = "heartbeat" <=> pc = "heartbeatReply"
    /\ call.op = "setpoint" <=> pc = "setpointReply"

(* A setpoint other than zero is one of a tick with EMS and heartbeat. *)
PowerBacked ==
    call.op = "setpoint" /\ call.todo # <<>> /\ Head(call.todo).value # 0
        => tick.emsConnected /\ tick.heartbeatOk

(* How long the EMS can have been silent when its command is waiting, when
   it is not yet out of date, and when a tick counts it as connected. *)
SilenceInv ==
    /\ CommandPending => pc # "down" /\ emsSilence <= loopAge
    /\ commandAge <= EmsTimeout =>
           pc # "down" /\ emsSilence <= commandAge + MaxLoop
    /\ pc \in InTick /\ tick.emsConnected =>
           emsSilence <= EmsTimeout + MaxLoop + loopAge

Armed(registers, age) ==
    /\ registers["HeartbeatEnable"] = 1
    /\ registers["HeartbeatSeconds"] >= HeartbeatTimeout - age

(* How much time the cabinet's watchdog has left: when the last refresh is
   not yet due for renewal, when a refresh has just been confirmed, and when
   a tick counts the heartbeat as good. *)
WatchdogInv ==
    /\ heartbeatAge < HeartbeatRefresh => Armed(reg, heartbeatAge)
    /\ call.op = "heartbeat" /\ call.ok =>
         /\ call.todo = <<Write("HeartbeatSeconds", HeartbeatTimeout)>> =>
                reg["HeartbeatEnable"] = 1
         /\ call.todo = <<>> => Armed(reg, loopAge)
    /\ pc \in UntilReported /\ tick.heartbeatOk =>
           Armed(reg, HeartbeatRefresh - 1 + loopAge)
    /\ WatchdogArmed

ControlInv == CallPlace /\ PowerBacked /\ SilenceInv /\ WatchdogInv

-----------------------------------------------------------------------------
LEMMA CallPlaceStep ==
    ASSUME DriverInv, ServiceInv, CallPlace, [Next]_vars
    PROVE  CallPlace'
  <1>1. call \in [op : Ops, todo : Seq(Writes), ok : BOOLEAN]
          /\ Idle.op = "none"
    BY DEF DriverInv, DriverTypeOK, Idle
  <1>2. CASE UNCHANGED <<call, pc>>
    BY <1>2 DEF CallPlace
  <1>3. CASE TakeCommand \/ TakeOperatorCommand \/ OperatorDone \/ Publish
             \/ StartAgain
    BY <1>3 DEF TakeCommand, TakeOperatorCommand, OperatorDone, Publish,
                StartAgain, driverVars, CallPlace
  <1>4. CASE Poll \/ PollDone
    BY <1>4 DEF Poll, PollDone, PollBegin, PollEnd, CallPlace
  <1>5. CASE HeartbeatDone \/ SetpointDone \/ OperatorActionDone
    BY <1>5, <1>1 DEF HeartbeatDone, SetpointDone, OperatorActionDone, Return,
                      CallPlace
  <1>6. CASE Heartbeat
    BY <1>6 DEF Heartbeat, RefreshHeartbeat, Begin, driverVars, CallPlace
  <1>7. CASE ApplySetpoint
    BY <1>7 DEF ApplySetpoint, WritePowerSetpointKw, Begin, driverVars,
                CallPlace
  <1>8. CASE OperatorAction
    BY <1>8 DEF OperatorAction, WritePowerState, WriteSocLimitsPct,
                WriteReactivePowerSetpointKvar, Begin, CallPlace
  <1>9. CASE Exchange
    <2>1. call'.op = call.op /\ pc' = pc
      BY <1>9, <1>1
      DEF Exchange, WriteAcknowledged, WriteFailed, serviceVars
    <2> QED
      BY <2>1 DEF CallPlace
  <1>10. CASE Crash
    BY <1>10, <1>1 DEF Crash, Restart, CallPlace
  <1>11. UNCHANGED vars \/ WriteEms \/ WriteOperator \/ Elapse \/ Cabinet
            => UNCHANGED <<call, pc>>
    BY DEF vars, driverVars, serviceVars, WriteEms, WriteOperator, Elapse,
           CabinetTick, Cabinet, CabinetChanges
  <1> QED
    BY <1>2, <1>3, <1>4, <1>5, <1>6, <1>7, <1>8, <1>9, <1>10, <1>11
    DEF Next, MainLoop

(* The envelope returns zero unless the tick has EMS and heartbeat, and a
   zero power is a zero register. *)
LEMMA EnvelopeBacked ==
    ASSUME ServiceInv, EncodeSigned(Envelope) # 0
    PROVE  tick.emsConnected /\ tick.heartbeatOk
  <1>1. 0 \in Int16 /\ 0 \in Int
    BY Int16Facts DEF Int16
  <1>2. EncodeSigned(0) \in Int /\ EncodeSigned(0) <= 0 /\ EncodeSigned(0) >= 0
    BY <1>1, EncodeBound, EncodeType, Int16Facts DEF Int16
  <1>3. EncodeSigned(0) = 0
    BY <1>2
  <1>4. Envelope # 0
    BY <1>3
  <1> QED
    BY <1>4 DEF Envelope, Apply

LEMMA PowerBackedStep ==
    ASSUME DriverInv, ServiceInv, CallPlace, PowerBacked, [Next]_vars
    PROVE  PowerBacked'
  <1>1. call \in [op : Ops, todo : Seq(Writes), ok : BOOLEAN]
          /\ Idle.op = "none" /\ tick \in Ticks
    BY DEF DriverInv, DriverTypeOK, Idle, ServiceInv, ServiceTypeOK
  <1>2. CASE UNCHANGED <<call, tick>>
    BY <1>2 DEF PowerBacked
  <1>3. CASE call'.op # "setpoint"
    BY <1>3 DEF PowerBacked
  <1>4. CASE ApplySetpoint
    <2>1. CASE call' = call
      BY <2>1, <1>3, <1>4 DEF ApplySetpoint, CallPlace
    <2>2. CASE WritePowerSetpointKw(Envelope)
      <3> DEFINE w == Write("PcsPowerCommand", EncodeSigned(Envelope))
      <3>1. call'.todo \in {<<>>, <<w>>}
        BY <2>2 DEF WritePowerSetpointKw, Begin
      <3>2. Head(<<w>>).value = EncodeSigned(Envelope)
        BY One DEF Write
      <3>3. /\ tick'.emsConnected = tick.emsConnected
            /\ tick'.heartbeatOk = tick.heartbeatOk
        BY <1>1, <1>4 DEF ApplySetpoint, Ticks
      <3> HIDE DEF w
      <3>4. call'.todo # <<>> /\ Head(call'.todo).value # 0
              => EncodeSigned(Envelope) # 0
        BY <3>1, <3>2
      <3> QED
        BY <3>3, <3>4, EnvelopeBacked DEF PowerBacked
    <2> QED
      BY <2>1, <2>2, <1>4 DEF ApplySetpoint, driverVars
  <1>5. CASE Exchange /\ call.op = "setpoint"
    <2>1. PICK w : call.todo = <<w>>
      <3>1. call.todo # <<>>
        BY <1>5 DEF Exchange, WriteAcknowledged, WriteFailed
      <3> QED
        BY <3>1, <1>5 DEF DriverInv, CallShape
    <2>2. Tail(call.todo) = <<>>
      BY <2>1, One
    <2>3. call'.todo = <<>>
      BY <2>2, <1>1, <1>5
      DEF Exchange, WriteAcknowledged, WriteFailed, AfterFailure
    <2> QED
      BY <2>3 DEF PowerBacked
  <1>6. CASE Exchange /\ call.op # "setpoint"
    BY <1>1, <1>3, <1>6 DEF Exchange, WriteAcknowledged, WriteFailed
  <1>7. CASE TakeCommand \/ Publish
    BY <1>3, <1>7 DEF TakeCommand, Publish, driverVars, CallPlace
  <1>8. CASE Poll \/ PollDone
    BY <1>3, <1>8 DEF Poll, PollDone, PollBegin, PollEnd, CallPlace
  <1>9. CASE HeartbeatDone \/ SetpointDone \/ OperatorActionDone \/ Crash
    BY <1>1, <1>3, <1>9 DEF HeartbeatDone, SetpointDone, OperatorActionDone,
                            Return, Crash, Restart
  <1>10. CASE Heartbeat
    BY <1>2, <1>3, <1>10 DEF Heartbeat, RefreshHeartbeat, Begin, driverVars
  <1>11. CASE OperatorAction
    BY <1>3, <1>11 DEF OperatorAction, WritePowerState, WriteSocLimitsPct,
                       WriteReactivePowerSetpointKvar, Begin
  <1>12. UNCHANGED vars \/ WriteEms \/ WriteOperator \/ Elapse \/ Cabinet
         \/ TakeOperatorCommand \/ OperatorDone \/ StartAgain
            => UNCHANGED <<call, tick>>
    BY DEF vars, driverVars, serviceVars, WriteEms, WriteOperator, Elapse,
           CabinetTick, Cabinet, CabinetChanges, TakeOperatorCommand,
           OperatorDone, StartAgain
  <1> QED
    BY <1>2, <1>4, <1>5, <1>6, <1>7, <1>8, <1>9, <1>10, <1>11, <1>12
    DEF Next, MainLoop

-----------------------------------------------------------------------------
LEMMA SilenceStep ==
    ASSUME ServiceInv, SilenceInv, [Next]_vars
    PROVE  SilenceInv'
  <1>1. /\ emsSilence \in Int /\ loopAge \in 0 .. MaxLoop
        /\ commandAge \in Int /\ EmsTimeout \in Int /\ MaxLoop \in Int
        /\ loopAge \in Int /\ SilenceCap \in Int /\ commandAge >= 0
        /\ tick \in Ticks
    BY ServiceAssumption DEF ServiceInv, ServiceTypeOK, SilenceCap
  <1>2. CASE /\ UNCHANGED <<ems, emsSilence, loopAge, commandAge>>
             /\ last'.sequence = last.sequence
             /\ last'.heartbeat = last.heartbeat
             /\ pc' # "down"
             /\ pc' \in InTick => /\ pc \in InTick
                                  /\ tick'.emsConnected = tick.emsConnected
    BY <1>2 DEF SilenceInv, CommandPending
  <1>3. CASE TakeCommand
    <2>1. /\ last'.sequence = ems.sequence /\ last'.heartbeat = ems.heartbeat
          /\ tick'.emsConnected = (commandAge' <= EmsTimeout)
          /\ commandAge' = IF CommandPending THEN 0 ELSE commandAge
          /\ loopAge' = 0 /\ ems' = ems /\ emsSilence' = emsSilence
          /\ pc' = "poll"
      BY <1>3 DEF TakeCommand, ServiceInv, ServiceTypeOK, NoTick
    <2>2. ~CommandPending'
      BY <2>1 DEF CommandPending
    <2>3. commandAge' <= EmsTimeout => emsSilence <= commandAge' + MaxLoop
      BY <1>1, <2>1 DEF SilenceInv
    <2>4. commandAge' \in Int
      BY <1>1, <2>1
    <2>5. commandAge' <= EmsTimeout =>
              emsSilence <= EmsTimeout + MaxLoop + 0
      <3>1. \A s, c, t, m \in Int : s <= c + m /\ c <= t => s <= t + m + 0
        OBVIOUS
      <3> QED
        BY <1>1, <2>3, <2>4, <3>1
    <2>6. tick'.emsConnected => commandAge' <= EmsTimeout
      BY <2>1
    <2> QED
      BY <2>1, <2>2, <2>3, <2>5, <2>6 DEF SilenceInv
  <1>4. CASE Elapse
    <2>1. /\ emsSilence' <= emsSilence + 1 /\ emsSilence' \in Int
          /\ commandAge' <= EmsTimeout => commandAge' = commandAge + 1
          /\ loopAge' = IF pc = "down" THEN loopAge ELSE loopAge + 1
          /\ UNCHANGED <<pc, ems, last, tick>>
      BY <1>1, <1>4 DEF Elapse, Smaller
    <2> QED
      BY <1>1, <2>1 DEF SilenceInv, CommandPending, InTick
  <1>5. CASE WriteEms
    <2>1. /\ UNCHANGED <<pc, last, commandAge, loopAge, tick>> /\ pc # "down"
          /\ \/ emsSilence' = 0
             \/ /\ emsSilence' = emsSilence
                /\ ems'.sequence = ems.sequence
                /\ ems'.heartbeat = ems.heartbeat
      BY <1>5 DEF WriteEms
    <2> QED
      BY <1>1, <2>1, ServiceAssumption DEF SilenceInv, CommandPending
  <1>6. CASE Crash
    BY <1>1, <1>6 DEF Crash, SilenceInv, CommandPending, ZeroEms,
                      NothingTaken, InTick
  <1>7. CASE StartAgain
    BY <1>7 DEF StartAgain, bankVars, SilenceInv, CommandPending, InTick
  <1>8. CASE PollDone \/ HeartbeatDone \/ ApplySetpoint \/ SetpointDone
    <2>1. tick'.emsConnected = tick.emsConnected
      BY <1>1, <1>8
      DEF PollDone, HeartbeatDone, ApplySetpoint, SetpointDone, Ticks
    <2> QED
      BY <1>2, <1>8, <2>1
      DEF PollDone, HeartbeatDone, ApplySetpoint, SetpointDone, bankVars,
          InTick
  <1>9. CASE TakeOperatorCommand
    <2>1. last'.sequence = last.sequence /\ last'.heartbeat = last.heartbeat
      BY <1>9 DEF TakeOperatorCommand, ServiceInv, ServiceTypeOK
    <2> QED
      BY <1>2, <1>9, <2>1 DEF TakeOperatorCommand, bankVars, InTick
  <1>10. CASE Poll \/ Heartbeat \/ OperatorAction \/ OperatorActionDone
              \/ OperatorDone \/ Publish
    BY <1>2, <1>10
    DEF Poll, Heartbeat, OperatorAction, OperatorActionDone, OperatorDone,
        Publish, bankVars, InTick
  <1>11. CASE UNCHANGED vars \/ Exchange \/ Cabinet \/ WriteOperator
    <2>1. UNCHANGED <<ems, emsSilence, loopAge, commandAge, last, pc, tick>>
      BY <1>11 DEF vars, serviceVars, Exchange, Cabinet, WriteOperator
    <2> QED
      BY <2>1 DEF SilenceInv, CommandPending
  <1> QED
    BY <1>3, <1>4, <1>5, <1>6, <1>7, <1>8, <1>9, <1>10, <1>11
    DEF Next, MainLoop

-----------------------------------------------------------------------------
(* Only the heartbeat writes 5302 and 5301, and it never disarms. *)
LEMMA NextHeartbeatWrite ==
    ASSUME DriverInv, call.todo # <<>>
    PROVE  LET w == Head(call.todo)
           IN \/ /\ call.op = "heartbeat" /\ w = Write("HeartbeatEnable", 1)
                 /\ Tail(call.todo)
                        = <<Write("HeartbeatSeconds", HeartbeatTimeout)>>
              \/ /\ call.op = "heartbeat"
                 /\ w = Write("HeartbeatSeconds", HeartbeatTimeout)
                 /\ call.todo = <<w>> /\ Tail(call.todo) = <<>>
              \/ /\ call.op # "heartbeat"
                 /\ w.register \notin {"HeartbeatEnable", "HeartbeatSeconds"}
  <1> DEFINE w == Head(call.todo)
             enable == Write("HeartbeatEnable", 1)
             seconds == Write("HeartbeatSeconds", HeartbeatTimeout)
  <1>1. ASSUME NEW a, NEW v, call.todo = <<Write(a, v)>>
        PROVE  w.register = a
    BY <1>1, One DEF Write
  <1>2. ASSUME NEW a, NEW v, NEW b, call.todo = <<Write(a, v), b>>
        PROVE  w.register = a
    BY <1>2, Two DEF Write
  <1>3. CASE call.op = "heartbeat"
    <2>1. call.todo \in {<<enable, seconds>>, <<seconds>>}
      BY <1>3 DEF DriverInv, CallShape
    <2> HIDE DEF enable, seconds
    <2>2. /\ Head(<<enable, seconds>>) = enable
          /\ Tail(<<enable, seconds>>) = <<seconds>>
      BY Two
    <2>3. Head(<<seconds>>) = seconds /\ Tail(<<seconds>>) = <<>>
      BY One
    <2>4. \/ w = enable /\ Tail(call.todo) = <<seconds>>
          \/ w = seconds /\ call.todo = <<w>> /\ Tail(call.todo) = <<>>
      BY <2>1, <2>2, <2>3, Zenon DEF w
    <2> QED
      BY <1>3, <2>4 DEF enable, seconds
  <1>4. CASE call.op # "heartbeat"
    <2> HIDE DEF w
    <2>1. w.register \in {"PcsPowerCommand", "PcsPowerOn", "PcsSocUpperLimit",
                          "PcsSocLowerLimit", "PcsReactivePowerCommand"}
      BY <1>1, <1>2, <1>4, Zenon DEF DriverInv, CallShape
    <2> QED
      BY <1>4, <2>1 DEF w
  <1> QED
    BY <1>3, <1>4

(* What an exchange does to the watchdog and to the power. *)
LEMMA ExchangeEffect ==
    ASSUME DriverInv, ServiceInv, CallPlace, PowerBacked, Exchange
    PROVE  /\ reg'["HeartbeatEnable"] \in {reg["HeartbeatEnable"], 1}
           /\ reg'["HeartbeatSeconds"]
                  \in {reg["HeartbeatSeconds"], HeartbeatTimeout}
           /\ \/ reg'["PcsPowerCommand"] \in {reg["PcsPowerCommand"], 0}
              \/ /\ pc = "setpointReply"
                 /\ tick.emsConnected /\ tick.heartbeatOk
           /\ call'.op = call.op
           /\ call.op = "heartbeat" /\ call'.ok =>
                /\ call.ok
                /\ \/ reg'["HeartbeatEnable"] = 1
                   \/ call.todo
                        = <<Write("HeartbeatSeconds", HeartbeatTimeout)>>
                /\ call'.todo = <<>> =>
                       reg'["HeartbeatSeconds"] = HeartbeatTimeout
  <1> DEFINE w == Head(call.todo)
             seconds == Write("HeartbeatSeconds", HeartbeatTimeout)
  <1>1. /\ call.todo # <<>> /\ DriverTypeOK
        /\ call \in [op : Ops, todo : Seq(Writes), ok : BOOLEAN]
        /\ w \in Writes
    BY TodoTypes
    DEF DriverInv, DriverTypeOK, Exchange, WriteAcknowledged, WriteFailed
  <1>2. call'.op = call.op
    BY <1>1 DEF Exchange, WriteAcknowledged, WriteFailed
  <1>3. \/ w = Write("HeartbeatEnable", 1) /\ call.op = "heartbeat"
             /\ Tail(call.todo) = <<seconds>>
        \/ w = seconds /\ call.op = "heartbeat"
             /\ call.todo = <<w>> /\ Tail(call.todo) = <<>>
        \/ /\ call.op # "heartbeat"
           /\ w.register \notin {"HeartbeatEnable", "HeartbeatSeconds"}
    BY <1>1, NextHeartbeatWrite
  <1>4. w.register = "PcsPowerCommand" /\ w.value # 0 =>
            pc = "setpointReply" /\ tick.emsConnected /\ tick.heartbeatOk
    BY <1>1, NextPowerWrite DEF PowerBacked, CallPlace
  <1>5. CASE UNCHANGED reg /\ call'.ok = FALSE
    BY <1>2, <1>5
  <1>6. ASSUME Perform(w)
        PROVE  /\ reg'[w.register] = w.value
               /\ \A register \in Registers \ {w.register} :
                      reg'[register] = reg[register]
    BY <1>1, <1>6, PerformType
  <1>7. CASE /\ Perform(w)
             /\ call'.ok => call.ok /\ call'.todo = Tail(call.todo)
    <2> HIDE DEF w
    <2>1. \/ reg'["PcsPowerCommand"] \in {reg["PcsPowerCommand"], 0}
          \/ w.register = "PcsPowerCommand" /\ w.value # 0
      BY <1>6, <1>7 DEF Registers
    <2>2. CASE w = Write("HeartbeatEnable", 1)
      <3>1. /\ reg'["HeartbeatEnable"] = 1
            /\ reg'["HeartbeatSeconds"] = reg["HeartbeatSeconds"]
            /\ w.register # "HeartbeatSeconds"
        BY <2>2, <1>6, <1>7 DEF Write, Registers
      <3>2. call.op = "heartbeat" => Tail(call.todo) # <<>>
        <4>1. w # seconds
          BY <3>1 DEF Write
        <4>2. <<seconds>> # <<>>
          BY One
        <4> HIDE DEF seconds
        <4> QED
          BY <4>1, <4>2, <1>3
      <3> QED
        BY <3>1, <3>2, <2>1, <1>2, <1>4, <1>7
    <2>3. CASE w = seconds /\ call.op = "heartbeat" /\ call.todo = <<seconds>>
      <3>1. /\ reg'["HeartbeatEnable"] = reg["HeartbeatEnable"]
            /\ reg'["HeartbeatSeconds"] = HeartbeatTimeout
        BY <2>3, <1>6, <1>7 DEF Write, Registers
      <3> QED
        BY <3>1, <2>1, <2>3, <1>2, <1>4, <1>7
    <2>4. CASE /\ call.op # "heartbeat"
               /\ w.register \notin {"HeartbeatEnable", "HeartbeatSeconds"}
      <3>1. /\ reg'["HeartbeatEnable"] = reg["HeartbeatEnable"]
            /\ reg'["HeartbeatSeconds"] = reg["HeartbeatSeconds"]
        BY <2>4, <1>6, <1>7 DEF Registers
      <3> QED
        BY <3>1, <2>1, <2>4, <1>2, <1>4
    <2> QED
      BY <2>2, <2>3, <2>4, <1>3
  <1>8. CASE WriteAcknowledged
    BY <1>1, <1>7, <1>8 DEF WriteAcknowledged
  <1>9. CASE WriteFailed
    <2>1. call'.ok = FALSE
      BY <1>1, <1>9 DEF WriteFailed
    <2> QED
      BY <2>1, <1>5, <1>7, <1>9 DEF WriteFailed
  <1> QED
    BY <1>8, <1>9 DEF Exchange

(* The watchdog and the power are touched by exchanges and by time only. *)
LEMMA Untouched ==
    ASSUME DriverInv, [Next]_vars, ~Exchange, ~Elapse
    PROVE  /\ reg'["HeartbeatEnable"] = reg["HeartbeatEnable"]
           /\ reg'["HeartbeatSeconds"] = reg["HeartbeatSeconds"]
           /\ reg'["PcsPowerCommand"] = reg["PcsPowerCommand"]
  <1>1. CASE UNCHANGED reg
    BY <1>1
  <1>2. CASE Cabinet
    BY <1>2 DEF Cabinet, CabinetChanges, DriverInv, DriverTypeOK, Registers
  <1>3. TakeCommand \/ TakeOperatorCommand \/ OperatorDone \/ Publish
          \/ StartAgain \/ WriteEms \/ WriteOperator \/ UNCHANGED vars
          => UNCHANGED reg
    BY DEF TakeCommand, TakeOperatorCommand, OperatorDone, Publish,
           StartAgain, WriteEms, WriteOperator, vars, driverVars
  <1>4. Poll \/ PollDone \/ HeartbeatDone \/ SetpointDone
          \/ OperatorActionDone \/ Crash => UNCHANGED reg
    BY DEF Poll, PollDone, PollBegin, PollEnd, HeartbeatDone, SetpointDone,
           OperatorActionDone, Return, Crash, Restart, cabinetVars
  <1>5. Heartbeat \/ ApplySetpoint \/ OperatorAction => UNCHANGED reg
    BY DEF Heartbeat, RefreshHeartbeat, ApplySetpoint, WritePowerSetpointKw,
           OperatorAction, WritePowerState, WriteSocLimitsPct,
           WriteReactivePowerSetpointKvar, Begin, driverVars
  <1> QED
    BY <1>1, <1>2, <1>3, <1>4, <1>5 DEF Next, MainLoop

LEMMA RegisterTypes ==
    ASSUME DriverInv
    PROVE  /\ reg["HeartbeatEnable"] \in Int
           /\ reg["HeartbeatSeconds"] \in 0 .. HeartbeatTimeout
           /\ reg["PcsPowerCommand"] \in Int
  BY ValuesFacts DEF DriverInv, DriverTypeOK, Registers

LEMMA ArmedLonger ==
    ASSUME NEW registers, registers["HeartbeatSeconds"] \in Int,
           NEW a \in Int, NEW b \in Int, a <= b, Armed(registers, a)
    PROVE  Armed(registers, b)
  BY DriverAssumption DEF Armed

LEMMA WatchdogStep ==
    ASSUME DriverInv, ServiceInv, CallPlace, PowerBacked, WatchdogInv,
           [Next]_vars
    PROVE  WatchdogInv'
  <1> DEFINE seconds == <<Write("HeartbeatSeconds", HeartbeatTimeout)>>
  <1>1. /\ HeartbeatTimeout \in Int /\ HeartbeatRefresh \in Int
        /\ MaxLoop \in Int /\ HeartbeatRefresh + MaxLoop <= HeartbeatTimeout
        /\ heartbeatAge \in 0 .. HeartbeatRefresh /\ heartbeatAge \in Int
        /\ loopAge \in 0 .. MaxLoop /\ loopAge \in Int /\ tick \in Ticks
        /\ HeartbeatRefresh >= 1
    BY DriverAssumption, ServiceAssumption DEF ServiceInv, ServiceTypeOK
  <1>2. /\ reg["HeartbeatEnable"] \in Int /\ reg["HeartbeatSeconds"] \in Int
        /\ reg["HeartbeatSeconds"] <= HeartbeatTimeout
        /\ reg["HeartbeatSeconds"] >= 0
        /\ call \in [op : Ops, todo : Seq(Writes), ok : BOOLEAN]
        /\ Idle.op = "none"
    BY RegisterTypes, <1>1 DEF DriverInv, DriverTypeOK, Idle
  <1>3. CASE Exchange
    <2>1. UNCHANGED <<pc, tick, heartbeatAge, loopAge>>
      BY <1>3 DEF Exchange, serviceVars
    <2>2. ASSUME NEW age \in Int, age >= 0, Armed(reg, age)
          PROVE  Armed(reg', age)
      BY <2>2, <1>1, <1>2, <1>3, ExchangeEffect DEF Armed
    <2>3. heartbeatAge < HeartbeatRefresh => Armed(reg', heartbeatAge')
      BY <2>1, <2>2, <1>1 DEF WatchdogInv
    <2>4. pc \in UntilReported /\ tick.heartbeatOk =>
              Armed(reg', HeartbeatRefresh - 1 + loopAge')
      BY <2>1, <2>2, <1>1 DEF WatchdogInv
    <2>5. call.op = "heartbeat" /\ call'.ok => reg'["HeartbeatEnable"] = 1
      BY <1>3, ExchangeEffect DEF WatchdogInv
    <2>6. call.op = "heartbeat" /\ call'.ok /\ call'.todo = <<>> =>
              Armed(reg', loopAge')
      BY <2>1, <2>5, <1>1, <1>3, ExchangeEffect DEF Armed
    <2>7. WatchdogArmed'
      <3>1. CASE reg'["PcsPowerCommand"] \in {reg["PcsPowerCommand"], 0}
        BY <3>1, <1>1, <1>2, <1>3, ExchangeEffect
        DEF WatchdogInv, WatchdogArmed
      <3>2. CASE pc = "setpointReply" /\ tick.heartbeatOk
        <4>1. Armed(reg', HeartbeatRefresh - 1 + loopAge')
          BY <2>4, <3>2 DEF UntilReported, InTick
        <4>2. Armed(reg', HeartbeatTimeout - 1)
          <5>1. reg'["HeartbeatSeconds"] \in Int
            BY <1>1, <1>2, <1>3, ExchangeEffect
          <5>2. /\ HeartbeatRefresh - 1 + loopAge' \in Int
                /\ HeartbeatTimeout - 1 \in Int
                /\ HeartbeatRefresh - 1 + loopAge' <= HeartbeatTimeout - 1
            BY <2>1, <1>1
          <5> QED
            BY <4>1, <5>1, <5>2, ArmedLonger
        <4> QED
          BY <4>2, <1>1, <1>2, <1>3, ExchangeEffect DEF Armed, WatchdogArmed
      <3> QED
        BY <3>1, <3>2, <1>3, ExchangeEffect
    <2>8. call'.op = call.op
      BY <1>3, ExchangeEffect
    <2> QED
      BY <2>1, <2>3, <2>4, <2>5, <2>6, <2>7, <2>8 DEF WatchdogInv, Armed
  <1>4. CASE Elapse
    <2>1. /\ UNCHANGED <<pc, tick, call>>
          /\ heartbeatAge' < HeartbeatRefresh =>
                 heartbeatAge' = heartbeatAge + 1
          /\ loopAge' = IF pc = "down" THEN loopAge ELSE loopAge + 1
      BY <1>1, <1>4 DEF Elapse, CabinetTick, Smaller
    <2>2. /\ reg'["HeartbeatEnable"] = reg["HeartbeatEnable"]
          /\ reg'["HeartbeatSeconds"] \in Int
          /\ reg'["HeartbeatSeconds"] >= reg["HeartbeatSeconds"] - 1
          /\ \/ reg'["PcsPowerCommand"] = 0
             \/ /\ reg'["PcsPowerCommand"] = reg["PcsPowerCommand"]
                /\ reg["HeartbeatEnable"] = 1 => reg'["HeartbeatSeconds"] > 0
      <3> DEFINE left == Larger(0, reg["HeartbeatSeconds"] - 1)
      <3>1. left \in Int /\ left >= reg["HeartbeatSeconds"] - 1 /\ left >= 0
        BY <1>2 DEF Larger
      <3>2. IF reg["HeartbeatEnable"] = 1
            THEN reg' = [reg EXCEPT
                     !["HeartbeatSeconds"] = left,
                     !["PcsPowerCommand"] = IF left = 0 THEN 0 ELSE @]
            ELSE reg' = reg
        BY <1>4 DEF Elapse, CabinetTick, CountDown
      <3>3. reg \in [Registers -> Int]
        BY DEF DriverInv, DriverTypeOK
      <3> HIDE DEF left
      <3> QED
        BY <3>1, <3>2, <3>3, <1>2 DEF Registers
    <2>3. ASSUME NEW age \in Int, Armed(reg, age)
          PROVE  Armed(reg', age + 1)
      BY <2>2, <2>3, <1>1, <1>2 DEF Armed
    <2>4. heartbeatAge' < HeartbeatRefresh => Armed(reg', heartbeatAge')
      BY <2>1, <2>3, <1>1 DEF WatchdogInv, Armed
    <2>5. /\ pc # "down" /\ Armed(reg, loopAge) => Armed(reg', loopAge')
          /\ pc # "down" /\ Armed(reg, HeartbeatRefresh - 1 + loopAge) =>
                 Armed(reg', HeartbeatRefresh - 1 + loopAge')
      BY <2>1, <2>2, <1>1, <1>2 DEF Armed
    <2>6. WatchdogArmed'
      BY <2>2 DEF WatchdogInv, WatchdogArmed
    <2> QED
      BY <2>1, <2>2, <2>4, <2>5, <2>6
      DEF WatchdogInv, CallPlace, UntilReported, InTick
  <1> SUFFICES ASSUME ~Exchange, ~Elapse PROVE WatchdogInv'
    BY <1>3, <1>4
  <1>5. /\ WatchdogArmed'
        /\ \A age : Armed(reg, age) => Armed(reg', age)
        /\ reg'["HeartbeatEnable"] = reg["HeartbeatEnable"]
    BY Untouched DEF Armed, WatchdogArmed, WatchdogInv
  <1>6. CASE /\ heartbeatAge' = heartbeatAge /\ call' = call
             /\ call.op = "heartbeat" => loopAge' = loopAge
             /\ pc' \in UntilReported /\ tick'.heartbeatOk =>
                    Armed(reg', HeartbeatRefresh - 1 + loopAge')
    BY <1>5, <1>6 DEF WatchdogInv, Armed
  <1>7. CASE TakeCommand
    <2>1. /\ tick'.heartbeatOk = (heartbeatAge < HeartbeatRefresh)
          /\ loopAge' = 0 /\ UNCHANGED <<heartbeatAge, call>>
          /\ call.op # "heartbeat"
      BY <1>7 DEF TakeCommand, driverVars, NoTick, CallPlace
    <2>2. tick'.heartbeatOk => Armed(reg', HeartbeatRefresh - 1 + loopAge')
      <3>1. tick'.heartbeatOk => Armed(reg', heartbeatAge')
        BY <2>1, <1>5 DEF WatchdogInv, Armed
      <3>2. reg'["HeartbeatSeconds"] \in Int
        BY <1>2, Untouched
      <3>3. /\ heartbeatAge' \in Int /\ HeartbeatRefresh - 1 + loopAge' \in Int
            /\ heartbeatAge < HeartbeatRefresh =>
                   heartbeatAge' <= HeartbeatRefresh - 1 + loopAge'
        BY <2>1, <1>1
      <3> QED
        BY <2>1, <3>1, <3>2, <3>3, ArmedLonger
    <2> QED
      BY <2>1, <2>2, <1>6
  <1>8. CASE HeartbeatDone
    <2>1. /\ call.op = "heartbeat" /\ call.todo = <<>> /\ call' = Idle
          /\ tick'.heartbeatOk = call.ok /\ loopAge' = loopAge
          /\ heartbeatAge' = IF call.ok THEN Smaller(loopAge, HeartbeatRefresh)
                             ELSE heartbeatAge
      BY <1>1, <1>8
      DEF HeartbeatDone, Return, Finished, CallPlace, Ticks
    <2>2. call.ok => Armed(reg', loopAge')
      BY <2>1, <1>5 DEF WatchdogInv, Armed
    <2>3. heartbeatAge' < HeartbeatRefresh => Armed(reg', heartbeatAge')
      <3>1. CASE call.ok
        <4>1. heartbeatAge' < HeartbeatRefresh => heartbeatAge' = loopAge'
          BY <3>1, <2>1, <1>1 DEF Smaller
        <4> QED
          BY <3>1, <4>1, <2>2
      <3>2. CASE ~call.ok
        BY <3>2, <2>1, <1>5 DEF WatchdogInv
      <3> QED
        BY <3>1, <3>2
    <2>4. call.ok => Armed(reg', HeartbeatRefresh - 1 + loopAge')
      <3>1. reg'["HeartbeatSeconds"] \in Int
        BY <1>2, Untouched
      <3> QED
        BY <2>1, <2>2, <3>1, <1>1 DEF Armed
    <2> QED
      BY <2>1, <2>3, <2>4, <1>2, <1>5 DEF WatchdogInv
  <1>9. CASE PollDone \/ ApplySetpoint \/ SetpointDone
    <2>1. /\ tick'.heartbeatOk = tick.heartbeatOk
          /\ UNCHANGED <<heartbeatAge, loopAge>> /\ pc \in UntilReported
          /\ call'.op # "heartbeat"
      <3>1. CASE PollDone
        BY <3>1, <1>1
        DEF PollDone, PollEnd, Ticks, UntilReported, InTick, CallPlace
      <3>2. CASE ApplySetpoint
        <4>1. tick'.heartbeatOk = tick.heartbeatOk
          BY <3>2, <1>1 DEF ApplySetpoint, Ticks
        <4>2. call'.op # "heartbeat"
          BY <3>2 DEF ApplySetpoint, WritePowerSetpointKw, Begin, driverVars,
                      CallPlace
        <4> QED
          BY <4>1, <4>2, <3>2 DEF ApplySetpoint, UntilReported, InTick
      <3>3. CASE SetpointDone
        BY <3>3, <1>1, <1>2
        DEF SetpointDone, Return, Ticks, UntilReported, InTick
      <3> QED
        BY <3>1, <3>2, <3>3, <1>9
    <2> QED
      BY <2>1, <1>5 DEF WatchdogInv, Armed
  <1>10. CASE Heartbeat
    <2>1. UNCHANGED <<tick, heartbeatAge, loopAge>> /\ pc \in UntilReported
      BY <1>10 DEF Heartbeat, UntilReported, InTick
    <2>2. call'.op = "heartbeat" /\ call'.ok =>
              call'.todo = <<Write("HeartbeatEnable", 1),
                             Write("HeartbeatSeconds", HeartbeatTimeout)>>
      BY <1>10, <1>2
      DEF Heartbeat, RefreshHeartbeat, Begin, driverVars, CallPlace
    <2>3. call'.op = "heartbeat" /\ call'.ok =>
              call'.todo # <<>> /\ call'.todo # seconds
      <3>1. \A a, b : <<a, b>> # <<b>> /\ <<a, b>> # <<>>
        BY SMT
      <3> QED
        BY <2>2, <3>1
    <2> QED
      BY <2>1, <2>3, <1>5 DEF WatchdogInv, Armed
  <1>11. CASE OperatorAction \/ OperatorActionDone \/ Crash
    <2>1. /\ call'.op # "heartbeat"
          /\ \/ pc' \notin UntilReported
             \/ pc \in UntilReported /\ UNCHANGED <<tick, loopAge>>
      BY <1>2, <1>11
      DEF OperatorAction, WritePowerState, WriteSocLimitsPct,
          WriteReactivePowerSetpointKvar, Begin, OperatorActionDone, Return,
          Crash, Restart, UntilReported, InTick
    <2>2. heartbeatAge' \in {heartbeatAge, HeartbeatRefresh}
      BY <1>11 DEF OperatorAction, OperatorActionDone, Crash
    <2> QED
      BY <2>1, <2>2, <1>1, <1>5 DEF WatchdogInv, Armed
  <1>12. CASE TakeOperatorCommand \/ OperatorDone \/ Publish \/ StartAgain
    <2>1. /\ UNCHANGED <<heartbeatAge, loopAge, call>>
          /\ \/ pc' \notin UntilReported
             \/ pc \in UntilReported /\ UNCHANGED tick
      BY <1>12
      DEF TakeOperatorCommand, OperatorDone, Publish, StartAgain, driverVars,
          UntilReported, InTick
    <2> QED
      BY <2>1, <1>5 DEF WatchdogInv, Armed
  <1>13. CASE Poll
    BY <1>5, <1>6, <1>13
    DEF Poll, PollBegin, UntilReported, InTick, WatchdogInv, Armed
  <1>14. CASE UNCHANGED vars \/ WriteEms \/ WriteOperator \/ Cabinet
    <2>1. UNCHANGED <<pc, tick, heartbeatAge, loopAge, call>>
      BY <1>14 DEF vars, driverVars, serviceVars, WriteEms, WriteOperator,
                   Cabinet, CabinetChanges
    <2> QED
      BY <2>1, <1>5 DEF WatchdogInv, Armed
  <1> QED
    BY <1>7, <1>8, <1>9, <1>10, <1>11, <1>12, <1>13, <1>14
    DEF Next, MainLoop

-----------------------------------------------------------------------------
LEMMA ControlInitInv == Init => ControlInv
  <1> SUFFICES ASSUME Init PROVE ControlInv
    OBVIOUS
  <1>1. /\ call.op = "none" /\ pc = "top" /\ reg["PcsPowerCommand"] = 0
        /\ commandAge = EmsTimeout + 1 /\ heartbeatAge = HeartbeatRefresh
        /\ ems = ZeroEms /\ last = NothingTaken
    BY DEF Init, DriverInit, ServiceInit, Idle, Registers
  <1>2. ~CommandPending
    BY <1>1 DEF CommandPending, ZeroEms, NothingTaken
  <1>3. ~(commandAge <= EmsTimeout) /\ ~(heartbeatAge < HeartbeatRefresh)
    BY <1>1, ServiceAssumption
  <1> QED
    BY <1>1, <1>2, <1>3
    DEF ControlInv, CallPlace, PowerBacked, SilenceInv, WatchdogInv,
        WatchdogArmed, UntilReported, InTick

LEMMA ControlInvariant == Spec => [](DriverInv /\ ServiceInv /\ ControlInv)
  <1>1. DriverInv /\ ServiceInv /\ ControlInv /\ [Next]_vars => ControlInv'
    BY CallPlaceStep, PowerBackedStep, SilenceStep, WatchdogStep
    DEF ControlInv
  <1> QED
    BY <1>1, ControlInitInv, ServiceInvariant, PTL DEF Spec

(* Whenever a power other than zero stands in register 5005 the cabinet's own
   watchdog is enabled and has time left, for every refresh period and loop
   time that together do not exceed the watchdog's time. *)
THEOREM WatchdogSafe == Spec => []WatchdogArmed
  BY ControlInvariant, PTL DEF ControlInv, WatchdogInv

LEMMA NoStaleStep ==
    ASSUME DriverInv, ServiceInv, ControlInv, [Next]_vars,
           reg'["PcsPowerCommand"] \notin {0, reg["PcsPowerCommand"]}
    PROVE  emsSilence <= EmsTimeout + 2 * MaxLoop
  <1>1. CASE Exchange
    <2>1. pc = "setpointReply" /\ tick.emsConnected
      BY <1>1, ExchangeEffect DEF ControlInv
    <2>2. emsSilence <= EmsTimeout + MaxLoop + loopAge
      BY <2>1 DEF ControlInv, SilenceInv, InTick
    <2> QED
      BY <2>2, ServiceAssumption DEF ServiceInv, ServiceTypeOK, SilenceCap
  <1>2. CASE Elapse
    BY <1>2 DEF Elapse, CabinetTick, CountDown, DriverInv, DriverTypeOK,
                Registers
  <1> QED
    BY <1>1, <1>2, Untouched

(* No exchange puts a power other than zero into register 5005 once the EMS
   has been silent for its timeout and two iterations of the main loop. *)
THEOREM NoStaleCommandSafe == Spec => NoStaleCommand
  <1>1. DriverInv /\ ServiceInv /\ ControlInv /\ [Next]_vars =>
            [reg'["PcsPowerCommand"] \notin {0, reg["PcsPowerCommand"]} =>
                 emsSilence <= EmsTimeout + 2 * MaxLoop]_vars
    BY NoStaleStep
  <1> QED
    BY <1>1, ControlInvariant, PTL DEF Spec, NoStaleCommand

-----------------------------------------------------------------------------
(* 3. Commands.                                                             *)

(* One exchange, seen from the main loop.  *)
LEMMA ExchangeFacts ==
    ASSUME DriverInv, Exchange
    PROVE  LET w == Head(call.todo)
           IN /\ call.todo # <<>> /\ w \in Writes
              /\ UNCHANGED serviceVars
              /\ call'.op = call.op
              /\ Perform(w) \/ UNCHANGED reg
              /\ call'.ok => /\ call.ok /\ Perform(w)
                             /\ call'.todo = Tail(call.todo)
              /\ call'.todo \in {Tail(call.todo), <<>>}
              /\ \/ drv' = drv
                 \/ drv' = [drv EXCEPT !.controlReady =
                               @ /\ w # Write("PcsPowerOn", 0)]
              /\ link => call'.ok = call.ok /\ call'.todo = Tail(call.todo)
                           /\ Perform(w)
              /\ UNCHANGED <<status, bms, link, scan>>
  <1>1. /\ call \in [op : Ops, todo : Seq(Writes), ok : BOOLEAN]
        /\ call.todo # <<>> /\ DriverTypeOK
    BY DEF DriverInv, DriverTypeOK, Exchange, WriteAcknowledged, WriteFailed
  <1>2. Head(call.todo) \in Writes
    BY <1>1, TodoTypes
  <1>3. CASE WriteAcknowledged
    BY <1>1, <1>2, <1>3 DEF WriteAcknowledged, Exchange
  <1>4. CASE WriteFailed
    BY <1>1, <1>2, <1>4 DEF WriteFailed, AfterFailure, Exchange
  <1> QED
    BY <1>3, <1>4 DEF Exchange

(* The members of the driver change in a poll, an exchange and a restart. *)
LEMMA DrvUntouched ==
    ASSUME [Next]_vars, ~PollDone, ~Exchange, ~Crash
    PROVE  drv' = drv
  <1>1. TakeCommand \/ TakeOperatorCommand \/ OperatorDone \/ Publish
          \/ StartAgain \/ WriteEms \/ WriteOperator \/ UNCHANGED vars
          => drv' = drv
    BY DEF TakeCommand, TakeOperatorCommand, OperatorDone, Publish,
           StartAgain, WriteEms, WriteOperator, vars, driverVars
  <1>2. Poll \/ HeartbeatDone \/ SetpointDone \/ OperatorActionDone
          \/ Elapse \/ Cabinet => drv' = drv
    BY DEF Poll, PollBegin, HeartbeatDone, SetpointDone, OperatorActionDone,
           Return, Elapse, CabinetTick, Cabinet, CabinetChanges
  <1>3. Heartbeat \/ ApplySetpoint \/ OperatorAction => drv' = drv
    BY DEF Heartbeat, RefreshHeartbeat, ApplySetpoint, WritePowerSetpointKw,
           OperatorAction, WritePowerState, WriteSocLimitsPct,
           WriteReactivePowerSetpointKvar, Begin, driverVars
  <1> QED
    BY <1>1, <1>2, <1>3 DEF Next, MainLoop

(* Which steps move the main loop into the tick's last stretch. *)
LEMMA TickFlow ==
    ASSUME [Next]_vars
    PROVE  /\ pc' = "heartbeat" => PollDone \/ pc = "heartbeat"
           /\ pc' = "heartbeatReply" => Heartbeat \/ pc = "heartbeatReply"
           /\ pc' = "setpoint" => \/ Heartbeat \/ HeartbeatDone
                                  \/ pc = "setpoint"
           /\ pc' = "setpointReply" => ApplySetpoint \/ pc = "setpointReply"
           /\ pc' = "operator" => \/ ApplySetpoint \/ SetpointDone
                                  \/ pc = "operator"
           /\ pc' \in InTick => pc \in InTick \/ TakeCommand
  <1>1. TakeCommand \/ Poll \/ PollDone \/ Heartbeat \/ HeartbeatDone
          \/ ApplySetpoint \/ SetpointDone \/ pc' = pc
          \/ pc' \in {"top", "actions", "actionReply", "publish", "down"}
    BY DEF Next, MainLoop, vars, serviceVars, TakeOperatorCommand,
           OperatorAction, OperatorActionDone, OperatorDone, Publish,
           Exchange, WriteEms, WriteOperator, Crash, StartAgain, Elapse,
           Cabinet
  <1>2. /\ TakeCommand => pc' = "poll"
        /\ Poll => pc = "poll" /\ pc' = "polling"
        /\ PollDone => pc = "polling" /\ pc' = "heartbeat"
        /\ Heartbeat => /\ pc = "heartbeat"
                        /\ pc' \in {"setpoint", "heartbeatReply"}
        /\ HeartbeatDone => pc = "heartbeatReply" /\ pc' = "setpoint"
        /\ ApplySetpoint => /\ pc = "setpoint"
                            /\ pc' \in {"setpointReply", "operator"}
        /\ SetpointDone => pc = "setpointReply" /\ pc' = "operator"
    BY DEF TakeCommand, Poll, PollDone, Heartbeat, HeartbeatDone,
           ApplySetpoint, SetpointDone
  <1> QED
    BY <1>1, <1>2 DEF InTick

(* While the main loop stays where it is, only an exchange changes the
   driver, and nothing changes what the loop has computed. *)
LEMMA Waiting ==
    ASSUME [Next]_vars, pc' = pc
    PROVE  /\ UNCHANGED <<tick, operation, scan, last, requested>>
           /\ \/ Exchange
              \/ UNCHANGED <<call, drv, reg>>
              \/ UNCHANGED <<call, drv>> /\ (Elapse \/ Cabinet)
  <1>1. TakeCommand \/ Poll \/ PollDone \/ Heartbeat \/ HeartbeatDone
          \/ ApplySetpoint \/ SetpointDone => pc' # pc
    BY DEF TakeCommand, Poll, PollDone, Heartbeat, HeartbeatDone,
           ApplySetpoint, SetpointDone
  <1>2. TakeOperatorCommand \/ OperatorAction \/ OperatorActionDone
          \/ OperatorDone \/ Publish \/ Crash \/ StartAgain => pc' # pc
    BY DEF TakeOperatorCommand, OperatorAction, OperatorActionDone,
           OperatorDone, Publish, Crash, StartAgain
  <1>3. CASE Exchange
    BY <1>3 DEF Exchange, WriteAcknowledged, WriteFailed, serviceVars
  <1>4. CASE WriteEms \/ WriteOperator \/ UNCHANGED vars
    BY <1>4 DEF WriteEms, WriteOperator, vars, driverVars, serviceVars
  <1>5. CASE Elapse \/ Cabinet
    BY <1>5 DEF Elapse, CabinetTick, Cabinet, CabinetChanges, serviceVars
  <1> QED
    BY <1>1, <1>2, <1>3, <1>4, <1>5 DEF Next, MainLoop

-----------------------------------------------------------------------------
(* Until the setpoint is written the driver's members are those of the
   poll the tick works on. *)
TickIsPoll ==
    pc \in {"heartbeat", "heartbeatReply", "setpoint"} =>
        /\ drv.controlReady <=> tick.battery.controlReady
        /\ drv.limitsValid <=> tick.battery.limitsValid
        /\ tick.battery.limitsValid => drv.bms = tick.battery.bms

(* Only a stop writes zero to register 5003. *)
LEMMA OnlyStopSwitchesOff ==
    ASSUME DriverInv, call.todo # <<>>
    PROVE  /\ Head(call.todo) = Write("PcsPowerOn", 0) => call.op = "stop"
           /\ Head(call.todo).register = "PcsPowerOn" =>
                  call.op \in {"start", "stop"}
  <1> DEFINE w == Head(call.todo)
  <1>1. ASSUME NEW a, NEW v, call.todo = <<Write(a, v)>>
        PROVE  w.register = a /\ w.value = v
    BY <1>1, One DEF Write
  <1>2. ASSUME NEW a, NEW v, NEW b, call.todo = <<Write(a, v), b>>
        PROVE  w.register = a /\ w.value = v
    BY <1>2, Two DEF Write
  <1>3. CASE call.op = "start"
    <2>1. w.value = 1
      BY <1>1, <1>3 DEF DriverInv, CallShape
    <2> QED
      BY <2>1, <1>3 DEF Write
  <1>4. CASE call.op \notin {"start", "stop"}
    <2> HIDE DEF w
    <2>1. w.register # "PcsPowerOn"
      BY <1>1, <1>2, <1>4 DEF DriverInv, CallShape
    <2> QED
      BY <2>1 DEF w, Write
  <1> QED
    BY <1>3, <1>4

(* So an exchange of another operation leaves the driver's members alone. *)
LEMMA ExchangeKeepsDrv ==
    ASSUME DriverInv, Exchange, call.op # "stop"
    PROVE  drv' = drv
  <1>1. Head(call.todo) # Write("PcsPowerOn", 0)
    BY ExchangeFacts, OnlyStopSwitchesOff
  <1>2. drv.controlReady \in BOOLEAN
        /\ drv = [drv EXCEPT !.controlReady = drv.controlReady]
    BY DEF DriverInv, DriverTypeOK
  <1>3. drv' = drv \/ drv' = [drv EXCEPT !.controlReady =
                                 @ /\ Head(call.todo) # Write("PcsPowerOn", 0)]
    BY ExchangeFacts
  <1>4. (drv.controlReady /\ Head(call.todo) # Write("PcsPowerOn", 0))
            = drv.controlReady
    BY <1>1, <1>2
  <1> QED
    BY <1>2, <1>3, <1>4

LEMMA TickIsPollStep ==
    ASSUME DriverInv, ServiceInv, CallPlace, TickIsPoll, [Next]_vars
    PROVE  TickIsPoll'
  <1>1. tick \in Ticks /\ tick.battery \in Batteries
    BY DEF ServiceInv, ServiceTypeOK, Ticks
  <1>2. CASE pc' \notin {"heartbeat", "heartbeatReply", "setpoint"}
    BY <1>2 DEF TickIsPoll
  <1>3. CASE PollDone
    <2>1. /\ tick'.battery = PollResult
          /\ drv'.controlReady = PollResult.controlReady
          /\ drv'.limitsValid = PollResult.limitsValid
          /\ drv'.bms = IF PollResult.read THEN bms ELSE drv.bms
      BY <1>1, <1>3 DEF PollDone, PollEnd, Ticks
    <2>2. PollResult.limitsValid => PollResult.read /\ PollResult.bms = bms
      BY DEF PollResult
    <2> QED
      BY <2>1, <2>2 DEF TickIsPoll
  <1>4. CASE Heartbeat \/ HeartbeatDone
    <2>1. tick'.battery = tick.battery /\ drv' = drv
            /\ pc \in {"heartbeat", "heartbeatReply"}
      <3>1. CASE Heartbeat
        BY <3>1 DEF Heartbeat, RefreshHeartbeat, Begin, driverVars
      <3>2. CASE HeartbeatDone
        BY <1>1, <3>2 DEF HeartbeatDone, Return, Ticks
      <3> QED
        BY <3>1, <3>2, <1>4
    <2> QED
      BY <2>1 DEF TickIsPoll
  <1>5. CASE pc' = pc /\ pc \in {"heartbeat", "heartbeatReply", "setpoint"}
    <2>1. tick' = tick
      BY <1>5, Waiting
    <2>2. Exchange => pc = "heartbeatReply"
      BY <1>5 DEF Exchange
    <2>3. drv' = drv
      BY <1>5, <2>2, Waiting, ExchangeKeepsDrv DEF CallPlace
    <2> QED
      BY <2>1, <2>3, <1>5 DEF TickIsPoll
  <1> QED
    BY <1>2, <1>3, <1>4, <1>5, TickFlow

-----------------------------------------------------------------------------
(* An optional limit only ever lowers a power, and to no more than itself. *)
LEMMA CappedBelow ==
    ASSUME NEW power \in Int, NEW caps \in SUBSET Int,
           \A a, b \in caps : a = b
    PROVE  /\ Capped(power, caps) <= power
           /\ \A cap \in caps : Capped(power, caps) <= Larger(0, cap)
  <1>1. CASE caps = {}
    BY <1>1 DEF Capped
  <1>2. CASE caps # {}
    <2> DEFINE chosen == CHOOSE cap \in caps : TRUE
    <2>1. chosen \in caps /\ chosen \in Int
      BY <1>2
    <2>2. \A cap \in caps : cap = chosen
      BY <2>1
    <2>3. Capped(power, caps) = Smaller(power, Larger(0, chosen))
      BY <1>2 DEF Capped
    <2> HIDE DEF chosen
    <2>4. /\ Smaller(power, Larger(0, chosen)) <= power
          /\ Smaller(power, Larger(0, chosen)) <= Larger(0, chosen)
      BY <2>1 DEF Smaller, Larger
    <2> QED
      BY <2>2, <2>3, <2>4
  <1> QED
    BY <1>1, <1>2

(* The envelope's result is one the driver accepts against the same report,
   and lies within the configured limits. *)
LEMMA EnvelopeBounds ==
    ASSUME ServiceTypeOK
    PROVE  /\ DriverAccepts(Envelope, tick.battery.bms)
           /\ \A cap \in ChargeCap : -Larger(0, cap) <= Envelope
           /\ \A cap \in DischargeCap : Envelope <= Larger(0, cap)
  <1> DEFINE b == tick.battery.bms
             lo == LowerBound(b, ChargeCap, {})
             hi == UpperBound(b, DischargeCap)
             charge == Larger(0, DecodeSigned(b.maxCharge))
             discharge == Larger(0, DecodeSigned(b.maxDischarge))
  <1>1. b \in BmsReports /\ requested \in Int /\ Envelope \in Int
    BY EnvelopeType, DriverAssumption
    DEF ServiceTypeOK, Ticks, Batteries, PowerRange
  <1>2. b.maxCharge \in Int /\ b.maxDischarge \in Int
    BY <1>1, Int16Facts DEF BmsReports, Int16
  <1>3. charge \in Int /\ charge >= 0 /\ discharge \in Int /\ discharge >= 0
    BY <1>2 DEF Larger, DecodeSigned
  <1>4. lo \in Int /\ lo <= 0 /\ hi \in Int /\ hi >= 0
    BY <1>1, BoundsType
  <1>5. Envelope = 0 \/ Envelope = Clamp(requested, lo, hi)
    BY DEF Envelope, Apply
  <1>6. lo = (IF b.chargeProhibited THEN 0 ELSE -Capped(charge, ChargeCap))
    BY DEF LowerBound, Capped
  <1>7. hi = (IF b.dischargeProhibited THEN 0
              ELSE Capped(discharge, DischargeCap))
    BY DEF UpperBound
  <1> HIDE DEF lo, hi, charge, discharge, b
  <1>8. lo <= Envelope /\ Envelope <= hi
    BY <1>1, <1>4, <1>5, ClampFacts
  <1>9. /\ ChargeCap \in SUBSET Int /\ DischargeCap \in SUBSET Int
        /\ \A x, y \in ChargeCap : x = y
        /\ \A x, y \in DischargeCap : x = y
    BY ServiceAssumption
  <1>10. /\ Capped(charge, ChargeCap) \in Int
         /\ Capped(charge, ChargeCap) <= charge
         /\ \A cap \in ChargeCap : Capped(charge, ChargeCap) <= Larger(0, cap)
    BY <1>3, <1>9, CappedType, CappedBelow
  <1>11. /\ Capped(discharge, DischargeCap) \in Int
         /\ Capped(discharge, DischargeCap) <= discharge
         /\ \A cap \in DischargeCap :
                Capped(discharge, DischargeCap) <= Larger(0, cap)
    BY <1>3, <1>9, CappedType, CappedBelow
  <1>12. \A cap \in ChargeCap \cup DischargeCap :
             Larger(0, cap) \in Int /\ Larger(0, cap) >= 0
    BY <1>9 DEF Larger
  <1>13. /\ Envelope < 0 => ~b.chargeProhibited /\ -Envelope <= charge
         /\ Envelope > 0 => ~b.dischargeProhibited /\ Envelope <= discharge
    BY <1>1, <1>3, <1>4, <1>6, <1>7, <1>8, <1>10, <1>11
  <1>14. DriverAccepts(Envelope, b)
    BY <1>13 DEF DriverAccepts, charge, discharge
  <1>15. \A cap \in ChargeCap : -Larger(0, cap) <= Envelope
    BY <1>1, <1>4, <1>6, <1>8, <1>10, <1>12
  <1>16. \A cap \in DischargeCap : Envelope <= Larger(0, cap)
    BY <1>1, <1>4, <1>7, <1>8, <1>11, <1>12
  <1> QED
    BY <1>14, <1>15, <1>16 DEF b

(* The two checks of a power, the envelope's and the driver's, agree. *)
LEMMA NeverRefused ==
    ASSUME ServiceInv, TickIsPoll
    PROVE  EnvelopeNeverRefused
  BY EnvelopeBounds DEF TickIsPoll, EnvelopeNeverRefused, ServiceInv

-----------------------------------------------------------------------------
(* Where a change of register 5005 comes from. *)
LEMMA PowerChange ==
    ASSUME DriverInv, [Next]_vars
    PROVE  \/ reg'["PcsPowerCommand"] \in {reg["PcsPowerCommand"], 0}
           \/ /\ Exchange /\ call.op = "setpoint"
              /\ reg'["PcsPowerCommand"] = Head(call.todo).value
              /\ drv.controlReady
  <1> DEFINE w == Head(call.todo)
  <1>1. CASE Exchange
    <2>1. call.todo # <<>> /\ w \in Writes /\ (Perform(w) \/ UNCHANGED reg)
            /\ DriverTypeOK
      BY <1>1, ExchangeFacts DEF DriverInv
    <2>2. CASE Perform(w)
      <3>1. CASE w.register = "PcsPowerCommand"
        <4>1. reg'["PcsPowerCommand"] = w.value
          BY <2>1, <2>2, <3>1, PerformType
        <4> QED
          BY <4>1, <3>1, <2>1, <1>1, NextPowerWrite
      <3>2. CASE w.register # "PcsPowerCommand"
        BY <2>1, <2>2, <3>2, PerformType DEF Registers
      <3> QED
        BY <3>1, <3>2
    <2> QED
      BY <2>1, <2>2
  <1>2. CASE Elapse
    BY <1>2 DEF Elapse, CabinetTick, CountDown, DriverInv, DriverTypeOK,
                Registers
  <1> QED
    BY <1>1, <1>2, Untouched

(* Where a pending setpoint comes from. *)
LEMMA SetpointOrigin ==
    ASSUME DriverInv, [Next]_vars, call'.op = "setpoint", call'.todo # <<>>
    PROVE  \/ call' = call
           \/ /\ ApplySetpoint /\ pc' = "setpointReply" /\ WritesEnabled
              /\ drv.controlReady /\ drv' = drv
              /\ call'.todo
                     = <<Write("PcsPowerCommand", EncodeSigned(Envelope))>>
  <1>1. Idle.op = "none"
    BY DEF Idle
  <1>2. CASE Exchange
    <2>1. /\ call.op = "setpoint" /\ call.todo # <<>>
          /\ call'.todo \in {Tail(call.todo), <<>>}
      BY <1>2, ExchangeFacts
    <2>2. PICK w : call.todo = <<w>>
      BY <2>1 DEF DriverInv, CallShape
    <2> QED
      BY <2>1, <2>2, One
  <1>3. CASE ApplySetpoint
    BY <1>3 DEF ApplySetpoint, WritePowerSetpointKw, Begin, driverVars
  <1>4. Poll \/ PollDone \/ WriteEms \/ WriteOperator \/ UNCHANGED vars
          \/ Elapse \/ Cabinet => call' = call
    BY DEF Poll, PollBegin, PollDone, PollEnd, WriteEms, WriteOperator, vars,
           driverVars, Elapse, CabinetTick, Cabinet, CabinetChanges
  <1>5. TakeCommand \/ TakeOperatorCommand \/ OperatorDone \/ Publish
          \/ StartAgain => call' = call
    BY DEF TakeCommand, TakeOperatorCommand, OperatorDone, Publish,
           StartAgain, driverVars
  <1>6. HeartbeatDone \/ SetpointDone \/ OperatorActionDone \/ Crash => FALSE
    BY <1>1 DEF HeartbeatDone, SetpointDone, OperatorActionDone, Return,
                Crash, Restart
  <1>7. Heartbeat => call' = call
    BY DEF Heartbeat, RefreshHeartbeat, Begin, driverVars
  <1>8. OperatorAction => FALSE
    BY DEF OperatorAction, WritePowerState, WriteSocLimitsPct,
           WriteReactivePowerSetpointKvar, Begin
  <1> QED
    BY <1>2, <1>3, <1>4, <1>5, <1>6, <1>7, <1>8 DEF Next, MainLoop

(* A register value within the configured limits, and a pending setpoint
   that is one. *)
Within(raw) ==
    /\ \A cap \in ChargeCap : raw >= EncodeSigned(-Larger(0, cap))
    /\ \A cap \in DischargeCap : raw <= EncodeSigned(Larger(0, cap))

ConfiguredInv ==
    /\ Within(reg["PcsPowerCommand"])
    /\ call.op = "setpoint" /\ call.todo # <<>> =>
           Within(Head(call.todo).value)

LEMMA CapTypes ==
    \A cap \in ChargeCap \cup DischargeCap :
        /\ Larger(0, cap) \in Int /\ Larger(0, cap) >= 0
        /\ -Larger(0, cap) \in Int /\ -Larger(0, cap) <= 0
  <1> TAKE cap \in ChargeCap \cup DischargeCap
  <1>1. cap \in Int
    BY ServiceAssumption
  <1>2. Larger(0, cap) \in Int /\ Larger(0, cap) >= 0
    BY <1>1 DEF Larger
  <1> QED
    BY <1>2

LEMMA WithinZero == Within(0)
  <1>1. 0 \in Int16 /\ 0 \in Int
    BY Int16Facts DEF Int16
  <1>2. \A cap \in ChargeCap : 0 >= EncodeSigned(-Larger(0, cap))
    <2> TAKE cap \in ChargeCap
    <2>1. -Larger(0, cap) \in Int /\ -Larger(0, cap) <= 0
      BY CapTypes
    <2>2. EncodeSigned(-Larger(0, cap)) <= 0
            /\ EncodeSigned(-Larger(0, cap)) \in Int
      BY <1>1, <2>1, EncodeBound, EncodeType, Int16Facts DEF Int16
    <2> QED
      BY <2>2
  <1>3. \A cap \in DischargeCap : 0 <= EncodeSigned(Larger(0, cap))
    <2> TAKE cap \in DischargeCap
    <2>1. Larger(0, cap) \in Int /\ Larger(0, cap) >= 0
      BY CapTypes
    <2>2. EncodeSigned(Larger(0, cap)) >= 0
            /\ EncodeSigned(Larger(0, cap)) \in Int
      BY <1>1, <2>1, EncodeBound, EncodeType, Int16Facts DEF Int16
    <2> QED
      BY <2>2
  <1> QED
    BY <1>2, <1>3 DEF Within

LEMMA WithinEnvelope ==
    ASSUME ServiceTypeOK PROVE Within(EncodeSigned(Envelope))
  <1>1. Envelope \in Int
    BY EnvelopeType, DriverAssumption DEF PowerRange
  <1>2. \A p \in Int : EncodeSigned(p) \in Int
    BY EncodeType, Int16Facts DEF Int16
  <1>3. \A cap \in ChargeCap :
            EncodeSigned(Envelope) >= EncodeSigned(-Larger(0, cap))
    <2> TAKE cap \in ChargeCap
    <2>1. -Larger(0, cap) \in Int /\ -Larger(0, cap) <= Envelope
      BY CapTypes, EnvelopeBounds
    <2>2. EncodeSigned(-Larger(0, cap)) <= EncodeSigned(Envelope)
      BY <1>1, <2>1, EncodeMonotone
    <2> QED
      BY <1>1, <1>2, <2>1, <2>2
  <1>4. \A cap \in DischargeCap :
            EncodeSigned(Envelope) <= EncodeSigned(Larger(0, cap))
    <2> TAKE cap \in DischargeCap
    <2>1. Larger(0, cap) \in Int /\ Envelope <= Larger(0, cap)
      BY CapTypes, EnvelopeBounds
    <2> QED
      BY <1>1, <2>1, EncodeMonotone
  <1> QED
    BY <1>3, <1>4 DEF Within

LEMMA ConfiguredStep ==
    ASSUME DriverInv, ServiceInv, ConfiguredInv, [Next]_vars
    PROVE  ConfiguredInv'
  <1>1. Within(reg'["PcsPowerCommand"])
    BY PowerChange, WithinZero, ExchangeFacts DEF ConfiguredInv
  <1>2. ASSUME call'.op = "setpoint", call'.todo # <<>>
        PROVE  Within(Head(call'.todo).value)
    <2>1. CASE call' = call
      BY <1>2, <2>1 DEF ConfiguredInv
    <2>2. CASE call'.todo
                   = <<Write("PcsPowerCommand", EncodeSigned(Envelope))>>
      <3>1. Head(call'.todo) = Write("PcsPowerCommand", EncodeSigned(Envelope))
        BY <2>2, One
      <3>2. Head(call'.todo).value = EncodeSigned(Envelope)
        BY <3>1 DEF Write
      <3> QED
        BY <3>2, WithinEnvelope DEF ServiceInv
    <2> QED
      BY <1>2, <2>1, <2>2, SetpointOrigin
  <1> QED
    BY <1>1, <1>2 DEF ConfiguredInv, Within

-----------------------------------------------------------------------------
(* A power that is in force while a tick with a good heartbeat lasts is not
   taken back by the cabinet's watchdog. *)
LEMMA PowerHolds ==
    ASSUME DriverInv, ServiceInv, ControlInv, Elapse,
           pc \in UntilReported, tick.heartbeatOk
    PROVE  reg'["PcsPowerCommand"] = reg["PcsPowerCommand"]
  <1> DEFINE left == Larger(0, reg["HeartbeatSeconds"] - 1)
  <1>1. /\ HeartbeatTimeout \in Int /\ HeartbeatRefresh \in Int
        /\ MaxLoop \in Int /\ HeartbeatRefresh + MaxLoop <= HeartbeatTimeout
        /\ loopAge \in Int /\ reg["HeartbeatSeconds"] \in Int
    BY DriverAssumption, ServiceAssumption, RegisterTypes
    DEF ServiceInv, ServiceTypeOK
  <1>2. reg["HeartbeatSeconds"]
            >= HeartbeatTimeout - (HeartbeatRefresh - 1 + loopAge)
    BY DEF ControlInv, WatchdogInv, Armed
  <1>3. loopAge < MaxLoop
    BY DEF Elapse, UntilReported, InTick
  <1>4. left # 0
    BY <1>1, <1>2, <1>3 DEF Larger
  <1>5. reg' = reg \/ reg' = [reg EXCEPT
                         !["HeartbeatSeconds"] = left,
                         !["PcsPowerCommand"] = IF left = 0 THEN 0 ELSE @]
    BY DEF Elapse, CabinetTick, CountDown
  <1>6. reg \in [Registers -> Int]
    BY DEF DriverInv, DriverTypeOK
  <1> HIDE DEF left
  <1> QED
    BY <1>4, <1>5, <1>6 DEF Registers

-----------------------------------------------------------------------------
(* Without the panel: what the poll in progress has read of register 5003 is
   still so, and from the poll to the end of the tick the driver takes the
   cabinet for ready only if it is switched on. *)
SwitchedInv ==
    /\ scan.active /\ scan.powerOn => reg["PcsPowerOn"] = 1
    /\ pc \in {"heartbeat", "heartbeatReply", "setpoint", "setpointReply"}
         /\ drv.controlReady => reg["PcsPowerOn"] = 1

(* Without the panel only exchanges and time touch the cabinet, and time
   only the watchdog and the power. *)
LEMMA RegistersUntouched ==
    ASSUME DriverInv, [Next]_vars, ~LocalPanel, ~Exchange
    PROVE  /\ \A r \in Registers \ {"HeartbeatSeconds", "PcsPowerCommand"} :
                  reg'[r] = reg[r]
           /\ reg'["PcsPowerCommand"] \in {reg["PcsPowerCommand"], 0}
           /\ ~Elapse => reg' = reg
  <1>1. CASE Elapse
    BY <1>1 DEF Elapse, CabinetTick, CountDown, DriverInv, DriverTypeOK,
                Registers
  <1>2. Cabinet => reg' = reg
    BY DEF Cabinet, CabinetChanges
  <1>3. TakeCommand \/ TakeOperatorCommand \/ OperatorDone \/ Publish
          \/ StartAgain \/ WriteEms \/ WriteOperator \/ UNCHANGED vars
          => reg' = reg
    BY DEF TakeCommand, TakeOperatorCommand, OperatorDone, Publish,
           StartAgain, WriteEms, WriteOperator, vars, driverVars
  <1>4. Poll \/ PollDone \/ HeartbeatDone \/ SetpointDone
          \/ OperatorActionDone \/ Crash => reg' = reg
    BY DEF Poll, PollDone, PollBegin, PollEnd, HeartbeatDone, SetpointDone,
           OperatorActionDone, Return, Crash, Restart, cabinetVars
  <1>5. Heartbeat \/ ApplySetpoint \/ OperatorAction => reg' = reg
    BY DEF Heartbeat, RefreshHeartbeat, ApplySetpoint, WritePowerSetpointKw,
           OperatorAction, WritePowerState, WriteSocLimitsPct,
           WriteReactivePowerSetpointKvar, Begin, driverVars
  <1> QED
    BY <1>1, <1>2, <1>3, <1>4, <1>5 DEF Next, MainLoop

(* Only the exchanges of a start and of a stop write register 5003. *)
LEMMA SwitchUntouched ==
    ASSUME DriverInv, [Next]_vars, ~LocalPanel,
           ~(Exchange /\ call.op \in {"start", "stop"})
    PROVE  reg'["PcsPowerOn"] = reg["PcsPowerOn"]
  <1>1. CASE Exchange
    <2>1. /\ Head(call.todo) \in Writes /\ DriverTypeOK
          /\ Perform(Head(call.todo)) \/ UNCHANGED reg
          /\ Head(call.todo).register # "PcsPowerOn"
      BY <1>1, ExchangeFacts, OnlyStopSwitchesOff DEF DriverInv
    <2> QED
      BY <2>1, PerformType DEF Registers
  <1>2. CASE ~Exchange
    BY <1>2, RegistersUntouched DEF Registers
  <1> QED
    BY <1>1, <1>2

(* A poll in progress has been begun by the main loop. *)
LEMMA ScanOrigin ==
    ASSUME [Next]_vars, scan'.active
    PROVE  scan' = scan \/ Poll
  <1>1. PollDone \/ Crash => FALSE
    BY DEF PollDone, PollEnd, Crash, Restart, NoScan
  <1>2. TakeCommand \/ TakeOperatorCommand \/ OperatorDone \/ Publish
          \/ StartAgain \/ WriteEms \/ WriteOperator \/ UNCHANGED vars
          \/ HeartbeatDone \/ SetpointDone \/ OperatorActionDone
          => scan' = scan
    BY DEF TakeCommand, TakeOperatorCommand, OperatorDone, Publish,
           StartAgain, WriteEms, WriteOperator, vars, driverVars,
           HeartbeatDone, SetpointDone, OperatorActionDone, Return
  <1>3. Heartbeat \/ ApplySetpoint \/ OperatorAction => scan' = scan
    BY DEF Heartbeat, RefreshHeartbeat, ApplySetpoint,
           WritePowerSetpointKw, OperatorAction, WritePowerState,
           WriteSocLimitsPct, WriteReactivePowerSetpointKvar, Begin,
           driverVars
  <1>4. Exchange \/ Elapse \/ Cabinet => scan' = scan
    BY DEF Exchange, WriteAcknowledged, WriteFailed, Elapse, CabinetTick,
           Cabinet, CabinetChanges
  <1> QED
    BY <1>1, <1>2, <1>3, <1>4 DEF Next, MainLoop

LEMMA SwitchedStep ==
    ASSUME ~LocalPanel, DriverInv, ServiceInv, CallPlace, SwitchedInv,
           [Next]_vars
    PROVE  SwitchedInv'
  <1> DEFINE Stretch == {"heartbeat", "heartbeatReply", "setpoint",
                         "setpointReply"}
  <1>1. ASSUME scan'.active, scan'.powerOn PROVE reg'["PcsPowerOn"] = 1
    <2>1. CASE scan' = scan
      <3>1. call.todo = <<>>
        BY <1>1, <2>1 DEF DriverInv, Idle
      <3>2. ~Exchange
        BY <3>1 DEF Exchange, WriteAcknowledged, WriteFailed
      <3> QED
        BY <1>1, <2>1, <3>2, SwitchUntouched DEF SwitchedInv
    <2>2. CASE Poll
      BY <1>1, <2>2 DEF Poll, PollBegin
    <2> QED
      BY <2>1, <2>2, <1>1, ScanOrigin
  <1>2. ASSUME pc' \in Stretch, drv'.controlReady
        PROVE  reg'["PcsPowerOn"] = 1
    <2>1. CASE PollDone
      <3>1. scan.active /\ scan.powerOn /\ reg' = reg
        BY <1>2, <2>1 DEF PollDone, PollEnd, PollResult
      <3> QED
        BY <3>1 DEF SwitchedInv
    <2>2. CASE ~PollDone
      <3>1. pc \in Stretch
        <4>1. Heartbeat \/ HeartbeatDone \/ ApplySetpoint => pc \in Stretch
          BY DEF Heartbeat, HeartbeatDone, ApplySetpoint
        <4> QED
          BY <4>1, <1>2, <2>2, TickFlow
      <3>2. Exchange => call.op \notin {"start", "stop"}
        BY <3>1 DEF Exchange, CallPlace
      <3>3. ~Crash
        BY <1>2 DEF Crash
      <3>4. drv' = drv
        BY <2>2, <3>2, <3>3, DrvUntouched, ExchangeKeepsDrv
      <3>5. reg'["PcsPowerOn"] = reg["PcsPowerOn"]
        BY <3>2, SwitchUntouched
      <3> QED
        BY <1>2, <3>1, <3>4, <3>5 DEF SwitchedInv
    <2> QED
      BY <2>1, <2>2
  <1> QED
    BY <1>1, <1>2 DEF SwitchedInv

-----------------------------------------------------------------------------
(* What has been achieved once an action has taken effect. *)
Achieved(request, action) ==
    /\ action = "RunState" =>
         /\ reg["PcsPowerOn"] = IF request.run = 1 THEN 1 ELSE 0
         /\ request.run # 1 => reg["PcsPowerCommand"] = 0
    /\ action = "SocLimits" =>
         /\ reg["PcsSocLowerLimit"] = request.lower
         /\ reg["PcsSocUpperLimit"] = request.upper
    /\ action = "ReactivePower" =>
         reg["PcsReactivePowerCommand"] = request.reactive

(* How far an action has come while it is being carried out. *)
Underway(request, action) ==
    LET upper == Write("PcsSocUpperLimit", request.upper)
        lower == Write("PcsSocLowerLimit", request.lower)
    IN /\ action = "RunState" =>
            /\ call.op = IF request.run = 1 THEN "start" ELSE "stop"
            /\ call.ok /\ call.todo = <<>> => Achieved(request, action)
       /\ action = "SocLimits" =>
            /\ call.op = "soc"
            /\ call.ok =>
                 \/ call.todo \in {<<upper, lower>>, <<lower, upper>>}
                 \/ /\ call.todo = <<lower>>
                    /\ reg["PcsSocUpperLimit"] = request.upper
                 \/ /\ call.todo = <<upper>>
                    /\ reg["PcsSocLowerLimit"] = request.lower
                 \/ call.todo = <<>> /\ Achieved(request, action)
       /\ action = "ReactivePower" =>
            /\ call.op = "reactive"
            /\ call.ok =>
                 \/ call.todo = <<Write("PcsReactivePowerCommand",
                                        request.reactive)>>
                 \/ call.todo = <<>> /\ Achieved(request, action)

Has(s, a) == \E i \in 1 .. Len(s) : s[i] = a

(* Of an operator command in hand, each action is still to be done or has
   been achieved, unless the command is already known to have failed. *)
OperationInv ==
    /\ pc \in {"actions", "actionReply"} =>
         /\ ~InvalidRequest(operation.request)
         /\ \A action \in operation.request.mask :
                \/ Has(operation.todo, action)
                \/ operation.accepted => Achieved(operation.request, action)
    /\ pc = "actionReply" =>
         Underway(operation.request, Head(operation.todo))

LEMMA ConcatHas ==
    ASSUME NEW s \in Seq(Actions), NEW t \in Seq(Actions), NEW a,
           Has(s, a) \/ Has(t, a)
    PROVE  s \o t \in Seq(Actions) /\ Has(s \o t, a)
  <1>1. /\ s \o t \in Seq(Actions) /\ Len(s \o t) = Len(s) + Len(t)
        /\ Len(s) \in Nat /\ Len(t) \in Nat
    OBVIOUS
  <1>2. CASE Has(s, a)
    <2>1. PICK i \in 1 .. Len(s) : s[i] = a
      BY <1>2 DEF Has
    <2>2. i \in 1 .. Len(s \o t) /\ (s \o t)[i] = s[i]
      BY <1>1
    <2> QED
      BY <1>1, <2>1, <2>2 DEF Has
  <1>3. CASE Has(t, a)
    <2>1. PICK i \in 1 .. Len(t) : t[i] = a
      BY <1>3 DEF Has
    <2>2. /\ Len(s) + i \in 1 .. Len(s \o t)
          /\ (s \o t)[Len(s) + i] = t[i]
      BY <1>1
    <2> QED
      BY <1>1, <2>1, <2>2 DEF Has
  <1> QED
    BY <1>2, <1>3

(* Every action of the mask is put on the list. *)
LEMMA ActionOrderCovers ==
    ASSUME NEW mask, mask \subseteq Actions, NEW action \in mask
    PROVE  Has(ActionOrder(mask), action)
  <1> DEFINE Only(a) == IF a \in mask THEN <<a>> ELSE <<>>
             run == Only("RunState")
             soc == Only("SocLimits")
             reactive == Only("ReactivePower")
  <1>1. ActionOrder(mask) = run \o soc \o reactive
    BY DEF ActionOrder
  <1>2. \A a \in Actions : Only(a) \in Seq(Actions)
    OBVIOUS
  <1>3. /\ run \in Seq(Actions) /\ soc \in Seq(Actions)
        /\ reactive \in Seq(Actions)
    BY <1>2 DEF Actions
  <1>4. Has(Only(action), action)
    BY DEF Has
  <1> HIDE DEF Only
  <1>5. run \o soc \in Seq(Actions)
    BY <1>3
  <1>6. CASE action \in {"RunState", "SocLimits"}
    <2>1. Has(run \o soc, action)
      BY <1>3, <1>4, <1>6, ConcatHas
    <2> QED
      BY <2>1, <1>1, <1>3, <1>5, ConcatHas
  <1>7. CASE action = "ReactivePower"
    BY <1>1, <1>3, <1>4, <1>5, <1>7, ConcatHas
  <1> QED
    BY <1>6, <1>7 DEF Actions

(* The registers an action writes. *)
Own(action) ==
    CASE action = "RunState" -> {"PcsPowerOn", "PcsPowerCommand"}
      [] action = "SocLimits" -> {"PcsSocUpperLimit", "PcsSocLowerLimit"}
      [] OTHER -> {"PcsReactivePowerCommand"}

LEMMA ActionRegister ==
    ASSUME DriverInv, call.todo # <<>>
    PROVE  /\ call.op \in {"start", "stop"} =>
                  Head(call.todo).register \in Own("RunState")
           /\ call.op = "soc" => Head(call.todo).register \in Own("SocLimits")
           /\ call.op = "reactive" =>
                  Head(call.todo).register \in Own("ReactivePower")
  <1>1. ASSUME NEW a, NEW v, call.todo = <<Write(a, v)>>
        PROVE  Head(call.todo).register = a
    BY <1>1, One DEF Write
  <1>2. ASSUME NEW a, NEW v, NEW b, call.todo = <<Write(a, v), b>>
        PROVE  Head(call.todo).register = a
    BY <1>2, Two DEF Write
  <1>3. /\ Own("RunState") = {"PcsPowerOn", "PcsPowerCommand"}
        /\ Own("SocLimits") = {"PcsSocUpperLimit", "PcsSocLowerLimit"}
        /\ Own("ReactivePower") = {"PcsReactivePowerCommand"}
    BY DEF Own
  <1> QED
    BY <1>1, <1>2, <1>3 DEF DriverInv, CallShape

(* What has been achieved is kept by every step but an exchange of the very
   action. *)
LEMMA AchievedKept ==
    ASSUME ~LocalPanel, DriverInv, ServiceInv, OperationInv, [Next]_vars,
           NEW request, NEW action \in Actions, Achieved(request, action),
           pc = pc', pc \in {"actions", "actionReply"},
           Exchange => action # Head(operation.todo)
    PROVE  Achieved(request, action)'
  <1>1. CASE ~Exchange
    BY <1>1, RegistersUntouched DEF Achieved, Registers
  <1>2. CASE Exchange
    <2> DEFINE h == Head(operation.todo)
               w == Head(call.todo)
    <2>1. pc = "actionReply" /\ operation.todo # <<>>
      BY <1>2 DEF Exchange, ServiceInv
    <2>2. h \in Actions /\ h # action
      BY <2>1, <1>2 DEF ServiceInv, ServiceTypeOK, Operations
    <2>3. /\ h = "RunState" => call.op \in {"start", "stop"}
          /\ h = "SocLimits" => call.op = "soc"
          /\ h = "ReactivePower" => call.op = "reactive"
      BY <2>1 DEF OperationInv, Underway
    <2>4. call.todo # <<>> /\ w \in Writes /\ DriverTypeOK
            /\ (Perform(w) \/ UNCHANGED reg)
      BY <1>2, ExchangeFacts DEF DriverInv
    <2>5. w.register \in Own(h)
      BY <2>2, <2>3, <2>4, ActionRegister DEF Actions
    <2>6. \A r \in Registers \ Own(h) : reg'[r] = reg[r]
      BY <2>4, <2>5, PerformType
    <2>7. \A r \in Own(action) : r \in Registers \ Own(h)
      BY <2>2 DEF Own, Actions, Registers
    <2>8. \A r \in Own(action) : reg'[r] = reg[r]
      BY <2>6, <2>7
    <2> HIDE DEF h, w
    <2> QED
      BY <2>8 DEF Achieved, Own
  <1> QED
    BY <1>1, <1>2

(* One more exchange of the action under way. *)
LEMMA RunStateExchange ==
    ASSUME DriverInv, Exchange, NEW request, Underway(request, "RunState")
    PROVE  Underway(request, "RunState")'
  <1> DEFINE w == Head(call.todo)
             zero == Write("PcsPowerCommand", 0)
             off == Write("PcsPowerOn", 0)
             on == Write("PcsPowerOn", 1)
  <1>1. /\ call.todo # <<>> /\ w \in Writes /\ DriverTypeOK
        /\ call'.op = call.op
        /\ call'.ok => call.ok /\ Perform(w) /\ call'.todo = Tail(call.todo)
    BY ExchangeFacts DEF DriverInv
  <1>2. call.op = IF request.run = 1 THEN "start" ELSE "stop"
    BY DEF Underway
  <1>3. SUFFICES ASSUME call'.ok, call'.todo = <<>>
                 PROVE  Achieved(request, "RunState")'
    BY <1>1, <1>2 DEF Underway
  <1>4. /\ reg'[w.register] = w.value
        /\ \A r \in Registers \ {w.register} : reg'[r] = reg[r]
    BY <1>1, <1>3, PerformType
  <1>5. CASE request.run = 1
    <2>1. call.todo = <<on>>
      BY <1>1, <1>2, <1>5 DEF DriverInv, CallShape
    <2>2. w = on
      BY <2>1, One
    <2> QED
      BY <1>4, <1>5, <2>2 DEF Achieved, Write
  <1>6. CASE request.run # 1
    <2>1. \/ call.todo = <<zero, off>>
          \/ call.todo = <<off>> /\ reg["PcsPowerCommand"] = 0
      BY <1>1, <1>2, <1>3, <1>6 DEF DriverInv, CallShape
    <2> HIDE DEF zero, off
    <2>2. call.todo # <<zero, off>>
      <3>1. Tail(<<zero, off>>) = <<off>> /\ <<off>> # <<>>
        BY One, Two
      <3> QED
        BY <3>1, <1>1, <1>3
    <2>3. w = off /\ reg["PcsPowerCommand"] = 0
      BY <2>1, <2>2, One
    <2>4. w.register = "PcsPowerOn" /\ w.value = 0
      BY <2>3 DEF off, Write
    <2> QED
      BY <1>4, <1>6, <2>3, <2>4 DEF Achieved, Registers
  <1> QED
    BY <1>5, <1>6

LEMMA SocLimitsExchange ==
    ASSUME DriverInv, Exchange, NEW request, Underway(request, "SocLimits")
    PROVE  Underway(request, "SocLimits")'
  <1> DEFINE w == Head(call.todo)
             upper == Write("PcsSocUpperLimit", request.upper)
             lower == Write("PcsSocLowerLimit", request.lower)
  <1>1. /\ call.todo # <<>> /\ w \in Writes /\ DriverTypeOK
        /\ call'.op = call.op
        /\ call'.ok => call.ok /\ Perform(w) /\ call'.todo = Tail(call.todo)
    BY ExchangeFacts DEF DriverInv
  <1>2. /\ call.op = "soc"
        /\ call.ok =>
             \/ call.todo \in {<<upper, lower>>, <<lower, upper>>}
             \/ call.todo = <<lower>> /\ reg["PcsSocUpperLimit"] = request.upper
             \/ call.todo = <<upper>> /\ reg["PcsSocLowerLimit"] = request.lower
    BY <1>1 DEF Underway
  <1>3. ASSUME call'.ok
        PROVE  /\ call'.todo = Tail(call.todo) /\ call.ok
               /\ reg'[w.register] = w.value
               /\ \A r \in Registers \ {w.register} : reg'[r] = reg[r]
    BY <1>1, <1>3, PerformType
  <1>4. /\ upper.register = "PcsSocUpperLimit"
        /\ upper.value = request.upper
        /\ lower.register = "PcsSocLowerLimit"
        /\ lower.value = request.lower
    BY DEF Write
  <1> HIDE DEF upper, lower, w
  <1>5. ASSUME call'.ok
        PROVE  \/ call'.todo = <<lower>> /\ w = upper
               \/ call'.todo = <<upper>> /\ w = lower
               \/ /\ call'.todo = <<>> /\ w = lower
                  /\ reg["PcsSocUpperLimit"] = request.upper
               \/ /\ call'.todo = <<>> /\ w = upper
                  /\ reg["PcsSocLowerLimit"] = request.lower
    <2>1. /\ Head(<<upper, lower>>) = upper /\ Tail(<<upper, lower>>) = <<lower>>
          /\ Head(<<lower, upper>>) = lower /\ Tail(<<lower, upper>>) = <<upper>>
      BY Two
    <2>2. /\ Head(<<upper>>) = upper /\ Tail(<<upper>>) = <<>>
          /\ Head(<<lower>>) = lower /\ Tail(<<lower>>) = <<>>
      BY One
    <2>3. call'.todo = Tail(call.todo) /\ call.ok
      BY <1>3, <1>5
    <2> QED
      BY <1>2, <2>1, <2>2, <2>3 DEF w
  <1>6. ASSUME call'.ok
        PROVE  \/ /\ call'.todo = <<lower>>
                  /\ reg'["PcsSocUpperLimit"] = request.upper
               \/ /\ call'.todo = <<upper>>
                  /\ reg'["PcsSocLowerLimit"] = request.lower
               \/ /\ call'.todo = <<>>
                  /\ reg'["PcsSocUpperLimit"] = request.upper
                  /\ reg'["PcsSocLowerLimit"] = request.lower
    BY <1>3, <1>4, <1>5, <1>6 DEF Registers
  <1> QED
    BY <1>1, <1>2, <1>6 DEF Underway, Achieved, upper, lower

LEMMA ReactiveExchange ==
    ASSUME DriverInv, Exchange, NEW request,
           Underway(request, "ReactivePower")
    PROVE  Underway(request, "ReactivePower")'
  <1> DEFINE w == Head(call.todo)
             wanted == Write("PcsReactivePowerCommand", request.reactive)
  <1>1. /\ call.todo # <<>> /\ w \in Writes /\ DriverTypeOK
        /\ call'.op = call.op
        /\ call'.ok => call.ok /\ Perform(w) /\ call'.todo = Tail(call.todo)
    BY ExchangeFacts DEF DriverInv
  <1>2. call.op = "reactive" /\ (call.ok => call.todo = <<wanted>>)
    BY <1>1 DEF Underway
  <1>3. ASSUME call'.ok
        PROVE  /\ call'.todo = <<>>
               /\ reg'["PcsReactivePowerCommand"] = request.reactive
    <2>1. w = wanted /\ call'.todo = <<>> /\ Perform(w)
      BY <1>1, <1>2, <1>3, One
    <2>2. wanted.register = "PcsReactivePowerCommand"
            /\ wanted.value = request.reactive
      BY DEF Write
    <2> HIDE DEF w, wanted
    <2> QED
      BY <1>1, <2>1, <2>2, PerformType
  <1> QED
    BY <1>1, <1>2, <1>3 DEF Underway, Achieved

(* The first step of an action. *)
LEMMA ActionBegins ==
    ASSUME DriverInv, ServiceInv, OperatorAction
    PROVE  Underway(operation.request, Head(operation.todo))'
  <1> DEFINE request == operation.request
             h == Head(operation.todo)
             upper == Write("PcsSocUpperLimit", request.upper)
             lower == Write("PcsSocLowerLimit", request.lower)
             on == Write("PcsPowerOn", 1)
             zero == Write("PcsPowerCommand", 0)
             off == Write("PcsPowerOn", 0)
             reactive == Write("PcsReactivePowerCommand", request.reactive)
  <1>1. UNCHANGED operation
    BY DEF OperatorAction
  <1>2. ASSUME NEW op, NEW accepted, NEW todo, Begin(op, accepted, todo)
        PROVE  call'.op = op /\ (call'.ok => call'.todo = todo)
    BY <1>2 DEF Begin
  <1>3. <<on>> # <<>> /\ <<zero, off>> # <<>>
    BY One, Two
  <1>4. CASE h = "RunState" /\ WritePowerState(request.run = 1)
    <2>1. /\ call'.op = IF request.run = 1 THEN "start" ELSE "stop"
          /\ call'.ok => call'.todo # <<>>
      <3>1. CASE request.run = 1
        BY <3>1, <1>3, <1>4 DEF WritePowerState, Begin
      <3>2. CASE request.run # 1
        <4>1. Begin("stop", WritesEnabled /\ drv.telemetryValid,
                    <<zero, off>>)
          BY <3>2, <1>4 DEF WritePowerState
        <4>2. call'.op = "stop" /\ (call'.ok => call'.todo = <<zero, off>>)
          BY <1>2, <4>1
        <4> QED
          BY <3>2, <4>2, <1>3, Zenon
      <3> QED
        BY <3>1, <3>2
    <2> QED
      BY <2>1, <1>1, <1>4 DEF Underway
  <1>5. CASE h = "SocLimits" /\ WriteSocLimitsPct(request.lower, request.upper)
    <2>1. SocTodo(request.lower, request.upper)
              \in {<<upper, lower>>, <<lower, upper>>}
      BY DEF SocTodo
    <2>2. call'.op = "soc" /\ (call'.ok => call'.todo
                                   = SocTodo(request.lower, request.upper))
      BY <1>2, <1>5 DEF WriteSocLimitsPct
    <2> QED
      BY <2>1, <2>2, <1>1, <1>5 DEF Underway
  <1>6. CASE /\ h = "ReactivePower"
             /\ WriteReactivePowerSetpointKvar(DecodeSigned(request.reactive))
    <2>1. request.reactive \in Int16
      BY DEF ServiceInv, ServiceTypeOK, Operations, OperatorRegisters
    <2>2. EncodeSigned(DecodeSigned(request.reactive)) = request.reactive
      BY <2>1, RoundTrip
    <2>3. call'.op = "reactive" /\ (call'.ok => call'.todo = <<reactive>>)
      BY <1>2, <1>6, <2>2 DEF WriteReactivePowerSetpointKvar
    <2> QED
      BY <2>3, <1>1, <1>6 DEF Underway
  <1> QED
    BY <1>4, <1>5, <1>6 DEF OperatorAction

(* An action that has come to its end with success is achieved. *)
LEMMA ActionEnds ==
    ASSUME NEW request, NEW action \in Actions, Underway(request, action),
           call.todo = <<>>, call.ok
    PROVE  Achieved(request, action)
  <1>1. \A a : <<a>> # <<>>
    BY One
  <1>2. \A a, b : <<a, b>> # <<>>
    BY Two
  <1> QED
    BY <1>1, <1>2 DEF Underway, Actions, Achieved

(* What is not the first is in the rest. *)
LEMMA HasTail ==
    ASSUME NEW s \in Seq(Actions), s # <<>>, NEW a, Has(s, a), a # Head(s)
    PROVE  Has(Tail(s), a)
  <1>1. PICK i \in 1 .. Len(s) : s[i] = a
    BY DEF Has
  <1>2. i # 1 /\ Len(s) \in Nat /\ Len(Tail(s)) = Len(s) - 1
    BY <1>1
  <1>3. i - 1 \in 1 .. Len(Tail(s)) /\ Tail(s)[i - 1] = a
    BY <1>1, <1>2
  <1> QED
    BY <1>3 DEF Has

LEMMA OperationStep ==
    ASSUME ~LocalPanel, DriverInv, ServiceInv, OperationInv, [Next]_vars
    PROVE  OperationInv'
  <1>1. /\ operation \in Operations /\ operation.todo \in Seq(Actions)
        /\ operator \in OperatorRegisters
        /\ call \in [op : Ops, todo : Seq(Writes), ok : BOOLEAN]
    BY DEF ServiceInv, ServiceTypeOK, Operations, DriverInv, DriverTypeOK
  <1>2. CASE pc' \notin {"actions", "actionReply"}
    BY <1>2 DEF OperationInv
  <1>3. CASE TakeOperatorCommand /\ pc' = "actions"
    <2>1. /\ ~InvalidRequest(operator)
          /\ operation' = [request |-> operator,
                           todo |-> ActionOrder(operator.mask),
                           accepted |-> TRUE]
      BY <1>3 DEF TakeOperatorCommand
    <2>2. operator.mask \subseteq Actions
      BY <2>1 DEF InvalidRequest
    <2>3. \A action \in operator.mask : Has(operation'.todo, action)
      BY <2>1, <2>2, ActionOrderCovers
    <2> QED
      BY <1>3, <2>1, <2>3 DEF OperationInv
  <1>4. CASE OperatorAction
    <2>1. /\ pc = "actions" /\ pc' = "actionReply" /\ operation' = operation
          /\ ~Exchange /\ ~Elapse
      BY <1>4 DEF OperatorAction, Exchange, Elapse
    <2>2. reg' = reg
      BY <2>1, RegistersUntouched
    <2>3. Underway(operation.request, Head(operation.todo))'
      BY <1>4, ActionBegins
    <2> QED
      BY <2>1, <2>2, <2>3 DEF OperationInv, Achieved
  <1>5. CASE OperatorActionDone
    <2> DEFINE h == Head(operation.todo)
    <2>1. /\ pc = "actionReply" /\ pc' = "actions"
          /\ operation.todo # <<>> /\ call.todo = <<>> /\ reg' = reg
          /\ operation' = [operation EXCEPT !.todo = Tail(@),
                                            !.accepted = @ /\ call.ok]
      BY <1>5 DEF OperatorActionDone, Return, Finished, ServiceInv
    <2>2. /\ operation'.request = operation.request
          /\ operation'.todo = Tail(operation.todo)
          /\ operation'.accepted => operation.accepted /\ call.ok
      BY <1>1, <2>1 DEF Operations
    <2>3. h \in Actions
      BY <1>1, <2>1
    <2>4. operation'.accepted => Achieved(operation.request, h)
      BY <2>1, <2>2, <2>3, ActionEnds DEF OperationInv
    <2>5. \A action \in operation.request.mask :
              \/ Has(operation'.todo, action)
              \/ operation'.accepted => Achieved(operation.request, action)
      <3> TAKE action \in operation.request.mask
      <3> HIDE DEF h
      <3>1. CASE action = h
        BY <3>1, <2>4
      <3>2. CASE action # h /\ Has(operation.todo, action)
        BY <3>2, <1>1, <2>1, <2>2, HasTail DEF h
      <3>3. CASE ~Has(operation.todo, action)
        BY <3>3, <2>1, <2>2 DEF OperationInv
      <3> QED
        BY <3>1, <3>2, <3>3
    <2>6. \A action : Achieved(operation.request, action) =>
                          Achieved(operation.request, action)'
      BY <2>1, <2>2 DEF Achieved
    <2> QED
      BY <2>1, <2>2, <2>5, <2>6 DEF OperationInv, Achieved
  <1>6. CASE pc' = pc /\ pc \in {"actions", "actionReply"}
    <2> DEFINE request == operation.request
               h == Head(operation.todo)
    <2>1. operation' = operation
      BY <1>6, Waiting
    <2>2. ~InvalidRequest(request) /\ request.mask \subseteq Actions
      BY <1>6 DEF OperationInv, InvalidRequest
    <2>3. pc = "actionReply" => Underway(request, h)'
      <3>1. SUFFICES ASSUME pc = "actionReply" PROVE Underway(request, h)'
        OBVIOUS
      <3>2. h \in Actions /\ Underway(request, h)
        BY <1>1, <3>1 DEF ServiceInv, OperationInv
      <3>3. CASE Exchange
        <4>1. CASE h = "RunState"
          BY <4>1, <3>2, <3>3, <2>1, RunStateExchange
        <4>2. CASE h = "SocLimits"
          BY <4>2, <3>2, <3>3, <2>1, SocLimitsExchange
        <4>3. CASE h = "ReactivePower"
          BY <4>3, <3>2, <3>3, <2>1, ReactiveExchange
        <4> QED
          BY <4>1, <4>2, <4>3, <3>2 DEF Actions
      <3>4. CASE ~Exchange
        <4>1. call' = call
          BY <1>6, <3>4, Waiting
        <4>2. /\ \A r \in Registers \ {"HeartbeatSeconds",
                                       "PcsPowerCommand"} : reg'[r] = reg[r]
              /\ reg'["PcsPowerCommand"] \in {reg["PcsPowerCommand"], 0}
          BY <3>4, RegistersUntouched
        <4>3. /\ reg'["PcsPowerOn"] = reg["PcsPowerOn"]
              /\ reg'["PcsSocUpperLimit"] = reg["PcsSocUpperLimit"]
              /\ reg'["PcsSocLowerLimit"] = reg["PcsSocLowerLimit"]
              /\ reg'["PcsReactivePowerCommand"]
                     = reg["PcsReactivePowerCommand"]
          BY <4>2 DEF Registers
        <4> QED
          BY <4>1, <4>2, <4>3, <3>2, <2>1 DEF Underway, Achieved
      <3> QED
        BY <3>3, <3>4
    <2>4. ASSUME NEW action \in request.mask, ~Has(operation.todo, action),
                 operation.accepted
          PROVE  Achieved(request, action)'
      <3>1. Achieved(request, action) /\ action \in Actions
        BY <1>6, <2>2, <2>4 DEF OperationInv
      <3>2. Exchange => action # Head(operation.todo)
        <4>1. SUFFICES ASSUME Exchange PROVE action # Head(operation.todo)
          OBVIOUS
        <4>2. operation.todo # <<>>
          BY <1>6, <4>1 DEF Exchange, ServiceInv
        <4>3. 1 \in 1 .. Len(operation.todo)
                /\ Head(operation.todo) = operation.todo[1]
          BY <4>2, <1>1
        <4> QED
          BY <4>3, <2>4 DEF Has
      <3>3. Achieved(operation.request, action)'
              <=> Achieved(request, action)'
        BY <2>1
      <3> QED
        BY <3>1, <3>2, <1>6, <2>1, AchievedKept DEF Achieved
    <2> QED
      BY <1>6, <2>1, <2>2, <2>3, <2>4 DEF OperationInv
  <1>7. TakeOperatorCommand \/ OperatorAction \/ OperatorActionDone
          \/ pc' = pc \/ pc' \notin {"actions", "actionReply"}
    BY DEF Next, MainLoop, vars, serviceVars, TakeCommand, Poll, PollDone,
           Heartbeat, HeartbeatDone, ApplySetpoint, SetpointDone,
           OperatorDone, Publish, Exchange, WriteEms, WriteOperator, Crash,
           StartAgain, Elapse, Cabinet
  <1>8. TakeOperatorCommand => pc' # "actionReply"
    BY DEF TakeOperatorCommand
  <1> QED
    BY <1>2, <1>3, <1>4, <1>5, <1>6, <1>7, <1>8

-----------------------------------------------------------------------------
(* What the operator command in hand asks for is valid, and only its stop
   stops the cabinet. *)
RequestInv ==
    /\ pc \in {"actions", "actionReply"} =>
         /\ ~InvalidRequest(operation.request)
         /\ operation.todo \in Seq(operation.request.mask)
    /\ call.op = "stop" => pc = "actionReply" /\ Stops(operation.request)

LEMMA ActionOrderMask ==
    ASSUME NEW mask
    PROVE  ActionOrder(mask) \in Seq(mask)
  <1> DEFINE Only(action) == IF action \in mask THEN <<action>> ELSE <<>>
  <1>1. \A action : Only(action) \in Seq(mask)
    OBVIOUS
  <1>2. ActionOrder(mask)
            = Only("RunState") \o Only("SocLimits") \o Only("ReactivePower")
    BY DEF ActionOrder
  <1> HIDE DEF Only
  <1> QED
    BY <1>1, <1>2

LEMMA RequestStep ==
    ASSUME DriverInv, ServiceInv, CallPlace, RequestInv, [Next]_vars
    PROVE  RequestInv'
  <1>1. /\ call \in [op : Ops, todo : Seq(Writes), ok : BOOLEAN]
        /\ operation \in Operations /\ operator \in OperatorRegisters
        /\ operation.request.run \in Nat /\ Idle.op = "none"
    BY DEF DriverInv, DriverTypeOK, ServiceInv, ServiceTypeOK, Operations,
           OperatorRegisters, Idle
  <1>2. CASE UNCHANGED <<pc, operation>> /\ call'.op = call.op
    BY <1>2 DEF RequestInv
  <1>3. CASE TakeOperatorCommand
    <2>1. pc = "operator" /\ call' = call /\ call.op # "stop"
      BY <1>3 DEF TakeOperatorCommand, driverVars, RequestInv
    <2>2. \/ pc' = "publish"
          \/ /\ pc' = "actions" /\ ~InvalidRequest(operator)
             /\ operation' = [request |-> operator,
                              todo |-> ActionOrder(operator.mask),
                              accepted |-> TRUE]
      BY <1>3 DEF TakeOperatorCommand
    <2> QED
      BY <2>1, <2>2, ActionOrderMask DEF RequestInv
  <1>4. CASE OperatorAction
    <2>1. /\ pc = "actions" /\ pc' = "actionReply" /\ operation' = operation
          /\ operation.todo # <<>>
      BY <1>4 DEF OperatorAction
    <2>2. Head(operation.todo) \in operation.request.mask
      BY <2>1 DEF RequestInv
    <2>3. call'.op = "stop" => /\ Head(operation.todo) = "RunState"
                               /\ operation.request.run # 1
      BY <1>4 DEF OperatorAction, WritePowerState, WriteSocLimitsPct,
                  WriteReactivePowerSetpointKvar, Begin
    <2>4. call'.op = "stop" => Stops(operation.request)
      BY <1>1, <2>1, <2>2, <2>3 DEF RequestInv, InvalidRequest, Stops
    <2> QED
      BY <2>1, <2>4 DEF RequestInv
  <1>5. CASE OperatorActionDone
    <2>1. /\ pc = "actionReply" /\ pc' = "actions" /\ call' = Idle
          /\ operation' = [operation EXCEPT !.todo = Tail(@),
                                            !.accepted = @ /\ call.ok]
      BY <1>5 DEF OperatorActionDone, Return
    <2>2. /\ operation'.request = operation.request
          /\ operation'.todo = Tail(operation.todo)
      BY <1>1, <2>1 DEF Operations
    <2>3. operation.todo # <<>>
      BY <2>1 DEF ServiceInv
    <2>4. operation'.todo \in Seq(operation.request.mask)
      <3>1. \A S, s : s \in Seq(S) /\ s # <<>> => Tail(s) \in Seq(S)
        OBVIOUS
      <3>2. operation.todo \in Seq(operation.request.mask)
        BY <2>1 DEF RequestInv
      <3> QED
        BY <3>1, <3>2, <2>2, <2>3
    <2> QED
      BY <1>1, <2>1, <2>2, <2>4 DEF RequestInv
  <1>6. TakeCommand \/ Poll \/ PollDone \/ OperatorDone \/ Publish
          \/ StartAgain
          => /\ call' = call /\ pc # "actionReply"
             /\ pc' \notin {"actions", "actionReply"}
    BY DEF TakeCommand, Poll, PollBegin, PollDone, PollEnd, OperatorDone,
           Publish, StartAgain, driverVars
  <1>7. Heartbeat \/ HeartbeatDone \/ ApplySetpoint \/ SetpointDone \/ Crash
          => call'.op # "stop" /\ pc' \notin {"actions", "actionReply"}
    BY <1>1
    DEF Heartbeat, RefreshHeartbeat, HeartbeatDone, ApplySetpoint,
        WritePowerSetpointKw, SetpointDone, Begin, Return, Crash, Restart,
        driverVars, RequestInv
  <1>8. WriteEms \/ WriteOperator \/ Exchange \/ Elapse \/ Cabinet
          \/ UNCHANGED vars
          => UNCHANGED <<pc, operation>> /\ call'.op = call.op
    BY <1>1, ExchangeFacts
    DEF WriteEms, WriteOperator, Exchange, Elapse, CabinetTick, Cabinet,
        CabinetChanges, serviceVars, vars, driverVars
  <1> QED
    BY <1>2, <1>3, <1>4, <1>5, <1>6, <1>7, <1>8 DEF Next, MainLoop, RequestInv

(* An exchange that is not one of a setpoint moves register 5005 only for a
   stop, and then to zero. *)
LEMMA OnlyStopZeroes ==
    ASSUME DriverInv, Exchange, [Next]_vars, call.op # "setpoint",
           reg'["PcsPowerCommand"] # reg["PcsPowerCommand"]
    PROVE  call.op = "stop" /\ reg'["PcsPowerCommand"] = 0
  <1> DEFINE w == Head(call.todo)
  <1>1. reg'["PcsPowerCommand"] = 0
    BY PowerChange
  <1>2. /\ call.todo # <<>> /\ DriverTypeOK /\ w \in Writes
        /\ Perform(w) \/ UNCHANGED reg
    BY ExchangeFacts DEF DriverInv
  <1>3. w.register = "PcsPowerCommand"
    BY <1>2, PerformType DEF Registers
  <1>4. call.op \notin {"soc", "reactive"}
    BY <1>2, <1>3, ActionRegister DEF Own
  <1>5. \A a, v : Head(<<Write(a, v)>>).register = a
    BY One DEF Write
  <1>6. \A a, v, b : Head(<<Write(a, v), b>>).register = a
    BY Two DEF Write
  <1> QED
    BY <1>1, <1>2, <1>3, <1>4, <1>5, <1>6 DEF DriverInv, CallShape

(* What the state published as Ready or SafeMode rests on: while the setpoint
   is being written, when it has been, and after the operator's command. *)
Healthy == tick.state \in {"Ready", "SafeMode"}

Commanded ==
    \/ reg["PcsPowerCommand"] = EncodeSigned(tick.applied)
    \/ Stops(operation.request) /\ reg["PcsPowerCommand"] = 0

Reporting == {"operator", "actions", "actionReply", "publish"}

ReportedInv ==
    /\ pc \in {"setpointReply"} \cup Reporting /\ Healthy => tick.heartbeatOk
    /\ pc = "setpointReply" /\ call.todo # <<>> =>
           call.todo = <<Write("PcsPowerCommand", EncodeSigned(tick.applied))>>
    /\ pc = "setpointReply" /\ call.todo = <<>> /\ call.ok /\ Healthy =>
           reg["PcsPowerCommand"] = EncodeSigned(tick.applied)
    /\ pc = "operator" /\ Healthy =>
           reg["PcsPowerCommand"] = EncodeSigned(tick.applied)
    /\ pc \in {"actions", "actionReply", "publish"} /\ Healthy => Commanded

(* Which steps bring the main loop past its tick. *)
LEMMA ReportFlow ==
    ASSUME [Next]_vars, pc' \in {"actions", "actionReply", "publish"}, pc' # pc
    PROVE  TakeOperatorCommand \/ OperatorAction \/ OperatorActionDone
             \/ OperatorDone
  BY DEF Next, MainLoop, vars, serviceVars, TakeCommand, Poll, PollDone,
         Heartbeat, HeartbeatDone, ApplySetpoint, SetpointDone, Publish,
         Exchange, WriteEms, WriteOperator, Crash, StartAgain, Elapse,
         Cabinet

(* While the loop waits past its tick, only an operator's stop moves the
   power. *)
LEMMA ReportWaits ==
    ASSUME DriverInv, ServiceInv, ControlInv, RequestInv, ReportedInv,
           [Next]_vars, pc' = pc, pc \in Reporting, Healthy
    PROVE  \/ reg'["PcsPowerCommand"] = reg["PcsPowerCommand"]
           \/ /\ pc = "actionReply" /\ Stops(operation.request)
              /\ reg'["PcsPowerCommand"] = 0
  <1>1. CASE Exchange
    <2>1. call.op # "setpoint"
      BY DEF ControlInv, CallPlace, Reporting
    <2> QED
      BY <2>1, <1>1, OnlyStopZeroes DEF RequestInv
  <1>2. CASE Elapse
    <2>1. tick.heartbeatOk /\ pc \in UntilReported
      BY DEF ReportedInv, UntilReported, Reporting
    <2> QED
      BY <2>1, <1>2, PowerHolds
  <1> QED
    BY <1>1, <1>2, Untouched

LEMMA ReportedStep ==
    ASSUME DriverInv, ServiceInv, ControlInv, RequestInv, ReportedInv,
           [Next]_vars
    PROVE  ReportedInv'
  <1>1. /\ tick \in Ticks
        /\ call \in [op : Ops, todo : Seq(Writes), ok : BOOLEAN]
    BY DEF DriverInv, DriverTypeOK, ServiceInv, ServiceTypeOK
  <1>2. CASE pc' \notin {"setpointReply"} \cup Reporting
    BY <1>2 DEF ReportedInv, Reporting
  <1>3. CASE ApplySetpoint
    <2>1. /\ tick'.heartbeatOk = tick.heartbeatOk
          /\ \/ tick'.state = "CommissioningLocked"
             \/ tick'.state = StateOf(tick) /\ tick'.applied = Envelope
      BY <1>1, <1>3 DEF ApplySetpoint, Ticks
    <2>2. Healthy' =>
              tick.heartbeatOk /\ tick.battery.controlReady /\ WritesEnabled
      BY <1>1, <1>3, <2>1 DEF StateOf, ApplySetpoint, Ticks, Healthy
    <2>3. CASE pc' = "operator"
      <3>1. ~Healthy'
        BY <1>3, <2>2, <2>3 DEF ApplySetpoint
      <3> QED
        BY <3>1, <2>3 DEF ReportedInv
    <2>4. CASE pc' = "setpointReply"
      <3>1. /\ WritePowerSetpointKw(Envelope) /\ tick'.applied = Envelope
        BY <1>1, <1>3, <2>4 DEF ApplySetpoint, Ticks
      <3> DEFINE todo == <<Write("PcsPowerCommand", EncodeSigned(Envelope))>>
      <3>2. todo # <<>>
        BY One
      <3>3. \/ call'.todo = todo
            \/ call'.todo = <<>> /\ ~call'.ok
        BY <3>1 DEF WritePowerSetpointKw, Begin
      <3> HIDE DEF todo
      <3>4. /\ call'.todo # <<>> => call'.todo = todo
            /\ call'.todo = <<>> => ~call'.ok
        BY <3>2, <3>3
      <3> QED
        BY <3>1, <3>4, <2>1, <2>2, <2>4 DEF ReportedInv, todo
    <2> QED
      BY <2>3, <2>4, <1>3 DEF ApplySetpoint
  <1>4. CASE SetpointDone
    <2>1. /\ pc = "setpointReply" /\ pc' = "operator" /\ call.todo = <<>>
          /\ reg' = reg
          /\ IF call.ok THEN tick' = tick ELSE tick'.state = "Fault"
      BY <1>1, <1>4 DEF SetpointDone, Return, Finished, Ticks
    <2> QED
      BY <2>1 DEF ReportedInv, Healthy
  <1>5. CASE pc' = pc /\ pc = "setpointReply"
    <2>1. tick' = tick /\ (Healthy' <=> Healthy)
      BY <1>5, Waiting DEF Healthy
    <2>2. CASE Exchange
      <3> DEFINE w == Write("PcsPowerCommand", EncodeSigned(tick.applied))
      <3>1. call.todo = <<w>>
        BY <1>5, <2>2, ExchangeFacts DEF ReportedInv
      <3>2. Head(call.todo) = w /\ Tail(call.todo) = <<>>
        BY <3>1, One
      <3>3. call'.todo = <<>> /\ DriverTypeOK
        BY <3>2, <2>2, ExchangeFacts DEF DriverInv
      <3>4. call'.ok => Perform(w) /\ w \in Writes
        BY <3>2, <2>2, ExchangeFacts
      <3>5. w.register = "PcsPowerCommand"
              /\ w.value = EncodeSigned(tick.applied)
        BY DEF Write
      <3> HIDE DEF w
      <3>6. call'.ok =>
                reg'["PcsPowerCommand"] = EncodeSigned(tick.applied)
        BY <3>3, <3>4, <3>5, PerformType
      <3> QED
        BY <3>3, <3>6, <2>1, <1>5 DEF ReportedInv
    <2>3. CASE ~Exchange
      <3>1. call' = call
        BY <1>5, <2>3, Waiting
      <3>2. Healthy => reg'["PcsPowerCommand"] = reg["PcsPowerCommand"]
        <4>1. CASE Elapse
          <5>1. Healthy => tick.heartbeatOk
            BY <1>5 DEF ReportedInv
          <5> QED
            BY <4>1, <5>1, <1>5, PowerHolds DEF UntilReported, InTick
        <4>2. CASE ~Elapse
          BY <4>2, <2>3, Untouched
        <4> QED
          BY <4>1, <4>2
      <3> QED
        BY <3>1, <3>2, <2>1, <1>5 DEF ReportedInv
    <2> QED
      BY <2>2, <2>3
  <1>6. CASE pc' = pc /\ pc \in Reporting
    <2>1. UNCHANGED <<tick, operation>> /\ (Healthy' <=> Healthy)
      BY <1>6, Waiting DEF Healthy
    <2>2. Healthy =>
              \/ reg'["PcsPowerCommand"] = reg["PcsPowerCommand"]
              \/ /\ pc = "actionReply" /\ Stops(operation.request)
                 /\ reg'["PcsPowerCommand"] = 0
      BY <1>6, ReportWaits
    <2> QED
      BY <2>1, <2>2, <1>6 DEF ReportedInv, Commanded, Reporting
  <1>7. CASE TakeOperatorCommand
    <2>1. /\ pc = "operator" /\ pc' \in {"actions", "publish"}
          /\ UNCHANGED <<tick, reg>> /\ (Healthy' <=> Healthy)
      BY <1>7 DEF TakeOperatorCommand, driverVars, Healthy
    <2> QED
      BY <2>1 DEF ReportedInv, Commanded, Reporting
  <1>8. CASE OperatorAction \/ OperatorActionDone \/ OperatorDone
    <2>1. /\ pc \in {"actions", "actionReply"}
          /\ pc' \in {"actions", "actionReply", "publish"}
          /\ tick' = tick /\ (Healthy' <=> Healthy)
          /\ ~Exchange /\ ~Elapse
      BY <1>8 DEF OperatorAction, OperatorActionDone, OperatorDone, Healthy,
                  Exchange, Elapse, serviceVars
    <2>2. operation'.request = operation.request
      BY <1>8
      DEF OperatorAction, OperatorActionDone, OperatorDone, ServiceInv,
          ServiceTypeOK, Operations
    <2>3. reg'["PcsPowerCommand"] = reg["PcsPowerCommand"]
      BY <2>1, Untouched
    <2> QED
      BY <2>1, <2>2, <2>3 DEF ReportedInv, Commanded, Reporting
  <1>9. pc' = "operator" => ApplySetpoint \/ SetpointDone \/ pc = "operator"
    BY TickFlow
  <1>10. pc' = "setpointReply" => ApplySetpoint \/ pc = "setpointReply"
    BY TickFlow
  <1> QED
    BY <1>2, <1>3, <1>4, <1>5, <1>6, <1>7, <1>8, <1>9, <1>10, ReportFlow
    DEF Reporting

-----------------------------------------------------------------------------
(* The inductive invariant of a command's way: what holds in every
   configuration, and what needs a cabinet that is switched on and off by
   the gateway alone. *)
CommandInv == TickIsPoll /\ ConfiguredInv /\ RequestInv /\ ReportedInv

AloneInv == ~LocalPanel => SwitchedInv /\ OperationInv

LEMMA CommandInitInv == Init => CommandInv /\ AloneInv
  <1> SUFFICES ASSUME Init PROVE CommandInv /\ AloneInv
    OBVIOUS
  <1>1. /\ call.op = "none" /\ pc = "top" /\ reg["PcsPowerCommand"] = 0
        /\ ~scan.active
    BY DEF Init, DriverInit, ServiceInit, Idle, NoScan, Registers
  <1>2. CommandInv
    BY <1>1, WithinZero
    DEF CommandInv, TickIsPoll, ConfiguredInv, RequestInv, ReportedInv,
        Reporting
  <1>3. AloneInv
    BY <1>1 DEF AloneInv, SwitchedInv, OperationInv
  <1> QED
    BY <1>2, <1>3

LEMMA CommandInvariant ==
    Spec => [](DriverInv /\ ServiceInv /\ ControlInv /\ CommandInv /\ AloneInv)
  <1>1. DriverInv /\ ServiceInv /\ ControlInv /\ CommandInv /\ [Next]_vars
            => CommandInv'
    BY TickIsPollStep, ConfiguredStep, RequestStep, ReportedStep
    DEF CommandInv, ControlInv
  <1>2. DriverInv /\ ServiceInv /\ ControlInv /\ AloneInv /\ [Next]_vars
            => AloneInv'
    BY SwitchedStep, OperationStep DEF AloneInv, ControlInv
  <1> QED
    BY <1>1, <1>2, CommandInitInv, ControlInvariant, PTL DEF Spec

(* The two independent checks of a setpoint never disagree: what
   SafetyEnvelope::apply returns, writePowerSetpointKw accepts, so a setpoint
   is lost only to the link. *)
THEOREM EnvelopeNeverRefusedSafe == Spec => []EnvelopeNeverRefused
  <1>1. ServiceInv /\ CommandInv => EnvelopeNeverRefused
    BY NeverRefused DEF CommandInv
  <1> QED
    BY <1>1, CommandInvariant, PTL

(* The power in register 5005 keeps to the configured limits, to the rounding
   of the register, whatever the BMS reports and whichever exchange is lost. *)
THEOREM WithinConfiguredLimitsSafe == Spec => []WithinConfiguredLimits
  <1>1. CommandInv => WithinConfiguredLimits
    BY DEF CommandInv, ConfiguredInv, Within, WithinConfiguredLimits
  <1> QED
    BY <1>1, CommandInvariant, PTL

(* When the service publishes Ready or SafeMode, register 5005 holds the power
   it publishes, unless a stop that the operator asked for in the same
   iteration has put it to zero: neither a lost answer nor the cabinet's
   watchdog nor another operator command can come between. *)
THEOREM ReportedMeansCommandedSafe == Spec => []ReportedMeansCommanded
  <1>1. CommandInv => ReportedMeansCommanded
    BY DEF CommandInv, ReportedInv, ReportedMeansCommanded, Healthy, Commanded
  <1> QED
    BY <1>1, CommandInvariant, PTL

(* In a cabinet that only the gateway switches, register 5005 is not moved to a
   value other than zero while register 5003 is zero.  What stood in it before
   may stay there, when a stop's zero was lost. *)
THEOREM NoPowerWhileStoppedSafe ==
    ASSUME ~LocalPanel PROVE Spec => NoPowerWhileStopped
  <1>1. DriverInv /\ ControlInv /\ AloneInv /\ [Next]_vars =>
            [reg'["PcsPowerCommand"] \notin {0, reg["PcsPowerCommand"]} =>
                 reg["PcsPowerOn"] = 1]_vars
    BY PowerChange
    DEF AloneInv, SwitchedInv, ControlInv, CallPlace
  <1> QED
    BY <1>1, CommandInvariant, PTL DEF Spec, NoPowerWhileStopped

(* An operator command answered with success has taken effect in every
   register its mask names, if the gateway alone switches the cabinet. *)
THEOREM SuccessMeansDoneSafe ==
    ASSUME ~LocalPanel PROVE Spec => []SuccessMeansDone
  <1>1. ServiceInv /\ AloneInv => SuccessMeansDone
    <2> SUFFICES ASSUME ServiceInv, AloneInv,
                        pc = "actions", operation.todo = <<>>,
                        operation.accepted
                 PROVE  SuccessMeansDone
      BY DEF SuccessMeansDone
    <2> DEFINE request == operation.request
    <2>1. ~InvalidRequest(request) /\ request.run \in Nat
      BY DEF AloneInv, OperationInv, ServiceInv, ServiceTypeOK, Operations,
             OperatorRegisters
    <2>2. \A action : ~Has(operation.todo, action)
      BY DEF Has
    <2>3. \A action \in request.mask : Achieved(request, action)
      BY <2>2 DEF AloneInv, OperationInv
    <2>4. "RunState" \in request.mask => request.run \in {0, 1}
      BY <2>1 DEF InvalidRequest
    <2> QED
      BY <2>3, <2>4 DEF SuccessMeansDone, Achieved
  <1> QED
    BY <1>1, CommandInvariant, PTL

-----------------------------------------------------------------------------
(* A cabinet and a link that always work: what SilenceMeansZero supposes. *)
Dependable ==
    /\ WritesEnabled /\ ~LocalPanel /\ ~MayCrash /\ Links \subseteq {TRUE}
    /\ \A s \in Statuses : s.gridTied /\ s.currentSource /\ ~s.faulted
    /\ \A b \in Reports : LimitsValid(b)

Sound(s) == s.gridTied /\ s.currentSource /\ ~s.faulted

(* Then every poll succeeds and finds the cabinet ready exactly if it is
   switched on, no exchange fails, and a cabinet switched off has no power. *)
SoundInv ==
    /\ link /\ pc # "down" /\ LimitsValid(bms) /\ Sound(status)
    /\ scan.active => /\ scan.ok /\ Sound(scan.status)
                      /\ scan.powerOn <=> reg["PcsPowerOn"] = 1
    /\ call.todo # <<>> => call.ok
    /\ reg["PcsPowerOn"] = 0 => reg["PcsPowerCommand"] = 0
    /\ pc \in {"heartbeat", "heartbeatReply", "setpoint", "setpointReply"} =>
         /\ drv.controlReady <=> reg["PcsPowerOn"] = 1
         /\ drv.limitsValid

(* Has this iteration's setpoint been written, or is there none to come? *)
Settled == pc \in InTick => pc = "setpointReply" /\ call.todo = <<>>

(* How long the EMS can have been silent while a power is in force. *)
PowerAge ==
    reg["PcsPowerCommand"] # 0 =>
        emsSilence <= EmsTimeout + (IF Settled THEN MaxLoop ELSE 2 * MaxLoop)
                      + loopAge

LEMMA LinkAndReports ==
    ASSUME Dependable, SoundInv, [Next]_vars
    PROVE  (link /\ pc # "down" /\ LimitsValid(bms) /\ Sound(status))'
  <1>1. CASE Cabinet
    BY <1>1 DEF Cabinet, CabinetChanges, Dependable, SoundInv, Sound,
                serviceVars, LimitsValid
  <1>2. ~Crash
    BY DEF Crash, Dependable
  <1>3. TakeCommand \/ TakeOperatorCommand \/ OperatorDone \/ Publish
          \/ StartAgain \/ WriteEms \/ WriteOperator \/ UNCHANGED vars
          => UNCHANGED <<link, bms, status>> /\ (pc' = pc \/ pc' # "down")
    BY DEF TakeCommand, TakeOperatorCommand, OperatorDone, Publish,
           StartAgain, WriteEms, WriteOperator, vars, driverVars, serviceVars
  <1>4. Poll \/ PollDone \/ HeartbeatDone \/ SetpointDone
          \/ OperatorActionDone
          => UNCHANGED <<link, bms, status>> /\ pc' # "down"
    BY DEF Poll, PollDone, PollBegin, PollEnd, HeartbeatDone, SetpointDone,
           OperatorActionDone, Return
  <1>5. Heartbeat \/ ApplySetpoint \/ OperatorAction
          => UNCHANGED <<link, bms, status>> /\ pc' # "down"
    BY DEF Heartbeat, RefreshHeartbeat, ApplySetpoint, WritePowerSetpointKw,
           OperatorAction, WritePowerState, WriteSocLimitsPct,
           WriteReactivePowerSetpointKvar, Begin, driverVars
  <1>6. Exchange \/ Elapse => UNCHANGED <<link, bms, status, pc>>
    BY DEF Exchange, WriteAcknowledged, WriteFailed, Elapse, CabinetTick,
           serviceVars
  <1>7. UNCHANGED <<link, bms, status>> =>
            (link /\ LimitsValid(bms) /\ Sound(status))'
    BY DEF SoundInv, LimitsValid, Sound
  <1> QED
    BY <1>1, <1>2, <1>3, <1>4, <1>5, <1>6, <1>7 DEF Next, MainLoop, SoundInv

LEMMA CallsSucceed ==
    ASSUME DriverInv, SoundInv, [Next]_vars
    PROVE  call'.todo # <<>> => call'.ok
  <1>1. CASE Exchange
    <2>1. link /\ call.todo # <<>> /\ call'.ok = call.ok
      BY <1>1, ExchangeFacts DEF SoundInv
    <2> QED
      BY <2>1 DEF SoundInv
  <1>2. ASSUME NEW op, NEW accepted, NEW todo, Begin(op, accepted, todo)
        PROVE  call'.todo # <<>> => call'.ok
    BY <1>2 DEF Begin
  <1>3. CASE call' = call
    BY <1>3 DEF SoundInv
  <1>4. TakeCommand \/ TakeOperatorCommand \/ OperatorDone \/ Publish
          \/ StartAgain \/ WriteEms \/ WriteOperator \/ UNCHANGED vars
          \/ Poll \/ PollDone \/ Elapse \/ Cabinet => call' = call
    BY DEF TakeCommand, TakeOperatorCommand, OperatorDone, Publish,
           StartAgain, WriteEms, WriteOperator, vars, driverVars, Poll,
           PollBegin, PollDone, PollEnd, Elapse, CabinetTick, Cabinet,
           CabinetChanges
  <1>5. HeartbeatDone \/ SetpointDone \/ OperatorActionDone \/ Crash
          => call'.todo = <<>>
    BY DEF HeartbeatDone, SetpointDone, OperatorActionDone, Return, Crash,
           Restart, Idle
  <1>6. CASE Heartbeat \/ ApplySetpoint
    BY <1>2, <1>3, <1>6
    DEF Heartbeat, RefreshHeartbeat, ApplySetpoint, WritePowerSetpointKw,
        driverVars
  <1>7. CASE OperatorAction
    BY <1>2, <1>7
    DEF OperatorAction, WritePowerState, WriteSocLimitsPct,
        WriteReactivePowerSetpointKvar
  <1> QED
    BY <1>1, <1>3, <1>4, <1>5, <1>6, <1>7 DEF Next, MainLoop

(* A confirmed stop has taken the power back before it switches off. *)
LEMMA OffMeansZero ==
    ASSUME ~LocalPanel, DriverInv, ServiceInv, CallPlace, SwitchedInv,
           SoundInv, [Next]_vars
    PROVE  reg'["PcsPowerOn"] = 0 => reg'["PcsPowerCommand"] = 0
  <1>1. CASE ~Exchange
    BY <1>1, RegistersUntouched DEF SoundInv, Registers
  <1>2. CASE Exchange
    <2> DEFINE w == Head(call.todo)
    <2>1. /\ call.todo # <<>> /\ w \in Writes /\ DriverTypeOK
          /\ Perform(w) /\ call.ok
      BY <1>2, ExchangeFacts DEF SoundInv, DriverInv
    <2>2. /\ reg'[w.register] = w.value
          /\ \A r \in Registers \ {w.register} : reg'[r] = reg[r]
      BY <2>1, PerformType
    <2>3. CASE call.op \notin {"start", "stop"}
      <3>1. reg'["PcsPowerOn"] = reg["PcsPowerOn"]
        BY <2>3, SwitchUntouched
      <3>2. \/ reg'["PcsPowerCommand"] \in {reg["PcsPowerCommand"], 0}
            \/ reg["PcsPowerOn"] = 1
        BY PowerChange DEF CallPlace, SwitchedInv
      <3> QED
        BY <3>1, <3>2 DEF SoundInv
    <2>4. CASE call.op = "start"
      <3>1. call.todo = <<Write("PcsPowerOn", 1)>>
        BY <2>1, <2>4 DEF DriverInv, CallShape
      <3>2. w.register = "PcsPowerOn" /\ w.value = 1
        BY <3>1, One DEF Write
      <3> QED
        BY <2>2, <3>2
    <2>5. CASE call.op = "stop"
      <3>1. \/ call.todo = <<Write("PcsPowerCommand", 0),
                             Write("PcsPowerOn", 0)>>
            \/ /\ call.todo = <<Write("PcsPowerOn", 0)>>
               /\ reg["PcsPowerCommand"] = 0
        BY <2>1, <2>5 DEF DriverInv, CallShape
      <3>2. \/ w.register = "PcsPowerCommand" /\ w.value = 0
            \/ w.register = "PcsPowerOn" /\ reg["PcsPowerCommand"] = 0
        BY <3>1, One, Two DEF Write
      <3> HIDE DEF w
      <3> QED
        BY <2>2, <3>2 DEF Registers
    <2> QED
      BY <2>3, <2>4, <2>5
  <1> QED
    BY <1>1, <1>2

LEMMA SoundStep ==
    ASSUME Dependable, DriverInv, ServiceInv, CallPlace, SwitchedInv,
           SoundInv, [Next]_vars
    PROVE  SoundInv'
  <1> DEFINE Stretch == {"heartbeat", "heartbeatReply", "setpoint",
                         "setpointReply"}
  <1>1. ~LocalPanel
    BY DEF Dependable
  <1>2. reg["PcsPowerOn"] \in {0, 1}
    BY ValuesFacts DEF DriverInv, DriverTypeOK, Registers
  <1>3. ASSUME scan'.active
        PROVE  /\ scan'.ok /\ Sound(scan'.status)
               /\ scan'.powerOn <=> reg'["PcsPowerOn"] = 1
    <2>1. CASE Poll
      BY <2>1 DEF Poll, PollBegin, SoundInv, Sound
    <2>2. CASE scan' = scan
      <3>1. call.todo = <<>>
        BY <1>3, <2>2 DEF DriverInv, Idle
      <3>2. ~Exchange
        BY <3>1 DEF Exchange, WriteAcknowledged, WriteFailed
      <3> QED
        BY <1>1, <1>3, <2>2, <3>2, SwitchUntouched DEF SoundInv, Sound
    <2> QED
      BY <1>3, <2>1, <2>2, ScanOrigin
  <1>4. ASSUME pc' \in Stretch
        PROVE  /\ drv'.controlReady <=> reg'["PcsPowerOn"] = 1
               /\ drv'.limitsValid
    <2>1. CASE PollDone
      <3>1. /\ scan.active /\ reg' = reg
            /\ drv'.controlReady = PollResult.controlReady
            /\ drv'.limitsValid = PollResult.limitsValid
        BY <2>1 DEF PollDone, PollEnd
      <3>2. /\ PollResult.limitsValid = LimitsValid(bms)
            /\ PollResult.controlReady
                   <=> scan.powerOn /\ Sound(scan.status)
        BY <3>1 DEF PollResult, SoundInv, Sound
      <3> QED
        BY <3>1, <3>2 DEF SoundInv
    <2>2. CASE ~PollDone
      <3>1. pc \in Stretch
        <4>1. Heartbeat \/ HeartbeatDone \/ ApplySetpoint => pc \in Stretch
          BY DEF Heartbeat, HeartbeatDone, ApplySetpoint
        <4> QED
          BY <4>1, <1>4, <2>2, TickFlow
      <3>2. Exchange => call.op \notin {"start", "stop"}
        BY <3>1 DEF Exchange, CallPlace
      <3>3. ~Crash
        BY DEF Crash, Dependable
      <3>4. drv' = drv
        BY <2>2, <3>2, <3>3, DrvUntouched, ExchangeKeepsDrv
      <3>5. reg'["PcsPowerOn"] = reg["PcsPowerOn"]
        BY <1>1, <3>2, SwitchUntouched
      <3> QED
        BY <3>1, <3>4, <3>5 DEF SoundInv
    <2> QED
      BY <2>1, <2>2
  <1> QED
    BY <1>1, <1>3, <1>4, LinkAndReports, CallsSucceed, OffMeansZero
    DEF SoundInv

(* A setpoint that is written is zero unless the EMS is connected. *)
LEMMA PowerAgeStep ==
    ASSUME Dependable, DriverInv, ServiceInv, ControlInv, CommandInv,
           SwitchedInv, SoundInv, PowerAge, [Next]_vars
    PROVE  PowerAge'
  <1>1. /\ EmsTimeout \in Int /\ MaxLoop \in Int /\ MaxLoop >= 0
        /\ EmsTimeout >= 0 /\ loopAge \in Int /\ loopAge >= 0
        /\ loopAge <= MaxLoop /\ emsSilence \in Int
    BY ServiceAssumption DEF ServiceInv, ServiceTypeOK, SilenceCap
  <1>2. pc # "down" /\ ~LocalPanel /\ ~Crash
    BY DEF SoundInv, Dependable, Crash
  <1>3. CASE Elapse
    <2>1. /\ UNCHANGED <<pc, call>> /\ loopAge' = loopAge + 1
          /\ emsSilence' <= emsSilence + 1 /\ emsSilence' \in Int
      BY <1>1, <1>2, <1>3 DEF Elapse, CabinetTick, Smaller, SilenceCap
    <2>2. /\ Settled' <=> Settled
          /\ reg'["PcsPowerCommand"] \in {reg["PcsPowerCommand"], 0}
      BY <2>1, <1>2, <1>3, RegistersUntouched DEF Settled, Elapse, Exchange,
         CabinetTick, CountDown, DriverInv, DriverTypeOK, Registers
    <2> QED
      BY <2>1, <2>2, <1>1 DEF PowerAge
  <1>4. CASE TakeCommand
    <2>1. /\ pc = "top" /\ pc' = "poll" /\ loopAge' = 0 /\ reg' = reg
          /\ emsSilence' = emsSilence
      BY <1>4 DEF TakeCommand, driverVars
    <2>2. Settled /\ ~Settled'
      BY <2>1 DEF Settled, InTick
    <2> QED
      BY <2>1, <2>2, <1>1 DEF PowerAge
  <1>5. CASE WriteEms
    <2>1. /\ UNCHANGED <<pc, call, reg, loopAge>>
          /\ emsSilence' \in {emsSilence, 0}
      BY <1>5 DEF WriteEms, driverVars
    <2>2. Settled' <=> Settled
      BY <2>1 DEF Settled
    <2> QED
      BY <2>1, <2>2, <1>1 DEF PowerAge
  <1>6. CASE /\ UNCHANGED <<emsSilence, loopAge>>
             /\ reg'["PcsPowerCommand"] \in {reg["PcsPowerCommand"], 0}
             /\ Settled' => Settled \/ reg'["PcsPowerCommand"] = 0
    BY <1>1, <1>6 DEF PowerAge
  <1>7. CASE Exchange
    <2>1. UNCHANGED <<emsSilence, loopAge, pc, tick>>
      BY <1>7 DEF Exchange, serviceVars
    <2>2. CASE pc = "setpointReply"
      <3>1. call.op = "setpoint" /\ call.todo # <<>> /\ call'.op = call.op
              /\ call'.todo \in {Tail(call.todo), <<>>}
        BY <2>2, <1>7, ExchangeFacts DEF ControlInv, CallPlace
      <3>2. PICK w : call.todo = <<w>>
        BY <3>1 DEF DriverInv, CallShape
      <3>3. Settled'
        BY <3>1, <3>2, <2>1, <2>2, One DEF Settled
      <3>4. ~Settled
        BY <3>1, <2>2 DEF Settled, InTick
      <3>5. \/ reg'["PcsPowerCommand"] = 0
            \/ Head(call.todo).value # 0
            \/ reg'["PcsPowerCommand"] = reg["PcsPowerCommand"]
        BY PowerChange
      <3>6. reg'["PcsPowerCommand"] = Head(call.todo).value
        <4>1. /\ Head(call.todo) \in Writes /\ Perform(Head(call.todo))
              /\ DriverTypeOK
          BY <1>7, ExchangeFacts DEF SoundInv, DriverInv
        <4>2. Head(call.todo).register = "PcsPowerCommand"
          <5>1. PICK power : call.todo
                    = <<Write("PcsPowerCommand", EncodeSigned(power))>>
            BY <3>1 DEF DriverInv, CallShape
          <5> QED
            BY <5>1, One DEF Write
        <4> QED
          BY <4>1, <4>2, PerformType
      <3>7. reg'["PcsPowerCommand"] # 0 => tick.emsConnected
        BY <3>1, <3>6 DEF ControlInv, PowerBacked
      <3>8. reg'["PcsPowerCommand"] # 0 =>
                emsSilence <= EmsTimeout + MaxLoop + loopAge
        BY <2>2, <3>7 DEF ControlInv, SilenceInv, InTick
      <3> QED
        BY <3>3, <3>8, <2>1 DEF PowerAge
    <2>3. CASE pc # "setpointReply"
      <3>1. reg'["PcsPowerCommand"] \in {reg["PcsPowerCommand"], 0}
        BY <2>3, PowerChange DEF ControlInv, CallPlace
      <3>2. Settled' => Settled
        BY <2>1, <2>3 DEF Settled
      <3> QED
        BY <2>1, <3>1, <3>2, <1>6
    <2> QED
      BY <2>2, <2>3
  <1>8. CASE ApplySetpoint
    <2>1. /\ UNCHANGED <<emsSilence, loopAge, reg>> /\ pc = "setpoint"
          /\ WritesEnabled
      BY <1>8 DEF ApplySetpoint, bankVars, WritePowerSetpointKw, Begin,
                  driverVars, Dependable
    <2>2. CASE tick.battery.controlReady
      <3>1. pc' = "setpointReply" /\ WritePowerSetpointKw(Envelope)
        BY <1>8, <2>1, <2>2 DEF ApplySetpoint
      <3>2. /\ drv.controlReady /\ drv.limitsValid
            /\ tick.battery.limitsValid
        BY <2>1, <2>2 DEF CommandInv, TickIsPoll, SoundInv
      <3>3. DriverAccepts(Envelope, drv.bms)
        BY <2>1, <2>2, <3>2, NeverRefused
        DEF CommandInv, EnvelopeNeverRefused
      <3>4. call'.todo = <<Write("PcsPowerCommand", EncodeSigned(Envelope))>>
        BY <3>1, <3>2, <3>3, <2>1 DEF WritePowerSetpointKw, Begin
      <3>5. ~Settled'
        BY <3>1, <3>4, One DEF Settled, InTick
      <3> QED
        BY <2>1, <3>5, <1>6
    <2>3. CASE ~tick.battery.controlReady
      <3>1. ~drv.controlReady
        BY <2>1, <2>3 DEF CommandInv, TickIsPoll
      <3>2. reg["PcsPowerOn"] = 0
        BY <2>1, <3>1, ValuesFacts
        DEF SoundInv, DriverInv, DriverTypeOK, Registers
      <3>3. reg'["PcsPowerCommand"] = 0
        BY <2>1, <3>2 DEF SoundInv
      <3> QED
        BY <2>1, <3>3, <1>6
    <2> QED
      BY <2>2, <2>3
  <1>9. CASE SetpointDone
    BY <1>6, <1>9
    DEF SetpointDone, Return, Finished, bankVars, Settled, InTick
  <1>10. CASE Poll \/ PollDone \/ Heartbeat \/ HeartbeatDone
    <2>1. /\ UNCHANGED <<emsSilence, loopAge, reg>> /\ ~Settled'
      BY <1>10 DEF Poll, PollBegin, PollDone, PollEnd, Heartbeat,
                   RefreshHeartbeat, Begin, HeartbeatDone, Return, bankVars,
                   driverVars, Settled, InTick
    <2> QED
      BY <2>1, <1>6
  <1>11. CASE TakeOperatorCommand \/ OperatorDone \/ Publish
    BY <1>6, <1>11 DEF TakeOperatorCommand, OperatorDone, Publish, bankVars,
                       driverVars, Settled, InTick
  <1>12. CASE OperatorAction \/ OperatorActionDone
    <2>1. /\ UNCHANGED <<emsSilence, loopAge, reg>> /\ Settled
      BY <1>12 DEF OperatorAction, WritePowerState, WriteSocLimitsPct,
                   WriteReactivePowerSetpointKvar, Begin, OperatorActionDone,
                   Return, bankVars, Settled, InTick
    <2> QED
      BY <2>1, <1>6
  <1>13. CASE UNCHANGED vars \/ WriteOperator \/ Cabinet
    <2>1. /\ UNCHANGED <<emsSilence, loopAge, reg, pc, call>>
      BY <1>2, <1>13 DEF vars, driverVars, serviceVars, WriteOperator,
                         Cabinet, CabinetChanges
    <2> QED
      BY <2>1, <1>6 DEF Settled
  <1>14. ~StartAgain
    BY <1>2 DEF StartAgain
  <1> QED
    BY <1>2, <1>3, <1>4, <1>5, <1>7, <1>8, <1>9, <1>10, <1>11, <1>12, <1>13,
       <1>14
    DEF Next, MainLoop

DependableInv == Dependable => SoundInv /\ PowerAge

(* While the cabinet and the link work, an EMS that has been silent for its
   timeout and three iterations of the main loop has left no power behind. *)
THEOREM SilenceMeansZeroSafe == Spec => [](Dependable => SilenceMeansZero)
  <1>1. Init => DependableInv
    <2> SUFFICES ASSUME Init, Dependable PROVE SoundInv /\ PowerAge
      BY DEF DependableInv
    <2>1. /\ pc = "top" /\ ~scan.active /\ call.todo = <<>>
          /\ reg["PcsPowerCommand"] = 0
      BY DEF Init, DriverInit, ServiceInit, NoScan, Idle, Registers
    <2>2. link /\ LimitsValid(bms) /\ Sound(status)
      BY DEF Init, DriverInit, Dependable, Sound
    <2> QED
      BY <2>1, <2>2 DEF SoundInv, PowerAge
  <1>2. DriverInv /\ ServiceInv /\ ControlInv /\ CommandInv /\ AloneInv
          /\ DependableInv /\ [Next]_vars => DependableInv'
    <2>1. Dependable => ~LocalPanel
      BY DEF Dependable
    <2>2. Dependable' <=> Dependable
      BY DEF Dependable, LimitsValid
    <2> QED
      BY <2>1, <2>2, SoundStep, PowerAgeStep
      DEF DependableInv, AloneInv, ControlInv
  <1>3. ServiceInv /\ DependableInv => (Dependable => SilenceMeansZero)
    <2>1. ASSUME ServiceInv
          PROVE  /\ EmsTimeout \in Int /\ MaxLoop \in Int /\ MaxLoop >= 0
                 /\ loopAge \in Int /\ loopAge <= MaxLoop
                 /\ emsSilence \in Int
      BY <2>1, ServiceAssumption DEF ServiceInv, ServiceTypeOK, SilenceCap
    <2> QED
      BY <2>1 DEF DependableInv, PowerAge, SilenceMeansZero
  <1> QED
    BY <1>1, <1>2, <1>3, CommandInvariant, PTL DEF Spec
=============================================================================
