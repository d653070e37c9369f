----------------------------- MODULE EdgeService -----------------------------
(***************************************************************************)
(* The control path of the ROCK Pi service: the northbound register bank   *)
(* that the EMS writes from the server thread, the main loop, the          *)
(* EdgeController it ticks, and the cabinet driver below it.               *)
(*                                                                         *)
(* Time is counted in ticks.  A timer is the age of the event it measures  *)
(* from, saturated where the code stops telling ages apart; an age that is *)
(* saturated from the start stands for an event that never happened.  One  *)
(* iteration of the main loop, its Modbus timeouts and its sleep included, *)
(* takes at most MaxLoop ticks.                                            *)
(***************************************************************************)
EXTENDS SunStoragePro261Driver

CONSTANTS
    EmsTimeout,          \* ControllerConfig::emsTimeout
    HeartbeatRefresh,    \* ControllerConfig::heartbeatRefresh
    MaxLoop,             \* longest iteration of the main loop
    ChargeCap,           \* configuredLimit.maxChargeKw, {} when absent
    DischargeCap,        \* configuredLimit.maxDischargeKw, {} when absent
    EmsWrites,           \* EMS register contents that clients write
    OperatorWrites,      \* operator register contents that clients write
    MayCrash             \* can the process end?

Actions == {"RunState", "SocLimits", "ReactivePower"}
EmsRegisters == [sequence : Nat, heartbeat : Nat, power : Int16,
                 enable : Nat]
OperatorRegisters == [sequence : Nat, mask : SUBSET (Actions \cup {"Other"}),
                      run : Nat, reactive : Int16, upper : Nat, lower : Nat,
                      key : BOOLEAN]

ASSUME ServiceAssumption ==
    /\ EmsTimeout \in Nat /\ HeartbeatRefresh \in Nat \ {0}
    /\ MaxLoop \in Nat /\ HeartbeatRefresh + MaxLoop <= HeartbeatTimeout
    /\ ChargeCap \subseteq Int /\ \A a, b \in ChargeCap : a = b
    /\ DischargeCap \subseteq Int /\ \A a, b \in DischargeCap : a = b
    /\ EmsWrites \subseteq EmsRegisters
    /\ \A w \in EmsWrites : DecodeSigned(w.power) \in PowerRange
    /\ OperatorWrites \subseteq OperatorRegisters
    /\ \A w \in OperatorWrites : /\ DecodeSigned(w.reactive) \in ReactiveRange
                                /\ w.lower \in SocRange /\ w.upper \in SocRange
    /\ MayCrash \in BOOLEAN

VARIABLES
    pc,                \* where the main loop is
    ems,               \* holding registers 0..3
    operator,          \* holding registers 4..10
    last,              \* last sequence numbers the bank has handed out
    requested,         \* EdgeController::requestedPowerKw_
    commandAge,        \* since lastCommandAt_, up to EmsTimeout + 1
    heartbeatAge,      \* since lastHeartbeatAt_, up to HeartbeatRefresh
    loopAge,           \* since "now" of this iteration
    tick,              \* the ControllerSnapshot being filled
    operation,         \* the operator command in hand, its actions to do
    published,         \* the northbound input registers
    emsSilence         \* history: since the EMS last changed registers 0, 3

bankVars == <<ems, operator, emsSilence>>
serviceVars == <<pc, ems, operator, last, requested, commandAge,
                 heartbeatAge, loopAge, tick, operation, published,
                 emsSilence>>
vars == <<driverVars, serviceVars>>

PcValues == {"top", "poll", "polling", "heartbeat", "heartbeatReply",
             "setpoint", "setpointReply", "operator", "actions",
             "actionReply", "publish", "down"}

EdgeStates == {"Boot", "WaitingForComms", "WaitingForBmsLimits", "Ready",
               "SafeMode", "Fault", "CommissioningLocked",
               "WaitingForPcsReady"}

NoBattery == [read |-> FALSE, good |-> FALSE, limitsValid |-> FALSE,
              controlReady |-> FALSE, faulted |-> FALSE,
              bms |-> FreshDriver.bms]
NoTick == [emsConnected |-> FALSE, heartbeatOk |-> FALSE,
           battery |-> NoBattery, applied |-> 0, state |-> "Boot"]
ZeroEms == [sequence |-> 0, heartbeat |-> 0, power |-> 0, enable |-> 0]
ZeroOperator == [sequence |-> 0, mask |-> {}, run |-> 0, reactive |-> 0,
                 upper |-> 0, lower |-> 0, key |-> FALSE]

NoOperation == [request |-> ZeroOperator, todo |-> <<>>, accepted |-> FALSE]
NothingTaken == [sequence |-> 0, heartbeat |-> 0, operator |-> 0]

(* The history counter stops one past the last age a property speaks of.    *)
SilenceCap == EmsTimeout + 3 * MaxLoop + 1

Batteries == [read : BOOLEAN, good : BOOLEAN, limitsValid : BOOLEAN,
              controlReady : BOOLEAN, faulted : BOOLEAN, bms : BmsReports]
Ticks == [emsConnected : BOOLEAN, heartbeatOk : BOOLEAN, battery : Batteries,
          applied : PowerRange, state : EdgeStates]
Operations == [request : OperatorRegisters, todo : Seq(Actions),
               accepted : BOOLEAN]
InputRegisters == [applied : Int16, state : EdgeStates,
                   operatorSequence : Nat, operatorResult : 0 .. 4]

ServiceTypeOK ==
    /\ pc \in PcValues
    /\ ems \in EmsRegisters /\ operator \in OperatorRegisters
    /\ last \in [sequence : Nat, heartbeat : Nat, operator : Nat]
    /\ requested \in PowerRange
    /\ commandAge \in 0 .. EmsTimeout + 1
    /\ heartbeatAge \in 0 .. HeartbeatRefresh
    /\ loopAge \in 0 .. MaxLoop
    /\ tick \in Ticks /\ operation \in Operations
    /\ published \in InputRegisters
    /\ emsSilence \in 0 .. SilenceCap

(* Every variable has its type: a timer never leaves its range, and the     *)
(* applied power never leaves the range of the requests.                    *)
TypeOK == DriverTypeOK /\ ServiceTypeOK

ServiceInit ==
    /\ pc = "top" /\ ems = ZeroEms /\ operator = ZeroOperator
    /\ last = NothingTaken /\ requested = 0
    /\ commandAge = EmsTimeout + 1 /\ heartbeatAge = HeartbeatRefresh
    /\ loopAge = 0 /\ tick = NoTick /\ operation = NoOperation
    /\ published = [applied |-> 0, state |-> "Boot", operatorSequence |-> 0,
                    operatorResult |-> 0]
    /\ emsSilence = SilenceCap

Init == DriverInit /\ ServiceInit

-----------------------------------------------------------------------------
(* The server thread: one Modbus request writes registers under the bank's  *)
(* lock, whatever the main loop is doing.                                   *)

WriteEms ==
    /\ pc # "down"
    /\ ems' \in EmsWrites
    /\ emsSilence' = IF /\ ems'.sequence = ems.sequence
                        /\ ems'.heartbeat = ems.heartbeat
                     THEN emsSilence ELSE 0
    /\ UNCHANGED <<driverVars, pc, operator, last, requested, commandAge,
                   heartbeatAge, loopAge, tick, operation, published>>

WriteOperator ==
    /\ pc # "down"
    /\ operator' \in OperatorWrites
    /\ UNCHANGED <<driverVars, pc, ems, last, requested, commandAge,
                   heartbeatAge, loopAge, tick, operation, published,
                   emsSilence>>

-----------------------------------------------------------------------------
(* The main loop: takeCommand and receiveCommand, then the first lines of   *)
(* tick.  "heartbeatOk" starts as "no refresh is due".                      *)

CommandPending ==
    ems.sequence # last.sequence \/ ems.heartbeat # last.heartbeat

(* Faulty variant: the age of an unchanged command is renewed.              *)
TakeCommandAlways ==
    /\ pc = "top"
    /\ last' = [last EXCEPT !.sequence = ems.sequence,
                            !.heartbeat = ems.heartbeat]
    /\ requested' = IF ems.enable = 1 THEN DecodeSigned(ems.power) ELSE 0
    /\ commandAge' = 0
    /\ loopAge' = 0
    /\ tick' = [NoTick EXCEPT !.emsConnected = commandAge' <= EmsTimeout,
                              !.heartbeatOk = heartbeatAge < HeartbeatRefresh]
    /\ pc' = "poll"
    /\ UNCHANGED <<driverVars, ems, operator, heartbeatAge, operation,
                   published, emsSilence>>

TakeCommand ==
    /\ pc = "top"
    /\ last' = [last EXCEPT !.sequence = ems.sequence,
                            !.heartbeat = ems.heartbeat]
    /\ requested' = IF ~CommandPending THEN requested
                    ELSE IF ems.enable = 1 THEN DecodeSigned(ems.power) ELSE 0
    /\ commandAge' = IF CommandPending THEN 0 ELSE commandAge
    /\ loopAge' = 0
    /\ tick' = [NoTick EXCEPT !.emsConnected = commandAge' <= EmsTimeout,
                              !.heartbeatOk = heartbeatAge < HeartbeatRefresh]
    /\ pc' = "poll"
    /\ UNCHANGED <<driverVars, ems, operator, heartbeatAge, operation,
                   published, emsSilence>>

Poll ==
    /\ pc = "poll" /\ PollBegin
    /\ pc' = "polling"
    /\ UNCHANGED <<bankVars, last, requested, commandAge, heartbeatAge,
                   loopAge, tick, operation, published>>

PollDone ==
    /\ pc = "polling" /\ PollEnd
    /\ tick' = [tick EXCEPT !.battery = PollResult]
    /\ pc' = "heartbeat"
    /\ UNCHANGED <<bankVars, last, requested, commandAge, heartbeatAge,
                   loopAge, operation, published>>

Heartbeat ==
    /\ pc = "heartbeat"
    /\ IF tick.heartbeatOk
       THEN pc' = "setpoint" /\ UNCHANGED driverVars
       ELSE pc' = "heartbeatReply" /\ RefreshHeartbeat
    /\ UNCHANGED <<bankVars, last, requested, commandAge, heartbeatAge,
                   loopAge, tick, operation, published>>

(* Faulty variant: a refresh that failed counts.                            *)
HeartbeatDoneUnchecked ==
    /\ pc = "heartbeatReply" /\ Return
    /\ tick' = [tick EXCEPT !.heartbeatOk = TRUE]
    /\ heartbeatAge' = Smaller(loopAge, HeartbeatRefresh)
    /\ pc' = "setpoint"
    /\ UNCHANGED <<bankVars, last, requested, commandAge,
                   loopAge, operation, published>>

(* lastHeartbeatAt_ becomes the start of this iteration, not the present.   *)
HeartbeatDone ==
    /\ pc = "heartbeatReply" /\ Return
    /\ tick' = [tick EXCEPT !.heartbeatOk = call.ok]
    /\ heartbeatAge' = IF call.ok THEN Smaller(loopAge, HeartbeatRefresh)
                       ELSE heartbeatAge
    /\ pc' = "setpoint"
    /\ UNCHANGED <<bankVars, last, requested, commandAge,
                   loopAge, operation, published>>

(* The rest of tick: the envelope, the state and the setpoint write.  The   *)
(* service passes an empty SiteLimit, so there is never a headroom.         *)

(* Faulty variant: the power is scaled twice.                               *)
EnvelopeMisscaled ==
    10 * Apply(requested, tick.battery, ChargeCap, DischargeCap, {},
               tick.emsConnected /\ tick.heartbeatOk)

Envelope ==
    Apply(requested, tick.battery, ChargeCap, DischargeCap, {},
          tick.emsConnected /\ tick.heartbeatOk)

StateOf(t) ==
    IF ~t.heartbeatOk THEN "Fault"
    ELSE IF ~t.battery.good THEN "WaitingForComms"
    ELSE IF ~t.battery.limitsValid THEN "WaitingForBmsLimits"
    ELSE IF t.battery.controlReady
         THEN IF t.emsConnected THEN "Ready" ELSE "SafeMode"
    ELSE IF t.battery.faulted THEN "Fault" ELSE "WaitingForPcsReady"

(* Faulty variant: a setpoint is written only in state Ready.               *)
ApplySetpointWhenReady ==
    /\ pc = "setpoint"
    /\ tick' = [tick EXCEPT !.applied = Envelope, !.state = StateOf(tick)]
    /\ IF WritesEnabled /\ StateOf(tick) = "Ready"
       THEN pc' = "setpointReply" /\ WritePowerSetpointKw(Envelope)
       ELSE pc' = "operator" /\ UNCHANGED driverVars
    /\ UNCHANGED <<bankVars, last, requested, commandAge, heartbeatAge,
                   loopAge, operation, published>>

ApplySetpoint ==
    /\ pc = "setpoint"
    /\ IF WritesEnabled
       THEN tick' = [tick EXCEPT !.applied = Envelope, !.state = StateOf(tick)]
       ELSE tick' = [tick EXCEPT !.applied = 0, !.state = "CommissioningLocked"]
    /\ IF WritesEnabled /\ tick.battery.controlReady
       THEN pc' = "setpointReply" /\ WritePowerSetpointKw(Envelope)
       ELSE pc' = "operator" /\ UNCHANGED driverVars
    /\ UNCHANGED <<bankVars, last, requested, commandAge, heartbeatAge,
                   loopAge, operation, published>>

(* Faulty variant: a write that failed is reported as applied.              *)
SetpointDoneUnchecked ==
    /\ pc = "setpointReply" /\ Return
    /\ pc' = "operator"
    /\ UNCHANGED <<bankVars, last, requested, commandAge, heartbeatAge,
                   loopAge, tick, operation, published>>

SetpointDone ==
    /\ pc = "setpointReply" /\ Return
    /\ tick' = IF call.ok THEN tick
               ELSE [tick EXCEPT !.applied = 0, !.state = "Fault"]
    /\ pc' = "operator"
    /\ UNCHANGED <<bankVars, last, requested, commandAge,
                   heartbeatAge, loopAge, operation, published>>

-----------------------------------------------------------------------------
(* The operator command: taken once per change of its sequence number, its  *)
(* actions tried in a fixed order, all of them whatever the first returned. *)

InvalidRequest(request) ==
    \/ request.mask = {} \/ ~(request.mask \subseteq Actions)
    \/ "RunState" \in request.mask /\ request.run > 1

ActionOrder(mask) ==
    LET Only(action) == IF action \in mask THEN <<action>> ELSE <<>>
    IN Only("RunState") \o Only("SocLimits") \o Only("ReactivePower")

PublishOperatorResult(sequence, result) ==
    published' = [published EXCEPT !.operatorSequence = sequence,
                                   !.operatorResult = result]

TakeOperatorCommand ==
    /\ pc = "operator"
    /\ last' = [last EXCEPT !.operator = operator.sequence]
    /\ \/ /\ operator.sequence = last.operator
          /\ pc' = "publish"
          /\ UNCHANGED <<operation, published>>
       \/ /\ operator.sequence # last.operator
          /\ ~operator.key \/ InvalidRequest(operator)
          /\ PublishOperatorResult(operator.sequence,
                                   IF operator.key THEN 3 ELSE 2)
          /\ pc' = "publish"
          /\ UNCHANGED operation
       \/ /\ operator.sequence # last.operator
          /\ operator.key /\ ~InvalidRequest(operator)
          /\ operation' = [request |-> operator,
                           todo |-> ActionOrder(operator.mask),
                           accepted |-> TRUE]
          /\ pc' = "actions"
          /\ UNCHANGED published
    /\ UNCHANGED <<driverVars, bankVars, requested, commandAge, heartbeatAge,
                   loopAge, tick>>

(* Faulty variant: the limits are written past the driver.                  *)
OperatorActionDirect ==
    /\ pc = "actions" /\ operation.todo # <<>>
    /\ LET request == operation.request
       IN Begin("soc", TRUE, <<Write("PcsSocLowerLimit", request.lower),
                               Write("PcsSocUpperLimit", request.upper)>>)
    /\ pc' = "actionReply"
    /\ UNCHANGED <<bankVars, last, requested, commandAge, heartbeatAge,
                   loopAge, tick, operation, published>>

OperatorAction ==
    /\ pc = "actions" /\ operation.todo # <<>>
    /\ LET request == operation.request
           action == Head(operation.todo)
       IN \/ action = "RunState" /\ WritePowerState(request.run = 1)
          \/ action = "SocLimits"
               /\ WriteSocLimitsPct(request.lower, request.upper)
          \/ action = "ReactivePower"
               /\ WriteReactivePowerSetpointKvar(DecodeSigned(request.reactive))
    /\ pc' = "actionReply"
    /\ UNCHANGED <<bankVars, last, requested, commandAge, heartbeatAge,
                   loopAge, tick, operation, published>>

(* Faulty variant: only the last action decides.                            *)
OperatorActionDoneLastOnly ==
    /\ pc = "actionReply" /\ Return
    /\ operation' = [operation EXCEPT !.todo = Tail(@), !.accepted = call.ok]
    /\ pc' = "actions"
    /\ UNCHANGED <<bankVars, last, requested, commandAge,
                   heartbeatAge, loopAge, tick, published>>

OperatorActionDone ==
    /\ pc = "actionReply" /\ Return
    /\ operation' = [operation EXCEPT !.todo = Tail(@),
                                      !.accepted = @ /\ call.ok]
    /\ pc' = "actions"
    /\ UNCHANGED <<bankVars, last, requested, commandAge,
                   heartbeatAge, loopAge, tick, published>>

(* Faulty variant: the answer keeps the old sequence number.                *)
OperatorDoneUnnumbered ==
    /\ pc = "actions" /\ operation.todo = <<>>
    /\ PublishOperatorResult(published.operatorSequence,
                             IF operation.accepted THEN 1 ELSE 4)
    /\ pc' = "publish"
    /\ UNCHANGED <<driverVars, bankVars, last, requested, commandAge,
                   heartbeatAge, loopAge, tick, operation>>

OperatorDone ==
    /\ pc = "actions" /\ operation.todo = <<>>
    /\ PublishOperatorResult(operation.request.sequence,
                             IF operation.accepted THEN 1 ELSE 4)
    /\ pc' = "publish"
    /\ UNCHANGED <<driverVars, bankVars, last, requested, commandAge,
                   heartbeatAge, loopAge, tick, operation>>

(* publish: the snapshot of the tick, then the next iteration.  The         *)
(* operator command in hand is kept up to here.                             *)
Publish ==
    /\ pc = "publish"
    /\ published' = [published EXCEPT !.applied = EncodeSigned(tick.applied),
                                      !.state = tick.state]
    /\ tick' = NoTick /\ operation' = NoOperation
    /\ pc' = "top"
    /\ UNCHANGED <<driverVars, bankVars, last, requested, commandAge,
                   heartbeatAge, loopAge>>

-----------------------------------------------------------------------------
(* An exchange of the driver operation the main loop waits for.             *)
Exchange ==
    /\ pc \in {"heartbeatReply", "setpointReply", "actionReply"}
    /\ WriteAcknowledged \/ WriteFailed
    /\ UNCHANGED serviceVars

(* The process ends, by SIGTERM (no register is written on the way out) or  *)
(* otherwise; systemd starts it again with nothing remembered.              *)
Crash ==
    /\ MayCrash /\ pc # "down"
    /\ Restart
    /\ pc' = "down" /\ ems' = ZeroEms /\ operator' = ZeroOperator
    /\ last' = NothingTaken /\ requested' = 0
    /\ commandAge' = EmsTimeout + 1 /\ heartbeatAge' = HeartbeatRefresh
    /\ loopAge' = 0 /\ tick' = NoTick /\ operation' = NoOperation
    /\ published' = [applied |-> 0, state |-> "Boot", operatorSequence |-> 0,
                     operatorResult |-> 0]
    /\ UNCHANGED emsSilence

StartAgain ==
    /\ pc = "down"
    /\ pc' = "top"
    /\ UNCHANGED <<driverVars, bankVars, last, requested, commandAge,
                   heartbeatAge, loopAge, tick, operation, published>>

(* A tick of time.  The main loop never overstays MaxLoop.                  *)
Elapse ==
    /\ pc = "down" \/ loopAge < MaxLoop
    /\ CabinetTick
    /\ loopAge' = IF pc = "down" THEN loopAge ELSE loopAge + 1
    /\ commandAge' = Smaller(commandAge + 1, EmsTimeout + 1)
    /\ heartbeatAge' = Smaller(heartbeatAge + 1, HeartbeatRefresh)
    /\ emsSilence' = Smaller(emsSilence + 1, SilenceCap)
    /\ UNCHANGED <<pc, ems, operator, last, requested, tick, operation,
                   published>>

Cabinet == CabinetChanges /\ UNCHANGED serviceVars

MainLoop ==
    \/ TakeCommand \/ Poll \/ PollDone \/ Heartbeat \/ HeartbeatDone
    \/ ApplySetpoint \/ SetpointDone \/ TakeOperatorCommand
    \/ OperatorAction \/ OperatorActionDone \/ OperatorDone \/ Publish
    \/ Exchange

Next == MainLoop \/ WriteEms \/ WriteOperator \/ Crash \/ StartAgain
        \/ Elapse \/ Cabinet

Spec == Init /\ [][Next]_vars

(* The scheduler runs the main loop, and time passes.  Nothing is assumed   *)
(* of the EMS, the operator, the cabinet or the link.                       *)
FairSpec == Spec /\ WF_vars(MainLoop) /\ WF_vars(Elapse)

-----------------------------------------------------------------------------
(* Properties.                                                              *)

(* A power other than zero stands in the cabinet only under a running       *)
(* watchdog: whenever 5005 is not zero, 5302 is set and 5301 has time left, *)
(* so that the loss of the service or of the link always ends in zero.      *)
WatchdogArmed ==
    reg["PcsPowerCommand"] # 0 =>
        reg["HeartbeatEnable"] = 1 /\ reg["HeartbeatSeconds"] > 0

(* From the EMS to the cabinet: no iteration writes a power other than zero *)
(* once the EMS has changed neither its sequence nor its heartbeat for the  *)
(* timeout and two iterations, one to notice the last change and one to act *)
(* on it.                                                                   *)
NoStaleCommand ==
    [][reg'["PcsPowerCommand"] \notin {0, reg["PcsPowerCommand"]} =>
           emsSilence <= EmsTimeout + 2 * MaxLoop]_vars

(* The power command also stays within the limits the operator configured,  *)
(* to the rounding of the register.                                         *)
WithinConfiguredLimits ==
    /\ \A cap \in ChargeCap :
           reg["PcsPowerCommand"] >= EncodeSigned(-Larger(0, cap))
    /\ \A cap \in DischargeCap :
           reg["PcsPowerCommand"] <= EncodeSigned(Larger(0, cap))

(* Once the EMS is silent a cabinet that can be commanded is at zero within *)
(* one more iteration.                                                      *)
SilenceMeansZero ==
    emsSilence > EmsTimeout + 3 * MaxLoop => reg["PcsPowerCommand"] = 0

(* The two independent checks agree: what the envelope lets through the     *)
(* driver never refuses, so a setpoint write fails only on the link.        *)
EnvelopeNeverRefused ==
    pc = "setpoint" /\ tick.battery.controlReady /\ tick.battery.limitsValid
        => DriverAccepts(Envelope, drv.bms) /\ drv.controlReady

Stops(request) == "RunState" \in request.mask /\ request.run = 0

(* What is published in Ready or SafeMode is true of the cabinet: register  *)
(* 5005 holds the applied power, at the end of the iteration and not only   *)
(* of its tick, unless the operator's stop of the same iteration, which     *)
(* runs between the two, has put it to zero.                                *)
ReportedMeansCommanded ==
    pc = "publish" /\ tick.state \in {"Ready", "SafeMode"} =>
        \/ reg["PcsPowerCommand"] = EncodeSigned(tick.applied)
        \/ Stops(operation.request) /\ reg["PcsPowerCommand"] = 0

(* An operator command answered with 1 has taken effect: every register its *)
(* mask names holds what was asked for, and after a stop so does 5005.      *)
SuccessMeansDone ==
    pc = "actions" /\ operation.todo = <<>> /\ operation.accepted =>
        LET request == operation.request
        IN /\ "RunState" \in request.mask =>
                /\ reg["PcsPowerOn"] = request.run
                /\ request.run = 0 => reg["PcsPowerCommand"] = 0
           /\ "SocLimits" \in request.mask =>
                /\ reg["PcsSocLowerLimit"] = request.lower
                /\ reg["PcsSocUpperLimit"] = request.upper
           /\ "ReactivePower" \in request.mask =>
                reg["PcsReactivePowerCommand"] = request.reactive

(* After a stop of the gateway, also one whose confirmation was lost, no    *)
(* power is commanded before the cabinet is switched on again.              *)
NoPowerWhileStopped ==
    [][reg'["PcsPowerCommand"] \notin {0, reg["PcsPowerCommand"]} =>
           reg["PcsPowerOn"] = 1]_vars

(* The conditions under which the controller can move register 5005.        *)
Commandable ==
    /\ link /\ reg["PcsPowerOn"] = 1 /\ LimitsValid(bms)
    /\ status.gridTied /\ status.currentSource /\ ~status.faulted

(* Whatever happened before, once the cabinet can be commanded for good and *)
(* the EMS stays silent, the power command ends at zero and stays there.    *)
SilenceEndsAtZero ==
    <>[](Commandable /\ pc # "down" /\ emsSilence = SilenceCap)
        => <>[](reg["PcsPowerCommand"] = 0)

(* If the service stays down the power command ends at zero, by the         *)
(* cabinet's own watchdog.                                                  *)
DownEndsAtZero ==
    <>[](pc = "down") => <>[](reg["PcsPowerCommand"] = 0)

(* A command that waits or is in hand leads to an answer: the one in hand    *)
(* gets its own sequence number, whatever is written behind it, and a        *)
(* waiting one is taken, unless the registers go back to an answered one or  *)
(* the service goes down.                                                    *)
OperatorAnswered ==
    pc = "actions" \/ (pc # "down" /\ operator.sequence # last.operator) ~>
        \/ /\ pc = "publish" /\ operation # NoOperation
           /\ published.operatorSequence = operation.request.sequence
        \/ /\ pc \notin {"actions", "actionReply"}
           /\ published.operatorSequence = operator.sequence
        \/ pc = "down"
=============================================================================
