----------------------- MODULE SunStoragePro261Driver -----------------------
(***************************************************************************)
(* The driver of the battery cabinet (SunStoragePro261Driver) and the      *)
(* cabinet it talks to over Modbus TCP.                                    *)
(*                                                                         *)
(* The driver turns each operation into a short list of register writes    *)
(* ("todo") and performs them one exchange at a time; while an exchange is *)
(* under way the cabinet may change by itself and the OT link may fail.    *)
(* An exchange that fails may or may not have reached the cabinet.         *)
(***************************************************************************)
EXTENDS SafetyEnvelope, Sequences

CONSTANTS
    WritesEnabled,       \* CommissioningApproval::writesEnabled()
    HeartbeatTimeout,    \* the value written to 5301, in clock ticks
    SocFull,             \* 100 %
    Statuses,            \* the PCS conditions that occur
    Reports,             \* the BMS reports that occur
    Links,               \* the OT link states that occur
    LocalPanel,          \* can 5003 be switched at the cabinet itself?
    PowerOnAtStart,      \* contents of 5003 the service may find
    MaxPower,            \* greatest power the driver is asked for
    ReactiveRange,       \* reactive powers the driver is asked for
    SocRange             \* state-of-charge limits the driver is asked for

PcsStatuses ==
    [faulted : BOOLEAN, gridTied : BOOLEAN, currentSource : BOOLEAN]

ASSUME DriverAssumption ==
    /\ WritesEnabled \in BOOLEAN /\ LocalPanel \in BOOLEAN
    /\ HeartbeatTimeout \in Nat \ {0} /\ SocFull \in Nat \ {0}
    /\ Statuses \subseteq PcsStatuses /\ Statuses # {}
    /\ Reports \subseteq BmsReports /\ Reports # {}
    /\ Links \subseteq BOOLEAN /\ TRUE \in Links
    /\ PowerOnAtStart \subseteq {0, 1} /\ PowerOnAtStart # {}
    /\ MaxPower \in Nat
    /\ ReactiveRange \subseteq Int /\ SocRange \subseteq Nat

PowerRange == -MaxPower .. MaxPower

VARIABLES
    reg,        \* the cabinet's holding registers the gateway writes
    status,     \* fault coils and the two mode registers of the PCS
    bms,        \* what the BMS reports
    link,       \* does the OT link carry exchanges?
    scan,       \* what the first half of a poll has read
    drv,        \* the driver's members
    call        \* the write operation in progress

cabinetVars == <<reg, status, bms, link>>
driverVars == <<reg, status, bms, link, scan, drv, call>>

Registers == {"HeartbeatEnable", "HeartbeatSeconds", "PcsPowerOn",
              "PcsPowerCommand", "PcsReactivePowerCommand",
              "PcsSocUpperLimit", "PcsSocLowerLimit"}

(* What each register may hold.                                             *)
Values(register) ==
    CASE register \in {"HeartbeatEnable", "PcsPowerOn"} -> {0, 1}
      [] register = "HeartbeatSeconds" -> 0 .. HeartbeatTimeout
      [] register \in {"PcsSocUpperLimit", "PcsSocLowerLimit"} -> 0 .. SocFull
      [] OTHER -> Int16

Write(register, value) == [register |-> register, value |-> value]
Writes == {w \in [register : Registers, value : Int] :
               w.value \in Values(w.register)}

Ops == {"none", "heartbeat", "setpoint", "start", "stop", "soc", "reactive"}

(* A poll in progress holds the PCS part already read; "ok" is false once   *)
(* an exchange has failed.                                                  *)
NoScan == [active |-> FALSE, ok |-> FALSE, powerOn |-> FALSE,
           status |-> [faulted |-> FALSE, gridTied |-> FALSE,
                       currentSource |-> FALSE]]

(* The members of a driver that has not polled yet.                         *)
FreshDriver ==
    [telemetryValid |-> FALSE, controlReady |-> FALSE, limitsValid |-> FALSE,
     faultsClear |-> FALSE, gridModeReady |-> FALSE, workModeReady |-> FALSE,
     bms |-> [maxCharge |-> 0, maxDischarge |-> 0, socInRange |-> FALSE,
              chargeProhibited |-> FALSE, dischargeProhibited |-> FALSE]]

Idle == [op |-> "none", todo |-> <<>>, ok |-> FALSE]

(* Every variable has its type; in particular every register holds, and     *)
(* every pending write carries, a value its register admits.                *)
DriverTypeOK ==
    /\ reg \in [Registers -> Int]
    /\ \A register \in Registers : reg[register] \in Values(register)
    /\ status \in PcsStatuses /\ bms \in BmsReports /\ link \in BOOLEAN
    /\ scan \in [active : BOOLEAN, ok : BOOLEAN, powerOn : BOOLEAN,
                 status : PcsStatuses]
    /\ drv \in [telemetryValid : BOOLEAN, controlReady : BOOLEAN,
                limitsValid : BOOLEAN, faultsClear : BOOLEAN,
                gridModeReady : BOOLEAN, workModeReady : BOOLEAN,
                bms : BmsReports]
    /\ call \in [op : Ops, todo : Seq(Writes), ok : BOOLEAN]

DriverInit ==
    /\ reg \in {[r \in Registers |-> CASE r = "PcsPowerOn"       -> on
                                       [] r = "PcsSocUpperLimit" -> SocFull
                                       [] OTHER                  -> 0] :
                    on \in PowerOnAtStart}
    /\ status \in Statuses /\ bms \in Reports /\ link \in Links
    /\ scan = NoScan /\ drv = FreshDriver /\ call = Idle

-----------------------------------------------------------------------------
(* The cabinet and the OT network, which act by themselves.                 *)

CabinetChanges ==
    /\ \/ status' \in Statuses /\ UNCHANGED <<reg, bms, link>>
       \/ bms' \in Reports /\ UNCHANGED <<reg, status, link>>
       \/ link' \in Links /\ UNCHANGED <<reg, status, bms>>
       \/ /\ LocalPanel
          /\ \E on \in {0, 1} : reg' = [reg EXCEPT !["PcsPowerOn"] = on]
          /\ UNCHANGED <<status, bms, link>>
    /\ UNCHANGED <<scan, drv, call>>

(* One clock tick of the cabinet's own watchdog: while it is enabled 5301   *)
(* counts down, and when it has run out the power returns to zero.          *)
CountDown ==
    LET left == Larger(0, reg["HeartbeatSeconds"] - 1)
    IN IF reg["HeartbeatEnable"] = 1
       THEN reg' = [reg EXCEPT
                !["HeartbeatSeconds"] = left,
                !["PcsPowerCommand"] = IF left = 0 THEN 0 ELSE @]
       ELSE UNCHANGED reg

CabinetTick == CountDown /\ UNCHANGED <<status, bms, link, scan, drv, call>>

-----------------------------------------------------------------------------
(* poll(): the status coils and mode registers are read first, the BMS      *)
(* registers last, each in an exchange of its own.                          *)

Quiet == call = Idle /\ ~scan.active

PollBegin ==
    /\ Quiet
    /\ scan' = [active |-> TRUE, ok |-> link,
                powerOn |-> reg["PcsPowerOn"] = 1, status |-> status]
    /\ UNCHANGED <<reg, status, bms, link, drv, call>>

(* Faulty variant: 5003 is no condition of controlReady.                    *)
PollResultAnyPower ==
    IF scan.ok /\ link
    THEN [read |-> TRUE, good |-> LimitsValid(bms),
          limitsValid |-> LimitsValid(bms),
          controlReady |-> /\ scan.status.gridTied
                           /\ scan.status.currentSource
                           /\ ~scan.status.faulted,
          faulted |-> scan.status.faulted, bms |-> bms]
    ELSE [read |-> FALSE, good |-> FALSE, limitsValid |-> FALSE,
          controlReady |-> FALSE, faulted |-> FALSE, bms |-> FreshDriver.bms]

(* The BatteryTelemetry poll() returns.  A missing mandatory register makes *)
(* it invalid; otherwise the quality is that of the BMS limits.             *)
PollResult ==
    IF scan.ok /\ link
    THEN [read |-> TRUE, good |-> LimitsValid(bms),
          limitsValid |-> LimitsValid(bms),
          controlReady |-> /\ scan.powerOn /\ scan.status.gridTied
                           /\ scan.status.currentSource
                           /\ ~scan.status.faulted,
          faulted |-> scan.status.faulted, bms |-> bms]
    ELSE [read |-> FALSE, good |-> FALSE, limitsValid |-> FALSE,
          controlReady |-> FALSE, faulted |-> FALSE, bms |-> FreshDriver.bms]

(* The early return of a failed poll leaves the cached limits and flags.    *)
PollEnd ==
    /\ scan.active
    /\ drv' = [telemetryValid |-> PollResult.read,
               controlReady |-> PollResult.controlReady,
               limitsValid |-> PollResult.limitsValid,
               faultsClear |-> PollResult.read /\ ~scan.status.faulted,
               gridModeReady |-> PollResult.read /\ scan.status.gridTied,
               workModeReady |-> PollResult.read /\ scan.status.currentSource,
               bms |-> IF PollResult.read THEN bms ELSE drv.bms]
    /\ scan' = NoScan
    /\ UNCHANGED <<reg, status, bms, link, call>>

-----------------------------------------------------------------------------
(* The write operations.  One that its own guard refuses returns false      *)
(* without an exchange.                                                     *)

Begin(op, accepted, todo) ==
    /\ Quiet
    /\ call' = [op |-> op, ok |-> accepted,
                todo |-> IF accepted THEN todo ELSE <<>>]
    /\ UNCHANGED <<reg, status, bms, link, scan, drv>>

(* Faulty variant: 5302 is never set.                                       *)
RefreshHeartbeatUnarmed ==
    Begin("heartbeat", WritesEnabled,
          <<Write("HeartbeatSeconds", HeartbeatTimeout)>>)

RefreshHeartbeat ==
    Begin("heartbeat", WritesEnabled,
          <<Write("HeartbeatEnable", 1),
            Write("HeartbeatSeconds", HeartbeatTimeout)>>)

WritePowerSetpointKw(power) ==
    Begin("setpoint",
          /\ WritesEnabled /\ drv.controlReady /\ drv.limitsValid
          /\ DriverAccepts(power, drv.bms),
          <<Write("PcsPowerCommand", EncodeSigned(power))>>)

WriteReactivePowerSetpointKvar(power) ==
    Begin("reactive", WritesEnabled /\ drv.controlReady,
          <<Write("PcsReactivePowerCommand", EncodeSigned(power))>>)

WritePowerState(on) ==
    IF on
    THEN Begin("start",
               /\ WritesEnabled /\ drv.telemetryValid
               /\ drv.faultsClear /\ drv.gridModeReady /\ drv.workModeReady,
               <<Write("PcsPowerOn", 1)>>)
    ELSE Begin("stop", WritesEnabled /\ drv.telemetryValid,
               <<Write("PcsPowerCommand", 0), Write("PcsPowerOn", 0)>>)

(* Faulty variant: the upper bound is always written first.                 *)
SocTodoFixedOrder(lower, upper) ==
    <<Write("PcsSocUpperLimit", upper), Write("PcsSocLowerLimit", lower)>>

(* writeSocLimitsPct reads the present window, then writes the bound that   *)
(* widens it before the one that tightens it; the upper bound goes first    *)
(* unless only the lower one widens.  Percentages are whole numbers, which  *)
(* encodeSigned(., 1.0) keeps.                                              *)
SocTodo(lower, upper) ==
    LET writeUpper == Write("PcsSocUpperLimit", upper)
        writeLower == Write("PcsSocLowerLimit", lower)
    IN IF upper <= reg["PcsSocUpperLimit"] /\ lower < reg["PcsSocLowerLimit"]
       THEN <<writeLower, writeUpper>>
       ELSE <<writeUpper, writeLower>>

(* Faulty variant: the range check is missing.                              *)
WriteSocLimitsPctUnchecked(lower, upper) ==
    Begin("soc", WritesEnabled /\ drv.telemetryValid /\ lower < upper /\ link,
          SocTodo(lower, upper))

WriteSocLimitsPct(lower, upper) ==
    Begin("soc",
          /\ WritesEnabled /\ drv.telemetryValid
          /\ lower >= 0 /\ upper <= SocFull /\ lower < upper
          /\ link,
          SocTodo(lower, upper))

-----------------------------------------------------------------------------
(* One exchange of the operation in progress.                               *)

(* Only the two writes of a stop are both attempted whatever the first      *)
(* returned; the others are joined by && or an early return.                *)
AfterFailure == IF call.op = "stop" THEN Tail(call.todo) ELSE <<>>

Perform(w) == reg' = [reg EXCEPT ![w.register] = w.value]

(* The cabinet executed the request and its echo arrived.  A stop that is   *)
(* confirmed clears controlReady_.                                          *)
WriteAcknowledged ==
    /\ call.todo # <<>> /\ link
    /\ Perform(Head(call.todo))
    /\ call' = [call EXCEPT !.todo = Tail(@)]
    /\ drv' = [drv EXCEPT !.controlReady =
                  @ /\ Head(call.todo) # Write("PcsPowerOn", 0)]
    /\ UNCHANGED <<status, bms, link, scan>>

(* Faulty variant: of two writes only the second one is reported.           *)
WriteFailedForgotten ==
    /\ call.todo # <<>> /\ ~link
    /\ Perform(Head(call.todo)) \/ UNCHANGED reg
    /\ call' = [call EXCEPT !.todo = AfterFailure,
                            !.ok = Len(call.todo) > 1]
    /\ UNCHANGED <<status, bms, link, scan, drv>>

(* The request or its echo was lost: the cabinet may have executed it.      *)
WriteFailed ==
    /\ call.todo # <<>> /\ ~link
    /\ Perform(Head(call.todo)) \/ UNCHANGED reg
    /\ call' = [call EXCEPT !.todo = AfterFailure, !.ok = FALSE]
    /\ UNCHANGED <<status, bms, link, scan, drv>>

(* The operation returns call.ok to its caller.                             *)
Finished == call.op # "none" /\ call.todo = <<>>

Return ==
    /\ Finished
    /\ call' = Idle
    /\ UNCHANGED <<reg, status, bms, link, scan, drv>>

(* The process ends and starts again with a new driver object.              *)
Restart ==
    /\ scan' = NoScan /\ drv' = FreshDriver /\ call' = Idle
    /\ UNCHANGED cabinetVars

-----------------------------------------------------------------------------
(* A client that calls the driver in any order, with any arguments.         *)
DriverNext ==
    \/ CabinetChanges
    \/ CabinetTick
    \/ PollBegin
    \/ PollEnd
    \/ RefreshHeartbeat
    \/ \E power \in PowerRange : WritePowerSetpointKw(power)
    \/ \E power \in ReactiveRange : WriteReactivePowerSetpointKvar(power)
    \/ \E on \in BOOLEAN : WritePowerState(on)
    \/ \E lower, upper \in SocRange : WriteSocLimitsPct(lower, upper)
    \/ WriteAcknowledged
    \/ WriteFailed
    \/ Return
    \/ Restart

DriverSpec == DriverInit /\ [][DriverNext]_driverVars

-----------------------------------------------------------------------------
(* Whatever exchange is lost, at every instant the cabinet's window of      *)
(* permitted state of charge is a proper one: writeSocLimitsPct never       *)
(* leaves the lower limit at or above the upper one, not even between its   *)
(* two writes or after the first one alone.                                 *)
SocWindowOrdered ==
    reg["PcsSocLowerLimit"] < reg["PcsSocUpperLimit"]

PowerWritten ==
    LET p == reg'["PcsPowerCommand"]
    IN p # reg["PcsPowerCommand"] /\ p # 0 =>
         /\ drv.controlReady /\ drv.limitsValid
         /\ p < 0 => ~drv.bms.chargeProhibited /\ -p <= drv.bms.maxCharge
         /\ p > 0 => ~drv.bms.dischargeProhibited /\ p <= drv.bms.maxDischarge

(* A setpoint other than zero reaches register 5005 only while the poll     *)
(* before it found the PCS ready and the limits valid, and only within the  *)
(* limits and prohibitions the BMS reported in that poll, also after        *)
(* rounding to a register value and whatever the BMS reports meanwhile.     *)
SetpointWithinPolledLimits == [][PowerWritten]_driverVars

(* A stop that writePowerState reports as done has left no power command    *)
(* behind in the cabinet: 5005 is zero when the call returns true, so that  *)
(* a later start, at the panel or by the gateway, begins at 0 kW.           *)
StopLeavesZero ==
    call.op = "stop" /\ Finished /\ call.ok => reg["PcsPowerCommand"] = 0

(* Without all three commissioning approvals the gateway never changes a    *)
(* register of the cabinet, whatever is called: only the panel may still    *)
(* switch it on and off.                                                    *)
LockedMeansUntouched ==
    [][~WritesEnabled =>
           \/ UNCHANGED reg
           \/ LocalPanel /\ \E on \in {0, 1} :
                  reg' = [reg EXCEPT !["PcsPowerOn"] = on]]_driverVars
=============================================================================
