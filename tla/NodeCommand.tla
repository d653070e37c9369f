---------------------------- MODULE NodeCommand ----------------------------
(***************************************************************************)
(* The command path to a device behind an ESP32 node: registers 11-16 of   *)
(* the northbound bank, the gateway that forwards them to the node over    *)
(* Modbus TCP, the node's command registers, and applyCommand, which gives *)
(* each command a time to live.                                            *)
(*                                                                         *)
(* One unit of time is a second, the unit of the time to live.  millis()   *)
(* is a clock that wraps around.  A frame whose exchange the gateway has   *)
(* given up can still reach the node, since closing a socket does not      *)
(* recall what was sent.                                                   *)
(*                                                                         *)
(* The device drivers are not part of the repository, whose firmware has   *)
(* only UnconfiguredDriver, which refuses every power.  A build with a     *)
(* driver is modelled from the interface IDeviceDriver.                    *)
(***************************************************************************)
EXTENDS SafetyEnvelope, Sequences

CONSTANTS
    NodeWrites,      \* contents of registers 11-16 that clients write
    MaxTtl,          \* 30 s
    MaxNodeLoop,     \* longest iteration of the node's loop
    ClockSize,       \* values of millis() before it wraps around
    LineBound,       \* frames under way at most
    Builds,          \* firmware builds: does it have a device driver?
    NodeEvents       \* which of the events below occur

Events == {"refuse", "restart", "provision", "gateway"}

Requests == [sequence : Nat, power : Int16, enable : Nat, ttl : Nat,
             target : BOOLEAN, key : BOOLEAN]

ASSUME NodeAssumption ==
    /\ NodeWrites \subseteq Requests
    /\ MaxTtl \in Nat \ {0} /\ MaxNodeLoop \in Nat \ {0} /\ LineBound \in Nat
    /\ ClockSize \in Nat /\ ClockSize > MaxTtl + MaxNodeLoop
    /\ Builds \subseteq BOOLEAN /\ NodeEvents \subseteq Events

VARIABLES
    request,               \* holding registers 11-16 of the bank
    lastNodeSequence,      \* lastNodeCommandSequence_ of the bank
    line,                  \* frames sent to the node and not yet handled
    command,               \* registers 0x14-0x17 of the node
    applied,               \* AppliedPowerKwX10
    result,                \* LastCommandResult
    lastCommandSequence,   \* globals of the node
    lastCommandMs,
    commandArmed,
    driverCompiled,        \* is "driver" a device driver or Unconfigured?
    device,                \* the power the device has been told
    clock,                 \* millis(), in seconds
    sinceApply,            \* since applyCommand last ran
    age                    \* history: since the last accepted command

gatewayVars == <<request, lastNodeSequence>>
nodeVars == <<command, applied, result, lastCommandSequence, lastCommandMs,
              commandArmed, driverCompiled, device>>
timeVars == <<clock, sinceApply, age>>
nodeCommandVars == <<gatewayVars, line, nodeVars, timeVars>>

Frames == [sequence : Nat, power : Int16, enable : {0, 1}, ttl : 1 .. MaxTtl]
NoCommand == [sequence |-> 0, power |-> 0, enable |-> 0, ttl |-> 0]
NoRequest == [sequence |-> 0, power |-> 0, enable |-> 0, ttl |-> 0,
              target |-> TRUE, key |-> FALSE]

(* The history counter stops one past the last age a property speaks of.    *)
AgeCap == MaxTtl + MaxNodeLoop + 1

(* Every variable has its type; in particular the node holds no command     *)
(* that the gateway should not have sent.                                   *)
NodeTypeOK ==
    /\ request \in Requests /\ lastNodeSequence \in Nat
    /\ line \in Seq(Frames) /\ Len(line) <= LineBound
    /\ command \in Frames \cup {NoCommand}
    /\ applied \in Int16 /\ result \in 0 .. 4
    /\ lastCommandSequence \in Nat /\ lastCommandMs \in 0 .. ClockSize - 1
    /\ commandArmed \in BOOLEAN /\ driverCompiled \in BOOLEAN
    /\ device \in Int16
    /\ clock \in 0 .. ClockSize - 1 /\ sinceApply \in 0 .. MaxNodeLoop
    /\ age \in 0 .. AgeCap

NodeInit ==
    /\ request = NoRequest /\ lastNodeSequence = 0 /\ line = <<>>
    /\ command = NoCommand /\ applied = 0 /\ result = 0
    /\ lastCommandSequence = 0 /\ lastCommandMs = 0 /\ commandArmed = FALSE
    /\ driverCompiled \in Builds /\ device = 0
    /\ clock \in 0 .. ClockSize - 1 /\ sinceApply = 0 /\ age = AgeCap

-----------------------------------------------------------------------------
(* The ROCK Pi.                                                             *)

WriteNodeCommand ==
    /\ request' \in NodeWrites
    /\ UNCHANGED <<lastNodeSequence, line, nodeVars, timeVars>>

(* Faulty variant: the apply key is not asked for.                          *)
ForwardedUnkeyed(r) == r.target /\ r.ttl \in 1 .. MaxTtl

(* Faulty variant: the time to live is not checked.                         *)
ForwardedAnyTtl(r) == r.key /\ r.target

(* The key, then the checks of NodeTcpPollingService::applyPowerCommand.    *)
Forwarded(r) == r.key /\ r.target /\ r.ttl \in 1 .. MaxTtl

FrameOf(r) ==
    [sequence |-> r.sequence,
     power |-> EncodeSigned(DecodeSigned(r.power)),
     enable |-> IF r.enable = 1 THEN 1 ELSE 0, ttl |-> r.ttl]

(* A request is new when its number is: nodeCommandObserved_ is true from   *)
(* the start, so a first request numbered 0 is not taken.                   *)
NodeCommandPending == request.sequence # lastNodeSequence

(* takeNodeCommand and the forwarding.  The node may not be reachable.      *)
TakeNodeCommand ==
    /\ NodeCommandPending
    /\ lastNodeSequence' = request.sequence
    /\ \/ /\ Forwarded(request) /\ Len(line) < LineBound
          /\ line' = Append(line, FrameOf(request))
       \/ UNCHANGED line
    /\ UNCHANGED <<request, nodeVars, timeVars>>

GatewayRestart ==
    /\ "gateway" \in NodeEvents
    /\ request' = NoRequest /\ lastNodeSequence' = 0
    /\ UNCHANGED <<line, nodeVars, timeVars>>

-----------------------------------------------------------------------------
(* The node's server: a frame writes the four registers at once.            *)

ReceiveFrame ==
    /\ line # <<>>
    /\ command' = Head(line) /\ line' = Tail(line)
    /\ UNCHANGED <<gatewayVars, applied, result, lastCommandSequence,
                   lastCommandMs, commandArmed, driverCompiled, device,
                   timeVars>>

LoseFrame ==
    /\ line # <<>>
    /\ line' = Tail(line)
    /\ UNCHANGED <<gatewayVars, nodeVars, timeVars>>

-----------------------------------------------------------------------------
(* driver->applyPowerCommand(power) returned "accepted".  A driver that     *)
(* refuses leaves the device as it is; UnconfiguredDriver always refuses.   *)
DriverReturns(power, accepted) ==
    /\ accepted => driverCompiled
    /\ ~accepted => ~driverCompiled \/ "refuse" \in NodeEvents
    /\ device' = IF accepted THEN power ELSE device

(* applyCommand, when the sequence number has changed.  The driver is asked *)
(* only for an enabled command with a valid time to live.                   *)
NewCommand ==
    /\ command.sequence # lastCommandSequence
    /\ lastCommandSequence' = command.sequence /\ lastCommandMs' = clock
    /\ \E accepted \in BOOLEAN :
           /\ IF command.enable = 1 /\ command.ttl \in 1 .. MaxTtl
              THEN DriverReturns(command.power, accepted)
              ELSE ~accepted /\ UNCHANGED device
           /\ applied' = IF accepted THEN command.power ELSE 0
           /\ result' = IF accepted THEN 1
                        ELSE IF command.ttl \in 1 .. MaxTtl THEN 2 ELSE 4
           /\ commandArmed' = accepted
           /\ age' = IF accepted THEN 0 ELSE age
    /\ sinceApply' = 0
    /\ UNCHANGED <<gatewayVars, line, command, driverCompiled, clock>>

(* Faulty variant: the deadline is a sum that the clock may never reach.    *)
ElapsedSinceUnwrapped(then) == IF clock >= then THEN clock - then ELSE 0

(* Faulty variant: the difference is not taken modulo the clock.            *)
ElapsedSinceAbsolute(then) ==
    IF clock >= then THEN clock - then ELSE then - clock

(* nowMs - lastCommandMs, unsigned.                                         *)
ElapsedSince(then) ==
    IF clock >= then THEN clock - then ELSE clock - then + ClockSize

(* Faulty variant: the applied power stays in its register.                 *)
ExpireUnreported ==
    /\ command.sequence = lastCommandSequence
    /\ commandArmed /\ ElapsedSince(lastCommandMs) > command.ttl
    /\ \E accepted \in BOOLEAN : DriverReturns(0, accepted)
    /\ result' = 3 /\ commandArmed' = FALSE
    /\ sinceApply' = 0
    /\ UNCHANGED <<gatewayVars, line, command, applied, lastCommandSequence,
                   lastCommandMs, driverCompiled, clock, age>>

(* applyCommand, when the armed command has outlived its time to live.      *)
(* What the driver returns is ignored.                                      *)
Expire ==
    /\ command.sequence = lastCommandSequence
    /\ commandArmed /\ ElapsedSince(lastCommandMs) > command.ttl
    /\ \E accepted \in BOOLEAN : DriverReturns(0, accepted)
    /\ applied' = 0 /\ result' = 3 /\ commandArmed' = FALSE
    /\ sinceApply' = 0
    /\ UNCHANGED <<gatewayVars, line, command, lastCommandSequence,
                   lastCommandMs, driverCompiled, clock, age>>

NothingToDo ==
    /\ command.sequence = lastCommandSequence
    /\ ~(commandArmed /\ ElapsedSince(lastCommandMs) > command.ttl)
    /\ sinceApply' = 0
    /\ UNCHANGED <<gatewayVars, line, nodeVars, clock, age>>

ApplyCommand == NewCommand \/ Expire \/ NothingToDo

(* provisionNode at the serial port replaces the driver.                    *)
ProvisionNode ==
    /\ "provision" \in NodeEvents
    /\ driverCompiled' = FALSE
    /\ UNCHANGED <<gatewayVars, line, command, applied, result,
                   lastCommandSequence, lastCommandMs, commandArmed, device,
                   timeVars>>

(* A reset of the node, by its watchdog, an update or a command at the      *)
(* serial port.  The device keeps what it was told.                         *)
NodeRestart ==
    /\ "restart" \in NodeEvents
    /\ command' = NoCommand /\ applied' = 0 /\ result' = 0
    /\ lastCommandSequence' = 0 /\ lastCommandMs' = 0
    /\ commandArmed' = FALSE /\ driverCompiled' \in Builds
    /\ line' = <<>> /\ clock' = 0 /\ sinceApply' = 0
    /\ UNCHANGED <<gatewayVars, device, age>>

Second ==
    /\ sinceApply < MaxNodeLoop
    /\ clock' = IF clock + 1 = ClockSize THEN 0 ELSE clock + 1
    /\ sinceApply' = sinceApply + 1
    /\ age' = Smaller(age + 1, AgeCap)
    /\ UNCHANGED <<gatewayVars, line, nodeVars>>

NodeNext ==
    \/ WriteNodeCommand \/ TakeNodeCommand \/ GatewayRestart
    \/ ReceiveFrame \/ LoseFrame \/ ApplyCommand
    \/ ProvisionNode \/ NodeRestart \/ Second

NodeSpec == NodeInit /\ [][NodeNext]_nodeCommandVars

-----------------------------------------------------------------------------
(* Properties.                                                              *)

(* A command is in force for no longer than the longest time to live and    *)
(* one iteration of the node's loop, however frames are lost or late, also  *)
(* when millis() wraps around and when a restarted gateway rewrites the     *)
(* registers under the same sequence number.                                *)
ArmedCommandExpires == commandArmed => age <= MaxTtl + MaxNodeLoop

(* And never ends early: the node reports an expired command only after the *)
(* time to live in its registers.                                           *)
NotExpiredEarly ==
    [][result # 3 /\ result' = 3 => age > command.ttl]_nodeCommandVars

(* The applied power the node reports is what the device was told, and is   *)
(* reported only while the time to live is supervised.                      *)
AppliedIsReal == applied # 0 => commandArmed /\ device = applied

(* Whatever reaches the device was asked for by an enabled request with the *)
(* key, a valid time to live and this node as its target.                   *)
OnlyAuthorised ==
    device # 0 => \E w \in NodeWrites :
        /\ w.key /\ w.target /\ w.enable = 1 /\ w.ttl \in 1 .. MaxTtl
        /\ w.power = device
=============================================================================
