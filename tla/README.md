# TLA+ verification of the GrideX Edge gateway

The gateway is a Linux service on a ROCK Pi E that lets an energy management
system (OpenRemote, "the EMS") command a battery cabinet (Suntech STE-261L)
over Modbus TCP, plus ESP32 nodes for further devices. It must never command
a power the battery management system (BMS) forbids, and must bring the
cabinet to zero power when anything it depends on falls away.

## Inventory

| Component | State | Operations | Interacts with |
|---|---|---|---|
| `SafetyEnvelope` | none | `apply` | called by `EdgeController::tick` |
| `SunStoragePro261Driver` | flags and limits of the last poll | `poll`, `refreshHeartbeat`, `writePowerSetpointKw`, `writeReactivePowerSetpointKvar`, `writePowerState`, `writeSocLimitsPct` | cabinet registers through `IModbusClient`; called by tick and by the operator path |
| `EdgeController` | requested power, time of the last command, time of the last heartbeat | `receiveCommand`, `tick` | main loop above, driver below |
| `NorthboundRegisterBank` | 17 holding and the input registers, last sequence numbers, a mutex | `writeHolding`, `take…Command`, `publish…` | server thread and main loop |
| `NorthboundModbusTcpServer` | one listening socket, one client | accept loop, `handlePdu` | the EMS and operators; the bank |
| main loop (`base-rockpie/src/main.cpp`) | publication deadlines, journal statuses | take, tick, operator command, node command, publish, journal, sleep | everything |
| `PosixModbusTcpClient` | one socket, transaction number | reads and writes with a timeout | cabinet and nodes |
| `NodeTcpPollingService` | one sample per node, a mutex | polling thread, `applyPowerCommand` | ESP32 nodes, main loop |
| `TelemetryJournal` | file, predecessor file, sequence number | append, rotate | main loop, file system |
| `MqttHealthPublisher` | connection flag, network thread | publish | broker |
| `OtaApply` (`gridex_ota_apply`) | none between runs | hash a staged file, post it, read the answer | an ESP32 node |
| `EspOtaService` | accepted, completed, expected digest, restart pending | begin, the events of an upload, answer, delayed restart | `OtaApply`, flash slots, serial console |
| ESP32 node (`MbusNode`, `EthernetControlServer`, `main.cpp`) | register map, armed command and its time to live | frames, provisioning, `applyCommand`, `superviseDeviceBus` | ROCK Pi, a device driver |

What is hard here: the registers of the bank change under the main loop; a
poll takes seconds, so everything computed from it is old when it is used; a
Modbus write can fail after the cabinet has executed it; operations of two
writes can stop between them; the process can end anywhere; and three clocks
(EMS timeout 15 s, heartbeat refresh 35 s, cabinet watchdog 60 s) are compared
only once per iteration. `PROJECT.json` lists the hazards line by line.

The node polls hold a lock the main loop needs, the server joins a thread that
may wait for a client, a file system call can fail between the others, and an
upload meets resets, a changing file, lost answers and connections that go
silent.

What makes it correct: power only under a running watchdog, only within the
limits of the BMS and of the configuration, only from a fresh command; zero
after silence or loss of the service; a proper window of charge at every
instant; reported results that are true.

## Modules

**`SafetyEnvelope`** holds the arithmetic: `Apply` is
`SafetyEnvelope::apply`, `EncodeSigned` and `DecodeSigned` the fixed-point
registers of the driver, `DriverAccepts` the driver's own second check. One
unit of power is 0.05 kW, half a register step, so that a configured limit can
fall between two register values and rounding matters.

**`SunStoragePro261Driver`** is the driver with the cabinet it commands.
`reg` are the holding registers 5003, 5005-5008, 5301 and 5302, `drv` the
driver's members, `scan` a poll half done (status coils first, BMS registers
last), `call` the write operation under way with the writes it still has to
do. Each write is an exchange of its own: `WriteAcknowledged`, or `WriteFailed`
with or without effect on the cabinet. `CabinetChanges` and `CabinetTick` are
external: the PCS, the BMS, the link, the local panel, and the cabinet's
watchdog, which returns the power to zero when register 5301 has run out
(`docs/SUNTECH_STE261L_PROTOCOL.md:15`). `DriverSpec` lets a client call the
operations in any order: it is the driver's promise to whoever uses it.

**`EdgeService`** composes the driver with the controller, the bank and the
main loop. `pc` walks through one iteration: `TakeCommand` (`takeCommand`,
`receiveCommand` and the timers of `tick`), `Poll`/`PollDone`,
`Heartbeat`/`HeartbeatDone`, `ApplySetpoint`/`SetpointDone`,
`TakeOperatorCommand` and the operator's actions, `Publish`. `WriteEms` and
`WriteOperator` are the server thread, possible at every step. `Crash` and
`StartAgain` are the end of the process and systemd. `Elapse` is one tick of
all clocks. Timers are ages, saturated where the code stops telling them
apart. `emsSilence` is a history variable: how long the EMS has really been
silent, which the code cannot see.

**`NodeCommand`** is the path to a device behind an ESP32 node. `request` are
registers 11-16 of the bank (`nodeCommandObserved_` is true from the start, so a
request is new only if its number is not the last one, 0 at first);
`TakeNodeCommand` is `takeNodeCommand` and the
forwarding with the checks of `NodeTcpPollingService::applyPowerCommand`;
`line` holds frames that were sent and not yet handled, which may be lost or
arrive long after the gateway has given up the exchange; `ReceiveFrame` writes
the node's four command registers at once. `ApplyCommand` is `applyCommand`:
`NewCommand`, `Expire` or nothing to do. `clock` is `millis()`, which wraps
around; `ProvisionNode` is the command at the serial port, which replaces the
driver by `UnconfiguredDriver`; `NodeRestart` and `GatewayRestart` forget what
each end holds in memory. The device drivers are external: the firmware of this
commit has only `UnconfiguredDriver`, which refuses every power, and a build
with a driver is modelled from the interface `IDeviceDriver` (it takes the
power and returns true, or leaves the device alone and returns false). `age` is
a history variable, the time since the last accepted command.

**`NodeLink`** is the connection below that path: `PosixModbusTcpClient`
(`ConnectLocked`, `Transact`, `ReceiveAnswer`, `Fail`, `DisconnectLocked`) and
`EthernetControlServer` (`AcceptClient`, `StopClient`, `ReadPart`,
`ProcessFrames`, `RxTimeout`, `RestartControl`, `SetRockPiAddress`). A request
is two parts, so that it can arrive by halves; `fresh` marks, as history, what
belongs to the exchange under way. TCP and `WiFiClient` are external: in order
or not at all on one connection, and an end that is closed is seen by the other
one unless something fails. `calm` says that nothing fails for now, in which
case a node that can answer does so within the timeout. The module implements
**`DeliveryLine`**: an exchange succeeds only after the node has handled its
request, and a request that was given up is handled late or never, but not
after a newer one. This is what `NodeCommand` assumes of its `line`. The
mapping takes the exchange as handled once its answer is under way, and as late
whatever complete request is left of earlier ones.

**`GatewayThreads`** is the other view of the ROCK Pi service: its threads and
how they stop. `main` walks through the second half of an iteration (node
command, `samples()` and the transition records, telemetry and snapshot, sleep)
and the shutdown; `poller` is `NodeTcpPollingService::run` and `pollNode`, with
`sampleLock` held from the identity to the end of `pollNode` and `clientLock`
held during each Modbus transaction, by the polling thread or by the main loop;
`server` is the worker of `NorthboundModbusTcpServer`: `accept`, `idle` between
frames, `frame` inside `receiveExact`, `answer` inside `sendAll`, which waits
while `reads` is false: a client that sends requests and does not read the
answers has filled the buffers. `Signal`, `LinkChanges`, `MqttCallback`,
`ClientConnects`, `ClientSends` and `ClientReads` are the surroundings. One node and the two
statuses online and offline suffice: the code treats slots alike and compares
statuses only for equality.

**`TelemetryJournal`** is the local journal, one file system call at a time.
`current` and `prior` are the two files as sequences of pieces (a record, or
the part of it that was written), with the size up to each piece and whether it
was synced and acknowledged. `Restart` ends the process at any point of
`append`; `PowerFailure` also takes some of what was not synced. It implements
**`BoundedLog`**: acknowledged numbers are kept in order and forgotten oldest
first. The mapping takes the acknowledged pieces of both files, in order.

**`OtaUpdate`** composes `gridex_ota_apply` (`CheckFile`, `HashFile`, `Connect`,
`Send`, `Receive`, `SendFails`) with `EspOtaService` (`UploadStart`, `UploadWrite`, `UploadEnd`,
`UploadAborted`, `HandleResult`, `RestartCheck`) over a connection of bounded
capacity, and with the console commands that store the source and the key. A
connection can be aborted, which its client notices (`Break`), or go silent
(`LoseLink`): from then on nothing passes, and what was sent, or the answer that
was on its way, may be lost with neither end knowing.
`slots`, `active` and `bootSlot` are the flash; `config` is what the OTA service
was constructed with, `nvs` what is stored. WebServer, Update and the
bootloader are external and modelled from how the code uses them; SHA-256 is an
injective function. `named` and the field `stored` are history; `named` counts
the digests of requests that are `Genuine`, which is stated apart from the check
the node makes (`RequestAuthorized`), so that an error in that check shows. It implements
**`AtomicUpdate`**: the running image is always whole, changes at a boot only,
and only to an image that a request from the configured source with the
configured key has announced. The mapping
takes `slots[active]` as the running image and the selected slot, if it is the
other one and whole, as the candidate.

**`MCDriver`, `MCEdgeService`, `MCNodeCommand`, `MCOtaUpdate`** give small instances. Definitions commented
"Faulty variant" are plausible errors of the definition that follows; the
mutation runs put them in its place to show that a property would notice.

**`EnvelopeProofs`, `DriverProofs`, `EdgeServiceProofs`, `NodeProofs`,
`LinkProofs`, `GatewayProofs`, `JournalProofs`, `OtaProofs`** hold lemmas and
theorems, each about the module of its name and the ones before.

## Runs

| Run | Bounds | Shows |
|---|---|---|
| `driver` | any order of calls, 4 SoC values, powers −4..4, two PCS conditions, three BMS reports, panel, link failures, restarts | `DriverTypeOK`, `SocWindowOrdered`, `StopLeavesZero`, `SetpointWithinPolledLimits` |
| `control` | timeout 1, refresh 2, watchdog 3, iterations of up to 1 tick; faults, two BMS reports, link failures, crashes | `TypeOK`, `WatchdogArmed`, `WithinConfiguredLimits`, `EnvelopeNeverRefused`, `NoStaleCommand` |
| `operator` | one EMS command, four operator requests (stop, start, wrong key, invalid mask) that may fall between a tick and its publication, on a failing link | `SuccessMeansDone`, `ReportedMeansCommanded`, `NoPowerWhileStopped`, and that the service implements `DriverSpec` |
| `silence` | the real ratios in ticks of 5 s: 3, 7, 12, iterations of up to 10 s | `SilenceMeansZero` |
| `liveness` | shortest timers, one EMS command, a stop and a request without the key that replace one another at any moment, link failures, crashes | `SilenceEndsAtZero`, `DownEndsAtZero`, `OperatorAnswered` |
| `node` | seven requests (two that share a sequence number, a replacement, and four to be refused), two frames under way, time to live 1 or 2, a clock of 4 values, every event | `NodeTypeOK`, `ArmedCommandExpires`, `NotExpiredEarly`, `AppliedIsReal`, `OnlyAuthorised` |
| `link` | two connections at a time, two transaction numbers, requests the node knows and does not know, every event | `LinkTypeOK` with the bytes of at most one request in `rx_`, `ServedAgain`, and that the exchanges implement `DeliveryLine` |
| `gateway` | one node, one waiting northbound connection, every event | `GatewayTypeOK` with the place of each lock, `JoinedBeforeEnd`, `MainKeepsTicking`, `OutageReported`, `StopEnds`, `WaitingIsServed` |
| `journal` | records of 1 or 2 bytes, files of 3, three acknowledged records per process, any number of processes | `JournalTypeOK`, `JournalBounded`, `Numbered`, and that the journal implements `BoundedLog` |
| `ota` | one run at a time, which a new one may follow while the node still works on the last; two addresses and two keys that the node may have stored; a file of 2 chunks, the limit, and one of 3; two items under way; every event | `OtaTypeOK`, `SuccessMeansStored`, `AcceptedRuns`, `ClientEnds`, and that the update implements `AtomicUpdate` |
| `stale_setpoint` | as `silence`, small, and the BMS may report an invalid state of charge | violated: see below |
| `node_ttl` | a command and a disabled one after it, no failures | violated: see below |

The bounds are enough because the timers only matter relative to each other:
an iteration is shorter than the refresh, the refresh and an iteration fit into
the watchdog, and the EMS timeout is at least one iteration or zero. Two BMS
reports and two commands let every comparison go both ways between a poll and
the write that depends on it. For the node, a clock of four values wraps
around within the life of every command, and two frames under way are enough
for a late one to follow a newer request. In the journal a file holds up to
three pieces and a record may or may not fit, so rotations meet every mixture
of acknowledged, failed and partial records; the code refuses a `maxBytes` that
a record could exceed. In the update the staged file may be at the limit or past
it, and change between any two steps, so that mixtures and truncations are sent;
a run that gave up leaves an upload behind which the next one meets, also within
the 250 ms of the first one's restart; and the node may have stored either
address and either key. Several runs of `gridex_ota_apply` at the same time are
left to the theorems, which hold for any number.
One waiting connection is enough to tell who is served next. Two connections
let a new one meet the one before it at the node, and with two transaction
numbers a late answer carries the current number as often as not. The shutdown of
the service is the only place where a system stops, so the `gateway` run does not
check deadlock; `StopEnds` and `MainKeepsTicking` say more.

### Disagreements with the documents

- `stale_setpoint`: with an invalid state of charge or negative limit, tick
  computes 0 kW but the driver refuses to write it, while the heartbeat is
  still refreshed. The last power stays in 5005 although
  `base-rockpie/README.md:30` and `docs/COMMISSIONING.md:14` promise 0 kW. The
  `silence` run shows the promise holds with valid BMS data.
- `node_ttl`: `base-rockpie/README.md:48` says the node forces 0 kW when the
  time to live expires. A disabled or refused command that comes before then
  disarms the supervision without writing a zero, so the earlier power stays at
  the device. This needs a build with a device driver. (In the same spirit,
  `node-esp32-evb/README.md:30` speaks of a monotonic sequence; `applyCommand`
  takes every sequence number other than the last one.)

Others met while modelling, without a run of their own:

- `docs/SUNTECH_STE261L_PROTOCOL.md:14` says the heartbeat is always refreshed
  before 50 s. It is due at the first iteration that starts 35 s after the last
  one, and is written after the poll; iterations of 15 s are possible when
  optional reads time out. (The watchdog of 60 s is still met: `WatchdogArmed`.)
- `base-rockpie/README.md:30` makes the sequence number the last write of a
  command; `takeCommand` takes the command also on a change of the heartbeat
  alone, with whatever power stands in the registers.
- `docs/LOCAL_TELEMETRY_AND_NODE_PROVISIONING.md:39` calls the sequence of the
  journal increasing. A record that was written but whose `fsync` failed stays
  in the file, and the next record has its number; `Numbered` says exactly
  that. A partial write leaves no line feed, so the next record shares its line.
- The same document, lines 8-10, promises a record for every change of the
  polling state. A change that is taken back before the next iteration has none,
  and the remembered status advances also when the record could not be written.
  `OutageReported` shows what is left: a lasting outage reaches the journal with
  the next snapshot.
- The same document, lines 66-67, says `rockpi` restricts Modbus TCP and OTA.
  The OTA service keeps the address it was constructed with until the next boot
  (`SetRockPi` changes `nvs` only).

Six properties have the exception the code makes necessary in their statement:
`StopEnds` (a client in the middle of a frame, or one that does not read its
answers, holds up the shutdown, since neither `receiveExact` nor `sendAll` has a
timeout; the exception is the worker that stays in one of the two for ever),
`ClientEnds` (`recv` has none either, so a run waits on a connection that the
node has closed, or lost in a reset, without a word of it getting through),
`ReportedMeansCommanded` (below),
`WaitingIsServed` (an idle client keeps its place), `AcceptedRuns` (each
accepted upload puts the restart off by 250 ms) and `ServedAgain` (after a
power failure of the ROCK Pi, or a loss of the packets that end a connection,
the node keeps a connection that nobody uses and, without a timeout for a
silent client, accepts no other until its Ethernet link or the node itself is
restarted; `docs/LOCAL_COMMISSIONING_SEQUENCE.md:15` asks for a recovery after a
reboot of the ROCK Pi, which an orderly one has).

### Fairness

`FairSpec` assumes weak fairness of the main loop, which the operating system
schedules and whose every wait has a timeout, and of time. Nothing is assumed
of the EMS, operators, the cabinet or the link: `SilenceEndsAtZero` has the
cabinet's readiness as its own premise, and `DownEndsAtZero` needs only the
watchdog and time.

`FairLinkSpec` assumes weak fairness of the polling thread, whose every wait
has a timeout, and of the node's loop. Nothing is assumed of failures;
`ServedAgain` has their end as its own premise.

`FairGatewaySpec` assumes that every thread is scheduled and that every network
read ends, by an answer or its timeout. The main loop and the polling thread
have strong fairness because they wait for mutexes that the other one takes
again and again: weak fairness would allow one never to get a lock that is
always released for a moment, which the 20 ms sleeps of the polling thread and
the pause of the main loop rule out in practice. Strong fairness of
`PublishTelemetry` and `WriteSnapshot` says that the intervals elapse and that
a broker or disk that is tried for ever accepts some time; without it nothing
about reporting could hold. Nothing is assumed of clients, the link or MQTT.

`FairOtaSpec` assumes weak fairness of the node's loop (WebServer gives up a
silent client), of the 250 ms, and of the steps of a run of `gridex_ota_apply`
that has connected. A send on a silent connection goes into the buffer or fails
when TCP gives up; nothing of the kind ends a `recv`, although TCP may end it if
something sent before it was never acknowledged. Resets, broken connections and flash failures may happen
for ever, or never.

## Proofs

The theorems hold for every value of the constants that satisfies the named
assumptions of the modules: any timeouts and ranges, any set of BMS reports,
PCS conditions and register contents that clients write, any number of
connections and of runs of `gridex_ota_apply`, any sizes of records and files.
The assumption with most substance is `HeartbeatRefresh + MaxLoop <=
HeartbeatTimeout` (`DriverAssumption`, `ServiceAssumption`): a refresh that has
become due is confirmed before the watchdog runs out, if one iteration takes no
longer than the 25 s between 35 s and 60 s. The others say what a constant
stands for: there is at most one configured limit in each direction
(`ChargeCap` and `DischargeCap` are optional values in `ControllerConfig`), a
firmware file is a sequence of chunks from `Data`, and "no connection" is not
one of the `Connections`.

| Theorem | Statement |
|---|---|
| `DriverTypeCorrect` | `DriverSpec => []DriverTypeOK` |
| `SocWindowSafe` | `DriverSpec => []SocWindowOrdered` |
| `StopSafe` | `DriverSpec => []StopLeavesZero` |
| `SetpointSafe` | `DriverSpec => SetpointWithinPolledLimits` |
| `LockedSafe` | `DriverSpec => LockedMeansUntouched` |
| `ServiceTypeCorrect` | `Spec => []TypeOK` |
| `ServiceRefinesDriver` | `Spec => DriverSpec` |
| `WatchdogSafe` | `Spec => []WatchdogArmed` |
| `NoStaleCommandSafe` | `Spec => NoStaleCommand` |
| `EnvelopeNeverRefusedSafe` | `Spec => []EnvelopeNeverRefused` |
| `WithinConfiguredLimitsSafe` | `Spec => []WithinConfiguredLimits` |
| `ReportedMeansCommandedSafe` | `Spec => []ReportedMeansCommanded` |
| `NoPowerWhileStoppedSafe` | `Spec => NoPowerWhileStopped`, if `~LocalPanel` |
| `SuccessMeansDoneSafe` | `Spec => []SuccessMeansDone`, if `~LocalPanel` |
| `SilenceMeansZeroSafe` | `Spec => [](Dependable => SilenceMeansZero)` |
| `NodeTypeCorrect` | `NodeSpec => []NodeTypeOK` |
| `CommandExpires` | `NodeSpec => []ArmedCommandExpires` |
| `CommandNotCutShort` | `NodeSpec => NotExpiredEarly` |
| `AppliedSafe` | `NodeSpec => []AppliedIsReal` |
| `AuthorisedSafe` | `NodeSpec => []OnlyAuthorised` |
| `LinkTypesSafe` | `LinkSpec => []LinkTypeOK` |
| `LinkIsLineSafe` | `LinkSpec => LinkIsLine` |
| `GatewayTypes` | `GatewaySpec => []GatewayTypeOK` |
| `JoinedBeforeEndSafe` | `GatewaySpec => []JoinedBeforeEnd` |
| `JournalTypes` | `JournalSpec => []JournalTypeOK` |
| `JournalBoundedSafe` | `JournalSpec => []JournalBounded` |
| `NumberedSafe` | `JournalSpec => []Numbered` |
| `AcknowledgedKept` | `JournalSpec =>` an acknowledged record stays in its place, but for a rotation |
| `OtaTypesSafe` | `OtaSpec => []OtaTypeOK` |
| `SuccessMeansStoredSafe` | `OtaSpec => []SuccessMeansStored` |
| `UpdateIsAtomicSafe` | `OtaSpec => UpdateIsAtomic` |

**The driver.** None of the properties is inductive: what a write does depends
on what was decided when the operation began. `DriverInv` adds `CallShape`,
which says what the pending writes of each operation look like and what still
holds of the state they were decided on (between the two writes of
`writeSocLimitsPct` the bound still to come fits the one already there; a
pending setpoint was accepted against the limits the driver still holds), and
that a poll and a write operation never overlap. Rounding is covered by
`EncodeBound`: it never crosses a limit that is itself a register value.
`LockedMeansUntouched` says that without the three approvals no register
changes but by the panel; `LockedInv` adds that then no write is ever pending
and the cabinet's watchdog stays off. It is proved and not model-checked.

**The service** is a client of the driver. `ServiceRefinesDriver` shows that
each of its steps is a step of `DriverNext` or leaves the driver alone, so the
five theorems about the driver carry over. It needs `ServiceInv`: the request
an operator action works on is one that a client wrote, and the envelope never
exceeds the requested power (`EnvelopeType`).

**Timing.** `ControlInv` relates the clocks. For the watchdog: while a refresh
is younger than its period, register 5301 has at least the rest of the timeout
left; a refresh that was just confirmed, at least the timeout less the age of
the iteration; a tick that counts the heartbeat as good, at least the timeout
less the period and that age. For silence: a command not yet taken is no older
than the iteration, one that is taken no older than its age and an iteration,
and a tick that counts the EMS as connected adds the age of the iteration. A
pending setpoint other than zero belongs to a tick with both
(`PowerBacked`), which connects the two to register 5005.

**Commands.** `CommandInv` follows a setpoint from the poll to the register.
`TickIsPoll` says that until the setpoint is decided the tick holds what the
driver holds of the same poll; so the envelope and the driver's own check
(`DriverAccepts`) look at the same limits, and `EnvelopeBounds` compares the two
formulas, rounding included. `ConfiguredInv` keeps the register and the pending
write within the configured limits. `ReportedInv` says what the state to be
published rests on: a good heartbeat, and a pending write of just the power to
be published; with `WatchdogInv` the cabinet's watchdog cannot take that power
away before the iteration ends. The snapshot that is published is the one of the
tick, and the operator command comes between the two: it can write 5005 only as
the zero of a stop (`OnlyStopZeroes`), so `ReportedMeansCommanded` speaks of the
moment before `Publish` and has that stop as its exception. It claims nothing of
the other states: in `WaitingForComms` and the like the published power is 0
while 5005 keeps its last value.

Two theorems need that nobody switches the cabinet at its panel (`AloneInv`).
`SwitchedInv`: from the poll to the end of the tick the driver takes the
cabinet for ready only if register 5003 is on, so no power is written to one
that is off. That is all `NoPowerWhileStopped` says: a stop is two writes, and
when its zero is lost and the other one is not, the power from before may stay
in 5005 of a cabinet that is off (the operator is told of the failure). `OperationInv`: each action of an operator command is still to be
done or has its registers as asked, unless the command is known to have failed;
`Underway` says how far the writes of the one in progress have come, and with
it that finishing one action never undoes another. With the panel both are false, and should be: the
operator's command may be overruled by hand.

`SilenceMeansZeroSafe` has as its condition, `Dependable`, the setting of the
run `silence`: writes are enabled, every PCS condition and every BMS report
that occurs is good, the link works, and there are neither crashes nor a panel.
`stale_setpoint` shows what an invalid BMS report does, and a zero that the link
loses or that a service which is down never writes does not arrive either.
`SoundInv` says
that then every poll and every exchange succeeds and a cabinet that is off has
no power; `PowerAge` bounds the silence behind a power by the timeout, the age
of the iteration and one or two iterations more, depending on whether this
tick's setpoint has been written.

**The node.** `Deadline` says that while a command is in force its age is the
unsigned difference `nowMs - lastCommandMs`, and at most the longest time to
live plus the time since `applyCommand` last ran. The first part survives a
wrap of the clock because of the second: the command is younger than the
clock's period (`ClockSize > MaxTtl + MaxNodeLoop`; in the code 49 days against
30 s and the 8 s of the task watchdog). `Provenance` follows a power from the
request through the line and the registers to the device; the conversion to
kilowatts and back is the identity on registers (`RoundTrip`).

**The link.** `LinkInv` says where everything is that has been sent. `Places`:
a connection is waiting or served and not both, and the gateway's is the newest,
so nothing waits behind it. `Streams`: parts alternate on every connection, what
the node reads next fits what `rx_` holds, and whatever is on another
connection than the gateway's belongs to an exchange that is over. `Current`: of
the request under way there is nothing left, both parts wait on the connection,
one of them is in `rx_`, both are, or its answer is on the way back; hence an
answer that arrives is the one to this request, and the comparison of the
transaction numbers never decides anything although they come again. For the
refinement the abstract `late` is `Late`, a complete request of an earlier
exchange in `rx_` or on any connection. Each step of the server keeps it or ends
it (`QuietStep`); an exchange that ends after its request was handled leaves
nothing new behind (`EndedLate`); and when the node handles the request under
way, nothing earlier is left, because its connection is the newest.

**The threads.** `GatewayTypeOK` and `JoinedBeforeEnd` are inductive together:
the type invariant says where in the two loops each lock is held.

**The journal.** `JournalInv` adds to the properties what they rest on: a piece
ends within `maxBytes`, an acknowledged one is synced, its number is at most
`sequence_` (one more if it was not acknowledged), and while a record is written
it fits. `Sound` and `Follows` are stated of two files, so that a rotation, which
makes the one the other, keeps them. `AcknowledgedKept` is the durability half of
`JournalIsLog`, stated piece by piece: through short writes, failed calls,
restarts and power failures an acknowledged record stays at its index, unless
`MakesRoom`, the rotation, gives up the whole of the predecessor.

**The firmware update.** `OtaInv` connects the two ends. `Queue`: a connection
waits once or is served. `Matches`: an open connection carries the header of the
run that opened it, and 200 is on its way only for a file that was stored; on a
silent one nothing comes back, so nothing needs to hold of it.
`Upload`: what is received on an open connection is checked against the digest
of that run; a client that has gone may leave an upload to be finished, but not
one it will hear about. `Flash`: what is accepted was announced, and the running
slot is never written. With these each step is one of `AtomicUpdate` or changes
nothing that it sees.

Only model-checked, because the prover cannot state or find them: the liveness
properties (`SilenceEndsAtZero`, `DownEndsAtZero`, `OperatorAnswered`,
`ServedAgain`, `MainKeepsTicking`, `OutageReported`, `StopEnds`,
`WaitingIsServed`, `AcceptedRuns`, `ClientEnds`), which need fairness; and
`JournalIsLog`, whose mapping selects the acknowledged pieces with `SelectSeq`,
a function defined by recursion about which nothing can be shown without
induction. Every invariant and every action property that a run checks is a
theorem.

## Not modelled

- Telemetry that no decision reads, JSON, logging, SHA-256 and TLS.
- A reboot of the PCS, changes of the SoC limits at the panel, and a request
  delayed in the network past a reconnection.
- Health and system telemetry and the setup of the MQTT client: they read state
  and change none. `MqttTelemetryService` of the node is switched off by
  `loadCloudConfig`.
- The kinds of a failed poll (transport, identity, telemetry) are one status,
  and the failure counter of a sample is left out.
- The journal is taken to be enabled. A failed `fsync` leaves the record in the
  file; that a kernel may then drop it is covered by `PowerFailure` only.
  Creations, removals and renames of files are taken to be durable in order.
- A command whose registers an EMS writes in several requests, of which a
  heartbeat in between could have a mixture taken. `WriteEms` and
  `WriteOperator` write a command in one request.
- What a device does when its driver is replaced while a command is in force:
  provisioning (`ProvisionNode`) leaves it at its power, and the zero at the end
  of the time to live goes to `UnconfiguredDriver`. `AppliedIsReal` and
  `ArmedCommandExpires` hold all the same, as they speak of the register and of
  the armed flag.
- OTA requests other than those of `gridex_ota_apply`: a POST without a file
  part, which is answered from the outcome of the upload before it, other
  paths, upper-case digests. `EspOtaService::setConfig` is never called.
- `superviseDeviceBus`: it restarts the bus of a device driver, and the
  repository has no driver that uses one. Provisioning over the node's registers
  is not reachable through `EthernetControlServer`.
- The site headroom: `Apply` has it, but the main loop passes an empty
  `SiteLimit` (`main.cpp:226`), so it never bounds a command.
- `WaitingForBmsLimits` is in `StateOf` as in the code, and never reached:
  `poll` reports invalid limits as invalid quality, which is tested first.

## Plan

1. Done: the control path to the cabinet; the command path to a node; the
   connection to a node and the threads of the service; the journal; the firmware
   update.
2. Done: theorems for every invariant and action property of the runs, and
   three of the four refinements.
3. Next: theorems beyond the properties of the runs, in the way of
   `LockedSafe` and `AcknowledgedKept`. Candidates: that a node carries out a
   request at most once although frames may be late; that the acknowledged
   records of the journal have consecutive numbers within one process, which
   together with `AcknowledgedKept` says of positions what `BoundedLog` says of
   a selection; and the safety half of `ServedAgain`, that a node which serves
   nobody and has a connection waiting can accept it.
