--------------------------- MODULE GatewayThreads ---------------------------
(***************************************************************************)
(* The threads of the ROCK Pi service and how they stop: the main loop,    *)
(* the polling thread of NodeTcpPollingService with its sample lock, the   *)
(* worker of NorthboundModbusTcpServer, and the connection flag that the   *)
(* MQTT library's thread sets.                                             *)
(*                                                                         *)
(* There is one node.  A sample is its status: online, or offline for each *)
(* of the statuses of a sample that is not online, Unknown included.  What *)
(* the main loop does for the cabinet is in EdgeService, what a request    *)
(* does to the registers too, and how a record is written in               *)
(* TelemetryJournal.                                                       *)
(***************************************************************************)
EXTENDS Naturals, Sequences

CONSTANT Backlog      \* connections that wait for the northbound server

ASSUME GatewayAssumption == Backlog \in Nat

VARIABLES
    running,        \* the flag that the signal handler clears
    main,           \* where main() is
    poller,         \* where NodeTcpPollingService::run is
    polling,        \* running_ of NodeTcpPollingService
    sampleLock,     \* mutex_ of NodeTcpPollingService: who has it
    clientLock,     \* mutex_ of the node's PosixModbusTcpClient
    link,           \* how the node answers
    sample,         \* samples_[0].pollStatus
    shown,          \* journalStatuses[0], and what the bank shows
    journaled,      \* status in the newest acknowledged journal record
    connected,      \* connected_ of MqttHealthPublisher
    published,      \* status in the last telemetry handed to MQTT
    server,         \* where the server's worker is
    serving,        \* running_ of NorthboundModbusTcpServer
    waiting,        \* number of connections not yet accepted
    frame,          \* what has come from the client it handles
    reads           \* whether that client takes the answer

mainVars == <<running, main, shown, journaled, published>>
pollVars == <<poller, link, sample>>
serverVars == <<server, waiting, frame, reads>>
gatewayVars == <<mainVars, polling, serving, pollVars, sampleLock, clientLock,
                 connected, serverVars>>

Statuses == {"online", "offline"}
Threads == {"main", "poller", "none"}
Nobody == "none"

(* Every variable has its type, and each lock is held just where the code   *)
(* holds it.                                                                *)
GatewayTypeOK ==
    /\ main \in {"command", "commandReply", "samples", "report", "sleep",
                 "stopPolling", "joinPolling",
                 "stopServer", "joinServer", "exited"}
    /\ poller \in {"identity", "identityReply", "lock", "reject", "telemetry",
                   "telemetryReply", "health", "healthReply", "sleep", "exited"}
    /\ server \in {"accept", "idle", "frame", "answer", "exited"}
    /\ sampleLock = IF poller \in {"telemetry", "telemetryReply", "health",
                                   "healthReply"}
                    THEN "poller" ELSE Nobody
    /\ clientLock \in Threads
    /\ clientLock = "main" <=> main = "commandReply"
    /\ clientLock = "poller" <=>
           poller \in {"identityReply", "telemetryReply", "healthReply"}
    /\ {sample, shown, journaled, published} \subseteq Statuses
    /\ link \in {"good", "bad"} /\ frame \in {"none", "part", "whole", "gone"}
    /\ {running, polling, serving, connected, reads} \subseteq BOOLEAN
    /\ waiting \in 0 .. Backlog

GatewayInit ==
    /\ running = TRUE /\ main = "command" /\ polling = TRUE /\ serving = TRUE
    /\ poller = "identity" /\ server = "accept"
    /\ sampleLock = Nobody /\ clientLock = Nobody
    /\ link \in {"good", "bad"} /\ connected = FALSE
    /\ sample = "offline" /\ shown = "offline"
    /\ journaled = "offline" /\ published = "offline"
    /\ waiting = 0 /\ frame = "none" /\ reads = TRUE

-----------------------------------------------------------------------------
(* The polling thread.                                                      *)

Poll(from, to) == poller = from /\ poller' = to

(* A transaction holds the lock of the node's client.                       *)
BeginRead(from, to) ==
    /\ Poll(from, to)
    /\ clientLock = Nobody /\ clientLock' = "poller"
    /\ UNCHANGED <<mainVars, polling, serving, link, sample, sampleLock,
                   connected, serverVars>>

EndRead(from, to) ==
    /\ Poll(from, to)
    /\ clientLock' = Nobody
    /\ UNCHANGED <<mainVars, polling, serving, link, sample, sampleLock,
                   connected, serverVars>>

BeginIdentity == BeginRead("identity", "identityReply")

(* Over a bad link a read fails, or what answers may not be a node.         *)
EndIdentity ==
    \/ EndRead("identityReply", "lock")
    \/ link = "bad" /\ EndRead("identityReply", "reject")

(* Faulty variant: the early return keeps the lock.                         *)
RejectKeepsLock ==
    /\ Poll("reject", "sleep")
    /\ sampleLock = Nobody /\ sampleLock' = "poller"
    /\ sample' = "offline"
    /\ UNCHANGED <<mainVars, polling, serving, link, clientLock,
                   connected, serverVars>>

(* No identity, or not a node's: the sample is marked under the lock.       *)
Reject ==
    /\ Poll("reject", "sleep")
    /\ sampleLock = Nobody
    /\ sample' = "offline"
    /\ UNCHANGED <<mainVars, polling, serving, link, sampleLock,
                   clientLock, connected, serverVars>>

(* A good identity: the lock is kept for the two reads that follow.         *)
LockSample ==
    /\ Poll("lock", "telemetry")
    /\ sampleLock = Nobody /\ sampleLock' = "poller"
    /\ UNCHANGED <<mainVars, polling, serving, link, sample, clientLock,
                   connected, serverVars>>

BeginTelemetry == BeginRead("telemetry", "telemetryReply")

EndTelemetry == link = "good" /\ EndRead("telemetryReply", "health")

(* Faulty variant: a node that stops answering keeps its last status.       *)
TelemetryFailsQuietly ==
    /\ Poll("telemetryReply", "sleep")
    /\ link = "bad"
    /\ clientLock' = Nobody /\ sampleLock' = Nobody
    /\ UNCHANGED <<mainVars, polling, serving, link, sample, connected,
                   serverVars>>

TelemetryFails ==
    /\ Poll("telemetryReply", "sleep")
    /\ link = "bad"
    /\ sample' = "offline"
    /\ clientLock' = Nobody /\ sampleLock' = Nobody
    /\ UNCHANGED <<mainVars, polling, serving, link, connected, serverVars>>

BeginHealth == BeginRead("health", "healthReply")

(* The health block is optional: the sample is stored in any case.          *)
EndHealth ==
    /\ Poll("healthReply", "sleep")
    /\ sample' = "online"
    /\ clientLock' = Nobody /\ sampleLock' = Nobody
    /\ UNCHANGED <<mainVars, polling, serving, link, connected, serverVars>>

(* The interval is over, or running_ is seen to be false.                   *)
NextCycle ==
    /\ Poll("sleep", IF polling THEN "identity" ELSE "exited")
    /\ UNCHANGED <<mainVars, polling, serving, link, sample, sampleLock,
                   clientLock, connected, serverVars>>

PollerStep ==
    \/ BeginIdentity \/ EndIdentity \/ Reject \/ LockSample \/ BeginTelemetry
    \/ EndTelemetry \/ TelemetryFails \/ BeginHealth \/ EndHealth
    \/ NextCycle

-----------------------------------------------------------------------------
(* The main loop and its end.                                               *)

Main(from, to) == main = from /\ main' = to

NoNodeCommand ==
    /\ Main("command", "samples")
    /\ UNCHANGED <<running, shown, journaled, published, polling, serving,
                   pollVars, sampleLock, clientLock, connected, serverVars>>

(* applyPowerCommand uses the same client as the polling thread.            *)
BeginNodeCommand ==
    /\ Main("command", "commandReply")
    /\ clientLock = Nobody /\ clientLock' = "main"
    /\ UNCHANGED <<running, shown, journaled, published, polling, serving,
                   pollVars, sampleLock, connected, serverVars>>

EndNodeCommand ==
    /\ Main("commandReply", "samples")
    /\ clientLock' = Nobody
    /\ UNCHANGED <<running, shown, journaled, published, polling, serving,
                   pollVars, sampleLock, connected, serverVars>>

(* samples(), publishNode and appendTransition.  The new status is          *)
(* remembered whether or not its record could be written.                   *)
CopySamples ==
    /\ Main("samples", "report")
    /\ sampleLock = Nobody
    /\ shown' = sample
    /\ \/ journaled' = IF sample # shown THEN sample ELSE journaled
       \/ sample # shown /\ UNCHANGED journaled
    /\ UNCHANGED <<running, published, polling, serving, pollVars, sampleLock,
                   clientLock, connected, serverVars>>

(* publishNodeTelemetry and appendSnapshot.  A message that is not due, is  *)
(* refused by the library or finds MQTT unconnected is not sent; a record   *)
(* that is not due or cannot be written is left out.                        *)
Report(sent, written) ==
    /\ Main("report", "sleep")
    /\ sent => connected
    /\ published' = IF sent THEN shown ELSE published
    /\ journaled' = IF written THEN shown ELSE journaled
    /\ UNCHANGED <<running, shown, polling, serving, pollVars, sampleLock,
                   clientLock, connected, serverVars>>

PublishTelemetry == \E written \in BOOLEAN : Report(TRUE, written)
WriteSnapshot == \E sent \in BOOLEAN : Report(sent, TRUE)

(* The pause, and the test of the loop.                                     *)
Sleep ==
    /\ Main("sleep", IF running THEN "command" ELSE "stopPolling")
    /\ UNCHANGED <<running, shown, journaled, published, polling, serving,
                   pollVars, sampleLock, clientLock, connected, serverVars>>

(* NodeTcpPollingService::stop, and the join in it.                         *)
StopPolling ==
    /\ Main("stopPolling", "joinPolling")
    /\ polling' = FALSE
    /\ UNCHANGED <<running, shown, journaled, published, serving,
                   pollVars, sampleLock, clientLock, connected, serverVars>>

(* Faulty variant: the thread is not joined.                                *)
PollerDetached == TRUE

PollerEnded == poller = "exited"

JoinPolling ==
    /\ Main("joinPolling", "stopServer")
    /\ PollerEnded
    /\ UNCHANGED <<running, shown, journaled, published, polling, serving,
                   pollVars, sampleLock, clientLock, connected, serverVars>>

(* NorthboundModbusTcpServer::stop: the listening socket is closed.         *)
StopServer ==
    /\ Main("stopServer", "joinServer")
    /\ serving' = FALSE /\ waiting' = 0
    /\ UNCHANGED <<running, shown, journaled, published, polling,
                   pollVars, sampleLock, clientLock, connected, server,
                   frame, reads>>

JoinServer ==
    /\ Main("joinServer", "exited")
    /\ server = "exited"
    /\ UNCHANGED <<running, shown, journaled, published, polling, serving,
                   pollVars, sampleLock, clientLock, connected, serverVars>>

MainStep ==
    \/ NoNodeCommand \/ BeginNodeCommand \/ EndNodeCommand \/ CopySamples
    \/ \E sent, written \in BOOLEAN : Report(sent, written)
    \/ Sleep \/ StopPolling \/ JoinPolling \/ StopServer \/ JoinServer

-----------------------------------------------------------------------------
(* The northbound server: one client at a time, until it hangs up.          *)

Accept ==
    /\ server = "accept" /\ serving /\ waiting > 0
    /\ server' = "idle" /\ waiting' = waiting - 1
    /\ UNCHANGED <<mainVars, polling, serving, pollVars, sampleLock, clientLock,
                   connected, frame, reads>>

RunEnds ==
    /\ server = "accept" /\ ~serving
    /\ server' = "exited"
    /\ UNCHANGED <<mainVars, polling, serving, pollVars, sampleLock, clientLock,
                   connected, waiting, frame, reads>>

(* The first byte has come: receiveExact waits for the rest of the frame,   *)
(* without a timeout.                                                       *)
FrameBegins ==
    /\ server = "idle" /\ frame \in {"part", "whole"}
    /\ server' = "frame"
    /\ UNCHANGED <<mainVars, polling, serving, pollVars, sampleLock, clientLock,
                   connected, waiting, frame, reads>>

(* The request is carried out and its answer goes to sendAll.  A client     *)
(* that sends requests without reading the answers has filled the buffers.  *)
TakeRequest ==
    /\ server = "frame" /\ frame = "whole"
    /\ server' = "answer" /\ frame' = "none" /\ reads' \in BOOLEAN
    /\ UNCHANGED <<mainVars, polling, serving, pollVars, sampleLock, clientLock,
                   connected, waiting>>

(* sendAll waits, without a timeout, until the client takes the answer.     *)
(* running_ is read again after it.                                         *)
Answer ==
    /\ server = "answer" /\ reads /\ serving
    /\ server' = "idle" /\ reads' = TRUE
    /\ UNCHANGED <<mainVars, polling, serving, pollVars, sampleLock, clientLock,
                   connected, waiting, frame>>

(* Faulty variant: an idle connection outlives the server's end.            *)
HandleClientEndsLate ==
    \/ server = "idle" /\ frame = "gone"
    \/ server = "frame" /\ frame \in {"whole", "gone"}
    \/ server = "answer" /\ (frame = "gone" \/ (reads /\ ~serving))

(* Faulty variant: a client that hangs up between frames is not noticed.    *)
HandleClientEndsInFrame ==
    \/ server = "idle" /\ ~serving
    \/ server = "frame" /\ frame \in {"whole", "gone"}
    \/ server = "answer" /\ (frame = "gone" \/ (reads /\ ~serving))

(* handleClient returns when it sees the server stopped, between two waits  *)
(* or after an answer, when the client hangs up, when the header is not     *)
(* Modbus and when the answer cannot be sent.                               *)
HandleClientEnds ==
    \/ server = "idle" /\ (~serving \/ frame = "gone")
    \/ server = "frame" /\ frame \in {"whole", "gone"}
    \/ server = "answer" /\ (frame = "gone" \/ (reads /\ ~serving))

CloseClient ==
    /\ HandleClientEnds
    /\ server' = "accept" /\ frame' = "none" /\ reads' = TRUE
    /\ UNCHANGED <<mainVars, polling, serving, pollVars, sampleLock, clientLock,
                   connected, waiting>>

ServerStep ==
    \/ Accept \/ RunEnds \/ FrameBegins \/ TakeRequest \/ Answer \/ CloseClient

-----------------------------------------------------------------------------
(* The surroundings.                                                        *)

Signal ==
    /\ running /\ running' = FALSE
    /\ UNCHANGED <<main, shown, journaled, published, polling, serving,
                   pollVars, sampleLock, clientLock, connected, serverVars>>

LinkChanges ==
    /\ poller # "exited"
    /\ link' \in {"good", "bad"}
    /\ UNCHANGED <<mainVars, polling, serving, poller, sample, sampleLock,
                   clientLock, connected, serverVars>>

(* onConnect, with or without success, and onDisconnect.                    *)
MqttCallback ==
    /\ main # "exited"
    /\ connected' \in BOOLEAN
    /\ UNCHANGED <<mainVars, polling, serving, pollVars, sampleLock, clientLock,
                   serverVars>>

ClientConnects ==
    /\ serving /\ waiting < Backlog
    /\ waiting' = waiting + 1
    /\ UNCHANGED <<mainVars, polling, serving, pollVars, sampleLock, clientLock,
                   connected, server, frame, reads>>

(* The current client sends the beginning of a request, the rest of it, or  *)
(* hangs up.  What it sends ahead counts once the answer before is out.     *)
ClientSends ==
    /\ server \in {"idle", "frame", "answer"}
    /\ \/ server = "idle" /\ frame = "none" /\ frame' = "part"
       \/ frame = "part" /\ frame' = "whole"
       \/ frame # "gone" /\ frame' = "gone"
    /\ UNCHANGED <<mainVars, polling, serving, pollVars, sampleLock, clientLock,
                   connected, server, waiting, reads>>

(* A client that has not read takes the answer after all.                   *)
ClientReads ==
    /\ ~reads /\ frame = "none" /\ reads' = TRUE
    /\ UNCHANGED <<mainVars, polling, serving, pollVars, sampleLock, clientLock,
                   connected, server, waiting, frame>>

Surroundings ==
    \/ Signal \/ LinkChanges \/ MqttCallback \/ ClientConnects \/ ClientSends
    \/ ClientReads

GatewayNext == MainStep \/ PollerStep \/ ServerStep \/ Surroundings

(* Every thread runs, and one that waits for a mutex gets it if it is       *)
(* released again and again; every read from the node ends, by an answer or *)
(* a timeout.  What is due comes due, and a message or a record that is     *)
(* tried again and again is taken some time.                                *)
GatewayFairness ==
    /\ SF_gatewayVars(MainStep) /\ SF_gatewayVars(PollerStep)
    /\ WF_gatewayVars(ServerStep)
    /\ SF_gatewayVars(PublishTelemetry) /\ SF_gatewayVars(WriteSnapshot)

GatewaySpec == GatewayInit /\ [][GatewayNext]_gatewayVars

FairGatewaySpec == GatewaySpec /\ GatewayFairness

-----------------------------------------------------------------------------
(* Properties.                                                              *)

(* When main() returns, and destroys what the threads use, they have ended; *)
(* and no thread uses the node's socket when stop() closes it.              *)
JoinedBeforeEnd ==
    /\ main \in {"stopServer", "joinServer", "exited"} => poller = "exited"
    /\ main = "exited" => server = "exited"

(* The loop that refreshes the cabinet's heartbeat goes on, although        *)
(* pollNode holds the sample lock during two network reads.                 *)
MainKeepsTicking == running ~> ~running \/ main = "sleep"

(* A node that stays unreachable is shown offline in the registers, in the  *)
(* telemetry and in the journal, also when the record of the transition or  *)
(* a message was lost, as long as the service runs and MQTT is connected.   *)
OutageReported ==
    <>[](link = "bad" /\ running /\ connected) =>
        <>[](shown = "offline" /\ published = "offline" /\ journaled = "offline")

(* The worker waits for the client it handles: for the rest of a request   *)
(* in receiveExact, or in sendAll for a client that does not read.          *)
HeldByClient ==
    \/ server = "frame" /\ frame = "part"
    \/ server = "answer" /\ ~reads

(* After a signal the service ends, unless a client holds the northbound    *)
(* worker for ever: neither receiveExact nor sendAll has a timeout, and     *)
(* stop() joins the worker.                                                 *)
StopEnds ==
    ~running ~> main = "exited" \/ [](main = "joinServer" /\ HeldByClient)

(* A client that waits is served once the client before it has hung up.     *)
WaitingIsServed ==
    waiting > 0 ~> waiting = 0 \/ (server # "accept" /\ frame # "gone")
=============================================================================
