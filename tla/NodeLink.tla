------------------------------ MODULE NodeLink ------------------------------
(***************************************************************************)
(* The Modbus TCP connection between the ROCK Pi and a node: exchanges of  *)
(* PosixModbusTcpClient, which gives up after a timeout and reconnects,    *)
(* and EthernetControlServer, which serves one client at a time and puts   *)
(* frames together from what arrives.                                      *)
(*                                                                         *)
(* A request comes in two parts, as TCP may deliver it.  TCP is external:  *)
(* what is sent on a connection arrives in order or not at all, and an end *)
(* that is closed is seen at the other one, unless the network or the      *)
(* power failed: then the node keeps a connection that nobody uses.  What  *)
(* the registers hold is in NodeCommand.                                   *)
(***************************************************************************)
EXTENDS Naturals, Sequences

CONSTANTS
    Connections,      \* connections that exist at a time at most
    Transactions,     \* 2^16, the range of transactionId_
    Kinds             \* "known" and "unknown": does the node have the registers?

NoConnection == "none"

ASSUME LinkAssumption ==
    /\ Transactions \in Nat \ {0} /\ Kinds \subseteq {"known", "unknown"}
    /\ NoConnection \notin Connections

VARIABLES
    socket,             \* socket_ of the client
    transactionId,      \* transactionId_ of the client
    exchange,           \* what it waits for: "idle", "known" or "unknown"
    outcome,            \* how the last exchange ended
    backlog,            \* connections the node has not accepted yet
    client,             \* client_ of the server
    rx,                 \* rx_ of the server: parts of requests
    allowed,            \* is the ROCK Pi's address the configured one?
    restartRequested,   \* restartControlRequested of the node
    ended,              \* connections the node knows to be closed
    up,                 \* parts of requests on each connection
    down,               \* answers on each connection
    calm                \* nothing fails or is configured for now

clientVars == <<socket, transactionId, exchange, outcome>>
serverVars == <<backlog, client, rx, allowed, restartRequested>>
networkVars == <<ended, up, down>>
linkVars == <<clientVars, serverVars, networkVars, calm>>

Held(c) == c = client \/ \E i \in DOMAIN backlog : backlog[i] = c
Free(c) == c # socket /\ ~Held(c)

(* "fresh": it belongs to the exchange under way.                           *)
Parts == [transaction : 0 .. Transactions - 1, kind : Kinds, part : {1, 2},
          fresh : BOOLEAN]
Answers == [transaction : 0 .. Transactions - 1, kind : Kinds, fresh : BOOLEAN]

(* Every variable has its type, and rx_ never holds parts of two requests.  *)
LinkTypeOK ==
    /\ {socket, client} \subseteq Connections \cup {NoConnection}
    /\ transactionId \in 0 .. Transactions - 1
    /\ exchange \in Kinds \cup {"idle"}
    /\ outcome \in {"none", "answered", "refused", "failed"}
    /\ backlog \in Seq(Connections)
    /\ rx \in Seq(Parts) /\ Len(rx) <= 2
    /\ \A i \in DOMAIN rx : rx[i] = [rx[1] EXCEPT !.part = i]
    /\ {allowed, restartRequested, calm} \subseteq BOOLEAN
    /\ ended \subseteq Connections
    /\ up \in [Connections -> Seq(Parts)] /\ down \in [Connections -> Seq(Answers)]

LinkInit ==
    /\ socket = NoConnection /\ transactionId = 0 /\ exchange = "idle"
    /\ outcome = "none"
    /\ backlog = <<>> /\ client = NoConnection /\ rx = <<>>
    /\ allowed \in BOOLEAN /\ restartRequested = FALSE
    /\ ended = {} /\ calm = TRUE
    /\ up = [c \in Connections |-> <<>>] /\ down = [c \in Connections |-> <<>>]

-----------------------------------------------------------------------------
(* PosixModbusTcpClient.  A caller holds its lock during an exchange.       *)

(* connectLocked.  A node that does not answer leaves outcome "failed".     *)
ConnectLocked ==
    /\ exchange = "idle" /\ socket = NoConnection
    /\ \/ /\ \E c \in Connections : Free(c)
          /\ socket' = CHOOSE c \in Connections : Free(c)
          /\ backlog' = Append(backlog, socket') /\ UNCHANGED outcome
       \/ /\ calm => \A c \in Connections : ~Free(c)
          /\ outcome' = "failed" /\ UNCHANGED <<socket, backlog>>
    /\ UNCHANGED <<transactionId, exchange, client, rx, allowed,
                   restartRequested, networkVars, calm>>

(* transactLocked, up to the request that is sent.                          *)
Transact(kind) ==
    /\ exchange = "idle" /\ socket # NoConnection
    /\ exchange' = kind
    /\ transactionId' = (transactionId + 1) % Transactions
    /\ LET Part(n) == [transaction |-> transactionId', kind |-> kind,
                       part |-> n, fresh |-> TRUE]
       IN  up' = IF Held(socket)
                 THEN [up EXCEPT ![socket] = @ \o <<Part(1), Part(2)>>]
                 ELSE up
    /\ UNCHANGED <<socket, outcome, serverVars, ended, down, calm>>

Stale(items) == [i \in DOMAIN items |-> [items[i] EXCEPT !.fresh = FALSE]]

(* The exchange is over: nothing under way belongs to it any more.          *)
EndExchange(how) ==
    /\ exchange' = "idle" /\ outcome' = how
    /\ rx' = Stale(rx)

(* disconnectLocked.  The node learns of it, unless something fails; then   *)
(* the rest of what was sent may be lost too.                               *)
DisconnectLocked ==
    /\ socket' = NoConnection
    /\ \E lost \in BOOLEAN, n \in 0 .. Len(up[socket]) :
           /\ lost => ~calm
           /\ ~lost => n = Len(up[socket])
           /\ ended' = IF lost \/ ~Held(socket) THEN ended
                       ELSE ended \cup {socket}
           /\ up' = [c \in Connections |->
                  IF c = socket THEN SubSeq(Stale(up[c]), 1, n)
                  ELSE Stale(up[c])]
    /\ down' = [down EXCEPT ![socket] = <<>>]

(* Does the current request, or its answer, still get on?  While nothing    *)
(* fails the node answers within the timeout if it can.                     *)
Ghost == client # NoConnection /\ client # socket /\ client \notin ended

Fresh(items) == \E i \in DOMAIN items : items[i].fresh

WillAnswer ==
    /\ calm
    /\ \/ Fresh(down[socket])
       \/ client = socket /\ (Fresh(rx) \/ Fresh(up[socket]))
       \/ client # socket /\ Held(socket) /\ Fresh(up[socket]) /\ ~Ghost

(* Faulty variant: the connection is used again after a timeout.            *)
FailKeepsSocket ==
    /\ exchange # "idle" /\ ~WillAnswer
    /\ EndExchange("failed")
    /\ up' = [c \in Connections |-> Stale(up[c])]
    /\ down' = [c \in Connections |-> Stale(down[c])]
    /\ UNCHANGED <<socket, transactionId, backlog, client, allowed,
                   restartRequested, ended, calm>>

(* sendAll or receiveAll fails, or its timeout has passed.                  *)
Fail ==
    /\ exchange # "idle" /\ ~WillAnswer
    /\ EndExchange("failed") /\ DisconnectLocked
    /\ UNCHANGED <<transactionId, backlog, client, allowed, restartRequested,
                   calm>>

(* An answer has come.  One with another transaction number ends the        *)
(* connection, an exception does not.                                       *)
ReceiveAnswer ==
    /\ exchange # "idle" /\ down[socket] # <<>>
    /\ LET answer == Head(down[socket])
       IN  IF answer.transaction = transactionId
           THEN /\ EndExchange(IF answer.kind = "known" THEN "answered"
                               ELSE "refused")
                /\ down' = [down EXCEPT ![socket] = Stale(Tail(@))]
                /\ up' = [c \in Connections |-> Stale(up[c])]
                /\ UNCHANGED <<socket, ended>>
           ELSE EndExchange("failed") /\ DisconnectLocked
    /\ UNCHANGED <<transactionId, backlog, client, allowed, restartRequested,
                   calm>>

(* The service ends, and its kernel closes the connection; it may be        *)
(* started again.                                                           *)
ServiceEnds ==
    /\ ~calm /\ socket # NoConnection
    /\ EndExchange("none") /\ transactionId' = 0 /\ DisconnectLocked
    /\ UNCHANGED <<backlog, client, allowed, restartRequested, calm>>

-----------------------------------------------------------------------------
(* EthernetControlServer.                                                   *)

(* client_.stop(): what the client has sent and was not read is gone.       *)
Dropped(gone) ==
    /\ up' = [c \in Connections |-> IF c \in gone THEN <<>> ELSE up[c]]
    /\ ended' = ended \ gone

(* A frame that is complete is handled before loop() goes on.               *)
FramesDone == Len(rx) < 2

(* Faulty variant: a connection that has ended still counts.                *)
HasClientEver == client # NoConnection

HasClient == client # NoConnection /\ client \notin ended

(* Faulty variant: rx_ is not cleared for a new client.                     *)
RxForNewClientKept == rx

RxForNewClient == <<>>

(* acceptClient.                                                            *)
AcceptClient ==
    /\ FramesDone /\ ~HasClient /\ backlog # <<>>
    /\ backlog' = Tail(backlog)
    /\ IF allowed
       THEN /\ client' = Head(backlog) /\ rx' = RxForNewClient
            /\ Dropped({client} \cap Connections)
       ELSE /\ client' = NoConnection /\ UNCHANGED rx
            /\ Dropped({client, Head(backlog)} \cap Connections)
    /\ UNCHANGED <<clientVars, allowed, restartRequested, down, calm>>

(* acceptClient, when nobody waits.                                         *)
StopClient ==
    /\ FramesDone /\ client # NoConnection /\ ~HasClient /\ backlog = <<>>
    /\ client' = NoConnection /\ Dropped({client})
    /\ UNCHANGED <<clientVars, backlog, rx, allowed, restartRequested, down,
                   calm>>

(* The bytes that are there are read.                                       *)
ReadPart ==
    /\ FramesDone /\ client # NoConnection /\ up[client] # <<>>
    /\ rx' = Append(rx, Head(up[client]))
    /\ up' = [up EXCEPT ![client] = Tail(@)]
    /\ UNCHANGED <<clientVars, backlog, client, allowed, restartRequested,
                   ended, down, calm>>

(* processFrames and handle.  An answer to a connection that is closed at   *)
(* the other end brings back its reset.                                     *)
ProcessFrames ==
    /\ client # NoConnection /\ Len(rx) = 2
    /\ rx' = <<>>
    /\ IF client = socket
       THEN /\ down' = [down EXCEPT ![socket] =
                    Append(@, [transaction |-> rx[1].transaction,
                               kind |-> rx[1].kind, fresh |-> rx[1].fresh])]
            /\ UNCHANGED ended
       ELSE ended' = ended \cup {client} /\ UNCHANGED down
    /\ UNCHANGED <<clientVars, backlog, client, allowed, restartRequested, up,
                   calm>>

(* A second has passed since the last byte.                                 *)
RxTimeout ==
    /\ client # NoConnection /\ Len(rx) = 1
    /\ calm => up[client] = <<>>
    /\ rx' = <<>> /\ client' = NoConnection /\ Dropped({client})
    /\ UNCHANGED <<clientVars, backlog, allowed, restartRequested, down, calm>>

(* restart, which loop() calls after an Ethernet event.                     *)
RestartControl ==
    /\ FramesDone /\ restartRequested
    /\ restartRequested' = FALSE
    /\ client' = NoConnection /\ rx' = <<>> /\ backlog' = <<>>
    /\ Dropped(Connections)
    /\ UNCHANGED <<clientVars, allowed, down, calm>>

(* setRockPiAddress: rx_ stays, until the next client is accepted.          *)
SetRockPiAddress ==
    /\ ~calm /\ FramesDone /\ allowed' \in BOOLEAN
    /\ client' = NoConnection /\ Dropped({client} \cap Connections)
    /\ UNCHANGED <<clientVars, backlog, rx, restartRequested, down, calm>>

-----------------------------------------------------------------------------
(* What fails.                                                              *)

CalmChanges ==
    /\ calm' = ~calm
    /\ UNCHANGED <<clientVars, serverVars, networkVars>>

(* The node sees its Ethernet link come or go.                              *)
EthernetEvent ==
    /\ ~calm /\ restartRequested' = TRUE
    /\ UNCHANGED <<clientVars, backlog, client, rx, allowed, networkVars, calm>>

NodeReset ==
    /\ ~calm
    /\ client' = NoConnection /\ rx' = <<>> /\ backlog' = <<>>
    /\ restartRequested' = FALSE
    /\ Dropped(Connections)
    /\ UNCHANGED <<clientVars, allowed, down, calm>>

-----------------------------------------------------------------------------
ClientStep ==
    \/ ConnectLocked \/ \E kind \in Kinds : Transact(kind)
    \/ ReceiveAnswer \/ Fail

ServerStep ==
    \/ AcceptClient \/ StopClient \/ ReadPart \/ ProcessFrames \/ RxTimeout
    \/ RestartControl

LinkNext ==
    \/ ClientStep \/ ServiceEnds \/ ServerStep
    \/ SetRockPiAddress \/ CalmChanges \/ EthernetEvent \/ NodeReset

(* The polling thread goes on, and so does the node's loop.                 *)
LinkFairness == WF_linkVars(ClientStep) /\ WF_linkVars(ServerStep)

LinkSpec == LinkInit /\ [][LinkNext]_linkVars

FairLinkSpec == LinkSpec /\ LinkFairness

-----------------------------------------------------------------------------
(* Properties.                                                              *)

LateRequest(items) == \E i \in DOMAIN items : items[i].part = 2 /\ ~items[i].fresh

(* While a request is under way, its answer is all that is left of it once  *)
(* the node has handled it.                                                 *)
Line == INSTANCE DeliveryLine WITH
    late <- LateRequest(rx) \/ \E c \in Connections : LateRequest(up[c]),
    now <- IF exchange = "idle" THEN "idle"
           ELSE IF Fresh(down[socket]) THEN "handled" ELSE "sent",
    success <- outcome = "answered"

(* Through timeouts, reconnections, lost and late parts and restarts of     *)
(* both ends, an exchange succeeds only if the node has handled this very   *)
(* request, although transaction numbers come again, and no request that    *)
(* was given up is handled after a newer one.                               *)
LinkIsLine == Line!LineSpec

(* Once nothing fails any more and the source is the right one, no exchange *)
(* fails, unless the node keeps a connection whose end it never saw: it     *)
(* accepts no other, and a client that is silent is never given up.         *)
ServedAgain ==
    <>[](calm /\ allowed) => <>[](outcome # "failed") \/ <>[]Ghost
=============================================================================
