--------------------------- MODULE GatewayProofs ---------------------------
(***************************************************************************)
(* Proofs about the threads of the ROCK Pi service: which thread holds     *)
(* which lock, and that main() returns only after the threads it started.  *)
(***************************************************************************)
EXTENDS GatewayThreads, TLAPS

GatewayInv == GatewayTypeOK /\ JoinedBeforeEnd

LEMMA GatewayInitInv == GatewayInit => GatewayInv
<1> SUFFICES ASSUME GatewayInit PROVE GatewayInv
  OBVIOUS
<1>1. {running, polling, serving, connected, reads} \subseteq BOOLEAN
  BY Zenon DEF GatewayInit
<1> QED
  BY <1>1, GatewayAssumption
     DEF GatewayInit, GatewayInv, GatewayTypeOK, JoinedBeforeEnd, Statuses,
         Threads, Nobody

(* Each step of the main loop keeps the invariant: it takes the lock of the *)
(* client only when nobody has it and gives it back in the next step.       *)
LEMMA MainInv == GatewayInv /\ MainStep => GatewayInv'
<1> SUFFICES ASSUME GatewayInv, MainStep PROVE GatewayInv'
  OBVIOUS
<1> USE DEF GatewayInv, GatewayTypeOK, JoinedBeforeEnd, Main, Statuses,
        Threads, Nobody, serverVars, pollVars
<1>1. CASE NoNodeCommand
  BY <1>1 DEF NoNodeCommand
<1>2. CASE BeginNodeCommand
  BY <1>2 DEF BeginNodeCommand
<1>3. CASE EndNodeCommand
  BY <1>3 DEF EndNodeCommand
<1>4. CASE CopySamples
  BY <1>4 DEF CopySamples
<1>5. ASSUME NEW sent \in BOOLEAN, NEW written \in BOOLEAN,
             Report(sent, written)
      PROVE  GatewayInv'
  BY <1>5 DEF Report
<1>6. CASE Sleep
  BY <1>6 DEF Sleep
<1>7. CASE StopPolling
  BY <1>7 DEF StopPolling
<1>8. CASE JoinPolling
  BY <1>8 DEF JoinPolling, PollerEnded
<1>9. CASE StopServer
  <2>1. {running, polling, serving, connected, reads}' \subseteq BOOLEAN
    BY <1>9, Zenon DEF StopServer
  <2> QED
    BY <1>9, <2>1, GatewayAssumption DEF StopServer
<1>10. CASE JoinServer
  BY <1>10 DEF JoinServer
<1> QED
  BY <1>1, <1>2, <1>3, <1>4, <1>5, <1>6, <1>7, <1>8, <1>9, <1>10 DEF MainStep

(* Each step of the polling thread keeps it: the sample lock is taken after *)
(* the identity and given back on every way out of the cycle.               *)
LEMMA PollerInv == GatewayInv /\ PollerStep => GatewayInv'
<1> SUFFICES ASSUME GatewayInv, PollerStep PROVE GatewayInv'
  OBVIOUS
<1> USE DEF GatewayInv, GatewayTypeOK, JoinedBeforeEnd, Poll, BeginRead,
        EndRead, Statuses, Threads, Nobody, serverVars, mainVars
<1>1. CASE BeginIdentity
  BY <1>1 DEF BeginIdentity
<1>2. CASE EndIdentity
  BY <1>2 DEF EndIdentity
<1>3. CASE Reject
  BY <1>3 DEF Reject
<1>4. CASE LockSample
  BY <1>4 DEF LockSample
<1>5. CASE BeginTelemetry
  BY <1>5 DEF BeginTelemetry
<1>6. CASE EndTelemetry
  BY <1>6 DEF EndTelemetry
<1>7. CASE TelemetryFails
  BY <1>7 DEF TelemetryFails
<1>8. CASE BeginHealth
  BY <1>8 DEF BeginHealth
<1>9. CASE EndHealth
  BY <1>9 DEF EndHealth
<1>10. CASE NextCycle
  BY <1>10 DEF NextCycle
<1> QED
  BY <1>1, <1>2, <1>3, <1>4, <1>5, <1>6, <1>7, <1>8, <1>9, <1>10
     DEF PollerStep

(* Each step of the server's worker keeps it: it ends only between clients. *)
LEMMA ServerInv == GatewayInv /\ ServerStep => GatewayInv'
<1> SUFFICES ASSUME GatewayInv, ServerStep PROVE GatewayInv'
  OBVIOUS
<1> USE GatewayAssumption
    DEF GatewayInv, GatewayTypeOK, JoinedBeforeEnd, pollVars, mainVars
<1>1. CASE Accept
  BY <1>1 DEF Accept
<1>2. CASE RunEnds
  BY <1>2 DEF RunEnds
<1>3. CASE FrameBegins
  BY <1>3 DEF FrameBegins
<1>4. CASE TakeRequest
  BY <1>4 DEF TakeRequest
<1>5. CASE Answer
  BY <1>5 DEF Answer
<1>6. CASE CloseClient
  BY <1>6 DEF CloseClient, HandleClientEnds
<1> QED
  BY <1>1, <1>2, <1>3, <1>4, <1>5, <1>6 DEF ServerStep

(* The surroundings keep it.                                                *)
LEMMA SurroundingsInv == GatewayInv /\ Surroundings => GatewayInv'
<1> SUFFICES ASSUME GatewayInv, Surroundings PROVE GatewayInv'
  OBVIOUS
<1> USE GatewayAssumption
    DEF GatewayInv, GatewayTypeOK, JoinedBeforeEnd, pollVars, mainVars,
        serverVars
<1>1. CASE Signal
  <2>1. {running, polling, serving, connected, reads}' \subseteq BOOLEAN
    BY <1>1, Zenon DEF Signal
  <2> QED
    BY <1>1, <2>1 DEF Signal
<1>2. CASE LinkChanges
  BY <1>2 DEF LinkChanges
<1>3. CASE MqttCallback
  BY <1>3 DEF MqttCallback
<1>4. CASE ClientConnects
  BY <1>4 DEF ClientConnects
<1>5. CASE ClientSends
  BY <1>5 DEF ClientSends
<1>6. CASE ClientReads
  BY <1>6 DEF ClientReads
<1> QED
  BY <1>1, <1>2, <1>3, <1>4, <1>5, <1>6 DEF Surroundings

LEMMA GatewayInvariant == GatewaySpec => []GatewayInv
<1>1. GatewayInv /\ [GatewayNext]_gatewayVars => GatewayInv'
  <2> SUFFICES ASSUME GatewayInv, [GatewayNext]_gatewayVars
               PROVE  GatewayInv'
    OBVIOUS
  <2>1. CASE UNCHANGED gatewayVars
    BY <2>1 DEF GatewayInv, GatewayTypeOK, JoinedBeforeEnd, gatewayVars,
                mainVars, pollVars, serverVars
  <2> QED
    BY <2>1, MainInv, PollerInv, ServerInv, SurroundingsInv DEF GatewayNext
<1> QED
  BY <1>1, GatewayInitInv, PTL DEF GatewaySpec

(* Each mutex of the ROCK Pi service is held by the thread that the code    *)
(* shows holding it, on every path through pollNode, the failed reads and   *)
(* the rejected identity included, and through applyPowerCommand.           *)
THEOREM GatewayTypes == GatewaySpec => []GatewayTypeOK
<1>1. GatewayInv => GatewayTypeOK
  BY DEF GatewayInv
<1> QED
  BY <1>1, GatewayInvariant, PTL

(* main() destroys the polling service and the server only after their      *)
(* threads have ended, wherever they are when the signal comes.             *)
THEOREM JoinedBeforeEndSafe == GatewaySpec => []JoinedBeforeEnd
<1>1. GatewayInv => JoinedBeforeEnd
  BY DEF GatewayInv
<1> QED
  BY <1>1, GatewayInvariant, PTL
=============================================================================
