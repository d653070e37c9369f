---------------------------- MODULE MCEdgeService ----------------------------
(***************************************************************************)
(* Small instances of the control path.                                    *)
(***************************************************************************)
EXTENDS EdgeService

Ready == [faulted |-> FALSE, gridTied |-> TRUE, currentSource |-> TRUE]
Faulted == [Ready EXCEPT !.faulted = TRUE]
OffGrid == [Ready EXCEPT !.gridTied = FALSE]

Wide == [maxCharge |-> 1, maxDischarge |-> 2, socInRange |-> TRUE,
         chargeProhibited |-> FALSE, dischargeProhibited |-> FALSE]
NoDischarge == [Wide EXCEPT !.dischargeProhibited = TRUE]
BadSoc == [Wide EXCEPT !.socInRange = FALSE]

(* An enabled and a disabled command, under different sequence numbers.     *)
Commands == {[sequence |-> 1, heartbeat |-> 0, power |-> 2, enable |-> 1],
             [sequence |-> 0, heartbeat |-> 0, power |-> 2, enable |-> 0]}

(* The same command refreshed by its heartbeat alone.                       *)
Heartbeats == {[sequence |-> 1, heartbeat |-> h, power |-> -1, enable |-> 1] :
                   h \in {0, 1}}

(* One charging command.                                                    *)
Charge == {[sequence |-> 1, heartbeat |-> 0, power |-> -1, enable |-> 1]}

Request(sequence, mask, run, lower, upper) ==
    [sequence |-> sequence, mask |-> mask, run |-> run, reactive |-> 1,
     lower |-> lower, upper |-> upper, key |-> TRUE]

(* A stop and a start, each with a window of charge that shares only a      *)
(* bound with the other's, and two requests that must be refused.           *)
Requests ==
    {Request(1, {"RunState", "SocLimits", "ReactivePower"}, 0, 1, 2),
     Request(0, {"RunState", "SocLimits"}, 1, 0, 1),
     [Request(1, {"RunState"}, 0, 0, 1) EXCEPT !.key = FALSE],
     Request(0, {"Other"}, 0, 0, 1)}

StopRequests == {Request(1, {"RunState"}, 0, 0, 0)}

(* A second one behind it, which must be refused.                           *)
TwoRequests ==
    StopRequests \cup
        {[Request(2, {"RunState"}, 0, 0, 0) EXCEPT !.key = FALSE]}

MCStatuses == {Ready, Faulted}
MCReports == {Wide, NoDischarge}
OneStatus == {Ready}
OneReport == {Wide}
TwoReports == {Wide, BadSoc}
NoRequests == {}
=============================================================================
