------------------------------ MODULE MCDriver ------------------------------
(***************************************************************************)
(* The driver alone, called in any order by an arbitrary client.           *)
(***************************************************************************)
EXTENDS SunStoragePro261Driver

Ready == [faulted |-> FALSE, gridTied |-> TRUE, currentSource |-> TRUE]

MCStatuses == {Ready, [Ready EXCEPT !.faulted = TRUE]}

Wide == [maxCharge |-> 2, maxDischarge |-> 1, socInRange |-> TRUE,
         chargeProhibited |-> FALSE, dischargeProhibited |-> FALSE]

MCReports == {Wide,
              [Wide EXCEPT !.maxCharge = 1, !.dischargeProhibited = TRUE],
              [Wide EXCEPT !.maxDischarge = -1]}
=============================================================================
