----------------------------- MODULE BoundedLog -----------------------------
(***************************************************************************)
(* What a bounded durable log promises to those who append to it: entries  *)
(* are numbered without gaps, kept in the order of their acknowledgement,  *)
(* and forgotten oldest first.  Numbers start again with the process.      *)
(***************************************************************************)
EXTENDS Naturals, Sequences

VARIABLES
    log,      \* numbers of the acknowledged entries that are still kept
    last      \* number of the last acknowledged entry

logVars == <<log, last>>

LogInit == log = <<>> /\ last = 0

Add ==
    /\ last' = last + 1
    /\ log' = Append(log, last + 1)

Forget ==
    /\ \E n \in 1 .. Len(log) : log' = SubSeq(log, n + 1, Len(log))
    /\ UNCHANGED last

RestartLog == last' = 0 /\ UNCHANGED log

LogNext == Add \/ Forget \/ RestartLog

LogSpec == LogInit /\ [][LogNext]_logVars
=============================================================================
