---------------------------- MODULE DeliveryLine ----------------------------
(***************************************************************************)
(* What a gateway may rely on when it exchanges requests with a node: an   *)
(* exchange succeeds only after the node has handled its request, and a    *)
(* request that was given up is handled late or never, but not after a     *)
(* newer one.                                                              *)
(***************************************************************************)
VARIABLES
    late,       \* can a request that was given up still be handled?
    now,        \* the current exchange: "idle", "sent" or "handled"
    success     \* did the last exchange succeed?

lineVars == <<late, now, success>>

LineInit == late = FALSE /\ now = "idle" /\ success = FALSE

BeginExchange == now = "idle" /\ now' = "sent" /\ UNCHANGED <<late, success>>

(* The node cannot be reached.                                              *)
NoExchange == now = "idle" /\ ~success' /\ UNCHANGED <<late, now>>

(* The last of the given-up requests is handled or lost.                    *)
LateEnds == late /\ ~late' /\ UNCHANGED <<now, success>>

Handle == now = "sent" /\ now' = "handled" /\ ~late' /\ UNCHANGED success

GiveUp ==
    /\ now # "idle" /\ now' = "idle" /\ ~success'
    /\ late' => late \/ now = "sent"

Succeed == now = "handled" /\ now' = "idle" /\ success' /\ UNCHANGED late

LineNext ==
    \/ BeginExchange \/ NoExchange \/ LateEnds \/ Handle \/ GiveUp \/ Succeed

LineSpec == LineInit /\ [][LineNext]_lineVars
=============================================================================
