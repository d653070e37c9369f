---------------------------- MODULE MCNodeCommand ----------------------------
(***************************************************************************)
(* Small instances of the node command path.                               *)
(***************************************************************************)
EXTENDS NodeCommand

NodeRequest(sequence, power, enable, ttl) ==
    [sequence |-> sequence, power |-> power, enable |-> enable, ttl |-> ttl,
     target |-> TRUE, key |-> TRUE]

(* Two commands that share a sequence number, a command that ends them, and *)
(* four requests that must not reach the device: disabled, with a time to   *)
(* live past the limit, without the key and for another node.               *)
MCNodeWrites ==
    {NodeRequest(1, 1, 1, 2), NodeRequest(1, 1, 1, 1), NodeRequest(2, -1, 1, 1),
     NodeRequest(2, 2, 0, 1), NodeRequest(2, 2, 1, MaxTtl + 1),
     [NodeRequest(2, 2, 1, 1) EXCEPT !.key = FALSE],
     [NodeRequest(2, 2, 1, 1) EXCEPT !.target = FALSE]}

EnableThenDisable == {NodeRequest(1, 1, 1, 1), NodeRequest(2, 0, 0, 1)}

-----------------------------------------------------------------------------
(* base-rockpie/README.md:47-48: the node "forces 0 kW when the TTL         *)
(* expires".  The device holds a power other than zero no longer than the   *)
(* longest time to live and one iteration of the loop.                      *)
OutputExpires == device # 0 => age <= MaxTtl + MaxNodeLoop
=============================================================================
