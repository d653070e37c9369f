---------------------------- MODULE MCOtaUpdate ----------------------------
(***************************************************************************)
(* Small instances of the firmware update.                                 *)
(***************************************************************************)
EXTENDS OtaUpdate

(* A file within the limit and one past it, of which a mixture can be sent. *)
MCStagedFiles == {<<"a", "b">>, <<"b", "a", "b">>}

MCFactory == <<"f">>

FromPi == [c \in Clients |-> "pi"]
=============================================================================
