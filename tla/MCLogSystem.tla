----------------------------- MODULE MCLogSystem -----------------------------
(* Small instances of LogSystem. *)
EXTENDS LogSystem

Both == {TRUE, FALSE}
Keep == {TRUE}
=============================================================================
