----------------------------- MODULE MCExchange -----------------------------
(***************************************************************************)
(* Exchange for TLC: two clients, of which one wants both blocks and the   *)
(* other one of them.                                                      *)
(***************************************************************************)
EXTENDS Exchange

CONSTANTS a, b, x, y

MCWanted == {<<a, x>>, <<a, y>>, <<b, y>>}

=============================================================================
