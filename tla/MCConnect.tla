----------------------------- MODULE MCConnect -----------------------------
(* Connect on small instances. *)
EXTENDS Connect

TwoZones == {<<"a", "b">>, <<"c", "a">>}
=============================================================================
