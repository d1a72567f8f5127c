--------------------------- MODULE MCReconfigure ---------------------------
(* Reconfigure on small instances. *)
EXTENDS Reconfigure

U(url) == [url |-> url, fallback |-> FALSE]
F(url) == [url |-> url, fallback |-> TRUE]

MCDefault == <<U("a")>>
MCConfs == {Missing, <<U("a")>>, <<U("a"), F("b")>>, <<U("a"), U("b")>>}
Twice == {<<U("a"), F("a")>>}
=============================================================================
