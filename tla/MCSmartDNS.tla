----------------------------- MODULE MCSmartDNS -----------------------------
(* SmartDNS on small instances. *)
EXTENDS SmartDNS

\* Chains of up to three names, one into another and back, with direct addresses
\* everywhere and additional records everywhere or nowhere.
MCReplies ==
  {m \in [alias : [Names -> Names \cup {NoName}], direct : {Names},
          local : {{}}, extra : {{}, Names}, signed : {TRUE}] :
     m.alias["b"] # "b" /\ m.alias["c"] \in {"a", NoName}}

\* From the one to the other b gains its protection and a loses it.
MCTables == {{"a"}, {"b", "c"}}
=============================================================================
