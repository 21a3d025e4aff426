---------------------------- MODULE MCKadLookup ----------------------------
(* Four contacts, two of them on one host. *)
EXTENDS KadLookup

Hosts == <<"h1", "h2", "h3", "h3">>
=============================================================================
