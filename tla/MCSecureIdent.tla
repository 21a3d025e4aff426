---------------------------- MODULE MCSecureIdent ----------------------------
(* Two peers claim the userhash of the owner of k1 on connections we accepted: *)
(* on connection 1 the owner, on connection 2 a peer that sends what it likes. *)
(* Either may be a leecher or a called-back source.                            *)
EXTENDS SecureIdent

Holder == [c \in Conns |-> "k1"]
==============================================================================
