------------------------ MODULE MCRfc8902Handshake ------------------------
(***************************************************************************)
(* Instances of Rfc8902Handshake: the client's entity holds one            *)
(* certificate, the server's a good one, one the entities reject and one   *)
(* whose SSP does not fit.                                                 *)
(***************************************************************************)
EXTENDS Rfc8902Handshake, TLC

CONSTANTS c1, c2, c3, c4

MCCerts == {c1, c2, c3, c4}
MCOwnCerts == [p \in Sides |-> IF p = "client" THEN {c1} ELSE {c2, c3, c4}]
MCValidCerts == {c1, c2, c4}
MCSspLenOf == (c1 :> 0) @@ (c2 :> 2) @@ (c3 :> 2) @@ (c4 :> 4)
===========================================================================
