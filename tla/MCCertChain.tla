------------------------------ MODULE MCCertChain ------------------------------
(***************************************************************************)
(* CertChain for TLC: three hashes, so that chains, cycles of one to three *)
(* certificates and gaps happen; names at and above the limit; validities  *)
(* on both sides of the limits of int and of a 32-bit long, one of them    *)
(* from the last second of a day.                                          *)
(***************************************************************************)
EXTENDS CertChain

Noon == 1699963200
LastSecond == 1700006399

Cert(kind, issuer, name, type, cnt) ==
    [kind |-> kind, issuer |-> issuer, name |-> name, type |-> type, cnt |-> cnt,
     start |-> IF cnt = 168 THEN LastSecond ELSE Noon]

MCCerts ==
    {Cert("AT", h, 0, 4, 168) : h \in Hashes} \cup {Cert("AT", h, 0, 5, 9943) : h \in Hashes}
    \cup {Cert("AT", h, 12, 4, 167) : h \in Hashes}
    \cup {Cert("AA", h, 63, 5, 2071) : h \in Hashes} \cup {Cert("AA", h, 64, 6, 3) : h \in Hashes}
    \cup {Cert("ROOT", peer, 20, 6, 14), Cert("ROOT", peer, 20, 6, 15),
          Cert("ROOT", peer, 20, 1, 100), Cert("ROOT", peer, 20, 0, 100),
          Cert("other", peer, 0, 3, 1)}
=============================================================================
