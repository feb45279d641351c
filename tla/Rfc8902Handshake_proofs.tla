----------------------- MODULE Rfc8902Handshake_proofs -----------------------
(***************************************************************************)
(* Safety of the RFC 8902 handshake for every set of certificates, PSIDs   *)
(* and supported types.  The invariant is proved in layers, each using the *)
(* ones before: types, negotiation, loaded certificates, authentication.   *)
(***************************************************************************)
EXTENDS Rfc8902Handshake, TLAPS

\* The two sides and their peers.
LEMMA SidesFacts ==
    /\ Other("client") = "server" /\ Other("server") = "client"
    /\ \A p \in Sides : Other(p) \in Sides /\ Other(p) # p /\ Other(Other(p)) = p
BY DEF Sides, Other

-----------------------------------------------------------------------------
(* Types. *)

\* What a side loads is one of the certificates.
LEMMA OwnCertsFacts == \A p \in Sides : OwnCerts[p] \subseteq Certs /\ Loadable(p) \subseteq Certs
BY HandshakeAssumption DEF Loadable

\* The messages a side sends are well typed.
LEMMA MessageTypes ==
    ASSUME NEW c \in Certs \cup {NoCert}, NEW n \in Nat, NEW form \in CertTypes
    PROVE  /\ [form |-> form, id |-> c] \in CertMsgs
           /\ [form |-> "empty", id |-> c] \in CertMsgs
           /\ [form |-> form, psid |-> n, hash |-> c] \in SigMsgs
BY DEF CertMsgs, SigMsgs

\* The initial states are well typed.
LEMMA InitTypeOK == Init => TypeOK
<1> SUFFICES ASSUME Init PROVE TypeOK
  OBVIOUS
<1> USE HandshakeAssumption
<1>1. psidThis \in [Sides -> Nat]
  BY DEF Init
<1>2. certMsg \in [Sides -> CertMsgs] /\ sigMsg \in [Sides -> SigMsgs]
  BY DEF Init, CertMsgs, SigMsgs, Unsent, NoSig, CertTypes
<1> QED
  BY <1>1, <1>2 DEF Init, TypeOK, Phases, Ended, CertTypes

\* A failing step of a side is well typed.
LEMMA FailTypeOK == \A p \in Sides : TypeOK /\ Fail(p) => TypeOK'
BY DEF TypeOK, Fail, Go, config, msgs, result, Phases, Ended, CertMsgs, SigMsgs

\* A verification by the entity is well typed.
LEMMA VerifyTypeOK ==
    ASSUME NEW p \in Sides, NEW phase \in Phases, TypeOK, IEEE1609_CERT_verify(p, phase)
    PROVE  TypeOK'
<1>1. CASE Fail(p)
  BY <1>1, FailTypeOK
<1>2. CASE /\ EntityAccepts(certMsg[Other(p)])
           /\ \E h \in {certMsg[Other(p)].id, Garbage} : hash' = [hash EXCEPT ![p] = h]
           /\ Go(p, phase)
           /\ UNCHANGED <<config, decided, cert, verifyPeer, msgs, psidOther, sspLen, sspBytes>>
  <2>1. certMsg[Other(p)].id \in Certs \cup {NoCert}
    BY SidesFacts DEF TypeOK, CertMsgs
  <2>2. hash' \in [Sides -> Certs \cup {NoCert, Garbage}]
    BY <1>2, <2>1 DEF TypeOK
  <2> QED
    BY <1>2, <2>2 DEF TypeOK, Go, config, msgs, CertMsgs, SigMsgs
<1> QED
  BY <1>1, <1>2 DEF IEEE1609_CERT_verify

\* Every step keeps the types.
LEMMA NextTypeOK == TypeOK /\ [Next]_vars => TypeOK'
<1> SUFFICES ASSUME TypeOK, [Next]_vars PROVE TypeOK'
  OBVIOUS
<1> USE DEF config, msgs, result
<1>0. CASE UNCHANGED vars
  BY <1>0 DEF TypeOK, vars, CertMsgs, SigMsgs
<1>1. CASE tls_construct_ctos
  BY <1>1 DEF TypeOK, tls_construct_ctos, Go, Phases, Sides
<1>2. CASE tls_parse_ctos
  <2>1. \A k \in Sides : Chosen(k) \in CertTypes \cup {"none"}
    BY DEF Chosen, CertTypes
  <2>2. ASSUME NEW types \in [Sides -> CertTypes \cup {"none"}],
               decided' = [decided EXCEPT !["server"] = types],
               verifyPeer' \in {"no", "yes"},
               Go("server", "negotiated"), UNCHANGED <<config, cert, msgs, result>>
        PROVE  TypeOK'
    BY <2>2 DEF TypeOK, Go, Phases, Sides
  <2>3. CASE Fail("server")
    BY <2>3, FailTypeOK DEF Sides
  <2> QED
    BY <1>2, <2>1, <2>2, <2>3 DEF tls_parse_ctos
<1>3. CASE tls_construct_stoc
  BY <1>3 DEF TypeOK, tls_construct_stoc, Go, Phases, Sides
<1>4. CASE tls_parse_stoc
  <2>1. CASE Fail("client")
    BY <2>1, FailTypeOK DEF Sides
  <2>2. CASE /\ \A k \in Sides : answer[k] # "unsent"
             /\ decided' = [decided EXCEPT !["client"] = answer]
             /\ Go("client", "negotiated")
             /\ UNCHANGED <<config, cert, verifyPeer, msgs, result>>
    <3>1. answer \in [Sides -> CertTypes \cup {"none"}]
      BY <2>2 DEF TypeOK
    <3> QED
      BY <2>2, <3>1 DEF TypeOK, Go, Phases, Sides
  <2> QED
    BY <1>4, <2>1, <2>2 DEF tls_parse_stoc
<1>5. ASSUME NEW p \in Sides, SideNext(p) PROVE TypeOK'
  <2>1. CASE SSL_set_1609_sec_ent_addr(p)
    BY <2>1, FailTypeOK DEF TypeOK, SSL_set_1609_sec_ent_addr, Go, Phases
  <2>0. ASSUME NEW c \in Certs \cup {NoCert}, NEW phase \in Phases,
               cert' = [cert EXCEPT ![p] = c], Go(p, phase),
               UNCHANGED <<config, decided, verifyPeer, msgs, result>>
        PROVE  TypeOK'
    BY <2>0 DEF TypeOK, Go, CertMsgs, SigMsgs
  <2> HIDE DEF config, msgs, result
  <2>a. "ready" \in Phases /\ "enabled" \in Phases
    BY DEF Phases
  <2>2. CASE OtherServerStarts(p)
    <3>1. PICK c \in {NoCert} \cup (IF rfc8902[p] = "foreign" THEN OwnCerts[p] ELSE {}) :
             cert' = [cert EXCEPT ![p] = c]
      BY <2>2 DEF OtherServerStarts
    <3>2. c \in Certs \cup {NoCert}
      BY OwnCertsFacts
    <3> QED
      BY <2>0, <2>2, <2>a, <3>1, <3>2 DEF OtherServerStarts
  <2>3. ASSUME NEW use_AT \in BOOLEAN, SSL_enable_RFC8902_support(p, use_AT) PROVE TypeOK'
    <3>1. PICK phase \in Phases : Go(p, phase)
      BY <2>3, <2>a DEF SSL_enable_RFC8902_support
    <3>2. CASE UNCHANGED cert
      <4>1. cert[p] \in Certs \cup {NoCert} /\ cert' = [cert EXCEPT ![p] = cert[p]]
        BY <3>2 DEF TypeOK
      <4> QED
        BY <2>0, <2>3, <3>1, <4>1 DEF SSL_enable_RFC8902_support
    <3>3. CASE \E c \in Loadable(p) : cert' = [cert EXCEPT ![p] = c]
      BY <2>0, <2>3, <3>1, <3>3, OwnCertsFacts DEF SSL_enable_RFC8902_support
    <3> QED
      BY <2>3, <3>2, <3>3 DEF SSL_enable_RFC8902_support
  <2>4. CASE EnableFails(p)
    BY <2>4, FailTypeOK DEF EnableFails
  <2>5. CASE SSL_use_1609_cert_by_hash(p)
    BY <2>0, <2>5, <2>a, FailTypeOK, OwnCertsFacts DEF SSL_use_1609_cert_by_hash
  <2> USE DEF config, msgs, result
  <2>6. CASE SendCertificate(p)
    <3>1. certMsg' \in [Sides -> CertMsgs]
      <4>1. PICK m : m \in CertMsgs /\ certMsg' = [certMsg EXCEPT ![p] = m]
        <5>1. cert[p] \in Certs \cup {NoCert} /\ NoCert \in Certs \cup {NoCert} /\ 0 \in Nat
          BY DEF TypeOK
        <5>2. "1609" \in CertTypes /\ "X509" \in CertTypes
          BY DEF CertTypes
        <5> QED
          BY <2>6, <5>1, <5>2, MessageTypes DEF SendCertificate
      <4> QED
        BY <4>1 DEF TypeOK
    <3>2. hs' \in [Sides -> Phases]
      BY <2>6 DEF SendCertificate, TypeOK, Go, Phases
    <3> QED
      BY <2>6, <3>1, <3>2 DEF SendCertificate, TypeOK
  <2>7. CASE tls_construct_cert_verify(p)
    <3>1. CASE Fail(p)
      BY <3>1, FailTypeOK
    <3>2. CASE ~Fail(p)
      <4>1. sigMsg' \in [Sides -> SigMsgs]
        <5>1. tls_construct_IEEE1609_CERT_cert_verify(p) \in SigMsgs
          BY MessageTypes DEF tls_construct_IEEE1609_CERT_cert_verify, TypeOK, CertTypes
        <5>2. [form |-> "X509", psid |-> 0, hash |-> NoCert] \in SigMsgs
          BY MessageTypes DEF CertTypes
        <5>3. PICK m : m \in SigMsgs /\ sigMsg' = [sigMsg EXCEPT ![p] = m]
          BY <2>7, <3>2, <5>1, <5>2 DEF tls_construct_cert_verify
        <5> QED
          BY <5>3 DEF TypeOK
      <4> QED
        BY <2>7, <3>2, <4>1 DEF tls_construct_cert_verify, TypeOK, Go, Phases
    <3> QED
      BY <3>1, <3>2
  <2>8. ASSUME ProcessCertificate(p) PROVE TypeOK'
    BY <2>8, FailTypeOK, VerifyTypeOK DEF ProcessCertificate, TypeOK, Go, Phases
  <2>9. CASE p = "client" /\ tls_process_server_certificate
    BY <2>8, <2>9 DEF tls_process_server_certificate
  <2>10. CASE p = "server" /\ tls_process_client_certificate
    BY <2>8, <2>10, FailTypeOK DEF tls_process_client_certificate, TypeOK, Go, Phases
  <2>11. CASE tls_process_cert_verify(p)
    BY <2>11, FailTypeOK, VerifyTypeOK DEF tls_process_cert_verify, TypeOK, Go, Phases
  <2>12. CASE tls_process_IEEE1609_CERT_cert_verify(p)
    <3>1. CASE Fail(p)
      BY <3>1, FailTypeOK
    <3>2. CASE ~Fail(p)
      <4>1. hash[p] \in Certs /\ SspLenOf[hash[p]] \in Nat
        BY <2>12, <3>2, HandshakeAssumption
           DEF tls_process_IEEE1609_CERT_cert_verify, EntityVerifies
      <4>2. sigMsg[Other(p)].psid \in Nat
        BY SidesFacts DEF TypeOK, SigMsgs
      <4>3. /\ sspLen' = [sspLen EXCEPT ![p] = SspLenOf[hash[p]]]
            /\ sspBytes' \in {sspBytes, [sspBytes EXCEPT ![p] = hash[p]]}
            /\ psidOther' = [psidOther EXCEPT ![p] = sigMsg[Other(p)].psid]
            /\ hs' = [hs EXCEPT ![p] = "peer_cv"]
            /\ UNCHANGED <<config, decided, cert, verifyPeer, msgs, hash>>
        BY <2>12, <3>2 DEF tls_process_IEEE1609_CERT_cert_verify, Go
      <4>4. /\ sspLen' \in [Sides -> Nat] /\ psidOther' \in [Sides -> Nat]
            /\ sspBytes' \in [Sides -> Certs \cup {NoCert}] /\ hs' \in [Sides -> Phases]
        BY <4>1, <4>2, <4>3 DEF TypeOK, Phases
      <4> QED
        BY <4>3, <4>4 DEF TypeOK, config, msgs
    <3> QED
      BY <3>1, <3>2
  <2>13. CASE Finished(p)
    BY <2>13 DEF Finished, TypeOK, Go, Phases, Ended
  <2>14. CASE PeerGone(p)
    BY <2>14, FailTypeOK DEF PeerGone
  <2> QED
    BY <1>5, <2>1, <2>2, <2>3, <2>4, <2>5, <2>6, <2>7, <2>9, <2>10, <2>11, <2>12,
       <2>13, <2>14 DEF SideNext
<1> QED
  BY <1>0, <1>1, <1>2, <1>3, <1>4, <1>5 DEF Next, Hellos

\* Every reachable state of the handshake is well typed: in particular the
\* certificate a side loaded is one of the certificates its entity holds or none,
\* and never the garbage of a short answer (sec_ent_initial_connection).
THEOREM HandshakeTypeOK == Spec => []TypeOK
BY InitTypeOK, NextTypeOK, PTL DEF Spec

-----------------------------------------------------------------------------
(* Negotiation.  The hellos are the only steps that touch offer, answer and *)
(* decided, and a side takes each of them once, so the invariant ties the   *)
(* values to how far the two sides have come.                               *)

Setup == {"new", "addr", "enabled"}
Early == Setup \cup {"ready"}

\* A side that has not yet decided on the types.
Undecided(p) == hs[p] \in Early \/ (p = "client" /\ hs[p] = "hello_sent")

NegInv ==
    /\ hs["client"] = "hello_sent" => offer = support["client"]
    /\ hs["server"] \in Early => \A k \in Sides : answer[k] = "unsent"
    /\ \A p \in Sides : Undecided(p) => \A k \in Sides : decided[p][k] = "none"
    /\ \A k \in Sides : answer[k] # "unsent" => answer[k] = decided["server"][k]
    /\ Negotiated("client") => \A k \in Sides : decided["client"][k] = answer[k]
    /\ NegotiationAgrees

\* Where a step of a side can take it.
StepsTo(p) ==
    /\ hs' = [hs EXCEPT ![p] = hs'[p]]
    /\ hs'[p] \in Phases \ {"new", "hello_sent", "negotiated"}
    /\ hs'[p] \in Early => hs[p] \in Setup
    /\ hs[p] # "failed"

\* The steps of one side leave the negotiation alone.
LEMMA SideFrame ==
    ASSUME NEW p \in Sides, TypeOK, SideNext(p)
    PROVE  /\ UNCHANGED <<rfc8902, support, psidThis, decided, offer, answer, verifyPeer>>
           /\ StepsTo(p)
<1> USE DEF config, msgs, result
<1> DEFINE Frame == UNCHANGED <<rfc8902, support, psidThis, decided, offer, answer, verifyPeer>>
<1>0. ASSUME NEW phase \in Phases \ {"new", "hello_sent", "negotiated"}, Go(p, phase),
             phase \in Early => hs[p] \in Setup, hs[p] # "failed"
      PROVE  StepsTo(p)
  BY <1>0 DEF StepsTo, Go, TypeOK
<1> USE DEF Phases, Ended, Early, Setup
<1>a. ASSUME Fail(p), hs[p] # "failed" PROVE Frame /\ StepsTo(p)
  BY <1>0, <1>a DEF Fail
<1>1. CASE SSL_set_1609_sec_ent_addr(p)
  BY <1>0, <1>1, <1>a DEF SSL_set_1609_sec_ent_addr
<1>2. CASE OtherServerStarts(p)
  BY <1>0, <1>2 DEF OtherServerStarts
<1>3. ASSUME NEW use_AT \in BOOLEAN, SSL_enable_RFC8902_support(p, use_AT)
      PROVE  Frame /\ StepsTo(p)
  BY <1>0, <1>3 DEF SSL_enable_RFC8902_support
<1>4. CASE EnableFails(p)
  BY <1>4, <1>a DEF EnableFails
<1>5. CASE SSL_use_1609_cert_by_hash(p)
  BY <1>0, <1>5, <1>a DEF SSL_use_1609_cert_by_hash
<1>6. CASE SendCertificate(p)
  BY <1>0, <1>6 DEF SendCertificate, MaySendCertificate
<1>7. CASE tls_construct_cert_verify(p)
  BY <1>0, <1>7, <1>a DEF tls_construct_cert_verify
<1>b. ASSUME NEW phase \in {"peer_cert", "peer_recheck"}, IEEE1609_CERT_verify(p, phase), hs[p] # "failed"
      PROVE  Frame /\ StepsTo(p)
  BY <1>0, <1>b, <1>a DEF IEEE1609_CERT_verify
<1>c. ASSUME ProcessCertificate(p), hs[p] # "failed" PROVE Frame /\ StepsTo(p)
  BY <1>0, <1>a, <1>b, <1>c DEF ProcessCertificate
<1>8. CASE p = "client" /\ tls_process_server_certificate
  BY <1>8, <1>c DEF tls_process_server_certificate
<1>9. CASE p = "server" /\ tls_process_client_certificate
  BY <1>0, <1>9, <1>a, <1>c DEF tls_process_client_certificate
<1>10. CASE tls_process_cert_verify(p)
  BY <1>0, <1>10, <1>a, <1>b DEF tls_process_cert_verify
<1>11. CASE tls_process_IEEE1609_CERT_cert_verify(p)
  BY <1>0, <1>11, <1>a DEF tls_process_IEEE1609_CERT_cert_verify
<1>12. CASE Finished(p)
  BY <1>0, <1>12 DEF Finished
<1>13. CASE PeerGone(p)
  BY <1>13, <1>a DEF PeerGone
<1> HIDE DEF Frame
<1> QED
  BY <1>1, <1>2, <1>3, <1>4, <1>5, <1>6, <1>7, <1>8, <1>9, <1>10, <1>11, <1>12, <1>13
     DEF SideNext, Frame

\* Nothing is negotiated initially.
LEMMA InitNegInv == Init => NegInv
BY SidesFacts DEF Init, NegInv, Negotiated, NegotiationAgrees, Undecided, Early, Setup, Sides

\* The hellos and the steps of the sides keep the negotiation consistent.
LEMMA NextNegInv == TypeOK /\ NegInv /\ [Next]_vars => NegInv'
<1> SUFFICES ASSUME TypeOK, NegInv, [Next]_vars PROVE NegInv'
  OBVIOUS
<1> USE DEF config, msgs, result
<1>0. CASE UNCHANGED vars
  BY <1>0 DEF vars, NegInv, Negotiated, NegotiationAgrees, Undecided
<1>1. ASSUME NEW p \in Sides, UNCHANGED <<rfc8902, support, decided, offer, answer>>, StepsTo(p)
      PROVE  NegInv'
  <2>1. \A q \in Sides : hs'[q] \in Early => hs[q] \in Early
    BY <1>1 DEF TypeOK, StepsTo, Early
  <2>2. \A q \in Sides : hs'[q] = "hello_sent" => hs[q] = "hello_sent"
    BY <1>1 DEF TypeOK, StepsTo
  <2> QED
    BY <1>1, <2>1, <2>2 DEF NegInv, Negotiated, NegotiationAgrees, Undecided, Sides
<1>2. ASSUME NEW p \in Sides, Fail(p), hs[p] # "failed" PROVE NegInv'
  BY <1>1, <1>2 DEF Fail, Go, StepsTo, TypeOK, Phases, Ended, Early, Setup
<1>3. CASE tls_construct_ctos
  BY <1>3 DEF tls_construct_ctos, Go, TypeOK, NegInv, Negotiated, NegotiationAgrees, Undecided,
              Early, Setup, Sides
<1>4. CASE tls_parse_ctos
  <2>1. CASE Fail("server")
    BY <2>1, <1>2, <1>4 DEF Sides, tls_parse_ctos
  <2>2. CASE ~Fail("server")
    <3>1. /\ \A k \in Sides : answer[k] = "unsent" /\ decided["client"][k] = "none"
          /\ offer = support["client"]
      BY <1>4 DEF tls_parse_ctos, NegInv, Undecided, Early, Sides
    <3>2. /\ UNCHANGED <<rfc8902, support, offer, answer>>
          /\ hs' = [hs EXCEPT !["server"] = "negotiated"]
          /\ decided' = [decided EXCEPT !["server"] = decided'["server"]]
      BY <1>4, <2>2 DEF tls_parse_ctos, Go, TypeOK, Sides
    <3>3. decided'["client"] = decided["client"] /\ hs'["client"] = hs["client"]
          /\ hs'["server"] = "negotiated"
      BY <3>2 DEF TypeOK, Sides
    <3>4. rfc8902["server"] = "on" => \A k \in Sides :
             decided'["server"][k] = Chosen(k) /\ Chosen(k) # "none"
      BY <1>4, <2>2 DEF tls_parse_ctos, TypeOK, Sides
    <3>5. \A k \in Sides : Chosen(k) # "none" =>
             /\ Chosen(k) \in support["client"][k] \cap support["server"][k]
             /\ "1609" \in support["client"][k] \cap support["server"][k] => Chosen(k) = "1609"
      BY <3>1 DEF Chosen, Common
    <3>6. ~Negotiated("client")'
      BY <3>1, <3>3 DEF Negotiated
    <3>7. NegotiationAgrees'
      BY <3>2, <3>4, <3>5, <3>6 DEF NegotiationAgrees
    <3> QED
      BY <3>1, <3>2, <3>3, <3>6, <3>7 DEF NegInv, Undecided, Early, Setup, Sides
  <2> QED
    BY <2>1, <2>2
<1>5. CASE tls_construct_stoc
  <2>1. /\ UNCHANGED <<rfc8902, support, offer, decided>>
        /\ answer' = decided["server"]
        /\ hs' = [hs EXCEPT !["server"] = "hello_sent"]
    BY <1>5 DEF tls_construct_stoc, Go
  <2>2. Negotiated("client") => \A k \in Sides : decided["client"][k] = decided["server"][k]
    BY DEF NegInv, NegotiationAgrees
  <2>3. hs'["client"] = hs["client"] /\ hs'["server"] = "hello_sent"
    BY <2>1 DEF TypeOK, Sides
  <2>4. NegotiationAgrees'
    BY <2>1 DEF NegInv, NegotiationAgrees, Negotiated
  <2> QED
    BY <2>1, <2>2, <2>3, <2>4 DEF NegInv, Undecided, Negotiated, Early, Setup, Sides
<1>6. CASE tls_parse_stoc
  <2>1. CASE Fail("client")
    BY <2>1, <1>2, <1>6 DEF Sides, tls_parse_stoc
  <2>2. CASE ~Fail("client")
    <3>1. /\ UNCHANGED <<rfc8902, support, offer, answer>>
          /\ hs' = [hs EXCEPT !["client"] = "negotiated"]
          /\ decided' = [decided EXCEPT !["client"] = answer]
          /\ \A k \in Sides : answer[k] # "unsent" /\ Accepts(k)
      BY <1>6, <2>2 DEF tls_parse_stoc, Go
    <3>2. /\ decided'["client"] = answer /\ decided'["server"] = decided["server"]
          /\ hs'["server"] = hs["server"] /\ hs'["client"] = "negotiated"
      BY <3>1 DEF TypeOK, Sides
    <3>3. \A k \in Sides : answer[k] = decided["server"][k]
      BY <3>1 DEF NegInv
    <3>4. NegotiationAgrees'
      BY <3>1, <3>2, <3>3 DEF NegInv, NegotiationAgrees, Negotiated, Accepts
    <3> QED
      BY <3>1, <3>2, <3>3, <3>4 DEF NegInv, Undecided, Negotiated, Early, Setup, Sides
  <2> QED
    BY <2>1, <2>2
<1> QED
  BY <1>0, <1>1, <1>3, <1>4, <1>5, <1>6, SideFrame DEF Next, Hellos

\* Both sides decide on the same types, among those each allows, and on 1609.2
\* whenever both allow it, for every configuration of the two sides
\* (tls_parse_ctos_cert_type_ext, tls_parse_stoc_cert_type_ext).
THEOREM HandshakeNegotiation == Spec => []NegotiationAgrees
<1>1. Init => TypeOK /\ NegInv
  BY InitTypeOK, InitNegInv
<1>2. TypeOK /\ NegInv /\ [Next]_vars => (TypeOK /\ NegInv)'
  BY NextTypeOK, NextNegInv
<1>3. NegInv => NegotiationAgrees
  BY DEF NegInv
<1> QED
  BY <1>1, <1>2, <1>3, PTL DEF Spec

-----------------------------------------------------------------------------
(* Certificates.  A side that may negotiate 1609.2 has loaded one by then.  *)

CertInv ==
    /\ \A p \in Sides :
          rfc8902[p] = "on" /\ hs[p] \notin Setup \cup {"failed"} /\ NeedsEntity(p)
             => cert[p] # NoCert
    /\ CertificateAtHand

\* How a step of a side changes its certificate.
Loads(p) ==
    /\ cert' = [cert EXCEPT ![p] = cert'[p]]
    /\ cert'[p] # cert[p] => hs[p] \in Setup
    /\ rfc8902[p] = "on" =>
          /\ cert[p] # NoCert => cert'[p] # NoCert
          /\ hs[p] \in Setup /\ hs'[p] \notin Setup \cup {"failed"} /\ NeedsEntity(p)
                => cert'[p] # NoCert

\* A certificate is loaded while a side is set up, and never unloaded.
LEMMA CertFrame == ASSUME NEW p \in Sides, TypeOK, SideNext(p) PROVE Loads(p)
<1> USE DEF config, msgs, result
<1>0. ASSUME UNCHANGED cert, hs[p] \in Setup => hs'[p] \in Setup \cup {"failed"}
      PROVE  Loads(p)
  BY <1>0 DEF Loads, TypeOK
<1>a. CASE Fail(p)
  BY <1>0, <1>a DEF Fail, Go, TypeOK
<1>b. ASSUME NEW c \in Certs, cert' = [cert EXCEPT ![p] = c], hs[p] \in Setup PROVE Loads(p)
  <2>1. cert'[p] = c /\ c # NoCert
    BY <1>b, HandshakeAssumption DEF TypeOK
  <2> QED
    BY <1>b, <2>1 DEF Loads
<1> USE DEF Setup
<1>1. CASE SSL_set_1609_sec_ent_addr(p)
  BY <1>0, <1>1, <1>a DEF SSL_set_1609_sec_ent_addr, Go, TypeOK
<1>2. CASE OtherServerStarts(p)
  BY <1>2 DEF OtherServerStarts, Loads, TypeOK
<1>3. ASSUME NEW use_AT \in BOOLEAN, SSL_enable_RFC8902_support(p, use_AT) PROVE Loads(p)
  <2>1. CASE NeedsEntity(p) /\ use_AT
    BY <1>3, <1>b, <2>1, OwnCertsFacts DEF SSL_enable_RFC8902_support
  <2>2. CASE ~(NeedsEntity(p) /\ use_AT)
    BY <1>3, <2>2 DEF SSL_enable_RFC8902_support, Loads, Go, TypeOK
  <2> QED
    BY <2>1, <2>2
<1>4. CASE EnableFails(p)
  BY <1>4, <1>a DEF EnableFails
<1>5. CASE SSL_use_1609_cert_by_hash(p)
  BY <1>5, <1>a, <1>b, OwnCertsFacts DEF SSL_use_1609_cert_by_hash
<1>6. CASE SendCertificate(p)
  BY <1>0, <1>6 DEF SendCertificate, MaySendCertificate
<1>7. CASE tls_construct_cert_verify(p)
  BY <1>0, <1>7, <1>a DEF tls_construct_cert_verify
<1>8. CASE p = "client" /\ tls_process_server_certificate
  BY <1>0, <1>8, <1>a DEF tls_process_server_certificate, ProcessCertificate, IEEE1609_CERT_verify
<1>9. CASE p = "server" /\ tls_process_client_certificate
  BY <1>0, <1>9, <1>a DEF tls_process_client_certificate, ProcessCertificate, IEEE1609_CERT_verify
<1>10. CASE tls_process_cert_verify(p)
  BY <1>0, <1>10, <1>a DEF tls_process_cert_verify, IEEE1609_CERT_verify
<1>11. CASE tls_process_IEEE1609_CERT_cert_verify(p)
  BY <1>0, <1>11, <1>a DEF tls_process_IEEE1609_CERT_cert_verify
<1>12. CASE Finished(p)
  BY <1>0, <1>12 DEF Finished
<1>13. CASE PeerGone(p)
  BY <1>13, <1>a DEF PeerGone
<1> QED
  BY <1>1, <1>2, <1>3, <1>4, <1>5, <1>6, <1>7, <1>8, <1>9, <1>10, <1>11, <1>12, <1>13
     DEF SideNext

\* No certificate is needed initially.
LEMMA InitCertInv == Init => CertInv
BY DEF Init, CertInv, CertificateAtHand, SSL_is_using_1609_this_side, Setup

\* A side that may negotiate 1609.2 has its certificate before the hellos.
LEMMA NextCertInv == TypeOK /\ NegInv /\ CertInv /\ [Next]_vars => CertInv'
<1> SUFFICES ASSUME TypeOK, NegInv, CertInv, [Next]_vars PROVE CertInv'
  OBVIOUS
<1> USE DEF config, msgs, result, SSL_is_using_1609_this_side
<1>0. CASE UNCHANGED vars
  BY <1>0 DEF vars, CertInv, CertificateAtHand, NeedsEntity
<1>1. ASSUME NEW p \in Sides, SideNext(p) PROVE CertInv'
  <2>1. /\ UNCHANGED <<rfc8902, support, decided>>
        /\ hs' = [hs EXCEPT ![p] = hs'[p]]
        /\ Loads(p)
    BY <1>1, SideFrame, CertFrame DEF StepsTo
  <2>2. \A q \in Sides : NeedsEntity(q)' <=> NeedsEntity(q)
    BY <2>1 DEF NeedsEntity
  <2>3. \A q \in Sides \ {p} : hs'[q] = hs[q] /\ cert'[q] = cert[q]
    BY <2>1 DEF Loads, TypeOK
  <2>4. rfc8902[p] = "on" /\ hs'[p] \notin Setup \cup {"failed"} /\ NeedsEntity(p)
           => cert'[p] # NoCert
    BY <1>1, <2>1, SideFrame DEF Loads, CertInv, StepsTo
  <2>5. rfc8902[p] = "on" /\ decided[p][p] = "1609" => cert'[p] # NoCert
    BY <2>1 DEF Loads, CertInv, CertificateAtHand
  <2> QED
    BY <2>1, <2>2, <2>3, <2>4, <2>5 DEF CertInv, CertificateAtHand
<1>2. ASSUME NEW p \in Sides, NEW phase \in Phases, Go(p, phase), hs[p] \notin Setup \cup {"failed"},
             UNCHANGED <<rfc8902, support, cert>>,
             decided' = [decided EXCEPT ![p] = decided'[p]],
             decided'[p][p] = "1609" /\ rfc8902[p] = "on" =>
                decided[p][p] = "1609" \/ "1609" \in support[p][p]
      PROVE  CertInv'
  <2>1. \A q \in Sides : NeedsEntity(q)' <=> NeedsEntity(q)
    BY <1>2 DEF NeedsEntity
  <2>2. \A q \in Sides \ {p} : hs'[q] = hs[q] /\ decided'[q] = decided[q]
    BY <1>2 DEF Go, TypeOK
  <2>3. "1609" \in support[p][p] => NeedsEntity(p)
    BY DEF NeedsEntity
  <2>4. rfc8902[p] = "on" /\ decided'[p][p] = "1609" => cert[p] # NoCert
    BY <1>2, <2>3 DEF CertInv, CertificateAtHand
  <2> QED
    BY <1>2, <2>1, <2>2, <2>4 DEF CertInv, CertificateAtHand
<1> USE DEF Setup, Phases, Ended, Sides
<1>3. CASE tls_construct_ctos
  BY <1>2, <1>3 DEF tls_construct_ctos, TypeOK
<1>4. CASE tls_parse_ctos
  <2>1. decided' = [decided EXCEPT !["server"] = decided'["server"]]
    BY <1>4 DEF tls_parse_ctos, Fail, TypeOK
  <2>2. rfc8902["server"] = "on" /\ decided'["server"]["server"] = "1609" =>
           decided["server"]["server"] = "1609" \/ "1609" \in support["server"]["server"]
    BY <1>4 DEF tls_parse_ctos, Fail, TypeOK, Chosen, Common
  <2>3. \E phase \in Phases : Go("server", phase)
    BY <1>4 DEF tls_parse_ctos, Fail
  <2>4. UNCHANGED <<rfc8902, support, cert>> /\ hs["server"] = "ready"
    BY <1>4 DEF tls_parse_ctos, Fail
  <2> QED
    BY <1>2, <2>1, <2>2, <2>3, <2>4
<1>5. CASE tls_construct_stoc
  BY <1>2, <1>5 DEF tls_construct_stoc, TypeOK
<1>6. CASE tls_parse_stoc
  <2>1. decided' = [decided EXCEPT !["client"] = decided'["client"]]
    BY <1>6 DEF tls_parse_stoc, Fail, TypeOK
  <2>2. decided'["client"]["client"] = "1609" =>
           decided["client"]["client"] = "1609" \/ "1609" \in support["client"]["client"]
    BY <1>6 DEF tls_parse_stoc, Fail, TypeOK, Accepts
  <2>3. \E phase \in Phases : Go("client", phase)
    BY <1>6 DEF tls_parse_stoc, Fail
  <2>4. UNCHANGED <<rfc8902, support, cert>> /\ hs["client"] = "hello_sent"
    BY <1>6 DEF tls_parse_stoc, Fail
  <2> QED
    BY <1>2, <2>1, <2>2, <2>3, <2>4
<1> QED
  BY <1>0, <1>1, <1>3, <1>4, <1>5, <1>6 DEF Next, Hellos

\* A side that negotiated a 1609.2 certificate of its own has one loaded, so
\* ssl_add_cert_chain and tls_construct_IEEE1609_CERT_cert_verify find it.
THEOREM HandshakeCertificateAtHand == Spec => []CertificateAtHand
<1>1. Init => TypeOK /\ NegInv /\ CertInv
  BY InitTypeOK, InitNegInv, InitCertInv
<1>2. TypeOK /\ NegInv /\ CertInv /\ [Next]_vars => (TypeOK /\ NegInv /\ CertInv)'
  BY NextTypeOK, NextNegInv, NextCertInv
<1>3. CertInv => CertificateAtHand
  BY DEF CertInv
<1> QED
  BY <1>1, <1>2, <1>3, PTL DEF Spec

-----------------------------------------------------------------------------
(* Authentication. *)

\* The phases in which a side is done with the certificate of its peer.
Done(p) == \/ hs[p] \in {"peer_cv", "connected"}
           \/ p = "client" /\ hs[p] \in {"cert_sent", "cv_sent"}

\* What a side says of itself in its messages.
OwnMessages(p) ==
    /\ hs[p] \in Early => sigMsg[p].form = "unsent"
    /\ sigMsg[p].form = "1609" => sigMsg[p].psid = psidThis[p] /\ sigMsg[p].hash = cert[p]

\* What a side knows of its peer.
Authenticated(p) ==
    /\ sigMsg[Other(p)].form # "unsent"
    /\ hash[p] = cert[Other(p)]
    /\ hash[p] \in ValidCerts
    /\ psidOther[p] = psidThis[Other(p)]

PeerKnown(p) ==
    /\ Undecided(p) => psidOther[p] = 0
    /\ psidOther[p] # 0 => SSL_is_using_1609_other_side(p)
    /\ hs[p] = "peer_recheck" =>
          SSL_is_using_1609_other_side(p) /\ hash[p] \in ValidCerts \cup {Garbage}
    /\ rfc8902[p] = "on" /\ Done(p) /\ SSL_is_using_1609_other_side(p) => Authenticated(p)

SspInv(p) ==
    /\ sspLen[p] <= MaxSspLen
    /\ sspBytes[p] # NoCert => sspBytes[p] = hash[p]
    /\ ~Done(p) /\ hs[p] # "failed" => sspBytes[p] = NoCert

\* An empty certificate list comes only from a client that was not to send a
\* 1609.2 certificate, and the server knows that too.
EmptyListInv ==
    /\ Undecided("client") => certMsg["client"].form = "unsent"
    /\ ~Undecided("client") /\ hs["client"] # "failed"
          => \A k \in Sides : answer[k] = decided["client"][k]
    /\ certMsg["client"].form = "empty" =>
          /\ decided["client"]["client"] # "1609"
          /\ \A k \in Sides : answer[k] = decided["client"][k]

\* A server of this code base asks for a certificate.
AskedInv ==
    rfc8902["server"] = "on" /\ hs["server"] \notin Early \cup {"failed"} => verifyPeer = "yes"

AuthInv ==
    /\ \A p \in Sides : OwnMessages(p) /\ PeerKnown(p)
    /\ EmptyListInv
    /\ AskedInv

\* What a step of a side does to the messages it sends.
Sends(p) ==
    /\ sigMsg' = [sigMsg EXCEPT ![p] = sigMsg'[p]]
    /\ certMsg' = [certMsg EXCEPT ![p] = certMsg'[p]]
    /\ sigMsg'[p] # sigMsg[p] =>
          /\ hs[p] = "cert_sent"
          /\ sigMsg'[p].form # "unsent"
          /\ sigMsg'[p].form = "1609" =>
                sigMsg'[p].psid = psidThis[p] /\ sigMsg'[p].hash = cert[p]
    /\ certMsg'[p] # certMsg[p] =>
          /\ hs[p] = IF p = "client" THEN "peer_cv" ELSE "hello_sent"
          /\ certMsg'[p].form = "empty" => ~SSL_is_using_1609_this_side(p)

\* A side speaks for its own certificate, and only when it is its turn.
LEMMA MessageFrame == ASSUME NEW p \in Sides, TypeOK, SideNext(p) PROVE Sends(p)
<1> USE DEF config, msgs, result
<1>0. ASSUME UNCHANGED <<certMsg, sigMsg>> PROVE Sends(p)
  BY <1>0 DEF Sends, TypeOK
<1>a. CASE Fail(p)
  BY <1>0, <1>a DEF Fail
<1>1. CASE SendCertificate(p)
  <2>1. UNCHANGED sigMsg /\ certMsg' = [certMsg EXCEPT ![p] = certMsg'[p]]
    BY <1>1 DEF SendCertificate, TypeOK
  <2>2. certMsg'[p].form = "empty" => ~SSL_is_using_1609_this_side(p)
    BY <1>1 DEF SendCertificate, TypeOK
  <2>3. hs[p] = IF p = "client" THEN "peer_cv" ELSE "hello_sent"
    BY <1>1 DEF SendCertificate, MaySendCertificate
  <2> QED
    BY <2>1, <2>2, <2>3 DEF Sends, TypeOK
<1>2. CASE tls_construct_cert_verify(p)
  <2>1. CASE ~Fail(p)
    BY <1>2, <2>1 DEF tls_construct_cert_verify, tls_construct_IEEE1609_CERT_cert_verify,
                      Sends, TypeOK
  <2> QED
    BY <1>a, <2>1
<1>3. CASE ~SendCertificate(p) /\ ~tls_construct_cert_verify(p)
  BY <1>0, <1>3, <1>a
     DEF SideNext, SSL_set_1609_sec_ent_addr, OtherServerStarts, SSL_enable_RFC8902_support,
         EnableFails, SSL_use_1609_cert_by_hash, tls_process_server_certificate,
         tls_process_client_certificate, ProcessCertificate, IEEE1609_CERT_verify,
         tls_process_cert_verify, tls_process_IEEE1609_CERT_cert_verify, Finished, PeerGone
<1> QED
  BY <1>1, <1>2, <1>3

\* The three kinds of step of a side, by what it learns of its peer: nothing,
\* the hash of a certificate the entity accepted, the PSID of a verified signature.
LearnsNothing(p) ==
    /\ UNCHANGED result
    /\ hs'[p] # "peer_recheck"
    /\ Undecided(p) => hs'[p] \in Early \cup {"failed"}
    /\ Done(p) => Done(p)' \/ hs'[p] = "failed"
    /\ Done(p)' => \/ Done(p)
                   \/ ~SSL_is_using_1609_other_side(p)
                   \/ p = "server" /\ certMsg["client"].form = "empty"
                   \/ p = "server" /\ hs[p] = "cv_sent" /\ verifyPeer = "no"

LearnsHash(p) ==
    /\ SSL_is_using_1609_other_side(p)
    /\ hs[p] \in {"negotiated", "peer_cert"} \/ (p = "server" /\ hs[p] = "cv_sent")
    /\ hs'[p] \in {"peer_cert", "peer_recheck"}
    /\ hash' = [hash EXCEPT ![p] = hash'[p]] /\ hash'[p] \in ValidCerts \cup {Garbage}
    /\ UNCHANGED <<psidOther, sspLen, sspBytes>>

LearnsPsid(p) ==
    /\ hs[p] = "peer_recheck" /\ hs'[p] = "peer_cv"
    /\ EntityVerifies(sigMsg[Other(p)], hash[p])
    /\ psidOther' = [psidOther EXCEPT ![p] = sigMsg[Other(p)].psid]
    /\ sspLen' = [sspLen EXCEPT ![p] = sspLen'[p]] /\ sspLen'[p] <= MaxSspLen
    /\ sspBytes' = [sspBytes EXCEPT ![p] = sspBytes'[p]]
    /\ sspBytes'[p] \in {sspBytes[p], hash[p]}
    /\ UNCHANGED hash

\* Every step of a side is of one of the three kinds.
LEMMA PeerFrame ==
    ASSUME NEW p \in Sides, TypeOK, SideNext(p)
    PROVE  LearnsNothing(p) \/ LearnsHash(p) \/ LearnsPsid(p)
<1> USE DEF config, msgs, result
<1>a. ASSUME Fail(p) PROVE LearnsNothing(p)
  BY <1>a DEF Fail, Go, LearnsNothing, Done, TypeOK
<1>0. ASSUME NEW phase \in Phases \ {"failed", "peer_recheck"}, UNCHANGED result, Go(p, phase),
             Undecided(p) => phase \in Early,
             Done(p) => Done(p)',
             Done(p)' => \/ Done(p)
                         \/ ~SSL_is_using_1609_other_side(p)
                         \/ p = "server" /\ certMsg["client"].form = "empty"
                         \/ p = "server" /\ hs[p] = "cv_sent" /\ verifyPeer = "no"
      PROVE  LearnsNothing(p)
  BY <1>0 DEF Go, LearnsNothing, TypeOK
<1>b. ASSUME NEW phase \in {"peer_cert", "peer_recheck"}, IEEE1609_CERT_verify(p, phase), ~Fail(p),
             SSL_is_using_1609_other_side(p),
             hs[p] \in {"negotiated", "peer_cert"} \/ (p = "server" /\ hs[p] = "cv_sent")
      PROVE  LearnsHash(p)
  BY <1>b DEF IEEE1609_CERT_verify, EntityAccepts, LearnsHash, Go, TypeOK
<1> USE DEF Setup, Early, Phases, Ended, Undecided, Done
<1>1. CASE SSL_set_1609_sec_ent_addr(p)
  BY <1>0, <1>1, <1>a DEF SSL_set_1609_sec_ent_addr, Go, TypeOK
<1>2. CASE OtherServerStarts(p)
  BY <1>0, <1>2 DEF OtherServerStarts, Go, TypeOK
<1>3. ASSUME NEW use_AT \in BOOLEAN, SSL_enable_RFC8902_support(p, use_AT) PROVE LearnsNothing(p)
  BY <1>0, <1>3 DEF SSL_enable_RFC8902_support, Go, TypeOK
<1>4. CASE EnableFails(p)
  BY <1>4, <1>a DEF EnableFails
<1>5. CASE SSL_use_1609_cert_by_hash(p)
  BY <1>0, <1>5, <1>a DEF SSL_use_1609_cert_by_hash, Go, TypeOK
<1>6. CASE SendCertificate(p)
  BY <1>0, <1>6 DEF SendCertificate, MaySendCertificate, Go, TypeOK, Sides
<1>7. CASE tls_construct_cert_verify(p)
  BY <1>0, <1>7, <1>a DEF tls_construct_cert_verify, Go, TypeOK
<1>c. ASSUME ProcessCertificate(p),
             hs[p] = "negotiated" \/ (p = "server" /\ hs[p] = "cv_sent")
      PROVE  LearnsNothing(p) \/ LearnsHash(p)
  <2>1. CASE SSL_is_using_1609_other_side(p) /\ ~Fail(p)
    BY <1>b, <1>c, <2>1 DEF ProcessCertificate
  <2>2. CASE ~SSL_is_using_1609_other_side(p) /\ ~Fail(p)
    BY <1>0, <1>c, <2>2 DEF ProcessCertificate, Go, TypeOK
  <2> QED
    BY <1>a, <2>1, <2>2
<1>8. CASE p = "client" /\ tls_process_server_certificate
  BY <1>8, <1>c DEF tls_process_server_certificate
<1>9. CASE p = "server" /\ tls_process_client_certificate
  BY <1>0, <1>9, <1>a, <1>c DEF tls_process_client_certificate, Go, TypeOK
<1>10. CASE tls_process_cert_verify(p)
  BY <1>0, <1>10, <1>a, <1>b DEF tls_process_cert_verify, Go, TypeOK
<1>11. CASE tls_process_IEEE1609_CERT_cert_verify(p)
  BY <1>11, <1>a DEF tls_process_IEEE1609_CERT_cert_verify, LearnsPsid, SspFits, Go, TypeOK
<1>12. CASE Finished(p)
  BY <1>0, <1>12 DEF Finished, Go, TypeOK
<1>13. CASE PeerGone(p)
  BY <1>13, <1>a DEF PeerGone
<1> QED
  BY <1>1, <1>2, <1>3, <1>4, <1>5, <1>6, <1>7, <1>8, <1>9, <1>10, <1>11, <1>12, <1>13
     DEF SideNext

\* Initially nothing was sent and nothing is known.
LEMMA InitAuthInv == Init => AuthInv /\ \A p \in Sides : SspInv(p)
<1> SUFFICES ASSUME Init PROVE AuthInv /\ \A p \in Sides : SspInv(p)
  OBVIOUS
<1>1. \A p \in Sides : hs[p] = "new" /\ sigMsg[p].form = "unsent" /\ certMsg[p].form = "unsent"
  BY DEF Init, NoSig, Unsent
<1>2. \A p \in Sides : psidOther[p] = 0 /\ sspLen[p] = 0 /\ sspBytes[p] = NoCert
  BY DEF Init
<1>3. \A p \in Sides : OwnMessages(p) /\ PeerKnown(p) /\ SspInv(p)
  BY <1>1, <1>2, HandshakeAssumption DEF OwnMessages, PeerKnown, SspInv, Done
<1>4. EmptyListInv /\ AskedInv
  BY <1>1 DEF EmptyListInv, AskedInv, Undecided, Early, Setup, Sides
<1> QED
  BY <1>3, <1>4 DEF AuthInv

\* A step of a side keeps what it and its peer know of each other.
LEMMA SideAuthInv ==
    ASSUME NEW p \in Sides, TypeOK, NegInv, AuthInv, SideNext(p)
    PROVE  AuthInv'
<1> USE DEF result, SSL_is_using_1609_other_side, SSL_is_using_1609_this_side
<1> DEFINE o == Other(p)
<1>1. /\ UNCHANGED <<rfc8902, support, psidThis, decided, offer, answer, verifyPeer>>
      /\ StepsTo(p) /\ Loads(p) /\ Sends(p)
  BY SideFrame, CertFrame, MessageFrame
<1>2. /\ o \in Sides /\ o # p /\ Other(o) = p /\ \A q \in Sides : q = p \/ q = o
      /\ hs'[o] = hs[o] /\ cert'[o] = cert[o]
      /\ sigMsg'[o] = sigMsg[o] /\ certMsg'[o] = certMsg[o]
  BY <1>1, SidesFacts DEF StepsTo, Loads, Sends, TypeOK, Sides
<1>3. LearnsNothing(p) \/ LearnsHash(p) \/ LearnsPsid(p)
  BY PeerFrame
<1>4. hash'[o] = hash[o] /\ psidOther'[o] = psidOther[o]
  BY <1>2, <1>3 DEF LearnsNothing, LearnsHash, LearnsPsid, TypeOK
<1>5. OwnMessages(o)'
  BY <1>1, <1>2 DEF AuthInv, OwnMessages
<1>6. OwnMessages(p)'
  <2>1. hs'[p] \in Early => sigMsg'[p].form = "unsent"
    BY <1>1 DEF StepsTo, Sends, AuthInv, OwnMessages, Early, Setup
  <2>2. CASE sigMsg'[p] # sigMsg[p]
    BY <1>1, <2>1, <2>2 DEF Sends, Loads, OwnMessages, Setup
  <2>3. CASE sigMsg'[p] = sigMsg[p]
    BY <1>1, <2>1, <2>3 DEF Loads, AuthInv, OwnMessages, Early, SigMsgs
  <2> QED
    BY <2>2, <2>3
<1>7. PeerKnown(o)'
  <2>1. Undecided(o)' <=> Undecided(o)
    BY <1>2 DEF Undecided
  <2>2. Done(o)' <=> Done(o)
    BY <1>2 DEF Done
  <2>3. Authenticated(o) => Authenticated(o)'
    <3>1. sigMsg[p].form # "unsent" => cert'[p] = cert[p] /\ sigMsg'[p].form # "unsent"
      BY <1>1 DEF Loads, Sends, AuthInv, OwnMessages, Early
    <3> QED
      BY <1>1, <1>2, <1>4, <3>1 DEF Authenticated
  <2> QED
    BY <1>1, <1>2, <1>4, <2>1, <2>2, <2>3 DEF AuthInv, PeerKnown
<1>8. PeerKnown(p)'
  <2>1. Undecided(p)' => Undecided(p)
    BY <1>1 DEF StepsTo, Undecided, Early, Setup
  <2>2. CASE LearnsNothing(p)
    <3>1. Authenticated(p)' <=> Authenticated(p)
      BY <1>1, <1>2, <2>2 DEF Authenticated, LearnsNothing
    <3>2. p = "server" /\ certMsg["client"].form = "empty" => ~SSL_is_using_1609_other_side(p)
      <4>1. decided["client"]["client"] \in CertTypes \cup {"none"}
        BY DEF TypeOK, Sides
      <4> QED
        BY <4>1, SidesFacts DEF AuthInv, EmptyListInv, NegInv, CertTypes, Sides
    <3>3. p = "server" /\ rfc8902[p] = "on" /\ hs[p] = "cv_sent" => verifyPeer # "no"
      BY DEF AuthInv, AskedInv, Early, Setup
    <3> QED
      BY <1>1, <2>1, <2>2, <3>1, <3>2, <3>3 DEF LearnsNothing, AuthInv, PeerKnown
  <2>3. CASE LearnsHash(p)
    BY <1>1, <2>1, <2>3 DEF LearnsHash, AuthInv, PeerKnown, Done, TypeOK
  <2>4. CASE LearnsPsid(p)
    <3>1. hash[p] = cert[o] /\ sigMsg[o].psid = psidThis[o] /\ sigMsg[o].form = "1609"
      BY <1>2, <2>4 DEF LearnsPsid, EntityVerifies, AuthInv, OwnMessages
    <3>2. hash[p] \in ValidCerts /\ SSL_is_using_1609_other_side(p)
      BY <2>4, HandshakeAssumption DEF LearnsPsid, EntityVerifies, AuthInv, PeerKnown
    <3>3. psidOther'[p] = psidThis[o]
      BY <2>4, <3>1 DEF LearnsPsid, TypeOK
    <3>4. Authenticated(p)'
      BY <1>1, <1>2, <2>4, <3>1, <3>2, <3>3 DEF LearnsPsid, Authenticated
    <3>5. ~Undecided(p)' /\ hs'[p] = "peer_cv"
      BY <2>4 DEF LearnsPsid, Undecided, Early, Setup
    <3> QED
      BY <1>1, <3>2, <3>4, <3>5 DEF PeerKnown
  <2> QED
    BY <1>3, <2>2, <2>3, <2>4
<1>9. EmptyListInv'
  <2>1. CASE p = "server"
    BY <1>1, <1>2, <2>1, SidesFacts DEF AuthInv, EmptyListInv, Undecided
  <2>2. CASE p = "client"
    <3>1. Undecided("client")' => Undecided("client")
      BY <1>1, <2>2 DEF StepsTo, Undecided, Early, Setup
    <3>2. Undecided("client") => Undecided("client")' \/ hs'["client"] = "failed"
      BY <1>3, <2>2 DEF LearnsNothing, LearnsHash, LearnsPsid, Undecided, Early, Setup
    <3>3. certMsg'["client"] # certMsg["client"] =>
             ~Undecided("client") /\ hs["client"] # "failed"
      BY <1>1, <2>2 DEF Sends, Undecided, Early, Setup
    <3>4. hs["client"] # "failed"
      BY <1>1, <2>2 DEF StepsTo
    <3>5. certMsg'["client"].form = "empty" =>
             /\ decided["client"]["client"] # "1609"
             /\ \A k \in Sides : answer[k] = decided["client"][k]
      BY <1>1, <2>2, <3>3 DEF Sends, AuthInv, EmptyListInv
    <3> QED
      BY <1>1, <3>1, <3>2, <3>3, <3>4, <3>5 DEF AuthInv, EmptyListInv
  <2> QED
    BY <2>1, <2>2 DEF Sides
<1>10. AskedInv'
  <2>1. CASE p = "server"
    <3>1. hs'["server"] \notin Early \cup {"failed"} => hs["server"] \notin Early \cup {"failed"}
      BY <1>1, <1>3, <2>1 DEF StepsTo, LearnsNothing, LearnsHash, LearnsPsid, Undecided,
                              Early, Setup
    <3> QED
      BY <1>1, <3>1 DEF AuthInv, AskedInv
  <2>2. CASE p = "client"
    BY <1>1, <1>2, <2>2, SidesFacts DEF AuthInv, AskedInv
  <2> QED
    BY <2>1, <2>2 DEF Sides
<1> HIDE DEF o
<1> QED
  BY <1>2, <1>5, <1>6, <1>7, <1>8, <1>9, <1>10 DEF AuthInv

\* The hellos come before anything is known of the peer.
LEMMA HelloAuthInv == ASSUME TypeOK, NegInv, AuthInv, Hellos PROVE AuthInv'
<1> USE DEF config, msgs, result, SSL_is_using_1609_other_side
<1>1. UNCHANGED <<rfc8902, psidThis, cert, certMsg, sigMsg, hash, psidOther>>
  BY DEF Hellos, tls_construct_ctos, tls_parse_ctos, tls_construct_stoc, tls_parse_stoc, Fail
<1>2. ASSUME NEW p \in Sides, NEW phase \in {"hello_sent", "negotiated", "failed"}, Go(p, phase),
             decided' = [decided EXCEPT ![p] = decided'[p]],
             decided'[p] # decided[p] => Undecided(p),
             Undecided(p)' => Undecided(p)
      PROVE  \A q \in Sides : OwnMessages(q)' /\ PeerKnown(q)'
  <2>1. hs'[p] = phase /\ \A q \in Sides \ {p} : hs'[q] = hs[q] /\ decided'[q] = decided[q]
    BY <1>2 DEF Go, TypeOK
  <2>2. \A q \in Sides : OwnMessages(q)'
    BY <1>1, <2>1 DEF AuthInv, OwnMessages, Early, Setup
  <2>3. \A q \in Sides : Authenticated(q) => Authenticated(q)'
    BY <1>1 DEF Authenticated
  <2>4. \A q \in Sides \ {p} : PeerKnown(q)'
    BY <1>1, <2>1, <2>3 DEF AuthInv, PeerKnown, Undecided, Done
  <2>5. PeerKnown(p)'
    BY <1>1, <1>2, <2>1 DEF AuthInv, PeerKnown, Done
  <2> QED
    BY <2>2, <2>4, <2>5
<1> USE DEF Setup, Early, Sides
<1>3. CASE tls_construct_ctos
  <2>1. UNCHANGED <<decided, answer, verifyPeer>> /\ hs["client"] = "ready"
        /\ Go("client", "hello_sent")
    BY <1>3 DEF tls_construct_ctos
  <2>2. hs'["client"] = "hello_sent" /\ hs'["server"] = hs["server"]
    BY <2>1 DEF Go, TypeOK
  <2>3. \A q \in Sides : OwnMessages(q)' /\ PeerKnown(q)'
    BY <1>2, <2>1 DEF Undecided, TypeOK
  <2>4. EmptyListInv' /\ AskedInv'
    BY <1>1, <2>1, <2>2 DEF AuthInv, EmptyListInv, AskedInv, Undecided
  <2> QED
    BY <2>3, <2>4 DEF AuthInv
<1>4. CASE tls_parse_ctos
  <2>1. /\ decided' = [decided EXCEPT !["server"] = decided'["server"]]
        /\ UNCHANGED answer /\ hs["server"] = "ready"
    BY <1>4 DEF tls_parse_ctos, Fail, TypeOK
  <2>2. PICK phase \in {"negotiated", "failed"} : Go("server", phase)
    BY <1>4 DEF tls_parse_ctos, Fail
  <2>3. hs'["client"] = hs["client"] /\ hs'["server"] = phase /\ decided'["client"] = decided["client"]
    BY <2>1, <2>2 DEF Go, TypeOK
  <2>4. \A q \in Sides : OwnMessages(q)' /\ PeerKnown(q)'
    BY <1>2, <2>1, <2>2 DEF Undecided
  <2>5. EmptyListInv'
    BY <1>1, <2>1, <2>3 DEF AuthInv, EmptyListInv, Undecided
  <2>6. AskedInv'
    BY <1>1, <1>4, <2>3 DEF tls_parse_ctos, Fail, Go, TypeOK, AskedInv
  <2> QED
    BY <2>4, <2>5, <2>6 DEF AuthInv
<1>5. CASE tls_construct_stoc
  <2>1. /\ UNCHANGED <<decided, verifyPeer>> /\ hs["server"] = "negotiated"
        /\ answer' = decided["server"] /\ Go("server", "hello_sent")
    BY <1>5 DEF tls_construct_stoc
  <2>2. hs'["client"] = hs["client"] /\ hs'["server"] = "hello_sent"
    BY <2>1 DEF Go, TypeOK
  <2>3. \A q \in Sides : OwnMessages(q)' /\ PeerKnown(q)'
    BY <1>2, <2>1, <2>2 DEF Undecided, TypeOK
  <2>4. \A k \in Sides : answer[k] = decided["client"][k] => answer'[k] = decided["client"][k]
    <3>1. \A k \in Sides : decided["client"][k] # "unsent"
      BY DEF TypeOK, CertTypes
    <3> QED
      BY <2>1, <3>1 DEF NegInv
  <2>5. EmptyListInv' /\ AskedInv'
    BY <1>1, <2>1, <2>2, <2>4 DEF AuthInv, EmptyListInv, AskedInv, Undecided
  <2> QED
    BY <2>3, <2>5 DEF AuthInv
<1>6. CASE tls_parse_stoc
  <2>1. /\ decided' = [decided EXCEPT !["client"] = decided'["client"]]
        /\ UNCHANGED <<answer, verifyPeer>> /\ hs["client"] = "hello_sent"
    BY <1>6 DEF tls_parse_stoc, Fail, TypeOK
  <2>2. PICK phase \in {"negotiated", "failed"} :
           Go("client", phase) /\ (phase # "failed" => decided'["client"] = answer)
    BY <1>6 DEF tls_parse_stoc, Fail, TypeOK
  <2>3. hs'["server"] = hs["server"] /\ hs'["client"] = phase
    BY <2>2 DEF Go, TypeOK
  <2>4. \A q \in Sides : OwnMessages(q)' /\ PeerKnown(q)'
    BY <1>2, <2>1, <2>2 DEF Undecided
  <2>5. EmptyListInv' /\ AskedInv'
    BY <1>1, <2>1, <2>2, <2>3 DEF AuthInv, EmptyListInv, AskedInv, Undecided
  <2> QED
    BY <2>4, <2>5 DEF AuthInv
<1> QED
  BY <1>3, <1>4, <1>5, <1>6 DEF Hellos

\* Every step keeps the authentication invariant.
LEMMA NextAuthInv == TypeOK /\ NegInv /\ AuthInv /\ [Next]_vars => AuthInv'
<1> SUFFICES ASSUME TypeOK, NegInv, AuthInv, [Next]_vars PROVE AuthInv'
  OBVIOUS
<1>1. CASE UNCHANGED vars
  BY <1>1 DEF vars, AuthInv, OwnMessages, PeerKnown, Authenticated, EmptyListInv, AskedInv,
              Undecided, Done, SSL_is_using_1609_other_side
<1>2. CASE Next
  BY <1>2, SideAuthInv, HelloAuthInv DEF Next
<1> QED
  BY <1>1, <1>2

\* Every step keeps the recorded SSP consistent.
LEMMA NextSspInv ==
    TypeOK /\ (\A p \in Sides : SspInv(p)) /\ [Next]_vars => \A p \in Sides : SspInv(p)'
<1> SUFFICES ASSUME TypeOK, \A p \in Sides : SspInv(p), [Next]_vars
             PROVE  \A p \in Sides : SspInv(p)'
  OBVIOUS
<1> USE DEF config, msgs, result
<1>1. CASE UNCHANGED vars
  BY <1>1 DEF vars, SspInv, Done
<1>2. ASSUME NEW p \in Sides, NEW phase \in {"hello_sent", "negotiated", "failed"}, Go(p, phase),
             UNCHANGED result, hs[p] \in {"ready", "hello_sent", "negotiated"}
      PROVE  \A q \in Sides : SspInv(q)'
  <2>1. ~Done(p) /\ hs[p] # "failed"
    BY <1>2 DEF Done
  <2>2. \A q \in Sides \ {p} : hs'[q] = hs[q]
    BY <1>2 DEF Go, TypeOK
  <2> QED
    BY <1>2, <2>1, <2>2 DEF SspInv, Done
<1>3. CASE Hellos
  BY <1>2, <1>3 DEF Hellos, tls_construct_ctos, tls_parse_ctos, tls_construct_stoc,
                    tls_parse_stoc, Fail, Sides
<1>4. ASSUME NEW p \in Sides, SideNext(p) PROVE \A q \in Sides : SspInv(q)'
  <2>1. StepsTo(p)
    BY <1>4, SideFrame
  <2>2. LearnsNothing(p) \/ LearnsHash(p) \/ LearnsPsid(p)
    BY <1>4, PeerFrame
  <2>3. \A q \in Sides \ {p} :
           /\ hs'[q] = hs[q] /\ hash'[q] = hash[q]
           /\ sspLen'[q] = sspLen[q] /\ sspBytes'[q] = sspBytes[q]
    BY <2>1, <2>2 DEF StepsTo, LearnsNothing, LearnsHash, LearnsPsid, TypeOK
  <2>4. \A q \in Sides \ {p} : SspInv(q)'
    BY <2>3 DEF SspInv, Done
  <2>5. ASSUME LearnsNothing(p) PROVE SspInv(p)'
    BY <2>1, <2>5 DEF LearnsNothing, StepsTo, SspInv
  <2>6. ASSUME LearnsHash(p) PROVE SspInv(p)'
    BY <2>6 DEF LearnsHash, SspInv, Done
  <2>7. ASSUME LearnsPsid(p) PROVE SspInv(p)'
    BY <2>7 DEF LearnsPsid, SspInv, Done
  <2> QED
    BY <2>2, <2>4, <2>5, <2>6, <2>7
<1> QED
  BY <1>1, <1>3, <1>4 DEF Next

HandshakeInv == TypeOK /\ NegInv /\ CertInv /\ AuthInv /\ \A p \in Sides : SspInv(p)

\* The four layers together are an invariant of the handshake.
THEOREM HandshakeInvariant == Spec => []HandshakeInv
<1>1. Init => HandshakeInv
  BY InitTypeOK, InitNegInv, InitCertInv, InitAuthInv DEF HandshakeInv
<1>2. HandshakeInv /\ [Next]_vars => HandshakeInv'
  BY NextTypeOK, NextNegInv, NextCertInv, NextAuthInv, NextSspInv DEF HandshakeInv
<1> QED
  BY <1>1, <1>2, PTL DEF Spec

\* A connected side with a 1609.2 peer holds the hash of the peer's own, accepted
\* certificate and the PSID the peer signed with, and no other side holds a PSID
\* (IEEE1609_CERT_verify, tls_process_IEEE1609_CERT_cert_verify): for every set of
\* certificates and every configuration, against any peer, whichever request fails.
THEOREM HandshakeAuthenticates == Spec => []PeerAuthenticated
<1>1. HandshakeInv => PeerAuthenticated
  BY DEF HandshakeInv, AuthInv, PeerKnown, Authenticated, Done, PeerAuthenticated
<1> QED
  BY <1>1, HandshakeInvariant, PTL

\* The recorded SSP length stays within ssp_other_side, and stored SSP bytes belong
\* to the certificate whose hash is recorded, whatever lengths the entities report.
THEOREM HandshakeSspWithinBuffer == Spec => []SspWithinBuffer
<1>1. HandshakeInv => SspWithinBuffer
  BY DEF HandshakeInv, SspInv, SspWithinBuffer
<1> QED
  BY <1>1, HandshakeInvariant, PTL
=============================================================================
