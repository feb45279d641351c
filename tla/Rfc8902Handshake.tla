-------------------------- MODULE Rfc8902Handshake --------------------------
(***************************************************************************)
(* The RFC 8902 additions to the TLS 1.3 handshake of the vendored OpenSSL *)
(* (ssl/ieee1609dot2.c, ssl/statem/extensions_ieee1609dot2.c and the hooks *)
(* in ssl_cert.c, statem_lib.c, statem_clnt.c, statem_srvr.c): each side   *)
(* loads its IEEE 1609.2 certificate from its security entity, the two     *)
(* certificate-type extensions are negotiated, and each side has the       *)
(* other's certificate and CertificateVerify checked by its own entity.    *)
(*                                                                         *)
(* TLS runs over TCP and every handshake message is sent once, so a        *)
(* message is a variable written once; the receiver takes them in order.   *)
(* A request to an entity is one step (module SecEntCall): it gives the    *)
(* expected answer or fails, and every caller treats NULL and an answer of *)
(* another type alike.  A side that failed is not looked at again, so the  *)
(* partial results of a failing step are left out.                         *)
(***************************************************************************)
EXTENDS Integers

CONSTANTS Certs,      \* the 1609.2 certificates; a hashedid8 names its certificate
          NoCert,     \* no certificate, no hash
          Garbage,    \* a hashedid8 read past the end of a short answer
          OwnCerts,   \* the certificates each side's entity holds for it
          ValidCerts, \* the certificates the entities accept
          SspLenOf,   \* length of the SSP the entities report for a certificate
          Psids,      \* the PSIDs a side may be told to sign with
          MaxSspLen   \* MAX_SSP_LEN

Sides == {"client", "server"}
Other(p) == IF p = "client" THEN "server" ELSE "client"

ASSUME HandshakeAssumption ==
    /\ NoCert \notin Certs
    /\ Garbage \notin Certs
    /\ Garbage # NoCert
    /\ OwnCerts \in [Sides -> SUBSET Certs]
    /\ ValidCerts \subseteq Certs
    /\ SspLenOf \in [Certs -> Nat]
    /\ Psids \subseteq Nat
    /\ MaxSspLen \in Nat

CertTypes == {"X509", "1609"}

VARIABLES
    rfc8902,    \* "on", "off" (never enabled), or "foreign": another TLS stack
    support,    \* support[p][k]: types p allows for the certificate of side k
    decided,    \* decided[p][k]: type p has decided on for it (type_decided)
    psidThis,   \* psid_this_side
    cert,       \* the certificate p has loaded
    hs,         \* progress of each side's handshake
    verifyPeer, \* the server asks for a client certificate: "no" or "yes"
    offer,      \* ClientHello: the types offered for each side's certificate
    answer,     \* ServerHello: the type chosen for each, "none" if absent
    certMsg,    \* Certificate message of each side
    sigMsg,     \* CertificateVerify message of each side
    hash,       \* hashedid8 recorded in the peer's certificate
    psidOther,  \* psid_other_side
    sspLen,     \* ssp_other_side_len
    sspBytes    \* whose SSP ssp_other_side holds

config == <<rfc8902, support, psidThis>>
msgs   == <<offer, answer, certMsg, sigMsg>>
result == <<hash, psidOther, sspLen, sspBytes>>
vars   == <<rfc8902, support, psidThis, decided, cert, hs, verifyPeer, offer, answer,
            certMsg, sigMsg, hash, psidOther, sspLen, sspBytes>>

Ended == {"connected", "failed"}
Phases == {"new", "addr", "enabled", "ready", "negotiated", "hello_sent",
           "cert_sent", "cv_sent", "peer_cert", "peer_recheck", "peer_cv"} \cup Ended

CertMsgs == [form : CertTypes \cup {"unsent", "empty"}, id : Certs \cup {NoCert}]
SigMsgs  == [form : CertTypes \cup {"unsent"}, psid : Nat, hash : Certs \cup {NoCert}]

TypeOK ==
    /\ rfc8902 \in [Sides -> {"on", "off", "foreign"}]
    /\ support \in [Sides -> [Sides -> SUBSET CertTypes]]
    /\ decided \in [Sides -> [Sides -> CertTypes \cup {"none"}]]
    /\ psidThis \in [Sides -> Nat]
    /\ cert \in [Sides -> Certs \cup {NoCert}]
    /\ hs \in [Sides -> Phases]
    /\ verifyPeer \in {"no", "yes"}
    /\ offer \in [Sides -> SUBSET CertTypes]
    /\ answer \in [Sides -> CertTypes \cup {"none", "unsent"}]
    /\ certMsg \in [Sides -> CertMsgs]
    /\ sigMsg \in [Sides -> SigMsgs]
    /\ hash \in [Sides -> Certs \cup {NoCert, Garbage}]
    /\ psidOther \in [Sides -> Nat]
    /\ sspLen \in [Sides -> Nat]
    /\ sspBytes \in [Sides -> Certs \cup {NoCert}]

Unsent == [form |-> "unsent", id |-> NoCert]
NoSig  == [form |-> "unsent", psid |-> 0, hash |-> NoCert]

\* CRYPTO_EX_SSL_IEEE1609_new for both sides, and the configuration the two
\* applications are about to ask for.  The client of this repository is "on";
\* a server that never asks keeps the default, X.509 for both.
Init ==
    /\ rfc8902 \in {f \in [Sides -> {"on", "off", "foreign"}] : f["client"] = "on"}
    /\ support \in [Sides -> [Sides -> SUBSET CertTypes]]
    /\ rfc8902["server"] # "on" => support["server"] = [k \in Sides |-> {"X509"}]
    /\ psidThis \in [Sides -> Psids]
    /\ decided = [p \in Sides |-> [k \in Sides |-> "none"]]
    /\ cert = [p \in Sides |-> NoCert]
    /\ hs = [p \in Sides |-> "new"]
    /\ verifyPeer = "no"
    /\ offer = [k \in Sides |-> {}]
    /\ answer = [k \in Sides |-> "unsent"]
    /\ certMsg = [p \in Sides |-> Unsent]
    /\ sigMsg = [p \in Sides |-> NoSig]
    /\ hash = [p \in Sides |-> NoCert]
    /\ psidOther = [p \in Sides |-> 0]
    /\ sspLen = [p \in Sides |-> 0]
    /\ sspBytes = [p \in Sides |-> NoCert]

-----------------------------------------------------------------------------
Go(p, phase) == hs' = [hs EXCEPT ![p] = phase]

Fail(p) ==
    /\ Go(p, "failed")
    /\ UNCHANGED <<config, decided, cert, verifyPeer, msgs, result>>

SSL_is_using_1609_this_side(p)  == decided[p][p] = "1609"
SSL_is_using_1609_other_side(p) == decided[p][Other(p)] = "1609"

-----------------------------------------------------------------------------
(* Setting up a side. *)

\* The address is stored and the entity pinged with GET_AT.
SSL_set_1609_sec_ent_addr(p) ==
    /\ hs[p] = "new" /\ rfc8902[p] = "on"
    /\ \/ /\ Go(p, "addr")
          /\ UNCHANGED <<config, decided, cert, verifyPeer, msgs, result>>
       \/ Fail(p)

\* A server that does not enable RFC 8902, or has its own way to (external).
OtherServerStarts(p) ==
    /\ hs[p] = "new" /\ rfc8902[p] # "on"
    /\ \E c \in {NoCert} \cup IF rfc8902[p] = "foreign" THEN OwnCerts[p] ELSE {} :
          cert' = [cert EXCEPT ![p] = c]
    /\ Go(p, "ready")
    /\ UNCHANGED <<config, decided, verifyPeer, msgs, result>>

\* Mutant: the entity is contacted only for the peer's certificate.
NeedsEntity_PeerOnly(p) == "1609" \in support[p][Other(p)]

\* The entity is contacted when 1609.2 is allowed for either side's certificate.
NeedsEntity(p) == \E k \in Sides : "1609" \in support[p][k]

\* What a successful GET_CERT may load; a GET_AT answer too short fails.
Loadable(p) == OwnCerts[p]

\* With use_AT the entity's current certificate is loaded (GET_AT, GET_CERT).
SSL_enable_RFC8902_support(p, use_AT) ==
    /\ hs[p] = "addr"
    /\ Go(p, IF use_AT THEN "ready" ELSE "enabled")
    /\ IF NeedsEntity(p) /\ use_AT
       THEN \E c \in Loadable(p) : cert' = [cert EXCEPT ![p] = c]
       ELSE UNCHANGED cert
    /\ UNCHANGED <<config, decided, verifyPeer, msgs, result>>

EnableFails(p) == hs[p] = "addr" /\ NeedsEntity(p) /\ Fail(p)

\* Without use_AT ssl_set_RFC8902_values has a certificate loaded by its hash.
SSL_use_1609_cert_by_hash(p) ==
    /\ hs[p] = "enabled"
    /\ \/ /\ \E c \in Loadable(p) : cert' = [cert EXCEPT ![p] = c]
          /\ Go(p, "ready")
          /\ UNCHANGED <<config, decided, verifyPeer, msgs, result>>
       \/ Fail(p)

-----------------------------------------------------------------------------
(* Negotiation of the certificate types. *)

\* ClientHello: tls_construct_ctos_cert_type_ext for both extensions.
tls_construct_ctos ==
    /\ hs["client"] = "ready"
    /\ offer' = support["client"]
    /\ Go("client", "hello_sent")
    /\ UNCHANGED <<config, decided, cert, verifyPeer, answer, certMsg, sigMsg, result>>

Common(k) == support["server"][k] \cap offer[k]

\* Mutant: X.509 is preferred.
Chosen_X509First(k) ==
    CASE "X509" \in Common(k) -> "X509"
      [] Common(k) = {"1609"} -> "1609"
      [] OTHER                -> "none"

\* The server's choice for the certificate of side k: 1609.2 first.
Chosen(k) ==
    CASE "1609" \in Common(k) -> "1609"
      [] Common(k) = {"X509"} -> "X509"
      [] OTHER                -> "none"

\* The server reads ClientHello: tls_parse_ctos_cert_type_ext for both
\* extensions, the client one also making it ask for a certificate.  A server
\* of this code base that did not enable RFC 8902 fails; a foreign one may skip
\* either extension or choose what it likes.
tls_parse_ctos ==
    /\ hs["server"] = "ready"
    /\ hs["client"] = "hello_sent"
    /\ \/ /\ rfc8902["server"] = "on"
          /\ \A k \in Sides : Chosen(k) # "none"
          /\ decided' = [decided EXCEPT !["server"] = [k \in Sides |-> Chosen(k)]]
          /\ verifyPeer' = "yes"
          /\ Go("server", "negotiated")
          /\ UNCHANGED <<config, cert, msgs, result>>
       \/ /\ rfc8902["server"] = "foreign"
          /\ \E types \in [Sides -> CertTypes \cup {"none"}] :
                decided' = [decided EXCEPT !["server"] = types]
          /\ verifyPeer' \in {"no", "yes"}
          /\ Go("server", "negotiated")
          /\ UNCHANGED <<config, cert, msgs, result>>
       \/ /\ \/ rfc8902["server"] = "off"
             \/ rfc8902["server"] = "on" /\ \E k \in Sides : Chosen(k) = "none"
          /\ Fail("server")

\* ServerHello: tls_construct_stoc_cert_type_ext for both extensions.
tls_construct_stoc ==
    /\ hs["server"] = "negotiated"
    /\ answer' = decided["server"]
    /\ Go("server", "hello_sent")
    /\ UNCHANGED <<config, decided, cert, verifyPeer, offer, certMsg, sigMsg, result>>

\* The check of tls_parse_stoc_cert_type_ext; an absent extension is not parsed.
Accepts(k) == answer[k] # "none" => answer[k] \in support["client"][k]

\* The client reads ServerHello.
tls_parse_stoc ==
    /\ hs["client"] = "hello_sent"
    /\ \A k \in Sides : answer[k] # "unsent"
    /\ \/ /\ \A k \in Sides : Accepts(k)
          /\ decided' = [decided EXCEPT !["client"] = answer]
          /\ Go("client", "negotiated")
          /\ UNCHANGED <<config, cert, verifyPeer, msgs, result>>
       \/ /\ \E k \in Sides : ~Accepts(k)
          /\ Fail("client")

-----------------------------------------------------------------------------
(* Certificate and CertificateVerify, sent by either side. *)

\* Mutant: a client without a certificate sends no Certificate message at all.
MaySendCertificate_IfLoaded(p) ==
    \/ p = "client" /\ hs[p] = "peer_cv" /\ verifyPeer = "yes" /\ cert[p] # NoCert
    \/ p = "server" /\ hs[p] = "hello_sent"

\* The server sends its certificate after ServerHello; the client when it has
\* processed the server's and was asked for one.
MaySendCertificate(p) ==
    \/ p = "client" /\ hs[p] = "peer_cv" /\ verifyPeer = "yes"
    \/ p = "server" /\ hs[p] = "hello_sent"

\* ssl_add_cert_chain.  With 1609.2 the bytes of the loaded certificate go out,
\* otherwise an X.509 one (the stand-in that wraps the 1609.2 certificate, if
\* that is all there is), or an empty list from a client without one.
SendCertificate(p) ==
    /\ MaySendCertificate(p)
    /\ \/ /\ SSL_is_using_1609_this_side(p)
          /\ certMsg' = [certMsg EXCEPT ![p] = [form |-> "1609", id |-> cert[p]]]
          /\ Go(p, "cert_sent")
       \/ /\ ~SSL_is_using_1609_this_side(p)
          /\ p = "server" \/ cert[p] # NoCert
          /\ certMsg' = [certMsg EXCEPT ![p] = [form |-> "X509", id |-> NoCert]]
          /\ Go(p, "cert_sent")
       \/ /\ ~SSL_is_using_1609_this_side(p)
          /\ p = "client" /\ cert[p] = NoCert
          /\ certMsg' = [certMsg EXCEPT ![p] = [form |-> "empty", id |-> NoCert]]
          /\ Go(p, "cv_sent")
    /\ UNCHANGED <<config, decided, cert, verifyPeer, offer, answer, sigMsg, result>>

\* SIGN_DATA for this side's PSID and the hash of its certificate.
tls_construct_IEEE1609_CERT_cert_verify(p) ==
    [form |-> "1609", psid |-> psidThis[p], hash |-> cert[p]]

\* CertificateVerify: signed by the entity, or with the X.509 private key.
tls_construct_cert_verify(p) ==
    /\ hs[p] = "cert_sent"
    /\ \/ /\ sigMsg' = [sigMsg EXCEPT ![p] =
                 IF SSL_is_using_1609_this_side(p)
                 THEN tls_construct_IEEE1609_CERT_cert_verify(p)
                 ELSE [form |-> "X509", psid |-> 0, hash |-> NoCert]]
          /\ Go(p, "cv_sent")
          /\ UNCHANGED <<config, decided, cert, verifyPeer, offer, answer, certMsg, result>>
       \/ Fail(p)

-----------------------------------------------------------------------------
(* Certificate and CertificateVerify, received by either side. *)

\* VERIFY_CERTS: the entity accepts the received bytes (external).
EntityAccepts(m) == m.form = "1609" /\ m.id \in ValidCerts

\* Mutant: a refusal of the entity is taken for its approval.
IEEE1609_CERT_verify_AnyAnswer(p, phase) ==
    /\ certMsg[Other(p)].id \in Certs
    /\ hash' = [hash EXCEPT ![p] = certMsg[Other(p)].id]
    /\ Go(p, phase)
    /\ UNCHANGED <<config, decided, cert, verifyPeer, msgs, psidOther, sspLen, sspBytes>>

\* IEEE1609_CERT_verify: on success the hash of the peer's certificate is taken
\* from the first 8 bytes of the answer, whatever its length.
IEEE1609_CERT_verify(p, phase) ==
    \/ /\ EntityAccepts(certMsg[Other(p)])
       /\ \E h \in {certMsg[Other(p)].id, Garbage} : hash' = [hash EXCEPT ![p] = h]
       /\ Go(p, phase)
       /\ UNCHANGED <<config, decided, cert, verifyPeer, msgs, psidOther, sspLen, sspBytes>>
    \/ Fail(p)

\* ssl_verify_cert_chain on the received certificate, taken as 1609.2 bytes or
\* parsed as X.509.
ProcessCertificate(p) ==
    \/ /\ SSL_is_using_1609_other_side(p)
       /\ IEEE1609_CERT_verify(p, "peer_cert")
    \/ /\ ~SSL_is_using_1609_other_side(p)
       /\ \/ /\ certMsg[Other(p)].form = "X509"
             /\ Go(p, "peer_cert")
             /\ UNCHANGED <<config, decided, cert, verifyPeer, msgs, result>>
          \/ Fail(p)

\* The client reads the server's Certificate, and post-processes it.
tls_process_server_certificate ==
    /\ hs["client"] = "negotiated"
    /\ certMsg["server"].form # "unsent"
    /\ ProcessCertificate("client")

\* The server reads the client's Certificate, if it asked for one.  An empty
\* list is accepted by a server of this code base: tls_parse_ctos_clnt_type_ext
\* replaced its verify mode.
tls_process_client_certificate ==
    /\ hs["server"] = "cv_sent" /\ verifyPeer = "yes"
    /\ certMsg["client"].form # "unsent"
    /\ \/ /\ certMsg["client"].form # "empty"
          /\ ProcessCertificate("server")
       \/ /\ certMsg["client"].form = "empty"
          /\ Go("server", "peer_cv")
          /\ UNCHANGED <<config, decided, cert, verifyPeer, msgs, result>>
       \/ /\ certMsg["client"].form = "empty" /\ rfc8902["server"] = "foreign"
          /\ Fail("server")

\* tls_process_cert_verify, first request: the certificate is verified again.
\* An X.509 signature is checked with the public key instead.
tls_process_cert_verify(p) ==
    /\ hs[p] = "peer_cert"
    /\ sigMsg[Other(p)].form # "unsent"
    /\ \/ /\ SSL_is_using_1609_other_side(p)
          /\ IEEE1609_CERT_verify(p, "peer_recheck")
       \/ /\ ~SSL_is_using_1609_other_side(p)
          /\ \/ /\ Go(p, "peer_cv")
                /\ UNCHANGED <<config, decided, cert, verifyPeer, msgs, result>>
             \/ Fail(p)

\* VERIFY_DATA: the entity knows the certificate with that hash and accepts the
\* signature for it (external).
EntityVerifies(sig, h) == sig.form = "1609" /\ sig.hash = h /\ h \in Certs

\* Mutant: the upper bound on the answer's length is not checked.
SspFits_AnyLength(len) == TRUE

\* The length check on the answer: an SSP of at most MAX_SSP_LEN.
SspFits(len) == len <= MaxSspLen

\* The SSP is stored when 0 < length < MAX_SSP_LEN; only its length otherwise.
SspStored(len) == len > 0 /\ len < MaxSspLen

\* tls_process_IEEE1609_CERT_cert_verify: VERIFY_DATA, then the PSID and the
\* SSP the entity reports for the hash are recorded.
tls_process_IEEE1609_CERT_cert_verify(p) ==
    /\ hs[p] = "peer_recheck"
    /\ \/ LET id == hash[p]
          IN  /\ EntityVerifies(sigMsg[Other(p)], id)
              /\ SspFits(SspLenOf[id])
              /\ sspLen' = [sspLen EXCEPT ![p] = SspLenOf[id]]
              /\ sspBytes' = IF SspStored(SspLenOf[id])
                             THEN [sspBytes EXCEPT ![p] = id] ELSE sspBytes
              /\ psidOther' = [psidOther EXCEPT ![p] = sigMsg[Other(p)].psid]
              /\ Go(p, "peer_cv")
              /\ UNCHANGED <<config, decided, cert, verifyPeer, msgs, hash>>
       \/ Fail(p)

-----------------------------------------------------------------------------
(* Finished, and the end of a connection the other side gave up (external). *)

Finished(p) ==
    /\ \/ p = "client" /\ hs[p] = "peer_cv" /\ verifyPeer = "no"
       \/ p = "client" /\ hs[p] = "cv_sent"
       \/ p = "server" /\ hs[p] = "peer_cv" /\ hs["client"] = "connected"
       \/ p = "server" /\ hs[p] = "cv_sent" /\ verifyPeer = "no" /\ hs["client"] = "connected"
    /\ Go(p, "connected")
    /\ UNCHANGED <<config, decided, cert, verifyPeer, msgs, result>>

\* The message this side waits for will not come: it reads an alert or EOF.
PeerGone(p) ==
    /\ hs[p] \notin Ended
    /\ hs[Other(p)] = "failed"
    /\ Fail(p)

SideNext(p) ==
    \/ SSL_set_1609_sec_ent_addr(p)
    \/ OtherServerStarts(p)
    \/ \E use_AT \in BOOLEAN : SSL_enable_RFC8902_support(p, use_AT)
    \/ EnableFails(p)
    \/ SSL_use_1609_cert_by_hash(p)
    \/ SendCertificate(p)
    \/ tls_construct_cert_verify(p)
    \/ p = "client" /\ tls_process_server_certificate
    \/ p = "server" /\ tls_process_client_certificate
    \/ tls_process_cert_verify(p)
    \/ tls_process_IEEE1609_CERT_cert_verify(p)
    \/ Finished(p)
    \/ PeerGone(p)

Hellos ==
    \/ tls_construct_ctos
    \/ tls_parse_ctos
    \/ tls_construct_stoc
    \/ tls_parse_stoc

Next == Hellos \/ \E p \in Sides : SideNext(p)

Spec == Init /\ [][Next]_vars

\* SSL_connect and SSL_accept run on blocking sockets, each in its own process,
\* and a request to an entity returns (AnsweredRequestReturns of SecEntExchange).
FairSpec == Spec /\ WF_vars(Hellos) /\ \A p \in Sides : WF_vars(SideNext(p))

-----------------------------------------------------------------------------
(* Properties. *)

Negotiated(p) == \E k \in Sides : decided[p][k] # "none"

\* What a server decides the client offered and the server allows, and it is
\* 1609.2 whenever both allow that; what a client decides it allows itself, and
\* the server decided the same (tls_parse_ctos_cert_type_ext,
\* tls_parse_stoc_cert_type_ext).
NegotiationAgrees ==
    \A k \in Sides :
        /\ rfc8902["server"] = "on" /\ Negotiated("server") =>
              /\ decided["server"][k] \in support["client"][k] \cap support["server"][k]
              /\ "1609" \in support["client"][k] \cap support["server"][k]
                    => decided["server"][k] = "1609"
        /\ Negotiated("client") =>
              /\ decided["client"][k] \in support["client"][k] \cup {"none"}
              /\ decided["client"][k] = decided["server"][k]

\* A side that negotiated 1609.2 for itself has a certificate loaded: the
\* certificate ssl_add_cert_chain sends and signs with is never NULL.
CertificateAtHand ==
    \A p \in Sides :
        rfc8902[p] = "on" /\ SSL_is_using_1609_this_side(p) => cert[p] # NoCert

\* A side with a 1609.2 peer that reached the end of the handshake has had the
\* peer's own certificate accepted, its hash recorded and a signature made with
\* that certificate verified; the PSID it reports is the one the peer signed
\* with.  No other peer ever gets a PSID (SSL_get_1609_psid_received).
PeerAuthenticated ==
    \A p \in Sides : rfc8902[p] = "on" =>
        /\ hs[p] = "connected" /\ SSL_is_using_1609_other_side(p) =>
              /\ hash[p] = cert[Other(p)]
              /\ hash[p] \in ValidCerts
              /\ psidOther[p] = psidThis[Other(p)]
        /\ psidOther[p] # 0 => SSL_is_using_1609_other_side(p)

\* The recorded SSP length never exceeds ssp_other_side, so what
\* SSL_get_1609_psid_received copies out stays inside it, and the bytes stored
\* are those of the authenticated peer.
SspWithinBuffer ==
    \A p \in Sides :
        /\ sspLen[p] <= MaxSspLen
        /\ sspBytes[p] # NoCert => sspBytes[p] = hash[p]

\* Either side's handshake comes to an end, whichever request or check fails.
HandshakeEnds == \A p \in Sides : <>(hs[p] \in Ended)

\* "SSP mathing cert and PSID used by the other side" (SSL_IEEE1609): a
\* recorded SSP is the peer's.
SspMatchesCert ==
    \A p \in Sides : sspLen[p] > 0 => sspBytes[p] = hash[p]
=============================================================================
