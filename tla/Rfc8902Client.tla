--------------------------- MODULE Rfc8902Client ---------------------------
(***************************************************************************)
(* The native client (rfc8902-client.cpp): http_get with its set-up steps, *)
(* the check of the peer's PSID and SSP, the request, the header loop, the *)
(* body loop and the two-step TLS shutdown, and the globals the JNI        *)
(* setters and getters work on.  The handshake is one step here            *)
(* (Rfc8902Handshake): it fails or leaves an authenticated peer.           *)
(*                                                                         *)
(* A read returns some of the reply's bytes, the peer's close_notify, an   *)
(* error, or is interrupted (SSL_ERROR_WANT_READ, which a signal causes    *)
(* on a blocking socket).  The JNI functions are all called by one         *)
(* background task at a time (DatexFetchHttp, an AsyncTask).               *)
(***************************************************************************)
EXTENDS HttpHeaders

CONSTANTS Options,   \* the [psid, ssp] the application may set
          Peers,     \* the [psid, ssp] of a peer; psid 0: no 1609.2 peer
          SspBuf,    \* sizeof(optCertSsp), 32
          Replies,   \* the [bytes, status] a server sends; status -1: unusable
          RecvLen,   \* bytes a read returns at most: sizeof(line), sizeof(buff)
          MaxCalls   \* bound: number of httpGet calls

\* A byte of an SSP is the set of its bits.
ASSUME ClientAssumption ==
    /\ \A o \in Options : o.psid \in Nat \ {0} /\ o.ssp \in Seq(SUBSET (0..7))
    /\ \A p \in Peers : p.psid \in Nat /\ p.ssp \in Seq(SUBSET (0..7))
                             /\ (p.psid = 0 => p.ssp = <<>>)
    /\ \A r \in Replies : r.status \in Int /\ r.bytes \in Seq(Bytes) /\ r.bytes # <<>>
                             /\ r.bytes[1] = "text"
    /\ SspBuf \in Nat \ {0}
    /\ RecvLen \in Nat \ {0}
    /\ MaxCalls \in Nat

NoPeer  == [psid |-> 0, ssp |-> <<>>]
NoReply == [bytes |-> <<>>, status |-> 0]
Resources == {"socket", "ctx", "ssl"}

VARIABLES
    opt,       \* the PSID and the SSP the application set last
    pc,        \* where http_get is
    held,      \* resources of this call that are not released
    leaked,    \* how many of each earlier calls left behind
    calls,     \* number of calls so far
    err,       \* result_error_code
    httpCode,  \* result_http_result_code
    ret,       \* what the last call returned
    peer,      \* the peer of this call's connection
    shown,     \* result_peer_cert_*: the peer the results speak of
    reply,     \* what the server sends on this connection
    pos,       \* how many bytes of it were read
    link,      \* "up", "eof" (close_notify received) or "dead"
    hdr,       \* the HttpHeaders object
    resp       \* result_http_response, as the positions of its bytes in reply

conn == <<peer, reply, pos, link, hdr>>
vars == <<opt, pc, held, leaked, calls, err, httpCode, ret, shown, resp,
          peer, reply, pos, link, hdr>>

\* The set-up steps: what a step acquires, the error code of its failure and
\* what its failure path releases.
Setup == [
    socket       |-> [next |-> "dns",          takes |-> {"socket"}, code |-> 1007, frees |-> {}],
    dns          |-> [next |-> "connect",      takes |-> {},         code |-> 1008, frees |-> {}],
    connect      |-> [next |-> "ctx_new",      takes |-> {},         code |-> 1009, frees |-> {"socket"}],
    ctx_new      |-> [next |-> "min_proto",    takes |-> {"ctx"},    code |-> 1010, frees |-> {"socket"}],
    min_proto    |-> [next |-> "ssl_new",      takes |-> {},         code |-> 1011, frees |-> {"socket", "ctx"}],
    ssl_new      |-> [next |-> "sec_ent_addr", takes |-> {"ssl"},    code |-> 1012, frees |-> {"socket", "ctx"}],
    sec_ent_addr |-> [next |-> "values",       takes |-> {},         code |-> 1004, frees |-> Resources],
    values       |-> [next |-> "set_fd",       takes |-> {},         code |-> 1013, frees |-> Resources],
    set_fd       |-> [next |-> "handshake",    takes |-> {},         code |-> 1014, frees |-> Resources]]

\* Mutant: the failure path of SSL_new forgets the context.
Frees_NotCtx(step) == Setup[step].frees \ {"ctx"}

Frees(step) == Setup[step].frees

TypeOK ==
    /\ opt \in Options
    /\ pc \in DOMAIN Setup \cup {"idle", "handshake", "status", "send", "send_loop", "headers",
                                 "reply", "body", "shutdown1", "drain", "shutdown2", "aborted"}
    /\ held \subseteq Resources
    /\ leaked \in [Resources -> Nat]
    /\ calls \in 0..MaxCalls
    /\ err \in {0} \cup 1000..1022
    /\ httpCode \in Int
    /\ ret \in {"none", "true", "false"}
    /\ peer \in Peers \cup {NoPeer}
    /\ shown \in Peers \cup {NoPeer}
    /\ reply \in Replies \cup {NoReply}
    /\ pos \in 0..Len(reply.bytes)
    /\ link \in {"up", "eof", "dead"}
    /\ hdr \in Headers
    /\ resp \in Seq(1..Len(reply.bytes))

Init ==
    /\ opt \in Options
    /\ pc = "idle"
    /\ held = {}
    /\ leaked = [r \in Resources |-> 0]
    /\ calls = 0
    /\ err = 0
    /\ httpCode = 0
    /\ ret = "none"
    /\ peer = NoPeer
    /\ shown = NoPeer
    /\ reply = NoReply
    /\ pos = 0
    /\ link = "up"
    /\ hdr = NoHeaders
    /\ resp = <<>>

-----------------------------------------------------------------------------
(* Setters, and the start and the end of a call. *)

\* What setSsp keeps of the SSP: as much as fits into a cleared array, and the
\* length of the whole.
optCertSspLen == Len(opt.ssp)
optCertSsp == [i \in 1..SspBuf |-> IF i <= optCertSspLen THEN opt.ssp[i] ELSE {}]

\* setPsid and setSsp, which are called one after the other before httpGet.
setPsid_setSsp ==
    /\ pc = "idle"
    /\ opt' \in Options \ {opt}
    /\ UNCHANGED <<pc, held, leaked, calls, err, httpCode, ret, shown, resp, conn>>

\* Mutant: the results of the peer's certificate are kept from the last call.
httpGet_KeepsPeer ==
    /\ pc = "idle" /\ calls < MaxCalls
    /\ calls' = calls + 1
    /\ pc' = "socket"
    /\ err' = 0 /\ httpCode' = 0 /\ ret' = "none"
    /\ peer' = NoPeer /\ reply' = NoReply /\ pos' = 0 /\ link' = "up"
    /\ hdr' = NoHeaders /\ resp' = <<>>
    /\ UNCHANGED <<opt, held, leaked, shown>>

\* httpGet clears the results and calls http_get.
httpGet ==
    /\ pc = "idle" /\ calls < MaxCalls
    /\ calls' = calls + 1
    /\ pc' = "socket"
    /\ err' = 0 /\ httpCode' = 0 /\ ret' = "none" /\ shown' = NoPeer
    /\ peer' = NoPeer /\ reply' = NoReply /\ pos' = 0 /\ link' = "up"
    /\ hdr' = NoHeaders /\ resp' = <<>>
    /\ UNCHANGED <<opt, held, leaked>>

\* http_get returns after an exit path that releases frees.
Leave(result, frees) ==
    /\ pc' = "idle"
    /\ ret' = result
    /\ held' = {}
    /\ leaked' = [r \in Resources |-> leaked[r] + IF r \in held \ frees THEN 1 ELSE 0]

Failure(code, frees) == err' = code /\ Leave("false", frees)

-----------------------------------------------------------------------------
(* From the socket to the authenticated peer. *)

SetupStep ==
    /\ pc \in DOMAIN Setup
    /\ \/ /\ pc' = Setup[pc].next
          /\ held' = held \cup Setup[pc].takes
          /\ UNCHANGED <<leaked, err, ret>>
       \/ Failure(Setup[pc].code, Frees(pc))
    /\ UNCHANGED <<opt, calls, httpCode, shown, resp, conn>>

SSL_connect ==
    /\ pc = "handshake"
    /\ \/ /\ pc' = "status"
          /\ peer' \in Peers
          /\ reply' \in Replies
          /\ UNCHANGED <<held, leaked, err, ret>>
       \/ /\ Failure(1015, Resources)
          /\ UNCHANGED <<peer, reply>>
    /\ UNCHANGED <<opt, calls, httpCode, shown, resp, pos, link, hdr>>

\* Mutant: the version byte takes part in the check for a common bit.
CommonBit_FromZero(a, b) == \E i \in DOMAIN a \cap DOMAIN b : a[i] \cap b[i] # {}

\* Some byte after the version byte has a bit in common.
CommonBit(a, b) == \E i \in DOMAIN a \cap DOMAIN b : i > 1 /\ a[i] \cap b[i] # {}

\* The SSP the check reads: of optCertSspLen bytes, those that are not in the
\* array from the memory after it, which may hold anything (past).
SspRead(past) ==
    [i \in 1..optCertSspLen |-> IF i <= SspBuf THEN optCertSsp[i] ELSE past[i]]

\* The checks of ssl_print_1609_status in their order; 0 when all pass.  The
\* result of SSL_get_verify_result is X509_V_OK for every peer with a PSID.
StatusError(ssp) ==
    CASE peer.psid = 0 -> 1005
      [] peer.psid # 0 /\ peer.psid # opt.psid -> 1000
      [] peer.psid = opt.psid /\ ssp # <<>> /\ peer.ssp = <<>> -> 1022
      [] peer.psid = opt.psid /\ ssp # <<>> /\ peer.ssp # <<>>
            /\ peer.ssp[1] # ssp[1] -> 1021
      [] peer.psid = opt.psid /\ ssp # <<>> /\ peer.ssp # <<>>
            /\ peer.ssp[1] = ssp[1] /\ ~CommonBit(ssp, peer.ssp) -> 1020
      [] OTHER -> 0

\* ssl_print_1609_status: the results of the peer are set before the checks.
ssl_print_1609_status ==
    /\ pc = "status"
    /\ shown' = peer
    /\ \E past \in [(SspBuf + 1)..optCertSspLen -> SUBSET (0..7)] :
          LET code == StatusError(SspRead(past))
          IN  \/ code = 0 /\ pc' = "send" /\ UNCHANGED <<held, leaked, err, ret>>
              \/ code # 0 /\ Failure(code, Resources)
    /\ UNCHANGED <<opt, calls, httpCode, resp, conn>>

-----------------------------------------------------------------------------
(* The request and its reply. *)

\* ssl_send_message.  A failed SSL_write does not leave the loop: the negative
\* return value moves start back, and the write is repeated.
ssl_send_message ==
    /\ pc = "send"
    /\ pc' \in {"headers", "send_loop"}
    /\ UNCHANGED <<opt, held, leaked, calls, err, httpCode, ret, shown, resp, conn>>

SendRetry == pc = "send_loop" /\ UNCHANGED vars

Rest == Len(reply.bytes) - pos
Positions(from, to) == [i \in 1..(to - from) |-> from + i]

\* Outcomes of ssl_recv_message other than data.
AtEof       == link = "up" /\ Rest = 0 /\ link' = "eof" /\ UNCHANGED err
ReadError   == link # "eof" /\ link' = "dead" /\ err' = 1001
Interrupted == link = "up" /\ link' = link /\ err' = 1001

\* The header loop.
HeaderData ==
    /\ pc = "headers" /\ link = "up"
    /\ \E n \in 1..RecvLen :
          /\ n <= Rest
          /\ LET st == add_data(hdr, SubSeq(reply.bytes, pos + 1, pos + n))
             IN  /\ hdr' = st.hdr
                 /\ pc' = IF is_complete(st.hdr) THEN "reply" ELSE "headers"
                 /\ resp' = IF is_complete(st.hdr)
                            THEN Positions(pos + n - st.surplus, pos + n) ELSE <<>>
          /\ pos' = pos + n
    /\ UNCHANGED <<opt, held, leaked, calls, err, httpCode, ret, shown, peer, reply, link>>

HeaderNoData ==
    /\ pc = "headers"
    /\ \/ AtEof /\ pc' = "reply" /\ UNCHANGED <<held, leaked, ret>>
       \/ ReadError /\ Leave("false", Resources)
       \/ Interrupted /\ UNCHANGED <<pc, held, leaked, ret>>
    /\ UNCHANGED <<opt, calls, httpCode, shown, resp, peer, reply, pos, hdr>>

\* The status line and the length are parsed; an incomplete header or one that
\* does not parse throws, and nothing catches it.
get_reply_status ==
    /\ pc = "reply"
    /\ \/ /\ is_complete(hdr) /\ reply.status # -1
          /\ httpCode' = reply.status
          /\ pc' = "body"
       \/ /\ ~is_complete(hdr) \/ reply.status = -1
          /\ pc' = "aborted"
          /\ UNCHANGED httpCode
    /\ UNCHANGED <<opt, held, leaked, calls, err, ret, shown, resp, conn>>

Appended(n) == resp \o Positions(pos, pos + n)

\* Mutant: the loops only end when a read fails, not at the end of the data.
BodyLoop_UntilError ==
    /\ pc \in {"body", "drain"}
    /\ \/ /\ link = "up"
          /\ \E n \in 1..RecvLen :
                n <= Rest /\ resp' = Appended(n) /\ pos' = pos + n
          /\ UNCHANGED <<pc, err, link>>
       \/ /\ ReadError \/ Interrupted
          /\ pc' = IF pc = "body" THEN "shutdown1" ELSE "shutdown2"
          /\ UNCHANGED <<resp, pos>>
       \/ AtEof /\ UNCHANGED <<pc, resp, pos>>
    /\ UNCHANGED <<opt, held, leaked, calls, httpCode, ret, shown, peer, reply, hdr>>

\* The body loop, and the one that drains the connection after SSL_shutdown;
\* a read that returns no data ends either.
BodyLoop ==
    /\ pc \in {"body", "drain"}
    /\ \/ /\ link = "up"
          /\ \E n \in 1..RecvLen :
                n <= Rest /\ resp' = Appended(n) /\ pos' = pos + n
          /\ UNCHANGED <<pc, err, link>>
       \/ /\ AtEof \/ ReadError \/ Interrupted
          /\ pc' = IF pc = "body" THEN "shutdown1" ELSE "shutdown2"
          /\ UNCHANGED <<resp, pos>>
    /\ UNCHANGED <<opt, held, leaked, calls, httpCode, ret, shown, peer, reply, hdr>>

\* Mutant: the second SSL_shutdown only counts as failed when it is negative.
Shutdown2Fails_Never == FALSE

\* The second SSL_shutdown reads on for the peer's close_notify.
Shutdown2Fails == link # "eof"

\* SSL_shutdown: 1 when the peer's close_notify was received, 0 when only ours
\* was sent, negative when sending it failed.
SSL_shutdown ==
    /\ \/ /\ pc = "shutdown1" /\ link = "eof"
          /\ Leave("true", Resources) /\ UNCHANGED <<err, link>>
       \/ /\ pc = "shutdown1" /\ link # "eof"
          /\ pc' = "drain" /\ UNCHANGED <<held, leaked, err, ret, link>>
       \/ /\ pc = "shutdown1"
          /\ Failure(1002, Resources) /\ UNCHANGED link
       \/ /\ pc = "shutdown2" /\ (~Shutdown2Fails \/ (link = "up" /\ Rest = 0))
          /\ link' = IF link = "up" THEN "eof" ELSE link
          /\ Leave("true", Resources) /\ UNCHANGED err
       \/ /\ pc = "shutdown2" /\ Shutdown2Fails
          /\ Failure(1003, Resources) /\ UNCHANGED link
    /\ UNCHANGED <<opt, calls, httpCode, shown, resp, peer, reply, pos, hdr>>

-----------------------------------------------------------------------------
Running ==
    \/ SetupStep
    \/ SSL_connect
    \/ ssl_print_1609_status
    \/ ssl_send_message
    \/ SendRetry
    \/ HeaderData
    \/ HeaderNoData
    \/ get_reply_status
    \/ BodyLoop
    \/ SSL_shutdown

Next == setPsid_setSsp \/ httpGet \/ Running

Spec == Init /\ [][Next]_vars

\* The task's thread keeps running, and a read returns: the server answers,
\* closes or the connection breaks, and signals do not interrupt every read.
FairSpec == Spec /\ WF_vars(Running)

-----------------------------------------------------------------------------
(* Properties. *)

\* A call that returns true delivered the body whole: everything the server
\* sent after the empty line, in order, however the reads cut it, also when
\* reads were interrupted, and the status of this reply.
SuccessIsWhole ==
    ret = "true" =>
        /\ HasBody(reply.bytes)
        /\ resp = Positions(BodyStart(reply.bytes), Len(reply.bytes))
        /\ httpCode = reply.status

\* The request is only sent to a peer that signed with the wanted PSID and, if
\* an SSP is wanted, holds one of the same version with a wanted bit in it.  When
\* both SSPs are longer than optCertSsp the bit may be one nobody asked for: the
\* peer only needs a bit past the array's end, where the check reads on.
RequestToAuthorisedPeer ==
    pc \in {"send", "send_loop", "headers", "reply", "body", "shutdown1", "drain", "shutdown2"} =>
        /\ peer.psid = opt.psid
        /\ opt.ssp # <<>> =>
              /\ Len(peer.ssp) > 1
              /\ peer.ssp[1] = opt.ssp[1]
              /\ \E i \in 2..Len(opt.ssp) :
                    /\ i <= Len(peer.ssp) /\ peer.ssp[i] # {}
                    /\ i <= SspBuf => opt.ssp[i] \cap peer.ssp[i] # {}

\* The results a caller reads after a call speak of that call's connection:
\* nothing of an earlier peer or reply shows through, and a failed call has an
\* error code.
ResultsAreFresh ==
    /\ shown # NoPeer => shown = peer
    /\ httpCode # 0 => httpCode = reply.status
    /\ ret = "true" => shown = peer
    /\ ret = "false" => err # 0

\* Only the exit after a failed gethostbyname leaves something open (the
\* socket); every other way out of http_get releases what it holds.
LeaksOnlyOnDnsFailure ==
    [][leaked' # leaked => pc = "dns" /\ err' = 1008]_vars

\* The process only aborts for a reply whose header does not end or parse.
AbortOnlyOnBadReply ==
    pc = "aborted" => reply.status = -1 \/ ~HasBody(reply.bytes)

\* A call ends (returns or aborts), unless it is caught in the send loop.
CallEnds == pc = "socket" ~> pc \in {"idle", "aborted", "send_loop"}

\* "if (ssl_send_message(...) < 0) ... ERR_SSL_SEND_MSG": a failed write is
\* reported to the caller.
SendErrorReported == pc = "send_loop" ~> pc = "idle" /\ err = 1018
=============================================================================
