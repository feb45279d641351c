--------------------------- MODULE SecEntExchange ---------------------------
(***************************************************************************)
(* One request to the security entity, as sec_ent_process performs it: a   *)
(* TCP connection per request (connect_server), a write loop, a read of    *)
(* the 5-byte header, a read of the payload whose length the header        *)
(* announces (send_recv_server, read_N_bytes), the parse of the received   *)
(* buffer (SEC_ENT_MSG_new_from_recv_buffer) and the disconnect.  TCP may  *)
(* split the bytes anywhere; the entity may close the connection at any    *)
(* point, and an answer may be any type with any announced length.         *)
(***************************************************************************)
EXTENDS Integers

CONSTANTS MsgTypes,     \* message types, "FAILURE" among them
          HdrLen,       \* SEC_ENT_MSG_HDR_LEN
          BuffLen,      \* sizeof(buff) in send_recv_server
          SSizeLimit,   \* announced lengths from here on are negative as ssize_t
          MaxLen,       \* bound: largest length an answer announces
          MaxReq        \* bound: largest payload of a request

ASSUME SecEntAssumption ==
    /\ "FAILURE" \in MsgTypes
    /\ "none" \notin MsgTypes
    /\ "NULL" \notin MsgTypes
    /\ HdrLen \in Nat /\ HdrLen > 0
    /\ BuffLen \in Nat
    /\ HdrLen < BuffLen
    /\ SSizeLimit \in Nat
    /\ BuffLen < SSizeLimit
    /\ MaxLen \in Nat /\ MaxLen < 2 * SSizeLimit
    /\ MaxReq \in Nat

VARIABLES pc,        \* where sec_ent_process is
          sock,      \* the request's socket: "none" or "open"
          toWrite,   \* bytes_to_write
          got,       \* bytes received into buff (read_ptr - buff)
          want,      \* where the current read_N_bytes stops
          ret,       \* the outcome of the request
          msg,       \* the answer the entity is sending, or NoAnswer
          sent,      \* bytes of it the entity has put on the connection
          entity     \* "up", or "closed": it closed or reset the connection

vars == <<pc, sock, toWrite, got, want, ret, msg, sent, entity>>
clientVars == <<pc, sock, toWrite, got, want, ret>>
entityVars == <<msg, sent, entity>>

MaxData == BuffLen - HdrLen

\* The abstract call: the answer counts once it was sent in full.
Call == INSTANCE SecEntCall WITH
            phase   <- IF pc = "idle" THEN "idle" ELSE "busy",
            answer  <- IF msg.type # "none" /\ sent = HdrLen + msg.len
                       THEN msg ELSE [type |-> "none", len |-> 0],
            outcome <- IF pc = "idle" THEN ret ELSE [type |-> "NULL", len |-> 0]

Messages == [type : MsgTypes, len : 0..MaxLen]
NoAnswer == [type |-> "none", len |-> 0]

TypeOK ==
    /\ pc \in {"idle", "connect", "write", "header", "body", "disconnect"}
    /\ sock \in {"none", "open"}
    /\ toWrite \in 0..(HdrLen + MaxReq)
    /\ got \in Nat
    /\ want \in Nat
    /\ ret \in Call!Outcomes
    /\ msg \in Messages \cup {NoAnswer}
    /\ sent \in Nat
    /\ entity \in {"up", "closed"}

Init ==
    /\ pc = "idle"
    /\ sock = "none"
    /\ toWrite = 0
    /\ got = 0
    /\ want = 0
    /\ ret = Call!Null
    /\ msg = NoAnswer
    /\ sent = 0
    /\ entity = "up"

-----------------------------------------------------------------------------
(* The requesting side. *)

sec_ent_process(n) ==
    /\ pc = "idle"
    /\ pc' = "connect"
    /\ toWrite' = HdrLen + n
    /\ got' = 0
    /\ want' = HdrLen
    /\ ret' = Call!Null
    /\ msg' = NoAnswer
    /\ sent' = 0
    /\ entity' = "up"
    /\ UNCHANGED sock

\* connect_server: on failure the new socket is closed before returning -1.
connect_server ==
    /\ pc = "connect"
    /\ \/ pc' = "write" /\ sock' = "open"
       \/ pc' = "idle" /\ UNCHANGED sock
    /\ UNCHANGED <<toWrite, got, want, ret, entityVars>>

\* Mutant: every failure is reported as the entity's refusal.
Fail_AsRefusal ==
    /\ pc' = "disconnect"
    /\ ret' = Call!Refused
    /\ UNCHANGED <<sock, toWrite, got, want, entityVars>>

Fail ==
    /\ pc' = "disconnect"
    /\ UNCHANGED <<sock, toWrite, got, want, ret, entityVars>>

\* One write(): it may take any part of what is left.
Write(k) ==
    /\ pc = "write"
    /\ k \in 1..toWrite
    /\ toWrite' = toWrite - k
    /\ pc' = IF k = toWrite THEN "header" ELSE "write"
    /\ UNCHANGED <<sock, got, want, ret, entityVars>>

\* write() <= 0, or the send buffer could not be allocated.
WriteError == pc = "write" /\ Fail

\* One read() inside read_N_bytes: any part of what is there and still wanted.
Read(k) ==
    /\ pc \in {"header", "body"}
    /\ k \in 1..(want - got)
    /\ got + k <= sent
    /\ got' = got + k
    /\ UNCHANGED <<pc, sock, toWrite, want, ret, entityVars>>

\* Mutant: the end of the stream (read() = 0) does not end the loop.
ReadShort_IgnoresEof == FALSE

\* read() <= 0: read_N_bytes returns a short count and the caller gives up.
ReadShort == pc \in {"header", "body"} /\ got < want /\ entity = "closed" /\ Fail

\* The announced length as a ssize_t.
MsgLen == IF msg.len >= SSizeLimit THEN msg.len - 2 * SSizeLimit ELSE msg.len

\* Mutant: the header's own bytes are forgotten in the size check.
TooLong_PayloadOnly == MsgLen < 0 \/ MsgLen > BuffLen

\* The two length checks of send_recv_server.
TooLong == MsgLen < 0 \/ MsgLen + HdrLen > BuffLen

\* The header is there: the length check before the payload is read.
HeaderRead ==
    /\ pc = "header"
    /\ got = want
    /\ IF TooLong
       THEN pc' = "disconnect" /\ UNCHANGED want
       ELSE pc' = "body" /\ want' = HdrLen + MsgLen
    /\ UNCHANGED <<sock, toWrite, got, ret, entityVars>>

\* SEC_ENT_MSG_new_from_recv_buffer of the len bytes in buff.
Parsed(len) ==
    IF len <= HdrLen \/ msg.len + HdrLen # len THEN Call!Null ELSE msg

\* Mutant: the FAILURE type is not looked at.
BodyRead_AnyType ==
    /\ pc = "body"
    /\ got = want
    /\ ret' = Parsed(got)
    /\ pc' = "disconnect"
    /\ UNCHANGED <<sock, toWrite, got, want, entityVars>>

\* The payload is there: parse it, and turn a FAILURE answer into NULL with
\* SSL_R_UNEXPECTED_MESSAGE as the last error.
BodyRead ==
    /\ pc = "body"
    /\ got = want
    /\ ret' = IF Parsed(got).type = "FAILURE" THEN Call!Refused ELSE Parsed(got)
    /\ pc' = "disconnect"
    /\ UNCHANGED <<sock, toWrite, got, want, entityVars>>

\* Its guard sock_fd > 0 always holds here: connect_server did not fail, and an
\* application's process never gets 0, which the system keeps open, as a new descriptor.
disconnect_server ==
    /\ pc = "disconnect"
    /\ sock' = "none"
    /\ pc' = "idle"
    /\ UNCHANGED <<toWrite, got, want, ret, entityVars>>

-----------------------------------------------------------------------------
(* The security entity and the network (external). *)

\* The entity has read the whole request and starts its answer.
EntityAnswer(m) ==
    /\ sock = "open" /\ toWrite = 0 /\ pc \in {"header", "body"}
    /\ msg = NoAnswer /\ entity = "up"
    /\ msg' = m
    /\ UNCHANGED <<sent, entity, clientVars>>

EntitySend(k) ==
    /\ sock = "open" /\ entity = "up" /\ msg # NoAnswer
    /\ sent + k <= HdrLen + msg.len
    /\ sent' = sent + k
    /\ UNCHANGED <<msg, entity, clientVars>>

EntityClose ==
    /\ sock = "open" /\ entity = "up"
    /\ entity' = "closed"
    /\ UNCHANGED <<msg, sent, clientVars>>

-----------------------------------------------------------------------------
ClientStep ==
    \/ connect_server
    \/ \E k \in 1..(HdrLen + MaxReq) : Write(k)
    \/ WriteError
    \/ \E k \in 1..BuffLen : Read(k)
    \/ ReadShort
    \/ HeaderRead
    \/ BodyRead
    \/ disconnect_server

EntityStep ==
    \/ \E m \in Messages : EntityAnswer(m)
    \/ \E k \in 1..(HdrLen + MaxLen) : EntitySend(k)
    \/ EntityClose

Next ==
    \/ \E n \in 0..MaxReq : sec_ent_process(n)
    \/ ClientStep
    \/ EntityStep

Spec == Init /\ [][Next]_vars

\* A request that has begun keeps running; the entity owes nothing.
FairSpec == Spec /\ WF_vars(ClientStep)

-----------------------------------------------------------------------------
(* Properties *)

\* read_N_bytes never writes past buff, and never reads past the answer it
\* belongs to, whatever length the header announces (ieee1609dot2.c:1050-1057).
NoOverrun == got <= BuffLen /\ want <= BuffLen /\ got <= sent

\* A request that returned a message returned the entity's whole answer, and a
\* request that reports a refusal really was refused: the alert sent to the TLS
\* peer depends on the difference (ieee1609dot2.c:1319-1325).
WholeAnswer ==
    /\ ret \in Call!Replies => ret = msg /\ sent = HdrLen + msg.len
    /\ ret = Call!Refused => msg.type = "FAILURE" /\ sent = HdrLen + msg.len

\* No socket survives its request, on any exit of sec_ent_process.
SocketReleased == sock = "open" <=> pc \notin {"idle", "connect"}

\* Inductive strengthening of the three invariants above: what has been
\* received is part of what was asked for and of what was sent, and a request
\* has no outcome before its payload was parsed.
IInv ==
    /\ TypeOK
    /\ NoOverrun /\ WholeAnswer /\ SocketReleased
    /\ got <= want
    /\ msg = NoAnswer => sent = 0
    /\ msg # NoAnswer => sent <= HdrLen + msg.len
    /\ pc \in {"connect", "write", "header"} => want = HdrLen
    /\ pc = "body" => got >= HdrLen /\ want = HdrLen + msg.len
    /\ pc \in {"connect", "write", "header", "body"} => ret = Call!Null
    /\ ret = Call!Refused => msg.len > 0 /\ HdrLen + msg.len <= BuffLen

\* The exchange implements the abstract call.
ImplementsCall == Call!CallSpec

\* Once the entity has closed the connection or answered in full, the request
\* returns.  (No timeout guards the reads: nothing is promised otherwise.)
AnsweredRequestReturns ==
    (sock = "open" /\ (entity = "closed" \/ (msg # NoAnswer /\ sent = HdrLen + msg.len))) ~> (pc = "idle")
=============================================================================
