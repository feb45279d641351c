------------------------- MODULE Rfc8902Client_proofs -------------------------
(***************************************************************************)
(* Proofs about http_get for every set of options, peers and replies, and  *)
(* every size of a read.                                                   *)
(***************************************************************************)
EXTENDS Rfc8902Client, SequenceTheorems, WellFoundedInduction, TLAPS

\* The places of http_get up to the peer, and after its check.
ToPeer == DOMAIN Setup \cup {"handshake"}
Sending == {"send", "send_loop", "headers", "reply", "body", "shutdown1", "drain", "shutdown2"}

\* What is held at each place: what an exit from there has to release.
HeldInv ==
    /\ held \subseteq Resources
    /\ leaked \in [Resources -> Nat]
    /\ pc \in {"idle", "socket"} => held = {}
    /\ pc \in {"dns", "connect", "ctx_new"} => held = {"socket"}
    /\ pc \in {"min_proto", "ssl_new"} => held = {"socket", "ctx"}

LEMMA SetupDomain ==
    DOMAIN Setup = {"socket", "dns", "connect", "ctx_new", "min_proto", "ssl_new",
                    "sec_ent_addr", "values", "set_fd"}
BY DEF Setup

LEMMA InitHeld == Init => HeldInv
BY DEF Init, HeldInv, Resources

\* An exit that releases all it holds leaks nothing.
LEMMA CleanLeave ==
    ASSUME HeldInv, NEW result, NEW frees, held \subseteq frees, Leave(result, frees)
    PROVE  leaked' = leaked /\ HeldInv'
BY DEF Leave, HeldInv

LEMMA SetupHeld ==
    ASSUME HeldInv, SetupStep
    PROVE  HeldInv' /\ (leaked' # leaked => pc = "dns" /\ err' = 1008)
<1>1. pc \in {"socket", "dns", "connect", "ctx_new", "min_proto", "ssl_new",
              "sec_ent_addr", "values", "set_fd"}
  BY SetupDomain DEF SetupStep
<1>2. CASE Failure(Setup[pc].code, Frees(pc))
  <2>1. CASE pc = "dns"
    BY <1>2, <2>1 DEF Failure, Leave, HeldInv, Setup, Resources
  <2>2. CASE pc # "dns"
    <3>1. held \subseteq Frees(pc)
      BY <1>1, <2>2 DEF HeldInv, Frees, Setup, Resources
    <3> QED
      BY <1>2, <3>1, CleanLeave DEF Failure
  <2> QED
    BY <2>1, <2>2
<1>3. CASE /\ pc' = Setup[pc].next /\ held' = held \cup Setup[pc].takes
           /\ UNCHANGED <<leaked, err, ret>>
  <2>1. leaked' = leaked
    BY <1>3
  <2>2. CASE pc \in {"socket", "dns", "connect"}
    <3>1. pc' \in {"dns", "connect", "ctx_new"}
      BY <1>3, <2>2 DEF Setup
    <3>2. held' = {"socket"}
      BY <1>3, <2>2 DEF HeldInv, Setup
    <3> QED
      BY <1>3, <3>1, <3>2 DEF HeldInv, Resources
  <2>3. CASE pc \in {"ctx_new", "min_proto", "ssl_new"}
    BY <1>3, <2>3 DEF HeldInv, Setup, Resources
  <2>4. CASE pc \in {"sec_ent_addr", "values", "set_fd"}
    <3>1. pc' \in {"values", "set_fd", "handshake"}
      BY <1>3, <2>4 DEF Setup
    <3>2. held' = held
      BY <1>3, <2>4 DEF Setup
    <3> QED
      BY <1>3, <3>1, <3>2 DEF HeldInv
  <2> QED
    BY <1>1, <2>1, <2>2, <2>3, <2>4
<1> QED
  BY <1>2, <1>3 DEF SetupStep

\* A step from a place where nothing or everything is released keeps it so.
LEMMA SameHeld ==
    ASSUME HeldInv, UNCHANGED <<held, leaked>>,
           pc' = pc \/ pc' \notin {"idle", "socket", "dns", "connect", "ctx_new", "min_proto", "ssl_new"}
    PROVE  leaked' = leaked /\ HeldInv'
BY DEF HeldInv

LEMMA NextHeld ==
    ASSUME HeldInv, [Next]_vars
    PROVE  HeldInv' /\ (leaked' # leaked => pc = "dns" /\ err' = 1008)
<1>0. held \subseteq Resources
  BY DEF HeldInv
<1>1. CASE setPsid_setSsp
  BY <1>1, SameHeld DEF setPsid_setSsp
<1>2. CASE httpGet
  BY <1>2 DEF httpGet, HeldInv
<1>3. CASE SetupStep
  BY <1>3, SetupHeld
<1>4. CASE SSL_connect
  BY <1>0, <1>4, SameHeld, CleanLeave DEF SSL_connect, Failure
<1>5. CASE ssl_print_1609_status
  BY <1>0, <1>5, SameHeld, CleanLeave DEF ssl_print_1609_status, Failure
<1>6. CASE ssl_send_message \/ SendRetry
  BY <1>6, SameHeld DEF ssl_send_message, SendRetry, vars
<1>7. CASE HeaderData
  BY <1>7, SameHeld DEF HeaderData
<1>8. CASE HeaderNoData
  BY <1>0, <1>8, SameHeld, CleanLeave DEF HeaderNoData
<1>9. CASE get_reply_status
  BY <1>9, SameHeld DEF get_reply_status
<1>10. CASE BodyLoop
  BY <1>10, SameHeld DEF BodyLoop
<1>11. CASE SSL_shutdown
  BY <1>0, <1>11, SameHeld, CleanLeave DEF SSL_shutdown, Failure
<1>12. CASE UNCHANGED vars
  BY <1>12, SameHeld DEF vars
<1> QED
  BY <1>1, <1>2, <1>3, <1>4, <1>5, <1>6, <1>7, <1>8, <1>9, <1>10, <1>11, <1>12 DEF Next, Running

\* Only the exit of http_get after a failed gethostbyname leaves something open, its
\* socket; every other exit releases what the call holds at that place.
THEOREM LeaksOnlyOnDns == Spec => LeaksOnlyOnDnsFailure
<1>1. HeldInv /\ [Next]_vars => HeldInv'
  BY NextHeld
<1>2. HeldInv /\ [Next]_vars => [leaked' # leaked => pc = "dns" /\ err' = 1008]_vars
  BY NextHeld
<1> QED
  BY InitHeld, <1>1, <1>2, PTL DEF Spec, LeaksOnlyOnDnsFailure

-----------------------------------------------------------------------------
(* The peer the request is sent to.                                        *)

\* Where it matters, options and peers have the types the constants give them.
PeerInv ==
    /\ opt \in Options
    /\ pc = "status" => peer \in Peers
    /\ RequestToAuthorisedPeer

\* The memory after optCertSsp, as far as the check may read it.
Past == [(SspBuf + 1)..optCertSspLen -> SUBSET (0..7)]

\* The SSP the check reads is as long as the one that was set, and has its bytes as far
\* as the array goes.
LEMMA ReadFacts ==
    ASSUME opt \in Options, NEW past \in Past
    PROVE  /\ Len(SspRead(past)) = Len(opt.ssp) /\ DOMAIN SspRead(past) = 1..Len(opt.ssp)
           /\ SspRead(past) = <<>> <=> opt.ssp = <<>>
           /\ SspRead(past) \in Seq(SUBSET (0..7))
           /\ \A i \in 1..Len(opt.ssp) : i <= SspBuf => SspRead(past)[i] = opt.ssp[i]
<1> DEFINE r == SspRead(past)
           n == Len(opt.ssp)
<1>1. opt.ssp \in Seq(SUBSET (0..7)) /\ n \in Nat /\ SspBuf \in Nat \ {0}
  BY ClientAssumption
<1>2. \A i \in 1..n : i <= SspBuf => r[i] = opt.ssp[i]
  BY <1>1 DEF SspRead, optCertSsp, optCertSspLen
<1>3. \A i \in 1..n : r[i] \in SUBSET (0..7)
  <2> SUFFICES ASSUME NEW i \in 1..n PROVE r[i] \in SUBSET (0..7)
    OBVIOUS
  <2>1. CASE i <= SspBuf
    BY <1>1, <1>2, <2>1
  <2>2. CASE ~(i <= SspBuf)
    <3>1. i \in (SspBuf + 1)..optCertSspLen
      BY <1>1, <2>2 DEF optCertSspLen
    <3>2. past[i] \in SUBSET (0..7)
      BY <3>1 DEF Past
    <3> QED
      BY <2>2, <3>2 DEF SspRead, optCertSspLen
  <2> QED
    BY <2>1, <2>2
<1>4. r = [i \in 1..n |-> r[i]]
  BY DEF SspRead, optCertSspLen
<1> HIDE DEF r
<1>5. r \in Seq(SUBSET (0..7)) /\ Len(r) = n /\ DOMAIN r = 1..n
  BY <1>1, <1>3, <1>4
<1>6. r = <<>> <=> opt.ssp = <<>>
  BY <1>1, <1>5
<1> QED
  BY <1>2, <1>5, <1>6 DEF r

\* What a passed check of ssl_print_1609_status means.
LEMMA StatusAuthorises ==
    ASSUME opt \in Options, peer \in Peers, NEW past \in Past, StatusError(SspRead(past)) = 0
    PROVE  /\ peer.psid = opt.psid
           /\ opt.ssp # <<>> =>
                 /\ Len(peer.ssp) > 1
                 /\ peer.ssp[1] = opt.ssp[1]
                 /\ \E i \in 2..Len(opt.ssp) :
                       /\ i <= Len(peer.ssp) /\ peer.ssp[i] # {}
                       /\ i <= SspBuf => opt.ssp[i] \cap peer.ssp[i] # {}
<1>0. PICK r : r = SspRead(past)
  OBVIOUS
<1>1. /\ opt.psid \in Nat \ {0} /\ peer.psid \in Nat /\ SspBuf \in Nat \ {0}
      /\ opt.ssp \in Seq(SUBSET (0..7)) /\ peer.ssp \in Seq(SUBSET (0..7))
  BY ClientAssumption
<1>2. peer.psid = opt.psid
  BY <1>1 DEF StatusError
<1>3. ASSUME opt.ssp # <<>>
      PROVE  /\ peer.ssp # <<>> /\ peer.ssp[1] = r[1]
             /\ CommonBit(r, peer.ssp)
  BY <1>0, <1>1, <1>2, <1>3, ReadFacts DEF StatusError
<1>4. ASSUME opt.ssp # <<>>
      PROVE  r[1] = opt.ssp[1]
  BY <1>0, <1>1, <1>4, ReadFacts
<1>5. ASSUME CommonBit(r, peer.ssp)
      PROVE  \E i \in 2..Len(opt.ssp) :
                /\ i <= Len(peer.ssp) /\ peer.ssp[i] # {}
                /\ i <= SspBuf => opt.ssp[i] \cap peer.ssp[i] # {}
  <2>1. PICK i \in DOMAIN r \cap DOMAIN peer.ssp : i > 1 /\ r[i] \cap peer.ssp[i] # {}
    BY <1>5 DEF CommonBit
  <2>2. i \in 2..Len(opt.ssp) /\ i <= Len(peer.ssp) /\ i \in 1..Len(opt.ssp)
    BY <1>0, <1>1, <2>1, ReadFacts
  <2>3. i <= SspBuf => r[i] = opt.ssp[i]
    BY <1>0, <2>2, ReadFacts
  <2> QED
    BY <2>1, <2>2, <2>3
<1>6. ASSUME NEW i \in 2..Len(opt.ssp), i <= Len(peer.ssp) PROVE Len(peer.ssp) > 1
  BY <1>1, <1>6
<1> QED
  BY <1>2, <1>3, <1>4, <1>5, <1>6

LEMMA InitPeer == Init => PeerInv
BY DEF Init, PeerInv, RequestToAuthorisedPeer

\* Steps that leave the options and the peer alone and do not go on to send.
LEMMA SamePeer ==
    ASSUME PeerInv, UNCHANGED <<opt, peer>>, pc' \in Sending => pc \in Sending,
           pc' = "status" => pc = "status"
    PROVE  PeerInv'
BY DEF PeerInv, RequestToAuthorisedPeer, Sending

LEMMA NextPeer == PeerInv /\ [Next]_vars => PeerInv'
<1> SUFFICES ASSUME PeerInv, [Next]_vars PROVE PeerInv'
  OBVIOUS
<1>1. CASE setPsid_setSsp
  BY <1>1 DEF setPsid_setSsp, PeerInv, RequestToAuthorisedPeer
<1>2. CASE httpGet
  BY <1>2 DEF httpGet, PeerInv, RequestToAuthorisedPeer
<1>3. CASE SetupStep
  <2>1. pc' \notin Sending \cup {"status"}
    BY <1>3, SetupDomain DEF SetupStep, Setup, Failure, Leave, Sending
  <2> QED
    BY <1>3, <2>1, SamePeer DEF SetupStep, conn
<1>4. CASE SSL_connect
  BY <1>4 DEF SSL_connect, Failure, Leave, PeerInv, RequestToAuthorisedPeer
<1>5. CASE ssl_print_1609_status
  <2>0. PICK past \in Past :
           \/ StatusError(SspRead(past)) = 0 /\ pc' = "send"
           \/ StatusError(SspRead(past)) # 0 /\ pc' = "idle"
    BY <1>5 DEF ssl_print_1609_status, Failure, Leave, Past
  <2>1. opt \in Options /\ peer \in Peers /\ UNCHANGED <<opt, peer>>
    BY <1>5 DEF ssl_print_1609_status, conn, PeerInv
  <2>2. CASE StatusError(SspRead(past)) = 0 /\ pc' = "send"
    BY <2>1, <2>2, StatusAuthorises DEF PeerInv, RequestToAuthorisedPeer
  <2>3. CASE pc' = "idle"
    BY <2>1, <2>3, SamePeer DEF Sending
  <2> QED
    BY <2>0, <2>2, <2>3
<1>6. CASE ssl_send_message \/ SendRetry
  BY <1>6, SamePeer DEF ssl_send_message, SendRetry, vars, conn, Sending
<1>7. CASE HeaderData
  BY <1>7, SamePeer DEF HeaderData, Sending
<1>8. CASE HeaderNoData
  BY <1>8, SamePeer DEF HeaderNoData, Leave, Sending
<1>9. CASE get_reply_status
  BY <1>9, SamePeer DEF get_reply_status, conn, Sending
<1>10. CASE BodyLoop
  BY <1>10, SamePeer DEF BodyLoop, Sending
<1>11. CASE SSL_shutdown
  BY <1>11, SamePeer DEF SSL_shutdown, Failure, Leave, Sending
<1>12. CASE UNCHANGED vars
  BY <1>12, SamePeer DEF vars
<1> QED
  BY <1>1, <1>2, <1>3, <1>4, <1>5, <1>6, <1>7, <1>8, <1>9, <1>10, <1>11, <1>12 DEF Next, Running

\* The request is only ever sent to a peer that passed the checks of
\* ssl_print_1609_status against the options of this call: for every SSP that was set,
\* also one that is longer than optCertSsp, and whatever the memory after that holds.
THEOREM RequestAuthorised == Spec => []RequestToAuthorisedPeer
<1>1. PeerInv => RequestToAuthorisedPeer
  BY DEF PeerInv
<1> QED
  BY InitPeer, NextPeer, <1>1, PTL DEF Spec

-----------------------------------------------------------------------------
(* The results of a call.                                                  *)

\* Nothing is shown of a peer or a reply before there is one, the peer is shown
\* before the request is sent, and a call that is under way has not returned.
FreshInv ==
    /\ pc \in ToPeer => shown = NoPeer
    /\ pc \in ToPeer \cup {"status"} => httpCode = 0
    /\ pc \in Sending => shown = peer
    /\ pc # "idle" => ret = "none"
    /\ ResultsAreFresh

LEMMA InitFresh == Init => FreshInv
BY SetupDomain DEF Init, FreshInv, ResultsAreFresh, ToPeer, Sending

\* Steps that change neither what the results show nor the connection.
LEMMA SameFresh ==
    ASSUME FreshInv, UNCHANGED <<httpCode, shown, peer, reply>>,
           \/ UNCHANGED <<pc, ret, err>>
           \/ pc \in Sending /\ pc' \in Sending \cup {"aborted"} /\ UNCHANGED ret
           \/ pc # "idle" /\ pc' = "idle" /\ ret' = "false" /\ err' # 0
           \/ pc \in Sending /\ pc' = "idle" /\ ret' = "true"
    PROVE  FreshInv'
<1> USE SetupDomain DEF FreshInv, ResultsAreFresh, ToPeer, Sending
<1>1. CASE UNCHANGED <<pc, ret, err>>
  BY <1>1
<1>2. CASE pc \in Sending /\ pc' \in Sending \cup {"aborted"} /\ UNCHANGED ret
  BY <1>2
<1>3. CASE pc # "idle" /\ pc' = "idle" /\ ret' = "false" /\ err' # 0
  BY <1>3
<1>4. CASE pc \in Sending /\ pc' = "idle" /\ ret' = "true"
  BY <1>4
<1> QED
  BY <1>1, <1>2, <1>3, <1>4

LEMMA NextFresh == FreshInv /\ [Next]_vars => FreshInv'
<1> SUFFICES ASSUME FreshInv, [Next]_vars PROVE FreshInv'
  OBVIOUS
<1>1. CASE setPsid_setSsp
  BY <1>1, SameFresh DEF setPsid_setSsp, conn
<1>2. CASE httpGet
  BY <1>2, SetupDomain DEF httpGet, FreshInv, ResultsAreFresh, ToPeer, Sending
<1>3. CASE SetupStep
  <2>0. pc \in ToPeer /\ pc # "idle"
    BY <1>3, SetupDomain DEF SetupStep, ToPeer
  <2>1. CASE Failure(Setup[pc].code, Frees(pc))
    <3>1. Setup[pc].code # 0
      BY <1>3, SetupDomain DEF SetupStep, Setup
    <3> QED
      BY <1>3, <2>0, <2>1, <3>1, SameFresh DEF SetupStep, Failure, Leave, conn
  <2>2. CASE pc' = Setup[pc].next /\ UNCHANGED ret
    <3>1. pc' \in ToPeer
      BY <1>3, <2>2, SetupDomain DEF SetupStep, Setup, ToPeer
    <3> QED
      BY <1>3, <2>0, <2>2, <3>1, SetupDomain DEF SetupStep, conn, FreshInv, ResultsAreFresh, ToPeer, Sending
  <2> QED
    BY <1>3, <2>1, <2>2 DEF SetupStep
<1>4. CASE SSL_connect
  <2>1. CASE Failure(1015, Resources) /\ UNCHANGED <<peer, reply>>
    BY <1>4, <2>1, SameFresh DEF SSL_connect, Failure, Leave
  <2>2. CASE pc' = "status" /\ UNCHANGED ret
    BY <1>4, <2>2, SetupDomain DEF SSL_connect, FreshInv, ResultsAreFresh, ToPeer, Sending
  <2> QED
    BY <1>4, <2>1, <2>2 DEF SSL_connect
<1>5. CASE ssl_print_1609_status
  BY <1>5, SetupDomain DEF ssl_print_1609_status, conn, Failure, Leave, FreshInv, ResultsAreFresh, ToPeer, Sending
<1>6. CASE ssl_send_message \/ SendRetry
  BY <1>6, SameFresh DEF ssl_send_message, SendRetry, vars, conn, Sending
<1>7. CASE HeaderData
  BY <1>7, SameFresh DEF HeaderData, Sending
<1>8. CASE HeaderNoData
  BY <1>8, SameFresh DEF HeaderNoData, ReadError, Leave, Sending
<1>9. CASE get_reply_status
  BY <1>9, SetupDomain DEF get_reply_status, conn, FreshInv, ResultsAreFresh, ToPeer, Sending
<1>10. CASE BodyLoop
  BY <1>10, SameFresh DEF BodyLoop, Sending
<1>11. CASE SSL_shutdown
  BY <1>11, SameFresh DEF SSL_shutdown, Failure, Leave, Sending
<1>12. CASE UNCHANGED vars
  BY <1>12, SameFresh DEF vars
<1> QED
  BY <1>1, <1>2, <1>3, <1>4, <1>5, <1>6, <1>7, <1>8, <1>9, <1>10, <1>11, <1>12 DEF Next, Running

\* What a caller reads after http_get speaks of this call's peer and reply, and a
\* call that failed has an error code, however many calls went before.
THEOREM FreshResults == Spec => []ResultsAreFresh
<1>1. FreshInv => ResultsAreFresh
  BY DEF FreshInv
<1> QED
  BY InitFresh, NextFresh, <1>1, PTL DEF Spec

-----------------------------------------------------------------------------
(* The header collector: what a loop of AddByte over a buffer computes.    *)

\* Induction over the naturals, for a set in the place of the predicate: the least number
\* outside the set would be zero or follow one inside.
LEMMA NatSetInduction ==
    ASSUME NEW S, 0 \in S, \A n \in Nat : n \in S => n + 1 \in S
    PROVE  \A n \in Nat : n \in S
<1> SUFFICES ASSUME Nat \ S # {} PROVE FALSE
  OBVIOUS
<1> DEFINE T == Nat \ S
<1>1. PICK m \in T : \A y \in T : ~ (<<y, m>> \in OpToRel(<, Nat))
  <2> T \subseteq Nat /\ T # {}
    OBVIOUS
  <2> HIDE DEF T
  <2> QED
    BY WFMin, NatLessThanWellFounded
<1>2. \A y \in T : ~ (y < m)
  BY <1>1 DEF OpToRel
<1>3. m # 0
  OBVIOUS
<1>4. m - 1 \in Nat /\ m - 1 < m
  BY <1>3
<1>5. m - 1 \in S
  BY <1>2, <1>4
<1>6. (m - 1) + 1 \in S
  BY <1>4, <1>5
<1> QED
  BY <1>6

\* The state the loop of add_data starts in.
LoopStart(h) == [hdr |-> h, returned |-> FALSE, surplus |-> 0]

\* g is the loop's state after up to n bytes of buf.
IsLoop(g, h, buf, n) ==
    g = [i \in 0..n |-> IF i = 0 THEN LoopStart(h) ELSE AddByte(g[i - 1], buf[i])]

\* The recursive definition of Loop defines something.
LEMMA LoopExists ==
    ASSUME NEW h, NEW buf, NEW n \in Nat
    PROVE  \E g : IsLoop(g, h, buf, n)
<1> DEFINE S == {m \in Nat : \E g : IsLoop(g, h, buf, m)}
<1>1. 0 \in S
  <2> DEFINE g == [i \in 0..0 |-> LoopStart(h)]
  <2>1. IsLoop(g, h, buf, 0)
    BY DEF IsLoop
  <2> QED
    BY <2>1
<1>2. ASSUME NEW m \in Nat, m \in S PROVE m + 1 \in S
  <2>1. PICK g : IsLoop(g, h, buf, m)
    BY <1>2
  <2> DEFINE k == [i \in 0..(m + 1) |-> IF i = m + 1 THEN AddByte(g[m], buf[m + 1]) ELSE g[i]]
  <2>2. ASSUME NEW i \in 0..(m + 1)
        PROVE  k[i] = IF i = 0 THEN LoopStart(h) ELSE AddByte(k[i - 1], buf[i])
    <3>1. CASE i = m + 1
      BY <3>1
    <3>2. CASE i # m + 1
      <4>1. i \in 0..m
        BY <3>2
      <4> QED
        BY <2>1, <4>1 DEF IsLoop
    <3> QED
      BY <3>1, <3>2
  <2>3. k = [i \in 0..(m + 1) |-> k[i]]
    OBVIOUS
  <2> HIDE DEF k
  <2>4. IsLoop(k, h, buf, m + 1)
    BY <2>2, <2>3 DEF IsLoop
  <2> QED
    BY <2>4
<1> HIDE DEF S
<1>3. n \in S
  BY <1>1, <1>2, NatSetInduction
<1> QED
  BY <1>3 DEF S

\* The loop as a recurrence.
LEMMA LoopUnfolds ==
    ASSUME NEW h, NEW buf, Len(buf) \in Nat
    PROVE  /\ Loop(h, buf)[0] = LoopStart(h)
           /\ \A i \in 0..(Len(buf) - 1) : Loop(h, buf)[i + 1] = AddByte(Loop(h, buf)[i], buf[i + 1])
<1> DEFINE st == Loop(h, buf)
<1>1. st = CHOOSE g : IsLoop(g, h, buf, Len(buf))
  BY DEF Loop, IsLoop, LoopStart
<1>2. \E g : IsLoop(g, h, buf, Len(buf))
  BY LoopExists
<1>3. IsLoop(st, h, buf, Len(buf))
  BY <1>1, <1>2, Zenon
<1> HIDE DEF st
<1>4. st[0] = LoopStart(h)
  BY <1>3 DEF IsLoop
<1>5. ASSUME NEW i \in 0..(Len(buf) - 1) PROVE st[i + 1] = AddByte(st[i], buf[i + 1])
  BY <1>3 DEF IsLoop
<1> QED
  BY <1>4, <1>5 DEF st

-----------------------------------------------------------------------------
\* The last line of the first p bytes of b is empty so far.
OnEmptyLine(b, p) == \E j \in 1..p : b[j] = "LF" /\ \A k \in (j + 1)..p : b[k] = "CR"

\* hd is what the collector knows of the first p bytes of b, none of which ended the header.
Collecting(hd, b, p) ==
    /\ hd.complete = "no"
    /\ \A i \in 1..p : ~EndsEmptyLine(b, i)
    /\ p > 0 => (hd.line = 0 <=> OnEmptyLine(b, p))
    /\ (\E j \in 1..p : b[j] = "LF") => hd.lines > 0

\* Byte e is the end of the header.
HeaderEnd(b, e) == EndsEmptyLine(b, e) /\ \A i \in 1..(e - 1) : ~EndsEmptyLine(b, i)

\* The loop after the first p bytes of b.
LoopInv(st, b, p) ==
    /\ st \in [hdr : Headers, returned : BOOLEAN, surplus : Nat]
    /\ ~st.returned => st.surplus = 0 /\ Collecting(st.hdr, b, p)
    /\ st.returned => /\ is_complete(st.hdr)
                      /\ p - st.surplus \in 1..p
                      /\ HeaderEnd(b, p - st.surplus)

\* What one more byte means for the empty line.
LEMMA EmptyLineStep ==
    ASSUME NEW b \in Seq(Bytes), NEW p \in Nat, p < Len(b)
    PROVE  /\ EndsEmptyLine(b, p + 1) <=> b[p + 1] = "LF" /\ OnEmptyLine(b, p)
           /\ b[p + 1] = "LF" => OnEmptyLine(b, p + 1)
           /\ b[p + 1] = "CR" => (OnEmptyLine(b, p + 1) <=> OnEmptyLine(b, p))
           /\ b[p + 1] = "text" => ~OnEmptyLine(b, p + 1)
<1>1. EndsEmptyLine(b, p + 1) <=> b[p + 1] = "LF" /\ OnEmptyLine(b, p)
  BY DEF EndsEmptyLine, OnEmptyLine
<1>2. b[p + 1] = "LF" => OnEmptyLine(b, p + 1)
  BY DEF OnEmptyLine
<1>3. ASSUME b[p + 1] = "CR" PROVE OnEmptyLine(b, p + 1) <=> OnEmptyLine(b, p)
  <2>1. ASSUME OnEmptyLine(b, p + 1) PROVE OnEmptyLine(b, p)
    BY <1>3, <2>1 DEF OnEmptyLine
  <2>2. ASSUME OnEmptyLine(b, p) PROVE OnEmptyLine(b, p + 1)
    <3>1. PICK j \in 1..p : b[j] = "LF" /\ \A k \in (j + 1)..p : b[k] = "CR"
      BY <2>2 DEF OnEmptyLine
    <3>2. j \in 1..(p + 1) /\ \A k \in (j + 1)..(p + 1) : b[k] = "CR"
      BY <1>3, <3>1
    <3> QED
      BY <3>1, <3>2 DEF OnEmptyLine
  <2> QED
    BY <2>1, <2>2
<1>4. b[p + 1] = "text" => ~OnEmptyLine(b, p + 1)
  BY DEF OnEmptyLine
<1> QED
  BY <1>1, <1>2, <1>3, <1>4

\* One iteration of the loop.
LEMMA ByteStep ==
    ASSUME NEW b \in Seq(Bytes), b # <<>>, b[1] = "text", NEW p \in Nat, p < Len(b),
           NEW st, LoopInv(st, b, p)
    PROVE  LoopInv(AddByte(st, b[p + 1]), b, p + 1)
<1> DEFINE c == b[p + 1]
           nx == AddByte(st, c)
<1>0. /\ st \in [hdr : Headers, returned : BOOLEAN, surplus : Nat]
      /\ c \in Bytes /\ st.hdr \in Headers
      /\ st.hdr.line \in Nat /\ st.hdr.lines \in Nat
  BY DEF LoopInv, Headers
<1>1. CASE st.returned
  <2>1. nx = [st EXCEPT !.surplus = @ + 1]
    BY <1>1 DEF AddByte
  <2>2. /\ nx \in [hdr : Headers, returned : BOOLEAN, surplus : Nat]
        /\ nx.returned /\ nx.hdr = st.hdr /\ nx.surplus = st.surplus + 1
    BY <1>0, <1>1, <2>1
  <2>3. (p + 1) - nx.surplus = p - st.surplus
    BY <1>0, <2>2
  <2> QED
    BY <1>1, <2>2, <2>3 DEF LoopInv
<1>2. CASE ~st.returned /\ c = "CR"
  <2>1. nx = st
    BY <1>2 DEF AddByte
  <2>2. Collecting(st.hdr, b, p + 1)
    <3>1. p > 0
      BY <1>2
    <3>2. ~EndsEmptyLine(b, p + 1)
      BY <1>2, EmptyLineStep
    <3> QED
      BY <1>2, <3>1, <3>2, EmptyLineStep DEF LoopInv, Collecting
  <2> QED
    BY <1>2, <2>1, <2>2 DEF LoopInv
<1>3. CASE ~st.returned /\ c = "text"
  <2>1. nx = [st EXCEPT !.hdr.line = @ + 1]
    BY <1>3 DEF AddByte
  <2>2. /\ nx \in [hdr : Headers, returned : BOOLEAN, surplus : Nat]
        /\ ~nx.returned /\ nx.surplus = st.surplus
        /\ nx.hdr.line = st.hdr.line + 1 /\ nx.hdr.lines = st.hdr.lines
        /\ nx.hdr.complete = st.hdr.complete
    BY <1>0, <1>3, <2>1 DEF Headers
  <2>3. Collecting(nx.hdr, b, p + 1)
    <3>1. ~EndsEmptyLine(b, p + 1)
      BY <1>3, EmptyLineStep
    <3> HIDE DEF nx
    <3> QED
      BY <1>0, <1>3, <2>2, <3>1, EmptyLineStep DEF LoopInv, Collecting
  <2> QED
    BY <1>3, <2>2, <2>3 DEF LoopInv
<1>4. CASE ~st.returned /\ c = "LF" /\ st.hdr.line > 0
  <2>1. nx = [st EXCEPT !.hdr.lines = @ + 1, !.hdr.line = 0]
    BY <1>4 DEF AddByte
  <2>2. /\ nx \in [hdr : Headers, returned : BOOLEAN, surplus : Nat]
        /\ ~nx.returned /\ nx.surplus = st.surplus
        /\ nx.hdr.line = 0 /\ nx.hdr.lines = st.hdr.lines + 1
        /\ nx.hdr.complete = st.hdr.complete
    <3> DEFINE hd == [lines |-> st.hdr.lines + 1, line |-> 0, complete |-> st.hdr.complete]
    <3>1. hd \in Headers
      BY <1>0 DEF Headers
    <3>2. nx = [st EXCEPT !.hdr = hd]
      BY <1>0, <2>1 DEF Headers
    <3> QED
      BY <1>0, <1>4, <3>1, <3>2
  <2>3. Collecting(nx.hdr, b, p + 1)
    <3>0. p > 0
      BY <1>4
    <3>1. ~EndsEmptyLine(b, p + 1)
      BY <1>4, <3>0, EmptyLineStep DEF LoopInv, Collecting
    <3> HIDE DEF nx
    <3> QED
      BY <1>0, <1>4, <2>2, <3>1, EmptyLineStep DEF LoopInv, Collecting
  <2> QED
    BY <1>4, <2>2, <2>3 DEF LoopInv
<1>5. CASE ~st.returned /\ c = "LF" /\ ~(st.hdr.line > 0)
  <2>0. st.hdr.line = 0
    BY <1>0, <1>5
  <2>1. nx = [st EXCEPT !.hdr.complete = "yes", !.returned = TRUE]
    BY <1>5, <2>0 DEF AddByte
  <2>2. /\ nx \in [hdr : Headers, returned : BOOLEAN, surplus : Nat]
        /\ nx.returned /\ nx.surplus = st.surplus
        /\ nx.hdr.lines = st.hdr.lines
        /\ nx.hdr.complete = "yes"
    <3> DEFINE hd == [lines |-> st.hdr.lines, line |-> st.hdr.line, complete |-> "yes"]
    <3>1. hd \in Headers
      BY <1>0 DEF Headers
    <3>2. nx = [st EXCEPT !.hdr = hd, !.returned = TRUE]
      BY <1>0, <2>1 DEF Headers
    <3> HIDE DEF nx
    <3> QED
      BY <1>0, <3>1, <3>2
  <2>3. st.surplus = 0 /\ p > 0 /\ OnEmptyLine(b, p) /\ st.hdr.lines > 0
    BY <1>5, <2>0 DEF LoopInv, Collecting, OnEmptyLine
  <2>4. HeaderEnd(b, p + 1)
    BY <1>5, <2>3, EmptyLineStep DEF HeaderEnd, LoopInv, Collecting
  <2> HIDE DEF nx
  <2>5. (p + 1) - nx.surplus = p + 1
    BY <2>2, <2>3
  <2>6. LoopInv(nx, b, p + 1)
    BY <2>2, <2>3, <2>4, <2>5 DEF LoopInv, is_complete
  <2> QED
    BY <2>6 DEF nx
<1> QED
  BY <1>0, <1>1, <1>2, <1>3, <1>4, <1>5 DEF Bytes

\* A whole call of add_data with the bytes from p + 1 to p + n.
LEMMA AddData ==
    ASSUME NEW b \in Seq(Bytes), b # <<>>, b[1] = "text",
           NEW p \in Nat, NEW n \in Nat, p + n <= Len(b),
           NEW hd \in Headers, Collecting(hd, b, p)
    PROVE  LoopInv(add_data(hd, SubSeq(b, p + 1, p + n)), b, p + n)
<1> DEFINE buf == SubSeq(b, p + 1, p + n)
           st == Loop(hd, buf)
           S == {i \in Nat : i <= n => LoopInv(st[i], b, p + i)}
<1>1. Len(buf) = n /\ \A i \in 1..n : buf[i] = b[p + i]
  OBVIOUS
<1> HIDE DEF buf
<1>2. st[0] = LoopStart(hd) /\ \A i \in 0..(n - 1) : st[i + 1] = AddByte(st[i], buf[i + 1])
  BY <1>1, LoopUnfolds
<1> HIDE DEF st
<1>3. 0 \in S
  <2>1. LoopInv(LoopStart(hd), b, p)
    BY DEF LoopInv, LoopStart
  <2> QED
    BY <1>2, <2>1
<1>4. ASSUME NEW i \in Nat, i \in S PROVE i + 1 \in S
  <2> SUFFICES ASSUME i + 1 <= n PROVE LoopInv(st[i + 1], b, p + (i + 1))
    OBVIOUS
  <2>1. LoopInv(st[i], b, p + i)
    BY <1>4
  <2>2. p + i \in Nat /\ p + i < Len(b) /\ (p + i) + 1 = p + (i + 1)
    OBVIOUS
  <2>3. st[i + 1] = AddByte(st[i], b[(p + i) + 1])
    BY <1>1, <1>2, <2>2
  <2>4. LoopInv(AddByte(st[i], b[(p + i) + 1]), b, (p + i) + 1)
    BY <2>1, <2>2, ByteStep
  <2> QED
    BY <2>2, <2>3, <2>4
<1> HIDE DEF S
<1>5. n \in S
  BY <1>3, <1>4, NatSetInduction
<1>6. LoopInv(st[n], b, p + n)
  BY <1>5 DEF S
<1> QED
  BY <1>1, <1>6 DEF add_data, st, buf

\* BodyStart is the end of the header.
LEMMA BodyStartIs ==
    ASSUME NEW b \in Seq(Bytes), NEW e \in 1..Len(b), HeaderEnd(b, e)
    PROVE  HasBody(b) /\ BodyStart(b) = e
<1>1. HasBody(b)
  BY DEF HasBody, HeaderEnd
<1> DEFINE P(i) == EndsEmptyLine(b, i) /\ \A j \in 1..(i - 1) : ~EndsEmptyLine(b, j)
<1>2. e \in DOMAIN b /\ P(e)
  BY DEF HeaderEnd
<1>3. ASSUME NEW i \in DOMAIN b, P(i) PROVE i = e
  <2>1. i \in 1..Len(b)
    OBVIOUS
  <2>2. CASE i < e
    BY <1>2, <1>3, <2>1, <2>2
  <2>3. CASE e < i
    BY <1>2, <1>3, <2>1, <2>3
  <2> QED
    BY <2>1, <2>2, <2>3
<1>4. BodyStart(b) = CHOOSE i \in DOMAIN b : P(i)
  BY DEF BodyStart
<1> HIDE DEF P
<1>5. BodyStart(b) = e
  BY <1>2, <1>3, <1>4
<1> QED
  BY <1>1, <1>5

-----------------------------------------------------------------------------
(* The body.                                                               *)

\* All of the body that was read is in the response.
BodyRead ==
    /\ HasBody(reply.bytes)
    /\ BodyStart(reply.bytes) \in 1..pos /\ pos \in 1..Len(reply.bytes)
    /\ resp = Positions(BodyStart(reply.bytes), pos)
    /\ link = "eof" => pos = Len(reply.bytes)

\* What is known of the reply at each place of http_get.
WholeInv ==
    /\ pc # "idle" => ret = "none"
    /\ pc \in {"status"} \cup Sending => reply \in Replies
    /\ pc \in ToPeer \cup {"status", "send", "send_loop"} =>
          pos = 0 /\ link = "up" /\ hdr = NoHeaders /\ resp = <<>>
    /\ pc = "headers" =>
          /\ link = "up" /\ hdr \in Headers /\ pos \in 0..Len(reply.bytes)
          /\ Collecting(hdr, reply.bytes, pos)
    /\ pc = "reply" => IF is_complete(hdr) THEN BodyRead ELSE ~HasBody(reply.bytes)
    /\ pc \in {"body", "shutdown1", "drain", "shutdown2"} => BodyRead /\ httpCode = reply.status
    /\ SuccessIsWhole
    /\ AbortOnlyOnBadReply

\* What is read next continues what was read.
LEMMA PositionsJoin ==
    ASSUME NEW a \in Nat, NEW b \in Nat, NEW c \in Nat, a <= b, b <= c
    PROVE  Positions(a, b) \o Positions(b, c) = Positions(a, c)
<1> DEFINE p == Positions(a, b)
           q == Positions(b, c)
           r == Positions(a, c)
<1>1. /\ p \in Seq(Nat) /\ Len(p) = b - a /\ \A i \in 1..(b - a) : p[i] = a + i
      /\ q \in Seq(Nat) /\ Len(q) = c - b /\ \A i \in 1..(c - b) : q[i] = b + i
      /\ r \in Seq(Nat) /\ Len(r) = c - a /\ \A i \in 1..(c - a) : r[i] = a + i
  BY DEF Positions
<1> HIDE DEF p, q, r
<1>2. Len(p) + Len(q) = c - a
  BY <1>1
<1>3. /\ p \o q \in Seq(Nat) /\ Len(p \o q) = c - a
      /\ \A i \in 1..(c - a) : (p \o q)[i] = IF i <= Len(p) THEN p[i] ELSE q[i - Len(p)]
  <2>1. /\ p \o q \in Seq(Nat) /\ Len(p \o q) = Len(p) + Len(q)
        /\ \A i \in 1..(Len(p) + Len(q)) : (p \o q)[i] = IF i <= Len(p) THEN p[i] ELSE q[i - Len(p)]
    BY <1>1, ConcatProperties, Zenon
  <2> QED
    BY <1>2, <2>1, Zenon
<1>4. ASSUME NEW i \in 1..(c - a) PROVE (p \o q)[i] = r[i]
  <2>1. CASE i <= Len(p)
    BY <1>1, <1>3, <2>1
  <2>2. CASE ~(i <= Len(p))
    <3>1. i - Len(p) \in 1..(c - b)
      BY <1>1, <2>2
    <3> QED
      BY <1>1, <1>3, <2>2, <3>1
  <2> QED
    BY <2>1, <2>2
<1>5. p \o q = r
  BY <1>1, <1>3, <1>4, SeqEqual
<1> QED
  BY <1>5 DEF p, q, r

LEMMA ReplyType ==
    ASSUME reply \in Replies
    PROVE  /\ reply.bytes \in Seq(Bytes) /\ reply.bytes # <<>> /\ reply.bytes[1] = "text"
           /\ Len(reply.bytes) \in Nat \ {0} /\ reply.status \in Int
BY ClientAssumption

LEMMA InitWhole == Init => WholeInv
BY SetupDomain DEF Init, WholeInv, SuccessIsWhole, AbortOnlyOnBadReply, ToPeer, Sending

\* Exits that report a failure.
LEMMA FailWhole ==
    ASSUME pc' = "idle", ret' = "false"
    PROVE  WholeInv'
BY SetupDomain DEF WholeInv, SuccessIsWhole, AbortOnlyOnBadReply, ToPeer, Sending

LEMMA HeaderDataWhole ==
    ASSUME WholeInv, HeaderData
    PROVE  WholeInv'
<1> DEFINE b == reply.bytes
<1>0. /\ pc = "headers" /\ reply \in Replies /\ ret = "none" /\ link = "up" /\ hdr \in Headers
      /\ pos \in 0..Len(b) /\ Collecting(hdr, b, pos)
  BY DEF WholeInv, HeaderData, Sending
<1>1. PICK n \in 1..RecvLen :
          /\ n <= Rest
          /\ LET st == add_data(hdr, SubSeq(b, pos + 1, pos + n))
             IN  /\ hdr' = st.hdr
                 /\ pc' = IF is_complete(st.hdr) THEN "reply" ELSE "headers"
                 /\ resp' = IF is_complete(st.hdr)
                            THEN Positions(pos + n - st.surplus, pos + n) ELSE <<>>
          /\ pos' = pos + n
  BY DEF HeaderData
<1> DEFINE st == add_data(hdr, SubSeq(b, pos + 1, pos + n))
<1>2. /\ n \in Nat \ {0} /\ pos \in Nat /\ pos + n <= Len(b) /\ pos + n \in 1..Len(b)
      /\ b \in Seq(Bytes) /\ b # <<>> /\ b[1] = "text"
  BY <1>0, <1>1, ReplyType, ClientAssumption DEF Rest
<1>3. LoopInv(st, b, pos + n)
  BY <1>0, <1>2, AddData
<1>4. UNCHANGED <<ret, reply, link>>
  BY DEF HeaderData
<1>5. /\ hdr' = st.hdr /\ pos' = pos + n
      /\ is_complete(st.hdr) => pc' = "reply" /\ resp' = Positions(pos + n - st.surplus, pos + n)
      /\ ~is_complete(st.hdr) => pc' = "headers"
  BY <1>1
<1>6. st.hdr \in Headers
  BY <1>3 DEF LoopInv
<1>7. CASE st.returned
  <2>1. is_complete(st.hdr)
    BY <1>3, <1>7 DEF LoopInv
  <2> DEFINE e == (pos + n) - st.surplus
  <2>2. e \in 1..(pos + n) /\ HeaderEnd(b, e)
    BY <1>3, <1>7 DEF LoopInv
  <2>3. pc' = "reply" /\ resp' = Positions(e, pos + n)
    <3>1. st.surplus \in Nat
      BY <1>3 DEF LoopInv
    <3>2. pos + n - st.surplus = e
      BY <1>2, <3>1
    <3> QED
      BY <1>5, <2>1, <3>2
  <2>4. HasBody(b) /\ BodyStart(b) = e
    BY <1>2, <2>2, BodyStartIs
  <2> HIDE DEF st, e, b
  <2>5. BodyRead'
    BY <1>0, <1>2, <1>4, <1>5, <2>2, <2>3, <2>4 DEF BodyRead, b
  <2>6. is_complete(hdr')
    BY <1>5, <2>1
  <2> QED
    BY <1>0, <1>4, <2>3, <2>5, <2>6, SetupDomain
       DEF WholeInv, SuccessIsWhole, AbortOnlyOnBadReply, ToPeer, Sending
<1>8. CASE ~st.returned
  <2>1. Collecting(st.hdr, b, pos + n)
    BY <1>3, <1>8 DEF LoopInv
  <2>2. ~is_complete(st.hdr)
    BY <2>1 DEF Collecting, is_complete
  <2>3. pc' = "headers"
    BY <1>1, <2>2
  <2> HIDE DEF st
  <2> QED
    BY <1>0, <1>2, <1>4, <1>5, <1>6, <2>1, <2>3, SetupDomain
       DEF WholeInv, SuccessIsWhole, AbortOnlyOnBadReply, ToPeer, Sending
<1> QED
  BY <1>7, <1>8

LEMMA HeaderNoDataWhole ==
    ASSUME WholeInv, HeaderNoData
    PROVE  WholeInv'
<1>0. /\ pc = "headers" /\ reply \in Replies /\ ret = "none" /\ link = "up" /\ hdr \in Headers
      /\ pos \in 0..Len(reply.bytes) /\ Collecting(hdr, reply.bytes, pos)
  BY DEF WholeInv, HeaderNoData, Sending
<1>1. CASE AtEof /\ pc' = "reply" /\ UNCHANGED ret
  <2>1. pos = Len(reply.bytes)
    BY <1>0, <1>1, ReplyType DEF AtEof, Rest
  <2>2. ~HasBody(reply.bytes) /\ ~is_complete(hdr)
    BY <1>0, <2>1, ReplyType DEF HasBody, Collecting, is_complete
  <2> QED
    BY <1>0, <1>1, <2>2, SetupDomain
       DEF HeaderNoData, WholeInv, SuccessIsWhole, AbortOnlyOnBadReply, ToPeer, Sending
<1>2. CASE ReadError /\ Leave("false", Resources)
  BY <1>2, FailWhole DEF Leave
<1>3. CASE Interrupted /\ UNCHANGED <<pc, ret>>
  BY <1>0, <1>3, SetupDomain
     DEF HeaderNoData, Interrupted, WholeInv, SuccessIsWhole, AbortOnlyOnBadReply, ToPeer, Sending
<1> QED
  BY <1>1, <1>2, <1>3 DEF HeaderNoData

LEMMA BodyLoopWhole ==
    ASSUME WholeInv, BodyLoop
    PROVE  WholeInv'
<1>0. /\ pc \in {"body", "drain"} /\ reply \in Replies /\ ret = "none" /\ BodyRead
      /\ httpCode = reply.status
  BY DEF WholeInv, BodyLoop, Sending
<1>1. UNCHANGED <<reply, ret, httpCode>>
  BY DEF BodyLoop
<1>2. BodyRead' /\ pc' \in {"body", "drain", "shutdown1", "shutdown2"}
  <2>1. CASE \E n \in 1..RecvLen : n <= Rest /\ resp' = Appended(n) /\ pos' = pos + n /\ UNCHANGED <<pc, link>> /\ link = "up"
    <3>1. PICK n \in 1..RecvLen : n <= Rest /\ resp' = Appended(n) /\ pos' = pos + n
      BY <2>1
    <3>2. /\ n \in Nat /\ pos \in Nat /\ pos + n \in 1..Len(reply.bytes)
          /\ BodyStart(reply.bytes) \in Nat /\ BodyStart(reply.bytes) <= pos
      BY <1>0, <3>1, ReplyType, ClientAssumption DEF BodyRead, Rest
    <3>3. resp' = Positions(BodyStart(reply.bytes), pos + n)
      <4>1. pos + n \in Nat /\ pos <= pos + n
        BY <3>2
      <4>2. Positions(BodyStart(reply.bytes), pos) \o Positions(pos, pos + n)
              = Positions(BodyStart(reply.bytes), pos + n)
        BY <3>2, <4>1, PositionsJoin
      <4> QED
        BY <1>0, <3>1, <4>2 DEF BodyRead, Appended
    <3> QED
      BY <1>0, <1>1, <2>1, <3>1, <3>2, <3>3 DEF BodyRead
  <2>2. CASE /\ AtEof \/ ReadError \/ Interrupted
             /\ pc' = IF pc = "body" THEN "shutdown1" ELSE "shutdown2"
             /\ UNCHANGED <<resp, pos>>
    <3>1. link' = "eof" => pos = Len(reply.bytes)
      BY <1>0, <2>2, ReplyType DEF BodyRead, AtEof, ReadError, Interrupted, Rest
    <3> QED
      BY <1>0, <1>1, <2>2, <3>1 DEF BodyRead
  <2> QED
    BY <2>1, <2>2 DEF BodyLoop
<1> QED
  BY <1>0, <1>1, <1>2, SetupDomain DEF WholeInv, SuccessIsWhole, AbortOnlyOnBadReply, ToPeer, Sending

LEMMA ShutdownWhole ==
    ASSUME WholeInv, SSL_shutdown
    PROVE  WholeInv'
<1>0. /\ pc \in {"shutdown1", "shutdown2"} /\ reply \in Replies /\ ret = "none" /\ BodyRead
      /\ httpCode = reply.status
  BY DEF WholeInv, SSL_shutdown, Sending
<1>1. UNCHANGED <<reply, resp, pos, hdr, httpCode>>
  BY DEF SSL_shutdown
<1>2. CASE pc' = "idle" /\ ret' = "true"
  <2>1. link = "eof" \/ Rest = 0
    BY <1>0, <1>2 DEF SSL_shutdown, Failure, Leave, Shutdown2Fails
  <2>2. pos = Len(reply.bytes)
    BY <1>0, <2>1, ReplyType DEF BodyRead, Rest
  <2>3. SuccessIsWhole'
    BY <1>0, <1>1, <2>2 DEF SuccessIsWhole, BodyRead
  <2> QED
    BY <1>2, <2>3, SetupDomain DEF WholeInv, AbortOnlyOnBadReply, ToPeer, Sending
<1>3. CASE pc' = "idle" /\ ret' = "false"
  BY <1>3, FailWhole
<1>4. CASE pc' = "drain" /\ UNCHANGED <<ret, link>>
  BY <1>0, <1>1, <1>4, SetupDomain
     DEF WholeInv, SuccessIsWhole, AbortOnlyOnBadReply, ToPeer, Sending, BodyRead
<1> QED
  BY <1>2, <1>3, <1>4 DEF SSL_shutdown, Failure, Leave

LEMMA NextWhole == WholeInv /\ [Next]_vars => WholeInv'
<1> SUFFICES ASSUME WholeInv, [Next]_vars PROVE WholeInv'
  OBVIOUS
<1> USE SetupDomain
<1>1. CASE setPsid_setSsp
  BY <1>1 DEF setPsid_setSsp, conn, WholeInv, SuccessIsWhole, AbortOnlyOnBadReply, ToPeer, Sending
<1>2. CASE httpGet
  BY <1>2 DEF httpGet, WholeInv, SuccessIsWhole, AbortOnlyOnBadReply, ToPeer, Sending
<1>3. CASE SetupStep
  <2>1. CASE Failure(Setup[pc].code, Frees(pc))
    BY <2>1, FailWhole DEF Failure, Leave
  <2>2. CASE pc' = Setup[pc].next /\ UNCHANGED ret
    <3>1. pc' \in ToPeer /\ pc \in ToPeer /\ pc # "idle"
      BY <1>3, <2>2 DEF SetupStep, Setup, ToPeer
    <3> QED
      BY <1>3, <2>2, <3>1 DEF SetupStep, conn, WholeInv, SuccessIsWhole, AbortOnlyOnBadReply, ToPeer, Sending
  <2> QED
    BY <1>3, <2>1, <2>2 DEF SetupStep
<1>4. CASE SSL_connect
  <2>1. CASE Failure(1015, Resources)
    BY <2>1, FailWhole DEF Failure, Leave
  <2>2. CASE pc' = "status" /\ reply' \in Replies /\ UNCHANGED ret
    BY <1>4, <2>2 DEF SSL_connect, WholeInv, SuccessIsWhole, AbortOnlyOnBadReply, ToPeer, Sending
  <2> QED
    BY <1>4, <2>1, <2>2 DEF SSL_connect
<1>5. CASE ssl_print_1609_status
  <2>1. CASE \E code \in {StatusError(SspRead(past)) : past \in Past} : Failure(code, Resources)
    BY <2>1, FailWhole DEF Failure, Leave
  <2>2. CASE pc' = "send" /\ UNCHANGED ret
    BY <1>5, <2>2 DEF ssl_print_1609_status, conn, WholeInv, SuccessIsWhole, AbortOnlyOnBadReply, ToPeer, Sending
  <2> QED
    BY <1>5, <2>1, <2>2 DEF ssl_print_1609_status, Past
<1>6. CASE ssl_send_message
  <2>1. /\ reply \in Replies /\ UNCHANGED <<reply, pos, link, hdr, ret, resp>>
        /\ pos = 0 /\ link = "up" /\ hdr = NoHeaders /\ resp = <<>> /\ ret = "none"
    BY <1>6 DEF ssl_send_message, conn, WholeInv, Sending
  <2>2. hdr \in Headers /\ Collecting(hdr, reply.bytes, pos) /\ pos \in 0..Len(reply.bytes)
    BY <2>1, ReplyType DEF Collecting, NoHeaders, Headers
  <2> QED
    BY <1>6, <2>1, <2>2 DEF ssl_send_message, WholeInv, SuccessIsWhole, AbortOnlyOnBadReply, ToPeer, Sending
<1>7. CASE HeaderData
  BY <1>7, HeaderDataWhole
<1>8. CASE HeaderNoData
  BY <1>8, HeaderNoDataWhole
<1>9. CASE get_reply_status
  BY <1>9 DEF get_reply_status, conn, WholeInv, SuccessIsWhole, AbortOnlyOnBadReply, ToPeer, Sending, BodyRead
<1>10. CASE BodyLoop
  BY <1>10, BodyLoopWhole
<1>11. CASE SSL_shutdown
  BY <1>11, ShutdownWhole
<1>12. CASE UNCHANGED vars
  BY <1>12 DEF vars, WholeInv, SuccessIsWhole, AbortOnlyOnBadReply, BodyRead
<1>13. CASE SendRetry
  BY <1>12, <1>13 DEF SendRetry
<1> QED
  BY <1>1, <1>2, <1>3, <1>4, <1>5, <1>6, <1>7, <1>8, <1>9, <1>10, <1>11, <1>12, <1>13 DEF Next, Running

\* A call of http_get that returns true delivered the body whole and in order, and the
\* status of its reply, for every reply and every way the reads cut it.
THEOREM SuccessWhole == Spec => []SuccessIsWhole
<1>1. WholeInv => SuccessIsWhole
  BY DEF WholeInv
<1> QED
  BY InitWhole, NextWhole, <1>1, PTL DEF Spec

\* The exception of get_reply_status that nothing catches is only thrown for a reply
\* without an empty line or with a status that does not parse; never because of how
\* add_data was fed.
THEOREM AbortBadReply == Spec => []AbortOnlyOnBadReply
<1>1. WholeInv => AbortOnlyOnBadReply
  BY DEF WholeInv
<1> QED
  BY InitWhole, NextWhole, <1>1, PTL DEF Spec
===============================================================================
