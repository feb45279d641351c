------------------------------- MODULE CertChain -------------------------------
(***************************************************************************)
(* The report on the peer's certificate chain: SSL_get_1609_cert_chain     *)
(* (ssl/ieee1609dot2.c) asks the security entity for the certificate of a  *)
(* hash, enters it in the caller's array and calls itself for the issuer,  *)
(* with the rest of the array, until it meets a root; its caller           *)
(* (ssl_print_1609_status) lists the entries when it returns 1.            *)
(*                                                                         *)
(* Issuers come from certificates, so they may miss, repeat or form a      *)
(* cycle; every request to the entity may fail (SecEntCall).  Times are in *)
(* seconds of the Unix epoch (start includes EPOCH_TO_TAI_EPOCH_SEC) and   *)
(* dates are its days; the fields of a certificate are at offsets that     *)
(* depend on the length of its name.                                       *)
(***************************************************************************)
EXTENDS Integers, Sequences

CONSTANTS
    Hashes,    \* hashes of certificates
    peer,      \* the hash of the peer's certificate
    Certs,     \* what a certificate may be
    Sizes,     \* lengths the array may have
    Widths     \* bits of a C long: 32 or 64, by the ABI

MaxInt == 2147483647
MaxCnt == 65535  \* of the 16-bit count of a duration
NoCert == [kind |-> "none"]

ASSUME CertChainAssumption ==
    /\ peer \in Hashes /\ NoCert \notin Certs
    /\ \A c \in Certs : /\ c.kind \in {"AT", "AA", "ROOT", "other"} /\ c.issuer \in Hashes
                        /\ c.name \in 0..255 /\ c.type \in 0..6 /\ c.cnt \in 0..MaxCnt
                        /\ c.start \in 1072915232..(MaxInt - 1)
    /\ Sizes \subseteq Nat \ {0} /\ Widths \subseteq {32, 64}

VARIABLES
    store,   \* the entity's certificates
    size,    \* length of the array
    width,   \* bits of a long
    pc,      \* "call", "reply", "returned" or "done"
    hash,    \* the hash of the innermost call
    at,      \* the entry of the innermost call
    info,    \* the array
    ret,     \* what the call returned
    failed,  \* history: a request failed
    report   \* result_peer_cert_chain: the hashes listed

vars == <<store, size, width, pc, hash, at, info, ret, failed, report>>

Later     == -1  \* after 2038, where times are not told apart
Undefined == -2  \* of an overflow, or read from the wrong place
NoDates   == [from |-> 0, to |-> 0]  \* empty strings
AnyDates  == [from |-> Undefined, to |-> Undefined]

Zero    == [valid |-> FALSE, hash |-> "zero", dates |-> NoDates]
Garbage == [valid |-> TRUE, hash |-> "zero", dates |-> AnyDates]  \* a local array

Init ==
    /\ store \in [Hashes -> Certs \cup {NoCert}]
    /\ size \in Sizes /\ width \in Widths
    /\ pc = "call" /\ hash = peer /\ at = 1
    /\ info = [i \in 1..size |-> Garbage]
    /\ ret = 0 /\ failed = FALSE /\ report = <<>>

-----------------------------------------------------------------------------
(* ssl_time32_to_time_t and the fields of a certificate.                   *)

Unit(type) == CASE type = 2 -> 1 [] type = 3 -> 60 [] type = 4 -> 3600
                [] type = 5 -> 216000 [] type = 6 -> 31556952

\* start + n * unit as a long, which ends in 2038 where it has 32 bits.
Sum(start, n, unit) ==
    IF n <= (MaxInt - start) \div unit THEN start + n * unit
    ELSE IF width = 64 THEN Later ELSE Undefined

\* Durations in micro- and milliseconds are taken for one second.  The product is an
\* int, but for years.
ssl_time32_to_time_t(start, type, cnt) ==
    IF type < 2 THEN Sum(start, 1, 1)
    ELSE IF type < 6 /\ cnt > MaxInt \div Unit(type) THEN Undefined
    ELSE Sum(start, cnt, Unit(type))

\* The day of a time.
Day(t) == IF t < 0 THEN t ELSE t \div 86400

ssl_time32_to_string(start, type, cnt) == Day(ssl_time32_to_time_t(start, type, cnt))

\* sizeof(info->id_name) - 1: the length of the name, as far as id_name takes it, is
\* also used to find the validity behind the name.
idName == 63

\* Mutant: a name that just fits is cut as well.
Misplaced_AtLimit(c) == IF c.kind = "AT" THEN c.name > 0 ELSE c.name >= idName

\* The validity is not where it is looked for; in an AT that is where it is without a name.
Misplaced(c) == IF c.kind = "AT" THEN c.name > 0 ELSE c.name > idName

\* The dates of certificate c in its entry.  Bytes that are no validity may look like one,
\* and a duration of microseconds does not.
Dates(c) ==
    CASE c.kind = "other"                     -> {NoDates}
      [] c.kind # "other" /\ Misplaced(c)     -> {NoDates, AnyDates}
      [] c.kind # "other" /\ ~Misplaced(c) /\ c.type = 0 -> {NoDates}
      [] OTHER -> {[from |-> ssl_time32_to_string(c.start, 0, 0),
                    to   |-> ssl_time32_to_string(c.start, c.type, c.cnt)]}

-----------------------------------------------------------------------------
(* SSL_get_1609_cert_chain.                                                *)

Return(r) == ret' = r /\ pc' = "returned"

\* info_size_in_bytes holds one entry.
Fits == at <= size

tooSmall ==
    /\ pc = "call" /\ ~Fits
    /\ Return(0)
    /\ UNCHANGED <<store, size, width, hash, at, info, failed, report>>

\* Mutant: only the entry in use is cleared.
Cleared_Entry == [info EXCEPT ![at] = Zero]

\* memset, of the rest of the array.
Cleared == [i \in DOMAIN info |-> IF i >= at THEN Zero ELSE info[i]]

request ==
    /\ pc = "call" /\ Fits
    /\ info' = [Cleared EXCEPT ![at].hash = hash]
    /\ pc' = "reply"
    /\ UNCHANGED <<store, size, width, hash, at, ret, failed, report>>

\* No reply, a reply of another type (the entity has no such certificate), or no
\* memory for it.
requestFails ==
    /\ pc = "reply"
    /\ failed' = TRUE
    /\ Return(0)
    /\ UNCHANGED <<store, size, width, hash, at, info, report>>

\* What the call returns for a certificate that has no issuer to go on with.
Result(c) == IF c.kind = "ROOT" THEN 1 ELSE 0

HasIssuer(c) == c.kind \in {"AT", "AA"}

\* Mutant: the issuer is entered in the same place.
NextEntry_Same == at

NextEntry == at + 1

reply ==
    /\ pc = "reply" /\ store[hash] # NoCert
    /\ \E d \in Dates(store[hash]) :
          info' = [info EXCEPT ![at].valid = TRUE, ![at].dates = d]
    /\ \/ /\ HasIssuer(store[hash])
          /\ at' = NextEntry /\ hash' = store[hash].issuer
          /\ pc' = "call" /\ UNCHANGED ret
       \/ /\ ~HasIssuer(store[hash])
          /\ Return(Result(store[hash]))
          /\ UNCHANGED <<at, hash>>
    /\ UNCHANGED <<store, size, width, failed, report>>

-----------------------------------------------------------------------------
\* The caller's loop: the entries up to the first that is not valid.
Listed == LET n == CHOOSE k \in 0..size : /\ \A i \in 1..k : info[i].valid
                                          /\ k < size => ~info[k + 1].valid
          IN [i \in 1..n |-> info[i].hash]

listChain ==
    /\ pc = "returned" /\ pc' = "done"
    /\ report' = IF ret # 0 THEN Listed ELSE report
    /\ UNCHANGED <<store, size, width, hash, at, info, ret, failed>>

Done == pc = "done" /\ UNCHANGED vars

Step == tooSmall \/ request \/ requestFails \/ reply \/ listChain

Next == Step \/ Done

\* A request to the entity returns (SecEntExchange), and the thread goes on.
Spec == Init /\ [][Next]_vars /\ WF_vars(Step)

-----------------------------------------------------------------------------
\* Reference: p leads from the peer's certificate from issuer to issuer.
Chain(p) ==
    /\ p[1] = peer
    /\ \A i \in 1..(Len(p) - 1) : /\ store[p[i]].kind \in {"AT", "AA"}
                                  /\ p[i + 1] = store[p[i]].issuer
RootChains == {p \in UNION {[1..n -> Hashes] : n \in 1..size} :
                 Chain(p) /\ store[p[Len(p)]].kind = "ROOT"}

\* The call says 1 exactly when every request succeeded and the chain reaches a root
\* within the array: a cycle, a gap and a chain that is too long say 0.  What is
\* then reported is that chain, whole: no entry of the uninitialised array, none
\* missing, none twice; and nothing is reported otherwise.
ChainReported ==
    pc = "done" => /\ (ret = 1) <=> (~failed /\ RootChains # {})
                   /\ report # <<>> => ret = 1
                   /\ ret = 1 => report \in RootChains

\* Certificate c ends before 2038, counts in seconds or more and has a name that fits.
Early(c) ==
    /\ c.type >= 2 /\ c.name <= (IF c.kind = "AT" THEN 0 ELSE idName)
    /\ c.cnt <= (MaxInt - c.start) \div Unit(c.type)

\* Its last day, and its first: the next one if it starts in the last second of a day.
OwnDates(c, d) ==
    /\ d.to = (c.start + c.cnt * Unit(c.type)) \div 86400
    /\ d.from = (c.start \div 86400) + (IF c.start % 86400 = 86399 THEN 1 ELSE 0)

\* On every ABI, a reported certificate that ends before 2038, whose validity counts
\* in seconds or more and whose name fits its entry (an AT has none), is listed with
\* the day it ends and the day it starts; or with the day after that, if it starts in
\* the last second of a day.
DatesUntil2038 ==
    ret = 1 => \A i \in 1..at :
        Early(store[info[i].hash]) => OwnDates(store[info[i].hash], info[i].dates)

\* The walk ends, whatever the issuers are: each call has less of the array.
WalkEnds == <>(pc = "done")
=============================================================================
