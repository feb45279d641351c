--------------------------- MODULE CertChain_proofs ---------------------------
(***************************************************************************)
(* Proofs about the report on the peer's certificate chain, for every set  *)
(* of certificates and hashes, every way the issuers refer to each other   *)
(* and every length of the array.                                          *)
(***************************************************************************)
EXTENDS CertChain, SequenceTheorems, TLAPS

Entry == [valid : BOOLEAN, hash : Hashes \cup {"zero"}, dates : [from : Int, to : Int]]

\* Type correctness, stronger than a run needs: the array and the certificates too.
ArrayInv ==
    /\ store \in [Hashes -> Certs \cup {NoCert}]
    /\ size \in Nat \ {0} /\ width \in {32, 64}
    /\ pc \in {"call", "reply", "returned", "done"}
    /\ hash \in Hashes /\ at \in Nat \ {0}
    /\ info \in [1..size -> Entry]
    /\ ret \in {0, 1} /\ failed \in BOOLEAN

\* The hash of the i-th call.
Node(i) == IF i = at THEN hash ELSE info[i].hash

\* The calls so far lead from the peer's certificate from issuer to issuer; those that
\* called themselves have entered a valid certificate.
WalkInv ==
    /\ Node(1) = peer
    /\ \A i \in 1..(at - 1) : /\ i <= size /\ info[i].valid /\ info[i].hash \in Hashes
                              /\ HasIssuer(store[info[i].hash])
                              /\ Node(i + 1) = store[info[i].hash].issuer

\* What the innermost call has entered.
Entered == at <= size /\ info[at].hash = hash /\ \A i \in (at + 1)..size : ~info[i].valid

\* While the walk goes on it is on every chain that leads to a root; when it has ended
\* it has found one, or there is none, or a request has failed.
FoundInv ==
    /\ pc \in {"call", "reply"} =>
          /\ ret = 0 /\ ~failed
          /\ \A p \in RootChains : at <= Len(p) /\ p[at] = hash
    /\ pc = "reply" => Entered
    /\ pc \in {"returned", "done"} =>
          \/ ret = 0 /\ (failed \/ RootChains = {})
          \/ /\ ret = 1 /\ ~failed /\ Entered /\ info[at].valid
             /\ store[hash].kind = "ROOT"

ReportInv ==
    /\ pc # "done" \/ ret = 0 => report = <<>>
    /\ pc = "done" /\ ret = 1 => report = [i \in 1..at |-> info[i].hash]

ChainInv == ArrayInv /\ WalkInv /\ FoundInv /\ ReportInv

LEMMA FunctionSeq ==
    ASSUME NEW S, NEW n \in Nat, NEW p \in [1..n -> S]
    PROVE  p \in Seq(S) /\ Len(p) = n
<1>1. p \in Seq(S)
  BY SeqDef
<1> QED
  BY <1>1, LenProperties

LEMMA CertFacts ==
    ASSUME ArrayInv, NEW h \in Hashes
    PROVE  /\ store[h] = NoCert => store[h].kind = "none" /\ ~HasIssuer(store[h])
           /\ store[h] # NoCert => /\ store[h] \in Certs /\ store[h].issuer \in Hashes
                                   /\ store[h].kind \in {"AT", "AA", "ROOT", "other"}
<1>1. store[h] \in Certs \cup {NoCert}
  BY DEF ArrayInv
<1>2. NoCert.kind = "none"
  BY DEF NoCert
<1>3. \A c \in Certs : c.kind \in {"AT", "AA", "ROOT", "other"} /\ c.issuer \in Hashes
  BY CertChainAssumption
<1>4. store[h] = NoCert => store[h].kind = "none" /\ ~HasIssuer(store[h])
  BY <1>2 DEF HasIssuer
<1> QED
  BY <1>1, <1>3, <1>4

LEMMA InitChain == Init => ChainInv
<1> SUFFICES ASSUME Init PROVE ChainInv
  OBVIOUS
<1>1. ArrayInv
  <2>1. Garbage \in Entry
    BY DEF Garbage, Entry, AnyDates, Undefined
  <2>2. peer \in Hashes /\ size \in Nat \ {0} /\ width \in {32, 64}
    BY CertChainAssumption DEF Init
  <2>3. info \in [1..size -> Entry]
    BY <2>1 DEF Init
  <2>4. store \in [Hashes -> Certs \cup {NoCert}]
    BY DEF Init
  <2>5. failed \in BOOLEAN
    BY DEF Init
  <2>6. /\ pc \in {"call", "reply", "returned", "done"} /\ hash \in Hashes
        /\ at \in Nat \ {0} /\ ret \in {0, 1}
    BY <2>2 DEF Init
  <2> QED
    BY <2>2, <2>3, <2>4, <2>5, <2>6 DEF ArrayInv
<1>2. WalkInv
  BY DEF Init, WalkInv, Node
<1>3. \A p \in RootChains : at <= Len(p) /\ p[at] = hash
  <2> SUFFICES ASSUME NEW p \in RootChains PROVE at <= Len(p) /\ p[at] = hash
    OBVIOUS
  <2>1. PICK n \in 1..size : p \in [1..n -> Hashes]
    BY DEF RootChains
  <2>2. n \in Nat /\ n >= 1
    BY <1>1, <2>1 DEF ArrayInv
  <2>3. Len(p) = n
    BY <2>1, <2>2, FunctionSeq
  <2>4. p[1] = peer
    BY DEF RootChains, Chain
  <2> QED
    BY <2>2, <2>3, <2>4 DEF Init
<1>4. FoundInv
  BY <1>3 DEF Init, FoundInv
<1>5. ReportInv
  BY DEF Init, ReportInv
<1> QED
  BY <1>1, <1>2, <1>4, <1>5 DEF ChainInv

\* The chains to a root do not change, and have a place in the array each.
LEMMA RootSame == UNCHANGED <<store, size>> => RootChains' = RootChains
BY DEF RootChains, Chain

LEMMA RootFacts ==
    ASSUME ArrayInv, NEW p \in RootChains
    PROVE  /\ Len(p) \in 1..size /\ p \in [1..Len(p) -> Hashes] /\ Chain(p)
           /\ store[p[Len(p)]].kind = "ROOT"
<1>1. PICK n \in 1..size : p \in [1..n -> Hashes]
  BY DEF RootChains
<1>2. n \in Nat
  BY <1>1 DEF ArrayInv
<1>3. Len(p) = n
  BY <1>1, <1>2, FunctionSeq
<1> QED
  BY <1>1, <1>3 DEF RootChains

\* The array after memset and the entry of the hash.
LEMMA RequestFacts ==
    ASSUME ArrayInv, request
    PROVE  /\ at <= size /\ at \in 1..size /\ info' \in [1..size -> Entry]
           /\ \A i \in 1..(at - 1) : info'[i] = info[i]
           /\ info'[at].hash = hash
           /\ \A i \in (at + 1)..size : ~info'[i].valid
<1>1. at <= size /\ at \in 1..size
  BY DEF request, Fits, ArrayInv
<1>2. Zero \in Entry /\ Zero.valid = FALSE
  BY DEF Zero, Entry, NoDates
<1>3. PICK c : c = Cleared
  OBVIOUS
<1>4. /\ c \in [1..size -> Entry] /\ \A i \in 1..(at - 1) : c[i] = info[i]
      /\ \A i \in at..size : c[i] = Zero
  BY <1>2, <1>3 DEF Cleared, ArrayInv
<1>5. PICK x : x = [c[at] EXCEPT !.hash = hash]
  OBVIOUS
<1>6. x \in Entry /\ x.hash = hash
  <2>1. c[at] \in Entry /\ hash \in Hashes
    BY <1>1, <1>4 DEF ArrayInv
  <2> QED
    BY <1>5, <2>1 DEF Entry
<1>7. info' = [c EXCEPT ![at] = x]
  BY <1>3, <1>5 DEF request
<1>8. info' \in [1..size -> Entry] /\ info'[at] = x /\ \A i \in 1..size : i # at => info'[i] = c[i]
  BY <1>1, <1>4, <1>6, <1>7
<1>9. at \in Nat /\ size \in Nat
  BY DEF ArrayInv
<1>10. \A i \in 1..(at - 1) : info'[i] = info[i]
  BY <1>1, <1>4, <1>8, <1>9
<1>11. \A i \in (at + 1)..size : info'[i] = Zero
  BY <1>1, <1>4, <1>8, <1>9
<1> QED
  BY <1>1, <1>2, <1>6, <1>8, <1>10, <1>11

LEMMA UnitFacts == \A t \in 2..6 : Unit(t) \in Nat \ {0}
BY DEF Unit

\* Dates are pairs of days, or of the marks for days that are not told apart.
LEMMA DatesType ==
    ASSUME NEW c \in Certs, NEW d \in Dates(c)
    PROVE  d \in [from : Int, to : Int]
<1>1. c.type \in 0..6 /\ c.cnt \in Nat /\ c.start \in Nat
  <2>1. c.type \in 0..6 /\ c.cnt \in 0..MaxCnt /\ c.start \in 1072915232..(MaxInt - 1)
    BY CertChainAssumption
  <2>2. MaxInt \in Nat /\ MaxCnt \in Nat
    BY DEF MaxInt, MaxCnt
  <2> QED
    BY <2>1, <2>2
<1>2. \A n \in Nat, u \in Nat : Sum(c.start, n, u) \in Int
  <2>1. \A n \in Nat, u \in Nat : n * u \in Nat
    OBVIOUS
  <2> QED
    BY <1>1, <2>1 DEF Sum, Later, Undefined
<1>3. \A t \in Int : Day(t) \in Int
  BY DEF Day
<1>4. c.type >= 2 => Unit(c.type) \in Nat
  BY <1>1, UnitFacts
<1>5. ssl_time32_to_time_t(c.start, c.type, c.cnt) \in Int
  BY <1>1, <1>2, <1>4 DEF ssl_time32_to_time_t, Undefined
<1>6. ssl_time32_to_time_t(c.start, 0, 0) \in Int
  BY <1>2 DEF ssl_time32_to_time_t
<1>7. \/ d \in {NoDates, AnyDates}
      \/ d = [from |-> ssl_time32_to_string(c.start, 0, 0),
              to   |-> ssl_time32_to_string(c.start, c.type, c.cnt)]
  BY DEF Dates
<1>8. CASE d \in {NoDates, AnyDates}
  BY <1>8 DEF NoDates, AnyDates, Undefined
<1> QED
  BY <1>3, <1>5, <1>6, <1>7, <1>8 DEF ssl_time32_to_string

\* The array after the answer of the entity: only the entry of the call changes.
LEMMA ReplyFacts ==
    ASSUME ArrayInv, Entered, reply
    PROVE  \E d \in Dates(store[hash]) :
              /\ info' \in [1..size -> Entry]
              /\ \A i \in 1..size : i # at => info'[i] = info[i]
              /\ info'[at].valid /\ info'[at].hash = hash /\ info'[at].dates = d
<1>1. at \in 1..size /\ info[at] \in Entry /\ info[at].hash = hash
  BY DEF Entered, ArrayInv
<1>2. PICK d \in Dates(store[hash]) : info' = [info EXCEPT ![at].valid = TRUE, ![at].dates = d]
  BY DEF reply
<1>3. d \in [from : Int, to : Int]
  <2>1. hash \in Hashes /\ store[hash] # NoCert
    BY DEF ArrayInv, reply
  <2>2. store[hash] \in Certs
    BY <2>1 DEF ArrayInv
  <2> QED
    BY <1>2, <2>2, DatesType
<1>4. PICK x : x = [info[at] EXCEPT !.valid = TRUE, !.dates = d]
  OBVIOUS
<1>5. x \in Entry /\ x.valid = TRUE /\ x.hash = info[at].hash /\ x.dates = d
  BY <1>1, <1>3, <1>4 DEF Entry
<1>6. info' = [info EXCEPT ![at] = x]
  <2>1. PICK mid : mid = [info EXCEPT ![at] = [info[at] EXCEPT !.valid = TRUE]]
    OBVIOUS
  <2>2. info' = [mid EXCEPT ![at] = [mid[at] EXCEPT !.dates = d]]
    BY <1>2, <2>1
  <2>3. mid[at] = [info[at] EXCEPT !.valid = TRUE]
    BY <1>1, <2>1 DEF ArrayInv
  <2>4. [mid[at] EXCEPT !.dates = d] = x
    BY <1>4, <2>3
  <2>5. info' = [mid EXCEPT ![at] = x]
    BY <2>2, <2>4
  <2> QED
    BY <2>1, <2>5
<1>7. /\ info' \in [1..size -> Entry] /\ info'[at] = x
      /\ \A i \in 1..size : i # at => info'[i] = info[i]
  BY <1>1, <1>5, <1>6 DEF ArrayInv
<1> QED
  BY <1>1, <1>2, <1>5, <1>7

\* A step that leaves the entries of the outer calls alone.
LEMMA WalkSame ==
    ASSUME ArrayInv, WalkInv, UNCHANGED <<store, size, hash, at>>,
           \A i \in 1..(at - 1) : i <= size => info'[i] = info[i]
    PROVE  WalkInv'
<1>1. at \in Nat /\ at >= 1
  BY DEF ArrayInv
<1>2. \A i \in 1..at : Node(i)' = Node(i)
  <2> SUFFICES ASSUME NEW i \in 1..at PROVE Node(i)' = Node(i)
    OBVIOUS
  <2>1. CASE i = at
    BY <2>1 DEF Node
  <2>2. CASE i # at
    <3>1. i \in 1..(at - 1)
      BY <1>1, <2>2
    <3>2. info'[i] = info[i]
      BY <3>1 DEF WalkInv
    <3> QED
      BY <2>2, <3>2 DEF Node
  <2> QED
    BY <2>1, <2>2
<1>3. Node(1)' = peer
  BY <1>1, <1>2 DEF WalkInv
<1>4. ASSUME NEW i \in 1..(at' - 1)
      PROVE  /\ i <= size' /\ info'[i].valid /\ info'[i].hash \in Hashes
             /\ HasIssuer(store[info'[i].hash])
             /\ Node(i + 1)' = store[info'[i].hash].issuer
  <2>1. i \in 1..(at - 1) /\ i + 1 \in 1..at
    BY <1>1, <1>4
  <2>2. info'[i] = info[i] /\ i <= size
    BY <2>1 DEF WalkInv
  <2>3. Node(i + 1)' = Node(i + 1)
    BY <1>2, <2>1
  <2> QED
    BY <2>1, <2>2, <2>3 DEF WalkInv
<1> QED
  BY <1>3, <1>4 DEF WalkInv, HasIssuer

\* A call for the issuer is one more step of the walk, also along every chain to a root.
LEMMA IssuerStep ==
    ASSUME ChainInv, reply, HasIssuer(store[hash])
    PROVE  /\ at' = at + 1 /\ hash' = store[hash].issuer /\ hash' \in Hashes /\ pc' = "call"
           /\ UNCHANGED <<store, size, ret, failed, report>>
           /\ WalkInv' /\ \A p \in RootChains : at' <= Len(p) /\ p[at'] = hash'
<1>0. ArrayInv /\ WalkInv /\ FoundInv /\ Entered
  BY DEF ChainInv, FoundInv, reply
<1>1. /\ at' = at + 1 /\ hash' = store[hash].issuer /\ pc' = "call"
      /\ UNCHANGED <<store, size, ret, failed, report>>
  BY DEF reply, NextEntry
<1>2. /\ hash \in Hashes /\ at \in Nat /\ at >= 1 /\ size \in Nat /\ at <= size
  BY <1>0 DEF ArrayInv, Entered
<1>3. hash' \in Hashes
  BY <1>0, <1>1, <1>2, CertFacts
<1>4. /\ \A i \in 1..size : i # at => info'[i] = info[i]
      /\ info'[at].valid /\ info'[at].hash = hash
  BY <1>0, ReplyFacts
<1>5. \A i \in 1..at : Node(i)' = Node(i)
  BY <1>1, <1>2, <1>4 DEF Node
<1>6. \A i \in {at + 1} : Node(i)' = hash'
  BY <1>1 DEF Node
<1>7. ASSUME NEW i \in 1..(at' - 1)
      PROVE  /\ i <= size' /\ info'[i].valid /\ info'[i].hash \in Hashes
             /\ HasIssuer(store[info'[i].hash])
             /\ Node(i + 1)' = store[info'[i].hash].issuer
  <2>1. CASE i = at
    BY <1>1, <1>2, <1>4, <1>6, <2>1
  <2>2. CASE i # at
    <3>1. i \in 1..(at - 1) /\ i + 1 \in 1..at /\ i \in 1..size
      BY <1>1, <1>2, <1>7, <2>2
    <3>2. info'[i] = info[i] /\ Node(i + 1)' = Node(i + 1)
      BY <1>4, <1>5, <2>2, <3>1
    <3> QED
      BY <1>0, <1>1, <3>1, <3>2 DEF WalkInv
  <2> QED
    BY <2>1, <2>2
<1>8. WalkInv'
  <2>1. Node(1)' = peer
    BY <1>0, <1>2, <1>5 DEF WalkInv
  <2> QED
    BY <1>1, <1>7, <2>1 DEF WalkInv, HasIssuer
<1>9. ASSUME NEW p \in RootChains PROVE at' <= Len(p) /\ p[at'] = hash'
  <2>1. at <= Len(p) /\ p[at] = hash
    BY <1>0 DEF FoundInv, reply
  <2>2. Len(p) \in Nat /\ Chain(p) /\ store[p[Len(p)]].kind = "ROOT"
    BY <1>0, <1>2, RootFacts
  <2>3. at # Len(p)
    BY <2>1, <2>2 DEF HasIssuer
  <2>4. at \in 1..(Len(p) - 1)
    BY <1>2, <2>1, <2>2, <2>3
  <2>5. p[at + 1] = store[p[at]].issuer
    BY <2>2, <2>4 DEF Chain
  <2> QED
    BY <1>1, <1>2, <2>1, <2>2, <2>4, <2>5
<1> QED
  BY <1>1, <1>3, <1>8, <1>9

\* When no issuer is left the walk is a chain to a root, or there is none.
LEMMA RootStep ==
    ASSUME ChainInv, reply, ~HasIssuer(store[hash])
    PROVE  \/ store[hash].kind = "ROOT" /\ ret' = 1
           \/ store[hash].kind = "other" /\ ret' = 0 /\ RootChains = {}
<1>0. ArrayInv /\ FoundInv /\ hash \in Hashes /\ at \in Nat /\ store[hash] # NoCert
  BY DEF ChainInv, ArrayInv, reply
<1>1. store[hash].kind \in {"ROOT", "other"}
  BY <1>0, CertFacts DEF HasIssuer
<1>2. ret' = Result(store[hash])
  BY DEF reply, Return
<1>3. ASSUME NEW p \in RootChains PROVE store[hash].kind = "ROOT"
  <2>1. at <= Len(p) /\ p[at] = hash
    BY <1>0 DEF FoundInv, reply
  <2>2. Len(p) \in Nat /\ Chain(p) /\ store[p[Len(p)]].kind = "ROOT"
    BY <1>0, RootFacts DEF ArrayInv
  <2>3. at \in 1..(Len(p) - 1) => HasIssuer(store[p[at]])
    BY <2>2 DEF Chain, HasIssuer
  <2>4. at = Len(p)
    BY <1>0, <2>1, <2>2, <2>3 DEF ArrayInv
  <2> QED
    BY <2>1, <2>2, <2>4
<1> QED
  BY <1>1, <1>2, <1>3 DEF Result

\* The entries that the caller lists are those of the walk.
LEMMA ListedFacts ==
    ASSUME ArrayInv, WalkInv, Entered, info[at].valid
    PROVE  Listed = [i \in 1..at |-> info[i].hash]
<1>1. at \in Nat /\ at >= 1 /\ at <= size /\ size \in Nat
  BY DEF ArrayInv, Entered
<1>2. \A i \in 1..at : info[i].valid
  BY <1>1 DEF WalkInv
<1>3. \A i \in (at + 1)..size : ~info[i].valid
  BY DEF Entered
<1> DEFINE P(k) == (\A i \in 1..k : info[i].valid) /\ (k < size => ~info[k + 1].valid)
<1>4. at \in 0..size /\ P(at)
  BY <1>1, <1>2, <1>3
<1>5. \A k \in 0..size : P(k) => k = at
  <2> SUFFICES ASSUME NEW k \in 0..size, P(k), k # at PROVE FALSE
    OBVIOUS
  <2>1. CASE k < at
    <3>1. k + 1 \in 1..at /\ k < size
      BY <1>1, <2>1
    <3> QED
      BY <1>2, <3>1
  <2>2. CASE k > at
    <3>1. at + 1 \in 1..k /\ at + 1 \in (at + 1)..size
      BY <1>1, <2>2
    <3> QED
      BY <1>3, <3>1
  <2> QED
    BY <1>1, <2>1, <2>2
<1>6. (CHOOSE k \in 0..size : P(k)) = at
  <2> HIDE DEF P
  <2> QED
    BY <1>4, <1>5
<1> QED
  BY <1>6 DEF Listed

\* The entries of the walk are one of the chains to a root.
LEMMA WalkIsChain ==
    ASSUME ArrayInv, WalkInv, Entered, store[hash].kind = "ROOT", NEW p,
           p = [i \in 1..at |-> info[i].hash]
    PROVE  p \in RootChains
<1>1. at \in Nat /\ at >= 1 /\ at <= size /\ size \in Nat /\ hash \in Hashes
  BY DEF ArrayInv, Entered
<1>2. \A i \in 1..at : info[i].hash = Node(i) /\ info[i].hash \in Hashes
  <2> SUFFICES ASSUME NEW i \in 1..at PROVE info[i].hash = Node(i) /\ info[i].hash \in Hashes
    OBVIOUS
  <2>1. CASE i = at
    BY <1>1, <2>1 DEF Node, Entered
  <2>2. CASE i # at
    <3>1. i \in 1..(at - 1)
      BY <1>1, <2>2
    <3> QED
      BY <2>2, <3>1 DEF Node, WalkInv
  <2> QED
    BY <2>1, <2>2
<1>3. p \in [1..at -> Hashes] /\ \A i \in 1..at : p[i] = Node(i)
  BY <1>2
<1>4. Len(p) = at
  BY <1>1, <1>3, FunctionSeq
<1>5. ASSUME NEW i \in 1..(Len(p) - 1)
      PROVE  store[p[i]].kind \in {"AT", "AA"} /\ p[i + 1] = store[p[i]].issuer
  <2>1. i \in 1..(at - 1) /\ i \in 1..at /\ i + 1 \in 1..at
    BY <1>1, <1>4, <1>5
  <2>2. p[i] = info[i].hash /\ p[i + 1] = Node(i + 1)
    BY <1>3, <2>1
  <2> QED
    BY <2>1, <2>2 DEF WalkInv, HasIssuer
<1>6. Chain(p)
  <2>1. p[1] = peer
    BY <1>1, <1>3 DEF WalkInv
  <2> QED
    BY <1>5, <2>1 DEF Chain
<1>7. store[p[Len(p)]].kind = "ROOT"
  BY <1>1, <1>3, <1>4 DEF Node
<1>8. at \in 1..size
  BY <1>1
<1> QED
  BY <1>3, <1>6, <1>7, <1>8 DEF RootChains

LEMMA NextChain == ChainInv /\ [Next]_vars => ChainInv'
<1> SUFFICES ASSUME ChainInv, [Next]_vars PROVE ChainInv'
  OBVIOUS
<1>0. ArrayInv /\ WalkInv /\ FoundInv /\ ReportInv
  BY DEF ChainInv
<1>n. at \in Nat /\ at >= 1 /\ size \in Nat
  BY <1>0 DEF ArrayInv
<1>1. CASE tooSmall
  <2>1. /\ UNCHANGED <<store, size, width, hash, at, info, failed, report>>
        /\ pc = "call" /\ pc' = "returned" /\ ret' = 0 /\ at > size
    BY <1>1, <1>n DEF tooSmall, Return, Fits
  <2>2. ArrayInv'
    BY <1>0, <2>1 DEF ArrayInv
  <2>3. WalkInv'
    BY <1>0, <2>1, WalkSame
  <2>4. RootChains = {}
    <3>1. ASSUME NEW p \in RootChains PROVE FALSE
      <4>1. at <= Len(p) /\ Len(p) \in 1..size
        BY <1>0, <2>1, RootFacts DEF FoundInv
      <4> QED
        BY <1>n, <2>1, <4>1
    <3> QED
      BY <3>1
  <2>5. FoundInv'
    BY <2>1, <2>4, RootSame DEF FoundInv
  <2>6. ReportInv'
    BY <1>0, <2>1 DEF ReportInv
  <2> QED
    BY <2>2, <2>3, <2>5, <2>6 DEF ChainInv
<1>2. CASE request
  <2>1. /\ UNCHANGED <<store, size, width, hash, at, ret, failed, report>>
        /\ pc = "call" /\ pc' = "reply"
    BY <1>2 DEF request
  <2>2. /\ at <= size /\ info' \in [1..size -> Entry]
        /\ \A i \in 1..(at - 1) : info'[i] = info[i]
        /\ info'[at].hash = hash
        /\ \A i \in (at + 1)..size : ~info'[i].valid
    BY <1>0, <1>2, RequestFacts
  <2>3. ArrayInv'
    BY <1>0, <2>1, <2>2 DEF ArrayInv
  <2>4. WalkInv'
    BY <1>0, <2>1, <2>2, WalkSame
  <2>5. Entered'
    BY <2>1, <2>2 DEF Entered
  <2>6. FoundInv'
    BY <1>0, <2>1, <2>5, RootSame DEF FoundInv
  <2>7. ReportInv'
    BY <1>0, <2>1 DEF ReportInv
  <2> QED
    BY <2>3, <2>4, <2>6, <2>7 DEF ChainInv
<1>3. CASE requestFails
  <2>1. /\ UNCHANGED <<store, size, width, hash, at, info, report>>
        /\ pc = "reply" /\ pc' = "returned" /\ ret' = 0 /\ failed' = TRUE
    BY <1>3 DEF requestFails, Return
  <2>2. ArrayInv'
    <3>1. failed' \in BOOLEAN
      BY <2>1
    <3> QED
      BY <1>0, <2>1, <3>1 DEF ArrayInv
  <2>3. WalkInv'
    BY <1>0, <2>1, WalkSame
  <2>4. FoundInv'
    BY <2>1 DEF FoundInv
  <2>5. ReportInv'
    BY <1>0, <2>1 DEF ReportInv
  <2> QED
    BY <2>2, <2>3, <2>4, <2>5 DEF ChainInv
<1>4. CASE reply /\ HasIssuer(store[hash])
  <2>1. /\ at' = at + 1 /\ hash' \in Hashes /\ pc' = "call"
        /\ UNCHANGED <<store, size, ret, failed, report>>
        /\ WalkInv' /\ \A p \in RootChains : at' <= Len(p) /\ p[at'] = hash'
    BY <1>4, IssuerStep
  <2>2. info' \in [1..size -> Entry] /\ UNCHANGED width /\ pc = "reply"
    BY <1>0, <1>4, ReplyFacts DEF FoundInv, reply
  <2>3. ArrayInv'
    BY <1>0, <2>1, <2>2 DEF ArrayInv
  <2>4. FoundInv'
    BY <1>0, <2>1, <2>2, RootSame DEF FoundInv
  <2>5. ReportInv'
    BY <1>0, <2>1, <2>2 DEF ReportInv
  <2> QED
    BY <2>1, <2>3, <2>4, <2>5 DEF ChainInv
<1>5. CASE reply /\ ~HasIssuer(store[hash])
  <2>1. /\ UNCHANGED <<store, size, width, hash, at, failed, report>>
        /\ pc = "reply" /\ pc' = "returned"
    BY <1>5 DEF reply, Return
  <2>2. Entered /\ ~failed
    BY <1>0, <2>1 DEF FoundInv
  <2>3. /\ info' \in [1..size -> Entry]
        /\ \A i \in 1..size : i # at => info'[i] = info[i]
        /\ info'[at].valid /\ info'[at].hash = hash
    BY <1>0, <1>5, <2>2, ReplyFacts
  <2>4. \/ store[hash].kind = "ROOT" /\ ret' = 1
        \/ ret' = 0 /\ RootChains = {}
    BY <1>5, RootStep
  <2>5. ArrayInv'
    BY <1>0, <2>1, <2>3, <2>4 DEF ArrayInv
  <2>6. WalkInv'
    <3>1. \A i \in 1..(at - 1) : i <= size => info'[i] = info[i]
      BY <1>n, <2>3
    <3> QED
      BY <1>0, <2>1, <3>1, WalkSame
  <2>7. Entered' /\ info'[at'].valid
    BY <1>n, <2>1, <2>2, <2>3 DEF Entered
  <2>8. FoundInv'
    BY <2>1, <2>2, <2>4, <2>7, RootSame DEF FoundInv
  <2>9. ReportInv'
    BY <1>0, <2>1 DEF ReportInv
  <2> QED
    BY <2>5, <2>6, <2>8, <2>9 DEF ChainInv
<1>6. CASE listChain
  <2>1. /\ UNCHANGED <<store, size, width, hash, at, info, ret, failed>>
        /\ pc = "returned" /\ pc' = "done"
        /\ report' = IF ret # 0 THEN Listed ELSE report
    BY <1>6 DEF listChain
  <2>2. ArrayInv'
    BY <1>0, <2>1 DEF ArrayInv
  <2>3. WalkInv'
    BY <1>0, <2>1, WalkSame
  <2>4. Entered' <=> Entered
    BY <2>1 DEF Entered
  <2>5. FoundInv'
    BY <1>0, <2>1, <2>4, RootSame DEF FoundInv
  <2>6. ReportInv'
    <3>1. CASE ret = 0
      BY <1>0, <2>1, <3>1 DEF ReportInv
    <3>2. CASE ret # 0
      <4>1. ret = 1 /\ Entered /\ info[at].valid
        BY <1>0, <2>1, <3>2 DEF FoundInv
      <4>2. report' = [i \in 1..at |-> info[i].hash]
        BY <1>0, <2>1, <3>2, <4>1, ListedFacts
      <4> QED
        BY <2>1, <4>1, <4>2 DEF ReportInv
    <3> QED
      BY <3>1, <3>2
  <2> QED
    BY <2>2, <2>3, <2>5, <2>6 DEF ChainInv
<1>7. CASE UNCHANGED vars
  <2>1. UNCHANGED <<store, size, width, pc, hash, at, info, ret, failed, report>>
    BY <1>7 DEF vars
  <2>2. ArrayInv' /\ WalkInv'
    BY <1>0, <2>1, WalkSame DEF ArrayInv
  <2>3. (Entered' <=> Entered) /\ RootChains' = RootChains
    BY <2>1, RootSame DEF Entered
  <2>4. FoundInv' /\ ReportInv'
    BY <1>0, <2>1, <2>3 DEF FoundInv, ReportInv
  <2> QED
    BY <2>2, <2>4 DEF ChainInv
<1> QED
  BY <1>1, <1>2, <1>3, <1>4, <1>5, <1>6, <1>7 DEF Next, Step, Done

\* SSL_get_1609_cert_chain returns 1 exactly when no request failed and the issuers lead
\* to a root within the array, for every certificate store: what ssl_print_1609_status then
\* lists is that chain.
THEOREM ChainIsReported == Spec => []ChainReported
<1>1. ASSUME ChainInv PROVE ChainReported
  <2>1. ArrayInv /\ WalkInv /\ FoundInv /\ ReportInv
    BY <1>1 DEF ChainInv
  <2> SUFFICES ASSUME pc = "done"
               PROVE  /\ (ret = 1) <=> (~failed /\ RootChains # {})
                      /\ report # <<>> => ret = 1
                      /\ ret = 1 => report \in RootChains
    BY DEF ChainReported
  <2>2. CASE ret = 0 /\ (failed \/ RootChains = {})
    BY <2>1, <2>2 DEF ReportInv
  <2>3. CASE ret = 1 /\ ~failed /\ Entered /\ info[at].valid /\ store[hash].kind = "ROOT"
    <3>1. report = [i \in 1..at |-> info[i].hash]
      BY <2>1, <2>3 DEF ReportInv
    <3>2. report \in RootChains
      BY <2>1, <2>3, <3>1, WalkIsChain
    <3> QED
      BY <2>3, <3>2
  <2> QED
    BY <2>1, <2>2, <2>3 DEF FoundInv
<1> QED
  BY InitChain, NextChain, <1>1, PTL DEF Spec

-----------------------------------------------------------------------------
(* The dates.                                                              *)

LEMMA DivMonotonic ==
    ASSUME NEW a \in Nat, NEW b \in Nat, a <= b, NEW u \in Nat \ {0}
    PROVE  a \div u <= b \div u
OBVIOUS

\* The day of the second after t.
LEMMA NextSecond ==
    ASSUME NEW t \in Nat
    PROVE  (t + 1) \div 86400 = (t \div 86400) + (IF t % 86400 = 86399 THEN 1 ELSE 0)
OBVIOUS

\* ssl_time32_to_string computes the right end for such a certificate on every ABI: neither
\* the product, an int but for years, nor the sum, a long, leaves its type.  Its start is
\* the day of the second after it.
LEMMA EarlyDates ==
    ASSUME ArrayInv, NEW c \in Certs, c.kind # "other", Early(c), NEW d \in Dates(c)
    PROVE  OwnDates(c, d)
<1>1. /\ c.type \in 0..6 /\ c.cnt \in 0..MaxCnt /\ c.start \in 1072915232..(MaxInt - 1)
      /\ c.name \in 0..255
  BY CertChainAssumption
<1>2. c.type \in 2..6 /\ Unit(c.type) \in Nat \ {0}
  BY <1>1, UnitFacts DEF Early
<1>3. MaxInt \in Nat /\ MaxCnt \in Nat
  BY DEF MaxInt, MaxCnt
<1>4. /\ c.cnt \in Nat /\ c.start \in Nat /\ MaxInt - c.start \in Nat
      /\ MaxInt - c.start <= MaxInt /\ 1 <= MaxInt - c.start
  BY <1>1, <1>3
<1>5. (MaxInt - c.start) \div Unit(c.type) <= MaxInt \div Unit(c.type)
  BY <1>2, <1>3, <1>4, DivMonotonic
<1>6. /\ (MaxInt - c.start) \div Unit(c.type) \in Nat /\ MaxInt \div Unit(c.type) \in Nat
  BY <1>2, <1>3, <1>4
<1>7. ssl_time32_to_time_t(c.start, c.type, c.cnt) = c.start + c.cnt * Unit(c.type)
  BY <1>2, <1>4, <1>5, <1>6 DEF ssl_time32_to_time_t, Sum, Early
<1>8. ssl_time32_to_time_t(c.start, 0, 0) = c.start + 1
  BY <1>4 DEF ssl_time32_to_time_t, Sum
<1>9. d = [from |-> ssl_time32_to_string(c.start, 0, 0),
           to   |-> ssl_time32_to_string(c.start, c.type, c.cnt)]
  <2>1. ~Misplaced(c)
    BY <1>1 DEF Early, Misplaced, idName
  <2> QED
    BY <1>2, <2>1 DEF Dates
<1>10. \A u \in Nat : c.cnt * u \in Nat
  BY <1>4
<1>11. c.start + c.cnt * Unit(c.type) \in Nat
  BY <1>2, <1>4, <1>10
<1>12. d.to = (c.start + c.cnt * Unit(c.type)) \div 86400
  <2>1. \A t \in Nat : Day(t) = t \div 86400
    BY DEF Day
  <2> QED
    BY <1>7, <1>9, <1>11, <2>1 DEF ssl_time32_to_string
<1>13. d.from = (c.start + 1) \div 86400
  BY <1>4, <1>8, <1>9 DEF ssl_time32_to_string, Day
<1> QED
  BY <1>4, <1>12, <1>13, NextSecond DEF OwnDates

\* The entries of the calls that found a certificate of a chain have its dates.
DatesInv ==
    \A i \in 1..at : (i < at \/ ret = 1) /\ Early(store[info[i].hash])
                     => OwnDates(store[info[i].hash], info[i].dates)

LEMMA InitDates == Init => DatesInv
BY DEF Init, DatesInv

LEMMA NextDates == ChainInv /\ DatesInv /\ [Next]_vars => DatesInv'
<1> SUFFICES ASSUME ChainInv, DatesInv, [Next]_vars,
                    NEW i \in 1..at', i < at' \/ ret' = 1, Early(store'[info'[i].hash])
             PROVE  OwnDates(store'[info'[i].hash], info'[i].dates)
  BY DEF DatesInv
<1>0. ArrayInv /\ WalkInv /\ FoundInv
  BY DEF ChainInv
<1>n. at \in Nat /\ at >= 1 /\ size \in Nat /\ i \in Nat /\ i >= 1 /\ hash \in Hashes
  BY <1>0 DEF ArrayInv
<1>1. CASE UNCHANGED <<store, at, info>> /\ ret' \in {0, ret}
  BY <1>1 DEF DatesInv
<1>2. CASE request
  <2>1. UNCHANGED <<store, at, ret>> /\ ret = 0 /\ i \in 1..(at - 1)
    BY <1>0, <1>2, <1>n DEF request, FoundInv
  <2>2. info'[i] = info[i]
    BY <1>0, <1>2, <2>1, RequestFacts
  <2> QED
    BY <1>n, <2>1, <2>2 DEF DatesInv
<1>3. CASE reply
  <2>1. Entered /\ UNCHANGED store /\ ret = 0
    BY <1>0, <1>3 DEF FoundInv, reply
  <2>2. PICK d \in Dates(store[hash]) :
           /\ \A j \in 1..size : j # at => info'[j] = info[j]
           /\ info'[at].hash = hash /\ info'[at].dates = d
    BY <1>0, <1>3, <2>1, ReplyFacts
  <2>3. at <= size /\ i <= at
    <3>1. (at' = at + 1 /\ ret' = ret) \/ at' = at
      BY <1>3 DEF reply, NextEntry
    <3> QED
      BY <1>n, <2>1, <3>1 DEF Entered
  <2>4. CASE i = at
    <3>1. store[hash].kind # "other" /\ store[hash] # NoCert
      <4>1. CASE HasIssuer(store[hash])
        BY <1>3, <4>1 DEF HasIssuer, reply
      <4>2. CASE ~HasIssuer(store[hash])
        <5>1. ret' = 1
          BY <1>3, <1>n, <2>4, <4>2 DEF reply
        <5>2. store[hash].kind = "ROOT"
          BY <1>3, <4>2, <5>1, RootStep
        <5>3. store[hash] # NoCert
          BY <1>3 DEF reply
        <5> QED
          BY <5>2, <5>3
      <4> QED
        BY <4>1, <4>2
    <3>2. store[hash] \in Certs
      BY <1>0, <1>n, <3>1, CertFacts
    <3> QED
      BY <1>0, <2>1, <2>2, <2>4, <3>1, <3>2, EarlyDates
  <2>5. CASE i # at
    <3>1. i \in 1..at /\ i < at /\ i \in 1..size /\ info'[i] = info[i]
      BY <1>n, <2>2, <2>3, <2>5
    <3> QED
      BY <2>1, <3>1 DEF DatesInv
  <2> QED
    BY <2>4, <2>5
<1>4. tooSmall \/ requestFails \/ listChain \/ UNCHANGED vars =>
         UNCHANGED <<store, at, info>> /\ ret' \in {0, ret}
  BY DEF tooSmall, requestFails, listChain, Return, vars
<1> QED
  BY <1>1, <1>2, <1>3, <1>4 DEF Next, Step, Done

\* Whatever the length of a long, a chain is reported with the right last day, and the
\* day of the second after its start, for every certificate that ends before 2038,
\* counts in seconds or more and has a name that fits.
THEOREM RightDatesUntil2038 == Spec => []DatesUntil2038
<1>1. ChainInv /\ DatesInv => DatesUntil2038
  BY DEF DatesInv, DatesUntil2038
<1> QED
  BY InitChain, NextChain, InitDates, NextDates, <1>1, PTL DEF Spec
================================================================================
