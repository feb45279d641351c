------------------------- MODULE UiFieldsStore_proofs -------------------------
(***************************************************************************)
(* Proofs about the fields shown to the driver, for every number of        *)
(* instances of the service, start commands, messages and events: the      *)
(* car's speed callbacks do not pile up, what is saved is what the handler *)
(* that saved last has, and what is shown is what is saved.                *)
(***************************************************************************)
EXTENDS UiFieldsStore, TLAPS

\* A registration is with a manager and of a callback that are both remembered, so
\* that the next start can undo it.
CallbackInv ==
    speedRegs = {} \/ /\ mCarPropertyManager # 0 /\ vehicleSpeedEventCallback # 0
                      /\ speedRegs = {<<mCarPropertyManager, vehicleSpeedEventCallback>>}

\* The first lines of init leave no registration.
LEMMA Unregistered == CallbackInv => unregisterCallback = {}
BY DEF CallbackInv, unregisterCallback

\* With no registration left there is a fresh object, which is not null.
LEMMA FreshObject == NewObject({}) # 0
BY DEF NewObject

LEMMA InitCallback == Init => CallbackInv
BY DEF Init, CarInit, NoCarClient, CallbackInv

\* However far a start of CarPropertyClient gets, it preserves the invariant.
LEMMA StartCallback ==
    ASSUME CallbackInv,
           \/ initFails
           \/ \E g : \E got, vinOk, speedOk \in BOOLEAN : init(g, got, vinOk, speedOk)
    PROVE  CallbackInv'
<1>1. CASE initFails
  BY <1>1, Unregistered DEF initFails, carVars, CallbackInv
<1>2. ASSUME NEW got \in BOOLEAN, NEW vinOk \in BOOLEAN, NEW speedOk \in BOOLEAN, NEW g,
             init(g, got, vinOk, speedOk)
      PROVE  CallbackInv'
  <2>1. CASE got /\ speedOk
    <3>1. mCarPropertyManager' # 0
      BY <1>2, <2>1, Unregistered, FreshObject DEF init
    <3>2. vehicleSpeedEventCallback' # 0
      BY <1>2, <2>1, Unregistered, FreshObject DEF init
    <3>3. speedRegs' = {<<mCarPropertyManager', vehicleSpeedEventCallback'>>}
      BY <1>2, <2>1, Unregistered DEF init
    <3> QED
      BY <3>1, <3>2, <3>3 DEF CallbackInv
  <2>2. CASE ~(got /\ speedOk)
    BY <1>2, <2>2, Unregistered DEF init, CallbackInv
  <2> QED
    BY <2>1, <2>2
<1> QED
  BY <1>1, <1>2

\* Every step preserves it; only a start and a new process touch the callbacks.
LEMMA NextCallback == CallbackInv /\ [Next]_vars => CallbackInv'
<1> SUFFICES ASSUME CallbackInv, [Next]_vars PROVE CallbackInv'
  OBVIOUS
<1>1. ASSUME UNCHANGED carVars PROVE CallbackInv'
  BY <1>1 DEF carVars, CallbackInv
<1>2. CASE onStartCommand
  BY <1>1, <1>2, StartCallback DEF onStartCommand
<1>3. CASE restart
  BY <1>3 DEF restart, NoCarClient, CallbackInv
<1>4. CASE \E g \in DOMAIN h, ok \in BOOLEAN : handleMessage(g, ok)
  BY <1>1, <1>4 DEF handleMessage
<1>5. CASE onCreate \/ onDestroy
  BY <1>1, <1>5 DEF onCreate, onDestroy
<1>6. CASE onLocationResult \/ onVin \/ onSpeed \/ flush
  BY <1>1, <1>6 DEF onLocationResult, onVin, onSpeed, flush
<1>7. CASE newScreen \/ onSharedPreferenceChanged
  BY <1>1, <1>7 DEF newScreen, onSharedPreferenceChanged
<1>8. CASE UNCHANGED vars
  BY <1>1, <1>8 DEF vars
<1> QED
  BY <1>2, <1>3, <1>4, <1>5, <1>6, <1>7, <1>8 DEF Next

\* At most one speed callback is registered, and it is the one the next start
\* unregisters (CarPropertyClient.init), whichever steps of earlier starts failed.
THEOREM OneCallback == Spec => []OneSpeedCallback
<1>1. CallbackInv => OneSpeedCallback
  BY DEF CallbackInv, OneSpeedCallback
<1> QED
  BY InitCallback, NextCallback, <1>1, PTL DEF Spec

-----------------------------------------------------------------------------
(* What is saved.                                                          *)

Fields == [pos : Nat, cnt : Int, speed : {"none", "ok", "null", "nan"}, vin : {0, 1}]
Messages ==
    [what : {"location"}, val : Nat] \cup [what : {"vin"}, val : {0, 1}]
       \cup [what : {"speed"}, val : {"ok", "null", "nan"}] \cup {TextMsg}
Handlers == [q : Seq(Messages), f : Fields, cnt : Nat]

\* Of a handler r when loc locations have arrived: the locations that wait for it are
\* in the order of their arrival and not older than its own, and once it was given a
\* location, the count in its fields is its own.
HandlerOK(r, loc) ==
    /\ r \in Handlers
    /\ r.f.pos <= loc
    /\ \A i \in 1..Len(r.q) : r.q[i].what = "location" =>
          /\ r.f.pos <= r.q[i].val /\ r.q[i].val <= loc
          /\ \A j \in i..Len(r.q) : r.q[j].what = "location" => r.q[i].val <= r.q[j].val
    /\ r.cnt = 0 \/ r.f.cnt = r.cnt

\* Of the preference p against the fields of the handler r that saved it: nothing of
\* it is newer, and it differs only by a position that could not be saved, or after a
\* speed that cannot be saved.
SaverOK(p, r) ==
    /\ p.pos <= r.f.pos /\ p.vin <= r.f.vin
    /\ r.f.speed # "nan" => p.vin = r.f.vin /\ p.speed = r.f.speed
    /\ r.cnt = 0 => p.cnt = r.f.cnt

StoreInv ==
    /\ n \in [loc : Nat, car : Nat] /\ inst \in Nat /\ mEventHandler \in Nat
    /\ h \in Seq(Handlers)
    /\ \A g \in 1..Len(h) : HandlerOK(h[g], n.loc)
    /\ disk \in Fields /\ disk.pos <= n.loc
    /\ pref \in [f : Fields, by : 0..Len(h)] /\ pref.f.pos <= n.loc
    /\ pref.by = 0 => pref.f = disk
    /\ pref.by # 0 => SaverOK(pref.f, h[pref.by])

LEMMA InitStore == Init => StoreInv
<1> SUFFICES ASSUME Init PROVE StoreInv
  OBVIOUS
<1>1. NewFields \in Fields /\ NewFields.pos = 0
  BY DEF NewFields, Fields
<1>2. Earlier \in Fields /\ Earlier.pos = 0
  BY DEF Earlier, Fields
<1> QED
  BY <1>1, <1>2 DEF Init, StoreInv, CarInit, NoCarClient

\* A sequence with one element replaced, or with none when there is no such element.
LEMMA Replaced ==
    ASSUME NEW S, NEW s \in Seq(S), NEW g \in Nat, NEW r, g \in 1..Len(s) => r \in S
    PROVE  /\ [s EXCEPT ![g] = r] \in Seq(S) /\ Len([s EXCEPT ![g] = r]) = Len(s)
           /\ \A k \in 1..Len(s) : [s EXCEPT ![g] = r][k] = IF k = g THEN r ELSE s[k]
<1>1. CASE g \in 1..Len(s)
  BY <1>1
<1>2. CASE g \notin 1..Len(s)
  <2>1. [s EXCEPT ![g] = r] = s
    BY <1>2
  <2> QED
    BY <1>2, <2>1
<1> QED
  BY <1>1, <1>2

\* A message joins the queue of a handler: a location, if it is one, that has only
\* just arrived.
LEMMA QueuedOK ==
    ASSUME NEW loc \in Nat, NEW loc2 \in Nat, loc <= loc2, NEW r, HandlerOK(r, loc),
           NEW m \in Messages, m.what = "location" => m.val = loc2
    PROVE  HandlerOK([r EXCEPT !.q = Append(@, m)], loc2)
<1> DEFINE s == [r EXCEPT !.q = Append(@, m)]
<1>1. s \in Handlers /\ s.f = r.f /\ s.cnt = r.cnt /\ s.q = Append(r.q, m)
  <2>0. r \in Handlers
    BY DEF HandlerOK
  <2>1. r \in Handlers /\ r.q \in Seq(Messages)
    BY <2>0 DEF Handlers
  <2>2. Append(r.q, m) \in Seq(Messages)
    BY <2>1
  <2>3. PICK q : q = Append(r.q, m)
    OBVIOUS
  <2>4. q \in Seq(Messages) /\ s = [r EXCEPT !.q = q]
    BY <2>2, <2>3
  <2> HIDE DEF s
  <2> QED
    BY <2>1, <2>3, <2>4 DEF Handlers
<1>2. /\ r.q \in Seq(Messages) /\ Len(s.q) = Len(r.q) + 1 /\ s.q[Len(s.q)] = m
      /\ \A i \in 1..Len(r.q) : s.q[i] = r.q[i]
  BY <1>1 DEF HandlerOK, Handlers
<1>3. \A i \in 1..Len(r.q) : r.q[i] \in Messages
  BY <1>2
<1>4. \A x \in Messages : x.what = "location" => x.val \in Nat
  BY DEF Messages, TextMsg
<1>5. r.f.pos \in Nat /\ r.f.pos <= loc2
  BY DEF HandlerOK, Handlers, Fields
<1>6. ASSUME NEW i \in 1..Len(s.q), s.q[i].what = "location"
      PROVE  /\ s.f.pos <= s.q[i].val /\ s.q[i].val <= loc2
             /\ \A j \in i..Len(s.q) : s.q[j].what = "location" => s.q[i].val <= s.q[j].val
  <2>1. CASE i = Len(s.q)
    BY <1>1, <1>2, <1>4, <1>5, <1>6, <2>1
  <2>2. CASE i # Len(s.q)
    <3>1. i \in 1..Len(r.q) /\ s.q[i] = r.q[i] /\ r.q[i].val \in Nat
      BY <1>2, <1>3, <1>4, <1>6, <2>2
    <3>2. r.f.pos <= r.q[i].val /\ r.q[i].val <= loc
      BY <3>1, <1>6 DEF HandlerOK
    <3>3. ASSUME NEW j \in i..Len(s.q), s.q[j].what = "location"
          PROVE  s.q[i].val <= s.q[j].val
      <4>1. CASE j = Len(s.q)
        BY <4>1, <3>1, <3>2, <3>3, <1>2
      <4>2. CASE j # Len(s.q)
        <5>1. j \in i..Len(r.q) /\ s.q[j] = r.q[j]
          BY <4>2, <3>1, <3>3, <1>2
        <5> QED
          BY <5>1, <3>1, <3>3, <1>6 DEF HandlerOK
      <4> QED
        BY <4>1, <4>2
    <3> QED
      BY <3>1, <3>2, <3>3, <1>1
  <2> QED
    BY <2>1, <2>2
<1> QED
  BY <1>1, <1>5, <1>6 DEF HandlerOK

\* More locations may have arrived elsewhere.
LEMMA LaterOK ==
    ASSUME NEW loc \in Nat, NEW loc2 \in Nat, loc <= loc2, NEW r, HandlerOK(r, loc)
    PROVE  HandlerOK(r, loc2)
<1>1. \A x \in Messages : x.what = "location" => x.val \in Nat
  BY DEF Messages, TextMsg
<1>2. r.f.pos \in Nat /\ \A i \in 1..Len(r.q) : r.q[i] \in Messages
  BY DEF HandlerOK, Handlers, Fields
<1> QED
  BY <1>1, <1>2 DEF HandlerOK

\* Messages that join the queues leave the fields of the handlers alone.
LEMMA GivenStore ==
    ASSUME StoreInv, inst' \in Nat, mEventHandler' \in Nat,
           h' \in Seq(Handlers), Len(h') = Len(h),
           n' \in [loc : Nat, car : Nat], n.loc <= n'.loc,
           \A k \in 1..Len(h) : HandlerOK(h'[k], n'.loc) /\ h'[k].f = h[k].f /\ h'[k].cnt = h[k].cnt,
           UNCHANGED <<pref, disk>>
    PROVE  StoreInv'
<1>1. pref.by # 0 => SaverOK(pref.f, h'[pref.by])
  BY DEF StoreInv, SaverOK
<1> QED
  BY <1>1 DEF StoreInv, Fields

\* A message posted to any handler.
LEMMA PostStore ==
    ASSUME StoreInv, inst' \in Nat, mEventHandler' \in Nat, NEW g \in Nat,
           NEW m \in Messages, m.what = "location" => m.val = n'.loc,
           h' = Post(h, g, m), n' \in [loc : Nat, car : Nat], n.loc <= n'.loc,
           UNCHANGED <<pref, disk>>
    PROVE  StoreInv'
<1> DEFINE r == [h[g] EXCEPT !.q = Append(@, m)]
<1>1. h \in Seq(Handlers) /\ n.loc \in Nat /\ n'.loc \in Nat
  BY DEF StoreInv
<1>2. ASSUME g \in 1..Len(h)
      PROVE  HandlerOK(r, n'.loc) /\ r \in Handlers /\ r.f = h[g].f /\ r.cnt = h[g].cnt
  <2>1. HandlerOK(h[g], n.loc) /\ h[g] \in Handlers
    BY <1>2 DEF StoreInv
  <2>2. HandlerOK(r, n'.loc)
    BY <1>1, <2>1, QueuedOK
  <2> QED
    BY <2>1, <2>2 DEF Handlers, HandlerOK
<1>3. h' = [h EXCEPT ![g] = r]
  BY DEF Post
<1>4. /\ h' \in Seq(Handlers) /\ Len(h') = Len(h)
      /\ \A k \in 1..Len(h) : h'[k] = IF k = g THEN r ELSE h[k]
  BY <1>1, <1>2, <1>3, Replaced
<1>5. ASSUME NEW k \in 1..Len(h)
      PROVE  HandlerOK(h'[k], n'.loc) /\ h'[k].f = h[k].f /\ h'[k].cnt = h[k].cnt
  <2>1. HandlerOK(h[k], n'.loc)
    BY <1>1, LaterOK DEF StoreInv
  <2> QED
    BY <1>2, <1>4, <2>1
<1> QED
  BY <1>4, <1>5, GivenStore

\* The messages of a start of CarPropertyClient: what was read of the VIN, and an error
\* text when the speed callback could not be registered.
LEMMA StartedOK ==
    ASSUME NEW loc \in Nat, NEW r, HandlerOK(r, loc),
           NEW read \in {VinMsg(0), VinMsg(1), TextMsg}, NEW rest \in {<<>>, <<TextMsg>>}
    PROVE  HandlerOK([r EXCEPT !.q = @ \o <<read>> \o rest], loc)
<1>1. read \in Messages /\ TextMsg \in Messages /\ read.what # "location" /\ TextMsg.what # "location"
  BY DEF Messages, VinMsg, TextMsg
<1>2. r.q \in Seq(Messages) /\ r \in Handlers
  BY DEF HandlerOK, Handlers
<1>3. HandlerOK([r EXCEPT !.q = Append(@, read)], loc)
  BY <1>1, QueuedOK
<1>4. CASE rest = <<>>
  <2>1. r.q \o <<read>> \o rest = Append(r.q, read)
    BY <1>1, <1>2, <1>4
  <2> QED
    BY <2>1, <1>3
<1>5. CASE rest = <<TextMsg>>
  <2>1. r.q \o <<read>> \o rest = Append(Append(r.q, read), TextMsg)
    BY <1>1, <1>2, <1>5
  <2>2. PICK one : one = [r EXCEPT !.q = Append(@, read)]
    OBVIOUS
  <2>3. HandlerOK(one, loc) /\ one.q = Append(r.q, read)
    BY <1>2, <1>3, <2>2 DEF Handlers
  <2>4. HandlerOK([one EXCEPT !.q = Append(@, TextMsg)], loc)
    <3>1. loc <= loc /\ TextMsg \in Messages /\ TextMsg.what # "location"
      BY <1>1
    <3> QED
      BY <2>3, <3>1, QueuedOK, Zenon
  <2>5. [one EXCEPT !.q = Append(@, TextMsg)] = [one EXCEPT !.q = r.q \o <<read>> \o rest]
    BY <2>1, <2>3
  <2>6. [one EXCEPT !.q = r.q \o <<read>> \o rest] = [r EXCEPT !.q = r.q \o <<read>> \o rest]
    BY <1>2, <2>2 DEF Handlers
  <2> QED
    BY <2>4, <2>5, <2>6
<1> QED
  BY <1>4, <1>5

LEMMA StartedStore ==
    ASSUME StoreInv, inst' \in Nat, mEventHandler' \in Nat, NEW g \in Nat,
           NEW read \in {VinMsg(0), VinMsg(1), TextMsg}, NEW rest \in {<<>>, <<TextMsg>>},
           h' = [h EXCEPT ![g].q = @ \o <<read>> \o rest],
           UNCHANGED <<n, pref, disk>>
    PROVE  StoreInv'
<1> DEFINE r == [h[g] EXCEPT !.q = @ \o <<read>> \o rest]
<1>1. h \in Seq(Handlers) /\ n.loc \in Nat /\ n \in [loc : Nat, car : Nat]
  BY DEF StoreInv
<1>2. ASSUME g \in 1..Len(h)
      PROVE  HandlerOK(r, n.loc) /\ r \in Handlers /\ r.f = h[g].f /\ r.cnt = h[g].cnt
  <2>1. HandlerOK(h[g], n.loc) /\ h[g] \in Handlers
    BY <1>2 DEF StoreInv
  <2>2. HandlerOK(r, n.loc)
    BY <1>1, <2>1, StartedOK
  <2>3. r.f = h[g].f /\ r.cnt = h[g].cnt
    BY <2>1 DEF Handlers
  <2>4. r \in Handlers
    BY <2>2 DEF HandlerOK
  <2> QED
    BY <2>2, <2>3, <2>4
<1>3. h' = [h EXCEPT ![g] = r]
  OBVIOUS
<1> HIDE DEF r
<1>4. /\ h' \in Seq(Handlers) /\ Len(h') = Len(h)
      /\ \A k \in 1..Len(h) : h'[k] = IF k = g THEN r ELSE h[k]
  <2>1. g \in 1..Len(h) => r \in Handlers
    BY <1>2
  <2> QED
    BY <1>1, <1>3, <2>1, Replaced
<1>5. \A k \in 1..Len(h) : HandlerOK(h'[k], n'.loc) /\ h'[k].f = h[k].f /\ h'[k].cnt = h[k].cnt
  BY <1>2, <1>4 DEF StoreInv
<1>6. n' \in [loc : Nat, car : Nat] /\ n.loc <= n'.loc
  BY <1>1
<1> QED
  BY <1>4, <1>5, <1>6, GivenStore

\* What a message does to the fields: nothing in them gets older, a location changes
\* the position and the count only, and the count by a location only.
LEMMA AppliedFields ==
    ASSUME NEW f \in Fields, NEW m \in Messages, NEW cnt \in Nat,
           m.what = "location" => f.pos <= m.val,
           NEW a, a = Applied(f, m, cnt)
    PROVE  /\ a \in Fields /\ f.pos <= a.pos /\ f.vin <= a.vin
           /\ m.what = "location" => /\ a.pos = m.val /\ a.cnt = cnt + 1
                                     /\ a.vin = f.vin /\ a.speed = f.speed
           /\ m.what # "location" => a.pos = f.pos /\ a.cnt = f.cnt
           /\ m = VinMsg(0) => a = f
<1>1. CASE m.what = "location"
  <2>1. m.val \in Nat
    BY <1>1 DEF Messages, TextMsg
  <2>2. a = [f EXCEPT !.pos = m.val, !.cnt = cnt + 1]
    BY <1>1 DEF Applied
  <2>3. a \in Fields /\ a.pos = m.val /\ a.cnt = cnt + 1 /\ a.vin = f.vin /\ a.speed = f.speed
    <3>1. PICK p \in Nat, c \in Int : p = m.val /\ c = cnt + 1
      BY <2>1
    <3>2. a = [f EXCEPT !.pos = p, !.cnt = c]
      BY <2>2, <3>1
    <3>3. a \in Fields /\ a.pos = p /\ a.cnt = c /\ a.vin = f.vin /\ a.speed = f.speed
      <4>1. a \in Fields
        BY <3>2 DEF Fields
      <4>2. a.pos = p /\ a.cnt = c
        BY <3>2 DEF Fields
      <4>3. a.vin = f.vin /\ a.speed = f.speed
        BY <3>2 DEF Fields
      <4> QED
        BY <4>1, <4>2, <4>3
    <3> QED
      BY <3>1, <3>3
  <2>4. f.vin <= f.vin
    BY DEF Fields
  <2>5. m # VinMsg(0)
    BY <1>1 DEF VinMsg
  <2> QED
    BY <1>1, <2>3, <2>4, <2>5
<1>2. CASE m.what = "speed"
  <2>1. m.val \in {"ok", "null", "nan"}
    BY <1>2 DEF Messages, TextMsg
  <2> QED
    BY <1>2, <2>1 DEF Applied, Fields, VinMsg
<1>3. CASE m.what = "vin"
  <2>1. m.val \in {0, 1}
    BY <1>3 DEF Messages, TextMsg
  <2> QED
    BY <1>3, <2>1 DEF Applied, Fields, VinMsg
<1>4. CASE m.what = "text"
  BY <1>4 DEF Applied, Fields, VinMsg
<1> QED
  BY <1>1, <1>2, <1>3, <1>4 DEF Messages, TextMsg

\* A handler r that has dealt with its first message, with fields f.
LEMMA HandledOK ==
    ASSUME NEW loc \in Nat, NEW r, HandlerOK(r, loc), r.q # <<>>, NEW f,
           \/ f = Applied(r.f, Head(r.q), r.cnt)
           \/ f = r.f /\ Head(r.q).what # "location",
           NEW cnt, cnt = IF Head(r.q).what = "location" THEN r.cnt + 1 ELSE r.cnt
    PROVE  HandlerOK([q |-> Tail(r.q), f |-> f, cnt |-> cnt], loc)
<1> DEFINE m == Head(r.q)
           s == [q |-> Tail(r.q), f |-> f, cnt |-> cnt]
<1>1. r.q \in Seq(Messages) /\ r.f \in Fields /\ r.cnt \in Nat /\ r.f.pos \in Nat
  BY DEF HandlerOK, Handlers, Fields
<1>2. m = r.q[1] /\ m \in Messages /\ Len(r.q) >= 1 /\ 1 \in 1..Len(r.q)
  BY <1>1
<1>3. m.what = "location" => r.f.pos <= m.val /\ m.val <= loc
  BY <1>2 DEF HandlerOK
<1>4. /\ Tail(r.q) \in Seq(Messages) /\ Len(Tail(r.q)) = Len(r.q) - 1
      /\ \A i \in 1..(Len(r.q) - 1) : Tail(r.q)[i] = r.q[i + 1]
  BY <1>1, <1>2
<1>5. /\ f \in Fields
      /\ m.what = "location" => f.pos = m.val /\ f.cnt = cnt
      /\ m.what # "location" => f.pos = r.f.pos /\ f.cnt = r.f.cnt
  <2>1. CASE f = Applied(r.f, m, r.cnt)
    <3>1. m.what = "location" => r.f.pos <= m.val
      BY <1>3
    <3>2. /\ f \in Fields
          /\ m.what = "location" => f.pos = m.val /\ f.cnt = r.cnt + 1
          /\ m.what # "location" => f.pos = r.f.pos /\ f.cnt = r.f.cnt
      <4> HIDE DEF m, s
      <4>1. r.f \in Fields /\ m \in Messages /\ r.cnt \in Nat
        BY <1>1, <1>2
      <4>2. f \in Fields
        BY <4>1, <2>1, <3>1, AppliedFields
      <4>3. m.what = "location" => f.pos = m.val
        BY <4>1, <2>1, <3>1, AppliedFields
      <4>4. m.what = "location" => f.cnt = r.cnt + 1
        BY <4>1, <2>1, <3>1, AppliedFields
      <4>5. m.what # "location" => f.pos = r.f.pos /\ f.cnt = r.f.cnt
        BY <4>1, <2>1, <3>1, AppliedFields
      <4> QED
        BY <4>2, <4>3, <4>4, <4>5
    <3> QED
      BY <3>2
  <2>2. CASE f = r.f /\ m.what # "location"
    BY <1>1, <2>2
  <2> QED
    BY <2>1, <2>2
<1>6. f.pos <= loc /\ s \in Handlers
  BY <1>1, <1>3, <1>4, <1>5 DEF HandlerOK, Handlers
<1>7. ASSUME NEW i \in 1..Len(s.q), s.q[i].what = "location"
      PROVE  /\ f.pos <= s.q[i].val /\ s.q[i].val <= loc
             /\ \A j \in i..Len(s.q) : s.q[j].what = "location" => s.q[i].val <= s.q[j].val
  <2>1. i + 1 \in 1..Len(r.q) /\ s.q[i] = r.q[i + 1] /\ r.q[i + 1].what = "location"
    BY <1>4, <1>7
  <2>2. r.f.pos <= r.q[i + 1].val /\ r.q[i + 1].val <= loc
    BY <2>1 DEF HandlerOK
  <2>3. m.what = "location" => m.val <= r.q[i + 1].val
    BY <2>1, <1>2 DEF HandlerOK
  <2>4. ASSUME NEW j \in i..Len(s.q), s.q[j].what = "location"
        PROVE  s.q[i].val <= s.q[j].val
    <3>1. j + 1 \in (i + 1)..Len(r.q) /\ s.q[j] = r.q[j + 1]
      BY <1>4, <2>4
    <3> QED
      BY <3>1, <2>1, <2>4 DEF HandlerOK
  <2> QED
    BY <2>1, <2>2, <2>3, <2>4, <1>5
<1>8. cnt = 0 \/ f.cnt = cnt
  BY <1>1, <1>5 DEF HandlerOK
<1> QED
  BY <1>6, <1>7, <1>8 DEF HandlerOK

\* What a handler that deals with a message can rely on, and what it leaves behind.
HandledBy(g, ok, f, cnt) ==
    /\ g \in 1..Len(h) /\ h[g].q # <<>>
    /\ f = IF ok \/ Head(h[g].q).what = "location"
           THEN Applied(h[g].f, Head(h[g].q), h[g].cnt) ELSE h[g].f
    /\ cnt = IF Head(h[g].q).what = "location" THEN h[g].cnt + 1 ELSE h[g].cnt
    /\ h' = [h EXCEPT ![g] = [q |-> Tail(h[g].q), f |-> f, cnt |-> cnt]]
    /\ pref' = IF ok /\ Saved(f, Head(h[g].q)) THEN [f |-> f, by |-> g] ELSE pref

Handled(g, ok, f, cnt) ==
    /\ h' \in Seq(Handlers) /\ Len(h') = Len(h)
    /\ \A k \in 1..Len(h) : h'[k] = IF k = g THEN [q |-> Tail(h[g].q), f |-> f, cnt |-> cnt]
                                    ELSE h[k]
    /\ HandlerOK(h'[g], n.loc) /\ h'[g].f = f /\ h'[g].cnt = cnt
    /\ f \in Fields /\ h[g].f.pos <= f.pos /\ h[g].f.vin <= f.vin /\ cnt \in Nat
    /\ Head(h[g].q).what = "location" =>
          f.vin = h[g].f.vin /\ f.speed = h[g].f.speed /\ cnt # 0 /\ f.cnt = cnt
    /\ Head(h[g].q).what # "location" => cnt = h[g].cnt /\ f.cnt = h[g].f.cnt
    /\ Head(h[g].q) = VinMsg(0) => f = h[g].f
    /\ ~ok /\ Head(h[g].q).what # "location" => f = h[g].f

LEMMA HandledFacts ==
    ASSUME StoreInv, NEW g, NEW ok \in BOOLEAN, NEW f, NEW cnt, HandledBy(g, ok, f, cnt)
    PROVE  Handled(g, ok, f, cnt)
<1> DEFINE m == Head(h[g].q)
           r == [q |-> Tail(h[g].q), f |-> f, cnt |-> cnt]
<1>1. g \in 1..Len(h) /\ h \in Seq(Handlers) /\ n.loc \in Nat /\ HandlerOK(h[g], n.loc)
  BY DEF StoreInv, HandledBy
<1>2. h[g].q \in Seq(Messages) /\ h[g].f \in Fields /\ h[g].cnt \in Nat /\ h[g].q # <<>>
  BY <1>1 DEF HandledBy, Handlers, HandlerOK
<1>3. m \in Messages /\ m = h[g].q[1] /\ 1 \in 1..Len(h[g].q)
  BY <1>2
<1>4. m.what = "location" => h[g].f.pos <= m.val
  BY <1>1, <1>3 DEF HandlerOK
<1>5. HandlerOK(r, n.loc)
  BY <1>1, <1>2, HandledOK DEF HandledBy
<1>6. r \in Handlers /\ f \in Fields /\ cnt \in Nat
  BY <1>5 DEF HandlerOK, Handlers
<1>7. /\ h' \in Seq(Handlers) /\ Len(h') = Len(h)
      /\ \A k \in 1..Len(h) : h'[k] = IF k = g THEN r ELSE h[k]
  BY <1>1, <1>6, Replaced DEF HandledBy
<1>8. /\ h[g].f.pos <= f.pos /\ h[g].f.vin <= f.vin
      /\ m.what = "location" => f.vin = h[g].f.vin /\ f.speed = h[g].f.speed /\ f.cnt = cnt
      /\ m.what # "location" => f.cnt = h[g].f.cnt
      /\ m = VinMsg(0) => f = h[g].f
  <2>1. CASE f = Applied(h[g].f, m, h[g].cnt)
    <3>1. /\ h[g].f.pos <= f.pos /\ h[g].f.vin <= f.vin
          /\ m.what = "location" => f.vin = h[g].f.vin /\ f.speed = h[g].f.speed /\ f.cnt = h[g].cnt + 1
          /\ m.what # "location" => f.cnt = h[g].f.cnt
          /\ m = VinMsg(0) => f = h[g].f
      <4> HIDE DEF m, r
      <4>1. h[g].f \in Fields /\ m \in Messages /\ h[g].cnt \in Nat
        BY <1>2, <1>3
      <4>2. h[g].f.pos <= f.pos /\ h[g].f.vin <= f.vin
        BY <4>1, <2>1, <1>4, AppliedFields
      <4>3. m.what = "location" => f.vin = h[g].f.vin /\ f.speed = h[g].f.speed
        BY <4>1, <2>1, <1>4, AppliedFields
      <4>4. m.what = "location" => f.cnt = h[g].cnt + 1
        BY <4>1, <2>1, <1>4, AppliedFields
      <4>5. m.what # "location" => f.cnt = h[g].f.cnt
        BY <4>1, <2>1, <1>4, AppliedFields
      <4>6. m = VinMsg(0) => f = h[g].f
        BY <4>1, <2>1, <1>4, AppliedFields
      <4> QED
        BY <4>2, <4>3, <4>4, <4>5, <4>6
    <3> QED
      BY <3>1 DEF HandledBy
  <2>2. CASE f = h[g].f /\ m.what # "location"
    BY <1>2, <2>2 DEF Fields
  <2> QED
    BY <2>1, <2>2 DEF HandledBy
<1>9. /\ m.what = "location" => cnt # 0
      /\ m.what # "location" => cnt = h[g].cnt
      /\ ~ok /\ m.what # "location" => f = h[g].f
  BY <1>2 DEF HandledBy
<1>10. h'[g] = r /\ r.f = f /\ r.cnt = cnt
  BY <1>1, <1>7
<1> HIDE DEF r
<1> QED
  BY <1>1, <1>5, <1>6, <1>7, <1>8, <1>9, <1>10 DEF r, Handled

LEMMA HandleFacts ==
    ASSUME StoreInv, NEW g \in DOMAIN h, NEW ok \in BOOLEAN, handleMessage(g, ok)
    PROVE  \E f, cnt : HandledBy(g, ok, f, cnt) /\ Handled(g, ok, f, cnt)
<1> DEFINE m == Head(h[g].q)
           f == IF ok \/ m.what = "location" THEN Applied(h[g].f, m, h[g].cnt) ELSE h[g].f
           cnt == IF m.what = "location" THEN h[g].cnt + 1 ELSE h[g].cnt
<1>1. g \in 1..Len(h)
  BY DEF StoreInv
<1>2. HandledBy(g, ok, f, cnt)
  BY <1>1 DEF handleMessage, HandledBy
<1>3. Handled(g, ok, f, cnt)
  BY <1>2, HandledFacts
<1> QED
  BY <1>2, <1>3

LEMMA HandleStore ==
    ASSUME StoreInv, NEW g \in DOMAIN h, NEW ok \in BOOLEAN, handleMessage(g, ok)
    PROVE  StoreInv'
<1>1. PICK f, cnt : HandledBy(g, ok, f, cnt) /\ Handled(g, ok, f, cnt)
  BY HandleFacts
<1>0. Handled(g, ok, f, cnt)
  BY <1>1
<1>2. UNCHANGED <<inst, mEventHandler, disk, n>>
  BY DEF handleMessage, carVars
<1>3. g \in 1..Len(h) /\ pref.by \in 0..Len(h) /\ n.loc \in Nat
  BY DEF StoreInv
<1>4. \A k \in 1..Len(h') : HandlerOK(h'[k], n'.loc)
  BY <1>0, <1>2, <1>3 DEF Handled, StoreInv
<1>5. h' \in Seq(Handlers) /\ Len(h') = Len(h)
  BY <1>0 DEF Handled
<1>6. CASE pref' = [f |-> f, by |-> g]
  <2>1. f \in Fields /\ f.pos <= n.loc /\ h'[g].f = f
    BY <1>0 DEF Handled, HandlerOK
  <2>2. pref' \in [f : Fields, by : 0..Len(h')] /\ pref'.by = g /\ pref'.f = f
    BY <1>3, <1>5, <1>6, <2>1
  <2>3. SaverOK(f, h'[g])
    BY <2>1 DEF SaverOK, Fields
  <2> QED
    BY <1>2, <1>3, <1>4, <1>5, <2>1, <2>2, <2>3 DEF StoreInv
<1>7. CASE pref' = pref /\ ~(ok /\ Saved(f, Head(h[g].q)))
  <2>1. ASSUME pref.by # 0 PROVE SaverOK(pref.f, h'[pref.by])
    <3>1. CASE pref.by # g
      BY <1>0, <1>3, <2>1, <3>1 DEF Handled, StoreInv
    <3>2. CASE pref.by = g
      <4>1. SaverOK(pref.f, h[g])
        BY <2>1, <3>2 DEF StoreInv
      <4>2. /\ h'[g].f = f /\ h'[g].cnt = cnt /\ f \in Fields /\ h[g].f \in Fields
            /\ pref.f \in Fields
            /\ h[g].f.pos <= f.pos /\ h[g].f.vin <= f.vin
        <5>1. h[g] \in Handlers /\ pref.f \in Fields
          BY <1>3 DEF StoreInv
        <5>2. h[g].f \in Fields
          BY <5>1 DEF Handlers
        <5> QED
          BY <1>0, <5>1, <5>2 DEF Handled
      <4>3. pref.f.pos <= f.pos /\ pref.f.vin <= f.vin
        BY <4>1, <4>2 DEF SaverOK, Fields
      <4>4. f.speed # "nan" => f.vin = h[g].f.vin /\ f.speed = h[g].f.speed
        BY <1>0, <1>7 DEF Handled, Saved
      <4>5. cnt = 0 => h[g].cnt = 0 /\ f.cnt = h[g].f.cnt
        BY <1>0 DEF Handled
      <4>6. /\ f.speed # "nan" => pref.f.vin = f.vin /\ pref.f.speed = f.speed
            /\ cnt = 0 => pref.f.cnt = f.cnt
        BY <4>1, <4>4, <4>5 DEF SaverOK
      <4> QED
        BY <3>2, <4>2, <4>3, <4>6 DEF SaverOK
    <3> QED
      BY <3>1, <3>2
  <2> QED
    BY <1>2, <1>4, <1>5, <1>7, <2>1 DEF StoreInv
<1> QED
  BY <1>1, <1>6, <1>7 DEF HandledBy

\* A new handler has the fields that are saved, and no messages yet.
LEMMA CreateStore == StoreInv /\ onCreate => StoreInv'
<1> SUFFICES ASSUME StoreInv, onCreate PROVE StoreInv'
  OBVIOUS
<1>1. NewHandler \in Handlers /\ HandlerOK(NewHandler, n.loc)
  BY DEF StoreInv, NewHandler, Handlers, HandlerOK
<1>2. /\ h' = Append(h, NewHandler) /\ h \in Seq(Handlers) /\ inst' = Len(h')
      /\ UNCHANGED <<pref, disk, n, mEventHandler>>
  BY DEF onCreate, carVars, StoreInv
<1>3. /\ h' \in Seq(Handlers) /\ Len(h') = Len(h) + 1 /\ Len(h) \in Nat
      /\ h'[Len(h')] = NewHandler /\ \A k \in 1..Len(h) : h'[k] = h[k]
  BY <1>1, <1>2
<1>4. \A k \in 1..Len(h') : HandlerOK(h'[k], n'.loc)
  BY <1>1, <1>2, <1>3 DEF StoreInv
<1>5. pref'.by # 0 => SaverOK(pref'.f, h'[pref'.by])
  BY <1>2, <1>3 DEF StoreInv
<1>6. pref' \in [f : Fields, by : 0..Len(h')] /\ inst' \in Nat
  BY <1>2, <1>3 DEF StoreInv
<1> QED
  BY <1>2, <1>3, <1>4, <1>5, <1>6 DEF StoreInv

LEMMA OtherStore ==
    ASSUME StoreInv, UNCHANGED <<h, pref, disk, n>>, inst' \in Nat, mEventHandler' \in Nat
    PROVE  StoreInv'
BY DEF StoreInv

\* Every step preserves the invariant.
LEMMA NextStore == StoreInv /\ [Next]_vars => StoreInv'
<1> SUFFICES ASSUME StoreInv, [Next]_vars PROVE StoreInv'
  OBVIOUS
<1>0. inst \in Nat /\ mEventHandler \in Nat /\ n \in [loc : Nat, car : Nat] /\ n.loc \in Nat
  BY DEF StoreInv
<1>m. /\ TextMsg \in Messages /\ VinMsg(0) \in Messages /\ VinMsg(1) \in Messages
      /\ TextMsg.what # "location" /\ VinMsg(0).what # "location" /\ VinMsg(1).what # "location"
      /\ \A v \in Speeds : SpeedMsg(v) \in Messages /\ SpeedMsg(v).what # "location"
      /\ \A k \in Nat : LocationMsg(k) \in Messages /\ LocationMsg(k).val = k
  BY UiFieldsStoreAssumption DEF Messages, TextMsg, VinMsg, SpeedMsg, LocationMsg
<1>1. CASE \E g \in DOMAIN h, ok \in BOOLEAN : handleMessage(g, ok)
  BY <1>1, HandleStore
<1>2. CASE onCreate
  BY <1>2, CreateStore
<1>3. CASE onStartCommand
  <2>0. UNCHANGED <<inst, pref, disk, n>>
    BY <1>3 DEF onStartCommand
  <2>1. ASSUME UNCHANGED <<h, carVars>> PROVE StoreInv'
    BY <1>0, <2>0, <2>1, OtherStore DEF carVars
  <2>2. ASSUME h' = Post(h, inst, TextMsg), UNCHANGED mEventHandler PROVE StoreInv'
    BY <1>0, <1>m, <2>0, <2>2, PostStore
  <2>3. ASSUME NEW got \in BOOLEAN, NEW vinOk \in BOOLEAN, NEW speedOk \in BOOLEAN,
               NEW read \in {VinMsg(0), VinMsg(1), TextMsg}, init(inst, got, vinOk, speedOk),
               h' = [h EXCEPT ![inst].q = @ \o <<read>> \o IF speedOk THEN <<>> ELSE <<TextMsg>>]
        PROVE  StoreInv'
    <3>1. PICK rest \in {<<>>, <<TextMsg>>} : rest = IF speedOk THEN <<>> ELSE <<TextMsg>>
      OBVIOUS
    <3>2. h' = [h EXCEPT ![inst].q = @ \o <<read>> \o rest]
      BY <2>3, <3>1
    <3>3. mEventHandler' \in Nat
      BY <1>0, <2>3 DEF init
    <3> QED
      BY <1>0, <2>0, <3>2, <3>3, StartedStore
  <2>4. initFails => UNCHANGED mEventHandler
    BY DEF initFails, carVars
  <2>5. UNCHANGED carVars => UNCHANGED mEventHandler
    BY DEF carVars
  <2> QED
    BY <1>3, <2>1, <2>2, <2>3, <2>4, <2>5 DEF onStartCommand
<1>4. CASE onDestroy
  BY <1>0, <1>4, OtherStore DEF onDestroy, carVars
<1>5. CASE onLocationResult
  <2>1. n' \in [loc : Nat, car : Nat] /\ n'.loc = n.loc + 1 /\ n.loc <= n'.loc
    BY <1>0, <1>5 DEF onLocationResult
  <2>2. h' = Post(h, inst, LocationMsg(n'.loc)) /\ UNCHANGED <<inst, mEventHandler, pref, disk>>
    BY <1>5, <2>1 DEF onLocationResult, carVars
  <2> QED
    BY <1>0, <1>m, <2>1, <2>2, PostStore
<1>6. CASE onVin \/ onSpeed
  <2>1. n' \in [loc : Nat, car : Nat] /\ n'.loc = n.loc /\ n.loc <= n'.loc
    BY <1>0, <1>6 DEF onVin, onSpeed
  <2>2. PICK m \in Messages : m.what # "location" /\ h' = Post(h, mEventHandler, m)
    BY <1>6, <1>m DEF onVin, onSpeed, ToCar
  <2>3. UNCHANGED <<inst, mEventHandler, pref, disk>>
    BY <1>6 DEF onVin, onSpeed, carVars
  <2> QED
    BY <1>0, <2>1, <2>2, <2>3, PostStore
<1>7. CASE flush
  <2>1. disk' = pref.f /\ UNCHANGED <<h, pref, n, inst, mEventHandler>>
    BY <1>7 DEF flush, carVars
  <2> QED
    BY <2>1 DEF StoreInv
<1>8. CASE restart
  <2>1. /\ pref' = [f |-> disk, by |-> 0] /\ h' = <<>> /\ UNCHANGED <<disk, n>>
        /\ inst' = 0 /\ mEventHandler' = 0
    BY <1>8 DEF restart, NoCarClient
  <2> QED
    BY <2>1 DEF StoreInv
<1>9. CASE newScreen \/ onSharedPreferenceChanged \/ UNCHANGED vars
  BY <1>0, <1>9, OtherStore DEF newScreen, onSharedPreferenceChanged, vars, carVars
<1> QED
  BY <1>1, <1>2, <1>3, <1>4, <1>5, <1>6, <1>7, <1>8, <1>9 DEF Next

\* The preference is what the handler that saved last (EventHandler.handleMessage,
\* UiFields.saveAsPreference) has for the VIN and the speed, whichever of its messages
\* threw, as long as its speed can be saved.
THEOREM SavedCopy == Spec => []SavedIsCopy
<1>1. StoreInv => SavedIsCopy
  BY DEF StoreInv, SavedIsCopy, SaverOK
<1> QED
  BY InitStore, NextStore, <1>1, PTL DEF Spec

\* No step of one handler replaces what it saved by something older: the queue keeps
\* the order of the locations, UiFields forgets no VIN, and the count of EventHandler
\* grows.  A death of the process before the first save changes nothing.
THEOREM OlderByAnotherHandler == Spec => OlderOnlyByAnotherHandler
<1> DEFINE Step == pref'.by = pref.by =>
                      /\ pref'.f.pos >= pref.f.pos
                      /\ pref'.f.vin >= pref.f.vin
                      /\ pref'.f.cnt >= pref.f.cnt \/ pref'.f.cnt = h'[pref'.by].cnt
<1>1. ASSUME StoreInv, Next PROVE Step
  <2>0. pref.f \in Fields
    BY <1>1 DEF StoreInv
  <2>1. ASSUME pref'.f = pref.f PROVE Step
    BY <2>0, <2>1 DEF Fields
  <2>2. ASSUME NEW g \in DOMAIN h, NEW ok \in BOOLEAN, handleMessage(g, ok) PROVE Step
    <3>1. PICK f, cnt : HandledBy(g, ok, f, cnt) /\ Handled(g, ok, f, cnt)
      BY <1>1, <2>2, HandleFacts
    <3>2. CASE pref' = pref
      BY <3>2, <2>1
    <3>3. CASE pref' = [f |-> f, by |-> g]
      <4>1. SUFFICES ASSUME pref.by = g PROVE Step
        BY <3>3
      <4>2. g # 0 /\ SaverOK(pref.f, h[g])
        BY <1>1, <2>2, <4>1 DEF StoreInv
      <4>3. h[g].f \in Fields /\ f \in Fields /\ h[g].f.pos <= f.pos /\ h[g].f.vin <= f.vin
        <5>1. h[g] \in Handlers
          BY <1>1, <2>2 DEF StoreInv
        <5> QED
          BY <5>1, <3>1 DEF Handled, Handlers
      <4>4. pref'.f = f /\ pref'.by = g
        BY <3>3
      <4>5. f.pos >= pref.f.pos /\ f.vin >= pref.f.vin
        BY <2>0, <4>2, <4>3 DEF SaverOK, Fields
      <4>6. f.cnt >= pref.f.cnt \/ f.cnt = h'[g].cnt
        <5>1. CASE Head(h[g].q).what = "location"
          BY <3>1, <5>1 DEF Handled
        <5>2. CASE Head(h[g].q).what # "location"
          <6>1. h'[g].cnt = h[g].cnt /\ f.cnt = h[g].f.cnt
            BY <3>1, <5>2 DEF Handled
          <6>2. HandlerOK(h[g], n.loc)
            BY <1>1, <2>2 DEF StoreInv
          <6> QED
            BY <2>0, <6>1, <6>2, <4>2 DEF HandlerOK, SaverOK, Fields
        <5> QED
          BY <5>1, <5>2
      <4> QED
        BY <4>4, <4>5, <4>6
    <3> QED
      BY <3>1, <3>2, <3>3 DEF HandledBy
  <2>3. CASE restart
    <3>1. pref'.f = disk /\ pref'.by = 0
      BY <2>3 DEF restart
    <3> QED
      BY <1>1, <2>0, <3>1 DEF StoreInv, Fields
  <2>4. CASE UNCHANGED pref
    BY <2>1, <2>4
  <2> QED
    BY <1>1, <2>2, <2>3, <2>4
       DEF Next, onCreate, onStartCommand, onDestroy, onLocationResult, onVin, onSpeed,
           flush, newScreen, onSharedPreferenceChanged
<1>2. StoreInv /\ [Next]_vars => [Step]_vars
  BY <1>1
<1>3. [][Step]_vars => OlderOnlyByAnotherHandler
  BY PTL DEF OlderOnlyByAnotherHandler
<1> QED
  BY InitStore, NextStore, <1>2, <1>3, PTL DEF Spec

-----------------------------------------------------------------------------
(* What is shown.                                                          *)

ScreenInv ==
    /\ screen \in [on : BOOLEAN, told : BOOLEAN, shown : {screen.shown}]
    /\ ScreenShowsSaved

LEMMA InitScreen == Init => ScreenInv
BY DEF Init, NoScreen, ScreenInv, ScreenShowsSaved

\* Every step preserves it: a save that changes the text tells the screen, and what the
\* screen reads is the preference as it is by then.
LEMMA NextScreen == ScreenInv /\ [Next]_vars => ScreenInv'
<1> SUFFICES ASSUME ScreenInv, [Next]_vars PROVE ScreenInv'
  OBVIOUS
<1>1. ASSUME NEW g \in DOMAIN h, NEW ok \in BOOLEAN, handleMessage(g, ok) PROVE ScreenInv'
  <2>1. screen' = [screen EXCEPT !.told = screen.told \/ Tells(pref'.f)]
    BY <1>1 DEF handleMessage
  <2>2. /\ screen'.on = screen.on /\ screen'.shown = screen.shown
        /\ screen'.told = (screen.told \/ (screen.on /\ pref'.f # pref.f))
        /\ screen' \in [on : BOOLEAN, told : BOOLEAN, shown : {screen'.shown}]
    BY <2>1 DEF ScreenInv, Tells
  <2> QED
    BY <2>2 DEF ScreenInv, ScreenShowsSaved
<1>2. CASE onSharedPreferenceChanged
  <2>1. /\ screen' = [screen EXCEPT !.told = FALSE,
                         !.shown = IF pref.f.speed = "null" THEN @ ELSE Shown(pref.f)]
        /\ UNCHANGED pref
    BY <1>2 DEF onSharedPreferenceChanged
  <2>2. screen'.on = screen.on /\ screen'.told = FALSE
    BY <2>1 DEF ScreenInv
  <2>3. screen'.shown = IF pref.f.speed = "null" THEN screen.shown ELSE Shown(pref.f)
    BY <2>1 DEF ScreenInv
  <2>4. screen' \in [on : BOOLEAN, told : BOOLEAN, shown : {screen'.shown}]
    BY <2>1 DEF ScreenInv
  <2> QED
    BY <2>1, <2>2, <2>3, <2>4 DEF ScreenInv, ScreenShowsSaved
<1>3. CASE newScreen
  BY <1>3 DEF newScreen, NoScreen, ScreenInv, ScreenShowsSaved
<1>4. CASE restart
  BY <1>4 DEF restart, NoScreen, ScreenInv, ScreenShowsSaved
<1>5. CASE UNCHANGED <<pref, screen>>
  BY <1>5 DEF ScreenInv, ScreenShowsSaved
<1> QED
  BY <1>1, <1>2, <1>3, <1>4, <1>5
     DEF Next, vars, onCreate, onStartCommand, onDestroy, onLocationResult, onVin, onSpeed, flush

\* A screen that has been told of every change shows what is saved: no order of saves,
\* notifications and new screens makes TollInfoScreen miss the last save, unless the
\* speed without a value keeps it from showing anything.
THEOREM ScreenSaved == Spec => []ScreenShowsSaved
<1>1. ScreenInv => ScreenShowsSaved
  BY DEF ScreenInv
<1> QED
  BY InitScreen, NextScreen, <1>1, PTL DEF Spec
===============================================================================
