--------------------------- MODULE MapScreen_proofs ---------------------------
(***************************************************************************)
(* Proofs about what the map screen draws and fetches.  The route of the   *)
(* trip (TripRoute): for every number of services and locations, every     *)
(* limit on the points of a route and every interleaving of the looper     *)
(* threads with the reset and the drawing.  The fetch of signs             *)
(* (DatexFetch): for every number of clicks and screens and every          *)
(* interleaving of the UI thread with the background thread.  The two      *)
(* share no variable.                                                      *)
(***************************************************************************)
EXTENDS TripRoute, DatexFetch, SequenceTheorems, TLAPS

PointSet == [n : Nat, at : Places]
ListSet == [pts : Seq(PointSet), mod : Nat, torn : BOOLEAN]
Busy == [pc : {"isEmpty", "list", "size", "get", "first", "add", "trim", "remove"}, n : Nat,
         at : Places, list : Nat, size : Nat, prev : Nat, obj : Nat, met : {"yes", "no"}]

\* The points of object o, and whether there may be a null among them.
Pts(o) == lists[tripRoute[o]].pts
Torn(o) == lists[tripRoute[o]].torn

\* The list that a looper at work holds on to, if any, exists.
Holds(x, n) == x.list \in 0..n /\ (x.pc \in {"size", "get"} => x.list # 0)

\* The objects, their lists and the threads that work on them.  No two objects have a
\* list in common, though clone lets the two threads have an object in common.
ObjectInv ==
    /\ gen \in Nat /\ pos \in Nat
    /\ lists \in Seq(ListSet)
    /\ tripRoute \in Seq(Nat)
    /\ \A o \in 1..Len(tripRoute) : tripRoute[o] \in 1..Len(lists)
    /\ \A o, p \in 1..Len(tripRoute) : o # p => tripRoute[o] # tripRoute[p]
    /\ mTripSummary \in 0..Len(tripRoute)
    /\ gen > 0 => mTripSummary # 0
    /\ th \in [Gens -> {Idle} \cup Busy]
    /\ \A g \in Gens : th[g] # Idle => th[g].obj \in 1..Len(tripRoute) /\ Holds(th[g], Len(lists))

LEMMA IdleFacts ==
    /\ Idle.pc = "idle" /\ Idle \notin Busy
    /\ \A x \in Busy : x # Idle /\ x.pc # "idle"
BY DEF Idle, Busy

LEMMA InitObject == Init => ObjectInv
BY TripRouteAssumption DEF Init, ObjectInv

\* A thread at work, and its list.
LEMMA BusyFacts ==
    ASSUME ObjectInv, NEW g \in Gens, th[g].pc # "idle"
    PROVE  /\ th[g] \in Busy /\ th[g].obj \in 1..Len(tripRoute)
           /\ Route(g) \in 1..Len(lists) /\ Points(g) = Pts(th[g].obj)
           /\ Points(g) \in Seq(PointSet) /\ lists[Route(g)].torn \in BOOLEAN
           /\ Holds(th[g], Len(lists))
<1>1. th[g] \in Busy /\ th[g] # Idle
  BY IdleFacts DEF ObjectInv
<1>2. th[g].obj \in 1..Len(tripRoute) /\ Holds(th[g], Len(lists))
  BY <1>1 DEF ObjectInv
<1>3. Route(g) \in 1..Len(lists)
  BY <1>2 DEF ObjectInv, Route
<1>4. lists[Route(g)] \in ListSet
  BY <1>3 DEF ObjectInv
<1> QED
  BY <1>1, <1>2, <1>3, <1>4 DEF Points, Pts, Route, ListSet

\* What a looper stores is in the list of its own object only.
LEMMA StoreFacts ==
    ASSUME ObjectInv, NEW g \in Gens, th[g].pc # "idle", NEW q \in Seq(PointSet), NEW t \in BOOLEAN,
           Store(g, q, t), UNCHANGED tripRoute
    PROVE  /\ lists' \in Seq(ListSet) /\ Len(lists') = Len(lists)
           /\ \A o \in 1..Len(tripRoute) : /\ Pts(o)' = IF o = th[g].obj THEN q ELSE Pts(o)
                                           /\ Torn(o)' = IF o = th[g].obj THEN t ELSE Torn(o)
<1>1. th[g].obj \in 1..Len(tripRoute) /\ Route(g) \in 1..Len(lists) /\ Route(g) = tripRoute[th[g].obj]
  BY BusyFacts DEF Route
<1>2. PICK x : x = [pts |-> q, mod |-> lists[Route(g)].mod + 1, torn |-> t]
  OBVIOUS
<1>3. x \in ListSet /\ x.pts = q /\ x.torn = t
  <2>1. lists[Route(g)] \in ListSet
    BY <1>1 DEF ObjectInv
  <2> QED
    BY <1>2, <2>1 DEF ListSet
<1>4. lists' = [lists EXCEPT ![Route(g)] = x]
  BY <1>2 DEF Store
<1>5. /\ lists' \in Seq(ListSet) /\ Len(lists') = Len(lists) /\ lists'[Route(g)] = x
      /\ \A l \in 1..Len(lists) : l # Route(g) => lists'[l] = lists[l]
  BY <1>1, <1>3, <1>4 DEF ObjectInv
<1>6. ASSUME NEW o \in 1..Len(tripRoute)
      PROVE  /\ Pts(o)' = IF o = th[g].obj THEN q ELSE Pts(o)
             /\ Torn(o)' = IF o = th[g].obj THEN t ELSE Torn(o)
  <2>1. CASE o # th[g].obj
    <3>1. tripRoute[o] \in 1..Len(lists) /\ tripRoute[o] # Route(g)
      BY <1>1, <2>1 DEF ObjectInv
    <3> QED
      BY <1>5, <2>1, <3>1 DEF Pts, Torn
  <2>2. CASE o = th[g].obj
    BY <1>1, <1>3, <1>5, <2>2 DEF Pts, Torn
  <2> QED
    BY <2>1, <2>2
<1> QED
  BY <1>5, <1>6

\* A new object with a new list (newEventHandler, or drawRoute without a summary).
NewSummary ==
    /\ lists' = Append(lists, NewList)
    /\ tripRoute' = Append(tripRoute, Len(lists'))
    /\ mTripSummary' = Len(tripRoute')

LEMMA NewSummaryFacts ==
    ASSUME ObjectInv, NewSummary
    PROVE  /\ lists' \in Seq(ListSet) /\ Len(lists') = Len(lists) + 1
           /\ tripRoute' \in Seq(Nat) /\ Len(tripRoute') = Len(tripRoute) + 1
           /\ Len(tripRoute) \in Nat /\ mTripSummary' = Len(tripRoute) + 1
           /\ \A o \in 1..Len(tripRoute') : tripRoute'[o] \in 1..Len(lists')
           /\ \A o, p \in 1..Len(tripRoute') : o # p => tripRoute'[o] # tripRoute'[p]
           /\ \A o \in 1..Len(tripRoute) : Pts(o)' = Pts(o) /\ Torn(o)' = Torn(o)
           /\ \A o \in {mTripSummary'} : Pts(o)' = <<>> /\ Torn(o)' = FALSE
<1>1. NewList \in ListSet /\ NewList.pts = <<>> /\ NewList.torn = FALSE
  BY DEF NewList, ListSet
<1>2. /\ lists' \in Seq(ListSet) /\ Len(lists') = Len(lists) + 1 /\ Len(lists) \in Nat
      /\ lists'[Len(lists) + 1] = NewList /\ \A l \in 1..Len(lists) : lists'[l] = lists[l]
  BY <1>1 DEF ObjectInv, NewSummary
<1>3. /\ tripRoute' \in Seq(Nat) /\ Len(tripRoute') = Len(tripRoute) + 1 /\ Len(tripRoute) \in Nat
      /\ tripRoute'[Len(tripRoute) + 1] = Len(lists) + 1
      /\ \A o \in 1..Len(tripRoute) : tripRoute'[o] = tripRoute[o]
  BY <1>2 DEF ObjectInv, NewSummary
<1>4. mTripSummary' = Len(tripRoute) + 1
  BY <1>3 DEF NewSummary
<1>5. ASSUME NEW o \in 1..Len(tripRoute')
      PROVE  \/ o = Len(tripRoute) + 1 /\ tripRoute'[o] = Len(lists) + 1
             \/ /\ o \in 1..Len(tripRoute) /\ tripRoute'[o] = tripRoute[o]
                /\ tripRoute[o] \in 1..Len(lists)
  <2>1. CASE o = Len(tripRoute) + 1
    BY <1>3, <2>1
  <2>2. CASE o # Len(tripRoute) + 1
    <3>1. o \in 1..Len(tripRoute)
      BY <1>3, <2>2
    <3> QED
      BY <1>3, <3>1 DEF ObjectInv
  <2> QED
    BY <2>1, <2>2
<1>6. \A o \in 1..Len(tripRoute') : tripRoute'[o] \in 1..Len(lists')
  BY <1>2, <1>5
<1>7. ASSUME NEW o \in 1..Len(tripRoute'), NEW p \in 1..Len(tripRoute'), o # p
      PROVE  tripRoute'[o] # tripRoute'[p]
  <2>1. CASE o \in 1..Len(tripRoute) /\ p \in 1..Len(tripRoute)
    BY <1>3, <1>7, <2>1 DEF ObjectInv
  <2>2. CASE ~(o \in 1..Len(tripRoute) /\ p \in 1..Len(tripRoute))
    <3>1. Len(lists) \in Nat /\ Len(lists) + 1 \notin 1..Len(lists)
      BY <1>2
    <3> QED
      BY <1>5, <1>7, <2>2, <3>1
  <2> QED
    BY <2>1, <2>2
<1>8. \A o \in 1..Len(tripRoute) : Pts(o)' = Pts(o) /\ Torn(o)' = Torn(o)
  BY <1>2, <1>3 DEF ObjectInv, Pts, Torn
<1>9. \A o \in {mTripSummary'} : Pts(o)' = <<>> /\ Torn(o)' = FALSE
  BY <1>1, <1>2, <1>3, <1>4 DEF Pts, Torn
<1> QED
  BY <1>2, <1>3, <1>4, <1>6, <1>7, <1>8, <1>9

\* The reset gives the current object, if there is one, a new list.
LEMMA ClearFacts ==
    ASSUME ObjectInv, clearTripSummary
    PROVE  /\ lists' \in Seq(ListSet) /\ Len(lists') = Len(lists) + 1
           /\ tripRoute' \in Seq(Nat) /\ Len(tripRoute') = Len(tripRoute)
           /\ \A o \in 1..Len(tripRoute) : tripRoute'[o] \in 1..Len(lists')
           /\ \A o, p \in 1..Len(tripRoute) : o # p => tripRoute'[o] # tripRoute'[p]
           /\ \A o \in 1..Len(tripRoute) :
                 /\ Pts(o)' = IF o = mTripSummary THEN <<>> ELSE Pts(o)
                 /\ Torn(o)' = IF o = mTripSummary THEN FALSE ELSE Torn(o)
                 /\ tripRoute'[o] = IF o = mTripSummary THEN Len(lists) + 1 ELSE tripRoute[o]
<1>1. NewList \in ListSet /\ NewList.pts = <<>> /\ NewList.torn = FALSE
  BY DEF NewList, ListSet
<1>2. /\ lists' \in Seq(ListSet) /\ Len(lists') = Len(lists) + 1 /\ Len(lists) \in Nat
      /\ lists'[Len(lists) + 1] = NewList /\ \A l \in 1..Len(lists) : lists'[l] = lists[l]
  BY <1>1 DEF ObjectInv, clearTripSummary
<1>3. tripRoute' = [tripRoute EXCEPT ![mTripSummary] = Len(lists) + 1]
  BY DEF clearTripSummary, Cleared
<1>4. /\ tripRoute' \in Seq(Nat) /\ Len(tripRoute') = Len(tripRoute)
      /\ \A o \in 1..Len(tripRoute) :
            tripRoute'[o] = IF o = mTripSummary THEN Len(lists) + 1 ELSE tripRoute[o]
  <2>1. CASE mTripSummary \in 1..Len(tripRoute)
    BY <1>2, <1>3, <2>1 DEF ObjectInv
  <2>2. CASE mTripSummary = 0
    <3>1. tripRoute' = tripRoute
      BY <1>3, <2>2 DEF ObjectInv
    <3> QED
      BY <2>2, <3>1 DEF ObjectInv
  <2> QED
    BY <2>1, <2>2 DEF ObjectInv
<1>5. \A o \in 1..Len(tripRoute) : tripRoute'[o] \in 1..Len(lists')
  BY <1>2, <1>4 DEF ObjectInv
<1>6. \A o, p \in 1..Len(tripRoute) : o # p => tripRoute'[o] # tripRoute'[p]
  <2>1. \A o \in 1..Len(tripRoute) : tripRoute[o] # Len(lists) + 1
    BY <1>2 DEF ObjectInv
  <2>2. \A o, p \in 1..Len(tripRoute) : o # p => tripRoute[o] # tripRoute[p]
    BY DEF ObjectInv
  <2> QED
    BY <1>4, <2>1, <2>2
<1>7. \A o \in 1..Len(tripRoute) : /\ Pts(o)' = IF o = mTripSummary THEN <<>> ELSE Pts(o)
                                   /\ Torn(o)' = IF o = mTripSummary THEN FALSE ELSE Torn(o)
  BY <1>1, <1>2, <1>4 DEF ObjectInv, Pts, Torn
<1> QED
  BY <1>2, <1>4, <1>5, <1>6, <1>7

\* What becomes of thread g: x.
Thread(g, x) == th' = [th EXCEPT ![g] = x]

LEMMA ThreadFacts ==
    ASSUME ObjectInv, NEW g \in Gens, NEW x \in {Idle} \cup Busy, Thread(g, x)
    PROVE  /\ th' \in [Gens -> {Idle} \cup Busy] /\ th'[g] = x
           /\ \A k \in Gens : k # g => th'[k] = th[k]
BY DEF ObjectInv, Thread

\* A step of the looper g that is at work leaves its location and its object alone.
Later(g, x, pc) ==
    /\ x \in Busy /\ x.pc = pc
    /\ x.n = th[g].n /\ x.at = th[g].at /\ x.obj = th[g].obj /\ x.met = th[g].met

\* The location that a looper takes up is for the current object, which there is.
LEMMA ReceiveFacts ==
    ASSUME ObjectInv, NEW g \in Gens, NEW place \in Places, Receive(g, place)
    PROVE  /\ th[g] = Idle /\ pos' = pos + 1 /\ mTripSummary \in 1..Len(tripRoute)
           /\ \E x : /\ Thread(g, x) /\ x \in Busy /\ x.pc = "isEmpty" /\ x.n = pos + 1
                     /\ x.obj = mTripSummary /\ x.list = 0
<1>1. th[g] = Idle /\ pos' = pos + 1 /\ g <= gen
  BY DEF Receive
<1>2. mTripSummary \in 1..Len(tripRoute)
  BY <1>1 DEF ObjectInv, Gens
<1>3. PICK x : x = [pc |-> "isEmpty", n |-> pos', at |-> place, list |-> 0, size |-> 0,
                    prev |-> 0, obj |-> mTripSummary, met |-> "no"]
  OBVIOUS
<1>4. Thread(g, x)
  BY <1>3 DEF Receive, Thread
<1>5. x \in Busy /\ x.pc = "isEmpty" /\ x.n = pos + 1 /\ x.obj = mTripSummary /\ x.list = 0
  BY <1>1, <1>2, <1>3 DEF Busy, ObjectInv
<1> QED
  BY <1>1, <1>2, <1>4, <1>5

\* A looper of which one thread has changed, and no object is new.
LEMMA LooperObject ==
    ASSUME ObjectInv, NEW g \in Gens, NEW x \in {Idle} \cup Busy, Thread(g, x),
           x # Idle => x.obj \in 1..Len(tripRoute) /\ Holds(x, Len(lists)),
           UNCHANGED <<gen, mTripSummary, tripRoute>>, pos' \in Nat,
           lists' \in Seq(ListSet), Len(lists') = Len(lists)
    PROVE  ObjectInv'
<1>1. /\ th' \in [Gens -> {Idle} \cup Busy] /\ th'[g] = x
      /\ \A k \in Gens : k # g => th'[k] = th[k]
  BY ThreadFacts
<1>2. \A k \in Gens : th'[k] # Idle => th'[k].obj \in 1..Len(tripRoute) /\ Holds(th'[k], Len(lists))
  BY <1>1 DEF ObjectInv
<1> QED
  BY <1>1, <1>2 DEF ObjectInv

\* Of the other actions only these change an object or a thread.
MainUnchanged == UNCHANGED <<gen, mTripSummary, tripRoute, lists, th, pos, old, shared, threw>>

InAdd(g) == IsEmpty(g) \/ List(g) \/ Size(g) \/ Get(g) \/ Add(g) \/ Trim(g) \/ Remove(g)

LEMMA MainFrame ==
    ASSUME [Next]_vars
    PROVE  \/ \E g \in Gens : \/ \E x \in Places : Receive(g, x)
                              \/ InAdd(g)
           \/ NewSummary /\ gen' \in {gen, gen + 1} /\ UNCHANGED <<th, pos, old, shared, threw>>
           \/ clearTripSummary
           \/ MainUnchanged
<1>1. newEventHandler => NewSummary /\ gen' = gen + 1 /\ UNCHANGED <<th, pos, old, shared, threw>>
  BY DEF newEventHandler, NewSummary
<1>2. drawRoute => \/ NewSummary /\ UNCHANGED <<gen, th, pos, old, shared, threw>>
                   \/ MainUnchanged
  BY DEF drawRoute, NewSummary, MainUnchanged
<1>3. newScreen \/ refresh \/ drawStart \/ drawEnd \/ drawPolyline \/ UNCHANGED vars => MainUnchanged
  BY DEF newScreen, refresh, drawStart, drawEnd, drawPolyline, uiUnchanged, vars, MainUnchanged
<1> QED
  BY <1>1, <1>2, <1>3 DEF Next, InAdd

\* A step of looper g inside addPosition, in one formula: from the points p of its
\* object to q, and from th[g] to x.
AddPosition(g, x, p, q) ==
    \/ th[g].pc = "isEmpty" /\ q = p /\ x.pc = (IF p = <<>> THEN "first" ELSE "list")
    \/ th[g].pc = "list" /\ q = p /\ x.pc = "size" /\ x.list = Route(g)
    \/ th[g].pc = "size" /\ q = p /\ x.pc = "get" /\ x.list = th[g].list /\ x.size = Len(p)
    \/ /\ th[g].pc = "get" /\ q = p /\ x.pc = "add"
       /\ th[g].size \in 1..Len(lists[th[g].list].pts)
       /\ x.prev = lists[th[g].list].pts[th[g].size].at
    \/ th[g].pc = "add" /\ Far(th[g].prev, th[g].at) /\ q = Append(p, Point(g)) /\ x.pc = "trim"
    \/ th[g].pc = "add" /\ q = p /\ x.pc = "trim"
    \/ th[g].pc = "first" /\ q = Append(p, Point(g)) /\ x = Idle
    \/ th[g].pc = "first" /\ q = p /\ x = Idle
    \/ th[g].pc = "trim" /\ Len(p) > Cap /\ q = p /\ x.pc = "remove"
    \/ th[g].pc = "trim" /\ Len(p) <= Cap /\ q = p /\ x = Idle
    \/ th[g].pc = "remove" /\ p # <<>> /\ q = Tail(p) /\ x.pc = "trim"
    \/ th[g].pc = "remove" /\ Raced(g) /\ q = p /\ x.pc = "trim"
    \/ th[g].pc = "remove" /\ p = <<>> /\ q = p /\ x = Idle
    \/ th[g].pc \in {"get", "add"} /\ q = p /\ x = Idle

\* What makes addPosition fail on the points p.
Failing(g, p) ==
    \/ /\ th[g].pc = "get"
       /\ th[g].size \notin 1..Len(lists[th[g].list].pts) \/ MaybeNull(th[g].list)
    \/ th[g].pc \in {"add", "first"} /\ Raced(g)
    \/ th[g].pc = "remove" /\ p = <<>>

Throw(g, p) ==
    Failing(g, p) /\ threw' = threw \cup {IF th[g].obj \in shared THEN "shared" ELSE th[g].met}

Looper(g, x, p, q) ==
    /\ th[g] \in Busy /\ th[g].obj \in 1..Len(tripRoute)
    /\ p = Pts(th[g].obj) /\ p \in Seq(PointSet) /\ q \in Seq(PointSet)
    /\ Point(g) \in PointSet /\ Point(g).n = th[g].n /\ Point(g).at = th[g].at
    /\ th'[g] = x /\ \A k \in Gens : k # g => th'[k] = th[k]
    /\ x = Idle \/ /\ x \in Busy /\ x.n = th[g].n /\ x.at = th[g].at
                   /\ x.obj = th[g].obj /\ x.met = th[g].met
    /\ \A o \in 1..Len(tripRoute) : /\ Pts(o)' = IF o = th[g].obj THEN q ELSE Pts(o)
                                    /\ Torn(o)' => Torn(o) \/ (o = th[g].obj /\ Raced(g))
    /\ UNCHANGED <<gen, mTripSummary, tripRoute, pos, shared, old>>
    /\ AddPosition(g, x, p, q)
    /\ UNCHANGED threw \/ Throw(g, p)

\* What a looper may do to its list: nothing, or a change from which q results.
Changed(g, q) ==
    \/ UNCHANGED lists /\ q = Points(g)
    \/ Store(g, q, lists[Route(g)].torn)
    \/ Raced(g) /\ Store(g, q, TRUE)

\* How each action of the looper is such a step: x is what becomes of the thread, and
\* q the points it leaves.
LEMMA LooperStep ==
    ASSUME ObjectInv, NEW g \in Gens, th[g].pc # "idle", NEW x, Thread(g, x),
           x = Idle \/ (Later(g, x, x.pc) /\ Holds(x, Len(lists))), NEW q \in Seq(PointSet),
           Changed(g, q), UNCHANGED <<pos, shared>>, looperUnchanged,
           AddPosition(g, x, Points(g), q), UNCHANGED threw \/ Throw(g, Points(g))
    PROVE  ObjectInv' /\ Looper(g, x, Points(g), q)
<1>1. /\ th[g] \in Busy /\ th[g].obj \in 1..Len(tripRoute)
      /\ Points(g) = Pts(th[g].obj) /\ Points(g) \in Seq(PointSet)
      /\ lists[Route(g)].torn \in BOOLEAN /\ lists[Route(g)].torn = Torn(th[g].obj)
  BY BusyFacts DEF Torn, Route
<1>2. UNCHANGED <<gen, mTripSummary, tripRoute, pos, shared, old>>
  BY DEF looperUnchanged
<1>3. /\ lists' \in Seq(ListSet) /\ Len(lists') = Len(lists)
      /\ \A o \in 1..Len(tripRoute) : /\ Pts(o)' = IF o = th[g].obj THEN q ELSE Pts(o)
                                      /\ Torn(o)' => Torn(o) \/ (o = th[g].obj /\ Raced(g))
  <2>1. CASE Store(g, q, lists[Route(g)].torn)
    <3>1. PICK t : t = lists[Route(g)].torn
      OBVIOUS
    <3>2. t \in BOOLEAN /\ Store(g, q, t)
      BY <1>1, <2>1, <3>1
    <3>3. /\ lists' \in Seq(ListSet) /\ Len(lists') = Len(lists)
          /\ \A o \in 1..Len(tripRoute) : /\ Pts(o)' = IF o = th[g].obj THEN q ELSE Pts(o)
                                          /\ Torn(o)' = IF o = th[g].obj THEN t ELSE Torn(o)
      BY <1>2, <3>2, StoreFacts
    <3> QED
      BY <1>1, <3>1, <3>3
  <2>2. CASE Raced(g) /\ Store(g, q, TRUE)
    <3>1. /\ lists' \in Seq(ListSet) /\ Len(lists') = Len(lists)
          /\ \A o \in 1..Len(tripRoute) : /\ Pts(o)' = IF o = th[g].obj THEN q ELSE Pts(o)
                                          /\ Torn(o)' = IF o = th[g].obj THEN TRUE ELSE Torn(o)
      BY <1>2, <2>2, StoreFacts
    <3> QED
      BY <2>2, <3>1
  <2>3. CASE UNCHANGED lists /\ q = Points(g)
    BY <1>1, <1>2, <2>3 DEF Pts, Torn, ObjectInv
  <2> QED
    BY <2>1, <2>2, <2>3 DEF Changed
<1>4. x \in {Idle} \cup Busy /\ (x # Idle => x.obj \in 1..Len(tripRoute) /\ Holds(x, Len(lists)))
  BY <1>1 DEF Later
<1>5. th'[g] = x /\ \A k \in Gens : k # g => th'[k] = th[k]
  BY <1>4, ThreadFacts
<1>6. ObjectInv'
  BY <1>2, <1>3, <1>4, LooperObject DEF ObjectInv
<1>7. Point(g) \in PointSet /\ Point(g).n = th[g].n /\ Point(g).at = th[g].at
  BY <1>1 DEF Point, PointSet, Busy
<1>8. x = Idle \/ /\ x \in Busy /\ x.n = th[g].n /\ x.at = th[g].at
                  /\ x.obj = th[g].obj /\ x.met = th[g].met
  BY DEF Later
<1> QED
  BY <1>1, <1>2, <1>3, <1>5, <1>6, <1>7, <1>8 DEF Looper

\* The looper goes on at another place, and holds on to what it held on to.
LEMMA MoveFacts ==
    ASSUME ObjectInv, NEW g \in Gens, th[g].pc # "idle",
           NEW pc \in {"isEmpty", "list", "first", "add", "trim", "remove"},
           th' = [th EXCEPT ![g] = [th[g] EXCEPT !.pc = pc]]
    PROVE  \E x : /\ Thread(g, x) /\ x.pc = pc /\ x # Idle
                  /\ Later(g, x, x.pc) /\ Holds(x, Len(lists))
<1>1. th[g] \in Busy /\ Holds(th[g], Len(lists))
  BY BusyFacts
<1>2. PICK x : x = [th[g] EXCEPT !.pc = pc]
  OBVIOUS
<1>3. x \in Busy /\ x.pc = pc /\ x.list = th[g].list
  BY <1>1, <1>2 DEF Busy
<1>4. Later(g, x, x.pc)
  BY <1>1, <1>2, <1>3 DEF Later, Busy
<1>5. Holds(x, Len(lists)) /\ x # Idle
  BY <1>1, <1>3, IdleFacts DEF Holds
<1> QED
  BY <1>2, <1>3, <1>4, <1>5 DEF Thread

LEMMA ChangeFacts ==
    ASSUME NEW g \in Gens, NEW r, Change(g, r)
    PROVE  Changed(g, r) \/ (Raced(g) /\ Changed(g, Points(g)))
BY DEF Change, Changed

LEMMA LooperFrame ==
    ASSUME ObjectInv, NEW g \in Gens, InAdd(g)
    PROVE  ObjectInv' /\ \E x, p, q : Looper(g, x, p, q)
<1>0. /\ th[g].pc \in {"isEmpty", "list", "size", "get", "add", "first", "trim", "remove"}
      /\ UNCHANGED <<pos, shared>> /\ looperUnchanged
  BY DEF InAdd, IsEmpty, List, Size, Get, Add, Trim, Remove
<1>p. /\ th[g] \in Busy /\ Points(g) \in Seq(PointSet) /\ Route(g) \in 1..Len(lists)
      /\ Holds(th[g], Len(lists)) /\ Len(lists) \in Nat /\ Len(Points(g)) \in Nat
  BY <1>0, BusyFacts DEF ObjectInv
<1>f. ASSUME Fail(g), Failing(g, Points(g)) PROVE ObjectInv' /\ \E x, p, q : Looper(g, x, p, q)
  <2>1. Thread(g, Idle) /\ Changed(g, Points(g)) /\ Throw(g, Points(g))
    BY <1>f DEF Fail, Thread, Changed, Throw
  <2>2. AddPosition(g, Idle, Points(g), Points(g))
    BY <1>f DEF Failing, AddPosition
  <2> QED
    BY <1>0, <1>p, <2>1, <2>2, LooperStep
<1>1. CASE IsEmpty(g)
  <2>1. PICK pc : pc = IF Points(g) = <<>> THEN "first" ELSE "list"
    OBVIOUS
  <2>2. /\ th[g].pc = "isEmpty" /\ UNCHANGED <<lists, threw>>
        /\ th' = [th EXCEPT ![g] = [th[g] EXCEPT !.pc = pc]]
    BY <1>1, <2>1 DEF IsEmpty
  <2>3. PICK x : /\ Thread(g, x) /\ x.pc = pc /\ Later(g, x, x.pc) /\ Holds(x, Len(lists))
    BY <1>0, <2>1, <2>2, MoveFacts
  <2>4. AddPosition(g, x, Points(g), Points(g)) /\ Changed(g, Points(g))
    BY <2>1, <2>2, <2>3 DEF AddPosition, Changed
  <2> QED
    BY <1>0, <1>p, <2>2, <2>3, <2>4, LooperStep
<1>2. CASE List(g)
  <2>1. th[g].pc = "list" /\ UNCHANGED <<lists, threw>>
    BY <1>2 DEF List
  <2>2. PICK x : x = [th[g] EXCEPT !.pc = "size", !.list = Route(g)]
    OBVIOUS
  <2>3. Thread(g, x)
    BY <1>2, <2>2 DEF List, Thread
  <2>4. x.pc = "size" /\ x.list = Route(g) /\ Later(g, x, x.pc)
    <3>1. PICK l \in Nat : l = Route(g)
      BY <1>p
    <3>2. x = [th[g] EXCEPT !.pc = "size", !.list = l]
      BY <2>2, <3>1
    <3>3. x.pc = "size" /\ x.list = l /\ Later(g, x, x.pc)
      BY <1>p, <3>2 DEF Later, Busy
    <3> QED
      BY <3>1, <3>3
  <2>5. Holds(x, Len(lists))
    BY <1>p, <2>4 DEF Holds
  <2>6. AddPosition(g, x, Points(g), Points(g)) /\ Changed(g, Points(g))
    BY <2>1, <2>4 DEF AddPosition, Changed
  <2> QED
    BY <1>0, <1>p, <2>1, <2>3, <2>4, <2>5, <2>6, LooperStep
<1>3. CASE Size(g)
  <2>1. th[g].pc = "size" /\ UNCHANGED <<lists, threw>>
    BY <1>3 DEF Size
  <2>2. PICK x : x = [th[g] EXCEPT !.pc = "get", !.size = Len(Points(g))]
    OBVIOUS
  <2>3. Thread(g, x)
    BY <1>3, <2>2 DEF Size, Thread
  <2>4. x.pc = "get" /\ x.list = th[g].list /\ x.size = Len(Points(g)) /\ Later(g, x, x.pc)
    BY <1>p, <2>2 DEF Later, Busy
  <2>5. Holds(x, Len(lists))
    BY <1>p, <2>1, <2>4 DEF Holds
  <2>6. AddPosition(g, x, Points(g), Points(g)) /\ Changed(g, Points(g))
    BY <2>1, <2>4 DEF AddPosition, Changed
  <2> QED
    BY <1>0, <1>p, <2>1, <2>3, <2>4, <2>5, <2>6, LooperStep
<1>4. CASE Get(g)
  <2>0. th[g].pc = "get" /\ th[g].list \in 1..Len(lists)
    <3>1. th[g].pc = "get"
      BY <1>4 DEF Get
    <3>2. th[g].list \in 0..Len(lists) /\ th[g].list # 0
      BY <1>p, <3>1 DEF Holds
    <3> QED
      BY <1>p, <3>1, <3>2
  <2>1. PICK r : r = lists[th[g].list].pts
    OBVIOUS
  <2>2. CASE /\ th[g].size \in 1..Len(r) /\ UNCHANGED <<lists, threw>>
             /\ th' = [th EXCEPT ![g].pc = "add", ![g].prev = r[th[g].size].at,
                                 ![g].list = 0, ![g].size = 0]
    <3>1. PICK b : b = r[th[g].size].at
      OBVIOUS
    <3>2. b \in Nat
      <4>1. lists[th[g].list] \in ListSet
        BY <2>0 DEF ObjectInv
      <4>3. r \in Seq(PointSet)
        BY <2>1, <4>1 DEF ListSet
      <4>2. r[th[g].size] \in PointSet
        BY <2>2, <4>3
      <4> QED
        BY <3>1, <4>2, TripRouteAssumption DEF PointSet
    <3>3. PICK x : x = [th[g] EXCEPT !.pc = "add", !.prev = b, !.list = 0, !.size = 0]
      OBVIOUS
    <3>4. Thread(g, x)
      BY <2>2, <3>1, <3>3 DEF Thread
    <3>5. x.pc = "add" /\ x.list = 0 /\ x.prev = b /\ Later(g, x, x.pc)
      BY <1>p, <3>2, <3>3 DEF Later, Busy
    <3>6. Holds(x, Len(lists))
      BY <1>p, <3>5 DEF Holds
    <3>7. AddPosition(g, x, Points(g), Points(g)) /\ Changed(g, Points(g))
      BY <2>0, <2>1, <2>2, <3>1, <3>5 DEF AddPosition, Changed
    <3> QED
      BY <1>0, <1>p, <2>2, <3>4, <3>5, <3>6, <3>7, LooperStep
  <2>3. CASE Fail(g) /\ (th[g].size \notin 1..Len(r) \/ MaybeNull(th[g].list))
    BY <1>f, <2>0, <2>1, <2>3 DEF Failing
  <2> QED
    BY <1>4, <2>1, <2>2, <2>3 DEF Get
<1>5. CASE Add(g)
  <2>0. Point(g) \in PointSet
    BY <1>p DEF Point, PointSet, Busy
  <2>1. Append(Points(g), Point(g)) \in Seq(PointSet)
    BY <1>p, <2>0
  <2>2. CASE /\ th[g].pc = "add" /\ Far(th[g].prev, th[g].at) /\ UNCHANGED threw
             /\ Change(g, Append(Points(g), Point(g))) /\ th' = [th EXCEPT ![g].pc = "trim"]
    <3>1. PICK x : Thread(g, x) /\ x.pc = "trim" /\ Later(g, x, x.pc) /\ Holds(x, Len(lists))
      BY <1>0, <2>2, MoveFacts
    <3>2. /\ AddPosition(g, x, Points(g), Append(Points(g), Point(g)))
          /\ AddPosition(g, x, Points(g), Points(g))
      BY <2>2, <3>1 DEF AddPosition
    <3> QED
      BY <1>0, <1>p, <2>1, <2>2, <3>1, <3>2, ChangeFacts, LooperStep
  <2>3. CASE /\ th[g].pc = "add" /\ UNCHANGED <<lists, threw>> /\ th' = [th EXCEPT ![g].pc = "trim"]
    <3>1. PICK x : Thread(g, x) /\ x.pc = "trim" /\ Later(g, x, x.pc) /\ Holds(x, Len(lists))
      BY <1>0, <2>3, MoveFacts
    <3>2. AddPosition(g, x, Points(g), Points(g)) /\ Changed(g, Points(g))
      BY <2>3, <3>1 DEF AddPosition, Changed
    <3> QED
      BY <1>0, <1>p, <2>3, <3>1, <3>2, LooperStep
  <2>4. CASE /\ th[g].pc = "first" /\ Change(g, Append(Points(g), Point(g)))
             /\ Thread(g, Idle) /\ UNCHANGED threw
    <3>1. /\ AddPosition(g, Idle, Points(g), Append(Points(g), Point(g)))
          /\ AddPosition(g, Idle, Points(g), Points(g))
      BY <2>4 DEF AddPosition
    <3> QED
      BY <1>0, <1>p, <2>1, <2>4, <3>1, ChangeFacts, LooperStep
  <2>5. CASE th[g].pc \in {"add", "first"} /\ Raced(g) /\ Fail(g)
    BY <1>f, <2>5 DEF Failing
  <2> QED
    BY <1>5, <2>2, <2>3, <2>4, <2>5 DEF Add, Thread
<1>6. CASE Trim(g)
  <2>0. th[g].pc = "trim" /\ UNCHANGED <<lists, threw>> /\ Changed(g, Points(g))
    BY <1>6 DEF Trim, Changed
  <2>1. CASE Len(Points(g)) > Cap
    <3>1. th' = [th EXCEPT ![g] = [th[g] EXCEPT !.pc = "remove"]]
      BY <1>6, <2>1 DEF Trim
    <3>2. PICK x : Thread(g, x) /\ x.pc = "remove" /\ Later(g, x, x.pc) /\ Holds(x, Len(lists))
      BY <1>0, <3>1, MoveFacts
    <3>3. AddPosition(g, x, Points(g), Points(g))
      BY <2>0, <2>1, <3>2 DEF AddPosition
    <3> QED
      BY <1>0, <1>p, <2>0, <3>2, <3>3, LooperStep
  <2>2. CASE ~(Len(Points(g)) > Cap)
    <3>1. Thread(g, Idle)
      BY <1>6, <2>2 DEF Trim, Thread
    <3>2. Len(Points(g)) <= Cap
      BY <1>p, <2>2, TripRouteAssumption
    <3>3. AddPosition(g, Idle, Points(g), Points(g))
      BY <2>0, <3>2 DEF AddPosition
    <3> QED
      BY <1>0, <1>p, <2>0, <3>1, <3>3, LooperStep
  <2> QED
    BY <2>1, <2>2
<1>7. CASE Remove(g)
  <2>1. CASE /\ th[g].pc = "remove" /\ Points(g) # <<>> /\ Change(g, Tail(Points(g)))
             /\ UNCHANGED threw /\ th' = [th EXCEPT ![g].pc = "trim"]
    <3>1. PICK x : Thread(g, x) /\ x.pc = "trim" /\ Later(g, x, x.pc) /\ Holds(x, Len(lists))
      BY <1>0, <2>1, MoveFacts
    <3>2. Tail(Points(g)) \in Seq(PointSet)
      BY <1>p, <2>1
    <3>3. CASE Changed(g, Tail(Points(g)))
      <4>1. AddPosition(g, x, Points(g), Tail(Points(g)))
        BY <2>1, <3>1 DEF AddPosition
      <4> QED
        BY <1>0, <2>1, <3>1, <3>2, <3>3, <4>1, LooperStep
    <3>4. CASE Raced(g) /\ Changed(g, Points(g))
      <4>1. AddPosition(g, x, Points(g), Points(g))
        BY <2>1, <3>1, <3>4 DEF AddPosition
      <4> QED
        BY <1>0, <1>p, <2>1, <3>1, <3>4, <4>1, LooperStep
    <3> QED
      BY <2>1, <3>3, <3>4, ChangeFacts
  <2>2. CASE th[g].pc = "remove" /\ Points(g) = <<>> /\ Fail(g)
    BY <1>f, <2>2 DEF Failing
  <2> QED
    BY <1>7, <2>1, <2>2 DEF Remove
<1> QED
  BY <1>1, <1>2, <1>3, <1>4, <1>5, <1>6, <1>7 DEF InAdd

LEMMA ReceiveObject ==
    ASSUME ObjectInv, NEW g \in Gens, NEW place \in Places, Receive(g, place)
    PROVE  /\ ObjectInv' /\ \A o \in 1..Len(tripRoute) : Pts(o)' = Pts(o) /\ Torn(o)' = Torn(o)
           /\ UNCHANGED <<mTripSummary, tripRoute, old, threw>>
<1>1. PICK x : /\ Thread(g, x) /\ x \in Busy /\ x.pc = "isEmpty" /\ x.n = pos + 1
               /\ x.obj = mTripSummary /\ x.list = 0
  BY ReceiveFacts
<1>2. mTripSummary \in 1..Len(tripRoute) /\ pos' = pos + 1
  BY ReceiveFacts
<1>3. UNCHANGED <<gen, mTripSummary, tripRoute, lists, old, threw>>
  BY DEF Receive, looperUnchanged
<1>4. ObjectInv'
  <2>1. pos' \in Nat /\ lists' \in Seq(ListSet) /\ Len(lists') = Len(lists)
    BY <1>2, <1>3 DEF ObjectInv
  <2>3. Len(lists) \in Nat
    BY DEF ObjectInv
  <2>2. x \in {Idle} \cup Busy /\ x.obj \in 1..Len(tripRoute) /\ Holds(x, Len(lists))
    BY <1>1, <1>2, <2>3 DEF Holds
  <2> QED
    BY <1>1, <1>3, <2>1, <2>2, LooperObject
<1> QED
  BY <1>3, <1>4 DEF Pts, Torn

\* What a reset does to the threads: those on the current object have met it.
LEMMA ClearThreads ==
    ASSUME ObjectInv, clearTripSummary
    PROVE  /\ th' \in [Gens -> {Idle} \cup Busy]
           /\ \A g \in Gens : /\ th'[g].pc = th[g].pc /\ (th'[g] = Idle <=> th[g] = Idle)
                              /\ th[g] # Idle /\ th[g].obj # mTripSummary => th'[g] = th[g]
                              /\ th[g] # Idle =>
                                    /\ th'[g].n = th[g].n /\ th'[g].at = th[g].at
                                    /\ th'[g].prev = th[g].prev /\ th'[g].obj = th[g].obj
                                    /\ th'[g].list = th[g].list /\ th'[g].size = th[g].size
                              /\ th[g] # Idle /\ th[g].obj = mTripSummary => th'[g].met = "yes"
<1>1. th' = [g \in Gens |-> IF th[g] # Idle /\ th[g].obj = mTripSummary
                            THEN [th[g] EXCEPT !.met = "yes"] ELSE th[g]]
  BY DEF clearTripSummary
<1>2. ASSUME NEW x \in Busy
      PROVE  /\ [x EXCEPT !.met = "yes"] \in Busy /\ [x EXCEPT !.met = "yes"].pc = x.pc
             /\ [x EXCEPT !.met = "yes"].n = x.n /\ [x EXCEPT !.met = "yes"].at = x.at
             /\ [x EXCEPT !.met = "yes"].prev = x.prev /\ [x EXCEPT !.met = "yes"].obj = x.obj
             /\ [x EXCEPT !.met = "yes"].list = x.list /\ [x EXCEPT !.met = "yes"].size = x.size
             /\ [x EXCEPT !.met = "yes"].met = "yes" /\ [x EXCEPT !.met = "yes"] # Idle
  <2>1. [x EXCEPT !.met = "yes"] \in Busy
    BY DEF Busy
  <2> QED
    BY <2>1, IdleFacts DEF Busy
<1>3. ASSUME NEW g \in Gens
      PROVE  /\ th'[g] \in {Idle} \cup Busy
             /\ th'[g].pc = th[g].pc /\ (th'[g] = Idle <=> th[g] = Idle)
             /\ th[g] # Idle /\ th[g].obj # mTripSummary => th'[g] = th[g]
             /\ th[g] # Idle =>
                   /\ th'[g].n = th[g].n /\ th'[g].at = th[g].at
                   /\ th'[g].prev = th[g].prev /\ th'[g].obj = th[g].obj
                                    /\ th'[g].list = th[g].list /\ th'[g].size = th[g].size
             /\ th[g] # Idle /\ th[g].obj = mTripSummary => th'[g].met = "yes"
  <2>1. CASE th[g] # Idle /\ th[g].obj = mTripSummary
    <3>1. th'[g] = [th[g] EXCEPT !.met = "yes"] /\ th[g] \in Busy
      BY <1>1, <2>1 DEF ObjectInv
    <3> QED
      BY <1>2, <2>1, <3>1
  <2>2. CASE ~(th[g] # Idle /\ th[g].obj = mTripSummary)
    <3>1. th'[g] = th[g]
      BY <1>1, <2>2
    <3> QED
      BY <2>2, <3>1 DEF ObjectInv
  <2> QED
    BY <2>1, <2>2
<1>4. th' \in [Gens -> {Idle} \cup Busy]
  BY <1>1, <1>3
<1> QED
  BY <1>3, <1>4

\* The points of a list that a looper has added one to, or trimmed by one.
LEMMA AppendFacts ==
    ASSUME NEW p \in Seq(PointSet), NEW pt \in PointSet
    PROVE  /\ Append(p, pt) # <<>> /\ Len(p) \in Nat /\ Len(Append(p, pt)) = Len(p) + 1
           /\ \A i \in 1..Len(p) : Append(p, pt)[i] = p[i]
           /\ Append(p, pt)[Len(p) + 1] = pt
<1>1. /\ Len(p) \in Nat /\ Len(Append(p, pt)) = Len(p) + 1
      /\ \A i \in 1..Len(p) : Append(p, pt)[i] = p[i]
      /\ Append(p, pt)[Len(p) + 1] = pt
  BY AppendProperties
<1>2. Append(p, pt) # <<>>
  BY AppendProperties
<1> QED
  BY <1>1, <1>2

LEMMA TailFacts ==
    ASSUME NEW p \in Seq(PointSet), p # <<>>
    PROVE  /\ Len(p) \in Nat \ {0} /\ Len(Tail(p)) = Len(p) - 1
           /\ \A i \in 1..(Len(p) - 1) : Tail(p)[i] = p[i + 1]
<1>1. Len(p) \in Nat \ {0}
  OBVIOUS
<1>2. Tail(p) \in Seq(PointSet) /\ Len(Tail(p)) = Len(p) - 1
  BY HeadTailProperties
<1>3. \A i \in 1..(Len(p) - 1) : Tail(p)[i] = p[i + 1]
  BY <1>1, <1>2, HeadTailProperties
<1> QED
  BY <1>1, <1>2, <1>3

LEMMA NextObject == ObjectInv /\ [Next]_vars => ObjectInv'
<1> SUFFICES ASSUME ObjectInv, [Next]_vars PROVE ObjectInv'
  OBVIOUS
<1>1. ASSUME NEW g \in Gens, NEW x \in Places, Receive(g, x) PROVE ObjectInv'
  BY <1>1, ReceiveObject
<1>2. ASSUME NEW g \in Gens, InAdd(g) PROVE ObjectInv'
  BY <1>2, LooperFrame
<1>3. CASE NewSummary /\ gen' \in {gen, gen + 1} /\ UNCHANGED <<th, pos, old, shared, threw>>
  <2>1. /\ lists' \in Seq(ListSet) /\ tripRoute' \in Seq(Nat)
        /\ \A o \in 1..Len(tripRoute') : tripRoute'[o] \in 1..Len(lists')
        /\ \A o, p \in 1..Len(tripRoute') : o # p => tripRoute'[o] # tripRoute'[p]
    BY <1>3, NewSummaryFacts
  <2>2. /\ Len(tripRoute) \in Nat /\ Len(tripRoute') = Len(tripRoute) + 1
        /\ mTripSummary' = Len(tripRoute) + 1
    BY <1>3, NewSummaryFacts
  <2>3. gen' \in Nat /\ pos' \in Nat
    BY <1>3 DEF ObjectInv
  <2>4. mTripSummary' \in 0..Len(tripRoute') /\ mTripSummary' # 0
    BY <2>2
  <2>5. \A g \in Gens : th'[g] # Idle =>
                           th'[g].obj \in 1..Len(tripRoute') /\ Holds(th'[g], Len(lists'))
    <3>0. lists \in Seq(ListSet)
      BY DEF ObjectInv
    <3>1. Len(lists) \in Nat /\ Len(lists') = Len(lists) + 1
      BY <1>3, <3>0, NewSummaryFacts
    <3> QED
      BY <1>3, <2>2, <3>1 DEF ObjectInv, Holds
  <2>6. th' \in [Gens -> {Idle} \cup Busy]
    BY <1>3 DEF ObjectInv
  <2> QED
    BY <2>1, <2>3, <2>4, <2>5, <2>6 DEF ObjectInv
<1>4. CASE clearTripSummary
  <2>1. UNCHANGED <<gen, mTripSummary, pos>>
    BY <1>4 DEF clearTripSummary
  <2>2. \A g \in Gens : th'[g] # Idle =>
                           th'[g].obj \in 1..Len(tripRoute) /\ Holds(th'[g], Len(lists'))
    <3>0. lists \in Seq(ListSet)
      BY DEF ObjectInv
    <3>1. Len(lists) \in Nat /\ Len(lists') = Len(lists) + 1
      BY <1>4, <3>0, ClearFacts
    <3>2. ASSUME NEW g \in Gens, th'[g] # Idle
          PROVE  /\ th[g] # Idle /\ th'[g].pc = th[g].pc /\ th'[g].obj = th[g].obj
                 /\ th'[g].list = th[g].list
      BY <1>4, <3>2, ClearThreads
    <3>3. \A g \in Gens : th[g] # Idle => th[g].obj \in 1..Len(tripRoute) /\ Holds(th[g], Len(lists))
      BY DEF ObjectInv
    <3> QED
      BY <3>1, <3>2, <3>3 DEF Holds
  <2>3. /\ lists' \in Seq(ListSet) /\ tripRoute' \in Seq(Nat) /\ Len(tripRoute') = Len(tripRoute)
        /\ \A o \in 1..Len(tripRoute') : tripRoute'[o] \in 1..Len(lists')
        /\ \A o, p \in 1..Len(tripRoute') : o # p => tripRoute'[o] # tripRoute'[p]
    BY <1>4, ClearFacts
  <2> QED
    BY <1>4, <2>1, <2>2, <2>3, ClearThreads DEF ObjectInv
<1>5. CASE MainUnchanged
  BY <1>5 DEF MainUnchanged, ObjectInv
<1> QED
  BY <1>1, <1>2, <1>3, <1>4, <1>5, MainFrame

-----------------------------------------------------------------------------
(* The reset.                                                              *)

Fresh(p) == \A i \in 1..Len(p) : p[i].n \notin old

\* Neither the route nor a looper at work, on whatever object, has a forgotten location:
\* a new location is later than all of them.
ForgetInv ==
    /\ old \subseteq 1..pos
    /\ \A g \in Gens : th[g].pc # "idle" => th[g].n \notin old
    /\ mTripSummary # 0 => Fresh(Pts(mTripSummary))

LEMMA InitForget == Init => ForgetInv
BY DEF Init, ForgetInv, Idle

\* ForgetInv holds again when the points of the object that is current then are fresh.
LEMMA ForgetAgain ==
    ASSUME old' \subseteq 1..pos', \A g \in Gens : th'[g].pc # "idle" => th'[g].n \notin old',
           mTripSummary' # 0 => \A o \in {mTripSummary'} : \A p \in {Pts(o)'} :
                                   \A i \in 1..Len(p) : p[i].n \notin old'
    PROVE  ForgetInv'
BY DEF ForgetInv, Fresh, Pts

LEMMA NextForget == ObjectInv /\ ForgetInv /\ [Next]_vars => ForgetInv'
<1> SUFFICES ASSUME ObjectInv, ForgetInv, [Next]_vars PROVE ForgetInv'
  OBVIOUS
<1>0. mTripSummary \in 0..Len(tripRoute) /\ Len(tripRoute) \in Nat
  BY DEF ObjectInv
<1>1. ASSUME NEW g \in Gens, NEW place \in Places, Receive(g, place) PROVE ForgetInv'
  <2>1. /\ \A o \in 1..Len(tripRoute) : Pts(o)' = Pts(o)
        /\ UNCHANGED <<mTripSummary, tripRoute, old>> /\ pos' = pos + 1
    BY <1>1, ReceiveObject, ReceiveFacts
  <2>2. PICK x : Thread(g, x) /\ x \in Busy /\ x.n = pos + 1
    BY <1>1, ReceiveFacts
  <2>3. th'[g] = x /\ \A k \in Gens : k # g => th'[k] = th[k]
    BY <2>2, ThreadFacts
  <2>4. pos + 1 \notin old /\ old' \subseteq 1..pos'
    BY <2>1 DEF ForgetInv, ObjectInv
  <2>5. \A k \in Gens : th'[k].pc # "idle" => th'[k].n \notin old'
    BY <2>1, <2>2, <2>3, <2>4 DEF ForgetInv
  <2>6. mTripSummary' # 0 => \A o \in {mTripSummary'} : \A p \in {Pts(o)'} :
                                \A i \in 1..Len(p) : p[i].n \notin old'
    BY <1>0, <2>1 DEF ForgetInv, Fresh
  <2> QED
    BY <2>4, <2>5, <2>6, ForgetAgain
<1>2. ASSUME NEW g \in Gens, InAdd(g) PROVE ForgetInv'
  <2>1. PICK x, p, q : Looper(g, x, p, q)
    BY <1>2, LooperFrame
  <2>2. UNCHANGED <<mTripSummary, pos, old>>
    BY <2>1 DEF Looper
  <2>3. th[g].n \notin old
    BY <2>1, IdleFacts DEF Looper, ForgetInv
  <2>4. \A k \in Gens : th'[k].pc # "idle" => th'[k].n \notin old'
    BY <2>1, <2>2, <2>3, IdleFacts DEF Looper, ForgetInv
  <2>5. Fresh(p) => Fresh(q)
    <3>0. p \in Seq(PointSet) /\ Point(g) \in PointSet /\ Point(g).n = th[g].n
      BY <2>1 DEF Looper
    <3>1. Fresh(p) => Fresh(Append(p, Point(g)))
      BY <2>3, <3>0, AppendFacts DEF Fresh
    <3>2. Fresh(p) /\ p # <<>> => Fresh(Tail(p))
      BY <3>0, TailFacts DEF Fresh
    <3> QED
      BY <2>1, <3>1, <3>2 DEF Looper, AddPosition
  <2>6. mTripSummary' # 0 => \A o \in {mTripSummary'} : \A r \in {Pts(o)'} :
                                \A i \in 1..Len(r) : r[i].n \notin old'
    <3>1. mTripSummary # 0 => \A o \in {mTripSummary} : \A r \in {Pts(o)'} : Fresh(r)
      BY <1>0, <2>1, <2>5 DEF Looper, ForgetInv
    <3> QED
      BY <2>2, <3>1 DEF Fresh
  <2> QED
    BY <2>2, <2>4, <2>6, ForgetAgain DEF ForgetInv
<1>3. CASE NewSummary /\ gen' \in {gen, gen + 1} /\ UNCHANGED <<th, pos, old, shared, threw>>
  <2>1. \A o \in {mTripSummary'} : Pts(o)' = <<>>
    BY <1>3, NewSummaryFacts
  <2> QED
    BY <1>3, <2>1, ForgetAgain DEF ForgetInv
<1>4. CASE clearTripSummary
  <2>1. /\ \A o \in 1..Len(tripRoute) : Pts(o)' = IF o = mTripSummary THEN <<>> ELSE Pts(o)
        /\ UNCHANGED <<mTripSummary, pos>>
        /\ old' = (1..pos) \ {th[g].n : g \in {h \in Gens : th[h] # Idle}}
    BY <1>4, ClearFacts DEF clearTripSummary
  <2>2. \A g \in Gens : th'[g].pc # "idle" => th'[g].n \notin old'
    BY <1>4, <2>1, ClearThreads, IdleFacts
  <2>3. mTripSummary' # 0 => \A o \in {mTripSummary'} : Pts(o)' = <<>>
    BY <1>0, <2>1
  <2> QED
    BY <2>1, <2>2, <2>3, ForgetAgain
<1>5. CASE MainUnchanged
  BY <1>5 DEF MainUnchanged, ForgetInv, Fresh, Pts
<1> QED
  BY <1>1, <1>2, <1>3, <1>4, <1>5, MainFrame

\* After EventHandler.clearTripSummary the current route has no location that was dealt
\* with before, also when the loopers of older services still work, and over new services.
THEOREM ForgottenByReset == Spec => []ResetForgets
<1>1. ObjectInv /\ ForgetInv => ResetForgets
  <2> SUFFICES ASSUME ObjectInv, ForgetInv, mTripSummary # 0,
                      NEW i \in DOMAIN lists[tripRoute[mTripSummary]].pts
               PROVE  lists[tripRoute[mTripSummary]].pts[i].n \notin old
    BY DEF ResetForgets
  <2>1. lists[tripRoute[mTripSummary]] \in ListSet
    BY DEF ObjectInv
  <2>2. DOMAIN lists[tripRoute[mTripSummary]].pts = 1..Len(lists[tripRoute[mTripSummary]].pts)
    BY <2>1 DEF ListSet
  <2> QED
    BY <2>2 DEF ForgetInv, Fresh, Pts
<1> QED
  BY InitObject, NextObject, InitForget, NextForget, <1>1, PTL DEF Spec

-----------------------------------------------------------------------------
(* The map.                                                                *)

\* OsmdroidUtils knows every overlay of the route that is on the map, and a drawing
\* under way is the only one that has overlays there.
MapInv ==
    /\ overlays \subseteq mDrawn
    /\ ui.pc \in {"start", "end", "points"} => \A a \in overlays : a[2] = draws
    /\ OneRouteOnMap

LEMMA InitMap == Init => MapInv
BY DEF Init, MapInv, OneRouteOnMap

LEMMA DrawFacts ==
    ASSUME MapInv, ui.pc \in {"start", "end", "points"}, NEW kind, Draw(kind), UNCHANGED draws
    PROVE  MapInv'
<1>0. PICK o : o = <<kind, draws>>
  OBVIOUS
<1>1. o = <<kind, draws>> /\ o[2] = draws
  BY <1>0
<1>2. overlays' = overlays \cup {o} /\ mDrawn' = mDrawn \cup {o}
  BY <1>1 DEF Draw
<1>3. \A a \in overlays' : a[2] = draws
  BY <1>1, <1>2 DEF MapInv
<1>4. overlays' \subseteq mDrawn'
  BY <1>2 DEF MapInv
<1> QED
  BY <1>3, <1>4 DEF MapInv, OneRouteOnMap

LEMMA NextMap == MapInv /\ [Next]_vars => MapInv'
<1> SUFFICES ASSUME MapInv, [Next]_vars PROVE MapInv'
  OBVIOUS
<1>1. CASE UNCHANGED <<overlays, mDrawn, draws, ui>>
  BY <1>1 DEF MapInv, OneRouteOnMap
<1>2. CASE UNCHANGED <<overlays, mDrawn, draws>> /\ ui'.pc \in {"idle", "populate"}
  BY <1>2 DEF MapInv, OneRouteOnMap
<1>3. CASE overlays' = {}
  BY <1>3 DEF MapInv, OneRouteOnMap
<1>4. ASSUME NEW g \in Gens, NEW x \in Places, Receive(g, x)
      PROVE  UNCHANGED <<overlays, mDrawn, draws, ui>>
  BY <1>4 DEF Receive, looperUnchanged
<1>5. ASSUME NEW g \in Gens, InAdd(g)
      PROVE  UNCHANGED <<overlays, mDrawn, draws, ui>>
  BY <1>5 DEF InAdd, IsEmpty, List, Size, Get, Add, Trim, Remove, looperUnchanged
<1>6. newEventHandler \/ UNCHANGED vars => UNCHANGED <<overlays, mDrawn, draws, ui>>
  BY DEF newEventHandler, vars
<1>7. clearTripSummary \/ refresh =>
         UNCHANGED <<overlays, mDrawn, draws>> /\ ui'.pc \in {"idle", "populate"}
  BY DEF clearTripSummary, refresh
<1>8. newScreen \/ drawRoute => overlays' = {}
  BY DEF newScreen, drawRoute, clearRoute, MapInv
<1>9. drawStart => MapInv'
  <2>1. drawStart => \/ Draw("start") /\ UNCHANGED draws /\ ui.pc = "start"
                     \/ UNCHANGED <<overlays, mDrawn, draws>> /\ ui'.pc \in {"idle", "populate"}
    BY DEF drawStart, Idle
  <2> QED
    BY <1>2, <2>1, DrawFacts
<1>10. drawEnd => MapInv'
  <2>1. drawEnd => \/ Draw("end") /\ UNCHANGED draws /\ ui.pc = "end"
                   \/ UNCHANGED <<overlays, mDrawn, draws>> /\ ui'.pc \in {"idle", "populate"}
    BY DEF drawEnd, Idle
  <2> QED
    BY <1>2, <2>1, DrawFacts
<1>11. drawPolyline => MapInv'
  <2>1. drawPolyline =>
           \/ Draw("route") /\ UNCHANGED draws /\ ui.pc = "points"
           \/ UNCHANGED <<overlays, mDrawn, draws>> /\ ui'.pc \in {"idle", "populate"}
    BY DEF drawPolyline, Idle
  <2> QED
    BY <1>2, <2>1, DrawFacts
<1> QED
  BY <1>1, <1>2, <1>3, <1>4, <1>5, <1>6, <1>7, <1>8, <1>9, <1>10, <1>11 DEF Next, InAdd

\* The map never shows parts of two drawings of OsmdroidUtils.drawRoute, wherever an
\* exception breaks one off and over new screens with an empty map.
THEOREM OneDrawing == Spec => []OneRouteOnMap
<1>1. MapInv => OneRouteOnMap
  BY DEF MapInv
<1> QED
  BY InitMap, NextMap, <1>1, PTL DEF Spec

-----------------------------------------------------------------------------
(* The points of a route.                                                  *)

Apart(p) == \A i \in 1..(Len(p) - 1) : Far(p[i].at, p[i + 1].at)

\* No more than Cap points but for one that a looper of the object is about to trim.
Sized(p, t, o) ==
    \/ Len(p) <= Cap
    \/ Len(p) = Cap + 1 /\ \E g \in Gens : t[g].pc \in {"trim", "remove"} /\ t[g].obj = o

\* What a looper has read of the points p of list l still holds at its next use of them,
\* unless a reset came between: then the list is empty.
HasRead(t, p, l) ==
    /\ t.pc = "first" => p = <<>>
    /\ t.pc = "size" => p = <<>> \/ t.list = l
    /\ t.pc = "get" => p = <<>> \/ (t.list = l /\ t.size = Len(p))
    /\ t.pc = "add" => p = <<>> \/ p[Len(p)].at = t.prev
    /\ t.pc = "remove" => p = <<>> \/ Len(p) > Cap

WellInv ==
    /\ \A g, h \in Gens : g # h /\ th[g].pc # "idle" /\ th[h].pc # "idle" /\ th[g].obj = th[h].obj
                           => th[g].obj \in shared
    /\ \A o \in 1..Len(tripRoute) : o \notin shared => Apart(Pts(o)) /\ Sized(Pts(o), th, o)
    /\ \A g \in Gens : th[g].pc # "idle" /\ th[g].obj \notin shared
                       => HasRead(th[g], Pts(th[g].obj), tripRoute[th[g].obj])

\* Far as a difference.
LEMMA FarFacts ==
    ASSUME NEW a \in Nat, NEW b \in Nat, MinDist \in Nat, Far(a, b)
    PROVE  b - a \notin (-MinDist)..MinDist
BY DEF Far

LEMMA InitWell == Init => WellInv
<1> SUFFICES ASSUME Init PROVE WellInv
  OBVIOUS
<1>1. Len(tripRoute) = 0 /\ \A g \in Gens : th[g].pc = "idle"
  BY DEF Init, Idle
<1> QED
  BY <1>1 DEF WellInv

LEMMA WellAgain ==
    ASSUME \A g, h \in Gens : /\ g # h /\ th'[g].pc # "idle" /\ th'[h].pc # "idle"
                              /\ th'[g].obj = th'[h].obj
                              => th'[g].obj \in shared',
           \A o \in 1..Len(tripRoute') : o \notin shared' =>
              \A p \in {Pts(o)'} : Apart(p) /\ Sized(p, th', o),
           \A g \in Gens : th'[g].pc # "idle" /\ th'[g].obj \notin shared' =>
              \A o \in {th'[g].obj} : \A p \in {Pts(o)'} : HasRead(th'[g], p, tripRoute'[o])
    PROVE  WellInv'
BY DEF WellInv, Pts

\* A step of looper g on its object, when no other looper works on that.
LEMMA LooperWell ==
    ASSUME ObjectInv, WellInv, NEW g \in Gens, NEW x, NEW p, NEW q, Looper(g, x, p, q),
           NEW o, o = th[g].obj, o \notin shared
    PROVE  Apart(q) /\ Sized(q, th', o) /\ (x # Idle => HasRead(x, q, tripRoute[o]))
<1>0. /\ o \in 1..Len(tripRoute) /\ p = Pts(o) /\ p \in Seq(PointSet)
      /\ Point(g) \in PointSet /\ Point(g).at = th[g].at /\ th[g] \in Busy /\ th'[g] = x
      /\ x # Idle => x.obj = o
  BY DEF Looper
<1>1. Apart(p) /\ Sized(p, th, o) /\ HasRead(th[g], p, tripRoute[o]) /\ th[g].pc # "idle"
  BY <1>0, IdleFacts DEF WellInv
<1>2. \A h \in Gens : th[h].pc \in {"trim", "remove"} /\ th[h].obj = o => h = g
  BY <1>1 DEF WellInv
<1>r. ~Raced(g)
  BY <1>1, IdleFacts DEF Raced, WellInv, ObjectInv
<1>3. /\ Len(p) \in Nat /\ Cap \in Nat \ {0} /\ MinDist \in Nat
      /\ th[g].pc \notin {"trim", "remove"} => Len(p) <= Cap
      /\ Len(p) > Cap => Len(p) = Cap + 1
  BY <1>0, <1>1, <1>2, TripRouteAssumption DEF Sized
<1>4. CASE q = p /\ Len(p) <= Cap
  <2>1. Apart(q) /\ Sized(q, th', o)
    BY <1>1, <1>4 DEF Sized
  <2>2. x # Idle => HasRead(x, q, tripRoute[o])
    <3>0. AddPosition(g, x, p, p) /\ Idle.pc = "idle" /\ Route(g) = tripRoute[o]
      BY <1>4, IdleFacts DEF Looper, Route
    <3>1. x.pc = "first" => p = <<>>
      BY <3>0 DEF AddPosition
    <3>2. x.pc = "size" => x.list = tripRoute[o]
      BY <3>0 DEF AddPosition
    <3>3. x.pc = "get" => p = <<>> \/ (x.list = tripRoute[o] /\ x.size = Len(p))
      BY <1>1, <3>0 DEF AddPosition, HasRead
    <3>4. x.pc = "add" => p = <<>> \/ p[Len(p)].at = x.prev
      <4>1. x.pc = "add" => /\ th[g].pc = "get"
                            /\ x.prev = lists[th[g].list].pts[th[g].size].at
        BY <3>0 DEF AddPosition
      <4>2. th[g].pc = "get" => p = <<>> \/ (th[g].list = tripRoute[o] /\ th[g].size = Len(p))
        BY <1>1 DEF HasRead
      <4>3. lists[tripRoute[o]].pts = p
        BY <1>0 DEF Pts
      <4> QED
        BY <4>1, <4>2, <4>3
    <3>5. x.pc = "remove" => Len(p) > Cap
      BY <3>0 DEF AddPosition
    <3> QED
      BY <1>4, <3>1, <3>2, <3>3, <3>4, <3>5 DEF HasRead
  <2> QED
    BY <2>1, <2>2
<1>5. CASE th[g].pc = "add" /\ Far(th[g].prev, th[g].at) /\ q = Append(p, Point(g)) /\ x.pc = "trim"
  <2>1. /\ Len(q) = Len(p) + 1 /\ \A i \in 1..Len(p) : q[i] = p[i]
        /\ q[Len(p) + 1] = Point(g)
    BY <1>0, <1>5, AppendFacts
  <2>2. ASSUME NEW i \in 1..(Len(q) - 1) PROVE Far(q[i].at, q[i + 1].at)
    <3>1. CASE i = Len(p)
      <4>1. p # <<>>
        BY <2>2, <3>1, <1>0
      <4>2. q[i] = p[Len(p)] /\ p[Len(p)].at = th[g].prev /\ q[i + 1] = Point(g)
        BY <1>1, <1>3, <1>5, <2>1, <2>2, <3>1, <4>1 DEF HasRead
      <4> QED
        BY <1>0, <1>5, <4>2
    <3>2. CASE i # Len(p)
      <4>1. i \in 1..(Len(p) - 1) /\ i \in 1..Len(p) /\ i + 1 \in 1..Len(p)
        BY <1>3, <2>1, <2>2, <3>2
      <4> QED
        BY <1>1, <2>1, <4>1 DEF Apart
    <3> QED
      BY <3>1, <3>2
  <2>3. Sized(q, th', o)
    <3>1. th'[g].pc = "trim" /\ th'[g].obj = o
      BY <1>0, <1>5, IdleFacts
    <3>2. Len(q) <= Cap \/ Len(q) = Cap + 1
      BY <1>3, <1>5, <2>1
    <3> QED
      BY <3>1, <3>2 DEF Sized
  <2> QED
    BY <1>5, <2>2, <2>3 DEF Apart, HasRead
<1>6. CASE th[g].pc = "first" /\ q = Append(p, Point(g)) /\ x = Idle
  <2>1. Len(q) = 1
    BY <1>0, <1>1, <1>6, AppendFacts DEF HasRead
  <2> QED
    BY <1>3, <1>6, <2>1 DEF Apart, Sized
<1>9. CASE th[g].pc = "trim" /\ Len(p) > Cap /\ q = p /\ x.pc = "remove"
  <2>1. th'[g].pc = "remove" /\ th'[g].obj = o
    BY <1>0, <1>9, IdleFacts
  <2>2. Sized(q, th', o)
    BY <1>3, <1>9, <2>1 DEF Sized
  <2> QED
    BY <1>1, <1>9, <2>2 DEF HasRead
<1>7. CASE th[g].pc = "remove" /\ p # <<>> /\ q = Tail(p) /\ x.pc = "trim"
  <2>1. Len(q) = Len(p) - 1 /\ \A i \in 1..(Len(p) - 1) : q[i] = p[i + 1]
    BY <1>0, <1>7, TailFacts
  <2>2. ASSUME NEW i \in 1..(Len(q) - 1) PROVE Far(q[i].at, q[i + 1].at)
    <3>1. i \in 1..(Len(p) - 1) /\ i + 1 \in 1..(Len(p) - 1)
      BY <1>3, <2>1, <2>2
    <3>2. q[i] = p[i + 1] /\ q[i + 1] = p[(i + 1) + 1]
      BY <2>1, <3>1
    <3> QED
      BY <1>1, <3>1, <3>2 DEF Apart
  <2>3. Len(q) <= Cap
    <3>1. Len(p) = Cap + 1
      BY <1>1, <1>3, <1>7 DEF HasRead
    <3> QED
      BY <1>3, <2>1, <3>1
  <2> QED
    BY <1>7, <2>2, <2>3 DEF Apart, Sized, HasRead
<1>8. \/ q = p /\ Len(p) <= Cap
      \/ th[g].pc = "add" /\ Far(th[g].prev, th[g].at) /\ q = Append(p, Point(g)) /\ x.pc = "trim"
      \/ th[g].pc = "first" /\ q = Append(p, Point(g)) /\ x = Idle
      \/ th[g].pc = "trim" /\ Len(p) > Cap /\ q = p /\ x.pc = "remove"
      \/ th[g].pc = "remove" /\ p # <<>> /\ q = Tail(p) /\ x.pc = "trim"
  <2>1. AddPosition(g, x, p, q)
    BY DEF Looper
  <2>2. p = <<>> => Len(p) <= Cap
    BY <1>3
  <2> QED
    BY <1>3, <1>r, <2>1, <2>2 DEF AddPosition
<1> QED
  BY <1>4, <1>5, <1>6, <1>7, <1>8, <1>9

LEMMA NextWell == ObjectInv /\ WellInv /\ [Next]_vars => WellInv'
<1> SUFFICES ASSUME ObjectInv, WellInv, [Next]_vars PROVE WellInv'
  OBVIOUS
<1>0. \A g \in Gens : /\ th[g].pc = "idle" <=> th[g] = Idle
                      /\ th[g].pc # "idle" => th[g].obj \in 1..Len(tripRoute)
  BY BusyFacts, IdleFacts DEF ObjectInv
<1>1. ASSUME NEW g \in Gens, NEW place \in Places, Receive(g, place) PROVE WellInv'
  <2>1. /\ \A o \in 1..Len(tripRoute) : Pts(o)' = Pts(o)
        /\ UNCHANGED <<mTripSummary, tripRoute>> /\ th[g] = Idle
        /\ mTripSummary \in 1..Len(tripRoute)
    BY <1>1, ReceiveObject, ReceiveFacts
  <2>2. PICK x : Thread(g, x) /\ x \in Busy /\ x.pc = "isEmpty" /\ x.obj = mTripSummary
    BY <1>1, ReceiveFacts
  <2>3. th'[g] = x /\ \A k \in Gens : k # g => th'[k] = th[k]
    BY <2>2, ThreadFacts
  <2>4. /\ shared \subseteq shared'
        /\ \A h \in Gens : h # g /\ th[h].pc # "idle" /\ th[h].obj = mTripSummary
                           => mTripSummary \in shared'
    <3>1. shared' = IF \E h \in Gens \ {g} : th[h] # Idle /\ th[h].obj = mTripSummary
                    THEN shared \cup {mTripSummary} ELSE shared
      BY <1>1 DEF Receive
    <3> QED
      BY <1>0, <3>1
  <2>5. ASSUME NEW k \in Gens, NEW h \in Gens, k # h, th'[k].pc # "idle", th'[h].pc # "idle",
               th'[k].obj = th'[h].obj
        PROVE  th'[k].obj \in shared'
    <3>1. CASE k = g
      BY <2>2, <2>3, <2>4, <2>5, <3>1
    <3>2. CASE h = g
      BY <2>2, <2>3, <2>4, <2>5, <3>2
    <3>3. CASE k # g /\ h # g
      BY <2>3, <2>4, <2>5, <3>3 DEF WellInv
    <3> QED
      BY <3>1, <3>2, <3>3
  <2>6. ASSUME NEW o \in 1..Len(tripRoute'), o \notin shared', NEW p, p = Pts(o)'
        PROVE  Apart(p) /\ Sized(p, th', o)
    <3>1. p = Pts(o) /\ Apart(p) /\ Sized(p, th, o)
      BY <2>1, <2>4, <2>6 DEF WellInv
    <3>2. \A k \in Gens : th[k].pc \in {"trim", "remove"} => th'[k] = th[k]
      BY <2>1, <2>3, IdleFacts
    <3> QED
      BY <3>1, <3>2 DEF Sized
  <2>7. ASSUME NEW k \in Gens, th'[k].pc # "idle", th'[k].obj \notin shared',
               NEW o, o = th'[k].obj, NEW p, p = Pts(o)'
        PROVE  HasRead(th'[k], p, tripRoute'[o])
    <3>1. CASE k = g
      BY <2>2, <2>3, <3>1 DEF HasRead
    <3>2. CASE k # g
      <4>1. th'[k] = th[k] /\ o \in 1..Len(tripRoute) /\ p = Pts(o)
        BY <1>0, <2>1, <2>3, <2>7, <3>2
      <4> QED
        BY <2>1, <2>4, <2>7, <4>1 DEF WellInv
    <3> QED
      BY <3>1, <3>2
  <2> QED
    BY <2>5, <2>6, <2>7, WellAgain
<1>2. ASSUME NEW g \in Gens, InAdd(g) PROVE WellInv'
  <2>1. PICK x, r, q : Looper(g, x, r, q)
    BY <1>2, LooperFrame
  <2>2. /\ UNCHANGED <<shared, tripRoute>> /\ th'[g] = x
        /\ \A k \in Gens : k # g => th'[k] = th[k]
        /\ \A o \in 1..Len(tripRoute) : Pts(o)' = IF o = th[g].obj THEN q ELSE Pts(o)
        /\ th[g].pc # "idle" /\ (x.pc # "idle" => x # Idle /\ x.obj = th[g].obj)
    BY <2>1, IdleFacts DEF Looper
  <2>3. \A o : o = th[g].obj /\ o \notin shared =>
                  Apart(q) /\ Sized(q, th', o) /\ (x # Idle => HasRead(x, q, tripRoute[o]))
    BY <2>1, LooperWell
  <2>5. ASSUME NEW k \in Gens, NEW h \in Gens, k # h, th'[k].pc # "idle", th'[h].pc # "idle",
               th'[k].obj = th'[h].obj
        PROVE  th'[k].obj \in shared'
    <3>1. \A m \in {k, h} : th[m].pc # "idle" /\ th[m].obj = th'[m].obj
      BY <2>2, <2>5
    <3> QED
      BY <2>2, <2>5, <3>1 DEF WellInv
  <2>6. ASSUME NEW o \in 1..Len(tripRoute'), o \notin shared', NEW p, p = Pts(o)'
        PROVE  Apart(p) /\ Sized(p, th', o)
    <3>1. CASE o = th[g].obj
      BY <2>2, <2>3, <2>6, <3>1
    <3>2. CASE o # th[g].obj
      <4>1. p = Pts(o) /\ Apart(p) /\ Sized(p, th, o)
        BY <2>2, <2>6, <3>2 DEF WellInv
      <4>2. \A k \in Gens : th[k].pc \in {"trim", "remove"} /\ th[k].obj = o => th'[k] = th[k]
        BY <2>2, <3>2
      <4> QED
        BY <4>1, <4>2 DEF Sized
    <3> QED
      BY <3>1, <3>2
  <2>7. ASSUME NEW k \in Gens, th'[k].pc # "idle", th'[k].obj \notin shared',
               NEW o, o = th'[k].obj, NEW p, p = Pts(o)'
        PROVE  HasRead(th'[k], p, tripRoute'[o])
    <3>1. CASE k = g
      <4>1. o = th[g].obj /\ th'[k] = x /\ x # Idle /\ p = q /\ o \notin shared
        BY <1>0, <2>2, <2>7, <3>1
      <4> QED
        BY <2>2, <2>3, <4>1
    <3>2. CASE k # g
      <4>1. th'[k] = th[k] /\ o \in 1..Len(tripRoute) /\ o # th[g].obj
        BY <1>0, <2>2, <2>7, <3>2 DEF WellInv
      <4>2. p = Pts(o)
        BY <2>2, <2>7, <4>1
      <4> QED
        BY <2>2, <2>7, <4>1, <4>2 DEF WellInv
    <3> QED
      BY <3>1, <3>2
  <2> QED
    BY <2>5, <2>6, <2>7, WellAgain
<1>3. CASE NewSummary /\ gen' \in {gen, gen + 1} /\ UNCHANGED <<th, pos, old, shared, threw>>
  <2>1. /\ \A o \in 1..Len(tripRoute) : Pts(o)' = Pts(o)
        /\ \A o \in {mTripSummary'} : Pts(o)' = <<>>
        /\ Len(tripRoute') = Len(tripRoute) + 1 /\ mTripSummary' = Len(tripRoute) + 1
        /\ Len(tripRoute) \in Nat
    BY <1>3, NewSummaryFacts
  <2>6. ASSUME NEW o \in 1..Len(tripRoute'), o \notin shared', NEW p, p = Pts(o)'
        PROVE  Apart(p) /\ Sized(p, th', o)
    <3>1. CASE o \in 1..Len(tripRoute)
      BY <1>3, <2>1, <2>6, <3>1 DEF WellInv
    <3>2. CASE o = mTripSummary'
      <4>1. Len(p) = 0
        BY <2>1, <2>6, <3>2
      <4> QED
        BY <4>1, TripRouteAssumption DEF Apart, Sized
    <3> QED
      BY <2>1, <2>6, <3>1, <3>2
  <2>7. ASSUME NEW k \in Gens, th'[k].pc # "idle", th'[k].obj \notin shared',
               NEW o, o = th'[k].obj, NEW p, p = Pts(o)'
        PROVE  HasRead(th'[k], p, tripRoute'[o])
    <3>1. th'[k] = th[k] /\ o \in 1..Len(tripRoute) /\ p = Pts(o) /\ tripRoute'[o] = tripRoute[o]
      <4>1. th'[k] = th[k] /\ o \in 1..Len(tripRoute) /\ p = Pts(o)
        BY <1>0, <1>3, <2>1, <2>7
      <4> QED
        BY <1>3, <4>1 DEF NewSummary, ObjectInv
    <3> QED
      BY <1>3, <2>7, <3>1 DEF WellInv
  <2> QED
    BY <1>3, <2>6, <2>7, WellAgain DEF WellInv
<1>4. CASE clearTripSummary
  <2>1. /\ \A o \in 1..Len(tripRoute) : Pts(o)' = IF o = mTripSummary THEN <<>> ELSE Pts(o)
        /\ UNCHANGED shared /\ Len(tripRoute') = Len(tripRoute)
    BY <1>4, ClearFacts DEF clearTripSummary
  <2>2. \A g \in Gens : /\ th'[g].pc = th[g].pc
                        /\ th[g].pc # "idle" => /\ th'[g].obj = th[g].obj
                                                /\ th'[g].prev = th[g].prev
                                                /\ th'[g].list = th[g].list
                                                /\ th'[g].size = th[g].size
    BY <1>0, <1>4, ClearThreads
  <2>5. ASSUME NEW k \in Gens, NEW h \in Gens, k # h, th'[k].pc # "idle", th'[h].pc # "idle",
               th'[k].obj = th'[h].obj
        PROVE  th'[k].obj \in shared'
    BY <2>1, <2>2, <2>5 DEF WellInv
  <2>6. ASSUME NEW o \in 1..Len(tripRoute'), o \notin shared', NEW p, p = Pts(o)'
        PROVE  Apart(p) /\ Sized(p, th', o)
    <3>1. CASE o = mTripSummary
      <4>1. Len(p) = 0
        BY <2>1, <2>6, <3>1
      <4> QED
        BY <4>1, TripRouteAssumption DEF Apart, Sized
    <3>2. CASE o # mTripSummary
      <4>1. p = Pts(o) /\ Apart(p) /\ Sized(p, th, o)
        BY <2>1, <2>6, <3>2 DEF WellInv
      <4>2. \A k \in Gens : th[k].pc \in {"trim", "remove"} =>
                              th'[k].pc \in {"trim", "remove"} /\ th'[k].obj = th[k].obj
        BY <2>2
      <4> QED
        BY <4>1, <4>2 DEF Sized
    <3> QED
      BY <3>1, <3>2
  <2>7. ASSUME NEW k \in Gens, th'[k].pc # "idle", th'[k].obj \notin shared',
               NEW o, o = th'[k].obj, NEW p, p = Pts(o)'
        PROVE  HasRead(th'[k], p, tripRoute'[o])
    <3>1. /\ o = th[k].obj /\ o \in 1..Len(tripRoute) /\ o \notin shared
          /\ HasRead(th[k], Pts(o), tripRoute[o])
          /\ p = <<>> \/ (p = Pts(o) /\ tripRoute'[o] = tripRoute[o])
      <4>1. o = th[k].obj /\ o \in 1..Len(tripRoute) /\ o \notin shared
            /\ HasRead(th[k], Pts(o), tripRoute[o])
        BY <1>0, <2>1, <2>2, <2>7 DEF WellInv
      <4> QED
        BY <1>4, <2>1, <2>7, <4>1, ClearFacts
    <3> QED
      BY <2>2, <2>7, <3>1 DEF HasRead
  <2> QED
    BY <2>5, <2>6, <2>7, WellAgain
<1>5. CASE MainUnchanged
  BY <1>5 DEF MainUnchanged, WellInv, Pts
<1> QED
  BY <1>1, <1>2, <1>3, <1>4, <1>5, MainFrame

\* The route of TripSummary.addPosition, for every distance and limit: consecutive points
\* are more than MinDist apart and there are at most Cap of them, whenever the reset button
\* is pressed, unless the loopers of two services worked on the object at once.
THEOREM WellFormedRoute == Spec => []RouteWellFormed
<1>1. ASSUME ObjectInv, WellInv PROVE RouteWellFormed
  <2> SUFFICES ASSUME NEW o \in DOMAIN tripRoute \ shared, NEW p, p = lists[tripRoute[o]].pts
               PROVE  /\ \A i \in 1..(Len(p) - 1) : p[i + 1].at - p[i].at \notin (-MinDist)..MinDist
                      /\ Len(p) <= Cap \/ \E g \in Gens : /\ th[g].pc \in {"trim", "remove"}
                                                          /\ Len(p) = Cap + 1
    BY DEF RouteWellFormed
  <2>1. o \in 1..Len(tripRoute) /\ o \notin shared /\ p = Pts(o)
    BY <1>1 DEF ObjectInv, Pts
  <2>2. lists[tripRoute[o]] \in ListSet
    BY <1>1, <2>1 DEF ObjectInv
  <2>3. p \in Seq(PointSet)
    BY <2>2 DEF ListSet
  <2>4. Apart(p) /\ Sized(p, th, o)
    BY <1>1, <2>1 DEF WellInv
  <2>5. ASSUME NEW i \in 1..(Len(p) - 1)
        PROVE  p[i + 1].at - p[i].at \notin (-MinDist)..MinDist
    <3>1. p[i] \in PointSet /\ p[i + 1] \in PointSet
      BY <2>3
    <3>2. p[i].at \in Nat /\ p[i + 1].at \in Nat /\ MinDist \in Nat
      BY <3>1, TripRouteAssumption DEF PointSet
    <3>3. Far(p[i].at, p[i + 1].at)
      BY <2>4 DEF Apart
    <3> QED
      BY <3>2, <3>3, FarFacts, Zenon
  <2> QED
    BY <2>4, <2>5 DEF Sized
<1> QED
  BY InitObject, NextObject, InitWell, NextWell, <1>1, PTL DEF Spec

-----------------------------------------------------------------------------
(* Lost locations.                                                         *)

\* A looper that found a point, met no reset and has its object for itself still finds one;
\* and only where two loopers worked at once can there be a null.
LostInv ==
    /\ LostOnlyByReset
    /\ \A o \in 1..Len(tripRoute) : Torn(o) => o \in shared
    /\ \A g \in Gens : /\ th[g].pc \in {"list", "size", "get", "remove"} /\ th[g].met = "no"
                       /\ th[g].obj \notin shared
                       => Pts(th[g].obj) # <<>>

LEMMA InitLost == Init => LostInv
<1> SUFFICES ASSUME Init PROVE LostInv
  OBVIOUS
<1>1. Len(tripRoute) = 0 /\ \A g \in Gens : th[g].pc = "idle"
  BY DEF Init, Idle
<1> QED
  BY <1>1 DEF Init, LostInv, LostOnlyByReset

LEMMA LostAgain ==
    ASSUME "no" \notin threw',
           \A o \in 1..Len(tripRoute') : Torn(o)' => o \in shared',
           \A g \in Gens : /\ th'[g].pc \in {"list", "size", "get", "remove"} /\ th'[g].met = "no"
                           /\ th'[g].obj \notin shared'
                           => \A o \in {th'[g].obj} : Pts(o)' # <<>>
    PROVE  LostInv'
BY DEF LostInv, LostOnlyByReset, Pts, Torn

\* Only a reset, or another looper on the object, makes addPosition fail.
LEMMA FailFacts ==
    ASSUME ObjectInv, WellInv, LostInv, NEW g \in Gens, NEW p, Failing(g, p), th[g] \in Busy,
           p = Pts(th[g].obj), p \in Seq(PointSet), th[g].obj \in 1..Len(tripRoute),
           th[g].obj \notin shared
    PROVE  th[g].met # "no"
<1> SUFFICES ASSUME th[g].met = "no" PROVE FALSE
  OBVIOUS
<1>1. PICK o : o = th[g].obj
  OBVIOUS
<1>2. /\ th[g].pc # "idle" /\ HasRead(th[g], p, tripRoute[o]) /\ o \in 1..Len(tripRoute)
      /\ o \notin shared /\ ~Torn(o)
  BY <1>1, IdleFacts DEF WellInv, LostInv
<1>3. ~Raced(g)
  BY <1>1, <1>2, IdleFacts DEF Raced, WellInv, ObjectInv
<1>4. CASE th[g].pc = "get"
  <2>1. p # <<>> /\ th[g].list = tripRoute[o] /\ th[g].size = Len(p)
    BY <1>1, <1>2, <1>4 DEF LostInv, HasRead
  <2>2. lists[th[g].list].pts = p /\ ~lists[th[g].list].torn
    BY <1>1, <1>2, <2>1 DEF Pts, Torn
  <2>3. th[g].size \in 1..Len(lists[th[g].list].pts)
    <3>1. Len(p) \in Nat \ {0}
      BY <2>1, TailFacts
    <3> QED
      BY <2>1, <2>2, <3>1
  <2>4. ASSUME NEW h \in Gens, th[h].pc \in {"first", "add"}, Route(h) = th[g].list PROVE FALSE
    <3>1. th[h].pc # "idle" /\ h # g
      BY <1>4, <2>4
    <3>2. th[h].obj \in 1..Len(tripRoute) /\ tripRoute[th[h].obj] = tripRoute[o]
      BY <2>1, <2>4, <3>1, BusyFacts DEF Route
    <3>3. th[h].obj = o
      BY <1>2, <3>2 DEF ObjectInv
    <3> QED
      BY <1>1, <1>2, <3>1, <3>3 DEF WellInv
  <2> QED
    BY <1>4, <2>2, <2>3, <2>4 DEF Failing, MaybeNull
<1>5. CASE th[g].pc = "remove"
  BY <1>1, <1>2, <1>5 DEF Failing, LostInv
<1> QED
  BY <1>3, <1>4, <1>5 DEF Failing

LEMMA NextLost == ObjectInv /\ WellInv /\ LostInv /\ [Next]_vars => LostInv'
<1> SUFFICES ASSUME ObjectInv, WellInv, LostInv, [Next]_vars PROVE LostInv'
  OBVIOUS
<1>0. \A g \in Gens : th[g].pc \in {"list", "size", "get", "remove"} =>
                         th[g] \in Busy /\ th[g].obj \in 1..Len(tripRoute)
  BY BusyFacts
<1>1. ASSUME NEW g \in Gens, NEW place \in Places, Receive(g, place) PROVE LostInv'
  <2>1. /\ \A o \in 1..Len(tripRoute) : Pts(o)' = Pts(o) /\ Torn(o)' = Torn(o)
        /\ UNCHANGED <<tripRoute, threw>>
    BY <1>1, ReceiveObject
  <2>2. PICK x : Thread(g, x) /\ x \in Busy /\ x.pc = "isEmpty"
    BY <1>1, ReceiveFacts
  <2>3. th'[g] = x /\ \A k \in Gens : k # g => th'[k] = th[k]
    BY <2>2, ThreadFacts
  <2>4. shared \subseteq shared'
    BY <1>1 DEF Receive
  <2>5. ASSUME NEW k \in Gens, th'[k].pc \in {"list", "size", "get", "remove"}, th'[k].met = "no",
               th'[k].obj \notin shared'
        PROVE  \A o \in {th'[k].obj} : Pts(o)' # <<>>
    <3>1. k # g /\ th'[k] = th[k]
      BY <2>2, <2>3, <2>5
    <3> QED
      BY <1>0, <2>1, <2>4, <2>5, <3>1 DEF LostInv
  <2>6. \A o \in 1..Len(tripRoute') : Torn(o)' => o \in shared'
    BY <2>1, <2>4 DEF LostInv
  <2>7. "no" \notin threw'
    BY <2>1 DEF LostInv, LostOnlyByReset
  <2> QED
    BY <2>5, <2>6, <2>7, LostAgain
<1>2. ASSUME NEW g \in Gens, InAdd(g) PROVE LostInv'
  <2>1. PICK x, p, q : Looper(g, x, p, q)
    BY <1>2, LooperFrame
  <2>2. /\ UNCHANGED <<shared, tripRoute>> /\ th'[g] = x /\ th[g].pc # "idle"
        /\ th[g] \in Busy /\ th[g].obj \in 1..Len(tripRoute) /\ p = Pts(th[g].obj)
        /\ p \in Seq(PointSet)
        /\ \A k \in Gens : k # g => th'[k] = th[k]
        /\ \A o \in 1..Len(tripRoute) : /\ Pts(o)' = IF o = th[g].obj THEN q ELSE Pts(o)
                                        /\ Torn(o)' => Torn(o) \/ (o = th[g].obj /\ Raced(g))
    BY <2>1, IdleFacts DEF Looper
  <2>3. Raced(g) => th[g].obj \in shared
    BY <2>2, IdleFacts DEF Raced, WellInv, ObjectInv
  <2>4. \A o \in 1..Len(tripRoute') : Torn(o)' => o \in shared'
    BY <2>2, <2>3 DEF LostInv
  <2>5. ASSUME NEW k \in Gens, th'[k].pc \in {"list", "size", "get", "remove"}, th'[k].met = "no",
               th'[k].obj \notin shared'
        PROVE  \A o \in {th'[k].obj} : Pts(o)' # <<>>
    <3>1. CASE k = g
      <4>1. x # Idle /\ x.obj = th[g].obj /\ x.met = "no" /\ x.pc \in {"list", "size", "get", "remove"}
            /\ th[g].obj \notin shared /\ th'[k].obj = th[g].obj
        BY <2>1, <2>2, <2>5, <3>1, IdleFacts DEF Looper
      <4>2. AddPosition(g, x, p, q) /\ th[g].met = "no"
        BY <2>1, <4>1 DEF Looper
      <4>3. q = p
        BY <4>1, <4>2, IdleFacts DEF AddPosition
      <4>4. p # <<>>
        <5>1. CASE x.pc \in {"size", "get"}
          <6>1. th[g].pc \in {"list", "size"}
            BY <4>1, <4>2, <5>1 DEF AddPosition
          <6> QED
            BY <2>2, <4>1, <4>2, <6>1 DEF LostInv
        <5>2. CASE x.pc = "list"
          BY <4>1, <4>2, <5>2 DEF AddPosition
        <5>3. CASE x.pc = "remove"
          <6>1. Len(p) > Cap
            BY <4>1, <4>2, <5>3 DEF AddPosition
          <6> QED
            BY <6>1, TripRouteAssumption
        <5> QED
          BY <4>1, <5>1, <5>2, <5>3
      <4> QED
        BY <2>2, <4>1, <4>3, <4>4
    <3>2. CASE k # g
      <4>1. th'[k] = th[k] /\ th[k].obj \in 1..Len(tripRoute) /\ th[k].pc # "idle"
        BY <1>0, <2>2, <2>5, <3>2
      <4>2. th[k].obj # th[g].obj
        BY <2>2, <2>5, <3>2, <4>1 DEF WellInv
      <4> QED
        BY <2>2, <2>5, <4>1, <4>2 DEF LostInv
    <3> QED
      BY <3>1, <3>2
  <2>6. "no" \notin threw'
    <3>1. Throw(g, p) => threw' = threw \cup {"shared"} \/ (threw' = threw \cup {th[g].met} /\ th[g].met # "no")
      BY <2>2, FailFacts DEF Throw
    <3>2. "no" \notin threw
      BY DEF LostInv, LostOnlyByReset
    <3>3. UNCHANGED threw \/ Throw(g, p)
      BY <2>1 DEF Looper
    <3> QED
      BY <3>1, <3>2, <3>3
  <2> QED
    BY <2>4, <2>5, <2>6, LostAgain
<1>3. CASE NewSummary /\ gen' \in {gen, gen + 1} /\ UNCHANGED <<th, pos, old, shared, threw>>
  <2>1. /\ \A o \in 1..Len(tripRoute) : Pts(o)' = Pts(o) /\ Torn(o)' = Torn(o)
        /\ \A o \in {mTripSummary'} : Torn(o)' = FALSE
        /\ Len(tripRoute') = Len(tripRoute) + 1 /\ mTripSummary' = Len(tripRoute) + 1
        /\ Len(tripRoute) \in Nat
    BY <1>3, NewSummaryFacts
  <2>2. ASSUME NEW k \in Gens, th'[k].pc \in {"list", "size", "get", "remove"}, th'[k].met = "no",
               th'[k].obj \notin shared'
        PROVE  \A o \in {th'[k].obj} : Pts(o)' # <<>>
    BY <1>0, <1>3, <2>1, <2>2 DEF LostInv
  <2>3. ASSUME NEW o \in 1..Len(tripRoute'), Torn(o)' PROVE o \in shared'
    <3>1. o \in 1..Len(tripRoute)
      BY <2>1, <2>3
    <3> QED
      BY <1>3, <2>1, <2>3, <3>1 DEF LostInv
  <2>4. "no" \notin threw'
    BY <1>3 DEF LostInv, LostOnlyByReset
  <2> QED
    BY <2>2, <2>3, <2>4, LostAgain
<1>4. CASE clearTripSummary
  <2>1. /\ \A o \in 1..Len(tripRoute) : /\ Pts(o)' = IF o = mTripSummary THEN <<>> ELSE Pts(o)
                                        /\ Torn(o)' = IF o = mTripSummary THEN FALSE ELSE Torn(o)
        /\ Len(tripRoute') = Len(tripRoute) /\ UNCHANGED <<shared, threw>>
    BY <1>4, ClearFacts DEF clearTripSummary
  <2>2. ASSUME NEW k \in Gens, th'[k].pc \in {"list", "size", "get", "remove"}, th'[k].met = "no",
               th'[k].obj \notin shared'
        PROVE  \A o \in {th'[k].obj} : Pts(o)' # <<>>
    <3>1. /\ th[k].pc \in {"list", "size", "get", "remove"} /\ th[k] # Idle
          /\ th[k].obj # mTripSummary /\ th'[k] = th[k]
      BY <1>4, <2>2, ClearThreads, IdleFacts
    <3> QED
      BY <1>0, <2>1, <2>2, <3>1 DEF LostInv
  <2>3. \A o \in 1..Len(tripRoute') : Torn(o)' => o \in shared'
    BY <2>1 DEF LostInv
  <2>4. "no" \notin threw'
    BY <2>1 DEF LostInv, LostOnlyByReset
  <2> QED
    BY <2>2, <2>3, <2>4, LostAgain
<1>5. CASE MainUnchanged
  BY <1>5 DEF MainUnchanged, LostInv, LostOnlyByReset, Pts, Torn
<1> QED
  BY <1>1, <1>2, <1>3, <1>4, <1>5, MainFrame

\* TripSummary.addPosition fails, and its location is lost, only when a reset came between two
\* of its uses of the list, or the loopers of two services have worked on the object at once:
\* no new service or drawing takes the point away between the check, the size and the read.
THEOREM LostByReset == Spec => []LostOnlyByReset
<1>1. LostInv => LostOnlyByReset
  BY DEF LostInv
<1> QED
  BY InitObject, NextObject, InitWell, NextWell, InitLost, NextLost, <1>1, PTL DEF Spec

-----------------------------------------------------------------------------
(* The fetch of signs: types. *)


Chosen == Protocols \cup {"HTTP", "HTTPS"}
Values == {"parsed", "zero", "full", "not read"} \cup Chosen
Writes == [by : Nat, val : Values]
Tasks == [id : Nat, act : Nat, asked : Chosen, pub : [Options -> Nat \ {0}]]
Messages == [what : {"finish", "MSG_DATEX_OK", "MSG_DATEX_ERROR"}, task : Tasks,
             proto : Values, res : Results]
Threads == [pc : {"none", "switch", "psid", "ssp", "get"}, task : Tasks \cup {NoTask},
            used : [Options -> Writes]]
UiThread == [pc : {"idle", "ssp", "fill", "http", "proto", "exec"}, proto : Chosen]
Texts == Values \cup {"layout", "Illegal PSID entered", "Illegal SSP entered", "Requesting",
                      "Failure"}
Views == [text : Texts, number : Nat, items : SUBSET (Signs \cup {NoId}), sign : Signs \cup {NoSign},
          ver : Nat, currSignId : Signs \cup {NoSign}]

\* Type correctness.  A screen stays while a click is being handled, and what is told as a
\* success has signs.
FetchType ==
    /\ main \in UiThread /\ click \in Nat /\ act \in Nat /\ acts \in Nat
    /\ act <= acts /\ (main.pc # "idle" => act # 0)
    /\ opt \in [Options -> Seq(Writes)] /\ \A o \in Options : Len(opt[o]) >= 1
    /\ queue \in Seq(Tasks) /\ looper \in Seq(Messages) /\ reported \in Seq(Nat)
    /\ \A i \in 1..Len(looper) : looper[i].what = "MSG_DATEX_OK" => looper[i].res.kind = "signs"
    /\ bg \in Threads /\ (bg.pc # "none" => bg.task \in Tasks)
    /\ datexReplyCnt \in Nat /\ view \in Views
    /\ datexReply # <<>> => datexReply[1] \in Replies
    /\ view.items # {} => datexReply # <<>>

LEMMA OptionFacts ==
    /\ NotRead \in Writes /\ NoneUsed \in [Options -> Writes]
    /\ "psid" \in Options /\ "ssp" \in Options /\ "proto" \in Options
    /\ EmptyView \in Views /\ EmptyView.items = {} /\ EmptyView.sign = NoSign
<1>1. NotRead \in Writes
  BY DEF NotRead, Writes, Values
<1>2. NoneUsed \in [Options -> Writes]
  BY <1>1 DEF NoneUsed
<1>3. EmptyView \in Views /\ EmptyView.items = {} /\ EmptyView.sign = NoSign
  BY DEF EmptyView, Views, Texts
<1> QED
  BY <1>1, <1>2, <1>3 DEF Options

LEMMA InitFetchType == FetchInit => FetchType
<1> SUFFICES ASSUME FetchInit PROVE FetchType
  OBVIOUS
<1>1. main \in UiThread /\ (main.pc # "idle" => act # 0)
  BY DEF FetchInit, UiThread, Chosen
<1>2. opt \in [Options -> Seq(Writes)] /\ \A o \in Options : Len(opt[o]) >= 1
  <2>1. ASSUME NEW o \in Options PROVE \E w \in Writes : opt[o] = <<w>>
    <3>1. PICK v : v = (CASE o = "psid"  -> "parsed" [] o = "ssp"   -> "full"
                                       [] o = "proto" -> "HTTPS")
      OBVIOUS
    <3>2. v \in Values
      BY <3>1 DEF Options, Values, Chosen
    <3>3. PICK w : w = [by |-> 0, val |-> v]
      OBVIOUS
    <3>4. w \in Writes
      BY <3>2, <3>3 DEF Writes
    <3>5. opt[o] = <<w>>
      BY <2>1, <3>1, <3>3, Zenon DEF FetchInit
    <3> QED
      BY <3>4, <3>5
  <2>2. opt = [o \in Options |-> opt[o]]
    <3> DEFINE e(o) == <<[by |-> 0, val |-> CASE o = "psid"  -> "parsed"
                                              [] o = "ssp"   -> "full"
                                              [] o = "proto" -> "HTTPS"]>>
    <3>1. opt = [o \in Options |-> e(o)]
      BY Zenon DEF FetchInit
    <3> HIDE DEF e
    <3> QED
      BY <3>1
  <2>3. \A w \in Writes : <<w>> \in Seq(Writes) /\ Len(<<w>>) = 1
    OBVIOUS
  <2>4. \A o \in Options : opt[o] \in Seq(Writes) /\ Len(opt[o]) = 1
    BY <2>1, <2>3
  <2>5. opt \in [Options -> Seq(Writes)]
    BY <2>2, <2>4
  <2>6. \A o \in Options : Len(opt[o]) >= 1
    BY <2>4
  <2> QED
    BY <2>5, <2>6
<1>3. bg \in Threads /\ bg.pc = "none"
  BY OptionFacts DEF FetchInit, Threads
<1>4. view \in Views /\ view.items = {}
  BY OptionFacts DEF FetchInit
<1>5. queue \in Seq(Tasks) /\ looper \in Seq(Messages) /\ reported \in Seq(Nat) /\ Len(looper) = 0
  BY DEF FetchInit
<1>6. click \in Nat /\ act \in Nat /\ acts \in Nat /\ act <= acts /\ datexReplyCnt \in Nat
      /\ datexReply = <<>>
  BY DEF FetchInit
<1> QED
  BY <1>1, <1>2, <1>3, <1>4, <1>5, <1>6 DEF FetchType

\* A step of the UI thread in a click, which only writes options, its own state and
\* the text of the view.
LEMMA WroteFacts ==
    ASSUME opt \in [Options -> Seq(Writes)], NEW c \in Nat, NEW v \in Values, NEW o \in Options,
           opt' = Wrote(c, o, v)
    PROVE  /\ opt' \in [Options -> Seq(Writes)] /\ Len(opt'[o]) = Len(opt[o]) + 1
           /\ opt'[o][Len(opt[o]) + 1].by = c /\ opt'[o][Len(opt[o]) + 1].val = v
           /\ \A i \in 1..Len(opt[o]) : opt'[o][i] = opt[o][i]
           /\ \A k \in Options : k # o => opt'[k] = opt[k]
<1>1. PICK w : w = [by |-> c, val |-> v]
  OBVIOUS
<1>2. w \in Writes /\ w.by = c /\ w.val = v
  BY <1>1 DEF Writes
<1>3. opt' = [opt EXCEPT ![o] = Append(opt[o], w)]
  BY <1>1 DEF Wrote
<1>4. opt[o] \in Seq(Writes)
  OBVIOUS
<1>5. /\ Append(opt[o], w) \in Seq(Writes) /\ Len(Append(opt[o], w)) = Len(opt[o]) + 1
      /\ Append(opt[o], w)[Len(opt[o]) + 1] = w
      /\ \A i \in 1..Len(opt[o]) : Append(opt[o], w)[i] = opt[o][i]
  BY <1>2, <1>4, AppendProperties
<1>6. opt' \in [Options -> Seq(Writes)] /\ opt'[o] = Append(opt[o], w)
      /\ \A k \in Options : k # o => opt'[k] = opt[k]
  BY <1>3, <1>5
<1> QED
  BY <1>2, <1>5, <1>6

LEMMA TextFacts ==
    ASSUME view \in Views, NEW t \in Texts, view' = [view EXCEPT !.text = t]
    PROVE  /\ view' \in Views /\ view'.items = view.items /\ view'.sign = view.sign
           /\ view'.ver = view.ver /\ view'.currSignId = view.currSignId
BY DEF Views

LEMMA UiFacts ==
    ASSUME main \in UiThread, NEW pc \in {"idle", "ssp", "fill", "http", "proto", "exec"},
           main' = [main EXCEPT !.pc = pc]
    PROVE  main' \in UiThread /\ main'.pc = pc /\ main'.proto = main.proto
BY DEF UiThread

LEMMA MessageFacts ==
    ASSUME NEW m \in Messages
    PROVE  /\ \A x \in {"MSG_DATEX_OK", "MSG_DATEX_ERROR"} :
                 /\ [m EXCEPT !.what = x] \in Messages /\ [m EXCEPT !.what = x].what = x
                 /\ [m EXCEPT !.what = x].task = m.task /\ [m EXCEPT !.what = x].res = m.res
           /\ \E x : /\ Sends(m) = <<x>> /\ x \in Messages /\ x.what # "finish" /\ x.task = m.task
                     /\ x.what = "MSG_DATEX_OK" => x.res.kind = "signs"
<1>1. \A x \in {"MSG_DATEX_OK", "MSG_DATEX_ERROR"} :
         /\ [m EXCEPT !.what = x] \in Messages /\ [m EXCEPT !.what = x].what = x
         /\ [m EXCEPT !.what = x].task = m.task /\ [m EXCEPT !.what = x].res = m.res
  BY DEF Messages
<1>2. CASE m.res.kind = "signs"
  <2>1. Sends(m) = <<[m EXCEPT !.what = "MSG_DATEX_OK"]>>
    BY <1>2 DEF Sends
  <2> QED
    BY <1>1, <1>2, <2>1
<1>3. CASE m.res.kind # "signs"
  <2>1. Sends(m) = <<[m EXCEPT !.what = "MSG_DATEX_ERROR"]>>
    BY <1>3 DEF Sends
  <2> QED
    BY <1>1, <1>3, <2>1
<1> QED
  BY <1>1, <1>2, <1>3

\* The search finds a sign.
Shown(r, id) == id \in Signs /\ Finds(r, id)

\* A reply that ends no loop has signs, if some without an id.
LEMMA LitFacts ==
    ASSUME NEW r \in Replies, IsWhole(r)
    PROVE  Lit(r) \in SUBSET (Signs \cup {NoId})
<1>1. r \in Seq(Entry)
  BY DatexFetchAssumption
<1>2. ASSUME NEW i \in DOMAIN r PROVE r[i].id \in Signs \cup {NoId}
  <2>1. r[i] \in Entry
    BY <1>1
  <2>2. r[i].id \in Signs \cup {NullSign, NoId}
    BY <2>1 DEF Entry
  <2> QED
    BY <2>2 DEF IsWhole
<1> QED
  BY <1>2 DEF Lit

\* The details are left as they were or of the reply.
LEMMA SignFacts ==
    ASSUME NEW v \in Views, NEW r, NEW n \in Nat, NEW id,
           NEW w, w = updateSignFromId(v, r, n, id)
    PROVE  /\ w \in Views /\ w.items = v.items
           /\ Shown(r, id) => w.currSignId = id /\ w.sign = id /\ w.ver = n
           /\ ~Shown(r, id) => w = v
<1>2. CASE Shown(r, id)
  <2>1. w = [v EXCEPT !.currSignId = id, !.sign = id, !.ver = n] /\ id \in Signs
    BY <1>2 DEF updateSignFromId, Shown
  <2>2. w \in Views /\ w.items = v.items /\ w.currSignId = id /\ w.sign = id /\ w.ver = n
    BY <2>1 DEF Views
  <2> QED
    BY <1>2, <2>2
<1>3. CASE ~Shown(r, id)
  BY <1>3 DEF updateSignFromId, Shown
<1> QED
  BY <1>2, <1>3

\* A read of option o by the background thread.
LEMMA ReadFacts ==
    ASSUME FetchType, bg.pc # "none", NEW o \in Options, NEW w \in Visible(o),
           NEW pc \in {"none", "switch", "psid", "ssp", "get"},
           bg' = [bg EXCEPT !.used[o] = w, !.pc = pc]
    PROVE  /\ bg' \in Threads /\ bg'.pc = pc /\ bg'.task = bg.task /\ bg'.used[o] = w
           /\ \A k \in Options : k # o => bg'.used[k] = bg.used[k]
           /\ \E i \in bg.task.pub[o]..Len(opt[o]) : i \in 1..Len(opt[o]) /\ w = opt[o][i]
<1>1. PICK i \in bg.task.pub[o]..Len(opt[o]) : w = opt[o][i]
  BY DEF Visible
<1>2. bg \in Threads /\ bg.task \in Tasks /\ opt[o] \in Seq(Writes)
  BY DEF FetchType
<1>3. bg.task.pub[o] \in Nat \ {0} /\ Len(opt[o]) \in Nat
  BY <1>2 DEF Tasks
<1>4. i \in 1..Len(opt[o])
  BY <1>1, <1>3
<1>5. w \in Writes
  BY <1>1, <1>2, <1>4
<1>6. PICK u : u = [bg.used EXCEPT ![o] = w]
  OBVIOUS
<1>7. bg.used \in [Options -> Writes]
  BY <1>2 DEF Threads
<1>8. u \in [Options -> Writes] /\ u[o] = w /\ \A k \in Options : k # o => u[k] = bg.used[k]
  BY <1>5, <1>6, <1>7
<1>9. bg' = [bg EXCEPT !.used = u, !.pc = pc]
  BY <1>6
<1>10. bg' \in Threads /\ bg'.pc = pc /\ bg'.task = bg.task /\ bg'.used = u
  BY <1>2, <1>8, <1>9 DEF Threads
<1> QED
  BY <1>1, <1>4, <1>8, <1>10

\* A read by the background thread: one option, from a write that is visible.
BgReads ==
    /\ bg.pc # "none" /\ UNCHANGED <<main, click, act, acts, opt, queue, looper, datexReply,
                                     datexReplyCnt, whole, view, reported>>
    /\ \E o \in Options : \E w \in Visible(o) : \E pc \in {"psid", "ssp", "get"} :
          bg' = [bg EXCEPT !.used[o] = w, !.pc = pc]

LEMMA ReadSteps == ReadProtocol \/ ReadPsid \/ ReadSsp => BgReads
<1>0. bgUnchanged => UNCHANGED <<main, click, act, acts, opt, datexReply, datexReplyCnt, whole, view, reported>>
  BY DEF bgUnchanged
<1>1. ASSUME ReadProtocol PROVE BgReads
  <2>1. PICK w \in Visible("proto") :
           bg' = [bg EXCEPT !.used["proto"] = w,
                            !.pc = IF w.val \in {"HTTP", "HTTPS"} THEN "get" ELSE "psid"]
    BY <1>1 DEF ReadProtocol
  <2>2. PICK pc : pc = IF w.val \in {"HTTP", "HTTPS"} THEN "get" ELSE "psid"
    OBVIOUS
  <2>3. pc \in {"psid", "ssp", "get"} /\ bg' = [bg EXCEPT !.used["proto"] = w, !.pc = pc]
    BY <2>1, <2>2
  <2>4. bg.pc # "none" /\ UNCHANGED <<queue, looper>> /\ bgUnchanged
    BY <1>1 DEF ReadProtocol
  <2> QED
    BY <1>0, <2>3, <2>4, OptionFacts DEF BgReads
<1>2. ReadPsid => BgReads
  BY <1>0, OptionFacts DEF ReadPsid, Read, BgReads
<1>3. ReadSsp => BgReads
  BY <1>0, OptionFacts DEF ReadSsp, Read, BgReads
<1> QED
  BY <1>1, <1>2, <1>3

\* The four writes of a click after the PSID.
UiWrites ==
    /\ main.pc # "idle" /\ UNCHANGED <<click, act, acts, queue, bg, looper, datexReply,
                                       datexReplyCnt, whole, view, reported>>
    /\ \E o \in Options, v \in Values, pc \in {"fill", "http", "proto", "exec"} :
          main' = [main EXCEPT !.pc = pc] /\ opt' = Wrote(click, o, v)

\* A click that ends early: only the text of the view changes.
UiRefuses ==
    /\ UNCHANGED <<act, acts, opt, queue, bg, looper, datexReply, datexReplyCnt, whole, reported>>
    /\ UNCHANGED view \/ \E t \in Texts : view' = [view EXCEPT !.text = t]
    /\ \/ main.pc = "idle" /\ main' = main /\ click' = click + 1
       \/ main' = [main EXCEPT !.pc = "idle"] /\ UNCHANGED click

LEMMA UiSteps ==
    ASSUME FetchType, RefreshSsp \/ RefreshFill \/ RefreshHttp \/ RefreshProto
    PROVE  UiWrites \/ UiRefuses
<1>0. main.proto \in Values
  BY DEF FetchType, UiThread, Values
<1>1. RefreshSsp => UiWrites \/ UiRefuses
  BY OptionFacts DEF RefreshSsp, UiWrites, UiRefuses, clickUnchanged, Values, Texts
<1>2. RefreshFill => UiWrites
  BY OptionFacts DEF RefreshFill, UiWrites, clickUnchanged, Values
<1>3. RefreshHttp => UiWrites
  BY OptionFacts DEF RefreshHttp, UiWrites, clickUnchanged, Values, Chosen
<1>4. RefreshProto => UiWrites
  BY <1>0, OptionFacts DEF RefreshProto, UiWrites, clickUnchanged
<1> QED
  BY <1>1, <1>2, <1>3, <1>4

\* The task RefreshExecute hands over.
NewTask == [id |-> click, act |-> act, asked |-> main.proto, pub |-> [o \in Options |-> Len(opt[o])]]

LEMMA NewTaskFacts ==
    ASSUME FetchType
    PROVE  /\ NewTask \in Tasks /\ NewTask.id = click /\ NewTask.act = act
           /\ NewTask.asked = main.proto
           /\ \A o \in Options : NewTask.pub[o] = Len(opt[o])
<1>1. \A o \in Options : opt[o] \in Seq(Writes) /\ Len(opt[o]) >= 1
  BY DEF FetchType
<1>2. \A o \in Options : Len(opt[o]) \in Nat \ {0}
  BY <1>1
<1>3. PICK p : p = [o \in Options |-> Len(opt[o])]
  OBVIOUS
<1>4. p \in [Options -> Nat \ {0}] /\ \A o \in Options : p[o] = Len(opt[o])
  BY <1>2, <1>3
<1>5. main.proto \in Chosen /\ click \in Nat /\ act \in Nat
  BY DEF FetchType, UiThread
<1>6. NewTask = [id |-> click, act |-> act, asked |-> main.proto, pub |-> p]
  BY <1>3 DEF NewTask
<1> QED
  BY <1>4, <1>5, <1>6 DEF Tasks

\* What is taken from the front of a sequence, and what is left.
LEMMA FrontFacts ==
    ASSUME NEW S, NEW s \in Seq(S), s # <<>>
    PROVE  /\ Head(s) = s[1] /\ Head(s) \in S /\ Len(s) >= 1 /\ Len(s) \in Nat
           /\ Tail(s) \in Seq(S) /\ Len(Tail(s)) = Len(s) - 1
           /\ \A i \in 1..Len(Tail(s)) : i + 1 \in 1..Len(s) /\ Tail(s)[i] = s[i + 1]
<1>1. Len(s) \in Nat /\ Len(s) # 0
  BY EmptySeq
<1>2. Head(s) = s[1] /\ s[1] \in S
  BY <1>1
<1>3. Tail(s) \in Seq(S) /\ Len(Tail(s)) = Len(s) - 1
      /\ \A i \in 1..Len(Tail(s)) : Tail(s)[i] = s[i + 1]
  BY HeadTailProperties
<1> QED
  BY <1>1, <1>2, <1>3

\* What is put at the end of a sequence.
LEMMA BackFacts ==
    ASSUME NEW S, NEW s \in Seq(S), NEW x \in S
    PROVE  /\ Append(s, x) \in Seq(S) /\ Len(s) \in Nat /\ Len(Append(s, x)) = Len(s) + 1
           /\ Append(s, x)[Len(s) + 1] = x
           /\ \A i \in 1..Len(s) : Append(s, x)[i] = s[i]
           /\ \A i \in 1..Len(Append(s, x)) : i \in 1..Len(s) \/ i = Len(s) + 1
<1>1. /\ Append(s, x) \in Seq(S) /\ Len(s) \in Nat /\ Len(Append(s, x)) = Len(s) + 1
      /\ Append(s, x)[Len(s) + 1] = x
      /\ \A i \in 1..Len(s) : Append(s, x)[i] = s[i]
  BY AppendProperties
<1> QED
  BY <1>1

\* onPostExecute puts what it decides at the end of the looper's queue.
LEMMA PostFacts ==
    ASSUME FetchType, onPostExecute
    PROVE  /\ looper \in Seq(Messages) /\ Len(looper) \in Nat \ {0} /\ looper[1].what = "finish"
           /\ looper' \in Seq(Messages) /\ Len(looper') = Len(looper)
           /\ \A i \in 1..(Len(looper) - 1) : looper'[i] = looper[i + 1]
           /\ looper'[Len(looper)].what # "finish"
           /\ looper'[Len(looper)].task = looper[1].task
           /\ looper'[Len(looper)].what = "MSG_DATEX_OK" => looper'[Len(looper)].res.kind = "signs"
           /\ UNCHANGED <<main, click, act, acts, opt, queue, bg, datexReply, datexReplyCnt, whole,
                          view, reported>>
<1>1. /\ looper \in Seq(Messages) /\ looper # <<>> /\ Head(looper).what = "finish"
      /\ looper' = Tail(looper) \o Sends(Head(looper))
  BY DEF FetchType, onPostExecute, Received
<1>2. PICK m : m = Head(looper)
  OBVIOUS
<1>3. m \in Messages /\ m = looper[1]
  BY <1>1, <1>2, FrontFacts
<1>4. PICK x : /\ Sends(m) = <<x>> /\ x \in Messages /\ x.what # "finish" /\ x.task = m.task
               /\ x.what = "MSG_DATEX_OK" => x.res.kind = "signs"
  BY <1>3, MessageFacts
<1>5. PICK t : t = Tail(looper)
  OBVIOUS
<1>6. /\ t \in Seq(Messages) /\ Len(t) = Len(looper) - 1 /\ Len(looper) \in Nat /\ Len(looper) >= 1
      /\ \A i \in 1..Len(t) : t[i] = looper[i + 1]
  BY <1>1, <1>5, FrontFacts
<1>7. <<x>> \in Seq(Messages) /\ Len(<<x>>) = 1 /\ <<x>>[1] = x
  BY <1>4
<1>8. looper' = t \o <<x>>
  BY <1>1, <1>2, <1>4, <1>5
<1>9. /\ looper' \in Seq(Messages) /\ Len(looper') = Len(t) + 1
      /\ \A i \in 1..(Len(t) + 1) : looper'[i] = IF i <= Len(t) THEN t[i] ELSE <<x>>[i - Len(t)]
  BY <1>6, <1>7, <1>8, ConcatProperties
<1>10. \A i \in 1..(Len(looper) - 1) : looper'[i] = looper[i + 1]
  BY <1>6, <1>9
<1>11. looper'[Len(looper)] = x
  BY <1>6, <1>7, <1>9
<1>12. UNCHANGED <<main, click, act, acts, opt, queue, bg, datexReply, datexReplyCnt, whole, view, reported>>
  BY DEF onPostExecute
<1> QED
  BY <1>1, <1>2, <1>3, <1>4, <1>6, <1>9, <1>10, <1>11, <1>12

\* Telling an outcome takes the first message.
LEMMA ToldFacts ==
    ASSUME FetchType, onDatexOk \/ onDatexError
    PROVE  /\ looper \in Seq(Messages) /\ Len(looper) \in Nat \ {0} /\ looper[1].what # "finish"
           /\ looper[1] \in Messages
           /\ looper' \in Seq(Messages) /\ Len(looper') = Len(looper) - 1
           /\ \A i \in 1..Len(looper') : i + 1 \in 1..Len(looper) /\ looper'[i] = looper[i + 1]
           /\ reported' \in Seq(Nat) /\ Len(reported') = Len(reported) + 1 /\ Len(reported) \in Nat
           /\ reported'[Len(reported) + 1] = looper[1].task.id
           /\ \A i \in 1..Len(reported) : reported'[i] = reported[i]
           /\ UNCHANGED <<main, click, act, acts, opt, queue, bg>>
<1>1. /\ looper \in Seq(Messages) /\ looper # <<>> /\ Head(looper).what # "finish"
      /\ looper' = Tail(looper) /\ reported \in Seq(Nat)
      /\ reported' = Append(reported, Head(looper).task.id)
  BY DEF FetchType, onDatexOk, onDatexError, Received
<1>2. /\ Head(looper) = looper[1] /\ looper[1] \in Messages /\ Len(looper) \in Nat \ {0}
      /\ looper' \in Seq(Messages) /\ Len(looper') = Len(looper) - 1
      /\ \A i \in 1..Len(looper') : i + 1 \in 1..Len(looper) /\ looper'[i] = looper[i + 1]
  BY <1>1, FrontFacts
<1>3. looper[1].task.id \in Nat
  BY <1>2 DEF Messages, Tasks
<1>4. PICK n : n = looper[1].task.id
  OBVIOUS
<1>5. /\ reported' \in Seq(Nat) /\ Len(reported') = Len(reported) + 1 /\ Len(reported) \in Nat
      /\ reported'[Len(reported) + 1] = n
      /\ \A i \in 1..Len(reported) : reported'[i] = reported[i]
  BY <1>1, <1>2, <1>3, <1>4, BackFacts
<1>6. UNCHANGED <<main, click, act, acts, opt, queue, bg>>
  BY DEF onDatexOk, onDatexError
<1> QED
  BY <1>1, <1>2, <1>4, <1>5, <1>6

\* The serial executor takes the first task.
LEMMA StartFacts ==
    ASSUME FetchType, StartTask
    PROVE  /\ queue \in Seq(Tasks) /\ Len(queue) \in Nat \ {0} /\ queue[1] \in Tasks
           /\ queue' \in Seq(Tasks) /\ Len(queue') = Len(queue) - 1
           /\ \A i \in 1..Len(queue') : i + 1 \in 1..Len(queue) /\ queue'[i] = queue[i + 1]
           /\ bg.pc = "none" /\ bg' \in Threads /\ bg'.pc # "none" /\ bg'.task = queue[1]
           /\ bg'.used = NoneUsed
           /\ UNCHANGED <<main, click, act, acts, opt, looper, datexReply, datexReplyCnt, whole, view,
                          reported>>
<1>1. /\ queue \in Seq(Tasks) /\ queue # <<>> /\ queue' = Tail(queue) /\ bg.pc = "none"
      /\ bg' = [pc |-> "switch", task |-> Head(queue), used |-> NoneUsed]
  BY DEF FetchType, StartTask
<1>2. /\ Head(queue) = queue[1] /\ queue[1] \in Tasks /\ Len(queue) \in Nat \ {0}
      /\ queue' \in Seq(Tasks) /\ Len(queue') = Len(queue) - 1
      /\ \A i \in 1..Len(queue') : i + 1 \in 1..Len(queue) /\ queue'[i] = queue[i + 1]
  BY <1>1, FrontFacts
<1>3. bg' \in Threads /\ bg'.pc # "none" /\ bg'.task = queue[1] /\ bg'.used = NoneUsed
  BY <1>1, <1>2, OptionFacts DEF Threads
<1>4. UNCHANGED <<main, click, act, acts, opt, looper, datexReply, datexReplyCnt, whole, view, reported>>
  BY DEF StartTask, bgUnchanged
<1> QED
  BY <1>1, <1>2, <1>3, <1>4

\* A fetch that returns is handed to the looper.
LEMMA ReturnFacts ==
    ASSUME FetchType, NEW r \in Results, FetchReturns(r)
    PROVE  /\ bg.pc # "none" /\ bg.task \in Tasks /\ bg' \in Threads /\ bg'.pc = "none"
           /\ bg'.used = NoneUsed
           /\ looper \in Seq(Messages) /\ looper' \in Seq(Messages) /\ Len(looper) \in Nat
           /\ Len(looper') = Len(looper) + 1 /\ looper'[Len(looper) + 1].what = "finish"
           /\ looper'[Len(looper) + 1].task = bg.task
           /\ \A i \in 1..Len(looper) : looper'[i] = looper[i]
           /\ UNCHANGED <<main, click, act, acts, opt, queue, datexReply, datexReplyCnt, whole, view,
                          reported>>
<1>1. bg \in Threads /\ bg.pc # "none" /\ bg.task \in Tasks /\ looper \in Seq(Messages)
  BY DEF FetchType, FetchReturns
<1>2. PICK m : m = [what |-> "finish", task |-> bg.task, proto |-> bg.used["proto"].val, res |-> r]
  OBVIOUS
<1>3. bg.used["proto"].val \in Values
  BY <1>1, OptionFacts DEF Threads, Writes
<1>4. m \in Messages /\ m.what = "finish" /\ m.task = bg.task
  BY <1>1, <1>2, <1>3 DEF Messages
<1>5. looper' = Append(looper, m)
  BY <1>2 DEF FetchReturns
<1>6. /\ looper' \in Seq(Messages) /\ Len(looper) \in Nat
      /\ Len(looper') = Len(looper) + 1 /\ looper'[Len(looper) + 1] = m
      /\ \A i \in 1..Len(looper) : looper'[i] = looper[i]
  BY <1>1, <1>4, <1>5, BackFacts
<1>7. bg' \in Threads /\ bg'.pc = "none" /\ bg'.used = NoneUsed
  BY OptionFacts DEF FetchReturns, Threads
<1>8. UNCHANGED <<main, click, act, acts, opt, queue, datexReply, datexReplyCnt, whole, view, reported>>
  BY DEF FetchReturns, bgUnchanged
<1> QED
  BY <1>1, <1>4, <1>6, <1>7, <1>8

\* execute puts the new task at the end of the executor's queue.
LEMMA ExecuteFacts ==
    ASSUME FetchType, RefreshExecute
    PROVE  /\ main' \in UiThread /\ main'.pc = "idle" /\ main.pc = "exec"
           /\ queue \in Seq(Tasks) /\ queue' \in Seq(Tasks) /\ Len(queue) \in Nat
           /\ Len(queue') = Len(queue) + 1 /\ queue'[Len(queue) + 1] = NewTask
           /\ \A i \in 1..Len(queue) : queue'[i] = queue[i]
           /\ view' = [view EXCEPT !.text = "Requesting"]
           /\ UNCHANGED <<click, act, acts, opt, bg, looper, datexReply, datexReplyCnt, whole, reported>>
<1>1. /\ main \in UiThread /\ main' = [main EXCEPT !.pc = "idle"] /\ main.pc = "exec"
      /\ queue \in Seq(Tasks) /\ queue' = Append(queue, NewTask)
  BY DEF FetchType, RefreshExecute, NewTask
<1>2. main' \in UiThread /\ main'.pc = "idle"
  BY <1>1, UiFacts
<1>3. /\ queue' \in Seq(Tasks) /\ Len(queue) \in Nat
      /\ Len(queue') = Len(queue) + 1 /\ queue'[Len(queue) + 1] = NewTask
      /\ \A i \in 1..Len(queue) : queue'[i] = queue[i]
  BY <1>1, NewTaskFacts, BackFacts
<1>4. /\ view' = [view EXCEPT !.text = "Requesting"]
      /\ UNCHANGED <<click, act, acts, opt, bg, looper, datexReply, datexReplyCnt, whole, reported>>
  BY DEF RefreshExecute, clickUnchanged
<1> QED
  BY <1>1, <1>2, <1>3, <1>4

\* A click begins, or ends at once.
LEMMA PsidFacts ==
    ASSUME FetchType, NEW p \in Protocols, RefreshPsid(p)
    PROVE  \/ UiRefuses /\ main.pc = "idle"
           \/ /\ main.pc = "idle" /\ main' \in UiThread /\ main'.pc = "ssp" /\ act # 0
              /\ click' = click + 1 /\ opt' = Wrote(click + 1, "psid", "parsed")
              /\ UNCHANGED <<act, acts, queue, bg, looper, datexReply, datexReplyCnt, whole, view,
                             reported>>
<1>1. main.pc = "idle" /\ act # 0 /\ click' = click + 1
  BY DEF RefreshPsid, UiIdle
<1>2. UNCHANGED <<act, acts, queue, bg, looper, datexReply, datexReplyCnt, whole, reported>>
  BY DEF RefreshPsid, clickUnchanged
<1>3. CASE main' = [pc |-> "ssp", proto |-> p] /\ opt' = Wrote(click + 1, "psid", "parsed")
           /\ UNCHANGED view
  <2>1. main' \in UiThread /\ main'.pc = "ssp"
    BY <1>3 DEF UiThread, Chosen
  <2> QED
    BY <1>1, <1>2, <1>3, <2>1
<1>4. CASE UNCHANGED <<main, opt, view>>
  BY <1>1, <1>2, <1>4 DEF UiRefuses
<1>5. CASE view' = [view EXCEPT !.text = "Illegal PSID entered"] /\ UNCHANGED <<main, opt>>
  <2>1. "Illegal PSID entered" \in Texts
    BY DEF Texts
  <2> QED
    BY <1>1, <1>2, <1>5, <2>1 DEF UiRefuses
<1> QED
  BY <1>3, <1>4, <1>5 DEF RefreshPsid

\* The reply of a success becomes the static one, and the signs of the screen that asked unless
\* a null element ends the loop over them.
LEMMA OkFacts ==
    ASSUME FetchType, onDatexOk, NEW r, r = looper[1].res.reply
    PROVE  /\ r \in Replies /\ datexReply' = <<r>> /\ datexReplyCnt' = datexReplyCnt + 1
           /\ whole' = IF IsWhole(r) THEN <<r>> ELSE whole
           /\ view' \in Views
           /\ looper[1].task.act # act => view' = view
           /\ looper[1].task.act = act /\ IsWhole(r) =>
                /\ view'.items = Lit(r) /\ view'.currSignId = view.currSignId
                /\ Shown(r, view.currSignId) =>
                      view'.sign = view.currSignId /\ view'.ver = datexReplyCnt'
                /\ ~Shown(r, view.currSignId) => view'.sign = view.sign
           /\ looper[1].task.act = act /\ ~IsWhole(r) =>
                /\ view'.items = view.items /\ view'.sign = view.sign
                /\ view'.currSignId = view.currSignId
<1>1. /\ looper \in Seq(Messages) /\ looper # <<>> /\ Head(looper).what = "MSG_DATEX_OK"
  BY DEF FetchType, onDatexOk, Received
<1>2. PICK m : m = Head(looper)
  OBVIOUS
<1>3. m = looper[1] /\ m \in Messages /\ 1 \in 1..Len(looper)
  BY <1>1, <1>2, FrontFacts
<1>4. m.res \in Results /\ m.res.kind = "signs" /\ m.proto \in Values
  BY <1>1, <1>2, <1>3 DEF FetchType, Messages
<1>5. r \in Replies
  BY <1>3, <1>4 DEF Results
<1>6. /\ datexReply' = <<r>> /\ datexReplyCnt' = datexReplyCnt + 1
      /\ whole' = IF IsWhole(r) THEN <<r>> ELSE whole
      /\ view' = IF m.task.act # act THEN view
                 ELSE addSigns([view EXCEPT !.text = m.proto, !.number = datexReplyCnt'],
                               r, datexReplyCnt')
  BY <1>2, <1>3 DEF onDatexOk
<1>7. CASE m.task.act # act
  <2>1. view' = view /\ view \in Views
    BY <1>6, <1>7 DEF FetchType
  <2> QED
    BY <1>3, <1>5, <1>6, <1>7, <2>1
<1>8. CASE m.task.act = act
  <2>1. PICK n : n = datexReplyCnt + 1
    OBVIOUS
  <2>2. n \in Nat /\ view \in Views
    BY <2>1 DEF FetchType
  <2>0. m.proto \in Texts
    BY <1>4, Zenon DEF Texts
  <2>3. PICK v : v = [view EXCEPT !.text = m.proto, !.number = n]
    OBVIOUS
  <2>4. v \in Views /\ v.items = view.items /\ v.sign = view.sign /\ v.currSignId = view.currSignId
    BY <2>0, <2>2, <2>3 DEF Views
  <2>5. CASE IsWhole(r)
    <3>1. Lit(r) \in SUBSET (Signs \cup {NoId})
      BY <1>5, <2>5, LitFacts
    <3>2. PICK w : w = [v EXCEPT !.items = Lit(r)]
      OBVIOUS
    <3>3. w \in Views /\ w.items = Lit(r) /\ w.sign = v.sign /\ w.currSignId = v.currSignId
      BY <2>4, <3>1, <3>2 DEF Views
    <3>4. view' = updateSignFromId(w, r, n, v.currSignId)
      BY <1>6, <1>8, <2>1, <2>3, <2>5, <3>2 DEF addSigns
    <3>5. /\ view' \in Views /\ view'.items = w.items
          /\ Shown(r, v.currSignId) =>
                view'.currSignId = v.currSignId /\ view'.sign = v.currSignId /\ view'.ver = n
          /\ ~Shown(r, v.currSignId) => view' = w
      BY <2>2, <3>3, <3>4, SignFacts
    <3> QED
      BY <1>3, <1>5, <1>6, <1>8, <2>1, <2>4, <2>5, <3>3, <3>5
  <2>6. CASE ~IsWhole(r)
    <3>1. view' = v
      BY <1>6, <1>8, <2>1, <2>3, <2>6 DEF addSigns
    <3> QED
      BY <1>3, <1>5, <1>6, <1>8, <2>4, <2>6, <3>1
  <2> QED
    BY <2>5, <2>6
<1> QED
  BY <1>7, <1>8

\* A failure changes the text of the screen that asked.
LEMMA ErrorFacts ==
    ASSUME FetchType, onDatexError
    PROVE  /\ view' \in Views /\ view'.items = view.items /\ view'.sign = view.sign
           /\ view'.ver = view.ver /\ view'.currSignId = view.currSignId
           /\ UNCHANGED <<datexReply, datexReplyCnt, whole>>
<1>1. view \in Views /\ "Failure" \in Texts /\ UNCHANGED <<datexReply, datexReplyCnt, whole>>
  BY DEF FetchType, Texts, onDatexError
<1>2. UNCHANGED view \/ view' = [view EXCEPT !.text = "Failure"]
  BY DEF onDatexError
<1> QED
  BY <1>1, <1>2, TextFacts

\* A tap shows the details of a sign of the static reply, or none.
LEMMA TapFacts ==
    ASSUME FetchType, NEW s \in Signs \cup {NoId}, onItemSingleTapUp(s)
    PROVE  /\ view' \in Views /\ view'.items = view.items /\ s \in view.items /\ act # 0
           /\ view'.sign # NoSign =>
                 view'.currSignId = view'.sign /\ view'.ver = datexReplyCnt
           /\ UNCHANGED <<main, click, act, acts, opt, queue, bg, looper, datexReply,
                          datexReplyCnt, whole, reported>>
<1>1. PICK v : v = [view EXCEPT !.sign = NoSign, !.ver = 0]
  OBVIOUS
<1>2. v \in Views /\ v.items = view.items /\ v.sign = NoSign
  BY <1>1 DEF FetchType, Views
<1>3. view' = updateSignFromId(v, datexReply[1], datexReplyCnt, s)
  BY <1>1 DEF onItemSingleTapUp
<1>4. datexReplyCnt \in Nat
  BY DEF FetchType
<1>5. /\ view' \in Views /\ view'.items = v.items
      /\ Shown(datexReply[1], s) =>
            view'.currSignId = s /\ view'.sign = s /\ view'.ver = datexReplyCnt
      /\ ~Shown(datexReply[1], s) => view' = v
  BY <1>2, <1>3, <1>4, SignFacts
<1>6. /\ s \in view.items /\ act # 0
      /\ UNCHANGED <<main, click, act, acts, opt, queue, bg, looper, datexReply,
                     datexReplyCnt, whole, reported>>
  BY DEF onItemSingleTapUp
<1> QED
  BY <1>2, <1>5, <1>6

\* Every step keeps the types.
LEMMA NextFetchType == FetchType /\ [FetchNext]_fetchVars => FetchType'
<1> SUFFICES ASSUME FetchType, [FetchNext]_fetchVars PROVE FetchType'
  OBVIOUS
<1>1. CASE onCreate
  <2>1. /\ view' = EmptyView /\ acts' = acts + 1 /\ act' = acts + 1
        /\ UNCHANGED <<main, click, opt, queue, bg, looper, datexReply, datexReplyCnt, whole, reported>>
    BY <1>1 DEF onCreate
  <2>2. view' \in Views /\ view'.items = {}
    BY <2>1, OptionFacts
  <2>3. acts' \in Nat /\ act' \in Nat /\ act' <= acts' /\ act' # 0
    BY <2>1 DEF FetchType
  <2> QED
    BY <2>1, <2>2, <2>3 DEF FetchType
<1>2. CASE onStop
  <2>1. /\ view' = EmptyView /\ act' = 0 /\ main.pc = "idle"
        /\ UNCHANGED <<main, click, acts, opt, queue, bg, looper, datexReply, datexReplyCnt, whole,
                       reported>>
    BY <1>2 DEF onStop, UiIdle
  <2>2. view' \in Views /\ view'.items = {}
    BY <2>1, OptionFacts
  <2>3. acts \in Nat /\ 0 <= acts
    BY DEF FetchType
  <2> QED
    BY <2>1, <2>2, <2>3 DEF FetchType
<1>3. ASSUME UiRefuses PROVE FetchType'
  <2>1. view' \in Views /\ view'.items = view.items
    BY <1>3, TextFacts DEF UiRefuses, FetchType
  <2>2. click' \in Nat
    BY <1>3 DEF UiRefuses, FetchType
  <2>3. main' \in UiThread /\ (main'.pc # "idle" => act' # 0)
    BY <1>3, UiFacts DEF UiRefuses, FetchType
  <2>4. UNCHANGED <<act, acts, opt, queue, bg, looper, datexReply, datexReplyCnt, whole, reported>>
    BY <1>3 DEF UiRefuses
  <2> QED
    BY <2>1, <2>2, <2>3, <2>4 DEF FetchType
<1>4. ASSUME UiWrites PROVE FetchType'
  <2>1. PICK o \in Options, v \in Values, pc \in {"fill", "http", "proto", "exec"} :
           main' = [main EXCEPT !.pc = pc] /\ opt' = Wrote(click, o, v)
    BY <1>4 DEF UiWrites
  <2>2. /\ UNCHANGED <<click, act, acts, queue, bg, looper, datexReply, datexReplyCnt, whole, view, reported>>
        /\ main.pc # "idle"
    BY <1>4 DEF UiWrites
  <2>3. /\ main \in UiThread /\ opt \in [Options -> Seq(Writes)] /\ click \in Nat /\ act # 0
        /\ \A k \in Options : opt[k] \in Seq(Writes) /\ Len(opt[k]) >= 1
    BY <2>2 DEF FetchType
  <2>4. main' \in UiThread
    BY <2>1, <2>3, UiFacts
  <2>5. opt' \in [Options -> Seq(Writes)] /\ Len(opt'[o]) = Len(opt[o]) + 1
        /\ \A k \in Options : k # o => opt'[k] = opt[k]
    BY <2>1, <2>3, WroteFacts
  <2>6. \A k \in Options : Len(opt'[k]) >= 1
    BY <2>3, <2>5
  <2> QED
    BY <2>2, <2>3, <2>4, <2>5, <2>6 DEF FetchType
<1>5. ASSUME NEW p \in Protocols, RefreshPsid(p) PROVE FetchType'
  <2>1. CASE /\ main' \in UiThread /\ main'.pc = "ssp" /\ act # 0
             /\ click' = click + 1 /\ opt' = Wrote(click + 1, "psid", "parsed")
             /\ UNCHANGED <<act, acts, queue, bg, looper, datexReply, datexReplyCnt, whole, view, reported>>
    <3>1. /\ opt \in [Options -> Seq(Writes)] /\ click + 1 \in Nat /\ "parsed" \in Values
          /\ \A k \in Options : opt[k] \in Seq(Writes) /\ Len(opt[k]) >= 1
      BY DEF FetchType, Values
    <3>2. opt' \in [Options -> Seq(Writes)] /\ Len(opt'["psid"]) = Len(opt["psid"]) + 1
          /\ \A k \in Options : k # "psid" => opt'[k] = opt[k]
      BY <2>1, <3>1, OptionFacts, WroteFacts
    <3>3. PICK o \in Options : o = "psid"
      BY OptionFacts
    <3>4. \A k \in Options : Len(opt'[k]) >= 1
      <4>1. \A k \in Options : Len(opt[k]) \in Nat /\ Len(opt[k]) >= 1
        BY <3>1
      <4>2. Len(opt'["psid"]) >= 1
        BY <3>2, <3>3, <4>1
      <4> QED
        BY <3>2, <4>1, <4>2
    <3> QED
      BY <2>1, <3>1, <3>2, <3>4 DEF FetchType
  <2> QED
    BY <1>3, <1>5, <2>1, PsidFacts
<1>6. ASSUME NEW s \in Signs \cup {NoId}, onItemSingleTapUp(s) PROVE FetchType'
  <2>2. /\ view' \in Views /\ view'.items = view.items
        /\ UNCHANGED <<main, click, act, acts, opt, queue, bg, looper, datexReply,
                       datexReplyCnt, whole, reported>>
    BY <1>6, TapFacts
  <2> QED
    BY <2>2 DEF FetchType
<1>7. CASE RefreshExecute
  <2>1. /\ main' \in UiThread /\ main'.pc = "idle" /\ queue' \in Seq(Tasks)
        /\ view' = [view EXCEPT !.text = "Requesting"]
        /\ UNCHANGED <<click, act, acts, opt, bg, looper, datexReply, datexReplyCnt, whole, reported>>
    BY <1>7, ExecuteFacts
  <2>2. "Requesting" \in Texts /\ view \in Views
    BY DEF Texts, FetchType
  <2>3. view' \in Views /\ view'.items = view.items
    BY <2>1, <2>2, TextFacts
  <2> QED
    BY <2>1, <2>3 DEF FetchType
<1>8. CASE onPostExecute
  <2>1. \A i \in 1..Len(looper') : looper'[i].what = "MSG_DATEX_OK" => looper'[i].res.kind = "signs"
    <3> SUFFICES ASSUME NEW i \in 1..Len(looper'), looper'[i].what = "MSG_DATEX_OK"
                 PROVE  looper'[i].res.kind = "signs"
      OBVIOUS
    <3>1. i \in 1..(Len(looper) - 1) \/ i = Len(looper)
      BY <1>8, PostFacts
    <3>2. CASE i \in 1..(Len(looper) - 1)
      <4>1. i + 1 \in 1..Len(looper) /\ looper'[i] = looper[i + 1]
        BY <1>8, <3>2, PostFacts
      <4> QED
        BY <4>1 DEF FetchType
    <3>3. CASE i = Len(looper)
      BY <1>8, <3>3, PostFacts
    <3> QED
      BY <3>1, <3>2, <3>3
  <2>2. /\ looper' \in Seq(Messages)
        /\ UNCHANGED <<main, click, act, acts, opt, queue, bg, datexReply, datexReplyCnt, whole,
                       view, reported>>
    BY <1>8, PostFacts
  <2> QED
    BY <2>1, <2>2 DEF FetchType
<1>9. ASSUME onDatexOk \/ onDatexError,
             view' \in Views /\ datexReplyCnt' \in Nat /\ (datexReply' # <<>> => datexReply'[1] \in Replies)
             /\ (view'.items # {} => datexReply' # <<>>)
      PROVE  FetchType'
  <2>1. /\ looper' \in Seq(Messages) /\ reported' \in Seq(Nat)
        /\ UNCHANGED <<main, click, act, acts, opt, queue, bg>>
    BY <1>9, ToldFacts
  <2>2. \A i \in 1..Len(looper') : looper'[i].what = "MSG_DATEX_OK" => looper'[i].res.kind = "signs"
    BY <1>9, ToldFacts DEF FetchType
  <2> QED
    BY <1>9, <2>1, <2>2 DEF FetchType
<1>10. CASE onDatexOk
  <2>1. PICK r : r = looper[1].res.reply
    OBVIOUS
  <2>2. r \in Replies /\ datexReply' = <<r>> /\ datexReplyCnt' = datexReplyCnt + 1 /\ view' \in Views
    BY <1>10, <2>1, OkFacts
  <2>3. datexReplyCnt' \in Nat
    BY <2>2 DEF FetchType
  <2>4. datexReply'[1] = r /\ datexReply' # <<>>
    BY <2>2
  <2> QED
    BY <1>9, <1>10, <2>2, <2>3, <2>4
<1>11. CASE onDatexError
  <2>1. view' \in Views /\ view'.items = view.items /\ UNCHANGED <<datexReply, datexReplyCnt, whole>>
    BY <1>11, ErrorFacts
  <2> QED
    BY <1>9, <1>11, <2>1 DEF FetchType
<1>12. CASE StartTask
  <2>1. /\ queue' \in Seq(Tasks) /\ bg' \in Threads /\ bg'.task \in Tasks
        /\ UNCHANGED <<main, click, act, acts, opt, looper, datexReply, datexReplyCnt, whole, view, reported>>
    BY <1>12, StartFacts
  <2> QED
    BY <2>1 DEF FetchType
<1>13. ASSUME BgReads PROVE FetchType'
  <2>1. PICK o \in Options : \E w \in Visible(o) : \E pc \in {"psid", "ssp", "get"} :
           bg' = [bg EXCEPT !.used[o] = w, !.pc = pc]
    BY <1>13 DEF BgReads
  <2>2. PICK w \in Visible(o) : \E pc \in {"psid", "ssp", "get"} :
           bg' = [bg EXCEPT !.used[o] = w, !.pc = pc]
    BY <2>1
  <2>3. PICK pc \in {"psid", "ssp", "get"} : bg' = [bg EXCEPT !.used[o] = w, !.pc = pc]
    BY <2>2
  <2>4. /\ bg.pc # "none" /\ UNCHANGED <<main, click, act, acts, opt, queue, looper, datexReply,
                                         datexReplyCnt, whole, view, reported>>
    BY <1>13 DEF BgReads
  <2>5. bg' \in Threads /\ bg'.task = bg.task
    BY <2>3, <2>4, ReadFacts
  <2> QED
    BY <2>4, <2>5 DEF FetchType
<1>14. ASSUME NEW r \in Results, FetchReturns(r) PROVE FetchType'
  <2>1. /\ bg' \in Threads /\ bg'.pc = "none" /\ looper' \in Seq(Messages)
        /\ UNCHANGED <<main, click, act, acts, opt, queue, datexReply, datexReplyCnt, whole, view, reported>>
    BY <1>14, ReturnFacts
  <2>2. \A i \in 1..Len(looper') : looper'[i].what = "MSG_DATEX_OK" => looper'[i].res.kind = "signs"
    <3> SUFFICES ASSUME NEW i \in 1..Len(looper'), looper'[i].what = "MSG_DATEX_OK"
                 PROVE  looper'[i].res.kind = "signs"
      OBVIOUS
    <3>1. i \in 1..Len(looper) \/ i = Len(looper) + 1
      BY <1>14, ReturnFacts
    <3>2. i \in 1..Len(looper) /\ looper'[i] = looper[i]
      BY <1>14, <3>1, ReturnFacts
    <3> QED
      BY <3>2 DEF FetchType
  <2> QED
    BY <2>1, <2>2 DEF FetchType
<1>15. CASE FetchAborts
  <2>1. UNCHANGED <<main, click, act, acts, opt, queue, bg, looper, datexReply, datexReplyCnt, whole, view,
                    reported>>
    BY <1>15 DEF FetchAborts, bgUnchanged
  <2> QED
    BY <2>1 DEF FetchType
<1>16. CASE UNCHANGED fetchVars
  BY <1>16 DEF fetchVars, FetchType
<1>17. CASE RefreshSsp \/ RefreshFill \/ RefreshHttp \/ RefreshProto
  BY <1>3, <1>4, <1>17, UiSteps
<1>18. CASE ReadProtocol \/ ReadPsid \/ ReadSsp
  BY <1>13, <1>18, ReadSteps
<1> QED
  BY <1>1, <1>2, <1>5, <1>6, <1>7, <1>8, <1>10, <1>11, <1>12, <1>14, <1>15, <1>16, <1>17, <1>18
     DEF FetchNext, UiStep, Background

-----------------------------------------------------------------------------
(* The options a fetch works with. *)

\* The tasks not told yet, wherever they are.
Held == {looper[i].task : i \in 1..Len(looper)} \cup {t \in {bg.task} : bg.pc # "none"}
          \cup {queue[i] : i \in 1..Len(queue)}

LEMMA HeldTasks == FetchType => Held \subseteq Tasks
<1> SUFFICES ASSUME FetchType PROVE Held \subseteq Tasks
  OBVIOUS
<1>1. \A i \in 1..Len(looper) : looper[i].task \in Tasks
  <2>1. looper \in Seq(Messages)
    BY DEF FetchType
  <2>2. \A i \in 1..Len(looper) : looper[i] \in Messages
    BY <2>1
  <2> QED
    BY <2>2 DEF Messages
<1>2. \A i \in 1..Len(queue) : queue[i] \in Tasks
  BY DEF FetchType
<1>3. bg.pc # "none" => bg.task \in Tasks
  BY DEF FetchType
<1> QED
  BY <1>1, <1>2, <1>3 DEF Held

\* No step makes up a task; only execute adds one.
LEMMA HeldSteps ==
    ASSUME FetchType, [FetchNext]_fetchVars
    PROVE  Held' \subseteq Held \/ (RefreshExecute /\ Held' \subseteq Held \cup {NewTask})
<1>1. UNCHANGED <<looper, bg, queue>> => Held' \subseteq Held
  BY DEF Held
<1>2. CASE RefreshExecute
  <2>1. \A i \in 1..Len(queue') : queue'[i] \in Held \cup {NewTask}
    <3> SUFFICES ASSUME NEW i \in 1..Len(queue') PROVE queue'[i] \in Held \cup {NewTask}
      OBVIOUS
    <3>1. i \in 1..Len(queue) \/ i = Len(queue) + 1
      BY <1>2, ExecuteFacts
    <3>2. CASE i \in 1..Len(queue)
      <4>1. queue'[i] = queue[i]
        BY <1>2, <3>2, ExecuteFacts
      <4> QED
        BY <3>2, <4>1 DEF Held
    <3>3. CASE i = Len(queue) + 1
      BY <1>2, <3>3, ExecuteFacts
    <3> QED
      BY <3>1, <3>2, <3>3
  <2>2. UNCHANGED <<looper, bg>>
    BY <1>2, ExecuteFacts
  <2>3. Held' \subseteq Held \cup {NewTask}
    BY <2>1, <2>2 DEF Held
  <2> QED
    BY <1>2, <2>3
<1>3. CASE onPostExecute
  <2>1. \A i \in 1..Len(looper') : looper'[i].task \in Held
    <3> SUFFICES ASSUME NEW i \in 1..Len(looper') PROVE looper'[i].task \in Held
      OBVIOUS
    <3>1. i \in 1..(Len(looper) - 1) \/ i = Len(looper)
      BY <1>3, PostFacts
    <3>2. CASE i \in 1..(Len(looper) - 1)
      <4>1. looper'[i] = looper[i + 1] /\ i + 1 \in 1..Len(looper)
        BY <1>3, <3>2, PostFacts
      <4> QED
        BY <4>1 DEF Held
    <3>3. CASE i = Len(looper)
      <4>1. looper'[i].task = looper[1].task /\ 1 \in 1..Len(looper)
        BY <1>3, <3>3, PostFacts
      <4> QED
        BY <4>1 DEF Held
    <3> QED
      BY <3>1, <3>2, <3>3
  <2>2. UNCHANGED <<queue, bg>>
    BY <1>3, PostFacts
  <2> QED
    BY <2>1, <2>2 DEF Held
<1>4. CASE onDatexOk \/ onDatexError
  <2>1. \A i \in 1..Len(looper') : looper'[i].task \in Held
    BY <1>4, ToldFacts DEF Held
  <2>2. UNCHANGED <<queue, bg>>
    BY <1>4, ToldFacts
  <2> QED
    BY <2>1, <2>2 DEF Held
<1>5. CASE StartTask
  <2>1. \A i \in 1..Len(queue') : queue'[i] \in Held
    BY <1>5, StartFacts DEF Held
  <2>2. bg'.task = queue[1] /\ 1 \in 1..Len(queue) /\ UNCHANGED looper
    BY <1>5, StartFacts
  <2>3. bg'.task \in Held
    BY <2>2 DEF Held
  <2> QED
    BY <2>1, <2>2, <2>3 DEF Held
<1>6. CASE BgReads
  <2>1. PICK o \in Options : \E w \in Visible(o) : \E pc \in {"psid", "ssp", "get"} :
           bg' = [bg EXCEPT !.used[o] = w, !.pc = pc]
    BY <1>6 DEF BgReads
  <2>2. bg.pc # "none" /\ UNCHANGED <<queue, looper>>
    BY <1>6 DEF BgReads
  <2>3. bg'.task = bg.task
    BY <2>1, <2>2, ReadFacts
  <2> QED
    BY <2>2, <2>3 DEF Held
<1>7. ASSUME NEW r \in Results, FetchReturns(r) PROVE Held' \subseteq Held
  <2>1. \A i \in 1..Len(looper') : looper'[i].task \in Held
    <3> SUFFICES ASSUME NEW i \in 1..Len(looper') PROVE looper'[i].task \in Held
      OBVIOUS
    <3>1. i \in 1..Len(looper) \/ i = Len(looper) + 1
      BY <1>7, ReturnFacts
    <3>2. CASE i \in 1..Len(looper)
      <4>1. looper'[i] = looper[i]
        BY <1>7, <3>2, ReturnFacts
      <4> QED
        BY <3>2, <4>1 DEF Held
    <3>3. CASE i = Len(looper) + 1
      <4>1. looper'[i].task = bg.task /\ bg.pc # "none"
        BY <1>7, <3>3, ReturnFacts
      <4> QED
        BY <4>1 DEF Held
    <3> QED
      BY <3>1, <3>2, <3>3
  <2>2. UNCHANGED queue /\ bg'.pc = "none"
    BY <1>7, ReturnFacts
  <2> QED
    BY <2>1, <2>2 DEF Held
<1>8. onCreate \/ onStop \/ FetchAborts \/ UNCHANGED fetchVars => UNCHANGED <<looper, bg, queue>>
  BY DEF onCreate, onStop, FetchAborts, bgUnchanged, fetchVars
<1>9. (\E p \in Protocols : RefreshPsid(p)) \/ (\E s \in Signs \cup {NoId} : onItemSingleTapUp(s))
      => UNCHANGED <<looper, bg, queue>>
  BY DEF RefreshPsid, clickUnchanged, onItemSingleTapUp
<1>10. RefreshSsp \/ RefreshFill \/ RefreshHttp \/ RefreshProto => UNCHANGED <<looper, bg, queue>>
  BY DEF RefreshSsp, RefreshFill, RefreshHttp, RefreshProto, clickUnchanged
<1>11. CASE ReadProtocol \/ ReadPsid \/ ReadSsp
  BY <1>6, <1>11, ReadSteps
<1> QED
  BY <1>1, <1>2, <1>3, <1>4, <1>5, <1>7, <1>8, <1>9, <1>10, <1>11
     DEF FetchNext, UiStep, Background

\* v is what a click leaves of option o for its task t.
Whole(t, o, v) ==
    /\ o = "psid" => v = "parsed"
    /\ o = "ssp" => v = "full"
    /\ o = "proto" => v = t.asked

\* Whatever task t can still read is of its click and complete, or of a later one.
Honoured(t) ==
    \A o \in Options :
      /\ t.pub[o] <= Len(opt[o])
      /\ \A i \in t.pub[o]..Len(opt[o]) :
            opt[o][i].by >= t.id /\ (opt[o][i].by = t.id => Whole(t, o, opt[o][i].val))

\* The newest write of o is v, by the click being handled.
Newest(o, v) == opt[o][Len(opt[o])].by = click /\ opt[o][Len(opt[o])].val = v

\* The tasks not told yet are of clicks that are over and can only read what honours them; a click
\* has completed what it has come past; and what was read is what could be read.
ClickInv ==
    /\ \A t \in Held : t.id <= click /\ (main.pc # "idle" => t.id < click) /\ Honoured(t)
    /\ main.pc # "idle" => Newest("psid", "parsed")
    /\ main.pc \in {"http", "proto", "exec"} => Newest("ssp", "full")
    /\ main.pc = "exec" => Newest("proto", main.proto)
    /\ \A o \in Options : bg.used[o] # NotRead =>
          /\ bg.pc # "none" /\ bg.used[o].by >= bg.task.id
          /\ bg.used[o].by = bg.task.id => Whole(bg.task, o, bg.used[o].val)

LEMMA InitClick == FetchInit => ClickInv
<1> SUFFICES ASSUME FetchInit PROVE ClickInv
  OBVIOUS
<1>1. looper = <<>> /\ queue = <<>> /\ bg.pc = "none" /\ bg.used = NoneUsed /\ main.pc = "idle"
  BY DEF FetchInit
<1>2. Held = {}
  BY <1>1 DEF Held
<1>3. \A o \in Options : bg.used[o] = NotRead
  BY <1>1 DEF NoneUsed
<1> QED
  BY <1>1, <1>2, <1>3 DEF ClickInv

\* A write by a later click leaves a task what honours it.
LEMMA HonouredWrite ==
    ASSUME FetchType, NEW t \in Tasks, Honoured(t), NEW c \in Nat, c > t.id, NEW o \in Options,
           NEW v \in Values, opt' = Wrote(c, o, v)
    PROVE  Honoured(t)'
<1>1. opt \in [Options -> Seq(Writes)]
  BY DEF FetchType
<1>2. /\ Len(opt'[o]) = Len(opt[o]) + 1 /\ opt'[o][Len(opt[o]) + 1].by = c
      /\ \A i \in 1..Len(opt[o]) : opt'[o][i] = opt[o][i]
      /\ \A k \in Options : k # o => opt'[k] = opt[k]
  BY <1>1, WroteFacts
<1>3. t.id \in Nat /\ \A k \in Options : t.pub[k] \in Nat \ {0}
  BY DEF Tasks
<1> SUFFICES ASSUME NEW k \in Options
             PROVE  /\ t.pub[k] <= Len(opt'[k])
                    /\ \A i \in t.pub[k]..Len(opt'[k]) :
                          /\ opt'[k][i].by >= t.id
                          /\ opt'[k][i].by = t.id => Whole(t, k, opt'[k][i].val)
  BY DEF Honoured, Whole
<1>4. CASE k # o
  BY <1>2, <1>4 DEF Honoured
<1>5. CASE k = o
  <2>1. Len(opt[k]) \in Nat /\ t.pub[k] <= Len(opt[k])
    BY <1>1 DEF Honoured
  <2>2. t.pub[k] <= Len(opt'[k])
    BY <1>2, <1>3, <1>5, <2>1
  <2>3. ASSUME NEW i \in t.pub[k]..Len(opt'[k])
        PROVE  opt'[k][i].by >= t.id /\ (opt'[k][i].by = t.id => Whole(t, k, opt'[k][i].val))
    <3>1. i \in t.pub[k]..Len(opt[k]) \/ i = Len(opt[k]) + 1
      BY <1>2, <1>3, <1>5, <2>1
    <3>2. CASE i \in t.pub[k]..Len(opt[k])
      <4>1. i \in 1..Len(opt[k])
        BY <1>3, <2>1, <3>2
      <4>2. opt'[k][i] = opt[k][i]
        BY <1>2, <1>5, <4>1
      <4> QED
        BY <3>2, <4>2 DEF Honoured
    <3>3. CASE i = Len(opt[k]) + 1
      BY <1>2, <1>3, <1>5, <3>3
    <3> QED
      BY <3>1, <3>2, <3>3
  <2> QED
    BY <2>2, <2>3
<1> QED
  BY <1>4, <1>5

\* Steps of the UI thread that leave the tasks alone: what there is is kept, given
\* that the click has completed what it has come past.
LEMMA ClickKept ==
    ASSUME FetchType, ClickInv, Held' \subseteq Held, UNCHANGED bg, click' \in Nat,
           \/ UNCHANGED opt /\ click' >= click /\ (main'.pc # "idle" => \A t \in Held : t.id < click')
           \/ \E o \in Options, v \in Values : opt' = Wrote(click', o, v) /\ \A t \in Held : t.id < click',
           main'.pc # "idle" => Newest("psid", "parsed")',
           main'.pc \in {"http", "proto", "exec"} => Newest("ssp", "full")',
           main'.pc = "exec" => Newest("proto", main.proto)'
    PROVE  ClickInv'
<1>1. ASSUME NEW t \in Held PROVE t.id <= click' /\ (main'.pc # "idle" => t.id < click') /\ Honoured(t)'
  <2>1. t \in Tasks /\ t.id <= click /\ Honoured(t) /\ t.id \in Nat /\ click \in Nat
    BY <1>1, HeldTasks DEF ClickInv, Tasks, FetchType
  <2>2. CASE /\ UNCHANGED opt /\ click' >= click
             /\ main'.pc # "idle" => \A x \in Held : x.id < click'
    <3>1. Honoured(t)'
      BY <2>1, <2>2 DEF Honoured, Whole
    <3>2. t.id <= click' /\ (main'.pc # "idle" => t.id < click')
      BY <1>1, <2>1, <2>2
    <3> QED
      BY <3>1, <3>2
  <2>3. ASSUME NEW o \in Options, NEW v \in Values, opt' = Wrote(click', o, v), t.id < click'
        PROVE  t.id <= click' /\ (main'.pc # "idle" => t.id < click') /\ Honoured(t)'
    <3>1. PICK c \in Nat : c = click'
      OBVIOUS
    <3>2. Honoured(t)'
      BY <2>1, <2>3, <3>1, HonouredWrite
    <3> QED
      BY <2>1, <2>3, <3>2
  <2> QED
    BY <1>1, <2>2, <2>3
<1>2. \A t \in Held' : t.id <= click' /\ (main'.pc # "idle" => t.id < click') /\ Honoured(t)'
  BY <1>1
<1>3. \A o \in Options : bg'.used[o] # NotRead =>
          /\ bg'.pc # "none" /\ bg'.used[o].by >= bg'.task.id
          /\ bg'.used[o].by = bg'.task.id => Whole(bg.task, o, bg.used[o].val)'
  BY DEF ClickInv, Whole
<1> QED
  BY <1>2, <1>3 DEF ClickInv

\* A write is the newest of its option and leaves the others.
LEMMA NewestWrite ==
    ASSUME FetchType, click' \in Nat, NEW o \in Options, NEW v \in Values, opt' = Wrote(click', o, v)
    PROVE  /\ opt'[o][Len(opt'[o])].by = click' /\ opt'[o][Len(opt'[o])].val = v
           /\ \A k \in Options : k # o => opt'[k] = opt[k]
<1>1. opt \in [Options -> Seq(Writes)]
  BY DEF FetchType
<1>2. PICK c \in Nat : c = click'
  OBVIOUS
<1>3. opt' = Wrote(c, o, v)
  BY <1>2
<1>4. /\ Len(opt'[o]) = Len(opt[o]) + 1
      /\ opt'[o][Len(opt[o]) + 1].by = c /\ opt'[o][Len(opt[o]) + 1].val = v
      /\ \A k \in Options : k # o => opt'[k] = opt[k]
  BY <1>1, <1>3, WroteFacts
<1> QED
  BY <1>2, <1>4

\* Every step keeps it.
LEMMA NextClick == FetchType /\ ClickInv /\ [FetchNext]_fetchVars => ClickInv'
<1> SUFFICES ASSUME FetchType, ClickInv, [FetchNext]_fetchVars PROVE ClickInv'
  OBVIOUS
<1>0. click \in Nat /\ main \in UiThread /\ \A t \in Held : t.id \in Nat /\ t \in Tasks
  BY HeldTasks DEF FetchType, Tasks
<1>a. "psid" \in Options /\ "ssp" \in Options /\ "proto" \in Options
  BY DEF Options
<1>1. ASSUME UNCHANGED <<main, click, opt, bg>>, Held' \subseteq Held PROVE ClickInv'
  <2>1. /\ main'.pc # "idle" => Newest("psid", "parsed")'
        /\ main'.pc \in {"http", "proto", "exec"} => Newest("ssp", "full")'
        /\ main'.pc = "exec" => Newest("proto", main.proto)'
    BY <1>1 DEF ClickInv, Newest
  <2>2. main'.pc # "idle" => \A t \in Held : t.id < click'
    BY <1>1 DEF ClickInv
  <2>3. UNCHANGED <<bg, opt>> /\ click' \in Nat /\ click' >= click
    BY <1>0, <1>1
  <2> QED
    BY <1>1, <2>1, <2>2, <2>3, ClickKept
<1>2. ASSUME UNCHANGED <<opt, queue, bg, looper>>, main'.pc = "idle", click' \in {click, click + 1}
      PROVE ClickInv'
  <2>1. Held' \subseteq Held /\ click' \in Nat /\ click' >= click
    BY <1>0, <1>2 DEF Held
  <2> QED
    BY <1>2, <2>1, ClickKept
<1>3. ASSUME NEW p \in Protocols, RefreshPsid(p) PROVE ClickInv'
  <2>1. CASE UiRefuses /\ main.pc = "idle"
    <3>1. UNCHANGED <<opt, queue, bg, looper>> /\ click' \in {click, click + 1}
      BY <2>1 DEF UiRefuses
    <3>2. main'.pc = "idle"
      BY <1>0, <2>1, UiFacts DEF UiRefuses
    <3> QED
      BY <1>2, <3>1, <3>2
  <2>2. CASE /\ main'.pc = "ssp" /\ click' = click + 1 /\ opt' = Wrote(click + 1, "psid", "parsed")
             /\ UNCHANGED <<queue, bg, looper>>
    <3>1. Held' \subseteq Held /\ click' \in Nat /\ \A t \in Held : t.id < click'
      BY <1>0, <2>2 DEF Held, ClickInv
    <3>2. "parsed" \in Values /\ opt' = Wrote(click', "psid", "parsed")
      BY <2>2 DEF Values
    <3>3. Newest("psid", "parsed")'
      BY <1>a, <3>1, <3>2, NewestWrite DEF Newest
    <3> QED
      BY <1>a, <2>2, <3>1, <3>2, <3>3, ClickKept
  <2> QED
    BY <1>3, <2>1, <2>2, PsidFacts
<1>4. ASSUME main.pc # "idle", UNCHANGED <<click, queue, bg, looper>>,
             NEW o \in Options, NEW v \in Values, opt' = Wrote(click, o, v),
             main'.pc # "idle" => Newest("psid", "parsed")',
             main'.pc \in {"http", "proto", "exec"} => Newest("ssp", "full")',
             main'.pc = "exec" => Newest("proto", main.proto)'
      PROVE  ClickInv'
  <2>1. Held' \subseteq Held /\ click' \in Nat /\ UNCHANGED bg /\ \A t \in Held : t.id < click'
    BY <1>0, <1>4 DEF Held, ClickInv
  <2>2. opt' = Wrote(click', o, v)
    BY <1>4
  <2> QED
    BY <1>4, <2>1, <2>2, ClickKept
<1>5. CASE RefreshSsp
  <2>1. CASE main' = [main EXCEPT !.pc = "fill"] /\ opt' = Wrote(click, "ssp", "zero")
    <3>1. main.pc = "ssp" /\ UNCHANGED <<click, queue, bg, looper>> /\ main'.pc = "fill"
      BY <1>0, <1>5, <2>1, UiFacts DEF RefreshSsp, clickUnchanged
    <3>2. "zero" \in Values /\ opt' = Wrote(click', "ssp", "zero") /\ click' \in Nat
      BY <1>0, <2>1, <3>1 DEF Values
    <3>3. opt'["psid"] = opt["psid"]
      BY <1>a, <3>2, NewestWrite
    <3>4. Newest("psid", "parsed")'
      BY <3>1, <3>3 DEF Newest, ClickInv
    <3> QED
      BY <1>a, <1>4, <2>1, <3>1, <3>2, <3>4
  <2>2. CASE main' = [main EXCEPT !.pc = "idle"] /\ UNCHANGED opt
    <3>1. UNCHANGED <<opt, queue, bg, looper>> /\ main'.pc = "idle" /\ click' = click
      BY <1>0, <1>5, <2>2, UiFacts DEF RefreshSsp, clickUnchanged
    <3> QED
      BY <1>2, <3>1
  <2> QED
    BY <1>5, <2>1, <2>2 DEF RefreshSsp
<1>6. CASE RefreshFill
  <2>1. main.pc = "fill" /\ UNCHANGED <<click, queue, bg, looper>> /\ main'.pc = "http"
    BY <1>0, <1>6, UiFacts DEF RefreshFill, clickUnchanged
  <2>2. "full" \in Values /\ opt' = Wrote(click', "ssp", "full") /\ click' \in Nat
    BY <1>0, <1>6, <2>1 DEF RefreshFill, Values
  <2>3. opt'["psid"] = opt["psid"]
    BY <1>a, <2>2, NewestWrite
  <2>4. Newest("psid", "parsed")'
    BY <2>1, <2>3 DEF Newest, ClickInv
  <2>5. Newest("ssp", "full")'
    BY <1>a, <2>2, NewestWrite DEF Newest
  <2>6. opt' = Wrote(click, "ssp", "full")
    BY <1>6 DEF RefreshFill
  <2> QED
    BY <1>a, <1>4, <2>1, <2>2, <2>4, <2>5, <2>6
<1>7. CASE RefreshHttp
  <2>1. main.pc = "http" /\ UNCHANGED <<click, queue, bg, looper>> /\ main'.pc = "proto"
    BY <1>0, <1>7, UiFacts DEF RefreshHttp, clickUnchanged
  <2>2. "HTTP" \in Values /\ opt' = Wrote(click', "proto", "HTTP") /\ click' \in Nat
    BY <1>0, <1>7, <2>1 DEF RefreshHttp, Values, Chosen
  <2>3. opt'["psid"] = opt["psid"] /\ opt'["ssp"] = opt["ssp"]
    BY <1>a, <2>2, NewestWrite
  <2>4. Newest("psid", "parsed")' /\ Newest("ssp", "full")'
    BY <2>1, <2>3 DEF Newest, ClickInv
  <2>5. opt' = Wrote(click, "proto", "HTTP")
    BY <1>7 DEF RefreshHttp
  <2> QED
    BY <1>a, <1>4, <2>1, <2>2, <2>4, <2>5
<1>8. CASE RefreshProto
  <2>1. /\ main.pc = "proto" /\ UNCHANGED <<click, queue, bg, looper>>
        /\ main'.pc = "exec" /\ main'.proto = main.proto
    BY <1>0, <1>8, UiFacts DEF RefreshProto, clickUnchanged
  <2>2. main.proto \in Values /\ opt' = Wrote(click', "proto", main.proto) /\ click' \in Nat
    BY <1>0, <1>8, <2>1 DEF RefreshProto, Values, UiThread
  <2>3. opt'["psid"] = opt["psid"] /\ opt'["ssp"] = opt["ssp"]
    BY <1>a, <2>2, NewestWrite
  <2>4. Newest("psid", "parsed")' /\ Newest("ssp", "full")'
    BY <2>1, <2>3 DEF Newest, ClickInv
  <2>5. Newest("proto", main.proto)'
    BY <1>a, <2>1, <2>2, NewestWrite DEF Newest
  <2>6. opt' = Wrote(click, "proto", main.proto)
    BY <1>8 DEF RefreshProto
  <2> QED
    BY <1>a, <1>4, <2>1, <2>2, <2>4, <2>5, <2>6
<1>9. CASE RefreshExecute
  <2>1. /\ main'.pc = "idle" /\ main.pc = "exec" /\ UNCHANGED <<click, act, opt, bg>>
        /\ Held' \subseteq Held \cup {NewTask}
    BY <1>9, ExecuteFacts, HeldSteps
  <2>2. \A t \in Held : t.id <= click' /\ Honoured(t)'
    BY <2>1 DEF ClickInv, Honoured, Whole
  <2>3. PICK t : t = NewTask
    OBVIOUS
  <2>4. /\ t.id = click /\ t.asked = main.proto /\ \A o \in Options : t.pub[o] = Len(opt[o])
    BY <2>3, NewTaskFacts
  <2>5. /\ opt["psid"][Len(opt["psid"])].by = click /\ opt["psid"][Len(opt["psid"])].val = "parsed"
        /\ opt["ssp"][Len(opt["ssp"])].by = click /\ opt["ssp"][Len(opt["ssp"])].val = "full"
        /\ opt["proto"][Len(opt["proto"])].by = click
        /\ opt["proto"][Len(opt["proto"])].val = main.proto
    BY <2>1 DEF ClickInv, Newest
  <2>6. \A o \in Options : /\ opt[o][Len(opt[o])].by = click
                           /\ Whole(t, o, opt[o][Len(opt[o])].val)
    BY <2>4, <2>5 DEF Options, Whole
  <2>7. \A o \in Options : Len(opt[o]) \in Nat
    BY DEF FetchType
  <2>8. \A o \in Options : \A i \in Len(opt[o])..Len(opt[o]) : i = Len(opt[o])
    BY <2>7
  <2>9. ASSUME NEW o \in Options
        PROVE  /\ t.pub[o] <= Len(opt[o])
               /\ \A i \in t.pub[o]..Len(opt[o]) :
                     opt[o][i].by >= t.id /\ (opt[o][i].by = t.id => Whole(t, o, opt[o][i].val))
    BY <1>0, <2>4, <2>6, <2>7, <2>8
  <2>10. Honoured(t)
    BY <2>9 DEF Honoured
  <2>11. Honoured(t)'
    BY <2>1, <2>10 DEF Honoured, Whole
  <2>12. \A x \in Held' : x.id <= click' /\ Honoured(x)'
    BY <1>0, <2>1, <2>2, <2>3, <2>4, <2>11
  <2>13. \A o \in Options : bg'.used[o] # NotRead =>
          /\ bg'.pc # "none" /\ bg'.used[o].by >= bg'.task.id
          /\ bg'.used[o].by = bg'.task.id => Whole(bg.task, o, bg.used[o].val)'
    BY <2>1 DEF ClickInv, Whole
  <2> QED
    BY <2>1, <2>12, <2>13 DEF ClickInv
<1>10. ASSUME Held' \subseteq Held, UNCHANGED <<main, click, opt>>, bg'.used = NoneUsed PROVE ClickInv'
  <2>1. \A t \in Held' : t.id <= click' /\ (main'.pc # "idle" => t.id < click') /\ Honoured(t)'
    BY <1>10 DEF ClickInv, Honoured, Whole
  <2>2. \A o \in Options : bg'.used[o] = NotRead
    BY <1>10 DEF NoneUsed
  <2>3. /\ main'.pc # "idle" => Newest("psid", "parsed")'
        /\ main'.pc \in {"http", "proto", "exec"} => Newest("ssp", "full")'
        /\ main'.pc = "exec" => Newest("proto", main.proto)'
    BY <1>10 DEF ClickInv, Newest
  <2> QED
    BY <2>1, <2>2, <2>3 DEF ClickInv
<1>11. CASE StartTask \/ \E r \in Results : FetchReturns(r)
  <2>1. UNCHANGED <<main, click, opt>> /\ bg'.used = NoneUsed /\ ~RefreshExecute
    BY <1>11, StartFacts, ReturnFacts DEF RefreshExecute, StartTask, FetchReturns, clickUnchanged
  <2> QED
    BY <1>10, <2>1, HeldSteps
<1>12. CASE BgReads
  <2>1. PICK o \in Options : \E w \in Visible(o) : \E pc \in {"psid", "ssp", "get"} :
           bg' = [bg EXCEPT !.used[o] = w, !.pc = pc]
    BY <1>12 DEF BgReads
  <2>2. PICK w \in Visible(o) : \E pc \in {"psid", "ssp", "get"} :
           bg' = [bg EXCEPT !.used[o] = w, !.pc = pc]
    BY <2>1
  <2>3. PICK pc \in {"psid", "ssp", "get"} : bg' = [bg EXCEPT !.used[o] = w, !.pc = pc]
    BY <2>2
  <2>4. bg.pc # "none" /\ UNCHANGED <<main, click, opt, queue, looper>>
    BY <1>12 DEF BgReads
  <2>5. /\ bg'.pc = pc /\ bg'.task = bg.task /\ bg'.used[o] = w
        /\ \A k \in Options : k # o => bg'.used[k] = bg.used[k]
        /\ \E i \in bg.task.pub[o]..Len(opt[o]) : i \in 1..Len(opt[o]) /\ w = opt[o][i]
    BY <2>3, <2>4, ReadFacts
  <2>6. bg.task \in Held
    BY <2>4 DEF Held
  <2>7. w.by >= bg.task.id /\ (w.by = bg.task.id => Whole(bg.task, o, w.val))
    BY <2>5, <2>6 DEF ClickInv, Honoured
  <2>8. ASSUME NEW k \in Options, bg'.used[k] # NotRead
        PROVE  /\ bg'.pc # "none" /\ bg'.used[k].by >= bg'.task.id
               /\ bg'.used[k].by = bg'.task.id => Whole(bg.task, k, bg.used[k].val)'
    <3>1. CASE k = o
      BY <2>5, <2>7, <3>1 DEF Whole
    <3>2. CASE k # o
      BY <2>5, <2>8, <3>2 DEF ClickInv, Whole
    <3> QED
      BY <3>1, <3>2
  <2>9. Held' = Held
    BY <2>4, <2>5 DEF Held
  <2>10. \A t \in Held' : t.id <= click' /\ (main'.pc # "idle" => t.id < click') /\ Honoured(t)'
    BY <2>4, <2>9 DEF ClickInv, Honoured, Whole
  <2>11. /\ main'.pc # "idle" => Newest("psid", "parsed")'
         /\ main'.pc \in {"http", "proto", "exec"} => Newest("ssp", "full")'
         /\ main'.pc = "exec" => Newest("proto", main.proto)'
    BY <2>4 DEF ClickInv, Newest
  <2> QED
    BY <2>8, <2>10, <2>11 DEF ClickInv
<1>13. CASE \/ onCreate \/ onStop \/ FetchAborts \/ onPostExecute \/ onDatexOk \/ onDatexError
            \/ UNCHANGED fetchVars \/ \E s \in Signs \cup {NoId} : onItemSingleTapUp(s)
  <2>1. UNCHANGED <<main, click, opt, bg>>
    BY <1>13 DEF onCreate, onStop, FetchAborts, bgUnchanged, onPostExecute, onDatexOk, onDatexError,
                 fetchVars, onItemSingleTapUp
  <2>2. ~RefreshExecute
    BY <1>0, <2>1, ExecuteFacts
  <2> QED
    BY <1>1, <2>1, <2>2, HeldSteps
<1>14. CASE ReadProtocol \/ ReadPsid \/ ReadSsp
  BY <1>12, <1>14, ReadSteps
<1> QED
  BY <1>3, <1>5, <1>6, <1>7, <1>8, <1>9, <1>11, <1>13, <1>14
     DEF FetchNext, UiStep, Background

\* For every protocol and number of clicks and activities, and though the statics of
\* DatexFetchHttp are written while a fetch may read them: a fetch works with no option of an
\* earlier click, and with none of its own click that was not complete.
THEOREM FetchClick == FetchSpec => []FetchHonoursClick
<1>1. FetchType /\ ClickInv => FetchHonoursClick
  <2> SUFFICES ASSUME FetchType, ClickInv, NEW o \in Options, bg.used[o] # NotRead
               PROVE  /\ bg.used[o].by >= bg.task.id
                      /\ bg.used[o].by = bg.task.id =>
                            bg.used[o].val = CASE o = "psid"  -> "parsed"
                                               [] o = "ssp"   -> "full"
                                               [] o = "proto" -> bg.task.asked
    BY DEF FetchHonoursClick
  <2>1. /\ bg.used[o].by >= bg.task.id
        /\ bg.used[o].by = bg.task.id => Whole(bg.task, o, bg.used[o].val)
    BY DEF ClickInv
  <2>2. o = "psid" \/ o = "ssp" \/ o = "proto"
    BY DEF Options
  <2> QED
    BY <2>1, <2>2 DEF Whole
<1> QED
  BY InitFetchType, NextFetchType, InitClick, NextClick, <1>1, PTL DEF FetchSpec

-----------------------------------------------------------------------------
(* The order in which fetches are told. *)

\* Message i of the looper's queue is told before message j.
Before(i, j) ==
    \/ looper[i].what # "finish" /\ looper[j].what = "finish"
    \/ (looper[i].what = "finish" <=> looper[j].what = "finish") /\ i < j

\* Along the way from the executor's queue to the screen the ids only grow: ReportedOnceInOrder
\* place by place, and no reported click is newer than the last.
OrderInv ==
    /\ \A i \in 1..Len(reported) : reported[i] <= click /\ (main.pc # "idle" => reported[i] < click)
    /\ \A i, j \in 1..Len(reported) : i < j => reported[i] < reported[j]
    /\ \A i \in 1..Len(reported) : \A t \in Held : reported[i] < t.id
    /\ \A i, j \in 1..Len(looper) : Before(i, j) => looper[i].task.id < looper[j].task.id
    /\ \A i \in 1..Len(looper) : bg.pc # "none" => looper[i].task.id < bg.task.id
    /\ \A i \in 1..Len(looper), j \in 1..Len(queue) : looper[i].task.id < queue[j].id
    /\ \A j \in 1..Len(queue) : bg.pc # "none" => bg.task.id < queue[j].id
    /\ \A i, j \in 1..Len(queue) : i < j => queue[i].id < queue[j].id

LEMMA InitOrder == FetchInit => OrderInv
<1> SUFFICES ASSUME FetchInit PROVE OrderInv
  OBVIOUS
<1>1. looper = <<>> /\ queue = <<>> /\ bg.pc = "none" /\ reported = <<>>
  BY DEF FetchInit
<1>2. Len(looper) = 0 /\ Len(queue) = 0 /\ Len(reported) = 0
  BY <1>1
<1> QED
  BY <1>1, <1>2 DEF OrderInv

\* The ids on the way are numbers.
LEMMA OrderTypes ==
    ASSUME FetchType
    PROVE  /\ click \in Nat /\ Len(reported) \in Nat /\ Len(looper) \in Nat /\ Len(queue) \in Nat
           /\ \A i \in 1..Len(reported) : reported[i] \in Nat
           /\ \A i \in 1..Len(looper) : looper[i].task \in Held /\ looper[i].task.id \in Nat
           /\ \A i \in 1..Len(queue) : queue[i] \in Held /\ queue[i].id \in Nat
           /\ bg.pc # "none" => bg.task \in Held /\ bg.task.id \in Nat
           /\ \A t \in Held : t.id \in Nat
<1>1. \A t \in Held : t.id \in Nat
  BY HeldTasks DEF Tasks
<1>2. /\ \A i \in 1..Len(looper) : looper[i].task \in Held
      /\ \A i \in 1..Len(queue) : queue[i] \in Held
      /\ bg.pc # "none" => bg.task \in Held
  BY DEF Held
<1>3. /\ click \in Nat /\ Len(reported) \in Nat /\ Len(looper) \in Nat /\ Len(queue) \in Nat
      /\ \A i \in 1..Len(reported) : reported[i] \in Nat
  BY DEF FetchType
<1> QED
  BY <1>1, <1>2, <1>3

\* Steps that move no fetch.
LEMMA OrderKept ==
    ASSUME OrderInv, UNCHANGED <<reported, looper, queue>>, bg'.task = bg.task,
           bg'.pc = "none" <=> bg.pc = "none",
           \A i \in 1..Len(reported) : reported[i] <= click' /\ (main'.pc # "idle" => reported[i] < click')
    PROVE  OrderInv'
<1>1. Held' = Held
  BY DEF Held
<1> QED
  BY <1>1 DEF OrderInv, Before

LEMMA ExecuteOrder == FetchType /\ ClickInv /\ OrderInv /\ RefreshExecute => OrderInv'
<1> SUFFICES ASSUME FetchType, ClickInv, OrderInv, RefreshExecute PROVE OrderInv'
  OBVIOUS
<1>1. /\ main'.pc = "idle" /\ main.pc = "exec" /\ UNCHANGED <<click, bg, looper, reported>>
      /\ Len(queue) \in Nat /\ Len(queue') = Len(queue) + 1
      /\ queue'[Len(queue) + 1].id = click
      /\ \A i \in 1..Len(queue) : queue'[i] = queue[i]
  BY ExecuteFacts, NewTaskFacts
<1>2. \A t \in Held : t.id < click
  BY <1>1 DEF ClickInv
<1>3. \A i \in 1..Len(reported) : reported[i] < click
  BY <1>1 DEF OrderInv
<1>4. \A j \in 1..Len(queue') : \/ j \in 1..Len(queue) /\ queue'[j].id = queue[j].id
                                \/ j = Len(queue) + 1 /\ queue'[j].id = click
  BY <1>1
<1>5. \A t \in Held' : t \in Held \/ t.id = click
  BY HeldSteps, NewTaskFacts DEF FetchNext, UiStep
<1>6. \A i, j \in 1..Len(queue') : i < j => queue'[i].id < queue'[j].id
  <2>1. \A i \in 1..Len(queue) : queue[i].id < click
    BY <1>2, OrderTypes
  <2>2. \A i, j \in 1..Len(queue) : i < j => queue[i].id < queue[j].id
    BY DEF OrderInv
  <2>3. Len(queue) \in Nat /\ Len(queue') = Len(queue) + 1
    BY <1>1
  <2> QED
    BY <1>4, <2>1, <2>2, <2>3
<1>7. \A i \in 1..Len(looper), j \in 1..Len(queue') : looper[i].task.id < queue'[j].id
  BY <1>2, <1>4, OrderTypes DEF OrderInv
<1>8. \A j \in 1..Len(queue') : bg.pc # "none" => bg.task.id < queue'[j].id
  BY <1>2, <1>4, OrderTypes DEF OrderInv
<1>9. \A i \in 1..Len(reported) : \A t \in Held' : reported[i] < t.id
  BY <1>3, <1>5 DEF OrderInv
<1>10. \A i \in 1..Len(reported) : reported[i] <= click
  BY DEF OrderInv
<1> QED
  BY <1>1, <1>6, <1>7, <1>8, <1>9, <1>10 DEF OrderInv, Before

LEMMA StartOrder == FetchType /\ OrderInv /\ StartTask => OrderInv'
<1> SUFFICES ASSUME FetchType, OrderInv, StartTask PROVE OrderInv'
  OBVIOUS
<1>1. /\ UNCHANGED <<main, click, looper, reported>> /\ bg'.task = queue[1]
      /\ Len(queue) \in Nat \ {0} /\ Len(queue') = Len(queue) - 1
      /\ \A i \in 1..Len(queue') : i + 1 \in 1..Len(queue) /\ queue'[i] = queue[i + 1]
  BY StartFacts
<1>2. Held' \subseteq Held
  <2>1. ~RefreshExecute
    BY <1>1, ExecuteFacts
  <2> QED
    BY <2>1, HeldSteps DEF FetchNext, Background
<1>3. 1 \in 1..Len(queue)
  BY <1>1
<1>4. \A i, j \in 1..Len(queue') : i < j => queue'[i].id < queue'[j].id
  BY <1>1 DEF OrderInv
<1>5. \A i \in 1..Len(looper), j \in 1..Len(queue') : looper[i].task.id < queue'[j].id
  BY <1>1 DEF OrderInv
<1>6. \A j \in 1..Len(queue') : bg'.task.id < queue'[j].id
  BY <1>1, <1>3 DEF OrderInv
<1>7. \A i \in 1..Len(looper) : looper[i].task.id < bg'.task.id
  BY <1>1, <1>3 DEF OrderInv
<1>8. \A i \in 1..Len(reported) : \A t \in Held' : reported[i] < t.id
  BY <1>2 DEF OrderInv
<1> QED
  BY <1>1, <1>4, <1>5, <1>6, <1>7, <1>8 DEF OrderInv, Before

LEMMA ReturnOrder ==
    ASSUME FetchType, OrderInv, NEW r \in Results, FetchReturns(r) PROVE OrderInv'
<1>1. /\ UNCHANGED <<main, click, queue, reported>> /\ bg.pc # "none" /\ bg'.pc = "none"
      /\ Len(looper) \in Nat /\ Len(looper') = Len(looper) + 1
      /\ looper'[Len(looper) + 1].what = "finish" /\ looper'[Len(looper) + 1].task = bg.task
      /\ \A i \in 1..Len(looper) : looper'[i] = looper[i]
  BY ReturnFacts
<1>2. Held' \subseteq Held
  <2>1. ~RefreshExecute
    BY <1>1, ExecuteFacts
  <2> QED
    BY <2>1, HeldSteps DEF FetchNext
<1>3. \A j \in 1..Len(looper') : \/ j \in 1..Len(looper) /\ looper'[j] = looper[j]
                                 \/ j = Len(looper) + 1
  BY <1>1
<1>4. \A i, j \in 1..Len(looper') : Before(i, j)' => looper'[i].task.id < looper'[j].task.id
  <2> SUFFICES ASSUME NEW i \in 1..Len(looper'), NEW j \in 1..Len(looper'), Before(i, j)'
               PROVE  looper'[i].task.id < looper'[j].task.id
    OBVIOUS
  <2>1. CASE i \in 1..Len(looper) /\ j \in 1..Len(looper)
    <3>1. looper'[i] = looper[i] /\ looper'[j] = looper[j]
      BY <1>1, <2>1
    <3>2. Before(i, j)
      BY <3>1 DEF Before
    <3> QED
      BY <2>1, <3>1, <3>2 DEF OrderInv
  <2>2. CASE i \in 1..Len(looper) /\ j = Len(looper) + 1
    BY <1>1, <2>2 DEF OrderInv
  <2>3. CASE i = Len(looper) + 1
    <3>1. i < j \/ looper'[i].what # "finish"
      BY <1>1, <2>3 DEF Before
    <3> QED
      BY <1>1, <2>3, <3>1
  <2> QED
    BY <1>3, <2>1, <2>2, <2>3
<1>5. \A i \in 1..Len(looper'), j \in 1..Len(queue) : looper'[i].task.id < queue[j].id
  BY <1>1, <1>3 DEF OrderInv
<1>6. \A i \in 1..Len(reported) : \A t \in Held' : reported[i] < t.id
  BY <1>2 DEF OrderInv
<1> QED
  BY <1>1, <1>4, <1>5, <1>6 DEF OrderInv

LEMMA PostOrder == FetchType /\ OrderInv /\ onPostExecute => OrderInv'
<1> SUFFICES ASSUME FetchType, OrderInv, onPostExecute PROVE OrderInv'
  OBVIOUS
<1>1. /\ UNCHANGED <<main, click, queue, bg, reported>>
      /\ Len(looper) \in Nat \ {0} /\ Len(looper') = Len(looper) /\ looper[1].what = "finish"
      /\ looper'[Len(looper)].what # "finish" /\ looper'[Len(looper)].task = looper[1].task
      /\ \A i \in 1..(Len(looper) - 1) : looper'[i] = looper[i + 1]
  BY PostFacts
<1>2. Held' \subseteq Held
  <2>1. ~RefreshExecute
    BY <1>1, ExecuteFacts
  <2> QED
    BY <2>1, HeldSteps DEF FetchNext, UiStep
<1>3. \A j \in 1..Len(looper') : \/ j \in 1..(Len(looper) - 1)
                                 \/ j = Len(looper)
  BY <1>1
<1>4. 1 \in 1..Len(looper) /\ \A j \in 1..(Len(looper) - 1) : j + 1 \in 1..Len(looper)
  BY <1>1
<1>5. \A i, j \in 1..Len(looper') : Before(i, j)' => looper'[i].task.id < looper'[j].task.id
  <2> SUFFICES ASSUME NEW i \in 1..Len(looper'), NEW j \in 1..Len(looper'), Before(i, j)'
               PROVE  looper'[i].task.id < looper'[j].task.id
    OBVIOUS
  <2>1. CASE i \in 1..(Len(looper) - 1) /\ j \in 1..(Len(looper) - 1)
    <3>1. looper'[i] = looper[i + 1] /\ looper'[j] = looper[j + 1]
      BY <1>1, <2>1
    <3>2. Before(i + 1, j + 1)
      BY <3>1 DEF Before
    <3> QED
      BY <1>4, <2>1, <3>1, <3>2 DEF OrderInv
  <2>2. CASE i \in 1..(Len(looper) - 1) /\ j = Len(looper)
    <3>1. looper'[i] = looper[i + 1] /\ looper'[i].what # "finish"
      BY <1>1, <2>2 DEF Before
    <3>2. Before(i + 1, 1)
      BY <1>1, <3>1 DEF Before
    <3>3. i + 1 \in 1..Len(looper)
      BY <1>4, <2>2
    <3>4. looper[i + 1].task.id < looper[1].task.id
      BY <1>4, <3>2, <3>3 DEF OrderInv
    <3> QED
      BY <1>1, <2>2, <3>1, <3>4
  <2>3. CASE i = Len(looper) /\ j \in 1..(Len(looper) - 1)
    <3>1. looper'[j] = looper[j + 1] /\ looper'[j].what = "finish"
      BY <1>1, <2>3 DEF Before
    <3>2. Before(1, j + 1)
      BY <1>1, <2>3, <3>1 DEF Before
    <3>3. j + 1 \in 1..Len(looper)
      BY <1>4, <2>3
    <3>4. looper[1].task.id < looper[j + 1].task.id
      BY <1>4, <3>2, <3>3 DEF OrderInv
    <3> QED
      BY <1>1, <2>3, <3>1, <3>4
  <2>4. CASE i = Len(looper) /\ j = Len(looper)
    BY <2>4, <1>1 DEF Before
  <2> QED
    BY <1>3, <2>1, <2>2, <2>3, <2>4
<1>6. \A i \in 1..Len(looper') : \E k \in 1..Len(looper) : looper'[i].task = looper[k].task
  BY <1>1, <1>3, <1>4
<1>7. \A i \in 1..Len(looper'), j \in 1..Len(queue) : looper'[i].task.id < queue[j].id
  BY <1>6 DEF OrderInv
<1>8. \A i \in 1..Len(looper') : bg.pc # "none" => looper'[i].task.id < bg.task.id
  BY <1>6 DEF OrderInv
<1>9. \A i \in 1..Len(reported) : \A t \in Held' : reported[i] < t.id
  BY <1>2 DEF OrderInv
<1> QED
  BY <1>1, <1>5, <1>7, <1>8, <1>9 DEF OrderInv

\* The message that is told is the first of all on the way.
LEMMA FirstTold ==
    ASSUME FetchType, OrderInv, onDatexOk \/ onDatexError
    PROVE  /\ \A i \in 1..Len(looper) : i # 1 => looper[1].task.id < looper[i].task.id
           /\ \A t \in Held : t # looper[1].task => looper[1].task.id < t.id
<1>1. Len(looper) \in Nat \ {0} /\ looper[1].what # "finish"
  BY ToldFacts
<1>2. 1 \in 1..Len(looper)
  BY <1>1
<1>3. \A i \in 1..Len(looper) : i # 1 => Before(1, i)
  BY <1>1 DEF Before
<1>4. \A i \in 1..Len(looper) : i # 1 => looper[1].task.id < looper[i].task.id
  BY <1>2, <1>3 DEF OrderInv
<1>5. \A i \in 1..Len(queue) : looper[1].task.id < queue[i].id
  BY <1>2 DEF OrderInv
<1>6. bg.pc # "none" => looper[1].task.id < bg.task.id
  BY <1>2 DEF OrderInv
<1>7. \A t \in Held : t # looper[1].task => looper[1].task.id < t.id
  BY <1>4, <1>5, <1>6 DEF Held
<1> QED
  BY <1>4, <1>7

LEMMA ToldOrder == FetchType /\ ClickInv /\ OrderInv /\ (onDatexOk \/ onDatexError) => OrderInv'
<1> SUFFICES ASSUME FetchType, ClickInv, OrderInv, onDatexOk \/ onDatexError PROVE OrderInv'
  OBVIOUS
<1>1. /\ UNCHANGED <<main, click, queue, bg>>
      /\ Len(looper) \in Nat \ {0} /\ Len(looper') = Len(looper) - 1
      /\ \A i \in 1..Len(looper') : i + 1 \in 1..Len(looper) /\ looper'[i] = looper[i + 1]
      /\ Len(reported') = Len(reported) + 1 /\ Len(reported) \in Nat
      /\ reported'[Len(reported) + 1] = looper[1].task.id
      /\ \A i \in 1..Len(reported) : reported'[i] = reported[i]
  BY ToldFacts
<1>2. 1 \in 1..Len(looper) /\ looper[1].task \in Held
  <2>1. 1 \in 1..Len(looper)
    BY <1>1
  <2>2. \A i \in 1..Len(looper) : looper[i].task \in Held
    BY OrderTypes
  <2> QED
    BY <2>1, <2>2
<1>3. \A i \in 1..Len(reported') : \/ i \in 1..Len(reported) /\ reported'[i] = reported[i]
                                   \/ i = Len(reported) + 1 /\ reported'[i] = looper[1].task.id
  BY <1>1
<1>4. \A i \in 1..Len(reported) : reported[i] < looper[1].task.id
  BY <1>2 DEF OrderInv
<1>5. \A i, j \in 1..Len(reported') : i < j => reported'[i] < reported'[j]
  <2> SUFFICES ASSUME NEW i \in 1..Len(reported'), NEW j \in 1..Len(reported'), i < j
               PROVE  reported'[i] < reported'[j]
    OBVIOUS
  <2>1. i \in 1..Len(reported) /\ reported'[i] = reported[i]
    BY <1>1
  <2>2. CASE j \in 1..Len(reported) /\ reported'[j] = reported[j]
    BY <2>1, <2>2 DEF OrderInv
  <2>3. CASE j = Len(reported) + 1 /\ reported'[j] = looper[1].task.id
    BY <1>4, <2>1, <2>3
  <2> QED
    BY <1>3, <2>2, <2>3
<1>6. \A i \in 1..Len(reported') : reported'[i] <= click /\ (main.pc # "idle" => reported'[i] < click)
  BY <1>2, <1>3 DEF OrderInv, ClickInv
<1>7. \A i \in 1..Len(looper') : looper[1].task.id < looper'[i].task.id
  <2>1. \A i \in 1..Len(looper) : i # 1 => looper[1].task.id < looper[i].task.id
    BY FirstTold
  <2>2. \A i \in 1..Len(looper') : i + 1 # 1 /\ i + 1 \in 1..Len(looper) /\ looper'[i] = looper[i + 1]
    BY <1>1
  <2> QED
    BY <2>1, <2>2
<1>8. \A t \in Held' : t \in Held /\ looper[1].task.id < t.id
  <2>1. \A i \in 1..Len(looper') : looper'[i].task \in Held
    BY <1>1, OrderTypes
  <2>2. \A i \in 1..Len(queue) : queue[i] \in Held /\ looper[1].task.id < queue[i].id
    BY <1>2, OrderTypes DEF OrderInv
  <2>3. bg.pc # "none" => bg.task \in Held /\ looper[1].task.id < bg.task.id
    BY <1>2, OrderTypes DEF OrderInv
  <2> SUFFICES ASSUME NEW t \in Held' PROVE t \in Held /\ looper[1].task.id < t.id
    OBVIOUS
  <2>4. \/ \E i \in 1..Len(looper') : t = looper'[i].task
        \/ bg.pc # "none" /\ t = bg.task
        \/ \E i \in 1..Len(queue) : t = queue[i]
    BY <1>1 DEF Held
  <2> QED
    BY <1>7, <2>1, <2>2, <2>3, <2>4
<1>9. \A i \in 1..Len(reported') : \A t \in Held' : reported'[i] < t.id
  BY <1>3, <1>8 DEF OrderInv
<1>10. \A i, j \in 1..Len(looper') : Before(i, j)' => looper'[i].task.id < looper'[j].task.id
  <2> SUFFICES ASSUME NEW i \in 1..Len(looper'), NEW j \in 1..Len(looper'), Before(i, j)'
               PROVE  looper'[i].task.id < looper'[j].task.id
    OBVIOUS
  <2>1. /\ looper'[i] = looper[i + 1] /\ looper'[j] = looper[j + 1]
        /\ i + 1 \in 1..Len(looper) /\ j + 1 \in 1..Len(looper)
    BY <1>1
  <2>2. Before(i + 1, j + 1)
    BY <2>1 DEF Before
  <2> QED
    BY <2>1, <2>2 DEF OrderInv
<1>11. \A i \in 1..Len(looper'), j \in 1..Len(queue) : looper'[i].task.id < queue[j].id
  BY <1>1 DEF OrderInv
<1>12. \A i \in 1..Len(looper') : bg.pc # "none" => looper'[i].task.id < bg.task.id
  BY <1>1 DEF OrderInv
<1> QED
  BY <1>1, <1>5, <1>6, <1>9, <1>10, <1>11, <1>12 DEF OrderInv

LEMMA NextOrder == FetchType /\ ClickInv /\ OrderInv /\ [FetchNext]_fetchVars => OrderInv'
<1> SUFFICES ASSUME FetchType, ClickInv, OrderInv, [FetchNext]_fetchVars PROVE OrderInv'
  OBVIOUS
<1>0. /\ main \in UiThread /\ click \in Nat
      /\ \A i \in 1..Len(reported) : /\ reported[i] \in Nat /\ reported[i] <= click
                                     /\ main.pc # "idle" => reported[i] < click
  BY OrderTypes DEF OrderInv, FetchType
<1>1. CASE UNCHANGED <<main, click, reported, looper, queue, bg>>
  BY <1>0, <1>1, OrderKept
<1>2. CASE UiRefuses
  <2>1. UNCHANGED <<reported, looper, queue, bg>>
    BY <1>2 DEF UiRefuses
  <2>2. main'.pc = "idle" /\ click' \in {click, click + 1}
    BY <1>0, <1>2, UiFacts DEF UiRefuses
  <2> QED
    BY <1>0, <2>1, <2>2, OrderKept
<1>3. CASE UiWrites
  BY <1>0, <1>3, OrderKept DEF UiWrites
<1>4. ASSUME NEW p \in Protocols, RefreshPsid(p) PROVE OrderInv'
  <2>1. CASE click' = click + 1 /\ UNCHANGED <<queue, bg, looper, reported>>
    BY <1>0, <2>1, OrderKept
  <2> QED
    BY <1>2, <1>4, <2>1, PsidFacts
<1>5. CASE BgReads
  <2>1. PICK o \in Options : \E w \in Visible(o) : \E pc \in {"psid", "ssp", "get"} :
           bg' = [bg EXCEPT !.used[o] = w, !.pc = pc]
    BY <1>5 DEF BgReads
  <2>2. bg.pc # "none" /\ UNCHANGED <<main, click, queue, looper, reported>>
    BY <1>5 DEF BgReads
  <2>3. PICK w \in Visible(o) : \E pc \in {"psid", "ssp", "get"} :
           bg' = [bg EXCEPT !.used[o] = w, !.pc = pc]
    BY <2>1
  <2>4. PICK pc \in {"psid", "ssp", "get"} : bg' = [bg EXCEPT !.used[o] = w, !.pc = pc]
    BY <2>3
  <2>5. bg'.task = bg.task /\ bg'.pc # "none"
    BY <2>2, <2>4, ReadFacts
  <2> QED
    BY <1>0, <2>2, <2>5, OrderKept
<1>6. CASE onCreate \/ onStop \/ FetchAborts \/ UNCHANGED fetchVars
           \/ \E s \in Signs \cup {NoId} : onItemSingleTapUp(s)
  BY <1>1, <1>6 DEF onCreate, onStop, FetchAborts, bgUnchanged, fetchVars, onItemSingleTapUp
<1>7. CASE RefreshSsp \/ RefreshFill \/ RefreshHttp \/ RefreshProto
  BY <1>2, <1>3, <1>7, UiSteps
<1>8. CASE ReadProtocol \/ ReadPsid \/ ReadSsp
  BY <1>5, <1>8, ReadSteps
<1>9. CASE RefreshExecute \/ onPostExecute \/ onDatexOk \/ onDatexError \/ StartTask
  BY <1>9, ExecuteOrder, PostOrder, ToldOrder, StartOrder
<1>10. CASE \E r \in Results : FetchReturns(r)
  BY <1>10, ReturnOrder
<1> QED
  BY <1>4, <1>6, <1>7, <1>8, <1>9, <1>10 DEF FetchNext, UiStep, Background

\* For every number of clicks, activities and results, through the executor's queue, the
\* background thread and twice through the main looper, no outcome overtakes that of an earlier
\* click, and none is told twice (onPostExecute, MapHandler).
THEOREM ReportedInOrder == FetchSpec => []ReportedOnceInOrder
<1>1. FetchType /\ OrderInv => ReportedOnceInOrder
  <2> SUFFICES ASSUME FetchType, OrderInv, NEW f \in Fetches, NEW g \in Fetches, Ahead(f, g)
               PROVE  f.id < g.id
    BY DEF ReportedOnceInOrder
  <2>1. DOMAIN reported = 1..Len(reported) /\ DOMAIN looper = 1..Len(looper)
        /\ DOMAIN queue = 1..Len(queue)
    BY DEF FetchType
  <2>2. ASSUME NEW x \in Fetches
        PROVE  \/ x.stage = 0 /\ x.place \in 1..Len(reported) /\ x.id = reported[x.place]
               \/ /\ x.stage = 1 /\ x.place \in 1..Len(looper) /\ x.id = looper[x.place].task.id
                  /\ looper[x.place].what # "finish"
               \/ /\ x.stage = 2 /\ x.place \in 1..Len(looper) /\ x.id = looper[x.place].task.id
                  /\ looper[x.place].what = "finish"
               \/ x.stage = 3 /\ x.place = 0 /\ bg.pc # "none" /\ x.id = bg.task.id
               \/ x.stage = 4 /\ x.place \in 1..Len(queue) /\ x.id = queue[x.place].id
    <3>1. CASE x \in {[stage |-> 0, place |-> i, id |-> reported[i]] : i \in DOMAIN reported}
      BY <2>1, <3>1
    <3>2. CASE x \in {[stage |-> IF looper[i].what = "finish" THEN 2 ELSE 1, place |-> i,
                       id |-> looper[i].task.id] : i \in DOMAIN looper}
      BY <2>1, <3>2
    <3>3. CASE bg.pc # "none" /\ x = [stage |-> 3, place |-> 0, id |-> bg.task.id]
      BY <3>3
    <3>4. CASE x \in {[stage |-> 4, place |-> i, id |-> queue[i].id] : i \in DOMAIN queue}
      BY <2>1, <3>4
    <3> QED
      BY <2>2, <3>1, <3>2, <3>3, <3>4 DEF Fetches
  <2>3. f.stage < g.stage \/ (f.stage = g.stage /\ f.place < g.place)
    BY DEF Ahead
  <2>4. CASE f.stage = 0
    <3>1. f.place \in 1..Len(reported) /\ f.id = reported[f.place]
      BY <2>2, <2>4
    <3>2. CASE g.stage = 0
      <4>1. g.place \in 1..Len(reported) /\ g.id = reported[g.place] /\ f.place < g.place
        BY <2>2, <2>3, <2>4, <3>2
      <4> QED
        BY <3>1, <4>1 DEF OrderInv
    <3>3. CASE g.stage # 0
      <4>1. \E t \in Held : g.id = t.id
        BY <2>2, <3>3, OrderTypes
      <4> QED
        BY <3>1, <4>1 DEF OrderInv
    <3> QED
      BY <3>2, <3>3
  <2>5. CASE f.stage = 1 \/ f.stage = 2
    <3>1. CASE g.stage = 1 \/ g.stage = 2
      <4>1. /\ f.place \in 1..Len(looper) /\ g.place \in 1..Len(looper)
            /\ f.id = looper[f.place].task.id /\ g.id = looper[g.place].task.id
            /\ Before(f.place, g.place)
        BY <2>2, <2>3, <2>5, <3>1 DEF Before
      <4> QED
        BY <4>1 DEF OrderInv
    <3>2. CASE g.stage = 3 \/ g.stage = 4
      BY <2>2, <2>5, <3>2 DEF OrderInv
    <3> QED
      BY <2>2, <2>3, <2>5, <3>1, <3>2
  <2>6. CASE f.stage = 3 \/ f.stage = 4
    BY <2>2, <2>3, <2>6 DEF OrderInv
  <2> QED
    BY <2>2, <2>4, <2>5, <2>6
<1> QED
  BY InitFetchType, NextFetchType, InitClick, NextClick, InitOrder, NextOrder, <1>1, PTL DEF FetchSpec

-----------------------------------------------------------------------------
(* What the map shows. *)

\* Fetches of later clicks are of later screens, so that once a screen has been shown a reply
\* nobody but itself has a fetch on the way; and what it shows is of the static reply.
NewestInv ==
    /\ act = 0 \/ act = acts
    /\ \A t \in Held : t.act <= acts
    /\ \A s, t \in Held : s.id <= t.id => s.act <= t.act
    /\ act # 0 /\ (view.items # {} \/ view.sign # NoSign)
          => datexReply # <<>> /\ \A t \in Held : t.act = act
    /\ act # 0 /\ view.items # {} => whole # <<>> /\ view.items = Lit(whole[1])
    /\ act # 0 /\ view.sign # NoSign =>
          /\ view.sign = view.currSignId /\ view.sign \in Signs
          /\ IsWhole(datexReply[1]) /\ Finds(datexReply[1], view.sign)
                => view.ver = datexReplyCnt

LEMMA InitNewest == FetchInit => NewestInv
<1> SUFFICES ASSUME FetchInit PROVE NewestInv
  OBVIOUS
<1>1. looper = <<>> /\ queue = <<>> /\ bg.pc = "none" /\ act = 0
  BY DEF FetchInit
<1>2. Held = {}
  BY <1>1 DEF Held
<1> QED
  BY <1>1, <1>2 DEF NewestInv

\* Steps that change at most the text of the view and drop tasks.
LEMMA NewestKept ==
    ASSUME NewestInv, Held' \subseteq Held, UNCHANGED <<act, acts, datexReply, datexReplyCnt, whole>>,
           view'.items = view.items, view'.sign = view.sign, view'.ver = view.ver,
           view'.currSignId = view.currSignId
    PROVE  NewestInv'
BY DEF NewestInv

LEMMA NextNewest ==
    FetchType /\ ClickInv /\ OrderInv /\ NewestInv /\ [FetchNext]_fetchVars => NewestInv'
<1> SUFFICES ASSUME FetchType, ClickInv, OrderInv, NewestInv, [FetchNext]_fetchVars PROVE NewestInv'
  OBVIOUS
<1>0. view \in Views /\ act \in Nat /\ acts \in Nat /\ click \in Nat
      /\ \A t \in Held : t.act \in Nat /\ t.id \in Nat
  BY HeldTasks DEF FetchType, Tasks
<1>1. CASE onCreate \/ onStop
  <2>1. /\ view' = EmptyView /\ UNCHANGED <<queue, bg, looper>>
        /\ act' = 0 \/ act' = acts'
        /\ acts' \in {acts, acts + 1}
    BY <1>1 DEF onCreate, onStop
  <2>2. Held' = Held
    BY <2>1 DEF Held
  <2>3. view'.items = {} /\ view'.sign = NoSign
    BY <2>1, OptionFacts
  <2>4. \A t \in Held' : t.act <= acts'
    BY <1>0, <2>1, <2>2 DEF NewestInv
  <2>5. \A s, t \in Held' : s.id <= t.id => s.act <= t.act
    BY <2>2 DEF NewestInv
  <2> QED
    BY <2>1, <2>3, <2>4, <2>5 DEF NewestInv
<1>2. CASE UiRefuses
  <2>1. UNCHANGED <<queue, bg, looper, act, acts, datexReply, datexReplyCnt, whole>>
    BY <1>2 DEF UiRefuses
  <2>2. /\ view'.items = view.items /\ view'.sign = view.sign /\ view'.ver = view.ver
        /\ view'.currSignId = view.currSignId
    BY <1>0, <1>2, TextFacts DEF UiRefuses
  <2>3. Held' \subseteq Held
    BY <2>1 DEF Held
  <2> QED
    BY <2>1, <2>2, <2>3, NewestKept
<1>3. ASSUME UNCHANGED <<act, acts, datexReply, datexReplyCnt, whole, view>>, Held' \subseteq Held PROVE NewestInv'
  BY <1>3, NewestKept
<1>4. CASE UiWrites
  <2>1. UNCHANGED <<queue, bg, looper, act, acts, datexReply, datexReplyCnt, whole, view>>
    BY <1>4 DEF UiWrites
  <2>2. Held' \subseteq Held
    BY <2>1 DEF Held
  <2> QED
    BY <1>3, <2>1, <2>2
<1>5. ASSUME NEW p \in Protocols, RefreshPsid(p) PROVE NewestInv'
  <2>1. CASE UNCHANGED <<act, acts, queue, bg, looper, datexReply, datexReplyCnt, whole, view>>
    <3>1. Held' \subseteq Held
      BY <2>1 DEF Held
    <3> QED
      BY <1>3, <2>1, <3>1
  <2> QED
    BY <1>2, <1>5, <2>1, PsidFacts
<1>6. CASE RefreshSsp \/ RefreshFill \/ RefreshHttp \/ RefreshProto
  BY <1>2, <1>4, <1>6, UiSteps
<1>7. CASE RefreshExecute
  <2>1. /\ main.pc = "exec" /\ UNCHANGED <<act, acts, datexReply, datexReplyCnt, whole>>
        /\ view' = [view EXCEPT !.text = "Requesting"]
    BY <1>7, ExecuteFacts
  <2>2. "Requesting" \in Texts
    BY DEF Texts
  <2>3. /\ view'.items = view.items /\ view'.sign = view.sign /\ view'.ver = view.ver
        /\ view'.currSignId = view.currSignId
    BY <1>0, <2>1, <2>2, TextFacts
  <2>4. PICK n : n = NewTask
    OBVIOUS
  <2>5. n.id = click /\ n.act = act /\ Held' \subseteq Held \cup {n}
    BY <1>7, <2>4, NewTaskFacts, HeldSteps
  <2>6. act # 0 /\ act = acts /\ \A t \in Held : t.id < click
    BY <2>1 DEF FetchType, NewestInv, ClickInv
  <2>7. \A t \in Held' : t.act <= acts
    BY <1>0, <2>5, <2>6 DEF NewestInv
  <2>8. \A s, t \in Held' : s.id <= t.id => s.act <= t.act
    <3> SUFFICES ASSUME NEW s \in Held', NEW t \in Held', s.id <= t.id PROVE s.act <= t.act
      OBVIOUS
    <3>1. CASE t = n
      BY <2>5, <2>6, <2>7, <3>1
    <3>2. CASE t \in Held /\ s = n
      <4>1. t.id < click /\ t.id \in Nat /\ s.id = click
        BY <2>5, <2>6, <3>2, <1>0
      <4> QED
        BY <1>0, <4>1
    <3>3. CASE t \in Held /\ s \in Held
      BY <3>3 DEF NewestInv
    <3> QED
      BY <2>5, <3>1, <3>2, <3>3
  <2>9. act # 0 /\ (view.items # {} \/ view.sign # NoSign)
          => datexReply # <<>> /\ \A t \in Held' : t.act = act
    BY <2>5 DEF NewestInv
  <2> QED
    BY <2>1, <2>3, <2>7, <2>8, <2>9 DEF NewestInv
<1>8. CASE onDatexOk
  <2>0. /\ Held' \subseteq Held /\ looper[1].task \in Held /\ UNCHANGED <<act, acts>>
    <3>1. UNCHANGED <<main, act, acts>> /\ Len(looper) \in Nat \ {0}
      BY <1>8, ToldFacts
    <3>2. 1 \in 1..Len(looper) /\ ~RefreshExecute
      BY <3>1, ExecuteFacts
    <3> QED
      BY <3>1, <3>2, HeldSteps, OrderTypes
  <2>1. PICK r : r = looper[1].res.reply
    OBVIOUS
  <2>2. datexReply' = <<r>> /\ datexReply' # <<>> /\ datexReply'[1] = r
    BY <1>8, <2>1, OkFacts
  <2>3. \A t \in Held' : t.act <= acts'
    BY <2>0 DEF NewestInv
  <2>4. \A s, t \in Held' : s.id <= t.id => s.act <= t.act
    BY <2>0 DEF NewestInv
  <2>5. act' = 0 \/ act' = acts'
    BY <2>0 DEF NewestInv
  <2>6. CASE act' = 0
    BY <2>3, <2>4, <2>6 DEF NewestInv
  <2>7. CASE act' # 0 /\ looper[1].task.act # act
    <3>1. view' = view /\ act # 0
      BY <1>8, <2>0, <2>1, <2>7, OkFacts
    <3>2. view.items = {} /\ view.sign = NoSign
      BY <2>0, <2>7, <3>1 DEF NewestInv
    <3> QED
      BY <2>3, <2>4, <2>5, <3>1, <3>2 DEF NewestInv
  <2>8. CASE act' # 0 /\ looper[1].task.act = act
    <3>1. act # 0 /\ act = acts
      BY <2>0, <2>8 DEF NewestInv
    <3>2. \A t \in Held : t = looper[1].task \/ looper[1].task.id < t.id
      BY <1>8, FirstTold
    <3>3. \A t \in Held' : t.act = act'
      <4> SUFFICES ASSUME NEW t \in Held' PROVE t.act = act
        BY <2>0
      <4>1. t \in Held /\ t.act \in Nat /\ t.act <= acts /\ t.id \in Nat /\ looper[1].task.id \in Nat
        BY <1>0, <2>0 DEF NewestInv
      <4>2. t = looper[1].task \/ looper[1].task.id <= t.id
        BY <3>2, <4>1
      <4>3. act <= t.act
        BY <1>0, <2>0, <2>8, <4>1, <4>2 DEF NewestInv
      <4> QED
        BY <1>0, <3>1, <4>1, <4>3
    <3>4. CASE IsWhole(r)
      <4>1. /\ view'.items = Lit(r) /\ view'.currSignId = view.currSignId
            /\ whole' = <<r>> /\ whole' # <<>> /\ whole'[1] = r
        BY <1>8, <2>1, <2>8, <3>4, OkFacts
      <4>2. CASE Shown(r, view.currSignId)
        <5>1. /\ view'.sign = view'.currSignId /\ view'.ver = datexReplyCnt'
              /\ view'.sign \in Signs
          BY <1>8, <2>1, <2>8, <3>4, <4>1, <4>2, OkFacts DEF Shown
        <5> QED
          BY <2>2, <2>3, <2>4, <2>5, <3>3, <4>1, <5>1 DEF NewestInv
      <4>3. CASE ~Shown(r, view.currSignId)
        <5>1. view'.sign = view.sign
          BY <1>8, <2>1, <2>8, <3>4, <4>3, OkFacts
        <5>2. view'.sign # NoSign => /\ view'.sign = view'.currSignId /\ view'.sign \in Signs
                                     /\ ~Finds(r, view'.sign)
          BY <3>1, <4>1, <4>3, <5>1 DEF NewestInv, Shown
        <5> QED
          BY <2>2, <2>3, <2>4, <2>5, <3>3, <4>1, <5>2 DEF NewestInv
      <4> QED
        BY <4>2, <4>3
    <3>5. CASE ~IsWhole(r)
      <4>1. /\ view'.items = view.items /\ view'.sign = view.sign
            /\ view'.currSignId = view.currSignId /\ whole' = whole
        BY <1>8, <2>1, <2>8, <3>5, OkFacts
      <4>2. /\ view'.items # {} => whole' # <<>> /\ view'.items = Lit(whole'[1])
            /\ view'.sign # NoSign => view'.sign = view'.currSignId /\ view'.sign \in Signs
        BY <3>1, <4>1 DEF NewestInv
      <4> QED
        BY <2>2, <2>3, <2>4, <2>5, <3>3, <3>5, <4>2 DEF NewestInv
    <3> QED
      BY <3>4, <3>5
  <2> QED
    BY <2>6, <2>7, <2>8
<1>9. CASE onDatexError
  <2>1. UNCHANGED <<main, act, acts>>
    BY <1>9, ToldFacts
  <2>2. ~RefreshExecute
    BY <2>1, ExecuteFacts
  <2>3. Held' \subseteq Held
    BY <2>2, HeldSteps
  <2>4. /\ view'.items = view.items /\ view'.sign = view.sign
        /\ view'.ver = view.ver /\ view'.currSignId = view.currSignId
        /\ UNCHANGED <<datexReply, datexReplyCnt, whole>>
    BY <1>9, ErrorFacts
  <2> QED
    BY <2>1, <2>3, <2>4, NewestKept
<1>10. ASSUME NEW s \in Signs \cup {NoId}, onItemSingleTapUp(s) PROVE NewestInv'
  <2>1. /\ s \in view.items /\ act # 0 /\ view'.items = view.items /\ view' \in Views
        /\ view'.sign # NoSign => view'.currSignId = view'.sign /\ view'.ver = datexReplyCnt
        /\ UNCHANGED <<act, acts, queue, bg, looper, datexReply, datexReplyCnt, whole>>
    BY <1>10, TapFacts
  <2>2. view'.sign # NoSign => view'.sign \in Signs
    BY <2>1 DEF Views
  <2>3. /\ datexReply # <<>> /\ view.items = Lit(whole[1]) /\ whole # <<>>
        /\ \A t \in Held : t.act = act
    BY <2>1 DEF NewestInv
  <2>4. Held' = Held
    BY <2>1 DEF Held
  <2> QED
    BY <2>1, <2>2, <2>3, <2>4 DEF NewestInv
<1>11. CASE \/ onPostExecute \/ StartTask \/ (\E r \in Results : FetchReturns(r)) \/ FetchAborts
            \/ BgReads \/ UNCHANGED fetchVars
  <2>1. UNCHANGED <<main, act, acts, datexReply, datexReplyCnt, whole, view>>
    BY <1>11 DEF onPostExecute, StartTask, FetchReturns, FetchAborts, BgReads, bgUnchanged, fetchVars
  <2>2. ~RefreshExecute
    BY <2>1, ExecuteFacts
  <2>3. Held' \subseteq Held
    BY <2>2, HeldSteps
  <2> QED
    BY <1>3, <2>1, <2>3
<1>12. CASE ReadProtocol \/ ReadPsid \/ ReadSsp
  BY <1>11, <1>12, ReadSteps
<1> QED
  BY <1>1, <1>5, <1>6, <1>7, <1>8, <1>9, <1>10, <1>11, <1>12 DEF FetchNext, UiStep, Background

\* For every set of signs and replies, defective ones included, and though the reply is a static
\* that fetches of closed screens write as well: the signs on the map are those of the newest
\* reply without a null element, and the details are of the newest reply unless it is defective
\* or does not have the sign in reach (onDatexOk, MapHandler, addSigns, updateSignFromId).
THEOREM MapShowsNewest == FetchSpec => []MapShowsNewestReply
<1>1. NewestInv => MapShowsNewestReply
  BY DEF NewestInv, MapShowsNewestReply
<1> QED
  BY InitFetchType, NextFetchType, InitClick, NextClick, InitOrder, NextOrder, InitNewest, NextNewest,
     <1>1, PTL DEF FetchSpec
==============================================================================
