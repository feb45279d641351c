------------------------------- MODULE TripRoute -------------------------------
(***************************************************************************)
(* The route of the trip: TripSummary.addPosition, run by the looper       *)
(* thread of GeoFlowService for every location, against the UI thread that *)
(* resets the route (EventHandler.clearTripSummary) and draws it           *)
(* (MapActivity.populateTripView, OsmdroidUtils.drawRoute).                *)
(*                                                                         *)
(* The two share the ArrayList: TripSummary.clone copies the reference.    *)
(* A restarted service has a new EventHandler, looper thread and           *)
(* TripSummary; the old looper is never stopped and can still have         *)
(* messages.  Objects and lists are numbered.  Distance and cost of a trip *)
(* are never set by the code and are left out.                             *)
(*                                                                         *)
(* addPosition reads the field tripRoute at every use, so each use is a    *)
(* step.  ArrayList is not synchronised: where two loopers change one list *)
(* at the same time, an element can be overwritten, add can throw, and a   *)
(* null can be left in the list.                                           *)
(***************************************************************************)
EXTENDS Integers, Sequences, FiniteSets

CONSTANTS
    Places,     \* positions, as metres along a road
    MinDist,    \* 10 metres in the code
    Cap,        \* 10000 points in the code
    MaxGens,    \* bound on starts of the service
    MaxPos,     \* bound on locations received
    MaxDraws,   \* bound on drawings
    MaxScreens  \* bound on map screens

ASSUME TripRouteAssumption ==
    /\ Places \subseteq Nat /\ MinDist \in Nat /\ Cap \in Nat \ {0}
    /\ MaxGens \in Nat /\ MaxPos \in Nat /\ MaxDraws \in Nat /\ MaxScreens \in Nat

VARIABLES
    gen,          \* services started; handler g belongs to service g
    mTripSummary, \* the current TripSummary object, 0 for null
    tripRoute,    \* object -> its list
    lists,        \* list -> [pts, mod, torn]: its points, how often it was changed, and
                  \* whether two changes at once have left a null in it
    th,           \* looper thread of handler g
    pos,          \* locations received so far
    ui,           \* the UI thread
    screens,      \* map screens created so far
    overlays,     \* on the map: <<kind, number of the drawing>>
    mDrawn,       \* OsmdroidUtils.mMarkers and mRoutes
    draws,        \* drawings so far
    old, shared, threw \* histories, see the properties

vars == <<gen, mTripSummary, tripRoute, lists, th, pos, ui, screens, overlays,
          mDrawn, draws, old, shared, threw>>

Gens == 1..MaxGens
Idle == [pc |-> "idle"]
NewList == [pts |-> <<>>, mod |-> 0, torn |-> FALSE]

Init ==
    /\ gen = 0 /\ mTripSummary = 0 /\ tripRoute = <<>> /\ lists = <<>>
    /\ th = [g \in Gens |-> Idle] /\ pos = 0
    /\ ui = Idle /\ screens = 0 /\ overlays = {} /\ mDrawn = {} /\ draws = 0
    /\ old = {} /\ shared = {} /\ threw = {}

-----------------------------------------------------------------------------
(* The looper threads: EventHandler.handleMessage, addPosition.            *)

looperUnchanged == UNCHANGED <<gen, mTripSummary, tripRoute, ui, screens,
                               overlays, mDrawn, draws, old>>

\* The list the field tripRoute of the handler's object holds now.
Route(g) == tripRoute[th[g].obj]
Points(g) == lists[Route(g)].pts
Store(g, pts, torn) ==
    lists' = [lists EXCEPT ![Route(g)] = [pts |-> pts, mod |-> @.mod + 1, torn |-> torn]]

\* Another looper is at work on the same object.
Raced(g) == \E h \in Gens \ {g} : th[h] # Idle /\ th[h].obj = th[g].obj

\* The list becomes pts, but for a change that races with another one: that can be lost,
\* or leave a null.
Change(g, pts) ==
    \/ Store(g, pts, lists[Route(g)].torn)
    \/ Raced(g) /\ UNCHANGED lists
    \/ Raced(g) /\ Store(g, pts, TRUE)

\* An element of list l can be read as null: a race left one, or it is just being added.
MaybeNull(l) == lists[l].torn \/ \E g \in Gens : th[g].pc \in {"first", "add"} /\ Route(g) = l

\* handleMessage catches the exception and the location is lost.
Fail(g) ==
    /\ th' = [th EXCEPT ![g] = Idle]
    /\ threw' = threw \cup {IF th[g].obj \in shared THEN "shared" ELSE th[g].met}
    /\ UNCHANGED lists

Receive(g, x) ==
    /\ g <= gen /\ th[g] = Idle /\ pos < MaxPos
    /\ pos' = pos + 1
    /\ th' = [th EXCEPT ![g] = [pc |-> "isEmpty", n |-> pos', at |-> x, list |-> 0, size |-> 0,
                                prev |-> 0, obj |-> mTripSummary, met |-> "no"]]
    /\ shared' = IF \E h \in Gens \ {g} : th[h] # Idle /\ th[h].obj = mTripSummary
                 THEN shared \cup {mTripSummary} ELSE shared
    /\ UNCHANGED <<lists, threw>> /\ looperUnchanged

\* Mutant: the first location is not told apart.
IsEmpty_Skipped(g) ==
    /\ th[g].pc = "isEmpty"
    /\ th' = [th EXCEPT ![g].pc = "list"]
    /\ UNCHANGED <<lists, pos, shared, threw>> /\ looperUnchanged

IsEmpty(g) ==
    /\ th[g].pc = "isEmpty"
    /\ th' = [th EXCEPT ![g].pc = IF Points(g) = <<>> THEN "first" ELSE "list"]
    /\ UNCHANGED <<lists, pos, shared, threw>> /\ looperUnchanged

\* tripRoute.get(tripRoute.size() - 1) is three steps: the list to get from, the size of
\* the list the field holds then, and the last point.
List(g) ==
    /\ th[g].pc = "list"
    /\ th' = [th EXCEPT ![g].pc = "size", ![g].list = Route(g)]
    /\ UNCHANGED <<lists, pos, shared, threw>> /\ looperUnchanged

Size(g) ==
    /\ th[g].pc = "size"
    /\ th' = [th EXCEPT ![g].pc = "get", ![g].size = Len(Points(g))]
    /\ UNCHANGED <<lists, pos, shared, threw>> /\ looperUnchanged

\* A reset since isEmpty, or a point that another looper removed, makes it fail.
Get(g) ==
    /\ th[g].pc = "get"
    /\ \/ /\ th[g].size \in 1..Len(lists[th[g].list].pts)
          /\ th' = [th EXCEPT ![g].pc = "add", ![g].prev = lists[th[g].list].pts[th[g].size].at,
                              ![g].list = 0, ![g].size = 0]
          /\ UNCHANGED <<lists, threw>>
       \/ /\ th[g].size \notin 1..Len(lists[th[g].list].pts) \/ MaybeNull(th[g].list)
          /\ Fail(g)
    /\ UNCHANGED <<pos, shared>> /\ looperUnchanged

\* Mutant: any new location is a new point.
Far_Moved(a, b) == a # b

Far(a, b) == a - b > MinDist \/ b - a > MinDist

Point(g) == [n |-> th[g].n, at |-> th[g].at]

\* The two uses of ArrayList.add, which throws when another looper's add is under way.
Add(g) ==
    /\ \/ /\ th[g].pc = "add"
          /\ IF Far(th[g].prev, th[g].at) THEN Change(g, Append(Points(g), Point(g)))
                                          ELSE UNCHANGED lists
          /\ th' = [th EXCEPT ![g].pc = "trim"]
          /\ UNCHANGED threw
       \/ /\ th[g].pc = "first"
          /\ Change(g, Append(Points(g), Point(g)))
          /\ th' = [th EXCEPT ![g] = Idle]
          /\ UNCHANGED threw
       \/ /\ th[g].pc = "first" \/ (th[g].pc = "add" /\ Far(th[g].prev, th[g].at))
          /\ Raced(g)
          /\ Fail(g)
    /\ UNCHANGED <<pos, shared>> /\ looperUnchanged

\* while (size > Cap)
Trim(g) ==
    /\ th[g].pc = "trim"
    /\ th' = [th EXCEPT ![g] = IF Len(Points(g)) > Cap THEN [@ EXCEPT !.pc = "remove"] ELSE Idle]
    /\ UNCHANGED <<lists, pos, shared, threw>> /\ looperUnchanged

\* remove(0), which fails when a reset came since.
Remove(g) ==
    /\ th[g].pc = "remove"
    /\ \/ /\ Points(g) # <<>>
          /\ Change(g, Tail(Points(g)))
          /\ th' = [th EXCEPT ![g].pc = "trim"]
          /\ UNCHANGED threw
       \/ Points(g) = <<>> /\ Fail(g)
    /\ UNCHANGED <<pos, shared>> /\ looperUnchanged

-----------------------------------------------------------------------------
(* The main thread.                                                        *)

\* GeoFlowService.onCreate: the constructor of EventHandler.
newEventHandler ==
    /\ ui = Idle /\ gen < MaxGens /\ gen' = gen + 1
    /\ lists' = Append(lists, NewList)
    /\ tripRoute' = Append(tripRoute, Len(lists'))
    /\ mTripSummary' = Len(tripRoute')
    /\ UNCHANGED <<th, pos, ui, screens, overlays, mDrawn, draws, old, shared, threw>>

\* MapActivity.onCreate: an empty map; then onStart draws.
newScreen ==
    /\ ui = Idle /\ screens < MaxScreens /\ draws < MaxDraws
    /\ screens' = screens + 1
    /\ overlays' = {}
    /\ ui' = [pc |-> "populate"]
    /\ UNCHANGED <<gen, mTripSummary, tripRoute, lists, th, pos, mDrawn, draws,
                   old, shared, threw>>

\* Mutant: the route stays.
Cleared_Kept(o) == tripRoute[o]

\* The list of object o after TripSummary.clearRoute.
Cleared(o) == Len(lists) + 1

\* The reset button: clearTripSummary, then populateTripView.  There is a summary:
\* the screen has drawn one when it started.
clearTripSummary ==
    /\ ui = Idle /\ screens > 0 /\ draws < MaxDraws
    /\ lists' = Append(lists, NewList)
    /\ tripRoute' = [tripRoute EXCEPT ![mTripSummary] = Cleared(mTripSummary)]
    /\ th' = [g \in Gens |-> IF th[g] # Idle /\ th[g].obj = mTripSummary
                             THEN [th[g] EXCEPT !.met = "yes"] ELSE th[g]]
    /\ old' = (1..pos) \ {th[g].n : g \in {h \in Gens : th[h] # Idle}}
    /\ ui' = [pc |-> "populate"]
    /\ UNCHANGED <<gen, mTripSummary, pos, screens, overlays, mDrawn, draws, shared, threw>>

\* The refresh button draws as well.
refresh ==
    /\ ui = Idle /\ screens > 0 /\ draws < MaxDraws
    /\ ui' = [pc |-> "populate"]
    /\ UNCHANGED <<gen, mTripSummary, tripRoute, lists, th, pos, screens, overlays,
                   mDrawn, draws, old, shared, threw>>

uiUnchanged == UNCHANGED <<gen, mTripSummary, tripRoute, lists, th, pos, screens,
                           old, shared, threw>>

Drawn == lists[ui.list].pts
Draw(kind) == /\ overlays' = overlays \cup {<<kind, draws>>}
              /\ mDrawn' = mDrawn \cup {<<kind, draws>>}

\* Mutant: only the markers are removed.
clearRoute_Markers == {o \in overlays : o \notin mDrawn \/ o[1] = "route"}

clearRoute == overlays \ mDrawn

\* getTripSummary (a new, empty summary when there is none) and the start of
\* drawRoute.  The caller catches whatever is thrown from here on.
drawRoute ==
    /\ ui.pc = "populate"
    /\ draws' = draws + 1
    /\ overlays' = clearRoute
    /\ IF mTripSummary = 0
       THEN /\ lists' = Append(lists, NewList)
            /\ tripRoute' = Append(tripRoute, Len(lists'))
            /\ mTripSummary' = Len(tripRoute')
            /\ ui' = Idle
       ELSE /\ ui' = IF lists[tripRoute[mTripSummary]].pts = <<>> THEN Idle
                     ELSE [pc |-> "start", list |-> tripRoute[mTripSummary]]
            /\ UNCHANGED <<lists, tripRoute, mTripSummary>>
    /\ UNCHANGED <<gen, th, pos, screens, mDrawn, old, shared, threw>>

\* The start marker, and the size for the end marker.
drawStart ==
    /\ ui.pc = "start"
    /\ \/ /\ Drawn # <<>> /\ Draw("start")
          /\ ui' = [pc |-> "end", list |-> ui.list, size |-> Len(Drawn)]
       \/ /\ Drawn = <<>> \/ lists[ui.list].torn
          /\ ui' = Idle /\ UNCHANGED <<overlays, mDrawn>>
    /\ UNCHANGED draws /\ uiUnchanged

\* get(size - 1): out of range when the list was trimmed since.
drawEnd ==
    /\ ui.pc = "end"
    /\ \/ /\ ui.size <= Len(Drawn) /\ Draw("end")
          /\ ui' = [pc |-> "points", list |-> ui.list, mod |-> lists[ui.list].mod]
       \/ /\ ui.size > Len(Drawn) \/ MaybeNull(ui.list)
          /\ ui' = Idle /\ UNCHANGED <<overlays, mDrawn>>
    /\ UNCHANGED draws /\ uiUnchanged

\* setPoints iterates over the list: ConcurrentModificationException when a
\* point was added meanwhile.  The centre that is set last changes no overlay.
drawPolyline ==
    /\ ui.pc = "points"
    /\ \/ ui.mod = lists[ui.list].mod /\ Draw("route")
       \/ ui.mod # lists[ui.list].mod /\ UNCHANGED <<overlays, mDrawn>>
    /\ ui' = Idle
    /\ UNCHANGED draws /\ uiUnchanged

-----------------------------------------------------------------------------
Next ==
    \/ \E g \in Gens : \/ \E x \in Places : Receive(g, x)
                       \/ IsEmpty(g) \/ List(g) \/ Size(g) \/ Get(g)
                       \/ Add(g) \/ Trim(g) \/ Remove(g)
    \/ newEventHandler \/ newScreen \/ clearTripSummary \/ refresh
    \/ drawRoute \/ drawStart \/ drawEnd \/ drawPolyline

Spec == Init /\ [][Next]_vars

-----------------------------------------------------------------------------
\* Type correctness of the objects, the threads and the map.
TypeOK ==
    /\ gen \in 0..MaxGens /\ pos \in 0..MaxPos /\ draws \in 0..MaxDraws
    /\ mTripSummary \in 0..Len(tripRoute)
    /\ \A o \in DOMAIN tripRoute : tripRoute[o] \in DOMAIN lists
    /\ \A l \in DOMAIN lists : \A i \in DOMAIN lists[l].pts :
          lists[l].pts[i] \in [n : 1..MaxPos, at : Places]
    /\ \A g \in Gens : th[g].pc \in {"idle", "isEmpty", "list", "size", "get", "first", "add",
                                     "trim", "remove"}
    /\ ui.pc \in {"idle", "populate", "start", "end", "points"}
    /\ overlays \subseteq {"start", "end", "route"} \X (1..MaxDraws)
    /\ threw \subseteq {"yes", "no", "shared"}

\* Consecutive points of a route are more than MinDist apart, and a route has at
\* most Cap points (one more while the looper trims it), through resets at any
\* moment; except for a summary that the loopers of two services worked on at once.
RouteWellFormed ==
    \A o \in DOMAIN tripRoute \ shared :
       LET p == lists[tripRoute[o]].pts IN
         /\ \A i \in 1..(Len(p) - 1) : p[i + 1].at - p[i].at \notin (-MinDist)..MinDist
         /\ Len(p) <= Cap \/ \E g \in Gens : th[g].pc \in {"trim", "remove"} /\ Len(p) = Cap + 1

\* After a reset the route has no location that was dealt with before the reset;
\* only one being dealt with at that moment may still be added.
ResetForgets ==
    mTripSummary # 0 =>
       \A i \in DOMAIN lists[tripRoute[mTripSummary]].pts :
          lists[tripRoute[mTripSummary]].pts[i].n \notin old

\* addPosition fails, and loses its location, only when a reset overtakes it, or on a
\* summary that the loopers of two services worked on at once: the drawing, a new service
\* and the trimming of the route never make it fail.
LostOnlyByReset == "no" \notin threw

\* However often a drawing was broken off by an exception, and over new screens,
\* the map never shows parts of two drawings.
OneRouteOnMap == \A a, b \in overlays : a[2] = b[2]
=============================================================================
