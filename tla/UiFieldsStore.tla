----------------------------- MODULE UiFieldsStore -----------------------------
(***************************************************************************)
(* The fields shown to the driver: EventHandler, one per instance of       *)
(* GeoFlowService and each on a looper thread of its own, applies messages *)
(* to its copy of UiFields and saves the whole copy as a preference after  *)
(* each; the screen (TollInfoScreen) reads the preference when told that   *)
(* it changed.  The car's events come from CarPropertyClient.               *)
(*                                                                         *)
(* onDestroy does not stop the looper, so in one process the handlers of   *)
(* several instances may work on, each with its own copy.  apply changes   *)
(* the preference in memory at once and on disk later; a death of the      *)
(* process falls back to the disk.  Locations are numbered in the order     *)
(* they arrive; the car has one VIN, 1, and 0 stands for an event without  *)
(* a value.                                                                *)
(***************************************************************************)
EXTENDS CarPropertyClient, Sequences

CONSTANTS
    MaxHandlers,  \* bound on instances of the service in a process
    MaxEvents,    \* bound on locations, VINs and speeds together
    MaxQueue,     \* bound on messages waiting for a handler
    Speeds        \* kinds of speed values: "ok", "null" and "nan"

ASSUME UiFieldsStoreAssumption ==
    /\ {MaxHandlers, MaxEvents, MaxQueue} \subseteq Nat
    /\ Speeds \subseteq {"ok", "null", "nan"}

VARIABLES
    inst,    \* the handler of the running service, 0 if none
    h,       \* the handlers of this process: [q, f, cnt]
    pref,    \* the preference in memory: [f, by], by a history of who saved it
    disk,    \* the preference on disk
    n,       \* locations, and events of the car, so far
    reg,     \* location updates are registered for inst
    screen   \* TollInfoScreen: [on, told, shown]

vars == <<inst, h, pref, disk, n, reg, screen, carVars>>

\* UiFields: the newest position, its count, the speed and the VIN.
NewFields == [pos |-> 0, cnt |-> -1, speed |-> "none", vin |-> 0]
\* What an earlier process may have left behind, with a position older than all others.
Earlier == [pos |-> 0, cnt |-> 3, speed |-> "ok", vin |-> 1]
NoScreen == [on |-> FALSE, told |-> FALSE, shown |-> NewFields]

Init ==
    /\ inst = 0 /\ h = <<>>
    /\ disk \in {NewFields, Earlier} /\ pref = [f |-> disk, by |-> 0]
    /\ CarInit
    /\ n = [loc |-> 0, car |-> 0]
    /\ reg = FALSE /\ screen = NoScreen

-----------------------------------------------------------------------------
(* EventHandler and UiFields, on the looper thread of handler g.           *)

LocationMsg(k) == [what |-> "location", val |-> k]
VinMsg(k)      == [what |-> "vin", val |-> k]
SpeedMsg(v)    == [what |-> "speed", val |-> v]
TextMsg        == [what |-> "text", val |-> 0]  \* an exception or an error text: logged

Post(hs, g, m) == [hs EXCEPT ![g].q = Append(@, m)]

\* Mutant: a VIN is set in new fields.
Applied_New(f, m, posCnt) ==
    CASE m.what = "location" -> [f EXCEPT !.pos = m.val, !.cnt = posCnt + 1]
      [] m.what = "vin" /\ m.val # 0 -> [NewFields EXCEPT !.vin = m.val]
      [] OTHER -> f

\* The fields after message m; posCnt is the handler's own count.
Applied(f, m, posCnt) ==
    CASE m.what = "location" -> [f EXCEPT !.pos = m.val, !.cnt = posCnt + 1]
      [] m.what = "speed"    -> [f EXCEPT !.speed = m.val]
      [] m.what = "vin" /\ m.val # 0 -> [f EXCEPT !.vin = m.val]
      [] OTHER -> f

\* Mutant: only a position is worth saving.
Saved_Position(f, m) == m.what = "location" /\ f.speed # "nan"

\* saveAsPreference is reached and succeeds: a VIN without a value is an exception
\* before it, and Gson writes no NaN.
Saved(f, m) == m # VinMsg(0) /\ f.speed # "nan"

\* Mutant: the screen is told of new positions only.
Tells_Position(f) == screen.on /\ f.pos # pref.f.pos

\* The screen's listener is called when the saved text changes to that of f.
Tells(f) == screen.on /\ f # pref.f

\* The log, or for a location the trip route, may throw (~ok): a location is set
\* before, the other fields after.  Whatever is thrown is caught and logged.
handleMessage(g, ok) ==
    /\ h[g].q # <<>>
    /\ LET m == Head(h[g].q)
           f == IF ok \/ m.what = "location" THEN Applied(h[g].f, m, h[g].cnt) ELSE h[g].f
       IN /\ h' = [h EXCEPT ![g] = [q |-> Tail(@.q), f |-> f,
                                    cnt |-> IF m.what = "location" THEN @.cnt + 1 ELSE @.cnt]]
          /\ pref' = IF ok /\ Saved(f, m) THEN [f |-> f, by |-> g] ELSE pref
          /\ screen' = [screen EXCEPT !.told = @ \/ Tells(pref'.f)]
    /\ UNCHANGED <<inst, disk, n, reg, carVars>>

\* The constructor: the fields of the preference, but a count of zero.
NewHandler == [q |-> <<>>, f |-> pref.f, cnt |-> 0]

-----------------------------------------------------------------------------
(* GeoFlowService, on the main thread.                                     *)

onCreate ==
    /\ inst = 0 /\ Len(h) < MaxHandlers
    /\ h' = Append(h, NewHandler)
    /\ inst' = Len(h')
    /\ UNCHANGED <<pref, disk, n, reg, screen, carVars>>

\* A start command registers for locations and, in a car, initialises CarPropertyClient,
\* which reads the VIN (read); a failure is told to a handler.
onStartCommand ==
    /\ inst # 0 /\ Len(h[inst].q) < MaxQueue
    /\ \/ reg' = TRUE /\ UNCHANGED <<h, carVars>>
       \/ h' = Post(h, inst, TextMsg) /\ UNCHANGED <<reg, carVars>>
       \/ reg' = TRUE /\ initFails /\ h' = Post(h, inst, TextMsg)
       \/ \E got, vinOk, speedOk \in BOOLEAN, read \in {VinMsg(0), VinMsg(1), TextMsg} :
             /\ ~got => read = TextMsg /\ ~vinOk /\ ~speedOk
             /\ reg' = TRUE /\ init(inst, got, vinOk, speedOk)
             /\ h' = [h EXCEPT ![inst].q =
                         @ \o <<read>> \o IF speedOk THEN <<>> ELSE <<TextMsg>>]
    /\ UNCHANGED <<inst, pref, disk, n, screen>>

\* stopLocationUpdates; the car's callbacks stay, and the looper and its queue go on.
onDestroy ==
    /\ inst # 0
    /\ inst' = 0 /\ reg' = FALSE
    /\ UNCHANGED <<h, pref, disk, n, screen, carVars>>

-----------------------------------------------------------------------------
(* Events from outside, each delivered to the handler of its callback.     *)

More == n.loc + n.car < MaxEvents

onLocationResult ==
    /\ reg /\ More /\ Len(h[inst].q) < MaxQueue
    /\ n' = [n EXCEPT !.loc = @ + 1]
    /\ h' = Post(h, inst, LocationMsg(n.loc + 1))
    /\ UNCHANGED <<inst, pref, disk, reg, screen, carVars>>

ToCar(m) == Len(h[mEventHandler].q) < MaxQueue /\ h' = Post(h, mEventHandler, m)

\* The VIN, or no value.  Of several callbacks that send the same, one is enough.
onVin ==
    /\ vinReg /\ More
    /\ n' = [n EXCEPT !.car = @ + 1]
    /\ ToCar(VinMsg(1)) \/ ToCar(VinMsg(0))
    /\ UNCHANGED <<inst, pref, disk, reg, screen, carVars>>

\* A speed, or onErrorEvent, which sends a text.
onSpeed ==
    /\ speedRegs # {} /\ More
    /\ n' = [n EXCEPT !.car = @ + 1]
    /\ ToCar(TextMsg) \/ \E v \in Speeds : ToCar(SpeedMsg(v))
    /\ UNCHANGED <<inst, pref, disk, reg, screen, carVars>>

\* apply's write to disk, of what is in memory by then.
flush ==
    /\ disk # pref.f /\ disk' = pref.f
    /\ UNCHANGED <<inst, h, pref, n, reg, screen, carVars>>

\* The process dies and comes back.
restart ==
    /\ h # <<>>
    /\ inst' = 0 /\ h' = <<>> /\ reg' = FALSE
    /\ pref' = [f |-> disk, by |-> 0]
    /\ screen' = NoScreen
    /\ NoCarClient(mCarPropertyManager', mEventHandler', vehicleSpeedEventCallback', speedRegs', vinReg')
    /\ UNCHANGED <<disk, n>>

-----------------------------------------------------------------------------
(* TollInfoScreen.                                                         *)

newScreen ==
    /\ ~screen.on
    /\ screen' = [NoScreen EXCEPT !.on = TRUE]
    /\ UNCHANGED <<inst, h, pref, disk, n, reg, carVars>>

\* What the screen shows of the fields f: no VIN.
Shown(f) == [f EXCEPT !.vin = 0]

\* onSharedPreferenceChanged reads the preference as it is by now.  A speed without a
\* value makes updateUi throw, and the screen stays as it was.
onSharedPreferenceChanged ==
    /\ screen.told
    /\ screen' = [screen EXCEPT !.told = FALSE,
                                !.shown = IF pref.f.speed = "null" THEN @ ELSE Shown(pref.f)]
    /\ UNCHANGED <<inst, h, pref, disk, n, reg, carVars>>

Next ==
    \/ \E g \in DOMAIN h, ok \in BOOLEAN : handleMessage(g, ok)
    \/ onCreate \/ onStartCommand \/ onDestroy
    \/ onLocationResult \/ onVin \/ onSpeed \/ flush \/ restart
    \/ newScreen \/ onSharedPreferenceChanged

Spec == Init /\ [][Next]_vars

-----------------------------------------------------------------------------
\* The VIN and the speed of the handler that saved last are in the preference, over
\* messages that throw and handlers that save in between, and its position at most
\* until an exception; only a speed that is not a number keeps it, and whatever
\* comes after, from being saved.
SavedIsCopy ==
    pref.by # 0 /\ h[pref.by].f.speed # "nan" =>
       LET f == h[pref.by].f IN
         /\ pref.f.vin = f.vin /\ pref.f.speed = f.speed
         /\ pref.f.pos <= f.pos

\* A saved position or VIN is replaced by an older one only when a handler saves over
\* what another handler saved, or when a death of the process goes back to the disk.
\* The saved count goes back then as well, and when a handler that took over a count
\* saves its first position: to the count of the positions that handler was given,
\* some of which it may have failed to save.
OlderOnlyByAnotherHandler ==
    [][pref'.by = pref.by =>
          /\ pref'.f.pos >= pref.f.pos
          /\ pref'.f.vin >= pref.f.vin
          /\ pref'.f.cnt >= pref.f.cnt \/ pref'.f.cnt = h'[pref'.by].cnt]_vars

\* A screen that has nothing left to be told shows what is saved, unless it is new or
\* the saved speed has no value, which keeps it from showing anything.
ScreenShowsSaved ==
    screen.on /\ ~screen.told => \/ screen.shown = Shown(pref.f)
                                 \/ screen.shown = NewFields
                                 \/ pref.f.speed = "null"
=============================================================================
