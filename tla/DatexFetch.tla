------------------------------ MODULE DatexFetch ------------------------------
(***************************************************************************)
(* The fetch of road signs from the map screen: MapActivity's refresh      *)
(* button, the options it leaves in static fields of DatexFetchHttp, the   *)
(* AsyncTask that reads them on the background thread, and the way back    *)
(* through the main looper to the screen (MapHandler, onDatexOk,           *)
(* onDatexError).                                                          *)
(*                                                                         *)
(* Two threads run: the UI thread, whose handlers are atomic towards each  *)
(* other but not towards the background thread, and the single background  *)
(* thread of AsyncTask's serial executor.  The option fields are plain     *)
(* statics without a lock, so a background read may return any write since *)
(* the last one ordered before it (the hand-over by execute).              *)
(*                                                                         *)
(* A PSID and an SSP are abstracted to the click that wrote them.  The     *)
(* route drawn by populateTripView is not part of this module; what        *)
(* matters here is that it can throw and so end a click early.             *)
(***************************************************************************)
EXTENDS Integers, Sequences, FiniteSets, Functions

CONSTANTS
    Signs,       \* sign ids that may occur in a reply
    Replies,     \* the lists of signs a reply may hold
    Protocols,   \* the radio buttons
    MaxClicks,   \* bound on refresh clicks
    MaxActs      \* bound on MapActivity instances

\* An element of signList as Gson made it: it can be null, lack its signId, and hold
\* image data that is no Base64.
NullSign == "null"
NoId == "no id"
Entry == [id : Signs \cup {NullSign, NoId}, shows : {"blank", "lit"}, image : {"ok", "bad"}]

NoSign == "none"

ASSUME DatexFetchAssumption ==
    /\ IsFiniteSet(Signs) /\ Signs # {} /\ Signs \cap {NullSign, NoId, NoSign} = {}
    /\ Replies \subseteq Seq(Entry)
    /\ {"HTTP", "HTTPS"} \subseteq Protocols
    /\ Protocols \subseteq {"HTTP", "HTTPS", "RFC8902", "ISO21177"}
    /\ MaxClicks \in Nat \ {0} /\ MaxActs \in Nat \ {0}

VARIABLES
    main,          \* the UI (main) thread: [pc, proto]; between handlers pc = "idle"
    click,         \* number of refresh clicks so far; the current one's id
    act,           \* the MapActivity instance on screen, 0 for none
    acts,          \* instances created so far
    opt,           \* static option fields of DatexFetchHttp: writes, oldest first
    queue,         \* AsyncTask's serial queue
    bg,            \* the background thread
    looper,        \* the main looper's queue
    datexReply,    \* MapActivity.datexReply: <<>> for null, else <<reply>>
    datexReplyCnt, \* MapActivity.datexReplyCnt
    view,          \* the widgets of the instance on screen
    proc,          \* "running", or "aborted" by an exception nobody catches
    reported,      \* history: fetches whose outcome reached a screen
    whole          \* history: the newest reply without a null element, as datexReply

fetchVars == <<main, click, act, acts, opt, queue, bg, looper, datexReply,
               datexReplyCnt, view, proc, reported, whole>>

Click == 1..MaxClicks
Options == {"psid", "ssp", "proto"}

\* The loops over signList: one that no null element ends, and what it puts on the map.
IsWhole(r) == \A i \in DOMAIN r : r[i].id # NullSign
Lit(r) == {r[i].id : i \in {j \in DOMAIN r : r[j].shows = "lit"}}

\* Place i ends the search for sign id, by a match or by an exception.
Stops(r, id, i) == /\ r[i].id \in {id, NullSign, NoId}
                   /\ \A j \in 1..(i - 1) : r[j].id \notin {id, NullSign, NoId}
Finds(r, id) == \E i \in DOMAIN r : Stops(r, id, i) /\ r[i].id = id
Throws(r, id) == \E i \in DOMAIN r : Stops(r, id, i) /\ (r[i].id # id \/ r[i].image = "bad")

\* A write of an option: by which click, and the value.  The SSP array is
\* published all zero and filled afterwards.
Write == [by : 0..MaxClicks, val : {"parsed", "zero", "full"} \cup Protocols]

\* What execute hands over: the handler, as its activity, and how much of each
\* field's history is ordered before the task.  asked (the radio button of the
\* click) is a history field no code reads.
Task == [id : Click, act : 1..MaxActs, asked : Protocols, pub : [Options -> Nat]]
NoTask == [id |-> 0]

\* bg.used: the write each option was read from.
NotRead == [by |-> 0, val |-> "not read"]
NoneUsed == [o \in Options |-> NotRead]

EmptyView == [text |-> "layout", number |-> 0, items |-> {}, sign |-> NoSign,
              ver |-> 0, currSignId |-> NoSign]

FetchInit ==
    /\ main = [pc |-> "idle", proto |-> "HTTP"]
    /\ click = 0 /\ act = 0 /\ acts = 0
    /\ opt = [o \in Options |->
                <<[by |-> 0, val |-> CASE o = "psid"  -> "parsed"
                                       [] o = "ssp"   -> "full"
                                       [] o = "proto" -> "HTTPS"]>>]
    /\ queue = <<>> /\ looper = <<>> /\ reported = <<>>
    /\ bg = [pc |-> "none", task |-> NoTask, used |-> NoneUsed]
    /\ datexReply = <<>> /\ datexReplyCnt = 0 /\ whole = <<>>
    /\ view = EmptyView
    /\ proc = "running"

UiIdle == proc = "running" /\ main.pc = "idle"

-----------------------------------------------------------------------------
(* The UI thread: life cycle.  The activity is singleInstance and          *)
(* noHistory, so at most one instance is on screen and a stopped one does  *)
(* not come back.                                                          *)

\* onCreate and onStart.  The handler of the new instance is bound to it; no sign of an earlier
\* reply is put on the new map.
onCreate ==
    /\ UiIdle /\ act = 0 /\ acts < MaxActs
    /\ acts' = acts + 1 /\ act' = acts + 1
    /\ view' = EmptyView
    /\ UNCHANGED <<main, click, opt, queue, bg, looper, datexReply,
                   datexReplyCnt, proc, reported, whole>>

\* The close button or leaving the screen.  Fetches under way go on.  (isActive,
\* set by onStart and onStop, is read nowhere.)
onStop ==
    /\ UiIdle /\ act # 0
    /\ act' = 0
    /\ view' = EmptyView
    /\ UNCHANGED <<main, click, acts, opt, queue, bg, looper, datexReply,
                   datexReplyCnt, proc, reported, whole>>

-----------------------------------------------------------------------------
(* The UI thread: the refresh button, one step per write another thread    *)
(* can see.                                                                *)

Wrote(c, o, v) == [opt EXCEPT ![o] = Append(@, [by |-> c, val |-> v])]

clickUnchanged == UNCHANGED <<act, acts, bg, looper, datexReply, datexReplyCnt,
                           proc, reported, whole>>

\* populateTripView may throw, and the PSID may not parse: no fetch then.
RefreshPsid(p) ==
    /\ UiIdle /\ act # 0 /\ click < MaxClicks
    /\ click' = click + 1
    /\ \/ /\ main' = [pc |-> "ssp", proto |-> p]          \* a number
          /\ opt' = Wrote(click + 1, "psid", "parsed")
          /\ UNCHANGED view
       \/ /\ view' = [view EXCEPT !.text = "Illegal PSID entered"]
          /\ UNCHANGED <<main, opt>>
       \/ UNCHANGED <<main, opt, view>>                   \* an exception
    /\ UNCHANGED queue /\ clickUnchanged

\* setSsp: an odd number of characters leaves the new PSID in place.
RefreshSsp ==
    /\ proc = "running" /\ main.pc = "ssp"
    /\ \/ /\ main' = [main EXCEPT !.pc = "fill"]
          /\ opt' = Wrote(click, "ssp", "zero")
          /\ UNCHANGED view
       \/ /\ view' = [view EXCEPT !.text = "Illegal SSP entered"]
          /\ main' = [main EXCEPT !.pc = "idle"]
          /\ UNCHANGED opt
    /\ UNCHANGED <<click, queue>> /\ clickUnchanged

RefreshFill ==
    /\ proc = "running" /\ main.pc = "fill"
    /\ main' = [main EXCEPT !.pc = "http"]
    /\ opt' = Wrote(click, "ssp", "full")
    /\ UNCHANGED <<click, queue, view>> /\ clickUnchanged

\* optProtocol is HTTP for a moment whatever is selected.
RefreshHttp ==
    /\ proc = "running" /\ main.pc = "http"
    /\ main' = [main EXCEPT !.pc = "proto"]
    /\ opt' = Wrote(click, "proto", "HTTP")
    /\ UNCHANGED <<click, queue, view>> /\ clickUnchanged

\* Mutant: the last radio button is forgotten.
RefreshProto_NoLast ==
    /\ proc = "running" /\ main.pc = "proto"
    /\ main' = [main EXCEPT !.pc = "exec"]
    /\ opt' = IF main.proto = "ISO21177" THEN opt ELSE Wrote(click, "proto", main.proto)
    /\ UNCHANGED <<click, queue, view>> /\ clickUnchanged

RefreshProto ==
    /\ proc = "running" /\ main.pc = "proto"
    /\ main' = [main EXCEPT !.pc = "exec"]
    /\ opt' = Wrote(click, "proto", main.proto)
    /\ UNCHANGED <<click, queue, view>> /\ clickUnchanged

RefreshExecute ==
    /\ proc = "running" /\ main.pc = "exec"
    /\ main' = [main EXCEPT !.pc = "idle"]
    /\ view' = [view EXCEPT !.text = "Requesting"]
    /\ queue' = Append(queue, [id |-> click, act |-> act, asked |-> main.proto,
                               pub |-> [o \in Options |-> Len(opt[o])]])
    /\ UNCHANGED <<click, opt>> /\ clickUnchanged

-----------------------------------------------------------------------------
(* The background thread: doInBackground.                                  *)

bgUnchanged == UNCHANGED <<main, click, act, acts, opt, datexReply,
                           datexReplyCnt, view, reported, whole>>

\* AsyncTask's serial executor runs the tasks one by one in the order of execute.
StartTask ==
    /\ proc = "running" /\ bg.pc = "none" /\ queue # <<>>
    /\ bg' = [pc |-> "switch", task |-> Head(queue), used |-> NoneUsed]
    /\ queue' = Tail(queue)
    /\ UNCHANGED <<looper, proc>> /\ bgUnchanged

\* The writes a read of field o may return.
Visible(o) == {opt[o][i] : i \in bg.task.pub[o]..Len(opt[o])}

Read(o, pc) ==
    /\ \E w \in Visible(o) : bg' = [bg EXCEPT !.used[o] = w, !.pc = pc]
    /\ UNCHANGED <<queue, looper, proc>> /\ bgUnchanged

\* switch (optProtocol)
ReadProtocol ==
    /\ proc = "running" /\ bg.pc = "switch"
    /\ \E w \in Visible("proto") :
          bg' = [bg EXCEPT !.used["proto"] = w,
                           !.pc = IF w.val \in {"HTTP", "HTTPS"} THEN "get" ELSE "psid"]
    /\ UNCHANGED <<queue, looper, proc>> /\ bgUnchanged

\* do_rfc8902 (and do_iso21177, which is do_rfc8902 under another label):
\* setPsid(optPsid), setSsp(optSsp), then httpGet.
ReadPsid == proc = "running" /\ bg.pc = "psid" /\ Read("psid", "ssp")
ReadSsp  == proc = "running" /\ bg.pc = "ssp"  /\ Read("ssp", "get")

\* What a fetch can come back with: nothing (a failed or, for HTTP and HTTPS, a
\* not-OK exchange), or a text that is a reply, JSON of another shape, or no JSON.
Results == [kind : {"null", "nolist", "notjson"}, reply : {<<>>}]
              \cup [kind : {"signs"}, reply : Replies]

FetchReturns(r) ==
    /\ proc = "running" /\ bg.pc = "get"
    /\ looper' = Append(looper, [what |-> "finish", task |-> bg.task,
                                 proto |-> bg.used["proto"].val, res |-> r])
    /\ bg' = [pc |-> "none", task |-> NoTask, used |-> NoneUsed]
    /\ UNCHANGED <<queue, proc>> /\ bgUnchanged

\* An exception out of the native client ends the process.
FetchAborts ==
    /\ proc = "running" /\ bg.pc = "get"
    /\ bg.used["proto"].val \in {"RFC8902", "ISO21177"}
    /\ proc' = "aborted"
    /\ UNCHANGED <<queue, bg, looper>> /\ bgUnchanged

-----------------------------------------------------------------------------
(* The UI thread: messages of the main looper.                             *)

Received(what) == UiIdle /\ looper # <<>> /\ Head(looper).what = what

\* Mutant: after MSG_DATEX_OK the handler falls through to MSG_DATEX_ERROR.
Sends_Both(m) ==
    IF m.res.kind = "signs"
    THEN <<[m EXCEPT !.what = "MSG_DATEX_OK"], [m EXCEPT !.what = "MSG_DATEX_ERROR"]>>
    ELSE <<[m EXCEPT !.what = "MSG_DATEX_ERROR"]>>

\* Mutant: a missing result is only logged.
Sends_NotNull(m) ==
    IF m.res.kind = "null" THEN <<>> ELSE
    IF m.res.kind = "signs" THEN <<[m EXCEPT !.what = "MSG_DATEX_OK"]>>
                            ELSE <<[m EXCEPT !.what = "MSG_DATEX_ERROR"]>>

Sends(m) ==
    IF m.res.kind = "signs" THEN <<[m EXCEPT !.what = "MSG_DATEX_OK"]>>
                            ELSE <<[m EXCEPT !.what = "MSG_DATEX_ERROR"]>>

onPostExecute ==
    /\ Received("finish")
    /\ looper' = Tail(looper) \o Sends(Head(looper))
    /\ UNCHANGED <<main, click, act, acts, opt, queue, bg, datexReply,
                   datexReplyCnt, view, proc, reported, whole>>

\* The rows of sign id, looked up in reply r, number n; an image that does not decode
\* throws after they are set, and a null id returns at once.
updateSignFromId(v, r, n, id) ==
    IF id \in Signs /\ Finds(r, id) THEN [v EXCEPT !.currSignId = id, !.sign = id, !.ver = n]
                                   ELSE v

\* Mutant: blank signs are put on the map as well.
addSigns_Blank(v, r, n) ==
    IF IsWhole(r)
    THEN updateSignFromId([v EXCEPT !.items = {r[i].id : i \in DOMAIN r}], r, n, v.currSignId)
    ELSE v

\* A null element throws before the old items are removed.
addSigns(v, r, n) ==
    IF IsWhole(r) THEN updateSignFromId([v EXCEPT !.items = Lit(r)], r, n, v.currSignId)
                  ELSE v

\* The statics change even when the screen that asked is gone, and before addSigns
\* can throw; MapHandler catches that.
onDatexOk ==
    /\ Received("MSG_DATEX_OK")
    /\ LET m == Head(looper) IN
         /\ datexReply' = <<m.res.reply>>
         /\ datexReplyCnt' = datexReplyCnt + 1
         /\ whole' = IF IsWhole(m.res.reply) THEN <<m.res.reply>> ELSE whole
         /\ view' = IF m.task.act # act THEN view
                    ELSE addSigns([view EXCEPT !.text = m.proto,
                                               !.number = datexReplyCnt'],
                                  m.res.reply, datexReplyCnt')
         /\ reported' = Append(reported, m.task.id)
    /\ looper' = Tail(looper)
    /\ UNCHANGED <<main, click, act, acts, opt, queue, bg, proc>>

onDatexError ==
    /\ Received("MSG_DATEX_ERROR")
    /\ LET m == Head(looper) IN
         /\ view' = IF m.task.act # act THEN view ELSE [view EXCEPT !.text = "Failure"]
         /\ reported' = Append(reported, m.task.id)
    /\ looper' = Tail(looper)
    /\ UNCHANGED <<main, click, act, acts, opt, queue, bg, datexReply,
                   datexReplyCnt, proc, whole>>

\* A tap on a sign of the map empties the rows, then looks the sign up in the
\* static reply.  Nothing catches an exception here.
onItemSingleTapUp(s) ==
    /\ UiIdle /\ act # 0 /\ s \in view.items
    /\ view' = updateSignFromId([view EXCEPT !.sign = NoSign, !.ver = 0],
                                datexReply[1], datexReplyCnt, s)
    /\ proc' = IF s \in Signs /\ Throws(datexReply[1], s) THEN "aborted" ELSE "running"
    /\ UNCHANGED <<main, click, act, acts, opt, queue, bg, looper, datexReply,
                   datexReplyCnt, reported, whole>>

-----------------------------------------------------------------------------
Background == StartTask \/ ReadProtocol \/ ReadPsid \/ ReadSsp

UiStep == RefreshSsp \/ RefreshFill \/ RefreshHttp \/ RefreshProto \/ RefreshExecute
             \/ onPostExecute \/ onDatexOk \/ onDatexError

FetchNext ==
    \/ onCreate \/ onStop
    \/ \E p \in Protocols : RefreshPsid(p)
    \/ \E s \in Signs \cup {NoId} : onItemSingleTapUp(s)
    \/ UiStep
    \/ Background
    \/ \E r \in Results : FetchReturns(r)
    \/ FetchAborts

FetchSpec == FetchInit /\ [][FetchNext]_fetchVars

\* Both threads keep running.  Nothing makes a fetch return.
FairFetchSpec == FetchSpec /\ WF_fetchVars(Background) /\ WF_fetchVars(UiStep)

-----------------------------------------------------------------------------
Message == [what : {"finish", "MSG_DATEX_OK", "MSG_DATEX_ERROR"}, task : Task,
            proto : Protocols, res : Results]

\* Type correctness of the threads, the queues and the screen.
FetchTypeOK ==
    /\ main \in [pc : {"idle", "ssp", "fill", "http", "proto", "exec"}, proto : Protocols]
    /\ click \in 0..MaxClicks /\ acts \in 0..MaxActs /\ act \in {0, acts}
    /\ DOMAIN opt = Options
    /\ \A o \in Options : \A i \in DOMAIN opt[o] : opt[o][i] \in Write
    /\ \A i \in DOMAIN queue : queue[i] \in Task
    /\ \A i \in DOMAIN looper : looper[i] \in Message
    /\ bg.pc \in {"none", "switch", "psid", "ssp", "get"}
    /\ bg.pc # "none" => bg.task \in Task
    /\ datexReply = <<>> \/ datexReply[1] \in Replies
    /\ datexReplyCnt \in 0..MaxClicks /\ (datexReplyCnt = 0 <=> datexReply = <<>>)
    /\ view.items \subseteq Signs \cup {NoId} /\ view.sign \in Signs \cup {NoSign}
    /\ proc \in {"running", "aborted"}

\* The options a fetch works with come from its own click or from a later one,
\* never from an earlier; and what comes from its own click is complete: the SSP
\* filled in and the protocol the selected one, not the HTTP set in passing.
FetchHonoursClick ==
    \A o \in Options :
       LET w == bg.used[o] IN
         w # NotRead =>
           /\ w.by >= bg.task.id
           /\ w.by = bg.task.id => w.val = CASE o = "psid"  -> "parsed"
                                              [] o = "ssp"   -> "full"
                                              [] o = "proto" -> bg.task.asked

\* The fetches handed to the executor, by how far they have come: 0 reported, 1 decided
\* (MSG_DATEX_OK or MSG_DATEX_ERROR sent), 2 finished, 3 under way, 4 waiting.
Fetches ==
    {[stage |-> 0, place |-> i, id |-> reported[i]] : i \in DOMAIN reported}
      \cup {[stage |-> IF looper[i].what = "finish" THEN 2 ELSE 1, place |-> i,
             id |-> looper[i].task.id] : i \in DOMAIN looper}
      \cup (IF bg.pc = "none" THEN {} ELSE {[stage |-> 3, place |-> 0, id |-> bg.task.id]})
      \cup {[stage |-> 4, place |-> i, id |-> queue[i].id] : i \in DOMAIN queue}

Ahead(f, g) == f.stage < g.stage \/ (f.stage = g.stage /\ f.place < g.place)

Pending == {f.id : f \in {g \in Fetches : g.stage # 0}}

\* Outcomes reach the screen in the order of the clicks, each exactly once: of any two
\* fetches, reported or not, the one of the earlier click is further.
ReportedOnceInOrder ==
    \A f, g \in Fetches : Ahead(f, g) => f.id < g.id

\* Signs on the map are those of the newest reply that is a list of signs, whichever
\* screen it was fetched for: a later one with a null element, which throws half way,
\* leaves them all.  And the rows on screen are those of the newest reply when it is
\* whole and has their sign in reach, whatever threw before.
MapShowsNewestReply ==
    /\ act # 0 /\ view.items # {} => whole # <<>> /\ view.items = Lit(whole[1])
    /\ act # 0 /\ view.sign # NoSign /\ IsWhole(datexReply[1]) /\ Finds(datexReply[1], view.sign)
          => view.ver = datexReplyCnt

\* Every fetch handed to the executor is reported in the end, unless a fetch
\* never returns or the process is aborted.
EveryFetchReported ==
    \/ <>[](bg.pc = "get") \/ <>(proc = "aborted")
    \/ \A c \in Click : c \in Pending ~> c \in Range(reported)
=============================================================================
