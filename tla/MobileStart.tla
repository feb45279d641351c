------------------------------ MODULE MobileStart ------------------------------
(***************************************************************************)
(* The telephone application: MainActivity asks for the location           *)
(* permissions, starts GeoFlowService and binds it while it is on screen.  *)
(* An answer to the permission request opens the activity again, on top of *)
(* itself, so instances form a stack.                                      *)
(***************************************************************************)
EXTENDS GeoFlowService

CONSTANT MaxActs   \* bound on the stack of activities

ASSUME MobileStartAssumption == MaxActs \in Nat

VARIABLES
    stack,    \* activities, the top last
    launches  \* instances of MainActivity about to be opened

vars == <<sysVars, stack, launches>>

NewActivity == [on |-> FALSE, fin |-> FALSE, conn |-> 0, bound |-> FALSE, ask |-> "no"]

MobileInit == Init /\ stack = <<>> /\ launches = 0

\* The activity that is on screen or comes back next.
Top == IF stack # <<>> /\ stack[Len(stack)].fin THEN Len(stack) - 1 ELSE Len(stack)

\* A connection object that no field and no binding refers to.
Unused == Conns \ (conns \cup {stack[a].conn : a \in DOMAIN stack})
NewConn == CHOOSE c \in Unused : TRUE

\* The permission MainActivity.checkPermissions has to ask for, "no" if none.
checkPermissions ==
    IF {"fine", "coarse"} \cap perm = {} THEN "foreground"
    ELSE IF "background" \notin perm THEN "background" ELSE "no"

\* Activity a of s in onStart: ask, or broadcast and bind.  A request that is not
\* answered yet is not made again.
onStart(s, a) ==
    \/ /\ checkPermissions # "no"
       /\ stack' = [s EXCEPT ![a].on = TRUE,
                             ![a].ask = IF @ = "no" THEN checkPermissions ELSE @]
       /\ UNCHANGED <<casts, conns, svc>>
    \/ /\ checkPermissions = "no"
       /\ sendBroadcast("START_GEOFLOW_SERVICE_ACTION")
       /\ Unused # {}
       /\ conns' = Bound(NewConn)
       /\ svc' = Settle(svc, req.started, conns')
       /\ stack' = [s EXCEPT ![a].on = TRUE, ![a].conn = NewConn]

\* The launcher or startActivity; the activity below is stopped afterwards.
openActivity ==
    /\ Top = Len(stack) /\ Len(stack) < MaxActs
    /\ (launches = 0) = (stack = <<>>)
    /\ launches' = IF launches > 0 THEN launches - 1 ELSE 0
    /\ up' = TRUE
    /\ onStart(Append(stack, NewActivity), Len(stack) + 1)
    /\ UNCHANGED <<api, prefOk, perm, req, updates>>

onRestart ==
    /\ Top > 0 /\ ~stack[Top].on /\ launches = 0
    /\ onStart(stack, Top)
    /\ UNCHANGED <<api, prefOk, up, perm, req, updates, launches>>

\* The back key: the activity below, if any, is started first.
finish ==
    /\ Top > 0 /\ Top = Len(stack) /\ stack[Top].on /\ launches = 0
    /\ stack' = [stack EXCEPT ![Top].fin = TRUE]
    /\ UNCHANGED <<sysVars, launches>>

\* Mutant: the connection is forgotten, not unbound.
Released_None(a) == conns

\* The connections after onStop of activity a.
Released(a) == conns \ {stack[a].conn}

\* mServiceConnection is never set back to null.
Stopped(x) == [x EXCEPT !.on = FALSE, !.bound = @ /\ x.conn = 0]

\* To unbind a connection that is not bound is an exception nobody catches.
onStop(a) ==
    /\ stack[a].on /\ (stack[a].fin => \A b \in DOMAIN stack : b = a - 1 => stack[b].on)
    /\ IF stack[a].conn \in {0} \cup conns
       THEN /\ conns' = Released(a)
            /\ svc' = Settle(svc, req.started, conns')
            /\ stack' = IF stack[a].fin THEN SubSeq(stack, 1, a - 1)
                        ELSE [stack EXCEPT ![a] = Stopped(@)]
            /\ UNCHANGED <<api, prefOk, up, perm, casts, req, updates, launches>>
       ELSE /\ Die(req.starts)
            /\ stack' = <<>> /\ launches' = 0
            /\ UNCHANGED perm

Answered(a) == [stack EXCEPT ![a].ask = "no"]

\* onRequestPermissionsResult.  The loop over the two foreground permissions does
\* everything twice; of two requests the second is cancelled.  A dialogue that is
\* broken off answers for no permission.
onRequestPermissionsResult ==
    /\ Top > 0 /\ stack[Top].on /\ stack[Top].ask # "no"
    /\ \/ stack' = Answered(Top) /\ UNCHANGED <<perm, req, svc, launches>>
       \/ /\ stack[Top].ask = "foreground"
          /\ perm' \in {perm, perm \cup {"coarse"}, perm \cup {"fine", "coarse"}}
          /\ IF {"fine", "coarse"} \cap perm' = {} THEN UNCHANGED <<stack, launches>>
             ELSE /\ Top = Len(stack) /\ Len(stack) + 2 <= MaxActs /\ launches = 0
                  /\ stack' = Answered(Top)
                  /\ launches' = 2
          /\ UNCHANGED <<req, svc>>
       \/ /\ stack[Top].ask = "background"
          /\ perm' \in {perm, perm \cup {"background"}}
          /\ IF "background" \notin perm' THEN UNCHANGED <<stack, req, svc>>
             ELSE stack' = Answered(Top) /\ startForegroundService("bare")
          /\ UNCHANGED launches
    /\ UNCHANGED <<api, prefOk, up, casts, conns, updates>>

\* onBind hands out the binder; the callback reaches the activity that made the
\* connection.
onServiceConnected(a) ==
    /\ svc.state = "alive" /\ ~svc.stop
    /\ stack[a].conn \in conns /\ ~stack[a].bound
    /\ stack' = [stack EXCEPT ![a].bound = TRUE]
    /\ UNCHANGED <<sysVars, launches>>

\* A step of the service or the system; activities end with their process.
serviceStep ==
    /\ ServiceNext
    /\ IF up' THEN UNCHANGED <<stack, launches>> ELSE stack' = <<>> /\ launches' = 0

Next ==
    \/ serviceStep
    \/ openActivity \/ onRestart \/ finish \/ onRequestPermissionsResult
    \/ \E a \in DOMAIN stack : onStop(a) \/ onServiceConnected(a)

Spec == MobileInit /\ [][Next]_vars

-----------------------------------------------------------------------------
\* The bound connections are those of the activities on screen, and no others: though
\* an activity is opened on top of itself and never clears its field, no onStop
\* leaves a connection behind and none unbinds one that is not bound.  An activity
\* that believes it is bound is so, to the instance that is running.
BoundWhileOnScreen ==
    /\ conns = {stack[a].conn : a \in {b \in DOMAIN stack : stack[b].on}} \ {0}
    /\ \A a \in DOMAIN stack : stack[a].bound =>
          svc.state = "alive" /\ ~svc.stop /\ stack[a].conn \in conns
=============================================================================
