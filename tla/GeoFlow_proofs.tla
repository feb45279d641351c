---------------------------- MODULE GeoFlow_proofs ----------------------------
(***************************************************************************)
(* Proofs about the life cycle of the location service under the telephone *)
(* application and, at the end, under the car application, for every API   *)
(* level, every number of connections and activities and every bound on    *)
(* what is under way.                                                      *)
(***************************************************************************)
EXTENDS MobileStart, CarStart, SequenceTheorems, FiniteSetTheorems, TLAPS

\* Bringing the service up or down leaves a running instance as it is, but for the
\* request to stop.
LEMMA SettleFacts ==
    ASSUME NEW s, s \in [state : {"none", "creating", "alive"}, stop : BOOLEAN,
                         client : BOOLEAN, inst : {0, 1, 2}],
           NEW started, NEW bound
    PROVE  /\ Settle(s, started, bound) \in [state : {"none", "creating", "alive"},
                         stop : BOOLEAN, client : BOOLEAN, inst : {0, 1, 2}]
           /\ s.state = "alive" => /\ Settle(s, started, bound).state = "alive"
                                   /\ Settle(s, started, bound).client = s.client
                                   /\ Settle(s, started, bound).inst = s.inst
BY DEF Settle

\* The service's record is well formed, and updates are registered only for the
\* running instance, with the permissions they need.
ServedInv ==
    /\ svc \in [state : {"none", "creating", "alive"}, stop : BOOLEAN,
                client : BOOLEAN, inst : {0, 1, 2}]
    /\ prefOk \in BOOLEAN
    /\ UpdatesOnlyWhileServed

LEMMA InitServed == MobileInit => ServedInv
BY DEF MobileInit, Init, ServedInv, NoService, UpdatesOnlyWhileServed

\* A death of the process leaves no updates.
LEMMA DieServed == \A left : ServedInv /\ Die(left) => ServedInv'
BY DEF Die, ServedInv, NoService, UpdatesOnlyWhileServed

\* A step of an application: updates, instance and process stay, and no permission is taken away.
LEMMA ClientServed ==
    ASSUME ServedInv, UNCHANGED <<prefOk, updates>>, up => up', MayLocate => MayLocate',
           \/ UNCHANGED svc
           \/ \E started, bound : svc' = Settle(svc, started, bound)
    PROVE  ServedInv'
BY SettleFacts DEF ServedInv, UpdatesOnlyWhileServed

\* Every step of the service and of the system preserves the invariant.
LEMMA ServiceServed == ServedInv /\ ServiceNext => ServedInv'
<1> SUFFICES ASSUME ServedInv, ServiceNext PROVE ServedInv'
  OBVIOUS
<1>1. CASE onReceive
  <2>1. UNCHANGED svc \/ svc' = Settle(svc, TRUE, conns)
    BY <1>1 DEF onReceive, startForegroundService
  <2> QED
    BY <1>1, <2>1, ClientServed DEF onReceive, MayLocate
<1>2. CASE onCreate
  BY <1>2 DEF onCreate, ServedInv, UpdatesOnlyWhileServed
<1>3. CASE onStartCommand
  <2>1. CASE ~Crashes(Head(req.starts))
    BY <1>3, <2>1 DEF onStartCommand, ServedInv, UpdatesOnlyWhileServed, MayLocate,
                      startLocationUpdates
  <2>2. CASE Crashes(Head(req.starts))
    BY <1>3, <2>2, DieServed DEF onStartCommand
  <2> QED
    BY <2>1, <2>2
<1>4. CASE onDestroy
  <2>1. updates' = {}
    BY <1>4 DEF onDestroy, stopLocationUpdates, ServedInv, UpdatesOnlyWhileServed
  <2>2. NoService \in [state : {"none", "creating", "alive"}, stop : BOOLEAN,
                       client : BOOLEAN, inst : {0, 1, 2}]
    BY DEF NoService
  <2> QED
    BY <1>4, <2>1, <2>2, SettleFacts DEF onDestroy, ServedInv, UpdatesOnlyWhileServed
<1>5. CASE systemBroadcast
  BY <1>5, ClientServed DEF systemBroadcast, MayLocate
<1>6. CASE systemRestart
  BY <1>6, ClientServed DEF systemRestart, MayLocate
<1>7. CASE systemStop
  BY <1>7, ClientServed DEF systemStop, MayLocate
<1>8. CASE systemKill
  BY <1>8, DieServed DEF systemKill
<1>9. CASE userGrants
  BY <1>9, ClientServed DEF userGrants, Permissions, MayLocate
<1>10. CASE userRevokes
  <2>1. CASE up
    BY <1>10, <2>1, DieServed DEF userRevokes
  <2>2. CASE ~up
    BY <1>10, <2>2 DEF userRevokes, ServedInv, UpdatesOnlyWhileServed
  <2> QED
    BY <2>1, <2>2
<1> QED
  BY <1>1, <1>2, <1>3, <1>4, <1>5, <1>6, <1>7, <1>8, <1>9, <1>10 DEF ServiceNext

\* Every step of the telephone application preserves it.
LEMMA MobileServed == ServedInv /\ [Next]_vars => ServedInv'
<1> SUFFICES ASSUME ServedInv, [Next]_vars PROVE ServedInv'
  OBVIOUS
<1>1. CASE serviceStep
  BY <1>1, ServiceServed DEF serviceStep
<1>2. ASSUME NEW s, NEW a, onStart(s, a)
      PROVE  UNCHANGED svc \/ \E started, bound : svc' = Settle(svc, started, bound)
  BY <1>2 DEF onStart
<1>3. CASE openActivity
  BY <1>2, <1>3, ClientServed DEF openActivity, MayLocate
<1>4. CASE onRestart
  BY <1>2, <1>4, ClientServed DEF onRestart, MayLocate
<1>5. CASE finish
  BY <1>5, ClientServed DEF finish, sysVars, MayLocate
<1>6. CASE onRequestPermissionsResult
  BY <1>6, ClientServed DEF onRequestPermissionsResult, startForegroundService, MayLocate
<1>7. ASSUME NEW a \in DOMAIN stack, onStop(a) PROVE ServedInv'
  <2>1. CASE stack[a].conn \in {0} \cup conns
    BY <1>7, <2>1, ClientServed DEF onStop, MayLocate
  <2>2. CASE stack[a].conn \notin {0} \cup conns
    BY <1>7, <2>2, DieServed DEF onStop
  <2> QED
    BY <2>1, <2>2
<1>8. ASSUME NEW a \in DOMAIN stack, onServiceConnected(a) PROVE ServedInv'
  BY <1>8, ClientServed DEF onServiceConnected, sysVars, MayLocate
<1>9. CASE UNCHANGED vars
  BY <1>9, ClientServed DEF vars, sysVars, MayLocate
<1> QED
  BY <1>1, <1>3, <1>4, <1>5, <1>6, <1>7, <1>8, <1>9 DEF Next

\* Whatever the order of restarts, repeated starts, revocations and destructions, and
\* however many activities and commands there are: location updates reach only the
\* running instance (GeoFlowService.onDestroy, LocationClient).
THEOREM UpdatesServed == Spec => []UpdatesOnlyWhileServed
<1>1. ServedInv => UpdatesOnlyWhileServed
  BY DEF ServedInv
<1> QED
  BY InitServed, MobileServed, <1>1, PTL DEF Spec

-----------------------------------------------------------------------------
(* The promise of startForegroundService.                                  *)

Commands == {"extras", "bare", "null"}
Requests == [started : BOOLEAN, callStart : BOOLEAN, starts : Seq(Commands), promise : BOOLEAN]

PromiseInv == req \in Requests /\ PromiseKept

LEMMA InitPromise == MobileInit => PromiseInv
BY DEF MobileInit, Init, PromiseInv, PromiseKept, NotRequested, Requests

\* A start request comes with a command.
LEMMA StartPromise ==
    ASSUME PromiseInv, UNCHANGED api, NEW cmd \in Commands, startForegroundService(cmd)
    PROVE  PromiseInv'
<1>1. Append(req.starts, cmd) \in Seq(Commands) /\ Append(req.starts, cmd) # <<>>
  BY DEF PromiseInv, Requests
<1>2. req' = [req EXCEPT !.started = TRUE, !.starts = Append(@, cmd), !.promise = TRUE]
  BY DEF startForegroundService
<1>3. req' \in Requests
  BY <1>1, <1>2 DEF PromiseInv, Requests
<1>4. req'.starts = Append(req.starts, cmd)
  BY <1>2 DEF PromiseInv, Requests
<1> QED
  BY <1>1, <1>3, <1>4 DEF PromiseInv, PromiseKept

\* With the process its promise is gone.
LEMMA DiePromise ==
    ASSUME PromiseInv, NEW left \in Seq(Commands), Die(left)
    PROVE  PromiseInv'
<1>1. req' = [req EXCEPT !.starts = left, !.promise = FALSE]
  BY DEF Die
<1>2. req' \in Requests
  BY <1>1 DEF PromiseInv, Requests
<1>3. req'.promise = FALSE
  BY <1>1 DEF PromiseInv, Requests
<1> QED
  BY <1>2, <1>3 DEF PromiseInv, PromiseKept

LEMMA SamePromise == PromiseInv /\ UNCHANGED <<api, req>> => PromiseInv'
BY DEF PromiseInv, PromiseKept

\* Every step of the service and of the system preserves it.
LEMMA ServicePromise == PromiseInv /\ ServiceNext => PromiseInv'
<1> SUFFICES ASSUME PromiseInv, ServiceNext PROVE PromiseInv'
  OBVIOUS
<1>0. req.starts \in Seq(Commands) /\ (req.starts # <<>> => Tail(req.starts) \in Seq(Commands))
  BY DEF PromiseInv, Requests
<1>1. CASE onReceive
  BY <1>1, StartPromise, SamePromise DEF onReceive, Commands, Extras
<1>2. CASE onCreate \/ onDestroy \/ systemBroadcast \/ userGrants
  BY <1>2, SamePromise DEF onCreate, onDestroy, systemBroadcast, userGrants
<1>3. CASE onStartCommand
  <2>1. CASE ~Crashes(Head(req.starts))
    <3>1. req' = [req EXCEPT !.starts = Tail(@), !.callStart = TRUE, !.promise = @ /\ ~Promised]
      BY <1>3, <2>1 DEF onStartCommand
    <3>2. req' \in Requests
      BY <1>0, <1>3, <3>1 DEF PromiseInv, Requests, onStartCommand
    <3>3. req'.promise = (req.promise /\ ~(api < 31)) /\ api' = api
      BY <1>3, <2>1, <3>1
         DEF PromiseInv, Requests, Promised, createNotificationChannel, onStartCommand
    <3> QED
      BY <3>2, <3>3 DEF PromiseInv, PromiseKept
  <2>2. CASE Crashes(Head(req.starts))
    BY <1>0, <1>3, <2>2, DiePromise DEF onStartCommand
  <2> QED
    BY <2>1, <2>2
<1>4. CASE systemRestart
  <2>1. <<"null">> \in Seq(Commands) /\ <<"null">> # <<>>
    BY DEF Commands
  <2>2. UNCHANGED api /\ (UNCHANGED req \/ req' = [req EXCEPT !.starts = <<"null">>])
    BY <1>4 DEF systemRestart
  <2>3. CASE req' = [req EXCEPT !.starts = <<"null">>]
    <3>1. req' \in Requests /\ req'.starts = <<"null">>
      BY <2>1, <2>3 DEF PromiseInv, Requests
    <3> QED
      BY <2>1, <3>1 DEF PromiseInv, PromiseKept
  <2> QED
    BY <2>2, <2>3, SamePromise
<1>5. CASE systemStop
  BY <1>5 DEF systemStop, PromiseInv, PromiseKept, NotRequested, Requests
<1>6. CASE systemKill
  BY <1>0, <1>6, DiePromise DEF systemKill
<1>7. CASE userRevokes
  BY <1>0, <1>7, DiePromise, SamePromise DEF userRevokes
<1> QED
  BY <1>1, <1>2, <1>3, <1>4, <1>5, <1>6, <1>7 DEF ServiceNext

LEMMA MobilePromise == PromiseInv /\ [Next]_vars => PromiseInv'
<1> SUFFICES ASSUME PromiseInv, [Next]_vars PROVE PromiseInv'
  OBVIOUS
<1>1. CASE serviceStep
  BY <1>1, ServicePromise DEF serviceStep
<1>2. CASE onRequestPermissionsResult
  BY <1>2, StartPromise, SamePromise DEF onRequestPermissionsResult, Commands
<1>3. ASSUME NEW a \in DOMAIN stack, onStop(a) PROVE PromiseInv'
  BY <1>3, DiePromise, SamePromise DEF onStop, PromiseInv, Requests
<1>4. CASE UNCHANGED <<api, req>>
  BY <1>4, SamePromise
<1> QED
  BY <1>1, <1>2, <1>3, <1>4
     DEF Next, vars, sysVars, openActivity, onRestart, finish, onServiceConnected

\* Before Android 12 the system never has a reason to kill the application for a start
\* it did not answer: a promise is outstanding only while a command waits
\* (GeoFlowService.onStartCommand, createNotificationChannel), whatever is started,
\* restarted, stopped or killed in between.
THEOREM PromisesKept == Spec => []PromiseKept
<1>1. PromiseInv => PromiseKept
  BY DEF PromiseInv
<1> QED
  BY InitPromise, MobilePromise, <1>1, PTL DEF Spec

-----------------------------------------------------------------------------
(* The connections of the activities.                                      *)

Activities == [on : BOOLEAN, fin : BOOLEAN, conn : Conns \cup {0}, bound : BOOLEAN,
               ask : {"no", "foreground", "background"}]

\* Of a stack of activities: only the top one finishes, no two have a connection in
\* common, not even one that is unbound, and those that are on screen have the
\* connections cs.
StackOK(s, cs) ==
    /\ s \in Seq(Activities)
    /\ \A a \in 1..Len(s) : s[a].fin => a = Len(s)
    /\ \A a, b \in 1..Len(s) : a # b /\ s[a].conn # 0 => s[a].conn # s[b].conn
    /\ \A c : c \in cs <=> c # 0 /\ \E a \in 1..Len(s) : s[a].on /\ s[a].conn = c

\* An activity that has had a connection has been given every permission, and no
\* permission is taken away while the process lives: only that keeps onStart from
\* coming back on screen without a new connection.
BoundInv ==
    /\ StackOK(stack, conns)
    /\ stack # <<>> => up
    /\ \A a \in 1..Len(stack) : stack[a].conn # 0 => checkPermissions = "no"
    /\ \A a \in 1..Len(stack) : stack[a].bound =>
          svc.state = "alive" /\ ~svc.stop /\ stack[a].conn \in conns

LEMMA EmptyStack == StackOK(<<>>, {})
BY DEF StackOK

LEMMA InitBound == MobileInit => BoundInv
BY EmptyStack DEF MobileInit, Init, BoundInv

\* When the process ends, the activities and their connections do.
LEMMA GoneBound ==
    ASSUME stack' = <<>>, conns' = {}
    PROVE  BoundInv'
BY EmptyStack DEF BoundInv

\* Of a service that is bound the running instance stays.
LEMMA SettleBound ==
    ASSUME ServedInv, NEW started, NEW bound, bound # {}, svc.state = "alive", ~svc.stop
    PROVE  Settle(svc, started, bound).state = "alive" /\ ~Settle(svc, started, bound).stop
BY DEF Settle, ServedInv

\* A step that leaves the activities alone.
LEMMA SameBound ==
    ASSUME BoundInv, UNCHANGED <<stack, conns>>, stack # <<>> => up',
           checkPermissions = "no" => checkPermissions' = "no",
           conns # {} /\ svc.state = "alive" /\ ~svc.stop => svc'.state = "alive" /\ ~svc'.stop
    PROVE  BoundInv'
BY DEF BoundInv

LEMMA ServiceBound ==
    ASSUME ServedInv, BoundInv, serviceStep
    PROVE  BoundInv'
<1>1. CASE ~up'
  <2>1. conns' = {}
    <3>1. CASE conns' = conns /\ up' = up
      BY <1>1, <3>1 DEF BoundInv, StackOK
    <3>2. ASSUME NEW left, Die(left) PROVE conns' = {}
      BY <3>2 DEF Die
    <3> QED
      BY <1>1, <3>1, <3>2
         DEF serviceStep, ServiceNext, onReceive, onCreate, onStartCommand, onDestroy,
             systemBroadcast, systemRestart, systemStop, systemKill, userGrants, userRevokes
  <2> QED
    BY <1>1, <2>1, GoneBound DEF serviceStep
<1>2. CASE up'
  <2>0. ASSUME NEW left, Die(left) PROVE FALSE
    BY <1>2, <2>0 DEF Die
  <2>1. UNCHANGED <<stack, conns>>
    BY <1>2, <2>0
       DEF serviceStep, ServiceNext, onReceive, onCreate, onStartCommand, onDestroy,
           systemBroadcast, systemRestart, systemStop, systemKill, userGrants, userRevokes
  <2>2. checkPermissions = "no" => checkPermissions' = "no"
    <3>1. CASE userGrants
      <4>1. perm \subseteq perm' \/ perm' = Permissions
        BY <3>1 DEF userGrants
      <4> QED
        BY <4>1 DEF checkPermissions, Permissions
    <3>2. CASE ~userGrants
      <4>1. UNCHANGED perm
        BY <1>2, <2>0, <3>2
           DEF serviceStep, ServiceNext, onReceive, onCreate, onStartCommand, onDestroy,
               systemBroadcast, systemRestart, systemStop, systemKill, userRevokes
      <4> QED
        BY <4>1 DEF checkPermissions
    <3> QED
      BY <3>1, <3>2
  <2>3. ASSUME conns # {}, svc.state = "alive", ~svc.stop
        PROVE  svc'.state = "alive" /\ ~svc'.stop
    <3>1. CASE UNCHANGED svc
      BY <2>3, <3>1
    <3>2. CASE \E started : svc' = Settle(svc, started, conns)
      BY <2>3, <3>2, SettleBound
    <3>3. ~onCreate /\ ~onDestroy /\ ~systemRestart
      BY <2>3 DEF onCreate, onDestroy, systemRestart
    <3> QED
      BY <1>2, <2>0, <3>1, <3>2, <3>3
         DEF serviceStep, ServiceNext, onReceive, startForegroundService, onStartCommand,
             systemBroadcast, systemStop, systemKill, userGrants, userRevokes
  <2> QED
    BY <1>2, <2>1, <2>2, <2>3, SameBound
<1> QED
  BY <1>1, <1>2

\* Activity a comes on screen as x, with no connection, or with one that is in no
\* activity and not bound; the rest of the stack stays.
LEMMA StartedStack ==
    ASSUME NEW s, NEW cs, StackOK(s, cs), NEW a \in 1..Len(s), ~s[a].on,
           NEW x \in Activities, x.on, x.fin = s[a].fin,
           NEW c, x.conn = c,
           \/ c = 0 /\ s[a].conn = 0
           \/ c # 0 /\ c \notin cs /\ \A b \in 1..Len(s) : s[b].conn # c
    PROVE  StackOK([s EXCEPT ![a] = x], (cs \cup {c}) \ {0})
<1> DEFINE t == [s EXCEPT ![a] = x]
<1>1. /\ s \in Seq(Activities) /\ t \in Seq(Activities) /\ Len(t) = Len(s)
      /\ t[a] = x /\ \A b \in 1..Len(s) : b # a => t[b] = s[b]
  BY DEF StackOK
<1> HIDE DEF t
<1>2. \A b \in 1..Len(t) : t[b].fin => b = Len(t)
  BY <1>1 DEF StackOK
<1>3. \A b, d \in 1..Len(t) : b # d /\ t[b].conn # 0 => t[b].conn # t[d].conn
  BY <1>1 DEF StackOK
<1>4. ASSUME NEW e
      PROVE  e \in (cs \cup {c}) \ {0} <=> e # 0 /\ \E b \in 1..Len(t) : t[b].on /\ t[b].conn = e
  <2>1. e \in cs <=> e # 0 /\ \E b \in 1..Len(s) : s[b].on /\ s[b].conn = e
    BY DEF StackOK
  <2>2. (\E b \in 1..Len(t) : t[b].on /\ t[b].conn = e)
          <=> (e = c \/ \E b \in 1..Len(s) : s[b].on /\ s[b].conn = e)
    BY <1>1
  <2> QED
    BY <2>1, <2>2
<1> QED
  BY <1>1, <1>2, <1>3, <1>4 DEF StackOK, t

\* A new activity on top of the stack is not on screen yet.
LEMMA OpenedStack ==
    ASSUME NEW s, NEW cs, StackOK(s, cs), \A a \in 1..Len(s) : ~s[a].fin
    PROVE  StackOK(Append(s, NewActivity), cs)
<1> DEFINE t == Append(s, NewActivity)
<1>1. NewActivity \in Activities
  BY DEF NewActivity, Activities
<1>2. /\ s \in Seq(Activities) /\ t \in Seq(Activities) /\ Len(t) = Len(s) + 1 /\ Len(s) \in Nat
      /\ t[Len(t)] = NewActivity /\ \A b \in 1..Len(s) : t[b] = s[b]
  BY <1>1 DEF StackOK
<1>3. NewActivity.on = FALSE /\ NewActivity.conn = 0 /\ NewActivity.fin = FALSE
  BY DEF NewActivity
<1> HIDE DEF t
<1>4. \A b \in 1..Len(t) : b = Len(t) \/ (b \in 1..Len(s) /\ t[b] = s[b])
  BY <1>2
<1>5. \A b \in 1..Len(t) : t[b].fin => b = Len(t)
  BY <1>2, <1>3, <1>4
<1>6. \A b, d \in 1..Len(t) : b # d /\ t[b].conn # 0 => t[b].conn # t[d].conn
  BY <1>2, <1>3, <1>4 DEF StackOK
<1>7. ASSUME NEW e
      PROVE  e \in cs <=> e # 0 /\ \E b \in 1..Len(t) : t[b].on /\ t[b].conn = e
  BY <1>2, <1>3, <1>4 DEF StackOK
<1> QED
  BY <1>2, <1>5, <1>6, <1>7 DEF StackOK, t

\* onStart of an activity that is not on screen, in a stack s with the connections of
\* the present one.
LEMMA StartBound ==
    ASSUME ServedInv, BoundInv, NEW s, StackOK(s, conns), NEW a \in 1..Len(s), ~s[a].on,
           \A b \in 1..Len(s) : \/ b \in 1..Len(stack) /\ s[b] = stack[b]
                                \/ s[b].conn = 0 /\ ~s[b].bound,
           \A b \in 1..Len(stack) : b \in 1..Len(s) /\ s[b] = stack[b],
           up', UNCHANGED perm, onStart(s, a)
    PROVE  BoundInv'
<1>0. s \in Seq(Activities) /\ s[a] \in Activities /\ checkPermissions' = checkPermissions
  BY DEF StackOK, checkPermissions
<1>1. CASE checkPermissions # "no"
  <2> DEFINE ask == IF s[a].ask = "no" THEN checkPermissions ELSE s[a].ask
  <2>1. stack' = [s EXCEPT ![a].on = TRUE, ![a].ask = ask] /\ UNCHANGED <<conns, svc>>
    BY <1>1 DEF onStart
  <2>2. PICK x : x = [s[a] EXCEPT !.on = TRUE, !.ask = ask]
    OBVIOUS
  <2>3. ask \in {"no", "foreground", "background"}
    BY <1>0 DEF checkPermissions, Activities
  <2>4. x \in Activities /\ x.on /\ x.fin = s[a].fin /\ x.conn = s[a].conn /\ x.bound = s[a].bound
    BY <1>0, <2>2, <2>3 DEF Activities
  <2>5. stack' = [s EXCEPT ![a] = x]
    BY <1>0, <2>1, <2>2
  <2>6. x.conn = 0 /\ ~x.bound
    <3>1. s[a].conn = 0 \/ (a \in 1..Len(stack) /\ s[a] = stack[a])
      OBVIOUS
    <3>2. s[a].conn = 0
      BY <1>1, <3>1 DEF BoundInv
    <3>3. s[a].bound => s[a].conn \in conns
      BY DEF BoundInv
    <3> QED
      BY <2>4, <3>2, <3>3 DEF StackOK
  <2>7. StackOK(stack', conns')
    <3>1. StackOK([s EXCEPT ![a] = x], (conns \cup {0}) \ {0})
      <4>1. x.conn = 0 /\ s[a].conn = 0
        BY <2>4, <2>6
      <4> QED
        BY <2>4, <4>1, StartedStack
    <3>2. (conns \cup {0}) \ {0} = conns
      BY DEF StackOK
    <3> QED
      BY <2>1, <2>5, <3>1, <3>2
  <2>8. \A b \in 1..Len(stack') : /\ stack'[b].conn = 0
                                  /\ ~stack'[b].bound
    <3>1. \A b \in 1..Len(s) : s[b].conn = 0 /\ ~s[b].bound
      <4>1. \A b \in 1..Len(stack) : stack[b].conn = 0
        BY <1>1 DEF BoundInv
      <4>2. \A b \in 1..Len(stack) : ~stack[b].bound
        BY <4>1 DEF BoundInv, StackOK
      <4> QED
        BY <4>1, <4>2
    <3>2. \A b \in 1..Len(s) : stack'[b] = IF b = a THEN x ELSE s[b]
      BY <1>0, <2>5
    <3>3. Len(stack') = Len(s)
      BY <1>0, <2>5
    <3> QED
      BY <2>6, <3>1, <3>2, <3>3
  <2> QED
    BY <2>7, <2>8 DEF BoundInv
<1>2. CASE checkPermissions = "no"
  <2>1. /\ Unused # {} /\ conns' = conns \cup {NewConn}
        /\ svc' = Settle(svc, req.started, conns')
        /\ stack' = [s EXCEPT ![a].on = TRUE, ![a].conn = NewConn]
    BY <1>2 DEF onStart, Bound
  <2>2. PICK c : c = NewConn
    OBVIOUS
  <2>3. /\ c \in Conns /\ c # 0 /\ c \notin conns
        /\ \A b \in 1..Len(stack) : stack[b].conn # c
    <3>1. c \in Unused
      BY <2>1, <2>2 DEF NewConn
    <3> QED
      BY <3>1, GeoFlowServiceAssumption DEF Unused, BoundInv, StackOK
  <2>4. PICK x : x = [s[a] EXCEPT !.on = TRUE, !.conn = c]
    OBVIOUS
  <2>5. x \in Activities /\ x.on /\ x.fin = s[a].fin /\ x.conn = c /\ x.bound = s[a].bound
    BY <1>0, <2>3, <2>4 DEF Activities
  <2>6. stack' = [s EXCEPT ![a] = x]
    BY <1>0, <2>1, <2>2, <2>4
  <2>7. StackOK(stack', conns')
    <3>1. StackOK([s EXCEPT ![a] = x], (conns \cup {c}) \ {0})
      <4>1. \A b \in 1..Len(s) : s[b].conn # c
        BY <2>3
      <4> QED
        BY <2>3, <2>5, <4>1, StartedStack
    <3>2. (conns \cup {c}) \ {0} = conns'
      BY <2>1, <2>2, <2>3 DEF StackOK
    <3> QED
      BY <2>6, <3>1, <3>2
  <2>8. /\ Len(stack') = Len(s)
        /\ \A b \in 1..Len(s) : stack'[b] = IF b = a THEN x ELSE s[b]
    BY <1>0, <2>6
  <2>9. ~x.bound
    <3>1. ASSUME s[a].bound PROVE FALSE
      <4>1. a \in 1..Len(stack) /\ stack[a].conn \in conns /\ s[a] = stack[a]
        BY <3>1 DEF BoundInv
      <4>2. PICK b \in 1..Len(stack) : stack[b].on /\ stack[b].conn = stack[a].conn /\ stack[a].conn # 0
        BY <4>1 DEF BoundInv, StackOK
      <4> QED
        BY <4>1, <4>2 DEF BoundInv, StackOK
    <3> QED
      BY <2>5, <3>1
  <2>10. ASSUME NEW b \in 1..Len(stack'), stack'[b].bound
         PROVE  svc'.state = "alive" /\ ~svc'.stop /\ stack'[b].conn \in conns'
    <3>1. b \in 1..Len(stack) /\ stack'[b] = stack[b]
      BY <2>8, <2>9, <2>10
    <3>2. svc.state = "alive" /\ ~svc.stop /\ stack[b].conn \in conns
      BY <2>10, <3>1 DEF BoundInv
    <3>3. conns' # {} /\ stack[b].conn \in conns'
      BY <2>1, <3>2
    <3> QED
      BY <2>1, <3>1, <3>2, <3>3, SettleBound
  <2> QED
    BY <1>0, <1>2, <2>7, <2>10 DEF BoundInv
<1> QED
  BY <1>1, <1>2

LEMMA OpenBound ==
    ASSUME ServedInv, BoundInv, openActivity
    PROVE  BoundInv'
<1> DEFINE s == Append(stack, NewActivity)
<1>1. stack \in Seq(Activities) /\ \A a \in 1..Len(stack) : ~stack[a].fin
  BY DEF BoundInv, StackOK, openActivity, Top
<1>2. NewActivity \in Activities /\ NewActivity.conn = 0 /\ ~NewActivity.bound /\ ~NewActivity.on
  BY DEF NewActivity, Activities
<1>3. StackOK(s, conns)
  BY <1>1, OpenedStack DEF BoundInv
<1>4. /\ Len(s) = Len(stack) + 1 /\ Len(stack) \in Nat /\ s[Len(stack) + 1] = NewActivity
      /\ \A b \in 1..Len(stack) : s[b] = stack[b]
  BY <1>1, <1>2
<1>5. up' /\ UNCHANGED perm /\ onStart(s, Len(stack) + 1)
  BY DEF openActivity
<1> HIDE DEF s
<1>6. /\ Len(stack) + 1 \in 1..Len(s) /\ ~s[Len(stack) + 1].on
      /\ \A b \in 1..Len(s) : \/ b \in 1..Len(stack) /\ s[b] = stack[b]
                              \/ s[b].conn = 0 /\ ~s[b].bound
      /\ \A b \in 1..Len(stack) : b \in 1..Len(s) /\ s[b] = stack[b]
  BY <1>2, <1>4
<1> QED
  BY <1>3, <1>5, <1>6, StartBound

LEMMA RestartBound ==
    ASSUME ServedInv, BoundInv, onRestart
    PROVE  BoundInv'
<1>1. Top \in 1..Len(stack) /\ ~stack[Top].on /\ onStart(stack, Top)
  BY DEF onRestart, Top, BoundInv, StackOK
<1>2. up' /\ UNCHANGED perm /\ StackOK(stack, conns)
  BY <1>1 DEF onRestart, BoundInv
<1> QED
  BY <1>1, <1>2, StartBound

LEMMA ChangedStack ==
    ASSUME NEW s, NEW cs, StackOK(s, cs), NEW a \in 1..Len(s), NEW x \in Activities,
           x.conn = s[a].conn, x.on = s[a].on, x.fin => a = Len(s)
    PROVE  StackOK([s EXCEPT ![a] = x], cs)
<1> DEFINE t == [s EXCEPT ![a] = x]
<1>1. /\ s \in Seq(Activities) /\ t \in Seq(Activities) /\ Len(t) = Len(s)
      /\ t[a] = x /\ \A b \in 1..Len(s) : b # a => t[b] = s[b]
  BY DEF StackOK
<1> HIDE DEF t
<1>2. \A b \in 1..Len(s) : t[b].conn = s[b].conn /\ t[b].on = s[b].on
  BY <1>1
<1>3. \A b \in 1..Len(t) : t[b].fin => b = Len(t)
  BY <1>1 DEF StackOK
<1>4. \A b, d \in 1..Len(t) : b # d /\ t[b].conn # 0 => t[b].conn # t[d].conn
  BY <1>1, <1>2 DEF StackOK
<1>5. \A c : c \in cs <=> c # 0 /\ \E b \in 1..Len(t) : t[b].on /\ t[b].conn = c
  BY <1>1, <1>2 DEF StackOK
<1> QED
  BY <1>1, <1>3, <1>4, <1>5 DEF StackOK, t

\* A change of an activity that leaves its connection and whether it is on screen.
LEMMA ChangedBound ==
    ASSUME BoundInv, NEW a \in 1..Len(stack), NEW x \in Activities,
           stack' = [stack EXCEPT ![a] = x], UNCHANGED <<conns, up>>,
           x.conn = stack[a].conn, x.on = stack[a].on, x.fin => a = Len(stack),
           checkPermissions = "no" => checkPermissions' = "no",
           conns # {} /\ svc.state = "alive" /\ ~svc.stop => svc'.state = "alive" /\ ~svc'.stop,
           x.bound => svc.state = "alive" /\ ~svc.stop /\ stack[a].conn \in conns
    PROVE  BoundInv'
<1>1. /\ stack \in Seq(Activities) /\ stack' \in Seq(Activities) /\ Len(stack') = Len(stack)
      /\ stack'[a] = x /\ \A b \in 1..Len(stack) : b # a => stack'[b] = stack[b]
  BY DEF BoundInv, StackOK
<1>2. \A b \in 1..Len(stack) : stack'[b].conn = stack[b].conn /\ stack'[b].on = stack[b].on
  BY <1>1
<1>3. StackOK(stack', conns')
  BY ChangedStack DEF BoundInv
<1>4. \A b \in 1..Len(stack') : stack'[b].conn # 0 => checkPermissions' = "no"
  BY <1>1, <1>2 DEF BoundInv
<1>5. ASSUME NEW b \in 1..Len(stack'), stack'[b].bound
      PROVE  svc'.state = "alive" /\ ~svc'.stop /\ stack'[b].conn \in conns'
  BY <1>1, <1>2, <1>5 DEF BoundInv
<1>6. stack' # <<>> => up'
  BY <1>1 DEF BoundInv
<1> QED
  BY <1>3, <1>4, <1>5, <1>6 DEF BoundInv

\* An activity goes off screen, x is what becomes of it.
LEMMA StoppedStack ==
    ASSUME NEW s, NEW cs, StackOK(s, cs), NEW a \in 1..Len(s), NEW x \in Activities,
           x.conn = s[a].conn, ~x.on, x.fin = s[a].fin
    PROVE  StackOK([s EXCEPT ![a] = x], cs \ {s[a].conn})
<1> DEFINE t == [s EXCEPT ![a] = x]
<1>1. /\ s \in Seq(Activities) /\ t \in Seq(Activities) /\ Len(t) = Len(s)
      /\ t[a] = x /\ \A b \in 1..Len(s) : b # a => t[b] = s[b]
  BY DEF StackOK
<1> HIDE DEF t
<1>2. \A b \in 1..Len(s) : t[b].conn = s[b].conn
  BY <1>1
<1>3. \A b \in 1..Len(t) : t[b].fin => b = Len(t)
  BY <1>1 DEF StackOK
<1>4. \A b, d \in 1..Len(t) : b # d /\ t[b].conn # 0 => t[b].conn # t[d].conn
  BY <1>1, <1>2 DEF StackOK
<1>5. ASSUME NEW c
      PROVE  c \in cs \ {s[a].conn} <=> c # 0 /\ \E b \in 1..Len(t) : t[b].on /\ t[b].conn = c
  BY <1>1, <1>2 DEF StackOK
<1> QED
  BY <1>1, <1>3, <1>4, <1>5 DEF StackOK, t

\* The top activity is gone.
LEMMA PoppedStack ==
    ASSUME NEW s, NEW cs, StackOK(s, cs), s # <<>>
    PROVE  StackOK(SubSeq(s, 1, Len(s) - 1), cs \ {s[Len(s)].conn})
<1> DEFINE t == SubSeq(s, 1, Len(s) - 1)
<1>0. s \in Seq(Activities) /\ Len(s) \in Nat /\ Len(s) # 0
  BY DEF StackOK
<1>1. /\ s \in Seq(Activities) /\ Len(s) \in Nat \ {0}
      /\ t \in Seq(Activities) /\ Len(t) = Len(s) - 1
      /\ \A b \in 1..(Len(s) - 1) : t[b] = s[b]
  <2>1. PICK k \in Int : k = Len(s) - 1
    BY <1>0
  <2>2. \A b \in 1..k : s[b] \in Activities
    BY <1>0, <2>1
  <2>3. /\ SubSeq(s, 1, k) \in Seq(Activities) /\ Len(SubSeq(s, 1, k)) = IF 1 <= k THEN k - 1 + 1 ELSE 0
        /\ \A b \in 1..(k - 1 + 1) : SubSeq(s, 1, k)[b] = s[1 + b - 1]
    BY <2>2, SubSeqProperties
  <2> QED
    BY <1>0, <2>1, <2>3
<1> HIDE DEF t
<1>2. \A b \in 1..Len(t) : b \in 1..Len(s) /\ b # Len(s) /\ t[b] = s[b]
  BY <1>1
<1>3. \A b \in 1..Len(s) : b = Len(s) \/ b \in 1..Len(t)
  BY <1>1
<1>4. \A b \in 1..Len(t) : t[b].fin => b = Len(t)
  BY <1>2 DEF StackOK
<1>5. \A b, d \in 1..Len(t) : b # d /\ t[b].conn # 0 => t[b].conn # t[d].conn
  BY <1>2 DEF StackOK
<1>6. ASSUME NEW c
      PROVE  c \in cs \ {s[Len(s)].conn} <=> c # 0 /\ \E b \in 1..Len(t) : t[b].on /\ t[b].conn = c
  <2>1. c \in cs <=> c # 0 /\ \E b \in 1..Len(s) : s[b].on /\ s[b].conn = c
    BY DEF StackOK
  <2>2. ASSUME c \in cs, c # s[Len(s)].conn
        PROVE  \E b \in 1..Len(t) : t[b].on /\ t[b].conn = c
    <3>1. PICK b \in 1..Len(s) : s[b].on /\ s[b].conn = c
      BY <2>1, <2>2
    <3>2. b \in 1..Len(t) /\ t[b] = s[b]
      BY <1>2, <1>3, <2>2, <3>1
    <3> QED
      BY <3>1, <3>2
  <2>3. ASSUME c # 0, NEW b \in 1..Len(t), t[b].on, t[b].conn = c
        PROVE  c \in cs /\ c # s[Len(s)].conn
    <3>1. b \in 1..Len(s) /\ Len(s) \in 1..Len(s) /\ b # Len(s) /\ t[b] = s[b]
      BY <1>1, <1>2
    <3> QED
      BY <2>1, <2>3, <3>1 DEF StackOK
  <2> QED
    BY <2>1, <2>2, <2>3
<1> QED
  BY <1>1, <1>4, <1>5, <1>6 DEF StackOK, t

LEMMA StopBound ==
    ASSUME ServedInv, BoundInv, NEW a \in 1..Len(stack), onStop(a)
    PROVE  BoundInv'
<1>0. StackOK(stack, conns) /\ stack \in Seq(Activities) /\ stack[a] \in Activities
  BY DEF BoundInv, StackOK
<1>1. CASE stack[a].conn \notin {0} \cup conns
  BY <1>1, GoneBound DEF onStop, Die
<1>2. CASE stack[a].conn \in {0} \cup conns
  <2>1. /\ conns' = conns \ {stack[a].conn} /\ svc' = Settle(svc, req.started, conns')
        /\ UNCHANGED <<up, perm>> /\ checkPermissions' = checkPermissions
    BY <1>2 DEF onStop, Released, checkPermissions
  <2>2. ASSUME NEW b \in 1..Len(stack), b # a, stack[b].bound
        PROVE  svc'.state = "alive" /\ ~svc'.stop /\ stack[b].conn \in conns'
    <3>1. svc.state = "alive" /\ ~svc.stop /\ stack[b].conn \in conns
      BY <2>2 DEF BoundInv
    <3>2. stack[b].conn # 0 /\ stack[b].conn # stack[a].conn
      BY <1>0, <2>2, <3>1 DEF StackOK
    <3>3. stack[b].conn \in conns' /\ conns' # {}
      BY <2>1, <3>1, <3>2
    <3> QED
      BY <2>1, <3>1, <3>3, SettleBound
  <2>3. CASE stack[a].fin
    <3>1. a = Len(stack) /\ stack # <<>> /\ stack' = SubSeq(stack, 1, Len(stack) - 1)
      BY <1>0, <1>2, <2>3 DEF onStop, StackOK
    <3>2. StackOK(stack', conns')
      BY <1>0, <2>1, <3>1, PoppedStack
    <3>3. \A b \in 1..Len(stack') : b \in 1..Len(stack) /\ b # a /\ stack'[b] = stack[b]
      BY <1>0, <3>1
    <3> QED
      BY <2>1, <2>2, <3>1, <3>2, <3>3 DEF BoundInv
  <2>4. CASE ~stack[a].fin
    <3>1. stack' = [stack EXCEPT ![a] = Stopped(stack[a])]
      BY <1>0, <1>2, <2>4 DEF onStop
    <3>2. PICK x : x = Stopped(stack[a])
      OBVIOUS
    <3>3. /\ x \in Activities /\ x.conn = stack[a].conn /\ ~x.on /\ x.fin = stack[a].fin
          /\ x.bound => stack[a].bound /\ stack[a].conn = 0
      BY <1>0, <3>2 DEF Stopped, Activities
    <3>4. ~x.bound
      BY <1>0, <3>3 DEF BoundInv, StackOK
    <3>5. StackOK(stack', conns')
      BY <1>0, <2>1, <3>1, <3>2, <3>3, StoppedStack
    <3>6. /\ Len(stack') = Len(stack)
          /\ \A b \in 1..Len(stack) : stack'[b] = IF b = a THEN x ELSE stack[b]
      BY <1>0, <3>1, <3>2
    <3>7. \A b \in 1..Len(stack') : stack'[b].conn # 0 => checkPermissions' = "no"
      BY <2>1, <3>3, <3>6 DEF BoundInv
    <3>8. \A b \in 1..Len(stack') : stack'[b].bound =>
             svc'.state = "alive" /\ ~svc'.stop /\ stack'[b].conn \in conns'
      BY <2>2, <3>4, <3>6
    <3>9. stack' # <<>> => up'
      BY <1>0, <2>1 DEF BoundInv
    <3> QED
      BY <3>5, <3>7, <3>8, <3>9 DEF BoundInv
  <2> QED
    BY <2>3, <2>4
<1> QED
  BY <1>1, <1>2

LEMMA AnswerBound ==
    ASSUME ServedInv, BoundInv, onRequestPermissionsResult
    PROVE  BoundInv'
<1>1. Top \in 1..Len(stack) /\ stack[Top] \in Activities /\ UNCHANGED <<conns, up>>
  BY DEF onRequestPermissionsResult, Top, BoundInv, StackOK
<1>2. checkPermissions = "no" => checkPermissions' = "no"
  <2>1. perm \subseteq perm'
    BY DEF onRequestPermissionsResult
  <2> QED
    BY <2>1 DEF checkPermissions
<1>3. conns # {} /\ svc.state = "alive" /\ ~svc.stop => svc'.state = "alive" /\ ~svc'.stop
  <2>1. UNCHANGED svc \/ svc' = Settle(svc, TRUE, conns)
    BY DEF onRequestPermissionsResult, startForegroundService
  <2> QED
    BY <2>1, SettleBound
<1>4. CASE UNCHANGED stack
  BY <1>1, <1>2, <1>3, <1>4, SameBound DEF BoundInv
<1>5. CASE stack' = Answered(Top)
  <2>1. PICK x : x = [stack[Top] EXCEPT !.ask = "no"]
    OBVIOUS
  <2>2. /\ x \in Activities /\ x.conn = stack[Top].conn /\ x.on = stack[Top].on
        /\ x.fin = stack[Top].fin /\ x.bound = stack[Top].bound
    BY <1>1, <2>1 DEF Activities
  <2>3. stack' = [stack EXCEPT ![Top] = x]
    BY <1>5, <2>1 DEF Answered
  <2>4. /\ x.fin => Top = Len(stack)
        /\ x.bound => svc.state = "alive" /\ ~svc.stop /\ stack[Top].conn \in conns
    BY <1>1, <2>2 DEF BoundInv, StackOK
  <2> QED
    BY <1>1, <1>2, <1>3, <2>2, <2>3, <2>4, ChangedBound
<1> QED
  BY <1>4, <1>5 DEF onRequestPermissionsResult

LEMMA FinishBound ==
    ASSUME BoundInv, finish
    PROVE  BoundInv'
<1>1. Top = Len(stack) /\ Top \in 1..Len(stack) /\ stack[Top] \in Activities
  BY DEF finish, Top, BoundInv, StackOK
<1>2. PICK x : x = [stack[Top] EXCEPT !.fin = TRUE]
  OBVIOUS
<1>3. /\ x \in Activities /\ x.conn = stack[Top].conn /\ x.on = stack[Top].on
      /\ x.bound = stack[Top].bound
  BY <1>1, <1>2 DEF Activities
<1>4. stack' = [stack EXCEPT ![Top] = x] /\ UNCHANGED <<conns, up, svc, perm>>
  BY <1>2 DEF finish, sysVars
<1>5. x.bound => svc.state = "alive" /\ ~svc.stop /\ stack[Top].conn \in conns
  BY <1>1, <1>3 DEF BoundInv
<1>6. checkPermissions' = checkPermissions
  BY <1>4 DEF checkPermissions
<1> QED
  BY <1>1, <1>3, <1>4, <1>5, <1>6, ChangedBound

LEMMA ConnectedBound ==
    ASSUME BoundInv, NEW a \in 1..Len(stack), onServiceConnected(a)
    PROVE  BoundInv'
<1>1. stack[a] \in Activities
  BY DEF BoundInv, StackOK
<1>2. PICK x : x = [stack[a] EXCEPT !.bound = TRUE]
  OBVIOUS
<1>3. /\ x \in Activities /\ x.conn = stack[a].conn /\ x.on = stack[a].on
      /\ x.fin = stack[a].fin
  BY <1>1, <1>2 DEF Activities
<1>4. stack' = [stack EXCEPT ![a] = x] /\ UNCHANGED <<conns, up, svc, perm>>
  BY <1>2 DEF onServiceConnected, sysVars
<1>5. svc.state = "alive" /\ ~svc.stop /\ stack[a].conn \in conns
  BY DEF onServiceConnected
<1>6. checkPermissions' = checkPermissions /\ (x.fin => a = Len(stack))
  BY <1>3, <1>4 DEF checkPermissions, BoundInv, StackOK
<1> QED
  BY <1>3, <1>4, <1>5, <1>6, ChangedBound

LEMMA MobileBound == ServedInv /\ BoundInv /\ [Next]_vars => BoundInv'
<1> SUFFICES ASSUME ServedInv, BoundInv, [Next]_vars PROVE BoundInv'
  OBVIOUS
<1>1. DOMAIN stack = 1..Len(stack)
  BY DEF BoundInv, StackOK
<1>2. CASE UNCHANGED vars
  BY <1>2, SameBound DEF vars, sysVars, BoundInv, checkPermissions
<1> QED
  BY <1>1, <1>2, ServiceBound, OpenBound, RestartBound, FinishBound, AnswerBound, StopBound,
     ConnectedBound DEF Next

\* The bindings of MainActivity (onStart, onStop) are those of the activities on screen,
\* for every stack of activities and every order of answers, kills and restarts: none is
\* left behind, none is unbound twice, and one that believes it is bound is.
THEOREM BoundOnScreen == Spec => []BoundWhileOnScreen
<1>1. ASSUME BoundInv PROVE BoundWhileOnScreen
  <2>1. DOMAIN stack = 1..Len(stack)
    BY <1>1 DEF BoundInv, StackOK
  <2>2. conns = {stack[a].conn : a \in {b \in DOMAIN stack : stack[b].on}} \ {0}
    <3>1. \A c : c \in conns <=> c # 0 /\ \E a \in DOMAIN stack : stack[a].on /\ stack[a].conn = c
      BY <1>1, <2>1 DEF BoundInv, StackOK
    <3> QED
      BY <3>1
  <2> QED
    BY <1>1, <2>1, <2>2 DEF BoundInv, BoundWhileOnScreen
<1> QED
  BY InitServed, MobileServed, InitBound, MobileBound, <1>1, PTL DEF Spec

-----------------------------------------------------------------------------
(* The car application, as the client of the same service.                 *)

Cars == [on : BOOLEAN, conn : Conns \cup {0}, bound : BOOLEAN, screen : {"none", "info", "permission"},
         list : SUBSET Permissions, asked : SUBSET Permissions, grants : Nat]

\* No connection outlives the car service, nothing is asked without it, and while it is
\* there it has the last connection it bound.
LeakInv ==
    /\ car \in Cars /\ conns \subseteq Conns /\ IsFiniteSet(conns)
    /\ ~up => ~car.on
    /\ ~car.on => car = NoCar /\ conns = {}
    /\ LeakOnlyByGrant

LEMMA NoCarFacts ==
    /\ NoCar \in Cars /\ ~NoCar.on /\ NoCar.conn = 0 /\ NoCar.grants = 0
    /\ NoCar.asked = {} /\ NoCar.screen = "none"
BY DEF NoCar, Cars, Permissions

\* Without the car service, and so without connections, the invariant holds.
LEMMA NoCarLeak == car = NoCar /\ conns = {} => LeakInv
<1> SUFFICES ASSUME car = NoCar, conns = {} PROVE LeakInv
  OBVIOUS
<1>1. conns \ {car.conn} = {} /\ IsFiniteSet(conns)
  BY FS_EmptySet
<1>2. Cardinality(conns \ {car.conn}) = 0
  BY <1>1, FS_EmptySet
<1>3. LeakOnlyByGrant
  BY <1>2, NoCarFacts DEF LeakOnlyByGrant
<1> QED
  BY <1>1, <1>3, NoCarFacts DEF LeakInv

LEMMA InitLeak == CarInit => LeakInv
BY NoCarLeak DEF CarInit, Init

\* What the service and the system do: no connection is added, and all are gone with
\* the process.
LEMMA ServiceConns ==
    ASSUME ServiceNext
    PROVE  \/ UNCHANGED conns /\ up' \in {TRUE, up}
           \/ conns' = {} /\ up' = FALSE
<1>1. \A left : Die(left) => conns' = {} /\ up' = FALSE
  BY DEF Die
<1>2. onReceive \/ systemRestart => UNCHANGED conns /\ up' \in {TRUE, up}
  BY DEF onReceive, systemRestart
<1>3. onCreate \/ onDestroy \/ systemBroadcast \/ systemStop \/ userGrants
      => UNCHANGED conns /\ up' \in {TRUE, up}
  BY DEF onCreate, onDestroy, systemBroadcast, systemStop, userGrants
<1>4. onStartCommand => \/ UNCHANGED conns /\ up' \in {TRUE, up}
                        \/ conns' = {} /\ up' = FALSE
  BY DEF onStartCommand, Die
<1>5. systemKill => conns' = {} /\ up' = FALSE
  BY <1>1 DEF systemKill
<1>6. userRevokes => \/ UNCHANGED conns /\ up' \in {TRUE, up}
                     \/ conns' = {} /\ up' = FALSE
  BY DEF userRevokes, Die
<1> QED
  BY <1>2, <1>3, <1>4, <1>5, <1>6 DEF ServiceNext

LEMMA CarGone == (car = NoCar)' /\ (conns = {})' => LeakInv'
BY NoCarLeak, PTL

\* The car service keeps its connection.
LEMMA CarKept ==
    ASSUME LeakInv, car.on, car' \in Cars, car'.on = car.on, car'.conn = car.conn,
           car'.grants = car.grants, UNCHANGED <<up, conns>>
    PROVE  LeakInv'
BY DEF LeakInv, LeakOnlyByGrant

\* It binds a new one: the one before is forgotten, if there was one, and counted.
LEMMA CarBinds ==
    ASSUME LeakInv, startAndBind, car' \in Cars, car'.on, car'.conn = NewCarConn, up',
           \/ ~car.on /\ car'.grants = 0
           \/ car.on /\ car'.grants = car.grants + 1
    PROVE  LeakInv'
<1> DEFINE c == NewCarConn
<1>1. c \in Conns /\ c \notin conns
  BY DEF NewCarConn, startAndBind
<1>2. conns' = conns \cup {c}
  BY DEF startAndBind, Bound
<1> HIDE DEF c
<1>3. IsFiniteSet(conns) /\ conns \subseteq Conns /\ car \in Cars
  BY DEF LeakInv
<1>4. IsFiniteSet(conns') /\ conns' \subseteq Conns
  BY <1>1, <1>2, <1>3, FS_AddElement
<1>5. conns' \ {c} = conns
  BY <1>1, <1>2
<1>6. Cardinality(conns) <= car'.grants
  <2>1. CASE ~car.on
    <3>1. conns = {}
      BY <2>1 DEF LeakInv
    <3>2. Cardinality(conns) = 0 /\ car'.grants = 0
      BY <2>1, <3>1, FS_EmptySet
    <3> QED
      BY <3>2
  <2>2. CASE car.on
    <3>1. car.conn \in conns /\ Cardinality(conns \ {car.conn}) <= car.grants
      BY <2>2 DEF LeakInv, LeakOnlyByGrant
    <3>2. Cardinality(conns \ {car.conn}) = Cardinality(conns) - 1 /\ Cardinality(conns) \in Nat
      BY <1>3, <3>1, FS_RemoveElement, FS_CardinalityType
    <3>3. car.grants \in Nat /\ car'.grants = car.grants + 1
      BY <1>3, <2>2 DEF Cars
    <3> QED
      BY <3>1, <3>2, <3>3
  <2> QED
    BY <2>1, <2>2
<1>7. car'.conn = c /\ c \in conns'
  BY <1>2 DEF c
<1>8. LeakOnlyByGrant'
  BY <1>5, <1>6, <1>7 DEF LeakOnlyByGrant
<1> QED
  BY <1>4, <1>8 DEF LeakInv

LEMMA CarLeak == LeakInv /\ [CarNext]_carVars => LeakInv'
<1> SUFFICES ASSUME LeakInv, [CarNext]_carVars PROVE LeakInv'
  OBVIOUS
<1>0. car \in Cars /\ (~car.on => car = NoCar /\ conns = {}) /\ (~up => ~car.on)
  BY DEF LeakInv
<1>1. CASE carServiceStep
  <2>1. ServiceNext /\ car' = IF up' THEN car ELSE NoCar
    BY <1>1 DEF carServiceStep
  <2>2. CASE conns' = {} /\ up' = FALSE
    BY <2>1, <2>2, CarGone
  <2>3. CASE UNCHANGED conns /\ up' \in {TRUE, up}
    <3>1. CASE up'
      <4>1. UNCHANGED <<car, conns>>
        BY <2>1, <2>3, <3>1
      <4> QED
        BY <3>1, <4>1 DEF LeakInv, LeakOnlyByGrant
    <3>2. CASE ~up'
      <4>1. up' = up
        BY <2>3, <3>2
      <4>2. ~up
        BY <3>2, <4>1
      <4>3. car' = NoCar
        BY <2>1, <3>2
      <4> QED
        BY <1>0, <2>3, <4>2, <4>3, CarGone
    <3> QED
      BY <3>1, <3>2
  <2> QED
    BY <2>1, <2>2, <2>3, ServiceConns
<1>2. CASE onCreateCar
  <2>1. PICK x : x = [NoCar EXCEPT !.on = TRUE, !.conn = NewCarConn]
    OBVIOUS
  <2>2. NewCarConn \in Conns
    BY <1>2 DEF onCreateCar, startAndBind, NewCarConn
  <2>3. x \in Cars /\ x.on /\ x.conn = NewCarConn /\ x.grants = 0
    BY <2>1, <2>2, NoCarFacts DEF Cars
  <2>4. car' = x /\ startAndBind /\ up' /\ ~car.on
    BY <1>2, <2>1 DEF onCreateCar
  <2> QED
    BY <2>3, <2>4, CarBinds
<1>3. CASE onCreateScreen
  <2>1. PICK v \in {"info", "permission"} : car' = [car EXCEPT !.screen = v, !.list = {"fine"}]
    BY <1>3 DEF onCreateScreen
  <2>2. /\ car' \in Cars /\ car'.on = car.on /\ car'.conn = car.conn
        /\ car'.grants = car.grants
    BY <1>0, <2>1 DEF Cars, Permissions
  <2>3. car.on /\ UNCHANGED <<up, conns>>
    BY <1>3 DEF onCreateScreen, sysVars
  <2> QED
    BY <2>2, <2>3, CarKept
<1>4. CASE endSession
  <2>1. car' = [car EXCEPT !.screen = "none", !.list = {}, !.asked = {}]
    BY <1>4 DEF endSession
  <2>2. /\ car' \in Cars /\ car'.on = car.on /\ car'.conn = car.conn
        /\ car'.grants = car.grants
    BY <1>0, <2>1 DEF Cars
  <2>3. car.on /\ UNCHANGED <<up, conns>>
    BY <1>0, <1>4, NoCarFacts DEF endSession, sysVars
  <2> QED
    BY <2>2, <2>3, CarKept
<1>5. CASE onClick
  <2>1. car' = [car EXCEPT !.asked = car.list]
    BY <1>5 DEF onClick
  <2>2. /\ car' \in Cars /\ car'.on = car.on /\ car'.conn = car.conn
        /\ car'.grants = car.grants
    BY <1>0, <2>1 DEF Cars
  <2>3. car.on /\ UNCHANGED <<up, conns>>
    BY <1>0, <1>5, NoCarFacts DEF onClick, sysVars
  <2> QED
    BY <2>2, <2>3, CarKept
<1>6. CASE onRequestPermissionsResultCar
  <2>0. car.on /\ UNCHANGED up
    BY <1>0, <1>6, NoCarFacts DEF onRequestPermissionsResultCar
  <2>1. CASE /\ car' = [car EXCEPT !.asked = {}, !.list = @ \cup {"background"}]
             /\ UNCHANGED conns
    <3>1. /\ car' \in Cars /\ car'.on = car.on /\ car'.conn = car.conn
          /\ car'.grants = car.grants
      BY <1>0, <2>1 DEF Cars, Permissions
    <3> QED
      BY <2>0, <2>1, <3>1, CarKept
  <2>2. CASE /\ startAndBind
             /\ car' = [car EXCEPT !.asked = {}, !.conn = NewCarConn, !.grants = @ + 1]
    <3>1. NewCarConn \in Conns
      BY <2>2 DEF startAndBind, NewCarConn
    <3>2. /\ car' \in Cars /\ car'.on = car.on /\ car'.conn = NewCarConn
          /\ car'.grants = car.grants + 1
      <4>1. PICK n, k : n = car.grants + 1 /\ k = NewCarConn
        OBVIOUS
      <4>2. n \in Nat /\ k \in Conns
        BY <1>0, <3>1, <4>1 DEF Cars
      <4>3. car' = [car EXCEPT !.asked = {}, !.conn = k, !.grants = n]
        BY <2>2, <4>1
      <4>4. car' \in Cars /\ car'.on = car.on /\ car'.conn = k /\ car'.grants = n
        BY <1>0, <4>2, <4>3 DEF Cars
      <4> QED
        BY <4>1, <4>4
    <3>3. up' /\ car'.on
      BY <1>0, <2>0, <3>2
    <3> QED
      BY <2>0, <2>2, <3>2, <3>3, CarBinds
  <2> QED
    BY <1>6, <2>1, <2>2 DEF onRequestPermissionsResultCar
<1>7. CASE onServiceConnectedCar
  <2>1. car' = [car EXCEPT !.bound = TRUE]
    BY <1>7 DEF onServiceConnectedCar
  <2>2. /\ car' \in Cars /\ car'.on = car.on /\ car'.conn = car.conn
        /\ car'.grants = car.grants
    BY <1>0, <2>1 DEF Cars
  <2>3. car.on /\ UNCHANGED <<up, conns>>
    BY <1>7 DEF onServiceConnectedCar, sysVars
  <2> QED
    BY <2>2, <2>3, CarKept
<1>8. CASE onDestroyCar
  BY <1>8, CarGone DEF onDestroyCar
<1>10. CASE onCreateCarThrows
  <2>1. car' = NoCar /\ conns' = {}
    BY <1>0, <1>10 DEF onCreateCarThrows, Die
  <2> QED
    BY <2>1, CarGone
<1>9. CASE UNCHANGED carVars
  <2>1. UNCHANGED <<up, conns, car>>
    BY <1>9 DEF carVars, sysVars
  <2> QED
    BY <2>1 DEF LeakInv, LeakOnlyByGrant
<1> QED
  BY <1>1, <1>2, <1>3, <1>4, <1>5, <1>6, <1>7, <1>8, <1>9, <1>10 DEF CarNext

\* GeoFlowCarAppService.onDestroy never unbinds a connection that is not bound, and each
\* connection it forgets stands for one success of the permission screen, for every number
\* of connections and over kills, revocations and restarts.
THEOREM LeakByGrantOnly == CarSpec => []LeakOnlyByGrant
<1>1. LeakInv => LeakOnlyByGrant
  BY DEF LeakInv
<1> QED
  BY InitLeak, CarLeak, <1>1, PTL DEF CarSpec

\* A step of the car application: the service's record and updates are left alone, the
\* instance is at most settled, and no permission is taken away; or the process dies.
LEMMA CarClient ==
    ASSUME [CarNext]_carVars
    PROVE  \/ ServiceNext
           \/ Die(req.starts)
           \/ /\ UNCHANGED <<api, prefOk, req, updates>> /\ (up' = up \/ up' = TRUE)
              /\ perm \subseteq perm'
              /\ UNCHANGED svc \/ \E started, bound : svc' = Settle(svc, started, bound)
<1>1. startAndBind => svc' = Settle(svc, req.started, conns')
  BY DEF startAndBind
<1>2. carServiceStep => ServiceNext
  BY DEF carServiceStep
<1>3. onCreateScreen \/ endSession \/ onClick \/ onServiceConnectedCar \/ UNCHANGED carVars
      => UNCHANGED <<api, prefOk, up, perm, req, svc, updates>>
  BY DEF onCreateScreen, endSession, onClick, onServiceConnectedCar, carVars,
         sysVars
<1>4. onCreateCar => /\ UNCHANGED <<api, prefOk, req, perm, updates>> /\ up' = TRUE
                         /\ svc' = Settle(svc, req.started, conns')
  BY <1>1 DEF onCreateCar
<1>5. onRequestPermissionsResultCar =>
         /\ UNCHANGED <<api, prefOk, up, req, updates>> /\ perm \subseteq perm'
         /\ UNCHANGED svc \/ svc' = Settle(svc, req.started, conns')
  BY <1>1 DEF onRequestPermissionsResultCar
<1>6. onDestroyCar => /\ UNCHANGED <<api, prefOk, up, req, perm, updates>>
                          /\ svc' = Settle(svc, req.started, {})
  BY DEF onDestroyCar
<1>7. onCreateCarThrows => Die(req.starts)
  BY DEF onCreateCarThrows
<1> QED
  BY <1>2, <1>3, <1>4, <1>5, <1>6, <1>7 DEF CarNext

LEMMA CarPromise == PromiseInv /\ [CarNext]_carVars => PromiseInv'
<1>1. PromiseInv => req.starts \in Seq(Commands)
  BY DEF PromiseInv, Requests
<1> QED
  BY <1>1, CarClient, ServicePromise, DiePromise, SamePromise

\* The promise of startForegroundService is kept under the car application too.
THEOREM CarPromisesKept == CarSpec => []PromiseKept
<1>1. CarInit => PromiseInv
  BY InitPromise DEF CarInit, Init, NotRequested, PromiseInv, PromiseKept, Requests
<1>2. PromiseInv /\ [CarNext]_carVars => PromiseInv'
  BY CarPromise
<1>3. PromiseInv => PromiseKept
  BY DEF PromiseInv
<1> QED
  BY <1>1, <1>2, <1>3, PTL DEF CarSpec

\* Under the car application, too, location updates reach only the running instance.
THEOREM CarUpdatesServed == CarSpec => []UpdatesOnlyWhileServed
<1>1. CarInit => ServedInv
  BY DEF CarInit, Init, NoService, ServedInv, UpdatesOnlyWhileServed
<1>2. ASSUME ServedInv, [CarNext]_carVars PROVE ServedInv'
  <2>1. CASE ServiceNext
    BY <1>2, <2>1, ServiceServed
  <2>2. CASE /\ UNCHANGED <<api, prefOk, req, updates>> /\ (up' = up \/ up' = TRUE)
             /\ perm \subseteq perm'
             /\ UNCHANGED svc \/ \E started, bound : svc' = Settle(svc, started, bound)
    <3>1. (up => up') /\ (MayLocate => MayLocate')
      BY <2>2 DEF MayLocate
    <3> QED
      BY <1>2, <2>2, <3>1, ClientServed
  <2>3. CASE Die(req.starts)
    BY <1>2, <2>3, DieServed
  <2> QED
    BY <1>2, <2>1, <2>2, <2>3, CarClient
<1>3. ServedInv => UpdatesOnlyWhileServed
  BY DEF ServedInv
<1> QED
  BY <1>1, <1>2, <1>3, PTL DEF CarSpec

-----------------------------------------------------------------------------
(* The commands that wait when the process dies.                           *)

\* The commands are the receiver's, which have the extra, and those without an intent of
\* a restart after a completed one.
StartsOK(starts, callStart) ==
    \A i \in 1..Len(starts) : /\ starts[i] # "bare"
                              /\ starts[i] = "null" => callStart

StartsInv == PromiseInv /\ StartsOK(req.starts, req.callStart)

\* What a step may do to the commands when it ends the process.
Kept == \/ req'.starts = req.starts
        \/ /\ req.callStart /\ req.starts # <<>> /\ Head(req.starts) = "null"
           /\ req'.starts = Tail(req.starts)

LEMMA TailStarts ==
    ASSUME NEW s \in Seq(Commands), NEW c, NEW d, s # <<>>, StartsOK(s, c), c => d
    PROVE  /\ Len(s) > 0 /\ Head(s) = s[1] /\ Head(s) # "bare" /\ (Head(s) = "null" => c)
           /\ StartsOK(Tail(s), d)
<1>1. Len(s) \in Nat /\ Len(s) > 0 /\ Head(s) = s[1]
  OBVIOUS
<1>2. Len(Tail(s)) = Len(s) - 1 /\ \A i \in 1..(Len(s) - 1) : Tail(s)[i] = s[i + 1]
  OBVIOUS
<1>3. \A i \in 1..(Len(s) - 1) : i + 1 \in 1..Len(s)
  BY <1>1
<1>4. StartsOK(Tail(s), d)
  BY <1>2, <1>3 DEF StartsOK
<1>5. Head(s) # "bare" /\ (Head(s) = "null" => c)
  BY <1>1 DEF StartsOK
<1> QED
  BY <1>1, <1>4, <1>5

\* The process ends and the commands left are in order.
LEMMA DieStarts ==
    ASSUME StartsInv, NEW left \in Seq(Commands), Die(left)
    PROVE  req'.starts = left /\ req'.callStart = req.callStart
BY DEF Die, StartsInv, PromiseInv, Requests

LEMMA ServiceStarts ==
    ASSUME StartsInv, ServiceNext
    PROVE  StartsOK(req'.starts, req'.callStart) /\ (up /\ ~up' => Kept)
<1>0. req \in Requests /\ req.starts \in Seq(Commands) /\ StartsOK(req.starts, req.callStart)
  BY DEF StartsInv, PromiseInv, Requests
<1>1. CASE UNCHANGED req
  BY <1>0, <1>1 DEF Kept
<1>2. CASE Die(req.starts)
  BY <1>0, <1>2, DieStarts DEF Kept
<1>3. CASE onReceive
  <2>1. CASE startForegroundService(Extras)
    <3>1. req' = [req EXCEPT !.started = TRUE, !.starts = Append(@, "extras"), !.promise = TRUE]
      BY <2>1 DEF startForegroundService, Extras
    <3>2. PICK s : s = req.starts
      OBVIOUS
    <3>3. req'.starts = Append(s, "extras") /\ req'.callStart = req.callStart
      BY <1>0, <3>1, <3>2 DEF Requests
    <3>4. /\ Len(Append(s, "extras")) = Len(s) + 1 /\ Len(s) \in Nat
          /\ \A i \in 1..Len(s) : Append(s, "extras")[i] = s[i]
          /\ Append(s, "extras")[Len(s) + 1] = "extras"
      BY <1>0, <3>2
    <3>5. \A i \in 1..(Len(s) + 1) : i \in 1..Len(s) \/ i = Len(s) + 1
      BY <3>4
    <3>6. StartsOK(Append(s, "extras"), req.callStart)
      BY <1>0, <3>2, <3>4, <3>5 DEF StartsOK
    <3> QED
      BY <1>3, <3>3, <3>6 DEF onReceive
  <2> QED
    BY <1>1, <1>3, <2>1 DEF onReceive
<1>4. CASE onStartCommand
  <2>0. req.starts # <<>>
    BY <1>4 DEF onStartCommand
  <2>1. CASE ~Crashes(Head(req.starts))
    <3>1. req' = [req EXCEPT !.starts = Tail(@), !.callStart = TRUE, !.promise = @ /\ ~Promised]
          /\ UNCHANGED up
      BY <1>4, <2>1 DEF onStartCommand
    <3>2. req'.starts = Tail(req.starts) /\ req'.callStart = TRUE
      BY <1>0, <3>1 DEF Requests
    <3> QED
      BY <1>0, <2>0, <3>1, <3>2, TailStarts
  <2>2. CASE Crashes(Head(req.starts))
    <3>1. Head(req.starts) = "null" /\ req.callStart /\ StartsOK(Tail(req.starts), req.callStart)
      <4>1. /\ Head(req.starts) # "bare" /\ (Head(req.starts) = "null" => req.callStart)
            /\ StartsOK(Tail(req.starts), req.callStart)
        BY <1>0, <2>0, TailStarts
      <4>2. Head(req.starts) \in {"bare", "null"}
        BY <2>2 DEF Crashes
      <4> QED
        BY <4>1, <4>2
    <3>2. Tail(req.starts) \in Seq(Commands)
      BY <1>0, <2>0
    <3>3. Die(Tail(req.starts))
      BY <1>4, <2>2, <3>1 DEF onStartCommand
    <3> QED
      BY <2>0, <3>1, <3>2, <3>3, DieStarts DEF Kept
  <2> QED
    BY <2>1, <2>2
<1>5. CASE systemRestart
  <2>1. CASE req.callStart /\ req' = [req EXCEPT !.starts = <<"null">>]
    <3>1. req'.starts = <<"null">> /\ req'.callStart = req.callStart
      BY <1>0, <2>1 DEF Requests
    <3>2. StartsOK(<<"null">>, TRUE)
      BY DEF StartsOK
    <3> QED
      BY <1>5, <2>1, <3>1, <3>2 DEF systemRestart
  <2> QED
    BY <1>1, <1>5, <2>1 DEF systemRestart
<1>6. CASE systemStop
  <2>1. req' = NotRequested /\ UNCHANGED up
    BY <1>6 DEF systemStop
  <2>2. StartsOK(<<>>, FALSE)
    BY DEF StartsOK
  <2> QED
    BY <2>1, <2>2 DEF NotRequested
<1> QED
  BY <1>1, <1>2, <1>3, <1>4, <1>5, <1>6
     DEF ServiceNext, onCreate, onDestroy, systemBroadcast, systemKill, userGrants, userRevokes

\* Under the car application no start is lost with the process, however it ends
\* (GeoFlowService.onStartCommand, InitServiceBroadcastReceiver.onReceive): all commands
\* but the restart's own wait for the next instance, for every number of them.
THEOREM CarKeepsStarts == CarSpec => DeathKeepsStarts
<1>1. CarInit => StartsInv
  BY DEF CarInit, Init, NotRequested, StartsInv, StartsOK, PromiseInv, PromiseKept, Requests
<1>2. ASSUME StartsInv, [CarNext]_carVars
      PROVE  StartsOK(req'.starts, req'.callStart) /\ (up /\ ~up' => Kept)
  <2>1. CASE UNCHANGED req /\ (up' = up \/ up' = TRUE)
    BY <1>2, <2>1 DEF StartsInv
  <2>2. CASE Die(req.starts)
    BY <1>2, <2>2, DieStarts DEF Kept, StartsInv, PromiseInv, Requests
  <2> QED
    BY <1>2, <2>1, <2>2, CarClient, ServiceStarts
<1>3. StartsInv /\ [CarNext]_carVars => StartsInv'
  BY <1>2, CarPromise DEF StartsInv
<1>4. StartsInv /\ [CarNext]_carVars =>
        [up /\ ~up' => \/ req'.starts = req.starts
                       \/ /\ req.callStart /\ req.starts # <<>> /\ Head(req.starts) = "null"
                          /\ req'.starts = Tail(req.starts)]_carVars
  BY <1>2 DEF Kept
<1> QED
  BY <1>1, <1>3, <1>4, PTL DEF CarSpec, DeathKeepsStarts
===============================================================================
