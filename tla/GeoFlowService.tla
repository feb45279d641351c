---------------------------- MODULE GeoFlowService ----------------------------
(***************************************************************************)
(* The life cycle of GeoFlowService: the broadcast that starts it          *)
(* (InitServiceBroadcastReceiver), its creation, start commands and        *)
(* destruction, the location updates LocationClient registers for it, and  *)
(* the Android system around it, which delivers, restarts and kills.       *)
(*                                                                         *)
(* Everything here runs on the main thread of one process, one handler at  *)
(* a time; what interleaves is the order in which the system delivers.     *)
(* The clients that bind the service are in MobileStart and CarStart.      *)
(*                                                                         *)
(* A start command is "extras" (an intent with the extra the receiver puts *)
(* in), "bare" (an intent without extras) or "null" (no intent).           *)
(***************************************************************************)
EXTENDS Integers, Sequences, FiniteSets

CONSTANTS
    Apis,        \* Android API levels the application may run on
    MaxCasts,    \* bound on broadcasts under way
    MaxStarts,   \* bound on start commands under way
    Conns        \* service connections (objects; numbers are used again)

ASSUME GeoFlowServiceAssumption ==
    /\ Apis \subseteq 29..34 /\ Apis # {}
    /\ MaxCasts \in Nat /\ MaxStarts \in Nat /\ 0 \notin Conns

VARIABLES
    api, prefOk,  \* the device: API level, whether the saved UiFields can be read
    up,           \* the process runs
    perm,         \* location permissions granted
    casts,        \* broadcasts on their way
    req,          \* the system's record of the started service
    svc,          \* the service instance
    conns,        \* bound connections
    updates       \* instances whose LocationCallback is registered

sysVars == <<api, prefOk, up, perm, casts, req, svc, conns, updates>>

Permissions == {"fine", "coarse", "background"}
NoService == [state |-> "none", stop |-> FALSE, client |-> FALSE, inst |-> 0]
NotRequested == [started |-> FALSE, callStart |-> FALSE, starts |-> <<>>, promise |-> FALSE]

Init ==
    /\ api \in Apis /\ prefOk \in BOOLEAN
    /\ up = FALSE
    /\ perm = {}
    /\ casts = <<>>
    /\ req = NotRequested
    /\ svc = NoService
    /\ conns = {} /\ updates = {}

-----------------------------------------------------------------------------
(* What the system does on behalf of the callers.                          *)

\* The instance after a change of who needs the service: brought up when needed,
\* brought down (onDestroy follows) when no longer.
Settle(s, started, bound) ==
    IF started \/ bound # {}
    THEN IF s.state = "none" THEN [s EXCEPT !.state = "creating"] ELSE s
    ELSE IF s.state = "none" THEN s ELSE [s EXCEPT !.stop = TRUE]

sendBroadcast(a) == Len(casts) < MaxCasts /\ casts' = Append(casts, a)

startForegroundService(cmd) ==
    /\ Len(req.starts) < MaxStarts
    /\ req' = [req EXCEPT !.started = TRUE, !.starts = Append(@, cmd), !.promise = TRUE]
    /\ svc' = Settle(svc, TRUE, conns)

\* Mutant: the service is started and not bound.
Bound_None(c) == conns

\* The connections after bindService with BIND_AUTO_CREATE.
Bound(c) == conns \cup {c}

\* The process ends: the instance, its connections and its updates go with it.  The
\* system keeps the request and the commands that were not completed.
Die(left) ==
    /\ up' = FALSE
    /\ req' = [req EXCEPT !.starts = left, !.promise = FALSE]
    /\ svc' = NoService
    /\ conns' = {} /\ updates' = {}
    /\ UNCHANGED <<api, prefOk, casts>>

-----------------------------------------------------------------------------
(* InitServiceBroadcastReceiver.                                           *)

StartActions == {"START_GEOFLOW_SERVICE_ACTION", "MY_PACKAGE_REPLACED",
                 "DREAMING_STOPPED", "SCREEN_ON"}

\* Mutant: the receiver puts no extra into its intent.
Extras_None == "bare"

Extras == "extras"

\* The receiver is declared in the manifest: a broadcast starts the process when it
\* has to.  From Android 12 on the system may refuse the start of a foreground service
\* to an application in the background; the exception is caught.
onReceive ==
    /\ casts # <<>>
    /\ casts' = Tail(casts)
    /\ up' = TRUE
    /\ \/ Head(casts) \in StartActions /\ startForegroundService(Extras)
       \/ /\ Head(casts) \notin StartActions \/ api >= 31
          /\ UNCHANGED <<req, svc>>
    /\ UNCHANGED <<api, prefOk, perm, conns, updates>>

-----------------------------------------------------------------------------
(* GeoFlowService and LocationClient.                                      *)

\* When the saved UiFields cannot be read the constructor of EventHandler throws and
\* the service stays without handler and client.
onCreate ==
    /\ up /\ svc.state = "creating"
    /\ svc' = [svc EXCEPT !.state = "alive", !.client = prefOk,
                           !.inst = IF 1 \in updates THEN 2 ELSE 1]
    /\ UNCHANGED <<api, prefOk, up, perm, casts, req, conns, updates>>

\* createNotificationChannel: from Android 12 on a PendingIntent must say whether it
\* is mutable, and this one does not; the exception is caught by onStartCommand.
createNotificationChannel == api < 31

\* startLocationUpdates: both permissions, or an exception.
MayLocate == {"fine", "coarse"} \subseteq perm

\* Mutant: only a client that may locate in the background is registered.
startLocationUpdates_Back ==
    IF svc.client /\ Permissions \subseteq perm THEN updates \cup {svc.inst} ELSE updates

\* The updates after startLocationUpdates.  The callback is the client's own, so a
\* second request replaces the first.
startLocationUpdates ==
    IF svc.client /\ MayLocate THEN updates \cup {svc.inst} ELSE updates

\* Mutant: the notification comes after the updates, whose failure leaves it out.
Promised_Late == createNotificationChannel /\ svc.client /\ MayLocate

\* startForeground is reached.
Promised == createNotificationChannel

\* intent.getExtras().getString(...), before the try block.
Crashes(cmd) == cmd \in {"bare", "null"}

\* A command whose delivery crashed may be delivered again, if it is an intent.
onStartCommand ==
    /\ up /\ svc.state = "alive" /\ ~svc.stop /\ req.starts # <<>>
    /\ \/ /\ ~Crashes(Head(req.starts))
          /\ req' = [req EXCEPT !.starts = Tail(@), !.callStart = TRUE,
                                !.promise = @ /\ ~Promised]
          /\ updates' = IF createNotificationChannel THEN startLocationUpdates ELSE updates
          /\ UNCHANGED <<api, prefOk, up, perm, casts, svc, conns>>
       \/ /\ Crashes(Head(req.starts))
          /\ \/ Die(Tail(req.starts))
             \/ Head(req.starts) = "bare" /\ Die(req.starts)
          /\ UNCHANGED perm

\* Mutant: the callback stays registered.
stopLocationUpdates_Kept == updates

stopLocationUpdates == IF svc.client THEN updates \ {svc.inst} ELSE updates

\* The looper thread goes on; see UiFieldsStore.
onDestroy ==
    /\ up /\ svc.state = "alive" /\ svc.stop
    /\ updates' = stopLocationUpdates
    /\ svc' = Settle(NoService, req.started, conns)
    /\ UNCHANGED <<api, prefOk, up, perm, casts, req, conns>>

-----------------------------------------------------------------------------
(* The environment: the system and the user.                               *)

\* BOOT_COMPLETED, or the start action from another application (the receiver is exported).
systemBroadcast ==
    /\ \E a \in {"BOOT_COMPLETED", "START_GEOFLOW_SERVICE_ACTION"} : sendBroadcast(a)
    /\ UNCHANGED <<api, prefOk, up, perm, req, svc, conns, updates>>

\* START_STICKY: a started service is brought up again after a death; when no
\* command is left and one had been completed, it gets one without an intent.
systemRestart ==
    /\ req.started /\ svc.state = "none"
    /\ up' = TRUE
    /\ req' = IF req.callStart /\ req.starts = <<>>
              THEN [req EXCEPT !.starts = <<"null">>] ELSE req
    /\ svc' = Settle(svc, TRUE, {})
    /\ UNCHANGED <<api, prefOk, perm, casts, conns, updates>>

\* The system gives up on a service that died, or the user stops a running one.
systemStop ==
    /\ req.started /\ (svc.state = "none" \/ (req.starts = <<>> /\ ~req.promise))
    /\ req' = NotRequested
    /\ svc' = Settle(svc, FALSE, conns)
    /\ UNCHANGED <<api, prefOk, up, perm, casts, conns, updates>>

\* Memory is short, or startForeground did not follow startForegroundService in time
\* (req.promise).
systemKill ==
    /\ up /\ Die(req.starts)
    /\ UNCHANGED perm

\* The settings: precise location includes the approximate one, and background
\* location needs one of them.  A revocation kills the process.
userGrants ==
    /\ \E p \in {perm \cup {"coarse"}, perm \cup {"fine", "coarse"}, Permissions} :
          p # perm /\ perm' = p
    /\ UNCHANGED <<api, prefOk, up, casts, req, svc, conns, updates>>

userRevokes ==
    /\ perm' \in {{}, {"coarse"} \cap perm, perm \ {"background"}} /\ perm' # perm
    /\ IF up THEN Die(req.starts)
       ELSE UNCHANGED <<api, prefOk, up, casts, req, svc, conns, updates>>

ServiceNext ==
    \/ onReceive \/ onCreate \/ onStartCommand \/ onDestroy
    \/ systemBroadcast \/ systemRestart \/ systemStop \/ systemKill
    \/ userGrants \/ userRevokes

-----------------------------------------------------------------------------
(* Properties of the service, whoever its clients are.                     *)

\* Location updates reach only the instance that is running, with the permissions
\* they need: over restarts, repeated starts, revocations and destructions no
\* callback of an earlier instance stays registered.
UpdatesOnlyWhileServed ==
    updates # {} => /\ up /\ svc.state = "alive" /\ svc.client
                    /\ updates = {svc.inst}
                    /\ MayLocate

\* Where the notification can be built (before Android 12), every promise of
\* startForegroundService is kept by the start command it announced, even when the
\* location updates cannot start: the system has no reason to kill for it once all
\* commands were handled.
PromiseKept ==
    api < 31 /\ req.promise => req.starts # <<>>

\* A start command of the receiver, once it is the next one, leads to location
\* updates if permissions, saved fields and platform allow them; or the process dies
\* or the permission is gone first.
StartBringsUpdates ==
    (req.starts # <<>> /\ Head(req.starts) = "extras" /\ MayLocate /\ prefOk /\ api < 31
       /\ svc.state # "none" /\ ~svc.stop)
       ~> (updates # {} \/ ~up \/ ~req.started)
=============================================================================
