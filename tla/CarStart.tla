------------------------------- MODULE CarStart -------------------------------
(***************************************************************************)
(* The car application: GeoFlowCarAppService, which the car's host creates *)
(* and destroys, starts and binds GeoFlowService; its session shows        *)
(* RequestPermissionScreen as long as background location is missing.      *)
(***************************************************************************)
EXTENDS GeoFlowService

VARIABLE car  \* GeoFlowCarAppService: fields, screen, requests; grants is a history

carVars == <<sysVars, car>>

NoCar == [on |-> FALSE, conn |-> 0, bound |-> FALSE, screen |-> "none", list |-> {},
          asked |-> {}, grants |-> 0]

CarInit == Init /\ car = NoCar

NewCarConn == CHOOSE c \in Conns : c \notin conns

\* Broadcast and bind, as onCreate and onPermissionGranted do.
startAndBind ==
    /\ sendBroadcast("START_GEOFLOW_SERVICE_ACTION")
    /\ Conns \ conns # {}
    /\ conns' = Bound(NewCarConn)
    /\ svc' = Settle(svc, req.started, conns')

\* The service is started whether or not a permission is granted.
onCreateCar ==
    /\ ~car.on /\ api < 34
    /\ startAndBind
    /\ car' = [NoCar EXCEPT !.on = TRUE, !.conn = NewCarConn]
    /\ up' = TRUE
    /\ UNCHANGED <<api, prefOk, perm, req, updates>>

\* From Android 14 on registerReceiver throws without a flag that says whether the
\* receiver is exported; nothing in onCreate catches it.
onCreateCarThrows ==
    /\ ~car.on /\ api >= 34
    /\ Die(req.starts)
    /\ UNCHANGED <<perm, car>>

\* MapActivity, which onCreateScreen opens as well, is modelled in DatexFetch.
onCreateScreen ==
    /\ car.on /\ car.screen = "none"
    /\ car' = [car EXCEPT !.screen = IF "background" \in perm THEN "info" ELSE "permission",
                          !.list = {"fine"}]
    /\ UNCHANGED sysVars

endSession ==
    /\ car.screen # "none"
    /\ car' = [car EXCEPT !.screen = "none", !.list = {}, !.asked = {}]
    /\ UNCHANGED sysVars

\* RequestPermissionScreen, onClick of its button.
onClick ==
    /\ car.screen = "permission" /\ car.asked = {}
    /\ car' = [car EXCEPT !.asked = car.list]
    /\ UNCHANGED sysVars

\* grantedPermissions contains background location; p: permissions after the answer.
Granted(p) == "background" \in car.asked \cap p

\* onRequestPermissionsResultCar.  finish does not remove the screen: it is the only one
\* of the session.
onRequestPermissionsResultCar ==
    /\ car.asked # {}
    /\ perm' \in {perm \cup g : g \in SUBSET car.asked}
    /\ \/ /\ ~Granted(perm')
          /\ car' = [car EXCEPT !.asked = {}, !.list = @ \cup {"background"}]
          /\ UNCHANGED <<casts, svc, conns>>
       \/ /\ Granted(perm')
          /\ startAndBind
          /\ car' = [car EXCEPT !.asked = {}, !.conn = NewCarConn, !.grants = @ + 1]
    /\ UNCHANGED <<api, prefOk, up, req, updates>>

\* The callback of any of the connections.
onServiceConnectedCar ==
    /\ car.on /\ ~car.bound /\ svc.state = "alive" /\ ~svc.stop
    /\ car' = [car EXCEPT !.bound = TRUE]
    /\ UNCHANGED sysVars

\* The last connection is unbound by the code, the earlier ones by the system when it
\* clears the context of the destroyed service.
onDestroyCar ==
    /\ car.on /\ car.conn \in conns
    /\ conns' = {}
    /\ svc' = Settle(svc, req.started, {})
    /\ car' = NoCar
    /\ UNCHANGED <<api, prefOk, up, perm, casts, req, updates>>

\* A step of the service or the system; the car service ends with its process.
carServiceStep == ServiceNext /\ car' = IF up' THEN car ELSE NoCar

CarNext ==
    \/ carServiceStep
    \/ onCreateCar \/ onCreateCarThrows \/ onCreateScreen \/ endSession \/ onClick
    \/ onRequestPermissionsResultCar \/ onServiceConnectedCar \/ onDestroyCar

\* The main thread handles what the system delivers; nobody has to press a button,
\* and nothing is assumed of the system's decisions.
CarSpec ==
    /\ CarInit /\ [][CarNext]_carVars
    /\ WF_carVars(carServiceStep /\ onReceive) /\ WF_carVars(carServiceStep /\ onCreate)
    /\ WF_carVars(carServiceStep /\ onStartCommand) /\ WF_carVars(carServiceStep /\ onDestroy)

-----------------------------------------------------------------------------
\* The connection onDestroy unbinds is bound, so that it cannot throw; and beside it
\* there are at most as many forgotten ones as times the permission screen
\* reported success.
LeakOnlyByGrant ==
    /\ car.on => car.conn \in conns
    /\ Cardinality(conns \ {car.conn}) <= car.grants

\* A death of the process loses no start: the commands that wait are delivered to the
\* next instance.  Only the command without an intent that a sticky restart delivers is
\* lost, with the process that dies of it in onStartCommand; every command of the
\* receiver is one onStartCommand survives, also one that waits behind such a restart.
DeathKeepsStarts ==
    [][up /\ ~up' => \/ req'.starts = req.starts
                     \/ /\ req.callStart /\ req.starts # <<>> /\ Head(req.starts) = "null"
                        /\ req'.starts = Tail(req.starts)]_carVars
=============================================================================
