--------------------------- MODULE CarPropertyClient ---------------------------
(***************************************************************************)
(* CarPropertyClient: its static fields and the callbacks it registers     *)
(* with the car, at every start command of GeoFlowService in a car.  Every *)
(* call on the car may throw, each step by itself.  UiFieldsStore runs it  *)
(* with the service and the handlers that its events go to.                *)
(*                                                                         *)
(* 0 stands for null; the number of an object that is registered nowhere   *)
(* is used again.                                                          *)
(***************************************************************************)
EXTENDS Integers, FiniteSets

VARIABLES
    mCarPropertyManager,       \* static
    mEventHandler,             \* static: the handler the car's events go to
    vehicleSpeedEventCallback, \* static
    speedRegs,  \* speed callbacks registered: <<manager, callback>>
    vinReg      \* some VIN callback is registered: none is ever unregistered

carVars == <<mCarPropertyManager, mEventHandler, vehicleSpeedEventCallback, speedRegs, vinReg>>

\* The state of a new process.
NoCarClient(mgr, handler, callback, regs, vin) ==
    mgr = 0 /\ handler = 0 /\ callback = 0 /\ regs = {} /\ vin = FALSE

CarInit == NoCarClient(mCarPropertyManager, mEventHandler, vehicleSpeedEventCallback,
                       speedRegs, vinReg)

\* Mutant: the old callback is dropped without being unregistered.
unregisterCallback_None == speedRegs

\* The registrations after the first lines of init.
unregisterCallback ==
    IF vehicleSpeedEventCallback # 0 /\ mCarPropertyManager # 0
    THEN speedRegs \ {<<mCarPropertyManager, vehicleSpeedEventCallback>>} ELSE speedRegs

\* The callback after those lines: null if there was a manager to unregister it from.
OldCallback == IF mCarPropertyManager # 0 THEN 0 ELSE vehicleSpeedEventCallback

\* An object that is neither component of a registration.
NewObject(regs) ==
    CHOOSE k \in 1..3 : \A r \in regs : k # r[1] /\ k # r[2]

\* unregisterCallback throws, or after it createCar or getCarManager.
initFails ==
    \/ OldCallback # vehicleSpeedEventCallback /\ UNCHANGED carVars
    \/ /\ speedRegs' = unregisterCallback
       /\ vehicleSpeedEventCallback' = OldCallback
       /\ UNCHANGED <<mCarPropertyManager, mEventHandler, vinReg>>

\* init for handler g with a manager, or with null for one (got); then the VIN
\* callback is registered (a failure is not reported), and the speed callback.
init(g, got, vinOk, speedOk) ==
    /\ mCarPropertyManager' = IF got THEN NewObject(unregisterCallback) ELSE 0
    /\ mEventHandler' = g
    /\ vehicleSpeedEventCallback' = IF OldCallback = 0 THEN NewObject(unregisterCallback)
                                    ELSE OldCallback
    /\ vinReg' = (vinReg \/ (got /\ vinOk))
    /\ speedRegs' = unregisterCallback \cup
          IF got /\ speedOk THEN {<<mCarPropertyManager', vehicleSpeedEventCallback'>>} ELSE {}

\* However often the service is started, and whichever step of a start fails, at most
\* one speed callback is registered, and it is the one the next start unregisters.
OneSpeedCallback == speedRegs \subseteq {<<mCarPropertyManager, vehicleSpeedEventCallback>>}
=============================================================================
