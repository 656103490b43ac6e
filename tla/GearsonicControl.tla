--------------------------- MODULE GearsonicControl ---------------------------
(***************************************************************************)
(* The composed control process: the control loop, the teleop thread and   *)
(* the planner thread interleave freely with one another, with LowState,   *)
(* with the external token stream and with the operator.                   *)
(***************************************************************************)
EXTENDS WholeBodyController

CONSTANT Speeds   \* bound: the velocity classes LowState may report

ASSUME SpeedsAssumption == Speeds \subseteq BOOLEAN

vars == <<arbiterVars, trackerVars, plannerVars, readerVars, vlaVars,
          inputVars, controllerVars, faults>>

Init ==
  /\ ArbiterInit
  /\ TrackerInit
  /\ PlannerInit
  /\ ReaderInit
  /\ VlaInit
  /\ InputInit
  /\ ControllerInit
  /\ InferenceInit

TrackerThread ==
  /\ TrackerTick
  /\ UNCHANGED <<arbiterVars, plannerVars, readerVars, vlaVars, inputVars,
                 controllerVars, faults>>

PlannerThread ==
  /\ PlannerTick
  /\ UNCHANGED <<arbiterVars, trackerVars, readerVars, vlaVars, inputVars,
                 controllerVars>>

Operator ==
  \/ /\ TrackerEnvironment
     /\ UNCHANGED inputVars
     /\ UNCHANGED <<arbiterVars, plannerVars, readerVars, vlaVars,
                    controllerVars, faults>>
  \/ /\ PressEStop \/ SelectMode \/ StartControl
     /\ UNCHANGED trackerVars
     /\ UNCHANGED <<arbiterVars, plannerVars, readerVars, vlaVars,
                    controllerVars, faults>>

Robot ==
  /\ WatchdogClears \/ \E fast \in Speeds : OnLowState(fast)
  /\ UNCHANGED <<arbiterVars, trackerVars, plannerVars, vlaVars, inputVars,
                 controllerVars, faults>>

Stream ==
  /\ OnLatentAction \/ TokenAges
  /\ UNCHANGED <<arbiterVars, trackerVars, plannerVars, readerVars, inputVars,
                 controllerVars, faults>>

Next ==
  \/ ControlTick
  \/ TrackerThread
  \/ PlannerThread
  \/ Operator
  \/ Robot
  \/ Stream

Spec == Init /\ [][Next]_vars

\* The three threads run for ever: each loop sleeps to its next period.
Threads ==
  /\ WF_vars(ControlTick)
  /\ WF_vars(TrackerThread)
  /\ WF_vars(PlannerThread)

\* LowState comes back after a loss: the robot publishes at 500 Hz.
LowStateReturns ==
  WF_vars(/\ \E fast \in Speeds : OnLowState(fast)
          /\ UNCHANGED <<arbiterVars, trackerVars, plannerVars, vlaVars,
                         inputVars, controllerVars, faults>>)

FairSpec == Spec /\ Threads
-------------------------------------------------------------------------------
TypeOK ==
  /\ ArbiterTypeOK
  /\ TrackerTypeOK
  /\ PlannerTypeOK
  /\ ReaderTypeOK
  /\ VlaTypeOK
  /\ InputTypeOK
  /\ ControllerTypeOK
  /\ InferenceTypeOK

BaseCommands == {"BaseRamp", "BasePose", "Damping"}

\* A stale target is never asserted after a long LowState loss: from the end
\* of the grace until the reseed was acknowledged, only the base hold (or the
\* e-stop's damping) is commanded, whatever the arbiter's mode was.
BaseHeldUntilReseed ==
  \/ LongLoss /\ pc = "gate"
  \/ pc = "reseed"
  \/ state_reseed_ticket # 0
  => motor_command \in BaseCommands

\* The loss policy never damps: damping is commanded after an e-stop only,
\* and an ESTOP state commands nothing else.
DampingIsEStop ==
  /\ motor_command = "Damping" => estop
  /\ state = "ESTOP" => motor_command = "Damping"

\* After a LowState loss no motion is played back that descends from a plan
\* made before the reseed the loss asked for.
LossOriginFresh == playback # NoMotion => playback >= loss_ticket

\* The same promise for the recovery from a lost token stream.
VlaOriginFresh ==
  /\ reinit_ticket_issued
  /\ mode \in {"kNormal", "kTeleop"}
  /\ pc # "resetPlayback"
  /\ playback # NoMotion
  => playback >= reinit_ticket

\* No hidden armed teleop survives in a VLA session or its recovery: a
\* calibration there is one the pending reset is about to drop.
NoHiddenTeleop ==
  /\ calibrated
  /\ mode \in {"kVla", "kRecovering"}
  => reset_request \/ pc = "resetCalibration"

\* The teleop target is published while calibrated only: the encoder cannot
\* be left in its teleop mode by an operator whose calibration is gone.
TargetIsCalibrated ==
  vr3point => calibrated \/ tracker_pc \in {"clearAfterReset", "clearAfterOff"}

\* The arbiter's held token is the last commanded one whenever the loop is
\* between ticks, so that an armed blend starts from the last output.
HeldIsLastCommand ==
  pc = "gate" /\ motor_command \in Token => held_token = motor_command

\* The arbitration and the token path implement the ownership protocol: who
\* holds the robot, and the token that drives it.
Holder == CASE mode = "kNormal"     -> "origin"
            [] mode = "kTeleop"     -> "operator"
            [] mode = "kVla"        -> "stream"
            [] mode = "kRecovering" -> "returning"
Driving == IF token_seq = 0 THEN "None" ELSE held_token

Owned == INSTANCE Ownership WITH owner <- Holder, token <- Driving

OwnershipProtocol == Owned!Spec

\* An e-stop ends in damping for good, whatever the loop is doing and whether
\* or not LowState arrives.
EStopDamps == estop ~> [](motor_command = "Damping")

\* A lost stream's recovery comes back to the origin, unless an e-stop ends
\* control, provided that LowState returns from its losses.
RecoveryEnds ==
  LowStateReturns => (mode = "kRecovering" ~> (mode = "kNormal" \/ estop))

\* Under the same proviso the wait for the reseed after a LowState loss ends.
ReseedWaitEnds ==
  LowStateReturns =>
    (state_reseed_ticket # 0 ~> (state_reseed_ticket = 0 \/ estop))
===============================================================================
