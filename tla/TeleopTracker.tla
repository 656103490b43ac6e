---------------------------- MODULE TeleopTracker ----------------------------
(***************************************************************************)
(* The teleop thread (teleop_tracker.cpp): one tick consumes a reset       *)
(* request, then looks for the B gesture, then processes a body sample.    *)
(* Another thread may run between any two of these, so each is an action,  *)
(* and so is the Clear() that follows a store to calibrated_.              *)
(***************************************************************************)
EXTENDS ControlArbiter

CONSTANTS
  kCalibHoldTicks,   \* ticks B is held before the gesture fires
  Gestures,          \* switch: the operator uses the B gesture
  BodyLags           \* switch: a tick may find no new body sample

ASSUME TrackerAssumption ==
  /\ kCalibHoldTicks \in Nat /\ kCalibHoldTicks > 0
  /\ Gestures \in BOOLEAN
  /\ BodyLags \in BOOLEAN

VARIABLES
  tracker_pc,
  b_held,             \* ctrl_buf shows B alone, triggers released
  body,               \* body_buf: no sample, a processed one, a new one
  reset_request,      \* reset_request_
  calibrate_request,  \* calibrate_request_
  calibrated,         \* calibrated_
  calib_hold_ticks,   \* calib_hold_ticks_
  latched,            \* calib_gesture_latched_
  vr3point            \* vr3point_buf holds a target

trackerVars == <<tracker_pc, b_held, body, reset_request, calibrate_request,
                 calibrated, calib_hold_ticks, latched, vr3point>>

TrackerPc == {"reset", "clearAfterReset", "gesture", "clearAfterOff", "body",
              "publish"}

TrackerInit ==
  /\ tracker_pc = "reset"
  /\ b_held = FALSE
  /\ body = IF BodyLags THEN "none" ELSE "new"
  /\ reset_request = FALSE
  /\ calibrate_request = FALSE
  /\ calibrated = FALSE
  /\ calib_hold_ticks = 0
  /\ latched = FALSE
  /\ vr3point = FALSE

TrackerTypeOK ==
  /\ tracker_pc \in TrackerPc
  /\ b_held \in BOOLEAN
  /\ body \in {"none", "processed", "new"}
  /\ reset_request \in BOOLEAN
  /\ calibrate_request \in BOOLEAN
  /\ calibrated \in BOOLEAN
  /\ calib_hold_ticks \in 0..kCalibHoldTicks
  /\ latched \in BOOLEAN
  /\ latched \/ calib_hold_ticks < kCalibHoldTicks
  /\ vr3point \in BOOLEAN

\* reset_calibration(), called from the control loop's thread.
ResetCalibration ==
  /\ reset_request' = TRUE
  /\ UNCHANGED <<tracker_pc, b_held, body, calibrate_request, calibrated,
                 calib_hold_ticks, latched, vr3point>>

-------------------------------------------------------------------------------
\* The operator and the body stream.

HoldOrReleaseB ==
  /\ Gestures
  /\ b_held' = ~b_held
  /\ UNCHANGED <<tracker_pc, body, reset_request, calibrate_request,
                 calibrated, calib_hold_ticks, latched, vr3point>>

BodySample ==
  /\ body # "new"
  /\ body' = "new"
  /\ UNCHANGED <<tracker_pc, b_held, reset_request, calibrate_request,
                 calibrated, calib_hold_ticks, latched, vr3point>>

-------------------------------------------------------------------------------
\* One tick.

TakeReset ==
  /\ tracker_pc = "reset"
  /\ reset_request' = FALSE
  /\ calibrated' = (calibrated /\ ~reset_request)
  /\ tracker_pc' = IF reset_request THEN "clearAfterReset" ELSE "gesture"
  /\ UNCHANGED <<b_held, body, calibrate_request, calib_hold_ticks, latched,
                 vr3point>>

\* Mutant: the target outlives a reset.
ClearVr3PointOnOff ==
  /\ tracker_pc \in {"clearAfterReset", "clearAfterOff"}
  /\ vr3point' = (vr3point /\ tracker_pc = "clearAfterReset")
  /\ tracker_pc' = IF tracker_pc = "clearAfterReset" THEN "gesture" ELSE "body"
  /\ UNCHANGED <<b_held, body, reset_request, calibrate_request, calibrated,
                 calib_hold_ticks, latched>>

ClearVr3Point ==
  /\ tracker_pc \in {"clearAfterReset", "clearAfterOff"}
  /\ vr3point' = FALSE
  /\ tracker_pc' = IF tracker_pc = "clearAfterReset" THEN "gesture" ELSE "body"
  /\ UNCHANGED <<b_held, body, reset_request, calibrate_request, calibrated,
                 calib_hold_ticks, latched>>

\* Mutant: the gesture does not look at the mode.
GestureIgnoresMode == ~b_held

\* While the stream holds the robot or its recovery runs, B is ignored.
GestureIgnored == mode \in {"kVla", "kRecovering"} \/ ~b_held

GestureFires ==
  ~GestureIgnored /\ ~latched /\ calib_hold_ticks + 1 >= kCalibHoldTicks

CheckCalibrationGesture ==
  /\ tracker_pc = "gesture"
  /\ calib_hold_ticks' = IF GestureIgnored THEN 0
                         ELSE IF latched THEN calib_hold_ticks
                         ELSE calib_hold_ticks + 1
  /\ latched' = (~GestureIgnored /\ (latched \/ GestureFires))
  /\ calibrated' = (calibrated /\ ~GestureFires)
  /\ calibrate_request' = (calibrate_request \/ (GestureFires /\ ~calibrated))
  /\ tracker_pc' = IF GestureFires /\ calibrated THEN "clearAfterOff"
                   ELSE "body"
  /\ UNCHANGED <<b_held, body, reset_request, vr3point>>

\* process(): a pending request captures the calibration.  Without a new
\* sample the tick ends, and before the first one the target is cleared.
ProcessBody ==
  /\ tracker_pc = "body"
  /\ IF body = "new"
       THEN /\ calibrate_request' = FALSE
            /\ calibrated' = (calibrated \/ calibrate_request)
            /\ body' = IF BodyLags THEN "processed" ELSE body
            /\ tracker_pc' = IF calibrated \/ calibrate_request
                               THEN "publish" ELSE "reset"
            /\ UNCHANGED vr3point
       ELSE /\ vr3point' = (vr3point /\ body # "none")
            /\ tracker_pc' = "reset"
            /\ UNCHANGED <<calibrate_request, calibrated, body>>
  /\ UNCHANGED <<b_held, reset_request, calib_hold_ticks, latched>>

PublishVr3Point ==
  /\ tracker_pc = "publish"
  /\ vr3point' = TRUE
  /\ tracker_pc' = "reset"
  /\ UNCHANGED <<b_held, body, reset_request, calibrate_request, calibrated,
                 calib_hold_ticks, latched>>

TrackerTick ==
  \/ TakeReset
  \/ ClearVr3Point
  \/ CheckCalibrationGesture
  \/ ProcessBody
  \/ PublishVr3Point

TrackerEnvironment == HoldOrReleaseB \/ BodySample
===============================================================================
