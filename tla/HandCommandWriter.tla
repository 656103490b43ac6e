--------------------------- MODULE HandCommandWriter ---------------------------
(***************************************************************************)
(* The 100 Hz Dex3 hand publisher (hand_command_writer.cpp): one tick reads *)
(* the calibration, the arbiter's mode, the e-stop, the stream's targets   *)
(* and the controller axes, one after the other, and publishes both hands. *)
(* The other threads are their own steps in between.                       *)
(***************************************************************************)
EXTENDS Naturals

CONSTANTS
  kFistTicks,   \* ticks of kFistReleaseDelay
  MaxTargets    \* bound: hand targets the stream sends

ASSUME HandAssumption == kFistTicks \in Nat /\ MaxTargets \in Nat

Mode     == {"kNormal", "kTeleop", "kVla", "kRecovering"}
StreamOwned == {"kVla", "kRecovering"}
NoTarget == 0
Source   == {"none", "stop", "stream", "fist", "tracked", "open"}

VARIABLES
  calibrated,   \* the tracker's calibrated_
  mode,         \* the arbiter's mode_
  estop,        \* the operator's e-stop
  latent,       \* latent_buf's hand targets, numbered; 0 before the first
  link,         \* ctrl_buf holds a sample
  hand_pc,
  was_calibrated,   \* was_calibrated
  fist_ticks,       \* t0 - calibrated_at, saturating at the delay
  hold_fist,        \* the tick's hold_fist
  arb_mode,         \* the tick's arb_mode
  hands,            \* the published command, and the mode it was chosen for
  cal_ticks         \* history: ticks begun since the last calibration engaged

envVars  == <<calibrated, mode, estop, latent, link>>
loopVars == <<hand_pc, was_calibrated, fist_ticks, hold_fist, arb_mode, hands>>
vars     == <<envVars, loopVars, cal_ticks>>

CalCap == kFistTicks + 1

Init ==
  /\ calibrated = FALSE
  /\ mode = "kNormal"
  /\ estop = FALSE
  /\ latent = NoTarget
  /\ link \in BOOLEAN
  /\ hand_pc = "calibration"
  /\ was_calibrated = FALSE
  /\ fist_ticks = 0
  /\ hold_fist = TRUE
  /\ arb_mode = "kNormal"
  /\ hands = [by |-> "none", target |-> NoTarget, mode |-> "kNormal"]
  /\ cal_ticks = 0

-------------------------------------------------------------------------------
\* The other threads, as the writer sees them.

\* The tracker engages, by a late body sample in a session too, or gives up.
\* Before an engagement B is held for a second, so the 100 Hz tick has read
\* that the last one ended.
Calibrate ==
  /\ was_calibrated => calibrated
  /\ calibrated' = ~calibrated
  /\ cal_ticks' = IF calibrated' THEN 0 ELSE cal_ticks
  /\ UNCHANGED <<mode, estop, latent, link, loopVars>>

\* One decision of the arbiter; a stream that claims has sent a target.
ArbiterSteps ==
  /\ \/ mode = "kNormal"     /\ mode' = "kVla" /\ latent # NoTarget
     \/ mode = "kNormal"     /\ mode' = "kTeleop" /\ calibrated
     \/ mode = "kTeleop"     /\ mode' = "kNormal" /\ ~calibrated
     \/ mode = "kVla"        /\ mode' = "kRecovering"
     \/ mode = "kRecovering" /\ mode' = "kNormal"
  /\ UNCHANGED <<calibrated, estop, latent, link, loopVars, cal_ticks>>

OnLatentAction ==
  /\ latent < MaxTargets
  /\ latent' = latent + 1
  /\ UNCHANGED <<calibrated, mode, estop, link, loopVars, cal_ticks>>

PressEStop ==
  /\ ~estop
  /\ estop' = TRUE
  /\ UNCHANGED <<calibrated, mode, latent, link, loopVars, cal_ticks>>

DropOrRestoreLink ==
  /\ link' = ~link
  /\ UNCHANGED <<calibrated, mode, estop, latent, loopVars, cal_ticks>>

-------------------------------------------------------------------------------
\* One tick.

\* Mutant: the delay counts from the first calibration.
FistTicksOnce == IF calibrated /\ fist_ticks < kFistTicks THEN fist_ticks + 1
                 ELSE fist_ticks

\* t0 - calibrated_at of this tick.
FistTicks == IF calibrated /\ ~was_calibrated THEN 0
             ELSE IF fist_ticks < kFistTicks THEN fist_ticks + 1
             ELSE fist_ticks

ReadCalibrated ==
  /\ hand_pc = "calibration"
  /\ fist_ticks' = FistTicks
  /\ was_calibrated' = calibrated
  /\ hold_fist' = (~calibrated \/ fist_ticks' < kFistTicks)
  /\ hand_pc' = "mode"
  /\ cal_ticks' = IF calibrated /\ cal_ticks < CalCap THEN cal_ticks + 1
                  ELSE cal_ticks
  /\ UNCHANGED <<envVars, arb_mode, hands>>

ReadMode ==
  /\ hand_pc = "mode"
  /\ arb_mode' = mode
  /\ hand_pc' = "estop"
  /\ UNCHANGED <<envVars, was_calibrated, fist_ticks, hold_fist, hands,
                 cal_ticks>>

Publish(source, target) ==
  /\ hands' = [by |-> source, target |-> target, mode |-> arb_mode]
  /\ hand_pc' = "calibration"
  /\ UNCHANGED <<envVars, was_calibrated, fist_ticks, hold_fist, arb_mode,
                 cal_ticks>>

\* Mutant: the e-stop is looked at while an operator is calibrated.
ReadEStopCalibrated ==
  /\ hand_pc = "estop"
  /\ IF estop /\ was_calibrated
       THEN Publish("stop", NoTarget)
       ELSE /\ hand_pc' = "latent"
            /\ UNCHANGED <<envVars, was_calibrated, fist_ticks, hold_fist,
                           arb_mode, hands, cal_ticks>>

ReadEStop ==
  /\ hand_pc = "estop"
  /\ IF estop
       THEN Publish("stop", NoTarget)
       ELSE /\ hand_pc' = "latent"
            /\ UNCHANGED <<envVars, was_calibrated, fist_ticks, hold_fist,
                           arb_mode, hands, cal_ticks>>

\* Mutants: the recovery lets go; the operator's teleop does not end it.
StreamHoldsSessionOnly == arb_mode = "kVla" /\ latent # NoTarget
StreamHoldsOn == latent # NoTarget

\* The stream's targets, with no staleness check.
StreamHolds == arb_mode \in StreamOwned /\ latent # NoTarget

ReadLatent ==
  /\ hand_pc = "latent"
  /\ IF StreamHolds THEN Publish("stream", latent)
     ELSE IF hold_fist THEN Publish("fist", NoTarget)
     ELSE /\ hand_pc' = "axes"
          /\ UNCHANGED <<envVars, was_calibrated, fist_ticks, hold_fist,
                         arb_mode, hands, cal_ticks>>

ReadAxes ==
  /\ hand_pc = "axes"
  /\ Publish(IF link THEN "tracked" ELSE "open", NoTarget)

HandTick == ReadCalibrated \/ ReadMode \/ ReadEStop \/ ReadLatent \/ ReadAxes

Next ==
  \/ HandTick
  \/ Calibrate \/ ArbiterSteps \/ OnLatentAction \/ PressEStop
  \/ DropOrRestoreLink

Spec     == Init /\ [][Next]_vars
FairSpec == Spec /\ WF_vars(HandTick)
-------------------------------------------------------------------------------
\* Type correctness of the hand writer's state.
TypeOK ==
  /\ {calibrated, estop, link, was_calibrated, hold_fist} \subseteq BOOLEAN
  /\ {mode, arb_mode} \subseteq Mode
  /\ latent \in 0..MaxTargets
  /\ hand_pc \in {"calibration", "mode", "estop", "latent", "axes"}
  /\ fist_ticks \in 0..kFistTicks
  /\ hands \in [by : Source, target : 0..MaxTargets, mode : Mode]
  /\ cal_ticks \in 0..CalCap

\* A grasp of the stream's session is let go only for the e-stop or once the
\* writer saw the origin again: the recovery hold keeps it.
GraspIsKept ==
  [][hands.by = "stream" /\ hands'.by \notin {"stream", "stop"}
       => hands'.mode \notin StreamOwned]_vars

\* The operator's axes move the hands only when the fist's delay has passed
\* since the calibration engaged, in every engagement anew.
FistFirst ==
  [][hands' # hands /\ hands'.by \in {"tracked", "open"}
       => cal_ticks > kFistTicks]_vars

\* A latched e-stop ends with both hands stopped for good.
EStopStopsHands == estop ~> [](hands.by = "stop")

\* Once the stream lost the robot for good, its targets let go of the hands.
StreamYields ==
  [](<>[](mode \notin StreamOwned) => <>(hands.by # "stream"))
===============================================================================
