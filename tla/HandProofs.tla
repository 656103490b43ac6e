------------------------------- MODULE HandProofs -------------------------------
(***************************************************************************)
(* The hand writer for every delay of the fist, with the other threads'    *)
(* steps between any two of its reads.                                     *)
(***************************************************************************)
EXTENDS HandCommandWriter, TLAPS

USE HandAssumption DEF HandAssumption, NoTarget, CalCap

\* A grasp came from a target, and no mode that keeps it is past its choice.
GraspInv ==
  hands.by = "stream" =>
    latent # NoTarget /\ (hand_pc = "axes" => arb_mode \notin StreamOwned)

\* An open fist has waited: while the writer and the tracker agree on the
\* engagement, the writer counts its ticks.
FistInv ==
  /\ hand_pc = "axes" => ~hold_fist
  /\ ~hold_fist => was_calibrated /\ cal_ticks > kFistTicks
  /\ was_calibrated /\ calibrated => cal_ticks > fist_ticks

HandInv == TypeOK /\ GraspInv /\ FistInv

LEMMA HandStarts == Init => HandInv
<1>. SUFFICES ASSUME Init PROVE HandInv
  OBVIOUS
<1>1. TypeOK
  <2>1. hands \in [by : Source, target : 0..MaxTargets, mode : Mode]
    BY DEF Init, Source, Mode
  <2>2. {calibrated, estop, link, was_calibrated, hold_fist} \subseteq BOOLEAN
    BY DEF Init
  <2>. QED
    BY <2>1, <2>2 DEF Init, TypeOK, Mode
<1>2. GraspInv
  BY DEF Init, GraspInv
<1>3. FistInv
  BY DEF Init, FistInv
<1>. QED
  BY <1>1, <1>2, <1>3 DEF HandInv

\* What a command takes over from the tick.
LEMMA PublishKeepsInv ==
  ASSUME HandInv, NEW source \in Source, NEW target \in 0..MaxTargets,
         Publish(source, target), source = "stream" => latent # NoTarget
  PROVE  HandInv'
<1>0. TypeOK /\ GraspInv /\ FistInv
  BY DEF HandInv
<1>1. hands' \in [by : Source, target : 0..MaxTargets, mode : Mode]
  BY <1>0 DEF Publish, TypeOK
<1>2. TypeOK'
  BY <1>0, <1>1 DEF Publish, TypeOK, envVars
<1>3. GraspInv' /\ FistInv'
  BY <1>0 DEF Publish, GraspInv, FistInv, envVars
<1>. QED
  BY <1>2, <1>3 DEF HandInv

LEMMA HandStep == HandInv /\ [Next]_vars => HandInv'
<1>. SUFFICES ASSUME HandInv, [Next]_vars PROVE HandInv'
  OBVIOUS
<1>0. TypeOK /\ GraspInv /\ FistInv
  BY DEF HandInv
<1>. USE DEF envVars, loopVars
<1>1. CASE ReadCalibrated
  <2>0. /\ fist_ticks \in 0..kFistTicks /\ cal_ticks \in 0..kFistTicks + 1
        /\ calibrated \in BOOLEAN /\ was_calibrated \in BOOLEAN
    BY <1>0 DEF TypeOK
  <2>1. /\ hand_pc' = "mode" /\ was_calibrated' = calibrated
        /\ hold_fist' = (~calibrated \/ fist_ticks' < kFistTicks)
        /\ UNCHANGED <<calibrated, mode, estop, latent, link, arb_mode, hands>>
    BY <1>1 DEF ReadCalibrated
  <2>2. fist_ticks' \in 0..kFistTicks /\ cal_ticks' \in 0..kFistTicks + 1
    BY <1>1, <2>0 DEF ReadCalibrated, FistTicks
  <2>3. calibrated => cal_ticks' > fist_ticks'
    BY <1>1, <1>0, <2>0 DEF ReadCalibrated, FistTicks, FistInv
  <2>4. TypeOK'
    BY <1>0, <2>0, <2>1, <2>2 DEF TypeOK
  <2>5. GraspInv'
    BY <1>0, <2>1 DEF GraspInv
  <2>6. FistInv'
    <3>1. ASSUME ~hold_fist' PROVE was_calibrated' /\ cal_ticks' > kFistTicks
      <4>1. calibrated /\ ~(fist_ticks' < kFistTicks)
        BY <2>1, <3>1
      <4>. QED
        BY <4>1, <2>1, <2>2, <2>3
    <3>2. ASSUME was_calibrated', calibrated' PROVE cal_ticks' > fist_ticks'
      BY <2>1, <2>3, <3>2
    <3>. QED
      BY <2>1, <3>1, <3>2 DEF FistInv
  <2>. QED
    BY <2>4, <2>5, <2>6 DEF HandInv
<1>2. CASE ReadMode
  BY <1>0, <1>2 DEF ReadMode, HandInv, TypeOK, GraspInv, FistInv
<1>3. CASE ReadEStop
  <2>1. CASE estop
    BY <1>3, <2>1, PublishKeepsInv DEF ReadEStop, Source
  <2>2. CASE ~estop
    BY <1>0, <1>3, <2>2 DEF ReadEStop, HandInv, TypeOK, GraspInv, FistInv
  <2>. QED
    BY <2>1, <2>2
<1>4. CASE ReadLatent
  <2>0. latent \in 0..MaxTargets
    BY <1>0 DEF TypeOK
  <2>1. CASE StreamHolds
    BY <1>4, <2>0, <2>1, PublishKeepsInv DEF ReadLatent, Source, StreamHolds
  <2>2. CASE ~StreamHolds /\ hold_fist
    BY <1>4, <2>2, PublishKeepsInv DEF ReadLatent, Source
  <2>3. CASE ~StreamHolds /\ ~hold_fist
    BY <1>0, <1>4, <2>3
       DEF ReadLatent, StreamHolds, HandInv, TypeOK, GraspInv, FistInv
  <2>. QED
    BY <2>1, <2>2, <2>3
<1>5. CASE ReadAxes
  BY <1>5, PublishKeepsInv DEF ReadAxes, Source
<1>6. CASE Calibrate
  <2>1. TypeOK'
    BY <1>0, <1>6 DEF Calibrate, TypeOK
  <2>2. GraspInv'
    BY <1>0, <1>6 DEF Calibrate, GraspInv
  <2>3. FistInv'
    BY <1>0, <1>6 DEF Calibrate, FistInv, TypeOK
  <2>. QED
    BY <2>1, <2>2, <2>3 DEF HandInv
<1>7. CASE ArbiterSteps
  BY <1>0, <1>7 DEF ArbiterSteps, HandInv, TypeOK, GraspInv, FistInv, Mode
<1>8. CASE OnLatentAction
  BY <1>0, <1>8 DEF OnLatentAction, HandInv, TypeOK, GraspInv, FistInv
<1>9. CASE PressEStop
  BY <1>0, <1>9 DEF PressEStop, HandInv, TypeOK, GraspInv, FistInv
<1>10. CASE DropOrRestoreLink
  BY <1>0, <1>10 DEF DropOrRestoreLink, HandInv, TypeOK, GraspInv, FistInv
<1>11. CASE UNCHANGED vars
  BY <1>0, <1>11 DEF vars, HandInv, TypeOK, GraspInv, FistInv
<1>. QED
  BY <1>1, <1>2, <1>3, <1>4, <1>5, <1>6, <1>7, <1>8, <1>9, <1>10, <1>11
     DEF Next, HandTick

LEMMA HandAlways == Spec => []HandInv
BY HandStarts, HandStep, PTL DEF Spec

\* Only the three publishing steps write the hands.
LEMMA HandsChange ==
  ASSUME Next, hands' # hands
  PROVE  ReadEStop \/ ReadLatent \/ ReadAxes
BY DEF Next, HandTick, ReadCalibrated, ReadMode, Calibrate, ArbiterSteps,
       OnLatentAction, PressEStop, DropOrRestoreLink, loopVars

-------------------------------------------------------------------------------
(* The hand writer keeps its types, for every delay and any targets.       *)
THEOREM HandTypes == Spec => []TypeOK
<1>1. HandInv => TypeOK
  BY DEF HandInv
<1>. QED
  BY <1>1, HandAlways, PTL

(* A grasp of the stream's session outlasts its recovery: only the e-stop, *)
(* or the origin's mode read by the writer, lets go.                       *)
THEOREM GraspsAreKept == Spec => GraspIsKept
<1>1. HandInv /\ [Next]_vars =>
        [hands.by = "stream" /\ hands'.by \notin {"stream", "stop"}
           => hands'.mode \notin StreamOwned]_vars
  <2>. SUFFICES ASSUME HandInv, Next, hands.by = "stream",
                       hands'.by \notin {"stream", "stop"}
                PROVE  hands'.mode \notin StreamOwned
    OBVIOUS
  <2>1. latent # NoTarget /\ (hand_pc = "axes" => arb_mode \notin StreamOwned)
    BY DEF HandInv, GraspInv
  <2>2. hands' # hands
    OBVIOUS
  <2>3. CASE ReadEStop
    BY <2>2, <2>3 DEF ReadEStop, Publish
  <2>4. CASE ReadLatent
    <3>1. ~StreamHolds
      BY <2>4 DEF ReadLatent, Publish
    <3>2. arb_mode \notin StreamOwned
      BY <2>1, <3>1 DEF StreamHolds
    <3>. QED
      BY <2>2, <2>4, <3>1, <3>2 DEF ReadLatent, Publish
  <2>5. CASE ReadAxes
    BY <2>1, <2>5 DEF ReadAxes, Publish
  <2>. QED
    BY <2>2, <2>3, <2>4, <2>5, HandsChange
<1>. QED
  BY <1>1, HandAlways, PTL DEF Spec, GraspIsKept

(* The operator's axes move the hands only after the fist's delay, counted *)
(* anew by every engagement of the calibration, for every delay.           *)
THEOREM FistComesFirst == Spec => FistFirst
<1>1. HandInv /\ [Next]_vars =>
        [hands' # hands /\ hands'.by \in {"tracked", "open"}
           => cal_ticks > kFistTicks]_vars
  <2>. SUFFICES ASSUME HandInv, Next, hands' # hands,
                       hands'.by \in {"tracked", "open"}
                PROVE  cal_ticks > kFistTicks
    OBVIOUS
  <2>1. CASE ReadEStop
    BY <2>1 DEF ReadEStop, Publish
  <2>2. CASE ReadLatent
    BY <2>2 DEF ReadLatent, Publish
  <2>3. CASE ReadAxes
    BY <2>3 DEF ReadAxes, HandInv, FistInv
  <2>. QED
    BY <2>1, <2>2, <2>3, HandsChange
<1>. QED
  BY <1>1, HandAlways, PTL DEF Spec, FistFirst

\* Stopped hands stand behind a latched e-stop, and no tick is past reading it.
StopInv == hands.by = "stop" => estop /\ hand_pc \notin {"latent", "axes"}

LEMMA StopStep ==
  ASSUME TypeOK, StopInv, [Next]_vars
  PROVE  StopInv' /\ (hands.by = "stop" => hands'.by = "stop")
<1>. USE DEF StopInv, envVars, loopVars
<1>0. hands.by = "stop" \/ hands.by # "stop"
  OBVIOUS
<1>1. CASE ReadEStop
  <2>1. CASE estop
    BY <1>1, <2>1 DEF ReadEStop, Publish
  <2>2. CASE ~estop
    BY <1>1, <2>2 DEF ReadEStop
  <2>. QED
    BY <2>1, <2>2
<1>2. CASE ReadLatent \/ ReadAxes
  <2>1. hands.by # "stop"
    BY <1>2 DEF ReadLatent, ReadAxes
  <2>2. hands' = hands \/ hands'.by # "stop"
    BY <1>2 DEF ReadLatent, ReadAxes, Publish
  <2>. QED
    BY <2>1, <2>2
<1>3. CASE ReadCalibrated \/ ReadMode
  BY <1>3 DEF ReadCalibrated, ReadMode
<1>4. CASE Calibrate \/ ArbiterSteps \/ OnLatentAction \/ PressEStop
           \/ DropOrRestoreLink \/ UNCHANGED vars
  <2>1. hands' = hands /\ hand_pc' = hand_pc /\ (estop => estop')
    BY <1>4 DEF Calibrate, ArbiterSteps, OnLatentAction, PressEStop,
                DropOrRestoreLink, vars
  <2>. QED
    BY <2>1
<1>. QED
  BY <1>1, <1>2, <1>3, <1>4 DEF Next, HandTick

(* Stopped hands stay stopped, whatever the other threads do between two   *)
(* reads: the safety half of EStopStopsHands.                              *)
THEOREM StoppedHandsStay ==
  Spec => [][hands.by = "stop" => hands'.by = "stop"]_vars
<1>1. Init => StopInv
  BY DEF Init, StopInv
<1>2. TypeOK /\ StopInv /\ [Next]_vars
        => StopInv' /\ [hands.by = "stop" => hands'.by = "stop"]_vars
  BY StopStep
<1>3. HandInv => TypeOK
  BY DEF HandInv
<1>. QED
  BY <1>1, <1>2, <1>3, HandAlways, PTL DEF Spec
===============================================================================
