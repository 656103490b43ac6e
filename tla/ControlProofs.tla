----------------------------- MODULE ControlProofs -----------------------------
(***************************************************************************)
(* Theorems about the composed control process, for every value of the     *)
(* constants, with the proofs that TLAPS checks.                           *)
(***************************************************************************)
EXTENDS ControlInvariants, TLAPS

-------------------------------------------------------------------------------
\* Type correctness, component by component.

LEMMA InitType == Init => TypeOK
<1> SUFFICES ASSUME Init PROVE TypeOK
  OBVIOUS
<1>1. ArbiterTypeOK
  BY BlendTicksAssumption
  DEF Init, ArbiterInit, ArbiterTypeOK, Mode, Token, Sources
<1>2. TrackerTypeOK
  <2>1. /\ calib_hold_ticks \in 0..kCalibHoldTicks
        /\ calib_hold_ticks < kCalibHoldTicks
    BY TrackerAssumption DEF Init, TrackerInit
  <2> QED
    BY Zenon, <2>1 DEF Init, TrackerInit, TrackerTypeOK, TrackerPc
<1>3. PlannerTypeOK
  BY DEF Init, PlannerInit, PlannerTypeOK, PlannerPc, Motion
<1>4. ReaderTypeOK
  BY DEF Init, ReaderInit, ReaderTypeOK
<1>5. VlaTypeOK
  BY DEF Init, VlaInit, VlaTypeOK, AgeClass
<1>6. InputTypeOK
  BY DEF Init, InputInit, InputTypeOK
<1>7. ControllerTypeOK
  <2>1. /\ 0 \in 0..kInitTicks /\ 0 < kInitTicks
        /\ 0 \in 0..MissingCap
        /\ 0 \in 0..1
        /\ 0 \in Nat
    BY ControllerAssumption DEF MissingCap
  <2> QED
    BY Zenon, <2>1
    DEF Init, ControllerInit, ControllerTypeOK, ControllerPc, State, Command,
        Mode
<1>8. InferenceTypeOK
  BY FaultsAssumption DEF Init, InferenceInit, InferenceTypeOK
<1> QED
  BY <1>1, <1>2, <1>3, <1>4, <1>5, <1>6, <1>7, <1>8 DEF TypeOK

LEMMA BlendType ==
  ASSUME NEW from \in Token, NEW to \in Token, NEW part, NEW whole
  PROVE  Blend(from, to, part, whole) \in Token
  BY DEF Blend, Token

LEMMA CrossfadeType ==
  ASSUME ArbiterTypeOK, NEW target \in Token,
         NEW left \in 0..kHandoffBlendTicks, CrossfadeInto(target, left)
  PROVE  ArbiterTypeOK'
<1>1. held_token' \in Token
  BY BlendType DEF CrossfadeInto, Crossfaded, ArbiterTypeOK
<1> QED
  BY BlendTicksAssumption, <1>1 DEF CrossfadeInto, ArbiterTypeOK

LEMMA BlendToStandingType ==
  ASSUME ArbiterTypeOK, BlendToStanding
  PROVE  ArbiterTypeOK'
<1>1. held_token' \in Token
  BY BlendType DEF BlendToStanding, ArbiterTypeOK, Token, Sources
<1> QED
  BY BlendTicksAssumption, <1>1 DEF BlendToStanding, ArbiterTypeOK

LEMMA StepModeType ==
  ASSUME ArbiterTypeOK, NEW next \in Mode, StepMode(next)
  PROVE  ArbiterTypeOK'
  BY BlendTicksAssumption DEF StepMode, ArbiterTypeOK

LEMMA TrackerTickType ==
  ASSUME TrackerTypeOK, TrackerTick
  PROVE  TrackerTypeOK'
<1>1. CASE TakeReset
  BY Zenon, <1>1 DEF TakeReset, TrackerTypeOK, TrackerPc
<1>2. CASE ClearVr3Point
  BY Zenon, <1>2 DEF ClearVr3Point, TrackerTypeOK, TrackerPc
<1>3. CASE CheckCalibrationGesture
  <2>1. tracker_pc' \in TrackerPc /\ b_held' \in BOOLEAN
        /\ body' \in {"none", "processed", "new"}
        /\ reset_request' \in BOOLEAN /\ calibrate_request' \in BOOLEAN
        /\ calibrated' \in BOOLEAN /\ latched' \in BOOLEAN
        /\ vr3point' \in BOOLEAN
    BY Zenon, <1>3 DEF CheckCalibrationGesture, TrackerTypeOK, TrackerPc
  <2>2. /\ calib_hold_ticks' \in 0..kCalibHoldTicks
        /\ latched' \/ calib_hold_ticks' < kCalibHoldTicks
    <3>1. CASE GestureIgnored
      BY <1>3, <3>1, TrackerAssumption DEF CheckCalibrationGesture
    <3>2. CASE ~GestureIgnored /\ latched
      <4>1. latched' /\ calib_hold_ticks' = calib_hold_ticks
        BY Zenon, <1>3, <3>2 DEF CheckCalibrationGesture
      <4> QED
        BY <4>1 DEF TrackerTypeOK
    <3>3. CASE ~GestureIgnored /\ ~latched
      <4>1. calib_hold_ticks' = calib_hold_ticks + 1
        BY Zenon, <1>3, <3>3 DEF CheckCalibrationGesture
      <4>2. calib_hold_ticks < kCalibHoldTicks
            /\ calib_hold_ticks \in 0..kCalibHoldTicks
        BY Zenon, <3>3 DEF TrackerTypeOK
      <4>3. latched' \/ ~(calib_hold_ticks + 1 >= kCalibHoldTicks)
        BY Zenon, <1>3, <3>3 DEF CheckCalibrationGesture, GestureFires
      <4> QED
        BY <4>1, <4>2, <4>3, TrackerAssumption
    <3> QED
      BY <3>1, <3>2, <3>3
  <2> QED
    BY Zenon, <2>1, <2>2 DEF TrackerTypeOK
<1>4. CASE ProcessBody
  BY Zenon, <1>4 DEF ProcessBody, TrackerTypeOK, TrackerPc
<1>5. CASE PublishVr3Point
  BY Zenon, <1>5 DEF PublishVr3Point, TrackerTypeOK, TrackerPc
<1> QED
  BY <1>1, <1>2, <1>3, <1>4, <1>5 DEF TrackerTick

LEMMA TrackerInputType ==
  ASSUME TrackerTypeOK, TrackerEnvironment \/ ResetCalibration
  PROVE  TrackerTypeOK'
  BY Zenon
  DEF TrackerEnvironment, HoldOrReleaseB, BodySample, ResetCalibration,
      TrackerTypeOK

LEMMA PlannerTickType ==
  ASSUME PlannerTypeOK, InferenceTypeOK, PlannerTick
  PROVE  PlannerTypeOK' /\ InferenceTypeOK'
<1> USE FaultsAssumption DEF PlannerTypeOK, InferenceTypeOK, PlannerPc, Motion
<1>1. CASE LoadReinitRequest
  BY <1>1 DEF LoadReinitRequest
<1>2. CASE InitializeOnce
  BY <1>2 DEF InitializeOnce, InferOk
<1>3. CASE InitializeFails
  BY <1>3 DEF InitializeFails, InferFails
<1>4. CASE AcknowledgeReinit
  BY <1>4 DEF AcknowledgeReinit
<1>5. CASE KeepPlan
  BY <1>5 DEF KeepPlan
<1>6. CASE Replan
  BY <1>6 DEF Replan
<1>7. CASE PublishPlan
  BY <1>7 DEF PublishPlan, InferOk
<1>8. CASE PublishFails
  BY <1>8 DEF PublishFails, InferFails
<1> QED
  BY <1>1, <1>2, <1>3, <1>4, <1>5, <1>6, <1>7, <1>8 DEF PlannerTick

LEMMA UnchangedType ==
  /\ ArbiterTypeOK /\ UNCHANGED arbiterVars => ArbiterTypeOK'
  /\ TrackerTypeOK /\ UNCHANGED trackerVars => TrackerTypeOK'
  /\ PlannerTypeOK /\ UNCHANGED plannerVars => PlannerTypeOK'
  /\ ReaderTypeOK /\ UNCHANGED readerVars => ReaderTypeOK'
  /\ VlaTypeOK /\ UNCHANGED vlaVars => VlaTypeOK'
  /\ InputTypeOK /\ UNCHANGED inputVars => InputTypeOK'
  /\ ControllerTypeOK /\ UNCHANGED controllerVars => ControllerTypeOK'
  /\ InferenceTypeOK /\ UNCHANGED faults => InferenceTypeOK'
<1>1. ArbiterTypeOK /\ UNCHANGED arbiterVars => ArbiterTypeOK'
  BY DEF arbiterVars, ArbiterTypeOK
<1>2. TrackerTypeOK /\ UNCHANGED trackerVars => TrackerTypeOK'
  BY DEF trackerVars, TrackerTypeOK
<1>3. PlannerTypeOK /\ UNCHANGED plannerVars => PlannerTypeOK'
  BY DEF plannerVars, PlannerTypeOK
<1>4. ReaderTypeOK /\ UNCHANGED readerVars => ReaderTypeOK'
  BY DEF readerVars, ReaderTypeOK
<1>5. VlaTypeOK /\ UNCHANGED vlaVars => VlaTypeOK'
  BY DEF vlaVars, VlaTypeOK
<1>6. InputTypeOK /\ UNCHANGED inputVars => InputTypeOK'
  BY DEF inputVars, InputTypeOK
<1>7. ControllerTypeOK /\ UNCHANGED controllerVars => ControllerTypeOK'
  BY DEF controllerVars, ControllerTypeOK
<1>8. InferenceTypeOK /\ UNCHANGED faults => InferenceTypeOK'
  BY DEF InferenceTypeOK
<1> QED
  BY <1>1, <1>2, <1>3, <1>4, <1>5, <1>6, <1>7, <1>8

-------------------------------------------------------------------------------
\* The control loop's actions keep the types of everything they touch.

LEMMA GateType ==
  ASSUME TypeOK, EStopTick \/ LossTick \/ PassGates \/ RequestLossReseed
  PROVE  TypeOK'
<1> USE UnchangedType DEF TypeOK
<1>1. CASE EStopTick
  <2>1. ControllerTypeOK'
    BY Zenon, <1>1 DEF EStopTick, ControllerTypeOK, ControllerPc, State, Command
  <2> QED
    BY Zenon, <1>1, <2>1 DEF EStopTick
<1>2. CASE LossTick
  <2>1. state_missing_ticks' \in 0..MissingCap
    BY <1>2, ControllerAssumption DEF LossTick, ControllerTypeOK, MissingCap
  <2>2. ControllerTypeOK'
    BY Zenon, <1>2, <2>1 DEF LossTick, LossCommand, ControllerTypeOK, Command
  <2> QED
    BY Zenon, <1>2, <2>2 DEF LossTick, LossCommand
<1>3. CASE PassGates
  <2>1. 0 \in 0..MissingCap
    BY ControllerAssumption DEF MissingCap
  <2>2. ControllerTypeOK'
    BY Zenon, <1>3, <2>1 DEF PassGates, Goto, ControllerTypeOK, ControllerPc
  <2>3. PlannerTypeOK'
    BY Zenon, <1>3 DEF PassGates, ResetPlayback, PlannerTypeOK
  <2> QED
    BY Zenon, <1>3, <2>2, <2>3 DEF PassGates
<1>4. CASE RequestLossReseed
  <2>1. reinit_requested' \in Nat
    BY <1>4 DEF RequestLossReseed, RequestReinit, PlannerTypeOK
  <2>2. ControllerTypeOK'
    BY Zenon, <1>4, <2>1
    DEF RequestLossReseed, Goto, ControllerTypeOK, ControllerPc
  <2>3. PlannerTypeOK'
    BY Zenon, <1>4, <2>1 DEF RequestLossReseed, RequestReinit, PlannerTypeOK
  <2>4. InputTypeOK'
    BY Zenon, <1>4 DEF RequestLossReseed, Disarm, InputTypeOK
  <2> QED
    BY Zenon, <1>4, <2>2, <2>3, <2>4 DEF RequestLossReseed
<1> QED
  BY <1>1, <1>2, <1>3, <1>4

LEMMA StateTickType ==
  ASSUME TypeOK, InitTick \/ WaitForControlTick \/ GatherState
  PROVE  TypeOK'
<1> USE UnchangedType DEF TypeOK
<1>1. CASE InitTick
  <2>1. /\ init_ticks' \in 0..kInitTicks
        /\ state' = "INIT" => init_ticks' < kInitTicks
    BY <1>1, ControllerAssumption DEF InitTick, ControllerTypeOK
  <2>2. ControllerTypeOK'
    BY Zenon, <1>1, <2>1
    DEF InitTick, Goto, ControllerTypeOK, ControllerPc, State, Command
  <2> QED
    BY Zenon, <1>1, <2>2 DEF InitTick
<1>2. CASE WaitForControlTick
  <2>1. ControllerTypeOK'
    BY Zenon, <1>2
    DEF WaitForControlTick, Goto, ControllerTypeOK, ControllerPc, State
  <2> QED
    BY Zenon, <1>2, <2>1 DEF WaitForControlTick
<1>3. CASE GatherState
  <2>1. 0 \in Nat
    OBVIOUS
  <2>2. ControllerTypeOK'
    BY Zenon, <1>3, <2>1 DEF GatherState, Goto, ControllerTypeOK, ControllerPc
  <2> QED
    BY Zenon, <1>3, <2>2 DEF GatherState
<1> QED
  BY <1>1, <1>2, <1>3

LEMMA DecideType ==
  ASSUME NEW m \in Mode, NEW f, NEW a, NEW c, NEW r
  PROVE  Decide(m, f, a, c, r) \in Mode
  BY DEF Decide, Mode

LEMMA OwnerType ==
  ASSUME TypeOK, DecideOwner \/ StoreOwner \/ EnterVla \/ ReturnToOrigin
  PROVE  TypeOK'
<1> USE UnchangedType DEF TypeOK
<1>1. CASE DecideOwner
  <2>1. next_mode' \in Mode
    BY <1>1, DecideType DEF DecideOwner, ArbiterTypeOK
  <2>2. ControllerTypeOK'
    BY Zenon, <1>1, <2>1 DEF DecideOwner, Goto, ControllerTypeOK, ControllerPc
  <2> QED
    BY Zenon, <1>1, <2>2 DEF DecideOwner
<1>2. CASE StoreOwner
  <2>1. ArbiterTypeOK'
    BY <1>2, StepModeType DEF StoreOwner, ControllerTypeOK
  <2>2. pc' \in ControllerPc
    BY <1>2 DEF StoreOwner, ControllerPc
  <2>3. ControllerTypeOK'
    BY Zenon, <1>2, <2>2 DEF StoreOwner, ControllerTypeOK
  <2> QED
    BY Zenon, <1>2, <2>1, <2>3 DEF StoreOwner
<1>3. CASE EnterVla
  <2>1. TrackerTypeOK'
    BY Zenon, <1>3, TrackerInputType DEF EnterVla
  <2>2. ControllerTypeOK'
    BY Zenon, <1>3 DEF EnterVla, Goto, ControllerTypeOK, ControllerPc
  <2> QED
    BY Zenon, <1>3, <2>1, <2>2 DEF EnterVla
<1>4. CASE ReturnToOrigin
  <2>1. PlannerTypeOK'
    BY Zenon, <1>4 DEF ReturnToOrigin, ResetPlayback, PlannerTypeOK
  <2>2. InputTypeOK'
    BY Zenon, <1>4 DEF ReturnToOrigin, Disarm, InputTypeOK
  <2>3. ControllerTypeOK'
    BY Zenon, <1>4 DEF ReturnToOrigin, Goto, ControllerTypeOK, ControllerPc
  <2> QED
    BY Zenon, <1>4, <2>1, <2>2, <2>3 DEF ReturnToOrigin
<1> QED
  BY <1>1, <1>2, <1>3, <1>4

\* What is decoded is the token the arbiter now holds.
LEMMA DecodesHeld ==
  /\ VlaTick \/ RecoveryTick => Decode(held_token')
  /\ CrossfadeInto(EncoderToken, HandoffArmed)
     /\ Decode(Crossfaded(EncoderToken, HandoffArmed))
       => Decode(held_token')
  BY Zenon DEF VlaTick, RecoveryTick, CrossfadeInto, Decode

\* A decode commands the held token or nothing new.
LEMMA DecodeType ==
  ASSUME ControllerTypeOK, ArbiterTypeOK', InferenceTypeOK, Decode(held_token')
  PROVE  motor_command' \in Command /\ token_seq' \in 0..1 /\ InferenceTypeOK'
<1>1. motor_command' \in Command
  BY DEF Decode, Command, ControllerTypeOK, ArbiterTypeOK
<1>2. token_seq' \in 0..1
  BY DEF Decode, ControllerTypeOK
<1>3. InferenceTypeOK'
  BY FaultsAssumption DEF Decode, InferOk, InferFails, InferenceTypeOK
<1> QED
  BY <1>1, <1>2, <1>3

LEMMA TokenType ==
  ASSUME TypeOK, VlaTick \/ RecoveryTick \/ NothingToTrack \/ TrackMotion
  PROVE  TypeOK'
<1> USE UnchangedType DEF TypeOK
<1>1. CASE VlaTick
  <2>1. ArbiterTypeOK'
    BY <1>1, CrossfadeType DEF VlaTick, Token, Sources, ArbiterTypeOK
  <2>2. motor_command' \in Command /\ token_seq' \in 0..1 /\ InferenceTypeOK'
    BY Zenon, <1>1, <2>1, DecodeType, DecodesHeld DEF VlaTick
  <2>3. ControllerTypeOK'
    BY Zenon, <1>1, <2>2 DEF VlaTick, Goto, ControllerTypeOK, ControllerPc
  <2> QED
    BY Zenon, <1>1, <2>1, <2>2, <2>3 DEF VlaTick
<1>2. CASE RecoveryTick
  <2>1. ArbiterTypeOK'
    BY Zenon, <1>2, BlendToStandingType DEF RecoveryTick
  <2>2. motor_command' \in Command /\ token_seq' \in 0..1 /\ InferenceTypeOK'
    BY Zenon, <1>2, <2>1, DecodeType, DecodesHeld DEF RecoveryTick
  <2>3. reinit_requested + 1 \in Nat
    BY DEF PlannerTypeOK
  <2>4. ControllerTypeOK'
    BY Zenon, <1>2, <2>2, <2>3
    DEF RecoveryTick, RequestReinit, Goto, ControllerTypeOK, ControllerPc
  <2>5. PlannerTypeOK'
    BY Zenon, <1>2, <2>3 DEF RecoveryTick, RequestReinit, PlannerTypeOK,
       plannerVars
  <2> QED
    BY Zenon, <1>2, <2>1, <2>2, <2>4, <2>5 DEF RecoveryTick
<1>3. CASE NothingToTrack
  <2>1. ControllerTypeOK'
    BY Zenon, <1>3 DEF NothingToTrack, Goto, ControllerTypeOK, ControllerPc
  <2> QED
    BY Zenon, <1>3, <2>1 DEF NothingToTrack
<1>4. CASE TrackMotion
  <2>1. HandoffArmed \in 0..kHandoffBlendTicks
    BY BlendTicksAssumption DEF HandoffArmed, ArbiterTypeOK
  <2>2. EncoderToken \in Token
    BY DEF EncoderToken, Token, Sources
  <2>3. /\ ArbiterTypeOK' /\ InferenceTypeOK'
        /\ motor_command' \in Command /\ token_seq' \in 0..1
        /\ pc' \in ControllerPc
    <3>1. CASE CrossfadeInto(EncoderToken, HandoffArmed) /\ Decode(held_token')
                /\ pc' = IF faults' = faults THEN "advance" ELSE "gate"
      <4>1. ArbiterTypeOK'
        BY Zenon, <3>1, <2>1, <2>2, CrossfadeType
      <4>2. pc' \in ControllerPc
        BY <3>1 DEF ControllerPc
      <4> QED
        BY Zenon, <3>1, <4>1, <4>2, DecodeType
    <3>2. CASE /\ InferFails /\ handoff_blend_ticks' = HandoffArmed
               /\ Goto("gate")
               /\ UNCHANGED <<mode, held_token, recovery_blend_tick,
                              motor_command, token_seq>>
      <4>1. InferenceTypeOK'
        BY <3>2, FaultsAssumption DEF InferFails, InferenceTypeOK
      <4>2. ArbiterTypeOK' /\ pc' \in ControllerPc
        BY Zenon, <3>2, <2>1 DEF ArbiterTypeOK, Goto, ControllerPc
      <4> QED
        BY Zenon, <3>2, <4>1, <4>2 DEF ControllerTypeOK
    <3> QED
      BY Zenon, <1>4, <3>1, <3>2, DecodesHeld DEF TrackMotion, EncoderFails
  <2>4. ControllerTypeOK'
    <3>1. last_vr3_present' \in BOOLEAN
      BY Zenon, <1>4 DEF TrackMotion, EncoderFails, TrackerTypeOK
    <3> QED
      BY Zenon, <1>4, <2>3, <3>1 DEF TrackMotion, EncoderFails, ControllerTypeOK
  <2> QED
    BY Zenon, <1>4, <2>3, <2>4 DEF TrackMotion, EncoderFails
<1> QED
  BY <1>1, <1>2, <1>3, <1>4

LEMMA AdvanceType ==
  ASSUME TypeOK, AdvancePlayback
  PROVE  TypeOK'
<1> USE UnchangedType DEF TypeOK
<1>1. playback' \in Motion \union {NoMotion}
  BY DEF AdvancePlayback, BlendMotion, PlannerTypeOK
<1>2. PlannerTypeOK'
  BY Zenon, <1>1 DEF AdvancePlayback, PlannerTypeOK
<1>3. ControllerTypeOK'
  BY Zenon DEF AdvancePlayback, Goto, ControllerTypeOK, ControllerPc
<1> QED
  BY Zenon, <1>2, <1>3 DEF AdvancePlayback

\* One step of any actor keeps the type invariant.
LEMMA NextType ==
  ASSUME TypeOK, [Next]_vars
  PROVE  TypeOK'
<1> USE UnchangedType DEF TypeOK
<1>1. CASE ControlTick
  BY <1>1, GateType, StateTickType, OwnerType, TokenType, AdvanceType
  DEF ControlTick
<1>2. CASE TrackerThread
  BY Zenon, <1>2, TrackerTickType DEF TrackerThread
<1>3. CASE PlannerThread
  BY Zenon, <1>3, PlannerTickType DEF PlannerThread
<1>4. CASE Operator
  <2>1. CASE TrackerEnvironment /\ UNCHANGED inputVars
             /\ UNCHANGED <<arbiterVars, plannerVars, readerVars, vlaVars,
                            controllerVars, faults>>
    BY Zenon, <2>1, TrackerInputType
  <2>2. CASE (PressEStop \/ SelectMode \/ StartControl)
             /\ UNCHANGED trackerVars
             /\ UNCHANGED <<arbiterVars, plannerVars, readerVars, vlaVars,
                            controllerVars, faults>>
    <3>1. InputTypeOK'
      BY Zenon, <2>2 DEF PressEStop, SelectMode, StartControl, InputTypeOK
    <3> QED
      BY Zenon, <2>2, <3>1
  <2> QED
    BY Zenon, <1>4, <2>1, <2>2 DEF Operator
<1>5. CASE Robot
  <2>1. ReaderTypeOK'
    <3>1. losses' \in Nat
      BY <1>5 DEF Robot, WatchdogClears, OnLowState, ReaderTypeOK
    <3>2. \A fast \in Speeds : fast \in BOOLEAN
      BY SpeedsAssumption
    <3> QED
      BY Zenon, <1>5, <3>1, <3>2
      DEF Robot, WatchdogClears, OnLowState, ReaderTypeOK
  <2> QED
    BY Zenon, <1>5, <2>1 DEF Robot
<1>6. CASE Stream
  <2>1. VlaTypeOK'
    BY <1>6 DEF Stream, OnLatentAction, TokenAges, VlaTypeOK, AgeClass
  <2> QED
    BY Zenon, <1>6, <2>1 DEF Stream
<1>7. CASE UNCHANGED vars
  BY Zenon, <1>7 DEF vars
<1> QED
  BY Zenon, <1>1, <1>2, <1>3, <1>4, <1>5, <1>6, <1>7 DEF Next

\* Every thread keeps every variable in its type: the counters within their
\* limits, the tickets natural numbers.
THEOREM TypeCorrect == Spec => []TypeOK
  BY InitType, NextType, PTL DEF Spec

-------------------------------------------------------------------------------
\* Damping is commanded after an e-stop only.

LEMMA TokenIsNoDamping == "Damping" \notin Token
  BY DEF Token, Sources

LEMMA EStopStep ==
  ASSUME TypeOK, TypeOK', EStopInv, [Next]_vars
  PROVE  EStopInv'
<1> USE DEF EStopInv, DampingIsEStop
<1>1. ASSUME ControlTick PROVE EStopInv'
  <2>1. CASE EStopTick
    BY Zenon, <2>1 DEF EStopTick, inputVars
  <2>2. CASE LossTick
    BY Zenon, <2>2 DEF LossTick, LossCommand, inputVars
  <2>3. CASE PassGates
    BY Zenon, <2>3 DEF PassGates, inputVars, Goto
  <2>4. CASE RequestLossReseed
    BY Zenon, <2>4 DEF RequestLossReseed, Disarm
  <2>5. CASE InitTick
    BY Zenon, <2>5 DEF InitTick, inputVars, Goto
  <2>6. CASE WaitForControlTick
    BY Zenon, <2>6 DEF WaitForControlTick, inputVars, Goto
  <2>7. CASE GatherState
    BY Zenon, <2>7 DEF GatherState, inputVars, Goto
  <2>8. CASE DecideOwner
    BY Zenon, <2>8 DEF DecideOwner, inputVars, Goto
  <2>9. CASE StoreOwner
    BY Zenon, <2>9 DEF StoreOwner, inputVars
  <2>10. CASE EnterVla
    BY Zenon, <2>10 DEF EnterVla, inputVars, Goto
  <2>11. CASE ReturnToOrigin
    BY Zenon, <2>11 DEF ReturnToOrigin, Disarm, Goto
  <2>12. CASE VlaTick \/ RecoveryTick \/ TrackMotion
    <3>1. /\ pc = "token" /\ UNCHANGED state /\ UNCHANGED estop
          /\ Decode(held_token') \/ UNCHANGED motor_command
      BY Zenon, <2>12, DecodesHeld
      DEF VlaTick, RecoveryTick, TrackMotion, EncoderFails, PlannerOwned,
          inputVars
    <3>2. motor_command' \in Token \/ UNCHANGED motor_command
      BY Zenon, <3>1 DEF Decode, TypeOK, ArbiterTypeOK
    <3> QED
      BY Zenon, <3>1, <3>2, TokenIsNoDamping
  <2>13. CASE NothingToTrack
    BY Zenon, <2>13 DEF NothingToTrack, PlannerOwned, inputVars, Goto
  <2>14. CASE AdvancePlayback
    BY Zenon, <2>14 DEF AdvancePlayback, inputVars, Goto
  <2> QED
    BY Zenon, <1>1, <2>1, <2>2, <2>3, <2>4, <2>5, <2>6, <2>7, <2>8, <2>9,
       <2>10, <2>11, <2>12, <2>13, <2>14
    DEF ControlTick
<1>2. ASSUME UNCHANGED controllerVars, estop' = estop \/ estop' PROVE EStopInv'
  BY Zenon, <1>2 DEF controllerVars
<1>3. ASSUME TrackerThread \/ PlannerThread \/ Operator \/ Robot \/ Stream
             \/ UNCHANGED vars
      PROVE  UNCHANGED controllerVars /\ (estop' = estop \/ estop')
  BY Zenon, <1>3
  DEF TrackerThread, PlannerThread, Operator, Robot, Stream, vars, inputVars,
      PressEStop, SelectMode, StartControl
<1> QED
  BY Zenon, <1>1, <1>2, <1>3 DEF Next

\* The loss policy never damps (whole_body_controller.cpp, check_safety):
\* a damping command has an e-stop behind it, and an ESTOP state damps.
THEOREM DampingOnlyAfterEStop == Spec => []DampingIsEStop
<1>1. Init => EStopInv
  BY Zenon DEF Init, ControllerInit, EStopInv, DampingIsEStop
<1>2. EStopInv => DampingIsEStop
  BY DEF EStopInv
<1> QED
  BY <1>1, <1>2, InitType, NextType, EStopStep, PTL DEF Spec

\* Damping is commanded behind the e-stop's gate, which no tick leaves.
FinalInv == motor_command = "Damping" => state = "ESTOP"

LEMMA FinalStep ==
  ASSUME TypeOK, EStopInv, FinalInv, [Next]_vars
  PROVE  FinalInv' /\ (motor_command = "Damping" => motor_command' = "Damping")
<1> USE DEF FinalInv
<1>0. motor_command = "Damping" => pc = "gate" /\ estop /\ state = "ESTOP"
  BY Zenon DEF EStopInv, DampingIsEStop
<1>1. CASE EStopTick
  BY Zenon, <1>1 DEF EStopTick
<1>2. CASE LossTick \/ PassGates
  <2>1. motor_command # "Damping"
    BY Zenon, <1>0, <1>2 DEF LossTick, PassGates
  <2>2. motor_command' # "Damping"
    BY Zenon, <1>2, <2>1 DEF LossTick, LossCommand, PassGates
  <2> QED
    BY Zenon, <2>1, <2>2
<1>3. CASE RequestLossReseed \/ InitTick \/ WaitForControlTick \/ GatherState
           \/ DecideOwner \/ StoreOwner \/ EnterVla \/ ReturnToOrigin
           \/ NothingToTrack \/ AdvancePlayback
  <2>1. pc # "gate"
    BY Zenon, <1>3
    DEF RequestLossReseed, InitTick, WaitForControlTick, GatherState,
        DecideOwner, StoreOwner, EnterVla, ReturnToOrigin, NothingToTrack,
        PlannerOwned, AdvancePlayback
  <2>2. motor_command' = motor_command \/ motor_command' = "InitRamp"
    BY Zenon, <1>3
    DEF RequestLossReseed, InitTick, WaitForControlTick, GatherState,
        DecideOwner, StoreOwner, EnterVla, ReturnToOrigin, NothingToTrack,
        AdvancePlayback
  <2> QED
    BY <1>0, <2>1, <2>2
<1>4. CASE VlaTick \/ RecoveryTick \/ TrackMotion
  <2>1. pc # "gate"
    BY Zenon, <1>4 DEF VlaTick, RecoveryTick, TrackMotion, PlannerOwned
  <2>2. held_token' \in Token
    BY <1>4, NextType DEF Next, ControlTick, TypeOK, ArbiterTypeOK
  <2>3. motor_command' \in Token \/ UNCHANGED motor_command
    BY Zenon, <1>4, <2>2, DecodesHeld
    DEF VlaTick, RecoveryTick, TrackMotion, EncoderFails, Decode
  <2> QED
    BY Zenon, <1>0, <2>1, <2>3, TokenIsNoDamping
<1>5. CASE TrackerThread \/ PlannerThread \/ Operator \/ Robot \/ Stream
           \/ UNCHANGED vars
  <2>1. UNCHANGED controllerVars
    BY Zenon, <1>5
    DEF TrackerThread, PlannerThread, Operator, Robot, Stream, vars
  <2> QED
    BY Zenon, <2>1 DEF controllerVars
<1> QED
  BY Zenon, <1>1, <1>2, <1>3, <1>4, <1>5 DEF Next, ControlTick

(* Once damping is commanded nothing else is (whole_body_controller.cpp,   *)
(* control_loop: the e-stop's gate ends the tick): the safety half of      *)
(* EStopDamps.                                                             *)
THEOREM DampingIsFinal ==
  Spec => [][motor_command = "Damping" => motor_command' = "Damping"]_vars
<1>1. Init => EStopInv /\ FinalInv
  BY Zenon DEF Init, ControllerInit, EStopInv, DampingIsEStop, FinalInv
<1>2. TypeOK /\ EStopInv /\ FinalInv /\ [Next]_vars
        => /\ FinalInv'
           /\ [motor_command = "Damping" => motor_command' = "Damping"]_vars
  BY Zenon, FinalStep
<1> QED
  BY <1>1, <1>2, InitType, NextType, EStopStep, PTL DEF Spec

-------------------------------------------------------------------------------
\* The base hold lasts until the reseed is acknowledged.

\* One tick without LowState: within the grace the command stays, after it
\* the base pose is approached.
LEMMA LossTickHoldsBase ==
  ASSUME TypeOK, LossTick
  PROVE  LongLoss' => motor_command' \in BaseCommands
<1> DEFINE missing == IF state_missing_ticks < MissingCap
                        THEN state_missing_ticks + 1 ELSE MissingCap
<1>1. state_missing_ticks' = missing
  BY DEF LossTick, LossCommand
<1>2. SUFFICES ASSUME LongLoss' PROVE motor_command' \in BaseCommands
  OBVIOUS
<1>3. ~(missing <= kStateGraceTicks)
  BY <1>1, <1>2, ControllerAssumption
  DEF LongLoss, TypeOK, ControllerTypeOK, MissingCap
<1>4. motor_command' = IF missing <= kStateGraceTicks THEN motor_command
                       ELSE IF missing < MissingCap THEN "BaseRamp"
                       ELSE "BasePose"
  BY Zenon DEF LossTick, LossCommand
<1> QED
  BY Zenon, <1>3, <1>4 DEF BaseCommands

\* With no tick missing no long loss is under way.
LEMMA NoLoss ==
  /\ TypeOK /\ ~(state_missing_ticks > 0) => ~LongLoss
  /\ state_missing_ticks' = 0 => ~LongLoss' /\ ~(state_missing_ticks' > 0)
  /\ UNCHANGED state_missing_ticks => (LongLoss' <=> LongLoss)
                       /\ (state_missing_ticks' > 0 <=> state_missing_ticks > 0)
  BY ControllerAssumption DEF LongLoss, TypeOK, ControllerTypeOK

LEMMA LossInit == Init => LossInv
<1> SUFFICES ASSUME Init PROVE LossInv
  OBVIOUS
<1>1. TypeOK /\ ~(state_missing_ticks > 0)
  BY InitType DEF Init, ControllerInit
<1> QED
  BY Zenon, <1>1, NoLoss
  DEF Init, ControllerInit, LossInv, BaseHeldUntilReseed

LEMMA LossStep ==
  ASSUME TypeOK, LossInv, [Next]_vars
  PROVE  LossInv'
<1> USE NoLoss DEF LossInv, BaseHeldUntilReseed
<1>1. ASSUME ControlTick PROVE LossInv'
  <2>1. CASE EStopTick
    BY Zenon, <2>1 DEF EStopTick, BaseCommands
  <2>2. CASE LossTick
    <3>1. LongLoss' => motor_command' \in BaseCommands
      BY <2>2, LossTickHoldsBase
    <3>2. motor_command \in BaseCommands => motor_command' \in BaseCommands
      BY Zenon, <2>2 DEF LossTick, LossCommand, BaseCommands
    <3> QED
      BY Zenon, <2>2, <3>1, <3>2 DEF LossTick, LossCommand
  <2>3. CASE PassGates
    BY Zenon, <2>3 DEF PassGates, Goto
  <2>4. CASE RequestLossReseed
    BY Zenon, <2>4 DEF RequestLossReseed, Goto
  <2>5. CASE InitTick
    BY Zenon, <2>5 DEF InitTick, Goto
  <2>6. CASE WaitForControlTick
    BY Zenon, <2>6 DEF WaitForControlTick, Goto
  <2>7. CASE GatherState
    BY Zenon, <2>7 DEF GatherState, Goto
  <2>8. CASE DecideOwner
    BY Zenon, <2>8 DEF DecideOwner, Goto
  <2>9. CASE StoreOwner
    <3>1. pc = "step" /\ pc' \notin {"gate", "reseed"}
      BY Zenon, <2>9 DEF StoreOwner
    <3> QED
      BY Zenon, <2>9, <3>1 DEF StoreOwner
  <2>10. CASE EnterVla
    BY Zenon, <2>10 DEF EnterVla, Goto
  <2>11. CASE ReturnToOrigin
    BY Zenon, <2>11 DEF ReturnToOrigin, Goto
  <2>12. CASE VlaTick \/ RecoveryTick \/ TrackMotion
    <3>1. /\ pc = "token" /\ pc' \in {"gate", "advance"}
          /\ UNCHANGED <<state, state_missing_ticks, state_reseed_ticket>>
      BY Zenon, <2>12
      DEF VlaTick, RecoveryTick, TrackMotion, EncoderFails, PlannerOwned, Goto
    <3> QED
      BY Zenon, <3>1
  <2>13. CASE NothingToTrack
    BY Zenon, <2>13 DEF NothingToTrack, PlannerOwned, Goto
  <2>14. CASE AdvancePlayback
    BY Zenon, <2>14 DEF AdvancePlayback, Goto
  <2> QED
    BY Zenon, <1>1, <2>1, <2>2, <2>3, <2>4, <2>5, <2>6, <2>7, <2>8, <2>9,
       <2>10, <2>11, <2>12, <2>13, <2>14
    DEF ControlTick
<1>2. ASSUME UNCHANGED controllerVars PROVE LossInv'
  BY Zenon, <1>2 DEF controllerVars
<1>3. ASSUME TrackerThread \/ PlannerThread \/ Operator \/ Robot \/ Stream
             \/ UNCHANGED vars
      PROVE  UNCHANGED controllerVars
  BY Zenon, <1>3
  DEF TrackerThread, PlannerThread, Operator, Robot, Stream, vars
<1> QED
  BY Zenon, <1>1, <1>2, <1>3 DEF Next

\* No stale target after a long LowState loss: from the end of the grace to
\* the acknowledged reseed only the base hold or damping is commanded
\* (whole_body_controller.cpp, the loss policy and tick_control).
THEOREM BaseHeld == Spec => []BaseHeldUntilReseed
<1>1. Init => LossInv
  BY LossInit
<1>2. LossInv => BaseHeldUntilReseed
  BY DEF LossInv
<1> QED
  BY <1>1, <1>2, InitType, NextType, LossStep, PTL DEF Spec

-------------------------------------------------------------------------------
\* After a LowState loss nothing from before its reseed is played back.

LEMMA PlannerFreshStep ==
  ASSUME TypeOK, TicketInv, FreshInv, PlannerTick,
         UNCHANGED <<pc, state_reseed_ticket, loss_ticket>>
  PROVE  TicketInv' /\ FreshInv'
<1> USE DEF TypeOK, PlannerTypeOK, ControllerTypeOK, Motion, NoMotion,
            TicketInv, FreshInv, NotBefore
<1>1. CASE LoadReinitRequest
  BY <1>1 DEF LoadReinitRequest
<1>2. CASE InitializeOnce
  BY <1>2 DEF InitializeOnce
<1>3. CASE InitializeFails
  BY <1>3 DEF InitializeFails
<1>4. CASE AcknowledgeReinit
  BY <1>4 DEF AcknowledgeReinit
<1>5. CASE KeepPlan
  BY <1>5 DEF KeepPlan
<1>6. CASE Replan
  BY <1>6 DEF Replan
<1>7. CASE PublishPlan
  BY <1>7 DEF PublishPlan
<1>8. CASE PublishFails
  BY <1>8 DEF PublishFails
<1> QED
  BY <1>1, <1>2, <1>3, <1>4, <1>5, <1>6, <1>7, <1>8 DEF PlannerTick

\* A step that leaves the planner's hands and the tickets alone, and does not
\* enter the reseed.
LEMMA TicketsUnchanged ==
  ASSUME TicketInv, FreshInv,
         UNCHANGED <<plannerVars, state_reseed_ticket, loss_ticket>>,
         pc' = "reseed" => pc = "reseed"
  PROVE  TicketInv' /\ FreshInv'
  BY DEF plannerVars, TicketInv, FreshInv, NotBefore

LEMMA FreshStep ==
  ASSUME TypeOK, LossInv, TicketInv, FreshInv, [Next]_vars
  PROVE  TicketInv' /\ FreshInv'
<1> DEFINE Same ==
      /\ UNCHANGED <<plannerVars, state_reseed_ticket, loss_ticket>>
      /\ pc' = "reseed" => pc = "reseed"
<1>1. ASSUME Same PROVE TicketInv' /\ FreshInv'
  BY <1>1, TicketsUnchanged
<1>2. ASSUME ControlTick PROVE TicketInv' /\ FreshInv'
  <2> USE DEF TypeOK, PlannerTypeOK, ControllerTypeOK, Motion, NoMotion,
              TicketInv, FreshInv, NotBefore
  <2>1. CASE PassGates
    BY <2>1 DEF PassGates, ResetPlayback, plannerVars, Goto
  <2>2. CASE RequestLossReseed
    BY <2>2 DEF RequestLossReseed, RequestReinit, Goto
  <2>3. CASE GatherState
    BY <2>3 DEF GatherState, AwaitingReseed, plannerVars, Goto
  <2>4. CASE ReturnToOrigin
    BY <2>4 DEF ReturnToOrigin, ResetPlayback, Goto
  <2>5. CASE RecoveryTick
    BY <2>5 DEF RecoveryTick, RequestReinit, plannerVars, Goto
  <2>6. CASE AdvancePlayback
    <3>1. state_reseed_ticket = 0 /\ loss_ticket <= reinit_done
      BY <2>6 DEF AdvancePlayback, LossInv
    <3>2. /\ playback' \in {playback, motion_50hz}
          /\ pc' = "gate"
          /\ UNCHANGED <<planner_pc, reinit_requested, reinit_done,
                         reinit_req, context, motion_seq, motion_50hz,
                         state_reseed_ticket, loss_ticket>>
      BY <2>6 DEF AdvancePlayback, BlendMotion, Goto
    <3> QED
      BY <3>1, <3>2
  <2>7. CASE \/ EStopTick \/ LossTick \/ InitTick \/ WaitForControlTick
             \/ DecideOwner \/ StoreOwner \/ EnterVla \/ VlaTick
             \/ NothingToTrack \/ TrackMotion
    <3>1. CASE \/ EStopTick \/ LossTick \/ InitTick \/ WaitForControlTick
               \/ DecideOwner \/ EnterVla \/ VlaTick \/ NothingToTrack
      BY Zenon, <3>1, <1>1
      DEF EStopTick, LossTick, InitTick, WaitForControlTick, DecideOwner,
          EnterVla, VlaTick, NothingToTrack, Goto
    <3>2. CASE StoreOwner
      BY Zenon, <3>2, <1>1 DEF StoreOwner
    <3>3. CASE TrackMotion
      BY Zenon, <3>3, <1>1 DEF TrackMotion, EncoderFails, Goto
    <3> QED
      BY <2>7, <3>1, <3>2, <3>3
  <2> QED
    BY Zenon, <1>2, <2>1, <2>2, <2>3, <2>4, <2>5, <2>6, <2>7 DEF ControlTick
<1>3. CASE PlannerThread
  BY Zenon, <1>3, PlannerFreshStep DEF PlannerThread, controllerVars
<1>4. CASE TrackerThread \/ Operator \/ Robot \/ Stream \/ UNCHANGED vars
  <2>1. Same
    BY Zenon, <1>4
    DEF TrackerThread, Operator, Robot, Stream, vars, controllerVars
  <2> QED
    BY <1>1, <2>1
<1> QED
  BY Zenon, <1>2, <1>3, <1>4 DEF Next

\* No motion played back after a LowState loss descends from a plan made
\* before the reseed the loss asked for (planner_inference.hpp, the reinit
\* tickets; whole_body_controller.cpp, the loss policy).
THEOREM LossOriginIsFresh == Spec => []LossOriginFresh
<1>1. Init => LossInv
  BY LossInit
<1>2. Init => TicketInv /\ FreshInv
  BY DEF Init, ControllerInit, PlannerInit, TicketInv, FreshInv, NotBefore,
         NoMotion
<1>3. FreshInv => LossOriginFresh
  BY DEF FreshInv, NotBefore, LossOriginFresh
<1> QED
  BY <1>1, <1>2, <1>3, InitType, NextType, LossStep, FreshStep, PTL DEF Spec

-------------------------------------------------------------------------------
\* The ownership protocol: the invariant of a recovery and of a crossfade.

LEMMA DecideSuccessor ==
  ASSUME NEW m \in Mode, NEW f, NEW a, NEW c, NEW r
  PROVE  /\ Decide(m, f, a, c, r) \in Successors(m)
         /\ m = "kRecovering" /\ Decide(m, f, a, c, r) = "kNormal" => r
  BY DEF Decide, Successors, Mode

\* A blend short of its last step gives its origin or a mixture, and after
\* its first step its target or a mixture.
LEMMA BlendSlides ==
  ASSUME NEW from, NEW to, NEW part \in Nat, NEW whole \in Nat, part < whole
  PROVE  /\ Blend(from, to, part, whole) \in {from, "Mixed"}
         /\ part > 0 => Blend(from, to, part, whole) \in {to, "Mixed"}
  BY DEF Blend

LEMMA CrossfadeSlides ==
  ASSUME NEW target, NEW left \in 0..kHandoffBlendTicks,
         CrossfadeInto(target, left)
  PROVE  /\ left = 0 => held_token' = target
         /\ left > 0 => held_token' \in {held_token, "Mixed"}
         /\ handoff_blend_ticks' = 0 => held_token' \in {target, "Mixed"}
<1>1. CASE left = 0
  BY <1>1 DEF CrossfadeInto, Crossfaded
<1>2. CASE left > 0
  <2>1. /\ held_token' = Blend(held_token, target, kHandoffBlendTicks - left,
                               kHandoffBlendTicks)
        /\ handoff_blend_ticks' = left - 1
    BY <1>2 DEF CrossfadeInto, Crossfaded
  <2>2. /\ kHandoffBlendTicks - left \in Nat
        /\ kHandoffBlendTicks - left < kHandoffBlendTicks
        /\ kHandoffBlendTicks \in Nat
        /\ left - 1 = 0 => kHandoffBlendTicks - left > 0
    BY <1>2, BlendTicksAssumption
  <2>3. left # 0
    BY <1>2
  <2> QED
    BY <2>1, <2>2, <2>3, BlendSlides
<1> QED
  BY <1>1, <1>2

\* One step of the standing blend.
LEMMA StandingSlides ==
  ASSUME TypeOK, RecoveryInv, mode = "kRecovering", BlendToStanding
  PROVE  /\ recovery_blend_tick' > 0
         /\ recovery_blend_tick = kRecoveryBlendTicks
              => recovery_blend_tick' = kRecoveryBlendTicks
         /\ held_token' \in {"Mixed", "Standing"}
         /\ recovery_blend_tick' = kRecoveryBlendTicks
              => held_token' = "Standing"
         /\ held_token' = "Standing" => held_token \in {"Mixed", "Standing"}
<1>1. /\ recovery_blend_tick' \in 1..kRecoveryBlendTicks
      /\ recovery_blend_tick = kRecoveryBlendTicks
           => recovery_blend_tick' = kRecoveryBlendTicks
      /\ recovery_blend_tick' = kRecoveryBlendTicks
           => recovery_blend_tick > 0
  BY BlendTicksAssumption DEF TypeOK, ArbiterTypeOK, BlendToStanding
<1>2. held_token' = Blend(held_token, "Standing", recovery_blend_tick',
                          kRecoveryBlendTicks)
  BY DEF BlendToStanding
<1>3. recovery_blend_tick' # 0
  BY <1>1
<1>4. /\ held_token' \in {"Mixed", "Standing"}
      /\ recovery_blend_tick' = kRecoveryBlendTicks
           => held_token' = "Standing"
      /\ recovery_blend_tick' # kRecoveryBlendTicks
           => held_token' = IF held_token = "Standing" THEN held_token
                            ELSE "Mixed"
  BY Zenon, <1>2, <1>3 DEF Blend
<1>5. recovery_blend_tick > 0 => held_token \in {"Mixed", "Standing"}
  BY DEF RecoveryInv
<1>6. held_token' = "Standing" => held_token \in {"Mixed", "Standing"}
  BY Zenon, <1>1, <1>4, <1>5
<1> QED
  BY <1>1, <1>4, <1>6

\* Steps that leave the arbiter alone and decide nothing.
LEMMA RecoveryUnchanged ==
  ASSUME RecoveryInv, UNCHANGED <<arbiterVars, reinit_ticket_issued>>,
         pc' = "step" => pc = "step" /\ UNCHANGED next_mode
  PROVE  RecoveryInv'
  BY Zenon DEF RecoveryInv, arbiterVars

LEMMA RecoveryStep ==
  ASSUME TypeOK, RecoveryInv, [Next]_vars
  PROVE  RecoveryInv'
<1>1. CASE DecideOwner
  <2>1. /\ next_mode' \in Successors(mode)
        /\ mode = "kRecovering" /\ next_mode' = "kNormal"
             => reinit_ticket_issued
    BY Zenon, <1>1, DecideSuccessor
    DEF DecideOwner, RecoveryDone, TypeOK, ArbiterTypeOK
  <2> QED
    BY Zenon, <1>1, <2>1 DEF DecideOwner, RecoveryInv, arbiterVars
<1>2. CASE StoreOwner
  <2>1. /\ pc' # "step" /\ mode' = next_mode /\ held_token' = held_token
        /\ next_mode \in Successors(mode)
    BY Zenon, <1>2 DEF StoreOwner, StepMode, RecoveryInv
  <2>2. CASE mode = "kRecovering" /\ next_mode = "kRecovering"
    BY Zenon, <1>2, <2>1, <2>2 DEF StoreOwner, StepMode, RecoveryInv
  <2>3. CASE mode = "kVla" /\ next_mode = "kRecovering"
    <3>1. ~reinit_ticket_issued' /\ recovery_blend_tick' = 0
      BY Zenon, <1>2, <2>3 DEF StoreOwner, StepMode
    <3>2. ~(0 > 0) /\ 0 # kRecoveryBlendTicks
      BY BlendTicksAssumption
    <3> QED
      BY Zenon, <2>1, <3>1, <3>2 DEF RecoveryInv
  <2>4. CASE next_mode # "kRecovering"
    BY Zenon, <2>1, <2>4 DEF RecoveryInv
  <2>5. next_mode = "kRecovering" => mode \in {"kVla", "kRecovering"}
    BY <2>1 DEF Successors, TypeOK, ArbiterTypeOK, Mode
  <2> QED
    BY Zenon, <2>2, <2>3, <2>4, <2>5
<1>3. CASE RecoveryTick
  <2>1. /\ pc' # "step" /\ mode = "kRecovering" /\ BlendToStanding
        /\ mode' = mode
    BY Zenon, <1>3 DEF RecoveryTick, BlendToStanding, Goto
  <2>2. recovery_blend_tick' \in 0..kRecoveryBlendTicks
    BY NextType DEF TypeOK, ArbiterTypeOK
  <2>3. RecoveryBlendDone <=> recovery_blend_tick' = kRecoveryBlendTicks
    BY <2>2, BlendTicksAssumption DEF RecoveryBlendDone
  <2>4. reinit_ticket_issued' => recovery_blend_tick' = kRecoveryBlendTicks
    <3>1. reinit_ticket_issued' => reinit_ticket_issued \/ RecoveryBlendDone
      BY Zenon, <1>3 DEF RecoveryTick
    <3> QED
      BY Zenon, <2>1, <2>3, <3>1, StandingSlides DEF RecoveryInv
  <2> QED
    BY Zenon, <2>1, <2>4, StandingSlides DEF RecoveryInv
<1>4. CASE VlaTick \/ TrackMotion
  <2>1. mode' # "kRecovering" /\ pc' # "step"
    BY Zenon, <1>4
    DEF VlaTick, TrackMotion, EncoderFails, PlannerOwned, CrossfadeInto, Goto
  <2> QED
    BY Zenon, <2>1 DEF RecoveryInv
<1>5. CASE \/ EStopTick \/ LossTick \/ PassGates \/ RequestLossReseed
           \/ InitTick \/ WaitForControlTick \/ GatherState \/ EnterVla
           \/ ReturnToOrigin \/ NothingToTrack \/ AdvancePlayback
  <2>1. /\ UNCHANGED <<arbiterVars, reinit_ticket_issued>>
        /\ pc' = "step" => pc = "step" /\ UNCHANGED next_mode
    BY Zenon, <1>5
    DEF EStopTick, LossTick, PassGates, RequestLossReseed, InitTick,
        WaitForControlTick, GatherState, EnterVla, ReturnToOrigin,
        NothingToTrack, AdvancePlayback, Goto
  <2> QED
    BY Zenon, <2>1, RecoveryUnchanged
<1>6. CASE TrackerThread \/ PlannerThread \/ Operator \/ Robot \/ Stream
           \/ UNCHANGED vars
  BY Zenon, <1>6, RecoveryUnchanged
  DEF TrackerThread, PlannerThread, Operator, Robot, Stream, vars,
      controllerVars
<1> QED
  BY Zenon, <1>1, <1>2, <1>3, <1>4, <1>5, <1>6 DEF Next, ControlTick

LEMMA SuccessorPairs ==
  ASSUME NEW m \in Mode, NEW next \in Successors(m)
  PROVE  \/ m \in PlannerModes /\ next \in PlannerModes
         \/ m \in PlannerModes /\ next = "kVla"
         \/ m = "kVla" /\ next \in VlaModes
         \/ m = "kRecovering" /\ next \in {"kRecovering", "kNormal"}
  BY Zenon DEF Mode, Successors, PlannerModes, VlaModes

\* Steps that leave the token path alone.
LEMMA SlideUnchanged ==
  ASSUME SlideInv, UNCHANGED <<arbiterVars, token_seq, last_vr3_present>>
  PROVE  SlideInv'
  BY Zenon DEF SlideInv, arbiterVars, Settled

LEMMA SlideStep ==
  ASSUME TypeOK, SlideInv, RecoveryInv, [Next]_vars
  PROVE  SlideInv'
<1> USE DEF PlannerModes
<1>1. CASE StoreOwner
  <2>1. /\ mode' = next_mode /\ held_token' = held_token
        /\ UNCHANGED <<token_seq, last_vr3_present>>
        /\ handoff_blend_ticks' = IF ArmsHandoff(next_mode)
                                    THEN kHandoffBlendTicks
                                    ELSE handoff_blend_ticks
    BY Zenon, <1>1 DEF StoreOwner, StepMode
  <2>2. CASE ArmsHandoff(next_mode)
    <3>1. handoff_blend_ticks' # 0
      BY <2>1, <2>2, BlendTicksAssumption
    <3> QED
      BY Zenon, <3>1 DEF SlideInv
  <2>3. CASE ~ArmsHandoff(next_mode)
    <3>1. \/ mode \in PlannerModes /\ mode' \in PlannerModes
          \/ mode = "kVla" /\ mode' = "kVla"
          \/ mode' = "kRecovering"
      <4>1. mode \in Mode /\ next_mode \in Mode
            /\ next_mode \in Successors(mode)
        BY <1>1 DEF StoreOwner, RecoveryInv, TypeOK, ArbiterTypeOK,
                   ControllerTypeOK
      <4> USE DEF VlaModes
      <4> QED
        BY Zenon, <2>1, <2>3, <4>1, SuccessorPairs DEF ArmsHandoff
    <3> QED
      BY Zenon, <2>1, <2>3, <3>1 DEF SlideInv, Settled
  <2> QED
    BY <2>2, <2>3
<1>2. CASE VlaTick
  <2>1. handoff_blend_ticks' = 0 => held_token' \in {"Stream", "Mixed"}
    BY <1>2, CrossfadeSlides DEF VlaTick, TypeOK, ArbiterTypeOK
  <2>2. mode' = "kVla"
    BY Zenon, <1>2 DEF VlaTick, CrossfadeInto
  <2> QED
    BY Zenon, <2>1, <2>2 DEF SlideInv
<1>3. CASE RecoveryTick
  BY Zenon, <1>3 DEF RecoveryTick, BlendToStanding, SlideInv
<1>4. CASE TrackMotion
  <2>1. HandoffArmed \in 0..kHandoffBlendTicks
    BY BlendTicksAssumption DEF HandoffArmed, TypeOK, ArbiterTypeOK
  <2>2. /\ mode' = mode /\ mode \in PlannerModes
        /\ last_vr3_present' = vr3point
    BY Zenon, <1>4
    DEF TrackMotion, EncoderFails, PlannerOwned, CrossfadeInto
  <2>3. Settled' = EncoderToken
    BY Zenon, <2>2 DEF Settled, EncoderToken
  <2>4. CASE CrossfadeInto(EncoderToken, HandoffArmed)
    <3>1. handoff_blend_ticks' = 0 => held_token' \in {EncoderToken, "Mixed"}
      BY Zenon, <2>1, <2>4, CrossfadeSlides
    <3> QED
      BY Zenon, <2>2, <2>3, <3>1 DEF SlideInv
  <2>5. CASE handoff_blend_ticks' = HandoffArmed
             /\ UNCHANGED <<held_token, token_seq>>
    <3>1. CASE vr3point # last_vr3_present
      <4>1. handoff_blend_ticks' # 0
        BY <2>5, <3>1, BlendTicksAssumption DEF HandoffArmed
      <4> QED
        BY Zenon, <4>1 DEF SlideInv
    <3>2. CASE vr3point = last_vr3_present
      BY Zenon, <2>2, <2>5, <3>2 DEF SlideInv, Settled, HandoffArmed
    <3> QED
      BY <3>1, <3>2
  <2> QED
    BY Zenon, <1>4, <2>4, <2>5 DEF TrackMotion, EncoderFails
<1>5. CASE \/ EStopTick \/ LossTick \/ PassGates \/ RequestLossReseed
           \/ InitTick \/ WaitForControlTick \/ GatherState \/ DecideOwner
           \/ EnterVla \/ ReturnToOrigin \/ NothingToTrack
           \/ AdvancePlayback
  BY Zenon, <1>5, SlideUnchanged
  DEF EStopTick, LossTick, PassGates, RequestLossReseed, InitTick,
      WaitForControlTick, GatherState, DecideOwner, EnterVla, ReturnToOrigin,
      NothingToTrack, AdvancePlayback
<1>6. CASE TrackerThread \/ PlannerThread \/ Operator \/ Robot \/ Stream
           \/ UNCHANGED vars
  BY Zenon, <1>6, SlideUnchanged
  DEF TrackerThread, PlannerThread, Operator, Robot, Stream, vars,
      controllerVars
<1> QED
  BY Zenon, <1>1, <1>2, <1>3, <1>4, <1>5, <1>6 DEF Next, ControlTick

-------------------------------------------------------------------------------
\* The detailed arbitration implements the ownership protocol.

\* A decode shows the held token, or leaves the first token to come.
LEMMA DecodeShows ==
  ASSUME ControllerTypeOK, Decode(held_token')
  PROVE  Driving' = held_token' \/ UNCHANGED Driving
<1>1. CASE token_seq' = 1
  BY <1>1 DEF Driving
<1>2. CASE UNCHANGED token_seq
  <2>1. token_seq = 0 \/ token_seq # 0
    OBVIOUS
  <2> QED
    BY Zenon, <1>2, <2>1 DEF Driving
<1> QED
  BY Zenon, <1>1, <1>2 DEF Decode

LEMMA TokenIsDriven == Token \subseteq Owned!Driven
  BY DEF Token, Sources, Owned!Driven

\* The token path's step: the first token, or one that slides.
LEMMA SlideDrives ==
  ASSUME ArbiterTypeOK', ControllerTypeOK, Decode(held_token'),
         UNCHANGED Holder,
         token_seq = 1 =>
           \/ held_token' = held_token
           \/ held_token' = "Mixed"
           \/ held_token = "Mixed" /\ held_token' \in Owned!SourcesOf(Holder)
  PROVE  Owned!Drive \/ UNCHANGED <<Holder, Driving>>
<1>1. CASE UNCHANGED Driving
  BY Zenon, <1>1
<1>2. CASE Driving' = held_token' /\ token_seq = 0
  <2>1. Driving = "None" /\ Driving' \in Owned!Driven
    BY Zenon, <1>2, TokenIsDriven DEF Driving, ArbiterTypeOK
  <2> QED
    BY Zenon, <2>1 DEF Owned!Drive
<1>3. CASE Driving' = held_token' /\ token_seq = 1
  <2>1. Driving = held_token
    BY <1>3 DEF Driving
  <2> QED
    BY Zenon, <1>3, <2>1 DEF Owned!Drive
<1> QED
  BY <1>1, <1>2, <1>3, DecodeShows DEF ControllerTypeOK

\* Steps that leave the token path alone stutter.
LEMMA OwnershipUnchanged ==
  ASSUME UNCHANGED <<arbiterVars, token_seq>>
  PROVE  UNCHANGED <<Holder, Driving>>
  BY Zenon DEF arbiterVars, Holder, Driving

LEMMA OwnershipStep ==
  ASSUME TypeOK, TypeOK', RecoveryInv, SlideInv, [Next]_vars
  PROVE  Owned!Next \/ UNCHANGED <<Holder, Driving>>
<1> USE DEF TypeOK
<1>1. CASE StoreOwner
  <2>1. /\ mode' = next_mode /\ UNCHANGED <<held_token, token_seq>>
        /\ mode \in Mode /\ next_mode \in Successors(mode)
        /\ mode = "kRecovering" /\ next_mode = "kNormal"
             => held_token = "Standing"
    BY Zenon, <1>1
    DEF StoreOwner, StepMode, RecoveryInv, ArbiterTypeOK
  <2>2. UNCHANGED Driving
    BY Zenon, <2>1 DEF Driving
  <2>3. CASE mode = "kNormal"
    <3>1. mode' \in {"kNormal", "kTeleop", "kVla"}
      BY Zenon, <2>1, <2>3 DEF Successors
    <3> QED
      BY Zenon, <2>2, <2>3, <3>1 DEF Owned!Next, Owned!Claim, Holder
  <2>4. CASE mode = "kTeleop"
    <3>1. mode' \in {"kNormal", "kTeleop"}
      BY Zenon, <2>1, <2>4 DEF Successors
    <3> QED
      BY Zenon, <2>2, <2>4, <3>1 DEF Owned!Next, Owned!Release, Holder
  <2>5. CASE mode = "kVla"
    <3>1. mode' \in {"kVla", "kRecovering"}
      BY Zenon, <2>1, <2>5 DEF Successors
    <3> QED
      BY Zenon, <2>2, <2>5, <3>1 DEF Owned!Next, Owned!LoseStream, Holder
  <2>6. CASE mode = "kRecovering"
    <3>1. mode' \in {"kRecovering", "kNormal"}
      BY Zenon, <2>1, <2>6 DEF Successors
    <3>2. mode' = "kNormal" => Driving \in {"Standing", "None"}
      BY Zenon, <2>1, <2>6 DEF Driving
    <3> QED
      BY Zenon, <2>2, <2>6, <3>1, <3>2 DEF Owned!Next, Owned!ReachOrigin, Holder
  <2> QED
    BY Zenon, <2>1, <2>3, <2>4, <2>5, <2>6 DEF Mode
<1>2. ASSUME NEW target, NEW left \in 0..kHandoffBlendTicks,
             CrossfadeInto(target, left), Decode(held_token'),
             target \in Owned!SourcesOf(Holder),
             token_seq = 1 /\ left = 0 => held_token \in {"Mixed", target}
      PROVE  Owned!Next \/ UNCHANGED <<Holder, Driving>>
  <2>1. UNCHANGED Holder
    BY Zenon, <1>2 DEF CrossfadeInto, Holder
  <2>2. CASE left = 0
    BY Zenon, <1>2, <2>1, <2>2, CrossfadeSlides, SlideDrives DEF Owned!Next
  <2>3. CASE left > 0
    <3>1. held_token' \in {held_token, "Mixed"}
      BY <1>2, <2>3, CrossfadeSlides
    <3> QED
      BY Zenon, <1>2, <2>1, <3>1, SlideDrives DEF Owned!Next
  <2> QED
    BY <1>2, <2>2, <2>3
<1>3. CASE VlaTick
  <2>1. mode = "kVla" /\ CrossfadeInto("Stream", handoff_blend_ticks)
        /\ Decode(held_token')
    BY Zenon, <1>3, DecodesHeld DEF VlaTick
  <2>2. "Stream" \in Owned!SourcesOf(Holder)
    BY Zenon, <2>1 DEF Holder, Owned!SourcesOf
  <2>3. token_seq = 1 /\ handoff_blend_ticks = 0
          => held_token \in {"Mixed", "Stream"}
    BY Zenon, <2>1 DEF SlideInv
  <2> QED
    BY Zenon, <1>2, <2>1, <2>2, <2>3 DEF ArbiterTypeOK
<1>4. CASE TrackMotion
  <2>1. mode \in {"kNormal", "kTeleop"}
    BY Zenon, <1>4 DEF TrackMotion, EncoderFails, PlannerOwned
  <2>2. CASE CrossfadeInto(EncoderToken, HandoffArmed) /\ Decode(held_token')
    <3>1. HandoffArmed \in 0..kHandoffBlendTicks
      BY BlendTicksAssumption DEF HandoffArmed, ArbiterTypeOK
    <3>2. EncoderToken \in Owned!SourcesOf(Holder)
      <4>1. Holder \in {"origin", "operator"}
        BY Zenon, <2>1 DEF Holder
      <4>2. Owned!SourcesOf(Holder) = {"EncoderG1", "EncoderTeleop"}
        BY Zenon, <4>1 DEF Owned!SourcesOf
      <4> QED
        BY Zenon, <4>2 DEF EncoderToken
    <3>3. token_seq = 1 /\ HandoffArmed = 0
            => held_token \in {"Mixed", EncoderToken}
      <4>1. kHandoffBlendTicks # 0
        BY BlendTicksAssumption
      <4> QED
        BY Zenon, <2>1, <4>1
        DEF HandoffArmed, SlideInv, Settled, EncoderToken, PlannerModes
    <3> QED
      BY Zenon, <1>2, <2>2, <3>1, <3>2, <3>3
  <2>3. CASE UNCHANGED <<mode, held_token, token_seq>>
    BY Zenon, <2>3 DEF Holder, Driving
  <2> QED
    BY Zenon, <1>4, <2>2, <2>3, DecodesHeld DEF TrackMotion, EncoderFails
<1>5. CASE RecoveryTick
  <2>1. mode = "kRecovering" /\ BlendToStanding /\ Decode(held_token')
        /\ UNCHANGED mode
    BY Zenon, <1>5 DEF RecoveryTick, BlendToStanding
  <2>2. UNCHANGED Holder /\ "Standing" \in Owned!SourcesOf(Holder)
    BY Zenon, <2>1 DEF Holder, Owned!SourcesOf
  <2>3. \/ held_token' = "Mixed"
        \/ held_token' = "Standing" /\ held_token \in {"Mixed", "Standing"}
    BY Zenon, <2>1, StandingSlides
  <2> QED
    BY Zenon, <2>1, <2>2, <2>3, SlideDrives DEF Owned!Next
<1>6. CASE \/ EStopTick \/ LossTick \/ PassGates \/ RequestLossReseed
           \/ InitTick \/ WaitForControlTick \/ GatherState \/ DecideOwner
           \/ EnterVla \/ ReturnToOrigin \/ NothingToTrack
           \/ AdvancePlayback
  BY Zenon, <1>6, OwnershipUnchanged
  DEF EStopTick, LossTick, PassGates, RequestLossReseed, InitTick,
      WaitForControlTick, GatherState, DecideOwner, EnterVla, ReturnToOrigin,
      NothingToTrack, AdvancePlayback
<1>7. CASE TrackerThread \/ PlannerThread \/ Operator \/ Robot \/ Stream
           \/ UNCHANGED vars
  BY Zenon, <1>7, OwnershipUnchanged
  DEF TrackerThread, PlannerThread, Operator, Robot, Stream, vars,
      controllerVars
<1> QED
  BY Zenon, <1>1, <1>3, <1>4, <1>5, <1>6, <1>7 DEF Next, ControlTick

\* The arbitration on the token path implements the ownership protocol
\* (control_arbiter.hpp, "Modes are mutually exclusive ..." and the
\* crossfades): every step claims, releases or returns the robot as the
\* protocol lets it, or slides the token from one source into the next.
THEOREM ImplementsOwnership == Spec => OwnershipProtocol
<1>1. Init => Owned!Init /\ RecoveryInv /\ SlideInv
  <2> SUFFICES ASSUME Init PROVE Owned!Init /\ RecoveryInv /\ SlideInv
    OBVIOUS
  <2>1. 0 # 1
    OBVIOUS
  <2> QED
    BY Zenon, <2>1
    DEF Init, ArbiterInit, ControllerInit, Owned!Init, Holder, Driving,
        RecoveryInv, SlideInv
<1>2. TypeOK /\ TypeOK' /\ RecoveryInv /\ SlideInv /\ [Next]_vars
        => [Owned!Next]_<<Holder, Driving>>
  BY OwnershipStep
<1>3. Spec => [](TypeOK /\ RecoveryInv /\ SlideInv)
  BY <1>1, InitType, NextType, RecoveryStep, SlideStep, PTL DEF Spec
<1> QED
  BY <1>1, <1>2, <1>3, PTL DEF Spec, OwnershipProtocol, Owned!Spec

-------------------------------------------------------------------------------
\* No hidden teleop, while every tick of the tracker finds a body sample.

LEMMA TeleopUnchanged ==
  ASSUME TeleopInv, UNCHANGED <<trackerVars, mode>>,
         pc = "resetCalibration" => pc' = "resetCalibration"
  PROVE  TeleopInv'
  BY Zenon DEF TeleopInv, trackerVars

LEMMA TrackerTeleopStep ==
  ASSUME ~BodyLags, TeleopInv, TrackerTick, UNCHANGED <<mode, pc>>
  PROVE  TeleopInv'
<1> USE DEF TeleopInv
<1>1. CASE TakeReset
  BY Zenon, <1>1 DEF TakeReset
<1>2. CASE ClearVr3Point
  BY Zenon, <1>2 DEF ClearVr3Point
<1>3. CASE CheckCalibrationGesture
  BY Zenon, <1>3 DEF CheckCalibrationGesture, GestureFires, GestureIgnored,
                    VlaModes
<1>4. CASE ProcessBody
  BY Zenon, <1>4 DEF ProcessBody
<1>5. CASE PublishVr3Point
  BY Zenon, <1>5 DEF PublishVr3Point
<1> QED
  BY <1>1, <1>2, <1>3, <1>4, <1>5 DEF TrackerTick

LEMMA TeleopStep ==
  ASSUME ~BodyLags, TypeOK, RecoveryInv, TeleopInv, [Next]_vars
  PROVE  TeleopInv'
<1>1. CASE StoreOwner
  <2>1. /\ pc = "step" /\ mode' = next_mode /\ UNCHANGED trackerVars
        /\ mode \in Mode /\ next_mode \in Successors(mode)
        /\ mode # "kVla" /\ next_mode = "kVla" => pc' = "resetCalibration"
    BY Zenon, <1>1
    DEF StoreOwner, StepMode, RecoveryInv, TypeOK, ArbiterTypeOK
  <2> QED
    BY Zenon, <2>1, SuccessorPairs
    DEF TeleopInv, VlaModes, PlannerModes, trackerVars
<1>2. CASE EnterVla
  BY Zenon, <1>2 DEF EnterVla, ResetCalibration, TeleopInv
<1>3. CASE VlaTick \/ RecoveryTick \/ TrackMotion \/ NothingToTrack
  <2>1. UNCHANGED <<trackerVars, mode>> /\ pc # "resetCalibration"
    BY Zenon, <1>3
    DEF VlaTick, RecoveryTick, TrackMotion, EncoderFails, NothingToTrack,
        PlannerOwned,
        CrossfadeInto, BlendToStanding, arbiterVars
  <2> QED
    BY Zenon, <2>1, TeleopUnchanged
<1>4. CASE \/ EStopTick \/ LossTick \/ PassGates \/ RequestLossReseed
           \/ InitTick \/ WaitForControlTick \/ GatherState \/ DecideOwner
           \/ ReturnToOrigin \/ AdvancePlayback
  <2>1. UNCHANGED <<trackerVars, mode>> /\ pc # "resetCalibration"
    BY Zenon, <1>4
    DEF EStopTick, LossTick, PassGates, RequestLossReseed, InitTick,
        WaitForControlTick, GatherState, DecideOwner, ReturnToOrigin,
        AdvancePlayback, arbiterVars
  <2> QED
    BY Zenon, <2>1, TeleopUnchanged
<1>5. CASE TrackerThread
  BY Zenon, <1>5, TrackerTeleopStep DEF TrackerThread, arbiterVars,
     controllerVars
<1>6. CASE Operator
  <2>1. /\ UNCHANGED <<mode, pc>>
        /\ HoldOrReleaseB \/ BodySample \/ UNCHANGED trackerVars
    BY Zenon, <1>6 DEF Operator, TrackerEnvironment, arbiterVars, controllerVars
  <2>2. CASE HoldOrReleaseB
    BY Zenon, <2>1, <2>2 DEF HoldOrReleaseB, TeleopInv
  <2>3. CASE BodySample
    BY Zenon, <2>3 DEF BodySample, TeleopInv
  <2> QED
    BY Zenon, <2>1, <2>2, <2>3, TeleopUnchanged
<1>7. CASE PlannerThread \/ Robot \/ Stream \/ UNCHANGED vars
  BY Zenon, <1>7, TeleopUnchanged
  DEF PlannerThread, Robot, Stream, vars, arbiterVars, controllerVars
<1> QED
  BY Zenon, <1>1, <1>2, <1>3, <1>4, <1>5, <1>6, <1>7 DEF Next, ControlTick

\* "No hidden armed teleop survives a VLA session" (whole_body_controller.cpp,
\* the -> VLA branch), under the assumption the code makes tacitly: every
\* tick of the tracker finds a new body sample.
THEOREM HiddenTeleopNeedsLag ==
  ASSUME ~BodyLags
  PROVE  Spec => []NoHiddenTeleop
<1>1. Init => RecoveryInv /\ TeleopInv
  <2> SUFFICES ASSUME Init PROVE RecoveryInv /\ TeleopInv
    OBVIOUS
  <2> QED
    BY Zenon
    DEF Init, ArbiterInit, ControllerInit, TrackerInit, RecoveryInv, TeleopInv
<1>2. ASSUME TypeOK, RecoveryInv, TeleopInv, [Next]_vars
      PROVE  TeleopInv'
  BY <1>2, TeleopStep
<1>3. TeleopInv => NoHiddenTeleop
  BY Zenon DEF TeleopInv, NoHiddenTeleop, VlaModes
<1> QED
  BY <1>1, <1>2, <1>3, InitType, NextType, RecoveryStep, PTL DEF Spec

-------------------------------------------------------------------------------
\* The teleop target follows the calibration.

LEMMA TargetStep ==
  ASSUME TargetInv, [Next]_vars
  PROVE  TargetInv'
<1> USE DEF TargetInv, TargetIsCalibrated
<1>1. CASE TakeReset
  BY Zenon, <1>1 DEF TakeReset
<1>2. CASE ClearVr3Point
  BY Zenon, <1>2 DEF ClearVr3Point
<1>3. CASE CheckCalibrationGesture
  BY Zenon, <1>3 DEF CheckCalibrationGesture
<1>4. CASE ProcessBody
  BY Zenon, <1>4 DEF ProcessBody
<1>5. CASE PublishVr3Point
  BY Zenon, <1>5 DEF PublishVr3Point
<1>6. CASE TrackerEnvironment \/ ResetCalibration
  <2>1. UNCHANGED <<tracker_pc, calibrated, vr3point>>
    BY Zenon, <1>6
    DEF TrackerEnvironment, HoldOrReleaseB, BodySample, ResetCalibration
  <2> QED
    BY Zenon, <2>1
<1>7. CASE UNCHANGED trackerVars
  BY Zenon, <1>7 DEF trackerVars
<1>8. ControlTick => UNCHANGED trackerVars \/ ResetCalibration
  BY Zenon
  DEF ControlTick, EStopTick, LossTick, PassGates, RequestLossReseed, InitTick,
      WaitForControlTick, GatherState, DecideOwner, StoreOwner, EnterVla,
      ReturnToOrigin, VlaTick, RecoveryTick, NothingToTrack, TrackMotion,
      AdvancePlayback
<1>9. PlannerThread \/ Operator \/ Robot \/ Stream \/ UNCHANGED vars
        => UNCHANGED trackerVars \/ TrackerEnvironment
  BY Zenon DEF PlannerThread, Operator, Robot, Stream, vars
<1> QED
  BY Zenon, <1>1, <1>2, <1>3, <1>4, <1>5, <1>6, <1>7, <1>8, <1>9
  DEF Next, TrackerThread, TrackerTick

\* Calibration off, by the gesture or by a reset, takes the teleop target
\* with it (teleop_tracker.cpp, the Clear() calls of loop and of the gesture).
THEOREM TargetNeedsCalibration == Spec => []TargetIsCalibrated
<1>1. Init => TargetInv
  BY Zenon DEF Init, TrackerInit, TargetInv, TargetIsCalibrated
<1>2. TargetInv => TargetIsCalibrated
  BY DEF TargetInv
<1> QED
  BY <1>1, <1>2, TargetStep, PTL DEF Spec

-------------------------------------------------------------------------------
\* The held token and the command.

\* A tick that decodes commands the token it holds; until an inference fails
\* the two agree at every step, and not between ticks only.
HeldInv ==
  faults = 0 /\ motor_command \in Token => held_token = motor_command

LEMMA BaseIsNoToken ==
  /\ "BaseRamp" \notin Token /\ "BasePose" \notin Token
  /\ "InitRamp" \notin Token
  BY DEF Token, Sources

\* What a tick without a token does to the command.
LEMMA CommandUnchanged ==
  ASSUME HeldInv, UNCHANGED held_token, UNCHANGED faults,
         motor_command' \in Token => UNCHANGED motor_command
  PROVE  HeldInv'
  BY DEF HeldInv

\* A failed inference is counted for good.
LEMMA FaultsGrow ==
  ASSUME TypeOK, UNCHANGED faults \/ InferFails
  PROVE  faults' = 0 => UNCHANGED faults
  BY FaultsAssumption DEF InferFails, TypeOK, InferenceTypeOK

LEMMA HeldStep ==
  ASSUME TypeOK, HeldInv, [Next]_vars
  PROVE  HeldInv'
<1>1. CASE EStopTick \/ LossTick
  <2>1. motor_command' \in Token => UNCHANGED motor_command
    BY Zenon, <1>1, TokenIsNoDamping, BaseIsNoToken
    DEF EStopTick, LossTick, LossCommand
  <2>2. UNCHANGED held_token /\ UNCHANGED faults
    BY Zenon, <1>1 DEF EStopTick, LossTick, arbiterVars
  <2> QED
    BY Zenon, <2>1, <2>2, CommandUnchanged
<1>2. CASE InitTick
  <2>1. motor_command' \in Token => UNCHANGED motor_command
    BY Zenon, <1>2, BaseIsNoToken DEF InitTick
  <2>2. UNCHANGED held_token /\ UNCHANGED faults
    BY Zenon, <1>2 DEF InitTick, arbiterVars
  <2> QED
    BY Zenon, <2>1, <2>2, CommandUnchanged
<1>3. CASE PassGates \/ RequestLossReseed \/ WaitForControlTick \/ GatherState
           \/ DecideOwner \/ StoreOwner \/ EnterVla \/ ReturnToOrigin
           \/ NothingToTrack \/ AdvancePlayback
  <2>1. UNCHANGED motor_command /\ UNCHANGED held_token /\ UNCHANGED faults
    BY Zenon, <1>3
    DEF PassGates, RequestLossReseed, WaitForControlTick, GatherState,
        DecideOwner, StoreOwner, StepMode, EnterVla, ReturnToOrigin,
        NothingToTrack, AdvancePlayback, arbiterVars
  <2> QED
    BY Zenon, <2>1, CommandUnchanged
<1>4. CASE VlaTick \/ RecoveryTick \/ TrackMotion
  <2>1. \/ Decode(held_token')
        \/ InferFails
    BY Zenon, <1>4, DecodesHeld
    DEF VlaTick, RecoveryTick, TrackMotion, EncoderFails
  <2>2. CASE InferFails
    BY <2>2, FaultsAssumption DEF InferFails, TypeOK, InferenceTypeOK, HeldInv
  <2>3. CASE motor_command' = held_token'
    BY Zenon, <2>3 DEF HeldInv
  <2> QED
    BY Zenon, <2>1, <2>2, <2>3 DEF Decode
<1>5. CASE TrackerThread \/ PlannerThread \/ Operator \/ Robot \/ Stream
           \/ UNCHANGED vars
  <2>1. UNCHANGED motor_command /\ UNCHANGED held_token
    BY Zenon, <1>5
    DEF TrackerThread, PlannerThread, Operator, Robot, Stream, vars,
        controllerVars, arbiterVars
  <2>2. UNCHANGED faults \/ InferFails
    BY Zenon, <1>5
    DEF TrackerThread, PlannerThread, PlannerTick, LoadReinitRequest,
        InitializeOnce, InitializeFails, AcknowledgeReinit, KeepPlan, Replan,
        PublishPlan, PublishFails, InferOk, Operator, Robot, Stream, vars
  <2> QED
    BY Zenon, <2>1, <2>2, FaultsGrow DEF HeldInv
<1> QED
  BY Zenon, <1>1, <1>2, <1>3, <1>4, <1>5 DEF Next, ControlTick

(* As long as no inference has failed, the arbiter holds the token that    *)
(* was commanded last, so that every blend starts from the robot's last    *)
(* output (whole_body_controller.cpp, tick_control).  A failed decode is   *)
(* the only thing that lets the two part.                                  *)
THEOREM HeldIsCommanded == Spec => [](faults = 0 => HeldIsLastCommand)
<1>1. Init => HeldInv
  <2>1. "None" \notin Token
    BY DEF Token, Sources
  <2> QED
    BY Zenon, <2>1 DEF Init, ControllerInit, HeldInv
<1>2. HeldInv => (faults = 0 => HeldIsLastCommand)
  BY Zenon DEF HeldInv, HeldIsLastCommand
<1> QED
  BY <1>1, <1>2, InitType, NextType, HeldStep, PTL DEF Spec
-------------------------------------------------------------------------------
\* Where a recovery's stale plan comes from: the late replan is the only way.

\* A step that leaves the planner and the tickets alone, keeps the owner, and
\* neither enters a decision or an advance nor leaves the return.
LEMMA VlaUnchanged ==
  ASSUME VlaInv,
         UNCHANGED <<plannerVars, mode, reinit_ticket_issued, reinit_ticket>>,
         pc' = "step" => pc = "step" /\ UNCHANGED next_mode,
         pc' = "advance" => pc = "advance",
         pc = "resetPlayback" => pc' = "resetPlayback"
  PROVE  VlaInv'
  BY DEF VlaInv, NotBefore, plannerVars

LEMMA PlannerVlaStep ==
  ASSUME TypeOK, TicketInv, VlaInv, PlannerTick,
         Replan => ~ReturnPending,
         UNCHANGED <<mode, pc, next_mode, reinit_ticket_issued, reinit_ticket>>
  PROVE  VlaInv'
<1> USE DEF TypeOK, PlannerTypeOK, ControllerTypeOK, Motion, NoMotion,
            TicketInv, VlaInv, NotBefore
<1>1. CASE LoadReinitRequest
  BY <1>1 DEF LoadReinitRequest
<1>2. CASE InitializeOnce
  BY <1>2 DEF InitializeOnce
<1>3. CASE InitializeFails
  BY <1>3 DEF InitializeFails
<1>4. CASE AcknowledgeReinit
  BY <1>4 DEF AcknowledgeReinit
<1>5. CASE KeepPlan
  BY <1>5 DEF KeepPlan
<1>6. CASE Replan
  BY <1>6 DEF Replan, ReturnPending
<1>7. CASE PublishPlan
  BY <1>7 DEF PublishPlan
<1>8. CASE PublishFails
  BY <1>8 DEF PublishFails
<1> QED
  BY <1>1, <1>2, <1>3, <1>4, <1>5, <1>6, <1>7, <1>8 DEF PlannerTick

LEMMA VlaStep ==
  ASSUME TypeOK, TicketInv, RecoveryInv, VlaInv, [Next]_vars,
         [Replan => ~ReturnPending]_vars
  PROVE  VlaInv'
<1>1. ASSUME ControlTick PROVE VlaInv'
  <2> USE DEF TypeOK, PlannerTypeOK, ControllerTypeOK, Motion, NoMotion,
              TicketInv, VlaInv, NotBefore
  <2>1. CASE PassGates
    BY <2>1 DEF PassGates, ResetPlayback, plannerVars, arbiterVars, Goto
  <2>2. CASE RequestLossReseed
    BY <2>2 DEF RequestLossReseed, RequestReinit, Disarm, arbiterVars, Goto
  <2>3. CASE DecideOwner
    <3>1. /\ next_mode' \in Successors(mode)
          /\ mode = "kRecovering" /\ next_mode' = "kNormal"
               => reinit_ticket_issued /\ reinit_done >= reinit_ticket
      BY Zenon, <2>3, DecideSuccessor
      DEF DecideOwner, RecoveryDone, ArbiterTypeOK
    <3>2. /\ UNCHANGED <<plannerVars, mode, reinit_ticket_issued,
                         reinit_ticket>>
          /\ pc = "arbiter" /\ pc' = "step"
      BY Zenon, <2>3 DEF DecideOwner, arbiterVars, Goto
    <3> QED
      BY <3>1, <3>2 DEF plannerVars
  <2>4. CASE StoreOwner
    <3>1. /\ pc = "step" /\ pc' \in {"resetCalibration", "resetPlayback",
                                     "token"}
          /\ mode' = next_mode /\ next_mode \in Successors(mode)
          /\ mode = "kRecovering" /\ next_mode = "kNormal"
               => pc' = "resetPlayback"
          /\ reinit_ticket_issued' =>
               /\ reinit_ticket_issued
               /\ ~(mode = "kVla" /\ next_mode = "kRecovering")
          /\ UNCHANGED <<plannerVars, reinit_ticket>>
      BY Zenon, <2>4 DEF StoreOwner, StepMode, RecoveryInv
    <3>2. \/ mode # "kRecovering" /\ next_mode # "kRecovering"
          \/ mode = "kVla" /\ next_mode = "kRecovering"
          \/ mode = "kRecovering" /\ next_mode \in {"kRecovering", "kNormal"}
      BY Zenon, <3>1, SuccessorPairs
      DEF ArbiterTypeOK, PlannerModes, VlaModes
    <3> QED
      BY <3>1, <3>2 DEF plannerVars
  <2>5. CASE ReturnToOrigin
    BY <2>5 DEF ReturnToOrigin, ResetPlayback, arbiterVars, Goto
  <2>6. CASE RecoveryTick
    <3>1. mode = "kRecovering" /\ mode' = mode /\ pc = "token" /\ pc' = "gate"
      BY Zenon, <2>6 DEF RecoveryTick, BlendToStanding, Goto
    <3>2. CASE RecoveryBlendDone /\ ~reinit_ticket_issued
      BY <2>6, <3>1, <3>2 DEF RecoveryTick, RequestReinit
    <3>3. CASE ~(RecoveryBlendDone /\ ~reinit_ticket_issued)
      BY Zenon, <2>6, <3>1, <3>3, VlaUnchanged DEF RecoveryTick
    <3> QED
      BY <3>2, <3>3
  <2>7. CASE NothingToTrack
    BY <2>7 DEF NothingToTrack, PlannerOwned, PlannerModes, plannerVars,
                arbiterVars, Goto
  <2>8. CASE TrackMotion
    <3>1. /\ UNCHANGED <<plannerVars, mode, reinit_ticket_issued,
                         reinit_ticket>>
          /\ pc' \in {"gate", "advance"} /\ pc = "token"
          /\ mode \in PlannerModes
      BY Zenon, <2>8
      DEF TrackMotion, EncoderFails, CrossfadeInto, PlannerOwned,
          PlannerModes, Goto
    <3> QED
      BY <3>1 DEF plannerVars
  <2>9. CASE AdvancePlayback
    <3>1. /\ pc = "advance" /\ pc' = "gate"
          /\ playback' \in {playback, motion_50hz}
          /\ UNCHANGED <<mode, reinit_ticket_issued, reinit_ticket,
                         planner_pc, reinit_requested, reinit_done,
                         reinit_req, context, motion_seq, motion_50hz>>
      BY <2>9 DEF AdvancePlayback, BlendMotion, arbiterVars, Goto
    <3>2. mode # "kRecovering"
      BY <3>1 DEF PlannerModes
    <3> QED
      BY <3>1, <3>2
  <2>10. CASE \/ EStopTick \/ LossTick \/ InitTick \/ WaitForControlTick
              \/ GatherState \/ EnterVla \/ VlaTick
    <3>1. /\ UNCHANGED <<plannerVars, mode, reinit_ticket_issued,
                         reinit_ticket>>
          /\ pc' \notin {"step", "advance"}
          /\ pc # "resetPlayback"
      BY Zenon, <2>10
      DEF EStopTick, LossTick, InitTick, WaitForControlTick, GatherState,
          EnterVla, VlaTick, CrossfadeInto, arbiterVars, Goto
    <3> QED
      BY Zenon, <3>1, VlaUnchanged
  <2> QED
    BY Zenon, <1>1, <2>1, <2>2, <2>3, <2>4, <2>5, <2>6, <2>7, <2>8, <2>9,
       <2>10 DEF ControlTick
<1>2. CASE PlannerThread
  <2>1. /\ PlannerTick
        /\ UNCHANGED <<mode, pc, next_mode, reinit_ticket_issued,
                       reinit_ticket>>
    BY Zenon, <1>2 DEF PlannerThread, arbiterVars, controllerVars
  <2>2. Replan => ~ReturnPending
    <3>1. Replan => planner_pc' # planner_pc
      BY DEF Replan
    <3>2. UNCHANGED vars => planner_pc' = planner_pc
      BY DEF vars, plannerVars
    <3> QED
      BY <3>1, <3>2
  <2> QED
    BY <2>1, <2>2, PlannerVlaStep
<1>3. CASE TrackerThread \/ Operator \/ Robot \/ Stream \/ UNCHANGED vars
  BY Zenon, <1>3, VlaUnchanged
  DEF TrackerThread, Operator, Robot, Stream, vars, arbiterVars,
      controllerVars
<1> QED
  BY Zenon, <1>1, <1>2, <1>3 DEF Next

\* A replan between the acknowledgement of a recovery's reseed and the return
\* to ORIGIN is all that can bring a plan of the session back into the
\* playback: without one the recovery keeps the promise of the comment
\* "never resume the pre-VLA playback timeline" (whole_body_controller.cpp).
THEOREM SessionOriginIsFresh ==
  Spec /\ [][Replan => ~ReturnPending]_vars => []VlaOriginFresh
<1>1. Init => LossInv
  BY LossInit
<1>2. Init => TicketInv /\ FreshInv
  BY DEF Init, ControllerInit, PlannerInit, TicketInv, FreshInv, NotBefore,
         NoMotion
<1>3. Init => RecoveryInv /\ VlaInv
  BY DEF Init, ControllerInit, ArbiterInit, RecoveryInv, VlaInv
<1>4. TypeOK /\ VlaInv => VlaOriginFresh
  BY DEF VlaInv, NotBefore, VlaOriginFresh
<1> QED
  BY <1>1, <1>2, <1>3, <1>4, InitType, NextType, LossStep, FreshStep,
     RecoveryStep, VlaStep, PTL DEF Spec
===============================================================================
