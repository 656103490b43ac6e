------------------------------ MODULE InputProofs ------------------------------
(***************************************************************************)
(* The operator loop for every threshold, set of button combinations and   *)
(* last locomotion mode.                                                   *)
(***************************************************************************)
EXTENDS InputHandler, FiniteSetTheorems, TLAPS

USE InputAssumption, HeldAssumption
    DEF InputAssumption, HeldAssumption, IDLE, SLOW_WALK, WALK, kBasicModeMax

\* What a step of the mode was checked against still holds: disarm() can only
\* have lowered the mode to IDLE since.
StepInv ==
  /\ input_pc = "select" => fired \in Press
  /\ input_pc = "step" =>
       /\ fired \in {"Y", "YHold", "X"}
       /\ fired = "Y"     => mode_index < kBasicModeMax
       /\ fired = "YHold" => mode_index < kFullModeMax
       /\ fired = "X"     => mode_index >= IDLE

Button(g) == IF g \in {"A", "X"} THEN g ELSE "Y"

\* A running count is a hold of one button, or of all four.
HoldInv ==
  /\ \A g \in Press : presses[g] > 0 =>
       sampled = {Button(g)} /\ sampled_for >= presses[g]
  /\ estop_hold_ticks > 0 =>
       sampled = Face /\ sampled_for >= estop_hold_ticks

InputInv == TypeOK /\ StepInv /\ HoldInv

LEMMA CapBounds ==
  /\ SampledForCap \in Nat \ {0}
  /\ kEstopHoldTicks <= SampledForCap
  /\ \A g \in Press : Threshold(g) <= SampledForCap
<1>. DEFINE Bounds(n) == n \in Thresholds /\ \A m \in Thresholds : m <= n
<1>1. \E n \in Thresholds : \A m \in Thresholds : m <= n
  <2>1. CASE kEstopHoldTicks <= kHardHoldTicks
    <3>1. kHardHoldTicks \in Thresholds
            /\ \A m \in Thresholds : m <= kHardHoldTicks
      BY <2>1 DEF Thresholds
    <3>. QED
      BY <3>1
  <2>2. CASE kHardHoldTicks <= kEstopHoldTicks
    <3>1. kEstopHoldTicks \in Thresholds
            /\ \A m \in Thresholds : m <= kEstopHoldTicks
      BY <2>2 DEF Thresholds
    <3>. QED
      BY <3>1
  <2>. QED
    BY <2>1, <2>2
<1>2. /\ SampledForCap \in Thresholds
      /\ \A m \in Thresholds : m <= SampledForCap
  BY <1>1, Zenon DEF SampledForCap
<1>3. SampledForCap \in Nat \ {0}
  BY <1>2 DEF Thresholds
<1>4. kEstopHoldTicks <= SampledForCap
  BY <1>2 DEF Thresholds
<1>5. ASSUME NEW g \in Press PROVE Threshold(g) <= SampledForCap
  BY <1>2 DEF Thresholds, Threshold
<1>. QED
  BY <1>3, <1>4, <1>5

LEMMA FaceIsFinite == IsFiniteSet(Face)
<1>1. IsFiniteSet({}) 
  BY FS_EmptySet
<1>2. IsFiniteSet({} \cup {"A"})
  BY <1>1, FS_AddElement
<1>3. IsFiniteSet(({} \cup {"A"}) \cup {"B"})
  BY <1>2, FS_AddElement
<1>4. IsFiniteSet((({} \cup {"A"}) \cup {"B"}) \cup {"X"})
  BY <1>3, FS_AddElement
<1>5. IsFiniteSet(((({} \cup {"A"}) \cup {"B"}) \cup {"X"}) \cup {"Y"})
  BY <1>4, FS_AddElement
<1>6. Face = ((({} \cup {"A"}) \cup {"B"}) \cup {"X"}) \cup {"Y"}
  BY DEF Face
<1>. QED
  BY <1>5, <1>6

\* A button that is held and no combo is the only one of the four.
LEMMA AloneIsSingle ==
  ASSUME NEW held, NEW g \in Press, Alone(g, held)
  PROVE  Pressed(held) = {Button(g)}
<1>. DEFINE S == Pressed(held)
            b == Button(g)
<1>1. b \in S
  BY DEF Alone, Pressed, Press, Button, Face
<1>2. IsFiniteSet(S)
  BY FaceIsFinite, FS_Subset DEF Pressed
<1>3. Cardinality(S) \in Nat /\ Cardinality(S) < 2
  <2>1. Cardinality(S) \in Nat
    BY <1>2, FS_CardinalityType
  <2>2. ~(Cardinality(S) >= 2)
    BY DEF Alone, Combo
  <2>. QED
    BY <2>1, <2>2
<1>. HIDE DEF S, b
<1>4. ASSUME NEW y \in S, y # b PROVE FALSE
  <2>1. Cardinality({b} \cup {y}) = 2
    <3>1. IsFiniteSet({b}) /\ Cardinality({b}) = 1
      BY FS_Singleton
    <3>2. Cardinality({b} \cup {y}) = IF y \in {b} THEN Cardinality({b})
                                     ELSE Cardinality({b}) + 1
      BY <3>1, FS_AddElement
    <3>. QED
      BY <3>1, <3>2, <1>4
  <2>2. ({b} \cup {y}) \in SUBSET S
    BY <1>1
  <2>3. Cardinality({b} \cup {y}) <= Cardinality(S)
    BY <2>2, <1>2, FS_Subset
  <2>. QED
    BY <2>1, <2>3, <1>3
<1>5. S = {b}
  BY <1>1, <1>4
<1>. QED
  BY <1>5 DEF S, b

LEMMA InputStarts == Init => InputInv
<1>. SUFFICES ASSUME Init PROVE InputInv
  OBVIOUS
<1>1. TypeOK
  <2>1. SafeStop \in Movement
    BY DEF SafeStop, Movement
  <2>2. \A g \in Press : presses[g] \in 0 .. Threshold(g)
    BY DEF Init, Threshold
  <2>3. sampled_for \in 0 .. SampledForCap
    BY CapBounds DEF Init
  <2>4. {link, origin, neutral, estop, operator_start} \subseteq BOOLEAN
    <3>1. link \in BOOLEAN
      BY DEF Init
    <3>. QED
      BY <3>1 DEF Init
  <2>5. /\ input_pc \in InputPc /\ fired \in Press \union {"none"}
        /\ estop_hold_ticks \in 0..kEstopHoldTicks
        /\ mode_index \in -1..kFullModeMax
        /\ height \in {"default", "seed"} /\ sampled \subseteq Face
    BY DEF Init, InputPc
  <2>6. {movement, next_movement} \subseteq Movement
    BY <2>1 DEF Init
  <2>. QED
    BY <2>2, <2>3, <2>4, <2>5, <2>6 DEF TypeOK
<1>2. StepInv
  BY DEF Init, StepInv
<1>3. HoldInv
  BY DEF Init, HoldInv
<1>. QED
  BY <1>1, <1>2, <1>3 DEF InputInv

\* What one sample does to the counts and to the history of the samples.
LEMMA SampleCounts ==
  ASSUME InputInv, ReadController
  PROVE  /\ \A g \in Press : presses'[g] \in 0 .. Threshold(g)
         /\ estop_hold_ticks' \in 0 .. kEstopHoldTicks
         /\ sampled' \subseteq Face
         /\ sampled_for' \in 0 .. SampledForCap
         /\ HoldInv'
         /\ fired' # "none" =>
              fired' \in Press /\ presses'[fired'] = Threshold(fired')
         /\ estop' = (estop \/ estop_hold_ticks' >= kEstopHoldTicks)
<1>. PICK held \in Held :
       /\ estop_hold_ticks' = EStopTicks(held)
       /\ estop' = Latch(estop_hold_ticks')
       /\ presses' = [g \in Press |-> PressTicks(g, held)]
       /\ IF \E g \in Press : Fires(g, held)
            THEN /\ fired' = CHOOSE g \in Press : Fires(g, held)
                 /\ input_pc' = "select"
            ELSE fired' = "none" /\ input_pc' = "crouchFirst"
       /\ sampled' = Pressed(held)
       /\ sampled_for' = IF sampled # sampled' THEN 1
                         ELSE IF sampled_for < SampledForCap
                         THEN sampled_for + 1 ELSE sampled_for
  BY DEF ReadController
<1>0. /\ \A g \in Press : presses[g] \in 0 .. Threshold(g)
      /\ estop_hold_ticks \in 0 .. kEstopHoldTicks
      /\ sampled_for \in 0 .. SampledForCap
      /\ SampledForCap \in Nat \ {0}
  BY CapBounds DEF InputInv, TypeOK
<1>t. ASSUME NEW g \in Press
      PROVE  Threshold(g) \in Nat /\ Threshold(g) > 0
             /\ Threshold(g) <= SampledForCap
  BY CapBounds DEF Threshold
<1>1. ASSUME NEW g \in Press
      PROVE  /\ presses'[g] = PressTicks(g, held)
             /\ presses'[g] \in 0 .. Threshold(g)
  BY <1>0, <1>t DEF PressTicks
<1>2. /\ sampled' \subseteq Face /\ sampled_for' \in 1 .. SampledForCap
      /\ sampled' = sampled => \/ sampled_for' = sampled_for + 1
                               \/ sampled_for' = SampledForCap
  BY <1>0 DEF Pressed
<1>3. estop_hold_ticks' \in 0 .. kEstopHoldTicks
  BY <1>0 DEF EStopTicks
<1>4. ASSUME NEW g \in Press, presses'[g] > 0
      PROVE  sampled' = {Button(g)} /\ sampled_for' >= presses'[g]
  <2>1. Alone(g, held)
    BY <1>1, <1>4 DEF PressTicks
  <2>2. sampled' = {Button(g)}
    BY <2>1, AloneIsSingle
  <2>3. CASE presses[g] > 0
    <3>1. sampled = {Button(g)} /\ sampled_for >= presses[g]
      BY <2>3 DEF InputInv, HoldInv
    <3>2. presses'[g] <= presses[g] + 1 /\ presses'[g] <= SampledForCap
      BY <1>0, <1>1, <1>t, <2>1 DEF PressTicks
    <3>3. presses[g] \in Nat /\ presses'[g] \in Nat
      BY <1>0, <1>1, <1>t
    <3>. QED
      BY <1>0, <1>2, <2>2, <3>1, <3>2, <3>3
  <2>4. CASE presses[g] = 0
    <3>1. presses'[g] = 1
      BY <1>1, <1>t, <2>1, <2>4 DEF PressTicks
    <3>. QED
      BY <1>2, <2>2, <3>1
  <2>5. presses[g] \in Nat
    BY <1>0, <1>t
  <2>. QED
    BY <2>3, <2>4, <2>5
<1>5. ASSUME estop_hold_ticks' > 0
      PROVE  sampled' = Face /\ sampled_for' >= estop_hold_ticks'
  <2>1. sampled' = Face
    BY <1>5 DEF EStopTicks
  <2>2. estop_hold_ticks > 0 => sampled = Face
                                /\ sampled_for >= estop_hold_ticks
    BY DEF InputInv, HoldInv
  <2>3. estop_hold_ticks' <= estop_hold_ticks + 1
    BY <1>0 DEF EStopTicks
  <2>. QED
    BY <1>0, <1>2, <1>3, <2>1, <2>2, <2>3, CapBounds
<1>6. HoldInv'
  BY <1>4, <1>5 DEF HoldInv
<1>7. ASSUME fired' # "none"
      PROVE  fired' \in Press /\ presses'[fired'] = Threshold(fired')
  <2>1. fired' \in Press /\ Fires(fired', held)
    BY <1>7
  <2>2. Alone(fired', held) /\ presses[fired'] + 1 = Threshold(fired')
    BY <2>1 DEF Fires
  <2>3. presses'[fired'] = PressTicks(fired', held)
    BY <1>1, <2>1
  <2>4. presses[fired'] < Threshold(fired')
    BY <1>0, <1>t, <2>1, <2>2
  <2>. QED
    BY <2>1, <2>2, <2>3, <2>4 DEF PressTicks
<1>. QED
  BY <1>1, <1>2, <1>3, <1>6, <1>7 DEF Latch

LEMMA InputStep == InputInv /\ [Next]_vars => InputInv'
<1>. SUFFICES ASSUME InputInv, [Next]_vars PROVE InputInv'
  OBVIOUS
<1>0. TypeOK /\ StepInv /\ HoldInv
  BY DEF InputInv
<1>. USE DEF senseVars, tickVars, history
<1>1. CASE ReadController
  <2>1. TypeOK'
    <3>1. fired' \in Press \union {"none"} /\ estop' \in BOOLEAN
      BY <1>0, <1>1, SampleCounts DEF TypeOK
    <3>2. input_pc' \in InputPc /\ neutral' \in BOOLEAN
          /\ UNCHANGED <<senseVars, mode_index, height, next_movement,
                         movement, operator_start>>
      BY <1>1 DEF ReadController, InputPc
    <3>. QED
      BY <1>0, <1>1, <3>1, <3>2, SampleCounts DEF TypeOK
  <2>2. StepInv'
    <3>1. input_pc' = "select" => fired' # "none"
      <4>1. \A held : (\E g \in Press : Fires(g, held))
              => (CHOOSE g \in Press : Fires(g, held)) \in Press
        BY Zenon
      <4>. QED
        BY <1>1, <4>1 DEF ReadController, Press
    <3>2. input_pc' # "step"
      BY <1>1 DEF ReadController
    <3>. QED
      BY <1>1, <3>1, <3>2, SampleCounts DEF StepInv
  <2>. QED
    BY <1>1, <2>1, <2>2, SampleCounts DEF InputInv
<1>2. CASE LostLink
  <2>1. SafeStop \in Movement
    BY DEF SafeStop, Movement
  <2>. QED
    BY <1>0, <1>2, <2>1 DEF LostLink, InputInv, TypeOK, StepInv, HoldInv
<1>3. CASE SelectMode
  <2>1. TypeOK'
    BY <1>0, <1>3 DEF SelectMode, TypeOK, InputPc
  <2>2. StepInv'
    <3>1. fired \in {"A", "X", "Y", "YHold"} /\ fired' = fired
          /\ input_pc' # "select"
      BY <1>0, <1>3 DEF SelectMode, StepInv, Press
    <3>2. ASSUME input_pc' = "step"
          PROVE  fired # "A" /\ MayStep /\ mode_index' = mode_index
      BY <1>3, <3>2 DEF SelectMode
    <3>3. ASSUME fired # "A"
          PROVE  MayStep => /\ fired = "Y"     => mode_index < kBasicModeMax
                            /\ fired = "YHold" => mode_index < kFullModeMax
                            /\ fired = "X"     => mode_index >= IDLE
      <4>1. mode_index \in Int
        BY <1>0 DEF TypeOK
      <4>2. CASE fired = "Y"
        BY <4>2 DEF MayStep
      <4>3. CASE fired = "YHold"
        BY <4>3 DEF MayStep
      <4>4. CASE fired = "X"
        BY <4>1, <4>4 DEF MayStep
      <4>. QED
        BY <3>1, <3>3, <4>2, <4>3, <4>4
    <3>. QED
      BY <3>1, <3>2, <3>3 DEF StepInv
  <2>3. HoldInv'
    BY <1>0, <1>3 DEF SelectMode, HoldInv
  <2>. QED
    BY <2>1, <2>2, <2>3 DEF InputInv
<1>4. CASE StepMode
  <2>1. mode_index' \in -1..kFullModeMax
    BY <1>0, <1>4 DEF StepMode, StepInv, TypeOK
  <2>2. TypeOK'
    BY <1>0, <1>4, <2>1 DEF StepMode, TypeOK, InputPc
  <2>3. StepInv' /\ HoldInv'
    BY <1>0, <1>4 DEF StepMode, StepInv, HoldInv
  <2>. QED
    BY <2>2, <2>3 DEF InputInv
<1>5. CASE CheckCrouch
  <2>1. TypeOK'
    BY <1>0, <1>5 DEF CheckCrouch, TypeOK, InputPc
  <2>2. StepInv' /\ HoldInv'
    BY <1>0, <1>5 DEF CheckCrouch, StepInv, HoldInv
  <2>. QED
    BY <2>1, <2>2 DEF InputInv
<1>6. CASE BuildMovement
  <2>1. next_movement' \in Movement
    <3>1. \A nav : NavMode(nav) \in -1..kFullModeMax
      BY DEF NavMode
    <3>2. mode_index \in -1..kFullModeMax /\ height \in {"default", "seed"}
      BY <1>0 DEF TypeOK
    <3>3. IDLE \in -1..kFullModeMax
      OBVIOUS
    <3>. QED
      BY <1>6, <3>1, <3>2, <3>3 DEF BuildMovement, Movement
  <2>2. TypeOK'
    BY <1>0, <1>6, <2>1 DEF BuildMovement, TypeOK, InputPc
  <2>3. StepInv' /\ HoldInv'
    BY <1>0, <1>6 DEF BuildMovement, StepInv, HoldInv
  <2>. QED
    BY <2>2, <2>3 DEF InputInv
<1>7. CASE PublishMovement
  <2>1. TypeOK'
    BY <1>0, <1>7 DEF PublishMovement, TypeOK, InputPc
  <2>2. StepInv' /\ HoldInv'
    BY <1>0, <1>7 DEF PublishMovement, StepInv, HoldInv
  <2>. QED
    BY <2>1, <2>2 DEF InputInv
<1>8. CASE DropOrRestoreLink \/ ChangeOwner
  <2>1. TypeOK'
    BY <1>0, <1>8 DEF DropOrRestoreLink, ChangeOwner, TypeOK
  <2>2. StepInv' /\ HoldInv'
    BY <1>0, <1>8 DEF DropOrRestoreLink, ChangeOwner, StepInv, HoldInv
  <2>. QED
    BY <2>1, <2>2 DEF InputInv
<1>9. CASE Disarm
  <2>1. TypeOK'
    BY <1>0, <1>9 DEF Disarm, TypeOK
  <2>2. StepInv' /\ HoldInv'
    BY <1>0, <1>9 DEF Disarm, StepInv, HoldInv
  <2>. QED
    BY <2>1, <2>2 DEF InputInv
<1>10. CASE UNCHANGED vars
  BY <1>0, <1>10 DEF vars, InputInv, TypeOK, StepInv, HoldInv
<1>. QED
  BY <1>1, <1>2, <1>3, <1>4, <1>5, <1>6, <1>7, <1>8, <1>9, <1>10
     DEF Next, InputTick

LEMMA InputAlways == Spec => []InputInv
BY InputStarts, InputStep, PTL DEF Spec

-------------------------------------------------------------------------------
(* The operator loop keeps its types, the race of disarm() with the mode   *)
(* walk included: it takes mode_index one below IDLE and no further.       *)
THEOREM InputTypes == Spec => []TypeOK
<1>1. InputInv => TypeOK
  BY DEF InputInv
<1>. QED
  BY <1>1, InputAlways, PTL

(* A gesture, and the e-stop, is one unbroken hold of its own buttons for  *)
(* its whole threshold, for every threshold.                               *)
THEOREM GesturesAreHolds == Spec => GestureIsOneHold
<1>1. InputInv /\ [Next]_vars =>
      [/\ fired' \notin {"none", fired} =>
            /\ sampled' = {CASE fired' = "A" -> "A"
                             [] fired' = "X" -> "X"
                             [] OTHER        -> "Y"}
            /\ sampled_for' >= Threshold(fired')
       /\ estop' # estop =>
            sampled' = Face /\ sampled_for' >= kEstopHoldTicks]_vars
  <2>. SUFFICES ASSUME InputInv, Next
                PROVE  /\ fired' \notin {"none", fired} =>
                            /\ sampled' = {Button(fired')}
                            /\ sampled_for' >= Threshold(fired')
                       /\ estop' # estop =>
                            sampled' = Face /\ sampled_for' >= kEstopHoldTicks
    BY DEF Button
  <2>1. CASE ReadController
    <3>1. ASSUME fired' \notin {"none", fired}
          PROVE  sampled' = {Button(fired')} /\ sampled_for' >= Threshold(fired')
      <4>1. fired' \in Press /\ presses'[fired'] = Threshold(fired')
            /\ HoldInv'
        BY <2>1, <3>1, SampleCounts
      <4>2. Threshold(fired') > 0
        BY DEF Threshold
      <4>. QED
        BY <4>1, <4>2 DEF HoldInv
    <3>2. ASSUME estop' # estop
          PROVE  sampled' = Face /\ sampled_for' >= kEstopHoldTicks
      <4>1. estop_hold_ticks' >= kEstopHoldTicks
            /\ estop_hold_ticks' \in 0 .. kEstopHoldTicks /\ HoldInv'
        BY <2>1, <3>2, SampleCounts DEF InputInv, TypeOK
      <4>2. estop_hold_ticks' > 0 /\ estop_hold_ticks' = kEstopHoldTicks
        BY <4>1
      <4>. QED
        BY <4>1, <4>2 DEF HoldInv
    <3>. QED
      BY <3>1, <3>2
  <2>2. CASE ~ReadController
    <3>1. fired' = fired /\ estop' = estop
      BY <2>2 DEF Next, InputTick, LostLink, SelectMode, StepMode, CheckCrouch,
         BuildMovement, PublishMovement, DropOrRestoreLink, ChangeOwner, Disarm,
         tickVars
    <3>. QED
      BY <3>1
  <2>. QED
    BY <2>1, <2>2
<1>. QED
  BY <1>1, InputAlways, PTL DEF Spec, GestureIsOneHold

(* No tap of Y enters a mode past WALK, with disarm() between the check    *)
(* of the bound and the step included.                                     *)
THEOREM HardModesAreHeld == Spec => HardModeIsHeld
<1>1. InputInv /\ [Next]_vars =>
        [mode_index' > kBasicModeMax /\ mode_index' > mode_index
           => fired = "YHold"]_vars
  <2>. SUFFICES ASSUME InputInv, Next,
                       mode_index' > kBasicModeMax, mode_index' > mode_index
                PROVE  fired = "YHold"
    OBVIOUS
  <2>0. mode_index \in Int
    BY DEF InputInv, TypeOK
  <2>1. StepMode
    BY <2>0 DEF Next, InputTick, ReadController, LostLink, SelectMode,
       CheckCrouch, BuildMovement, PublishMovement, DropOrRestoreLink,
       ChangeOwner, Disarm
  <2>2. fired # "X" /\ mode_index' = mode_index + 1
    BY <2>0, <2>1 DEF StepMode
  <2>. QED
    BY <2>0, <2>1, <2>2 DEF StepMode, InputInv, StepInv
<1>. QED
  BY <1>1, InputAlways, PTL DEF Spec, HardModeIsHeld

(* The recogniser with its loop, its link and the race of disarm() is the  *)
(* operator that the control loop is composed with.                        *)
THEOREM RecogniserIsTheOperator == Spec => ImplementsOperatorInput
<1>1. Init => Operator!InputInit
  BY DEF Init, Operator!InputInit
<1>2. InputInv /\ [Next]_vars
        => [Operator!InputNext]_(Operator!inputVars)
  <2>. SUFFICES ASSUME InputInv, [Next]_vars
                PROVE  [Operator!InputNext]_(Operator!inputVars)
    OBVIOUS
  <2>. USE DEF Operator!inputVars
  <2>0. estop \in BOOLEAN /\ operator_start \in BOOLEAN
    BY DEF InputInv, TypeOK
  <2>1. CASE ReadController
    <3>1. mode_index' = mode_index /\ operator_start' = operator_start
      BY <2>1 DEF ReadController
    <3>2. estop' = estop \/ (~estop /\ estop' = TRUE)
      BY <2>0, <2>1, SampleCounts
    <3>. QED
      BY <3>1, <3>2 DEF Operator!InputNext, Operator!PressEStop
  <2>2. CASE SelectMode \/ StepMode \/ Disarm
    <3>1. estop' = estop /\ operator_start' = operator_start
      BY <2>2 DEF SelectMode, StepMode, Disarm
    <3>2. \/ (mode_index > IDLE)' = (mode_index > IDLE)
          \/ (mode_index > IDLE)' = ~(mode_index > IDLE)
      OBVIOUS
    <3>. QED
      BY <3>1, <3>2 DEF Operator!InputNext, Operator!SelectMode
  <2>3. CASE UNCHANGED <<estop, mode_index, operator_start>>
    BY <2>3
  <2>. QED
    BY <2>1, <2>2, <2>3
       DEF Next, InputTick, LostLink, CheckCrouch, BuildMovement,
           PublishMovement, DropOrRestoreLink, ChangeOwner, vars
<1>. QED
  BY <1>1, <1>2, InputAlways, PTL
     DEF Spec, ImplementsOperatorInput, Operator!InputSpec
-------------------------------------------------------------------------------
\* A decrement behind its check finds the mode the check saw.
CheckedBeforeUse ==
  ModeClamped /\ (input_pc = "step" /\ fired = "X" => mode_index > IDLE)

LEMMA ClampStep ==
  ASSUME InputInv, CheckedBeforeUse, [Next]_vars,
         [Disarm => ~(input_pc = "step" /\ fired = "X")]_vars
  PROVE  CheckedBeforeUse'
<1> USE DEF CheckedBeforeUse, ModeClamped, InputInv, TypeOK
<1>1. CASE Disarm
  <2>1. mode_index' = IDLE /\ UNCHANGED <<input_pc, fired>>
    BY <1>1 DEF Disarm, tickVars
  <2>2. \/ ~(input_pc = "step" /\ fired = "X")
        \/ mode_index' = mode_index
    BY <1>1 DEF vars
  <2>. QED
    BY <2>1, <2>2
<1>2. CASE SelectMode
  <2>1. fired' = fired /\ input_pc = "select"
    BY <1>2 DEF SelectMode
  <2>2. CASE fired = "A"
    BY <1>2, <2>1, <2>2 DEF SelectMode
  <2>3. CASE fired # "A"
    <3>1. mode_index' = mode_index
      BY <1>2, <2>3 DEF SelectMode
    <3>2. fired = "X" => (MayStep <=> mode_index > IDLE)
      BY DEF MayStep
    <3>3. input_pc' = IF MayStep THEN "step" ELSE "crouchFirst"
      BY <1>2, <2>3 DEF SelectMode
    <3>. QED
      BY <2>1, <3>1, <3>2, <3>3
  <2>. QED
    BY <2>2, <2>3
<1>3. CASE StepMode
  BY <1>3 DEF StepMode, StepInv
<1>4. CASE ReadController
  <2>1. mode_index' = mode_index /\ input_pc' # "step"
    BY <1>4 DEF ReadController
  <2>. QED
    BY <2>1
<1>5. CASE \/ LostLink \/ CheckCrouch \/ BuildMovement \/ PublishMovement
           \/ DropOrRestoreLink \/ ChangeOwner \/ UNCHANGED vars
  <2>1. mode_index' = mode_index
    BY Zenon, <1>5
    DEF LostLink, CheckCrouch, BuildMovement, PublishMovement,
        DropOrRestoreLink, ChangeOwner, vars
  <2>2. input_pc' = "step" => input_pc = "step" /\ fired' = fired
    BY Zenon, <1>5
    DEF LostLink, CheckCrouch, BuildMovement, PublishMovement,
        DropOrRestoreLink, ChangeOwner, vars, tickVars
  <2>. QED
    BY <2>1, <2>2
<1>. QED
  BY Zenon, <1>1, <1>2, <1>3, <1>4, <1>5 DEF Next, InputTick

\* The mode walk stays "clamped at both ends" (input_handler.cpp:12-13) unless
\* disarm() falls between the check of mode_index_ and its decrement (:131): no
\* other order of the two threads takes it below IDLE.
THEOREM OnlyTheRaceUnclamps ==
  Spec /\ [][Disarm => ~(input_pc = "step" /\ fired = "X")]_vars
    => []ModeClamped
<1>1. Init => CheckedBeforeUse
  BY DEF Init, CheckedBeforeUse, ModeClamped
<1>2. CheckedBeforeUse => ModeClamped
  BY DEF CheckedBeforeUse
<1>. QED
  BY <1>1, <1>2, InputAlways, ClampStep, PTL DEF Spec
===============================================================================
