----------------------------- MODULE InputHandler -----------------------------
(***************************************************************************)
(* The 500 Hz operator loop (input_handler.cpp): the latched e-stop, the   *)
(* button gestures that walk the locomotion mode, and the movement command *)
(* the planner reads.  The control loop's disarm() stores to mode_index_   *)
(* at any time, so every load and store of mode_index_ is a step.          *)
(*                                                                         *)
(* The facing angle and the stick's direction and speed are left out.      *)
(***************************************************************************)
EXTENDS Integers, FiniteSets

CONSTANTS
  kSingleHoldTicks,  \* ticks a button is held alone before its gesture fires
  kHardHoldTicks,    \* ticks of Y for a step into the hard modes
  kEstopHoldTicks,   \* ticks of all four buttons for the e-stop
  kFullModeMax,      \* the last locomotion mode
  LinkDrops,         \* switch: the VR link is lost and comes back
  NavCommands,       \* bound: the external navigation commands
  Disarms,           \* switch: the control loop disarms
  Held               \* bound: the button combinations the operator uses

ASSUME InputAssumption ==
  /\ kSingleHoldTicks \in Nat /\ kSingleHoldTicks > 0
  /\ kHardHoldTicks \in Nat   /\ kHardHoldTicks > kSingleHoldTicks
  /\ kEstopHoldTicks \in Nat  /\ kEstopHoldTicks > 0
  /\ kFullModeMax \in Nat     /\ kFullModeMax > 2
  /\ {LinkDrops, Disarms} \subseteq BOOLEAN

\* LocomotionMode
IDLE         == 0
SLOW_WALK    == 1
WALK         == 2
kBasicModeMax == WALK
kCrouchFirst == 4
kCrouchLast  == 6

Face    == {"A", "B", "X", "Y"}
Buttons == Face \union {"Trigger"}
Press   == {"A", "X", "Y", "YHold"}
Nav     == {"stale", "stop", "slow", "walk"}

ASSUME HeldAssumption ==
  /\ Held \subseteq SUBSET Buttons /\ {} \in Held
  /\ NavCommands \subseteq Nav /\ "stale" \in NavCommands

Threshold(g) == IF g = "YHold" THEN kHardHoldTicks ELSE kSingleHoldTicks
Thresholds   == {kSingleHoldTicks, kHardHoldTicks, kEstopHoldTicks}
SampledForCap == CHOOSE n \in Thresholds : \A m \in Thresholds : m <= n

VARIABLES
  link,              \* ctrl_buf holds a sample: the VR link is up
  origin,            \* the arbiter's mode is kNormal
  input_pc,
  fired,             \* the gesture the tick found
  neutral,           \* the tick's sample has the stick in its dead zone
  presses,           \* ticks of a_press_, x_press_, y_press_, y_hold_
  estop_hold_ticks,  \* estop_hold_ticks_, saturating at its threshold
  estop,             \* estop_
  mode_index,        \* mode_index_
  height,            \* height_
  next_movement,     \* the movement being built
  movement,          \* movement_buf
  operator_start,    \* the control loop's operator_start_ || auto_start_
  sampled,           \* history: the face buttons of the last sample
  sampled_for        \* history: consecutive samples that had them

senseVars == <<link, origin>>
tickVars  == <<input_pc, fired, neutral, presses, estop_hold_ticks, height,
               next_movement, movement>>
history   == <<sampled, sampled_for>>
vars      == <<senseVars, tickVars, estop, mode_index, operator_start,
               history>>

InputPc  == {"read", "select", "step", "crouchFirst", "crouchLast", "build",
             "publish"}
Movement == [mode : -1..kFullModeMax, by : {"none", "stick", "nav"},
             height : {"default", "seed"}]

\* The safe stop: IDLE with the mode's default height.
SafeStop == [mode |-> IDLE, by |-> "none", height |-> "default"]

Init ==
  /\ link \in {TRUE, ~LinkDrops}
  /\ origin = TRUE
  /\ input_pc = "read"
  /\ fired = "none"
  /\ neutral = TRUE
  /\ presses = [g \in Press |-> 0]
  /\ estop_hold_ticks = 0
  /\ estop = FALSE
  /\ mode_index = IDLE
  /\ height = "default"
  /\ next_movement = SafeStop
  /\ movement = SafeStop
  /\ operator_start = TRUE
  /\ sampled = {}
  /\ sampled_for = 0

-------------------------------------------------------------------------------
\* The link, the arbiter and the control loop.

\* The 350 ms watchdog clears ctrl_buf; the next sample fills it again.
DropOrRestoreLink ==
  /\ LinkDrops
  /\ link' = ~link
  /\ UNCHANGED <<origin, tickVars, estop, mode_index, operator_start, history>>

ChangeOwner ==
  /\ origin' = ~origin
  /\ UNCHANGED <<link, tickVars, estop, mode_index, operator_start, history>>

\* disarm(), called from the control loop's thread.
Disarm ==
  /\ Disarms
  /\ mode_index' = IDLE
  /\ UNCHANGED <<senseVars, tickVars, estop, operator_start, history>>

-------------------------------------------------------------------------------
\* One tick of the loop.

\* The sample of a tick shows the buttons held.
Pressed(held) == held \intersect Face
Combo(held)   == Cardinality(Pressed(held)) >= 2

Alone(g, held) ==
  /\ ~Combo(held)
  /\ CASE g = "A" -> "A" \in held /\ "Trigger" \notin held
       [] g = "X" -> "X" \in held
       [] OTHER   -> "Y" \in held

\* Mutant: a release lowers the counter instead of clearing it.
PressTicksLeaky(g, held) ==
  IF Alone(g, held) THEN IF presses[g] < Threshold(g) THEN presses[g] + 1
                   ELSE presses[g]
  ELSE IF presses[g] > 0 THEN presses[g] - 1 ELSE 0

\* HoldTrigger::tick(): it fires once, on reaching the threshold.
PressTicks(g, held) ==
  IF ~Alone(g, held) THEN 0
  ELSE IF presses[g] < Threshold(g) THEN presses[g] + 1 ELSE presses[g]
Fires(g, held) == Alone(g, held) /\ presses[g] + 1 = Threshold(g)

\* Mutant: a release only pauses the e-stop's count.
EStopTicksPause(held) ==
  IF Pressed(held) # Face \/ estop_hold_ticks = kEstopHoldTicks
    THEN estop_hold_ticks ELSE estop_hold_ticks + 1

EStopTicks(held) ==
  IF Pressed(held) # Face THEN 0
  ELSE IF estop_hold_ticks < kEstopHoldTicks THEN estop_hold_ticks + 1
  ELSE estop_hold_ticks

\* Mutant: the e-stop follows the buttons.
LatchUnlatched(ticks) == ticks >= kEstopHoldTicks

Latch(ticks) == estop \/ ticks >= kEstopHoldTicks

\* The top of a tick with a sample: e-stop, then the four gestures.
ReadController ==
  /\ input_pc = "read"
  /\ link
  /\ \E held \in Held :
       /\ estop_hold_ticks' = EStopTicks(held)
       /\ estop' = Latch(estop_hold_ticks')
       /\ presses' = [g \in Press |-> PressTicks(g, held)]
       /\ IF \E g \in Press : Fires(g, held)
            THEN /\ fired' = CHOOSE g \in Press : Fires(g, held)
                 /\ input_pc' = "select"
            ELSE fired' = "none" /\ input_pc' = "crouchFirst"
       /\ sampled' = Pressed(held)
       /\ sampled_for' = IF sampled # sampled' THEN 1
                         ELSE IF sampled_for < SampledForCap
                         THEN sampled_for + 1 ELSE sampled_for
  /\ neutral' \in BOOLEAN
  /\ UNCHANGED <<senseVars, mode_index, height, next_movement, movement,
                 operator_start>>

\* Mutant: the safe stop keeps what was commanded last.
LostLinkHolds ==
  /\ input_pc = "read"
  /\ ~link
  /\ UNCHANGED <<senseVars, input_pc, fired, neutral, presses,
                 estop_hold_ticks, height, next_movement, movement, estop,
                 mode_index, operator_start, history>>

\* A tick without one: the safe stop.  No counter is touched.
LostLink ==
  /\ input_pc = "read"
  /\ ~link
  /\ movement' = SafeStop
  /\ UNCHANGED <<senseVars, input_pc, fired, neutral, presses,
                 estop_hold_ticks, height, next_movement, estop, mode_index,
                 operator_start, history>>

\* Mutant: the tap's bound is off by one.
MayStepTapOneMore  == CASE fired = "Y"     -> mode_index <= kBasicModeMax
                        [] fired = "YHold" -> mode_index < kFullModeMax
                        [] fired = "X"     -> mode_index > IDLE

\* The bounds a step is checked against, by a load of mode_index_.
MayStep == CASE fired = "Y"     -> mode_index < kBasicModeMax
             [] fired = "YHold" -> mode_index < kFullModeMax
             [] fired = "X"     -> mode_index > IDLE

SelectMode ==
  /\ input_pc = "select"
  /\ IF fired = "A"
       THEN mode_index' = IDLE /\ input_pc' = "crouchFirst"
       ELSE /\ UNCHANGED mode_index
            /\ input_pc' = IF MayStep THEN "step" ELSE "crouchFirst"
  /\ UNCHANGED <<senseVars, fired, neutral, presses, estop_hold_ticks, height,
                 next_movement, movement, estop, operator_start, history>>

StepMode ==
  /\ input_pc = "step"
  /\ mode_index' = IF fired = "X" THEN mode_index - 1 ELSE mode_index + 1
  /\ input_pc' = "crouchFirst"
  /\ UNCHANGED <<senseVars, fired, neutral, presses, estop_hold_ticks, height,
                 next_movement, movement, estop, operator_start, history>>

\* The crouch band is told by two loads.
CheckCrouch ==
  /\ input_pc \in {"crouchFirst", "crouchLast"}
  /\ IF input_pc = "crouchFirst" /\ mode_index >= kCrouchFirst
       THEN UNCHANGED height /\ input_pc' = "crouchLast"
       ELSE /\ height' = IF input_pc = "crouchLast" /\ mode_index <= kCrouchLast
                           THEN "seed" ELSE "default"
            /\ input_pc' = "build"
  /\ UNCHANGED <<senseVars, fired, neutral, presses, estop_hold_ticks,
                 next_movement, movement, estop, mode_index, operator_start,
                 history>>

\* Mutant: a navigation command drives whoever owns the robot.
NavDrivesAlways(nav) == nav # "stale"

\* A navigation command drives at the origin only, and never in a crouch.
NavDrives(nav) == origin /\ nav # "stale"
NavMode(nav)   == CASE nav = "slow" -> SLOW_WALK
                    [] nav = "walk" -> WALK
                    [] OTHER        -> IDLE

BuildMovement ==
  /\ input_pc = "build"
  /\ \E nav \in NavCommands :
       next_movement' =
         IF ~neutral
           THEN [mode |-> mode_index, by |-> "stick", height |-> height]
         ELSE IF NavDrives(nav)
           THEN [mode |-> NavMode(nav), by |-> "nav", height |-> "default"]
         ELSE [mode |-> IDLE, by |-> "none", height |-> height]
  /\ input_pc' = "publish"
  /\ UNCHANGED <<senseVars, fired, neutral, presses, estop_hold_ticks, height,
                 movement, estop, mode_index, operator_start, history>>

PublishMovement ==
  /\ input_pc = "publish"
  /\ movement' = next_movement
  /\ input_pc' = "read"
  /\ UNCHANGED <<senseVars, fired, neutral, presses, estop_hold_ticks, height,
                 next_movement, estop, mode_index, operator_start, history>>

InputTick ==
  \/ ReadController \/ LostLink \/ SelectMode \/ StepMode \/ CheckCrouch
  \/ BuildMovement \/ PublishMovement

Next ==
  \/ InputTick
  \/ DropOrRestoreLink \/ ChangeOwner \/ Disarm

Spec     == Init /\ [][Next]_vars
FairSpec == Spec /\ WF_vars(InputTick)
-------------------------------------------------------------------------------
\* Type correctness of the operator loop's state; mode_index_ may be one
\* below IDLE, see ModeClamped.
TypeOK ==
  /\ {link, origin, neutral, estop, operator_start} \subseteq BOOLEAN
  /\ input_pc \in InputPc
  /\ fired \in Press \union {"none"}
  /\ \A g \in Press : presses[g] \in 0..Threshold(g)
  /\ estop_hold_ticks \in 0..kEstopHoldTicks
  /\ mode_index \in -1..kFullModeMax
  /\ height \in {"default", "seed"}
  /\ {movement, next_movement} \subseteq Movement
  /\ sampled \subseteq Face
  /\ sampled_for \in 0..SampledForCap

\* A gesture fires only for a button that the samples of its whole threshold
\* showed alone: on the way into A+B+X+Y, or with two buttons that arrive a
\* tick apart, nothing fires.  The e-stop latches only when the samples of its
\* whole threshold showed all four buttons, a lost link in between or not.
GestureIsOneHold ==
  [][/\ fired' \notin {"none", fired} =>
          /\ sampled' = {CASE fired' = "A" -> "A"
                           [] fired' = "X" -> "X"
                           [] OTHER        -> "Y"}
          /\ sampled_for' >= Threshold(fired')
     /\ estop' # estop =>
          sampled' = Face /\ sampled_for' >= kEstopHoldTicks]_vars

\* A mode past WALK is entered through the long hold of Y only.
HardModeIsHeld ==
  [][mode_index' > kBasicModeMax /\ mode_index' > mode_index
       => fired = "YHold"]_vars

\* The recogniser is the operator the control loop is composed with: the
\* e-stop latches once, and armed means that a locomotion mode is selected.
Operator == INSTANCE OperatorInput WITH armed <- mode_index > IDLE,
                                        Locomotion <- TRUE
ImplementsOperatorInput == Operator!InputSpec

\* Losing the VR link ends in the safe stop, whatever was being built.
LostLinkStops == ~link ~> (link \/ movement = SafeStop)

\* Outside the origin a navigation command stops driving.
NavYields ==
  (movement.by = "nav" /\ ~origin) ~> (movement.by # "nav" \/ origin)

\* The mode walk is clamped at both ends.
ModeClamped == mode_index \in IDLE..kFullModeMax
===============================================================================
