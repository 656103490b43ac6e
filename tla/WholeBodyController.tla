-------------------------- MODULE WholeBodyController --------------------------
(***************************************************************************)
(* The 50 Hz control loop (whole_body_controller.cpp): the e-stop gate, the *)
(* LowState-loss policy, the INIT ramp, and the CONTROL tick that asks the *)
(* arbiter who owns the robot, produces one token and publishes a command. *)
(* A tick is cut into actions where another thread's step in between could  *)
(* change what the loop does.  update_arbiter() reads three shared inputs  *)
(* in one action: each mode looks at one of them, kNormal at two that      *)
(* unrelated threads write, so the order of the reads cannot be told.      *)
(***************************************************************************)
EXTENDS TeleopTracker, PlannerInference, VlaTokenReceiver, OperatorInput

CONSTANTS
  kInitTicks,        \* ticks of the INIT ramp
  kStateGraceTicks,  \* ticks without LowState before the base hold
  kBaseRampTicks     \* ticks of the ramp to the base pose

ASSUME ControllerAssumption ==
  /\ kInitTicks \in Nat       /\ kInitTicks > 0
  /\ kStateGraceTicks \in Nat /\ kStateGraceTicks > 0
  /\ kBaseRampTicks \in Nat   /\ kBaseRampTicks > 0

VARIABLES
  pc,
  state,                 \* state_
  init_ticks,            \* init_ticks_
  state_missing_ticks,   \* state_missing_ticks_, saturating once the ramp ended
  base_ramp_from,        \* base_ramp_from_; "None" is its all-zero default
  state_reseed_ticket,   \* state_reseed_ticket_; 0 is "not waiting"
  reinit_ticket_issued,  \* reinit_ticket_issued_
  reinit_ticket,         \* reinit_ticket_
  last_vr3_present,      \* last_vr3_present_
  next_mode,             \* update_arbiter()'s decision, not yet stored
  motor_command,         \* motor_command_buf: what the last command asserts
  token_seq,             \* token_seq_, saturating at 1: a token was decoded
  loss_ticket            \* history: the last ticket of a LowState loss

controllerVars == <<pc, state, init_ticks, state_missing_ticks,
                    base_ramp_from, state_reseed_ticket,
                    reinit_ticket_issued, reinit_ticket, last_vr3_present,
                    next_mode, motor_command, token_seq, loss_ticket>>

ControllerPc == {"gate", "reseed", "tick", "arbiter", "step",
                 "resetCalibration", "resetPlayback", "token", "advance"}
State        == {"INIT", "WAIT_FOR_CONTROL", "CONTROL", "ESTOP"}
Command      == Token \union {"None", "InitRamp", "BaseRamp", "BasePose",
                              "Damping"}
MissingCap   == kStateGraceTicks + kBaseRampTicks

ControllerInit ==
  /\ pc = "gate"
  /\ state = "INIT"
  /\ init_ticks = 0
  /\ state_missing_ticks = 0
  /\ base_ramp_from = "None"
  /\ state_reseed_ticket = 0
  /\ reinit_ticket_issued = FALSE
  /\ reinit_ticket = 0
  /\ last_vr3_present = FALSE
  /\ next_mode = "kNormal"
  /\ motor_command = "None"
  /\ token_seq = 0
  /\ loss_ticket = 0

ControllerTypeOK ==
  /\ pc \in ControllerPc
  /\ state \in State
  /\ init_ticks \in 0..kInitTicks
  /\ state = "INIT" => init_ticks < kInitTicks
  /\ state_missing_ticks \in 0..MissingCap
  /\ base_ramp_from \in Command
  /\ state_reseed_ticket \in Nat
  /\ reinit_ticket_issued \in BOOLEAN
  /\ reinit_ticket \in Nat
  /\ last_vr3_present \in BOOLEAN
  /\ next_mode \in Mode
  /\ motor_command \in Command
  /\ token_seq \in 0..1
  /\ loss_ticket \in Nat

Goto(label) == pc' = label

-------------------------------------------------------------------------------
\* The gates at the top of the loop.

\* Mutant: the reseed side counts the loss as long a tick early.
LongLossEarly == state_missing_ticks >= kStateGraceTicks

LongLoss == state_missing_ticks > kStateGraceTicks

\* Mutant: the e-stop is looked at behind the LowState gate.
EStopTickNeedsState ==
  /\ pc = "gate"
  /\ estop
  /\ low_state
  /\ state' = "ESTOP"
  /\ motor_command' = "Damping"
  /\ UNCHANGED <<pc, init_ticks, state_missing_ticks, base_ramp_from,
                 state_reseed_ticket, reinit_ticket_issued, reinit_ticket,
                 last_vr3_present, next_mode, token_seq, loss_ticket>>
  /\ UNCHANGED <<arbiterVars, trackerVars, plannerVars, readerVars, vlaVars,
                 inputVars, faults>>

EStopTick ==
  /\ pc = "gate"
  /\ estop
  /\ state' = "ESTOP"
  /\ motor_command' = "Damping"
  /\ UNCHANGED <<pc, init_ticks, state_missing_ticks, base_ramp_from,
                 state_reseed_ticket, reinit_ticket_issued, reinit_ticket,
                 last_vr3_present, next_mode, token_seq, loss_ticket>>
  /\ UNCHANGED <<arbiterVars, trackerVars, plannerVars, readerVars, vlaVars,
                 inputVars, faults>>

\* Mutant: the policy damps once the ramp is over.
LossCommandDamps(missing) ==
  IF missing <= kStateGraceTicks THEN motor_command
  ELSE IF missing < MissingCap THEN "BaseRamp" ELSE "Damping"

\* check_safety() fails: nothing within the grace, then the base hold.
LossCommand(missing) ==
  IF missing <= kStateGraceTicks THEN motor_command
  ELSE IF missing < MissingCap THEN "BaseRamp" ELSE "BasePose"

LossTick ==
  LET missing == IF state_missing_ticks < MissingCap
                   THEN state_missing_ticks + 1 ELSE MissingCap
  IN  /\ pc = "gate"
      /\ ~estop
      /\ ~low_state
      /\ state_missing_ticks' = missing
      /\ base_ramp_from' =
           IF missing = kStateGraceTicks + 1 /\ missing # state_missing_ticks
              /\ motor_command # "None"
             THEN motor_command ELSE base_ramp_from
      /\ motor_command' = LossCommand(missing)
      /\ UNCHANGED <<pc, state, init_ticks, state_reseed_ticket,
                     reinit_ticket_issued, reinit_ticket, last_vr3_present,
                     next_mode, token_seq, loss_ticket>>
      /\ UNCHANGED <<arbiterVars, trackerVars, plannerVars, readerVars,
                     vlaVars, inputVars, faults>>

\* The reset of playback_motion_, cursor_, playing_ and last_plan_stamp_.
ResetPlayback ==
  /\ playback' = NoMotion
  /\ plan_seen' = FALSE
  /\ UNCHANGED <<planner_pc, reinit_requested, reinit_done, reinit_req,
                 initialized, context, motion_seq, motion_50hz>>

\* LowState is back.  After a long loss in CONTROL the frozen timeline is
\* dropped, on the way to the reseed request.
PassGates ==
  /\ pc = "gate"
  /\ ~estop
  /\ low_state
  /\ state_missing_ticks' = 0
  /\ IF LongLoss /\ state = "CONTROL"
       THEN ResetPlayback /\ Goto("reseed")
       ELSE UNCHANGED plannerVars /\ Goto("tick")
  /\ UNCHANGED <<state, init_ticks, base_ramp_from, state_reseed_ticket,
                 reinit_ticket_issued, reinit_ticket, last_vr3_present,
                 next_mode, motor_command, token_seq, loss_ticket>>
  /\ UNCHANGED <<arbiterVars, trackerVars, readerVars, vlaVars, inputVars,
                 faults>>

\* -> ORIGIN after a LowState loss: disarm, then ask for the reseed.
RequestLossReseed ==
  /\ pc = "reseed"
  /\ Disarm
  /\ RequestReinit
  /\ state_reseed_ticket' = reinit_requested'
  /\ loss_ticket' = reinit_requested'
  /\ Goto("tick")
  /\ UNCHANGED <<state, init_ticks, state_missing_ticks, base_ramp_from,
                 reinit_ticket_issued, reinit_ticket, last_vr3_present,
                 next_mode, motor_command, token_seq>>
  /\ UNCHANGED <<arbiterVars, trackerVars, readerVars, vlaVars, faults>>

-------------------------------------------------------------------------------
\* The tick of each state.

\* tick_init(): one step of the ramp, if LowState is still there.
InitTick ==
  /\ pc = "tick"
  /\ state = "INIT"
  /\ IF low_state
       THEN /\ motor_command' = "InitRamp"
            /\ init_ticks' = init_ticks + 1
            /\ state' = IF init_ticks' >= kInitTicks THEN "WAIT_FOR_CONTROL"
                        ELSE state
       ELSE UNCHANGED <<motor_command, init_ticks, state>>
  /\ Goto("gate")
  /\ UNCHANGED <<state_missing_ticks, base_ramp_from, state_reseed_ticket,
                 reinit_ticket_issued, reinit_ticket, last_vr3_present,
                 next_mode, token_seq, loss_ticket>>
  /\ UNCHANGED <<arbiterVars, trackerVars, plannerVars, readerVars, vlaVars,
                 inputVars, faults>>

WaitForControlTick ==
  /\ pc = "tick"
  /\ state = "WAIT_FOR_CONTROL"
  /\ state' = IF operator_start THEN "CONTROL" ELSE state
  /\ Goto("gate")
  /\ UNCHANGED <<init_ticks, state_missing_ticks, base_ramp_from,
                 state_reseed_ticket, reinit_ticket_issued, reinit_ticket,
                 last_vr3_present, next_mode, motor_command, token_seq,
                 loss_ticket>>
  /\ UNCHANGED <<arbiterVars, trackerVars, plannerVars, readerVars, vlaVars,
                 inputVars, faults>>

\* tick_control() up to update_arbiter(): gather_robot_state(), then the wait
\* for the reseed after a loss.
Gathered       == low_state /\ ~overspeed

\* Mutants: any acknowledgement will do; the ticket's own is not enough.
AwaitingFirstReseed == state_reseed_ticket # 0 /\ reinit_done = 0
AwaitingNextReseed  ==
  state_reseed_ticket # 0 /\ reinit_done <= state_reseed_ticket

AwaitingReseed == state_reseed_ticket # 0 /\ reinit_done < state_reseed_ticket

GatherState ==
  /\ pc = "tick"
  /\ state = "CONTROL"
  /\ IF ~Gathered \/ AwaitingReseed
       THEN UNCHANGED state_reseed_ticket /\ Goto("gate")
       ELSE state_reseed_ticket' = 0 /\ Goto("arbiter")
  /\ UNCHANGED <<state, init_ticks, state_missing_ticks, base_ramp_from,
                 reinit_ticket_issued, reinit_ticket, last_vr3_present,
                 next_mode, motor_command, token_seq, loss_ticket>>
  /\ UNCHANGED <<arbiterVars, trackerVars, plannerVars, readerVars, vlaVars,
                 inputVars, faults>>

-------------------------------------------------------------------------------
\* update_arbiter()

\* Mutant: waits for a later request than its own.
RecoveryDoneLate == reinit_ticket_issued /\ reinit_done > reinit_ticket

RecoveryDone == reinit_ticket_issued /\ reinit_done >= reinit_ticket

DecideOwner ==
  /\ pc = "arbiter"
  /\ next_mode' = Decide(mode, VlaFresh, VlaAlive, calibrated, RecoveryDone)
  /\ Goto("step")
  /\ UNCHANGED <<state, init_ticks, state_missing_ticks, base_ramp_from,
                 state_reseed_ticket, reinit_ticket_issued, reinit_ticket,
                 last_vr3_present, motor_command, token_seq, loss_ticket>>
  /\ UNCHANGED <<arbiterVars, trackerVars, plannerVars, readerVars, vlaVars,
                 inputVars, faults>>

StoreOwner ==
  /\ pc = "step"
  /\ StepMode(next_mode)
  /\ reinit_ticket_issued' =
       (reinit_ticket_issued /\ ~(mode = "kVla" /\ next_mode = "kRecovering"))
  /\ pc' = CASE mode # "kVla" /\ next_mode = "kVla" -> "resetCalibration"
             [] mode = "kRecovering" /\ next_mode = "kNormal" -> "resetPlayback"
             [] OTHER -> "token"
  /\ UNCHANGED <<state, init_ticks, state_missing_ticks, base_ramp_from,
                 state_reseed_ticket, reinit_ticket, last_vr3_present,
                 next_mode, motor_command, token_seq, loss_ticket>>
  /\ UNCHANGED <<trackerVars, plannerVars, readerVars, vlaVars, inputVars,
                 faults>>

\* -> VLA
EnterVla ==
  /\ pc = "resetCalibration"
  /\ ResetCalibration
  /\ Goto("token")
  /\ UNCHANGED <<state, init_ticks, state_missing_ticks, base_ramp_from,
                 state_reseed_ticket, reinit_ticket_issued, reinit_ticket,
                 last_vr3_present, next_mode, motor_command, token_seq,
                 loss_ticket>>
  /\ UNCHANGED <<arbiterVars, plannerVars, readerVars, vlaVars, inputVars,
                 faults>>

\* -> ORIGIN after a recovery: never resume the pre-VLA timeline.
ReturnToOrigin ==
  /\ pc = "resetPlayback"
  /\ ResetPlayback
  /\ Disarm
  /\ Goto("token")
  /\ UNCHANGED <<state, init_ticks, state_missing_ticks, base_ramp_from,
                 state_reseed_ticket, reinit_ticket_issued, reinit_ticket,
                 last_vr3_present, next_mode, motor_command, token_seq,
                 loss_ticket>>
  /\ UNCHANGED <<arbiterVars, trackerVars, readerVars, vlaVars, faults>>

-------------------------------------------------------------------------------
\* One token, one command.

\* decoder_.step(), SetData() and record_token(); a failed decode publishes
\* and records nothing.
Decode(token) ==
  \/ InferOk /\ motor_command' = token /\ token_seq' = 1
  \/ InferFails /\ UNCHANGED <<motor_command, token_seq>>

VlaTick ==
  /\ pc = "token"
  /\ mode = "kVla"
  /\ CrossfadeInto("Stream", handoff_blend_ticks)
  /\ Decode(Crossfaded("Stream", handoff_blend_ticks))
  /\ Goto("gate")
  /\ UNCHANGED <<state, init_ticks, state_missing_ticks, base_ramp_from,
                 state_reseed_ticket, reinit_ticket_issued, reinit_ticket,
                 last_vr3_present, next_mode, loss_ticket>>
  /\ UNCHANGED <<trackerVars, plannerVars, readerVars, vlaVars, inputVars>>

\* tick_recovery(): the standing blend; the reseed request once it landed.
RecoveryTick ==
  /\ pc = "token"
  /\ mode = "kRecovering"
  /\ BlendToStanding
  /\ IF RecoveryBlendDone /\ ~reinit_ticket_issued
       THEN /\ RequestReinit
            /\ reinit_ticket' = reinit_requested'
            /\ reinit_ticket_issued' = TRUE
       ELSE UNCHANGED <<plannerVars, reinit_ticket, reinit_ticket_issued>>
  /\ Decode(held_token')
  /\ Goto("gate")
  /\ UNCHANGED <<state, init_ticks, state_missing_ticks, base_ramp_from,
                 state_reseed_ticket, last_vr3_present, next_mode, loss_ticket>>
  /\ UNCHANGED <<trackerVars, readerVars, vlaVars, inputVars>>

PlannerOwned == pc = "token" /\ mode \in {"kNormal", "kTeleop"}

\* No motion to track yet: only look for one.
NothingToTrack ==
  /\ PlannerOwned
  /\ playback = NoMotion
  /\ Goto("advance")
  /\ UNCHANGED <<state, init_ticks, state_missing_ticks, base_ramp_from,
                 state_reseed_ticket, reinit_ticket_issued, reinit_ticket,
                 last_vr3_present, next_mode, motor_command, token_seq,
                 loss_ticket>>
  /\ UNCHANGED <<arbiterVars, trackerVars, plannerVars, readerVars, vlaVars,
                 inputVars, faults>>

\* A change of the teleop target's presence arms the crossfade.
EncoderToken   == IF vr3point THEN "EncoderTeleop" ELSE "EncoderG1"
HandoffArmed   == IF vr3point # last_vr3_present THEN kHandoffBlendTicks
                  ELSE handoff_blend_ticks

\* Mutant: an encoder that fails drops the crossfade.
EncoderFailsDisarmed ==
  /\ InferFails
  /\ handoff_blend_ticks' = 0
  /\ Goto("gate")
  /\ UNCHANGED <<mode, held_token, recovery_blend_tick, motor_command,
                 token_seq>>

\* The encoder fails: the tick ends with the crossfade armed.
EncoderFails ==
  /\ InferFails
  /\ handoff_blend_ticks' = HandoffArmed
  /\ Goto("gate")
  /\ UNCHANGED <<mode, held_token, recovery_blend_tick, motor_command,
                 token_seq>>

\* The encoder's token through the arbiter into the decoder.  The timeline
\* advances only when both inferences answered.
TrackMotion ==
  /\ PlannerOwned
  /\ playback # NoMotion
  /\ last_vr3_present' = vr3point
  /\ \/ /\ CrossfadeInto(EncoderToken, HandoffArmed)
        /\ Decode(Crossfaded(EncoderToken, HandoffArmed))
        /\ pc' = IF faults' = faults THEN "advance" ELSE "gate"
     \/ EncoderFails
  /\ UNCHANGED <<state, init_ticks, state_missing_ticks, base_ramp_from,
                 state_reseed_ticket, reinit_ticket_issued, reinit_ticket,
                 next_mode, loss_ticket>>
  /\ UNCHANGED <<trackerVars, plannerVars, readerVars, vlaVars, inputVars>>

\* Blending a plan into a timeline keeps frames of both.
BlendMotion(old, new) == IF new < old THEN new ELSE old

\* advance_playback(): adopt a new plan as the first motion, or blend it in,
\* or drop it when its last frame lies behind the cursor.
AdvancePlayback ==
  /\ pc = "advance"
  /\ IF motion_50hz # NoMotion /\ ~plan_seen
       THEN /\ plan_seen' = TRUE
            /\ IF playback = NoMotion
                 THEN playback' = motion_50hz
                 ELSE playback' \in
                        {playback, BlendMotion(playback, motion_50hz)}
       ELSE UNCHANGED <<plan_seen, playback>>
  /\ Goto("gate")
  /\ UNCHANGED <<planner_pc, reinit_requested, reinit_done, reinit_req,
                 initialized, context, motion_seq, motion_50hz>>
  /\ UNCHANGED <<state, init_ticks, state_missing_ticks, base_ramp_from,
                 state_reseed_ticket, reinit_ticket_issued, reinit_ticket,
                 last_vr3_present, next_mode, motor_command, token_seq,
                 loss_ticket>>
  /\ UNCHANGED <<arbiterVars, trackerVars, readerVars, vlaVars, inputVars,
                 faults>>

ControlTick ==
  \/ EStopTick \/ LossTick \/ PassGates \/ RequestLossReseed
  \/ InitTick \/ WaitForControlTick \/ GatherState
  \/ DecideOwner \/ StoreOwner \/ EnterVla \/ ReturnToOrigin
  \/ VlaTick \/ RecoveryTick \/ NothingToTrack \/ TrackMotion
  \/ AdvancePlayback
===============================================================================
