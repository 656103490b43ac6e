--------------------------- MODULE PlaybackTimeline ---------------------------
(***************************************************************************)
(* The frame arithmetic between the planner's 10 Hz loop and the 50 Hz     *)
(* control loop: need_replan(), the snapshot of the playback a plan is     *)
(* generated from (planner_inference.cpp), and advance_playback(), which   *)
(* blends the plan in at the frame it was generated for and rebases the    *)
(* timeline there (whole_body_controller.cpp).  The playback pauses while  *)
(* ticks do not reach advance_playback(), and the end of a recovery or of  *)
(* a long LowState loss resets it; the planner goes on meanwhile, until it *)
(* is asked for a reseed.                                                  *)
(*                                                                         *)
(* Time is counted in control ticks.  Motions are their lengths and the    *)
(* movement they were planned for.  A change of the mode stands for one of *)
(* the facing or the height as well, a change of the pace for one of the   *)
(* speed or the direction.                                                 *)
(***************************************************************************)
EXTENDS MotionFrames

CONSTANTS
  Period,           \* ticks of kLoopPeriodS
  MaxInference,     \* ticks an inference takes at most
  MaxSkips,         \* ticks that return early in a row, short of a pause
  MaxAge,           \* bound: ticks since last_publish_
  kLookAheadSteps,
  ReplanDefault,    \* loops until the counter reaches kReplanIntervalDefault
  ReplanRunning,    \* ... kReplanIntervalRunning
  PredFrames,       \* values of num_pred_frames, at 30 Hz
  Paces             \* values of the pace; 0 is movement_speed = 0.0

\* The planner keeps its deadline, and a playback that does not pause adopts a
\* plan before the next snapshot.
ASSUME TimelineAssumption ==
  /\ {Period, ReplanDefault, ReplanRunning} \subseteq Nat \ {0}
  /\ {MaxInference, MaxSkips, MaxAge, kLookAheadSteps} \subseteq Nat
  /\ MaxInference + MaxSkips < Period
  /\ ReplanRunning <= ReplanDefault
  /\ PredFrames \subseteq Nat
  /\ \E n \in PredFrames : Usable(n)
  /\ Paces \subseteq Nat

\* The pace of a static mode decides nothing.
Movement == [mode : {"IDLE"}, pace : {1}]
            \union [mode : {"WALK", "RUN"}, pace : Paces]

VARIABLES
  movement,       \* movement_buf
  last_movement,  \* last_movement_state_
  counter,        \* replan_interval_counter_, in loops
  planner_pc,     \* "sleep", or in run_and_publish(): "infer" or "seed"
  reseed,         \* the request_reinit() that the control loop waits for
  elapsed,        \* ticks since t0 of the planner's iteration
  age,            \* ticks since last_publish_, where a replan may ask for it
  gen,            \* the plan under inference
  plan,           \* motion_50hz_buf, until the control loop has seen it
  control,        \* whose the tick is: the playback's or a recovery's
  timesteps,      \* playback_motion_.timesteps
  cursor,         \* cursor_
  planned,        \* history: the movement of the plan published last
  playing,        \* history: the movement of the plan adopted last
  skips,          \* history: control ticks skipped in a row, to a pause
  settled,        \* history: ticks of playback since the movement changed
  unplanned,      \* history: loops of movement since the last replan
  lapse           \* history: an inference failed, or a plan was blended in
                  \* late, and no later plan is adopted

plannerVars ==
  <<last_movement, counter, planner_pc, reseed, elapsed, age, gen>>
playVars    == <<plan, control, timesteps, cursor, planned, playing>>
ghosts      == <<skips, settled, unplanned, lapse>>
vars        == <<movement, plannerVars, playVars, ghosts>>

\* kept, a history: from a snapshot of a playback that was not paused then and
\* has not been reset since; since: frames played since that snapshot.
Plan == [gen_frame : Nat, timesteps : Nat, kept : BOOLEAN, since : Nat]

NoPlan == [gen_frame |-> 0, timesteps |-> 0, kept |-> FALSE, since |-> 0]
Fresh  == plan.timesteps > 0

Paused == skips > MaxSkips

\* MovementState{}
DefaultMovement == [mode |-> "IDLE", pace |-> 1]

\* tick_control() of a loss, once reinit_done() has reached its ticket.
WaitOver == control = "wait" /\ reseed = "acked"

Static(m) == m.mode = "IDLE"
Moving(m) == ~Static(m) /\ m.pace # 0

\* A change is seen in one period, planned, and adopted on the next tick.
Deadline == Period + MaxInference + MaxSkips + 1
MaxGap   == ReplanDefault * Period

Init ==
  \E m \in Movement, n \in PredFrames :
    /\ Static(m) /\ Usable(n)
    /\ movement = m
    /\ last_movement = m
    /\ counter = 0
    /\ planner_pc = "sleep"
    /\ reseed = "none"
    /\ elapsed = 0
    /\ age = 0
    /\ gen = NoPlan
    /\ plan = [NoPlan EXCEPT !.timesteps = Resampled(n)]
    /\ control = "play"
    /\ timesteps = 0
    /\ cursor = 0
    /\ planned = m
    /\ playing = m
    /\ skips = 0
    /\ settled = 0
    /\ unplanned = 0
    /\ lapse = "none"

-------------------------------------------------------------------------------
\* The planner's loop.

ReplanLoops(m) == IF m.mode = "RUN" THEN ReplanRunning ELSE ReplanDefault

\* Mutant: the timer needs more than the interval.
TimeToReplanLate(n) == n > ReplanLoops(movement)

\* replan_interval_counter_ >= interval, which resets it.
TimeToReplan(n) == n >= ReplanLoops(movement)

\* Mutant: a change of the mode is left to the timer.
NeedReplanTimed(n) ==
  ~Static(movement)
    /\ (movement # last_movement \/ (TimeToReplan(n) /\ movement.pace # 0))

\* Mutant: the timer is forgotten.
NeedReplanOnChange(n) ==
  \/ movement.mode # last_movement.mode
  \/ ~Static(movement) /\ movement.pace # last_movement.pace

NeedReplan(n) ==
  \/ movement.mode # last_movement.mode
  \/ /\ ~Static(movement)
     /\ \/ movement.pace # last_movement.pace
        \/ TimeToReplan(n) /\ movement.pace # 0

\* Mutant: the look-ahead is left out.
GenFrameNow == cursor

\* From playback_snapshot(), or estimated from the time of the last plan.
GenFrame ==
  (IF timesteps > 0 THEN cursor ELSE age) + kLookAheadSteps

\* One iteration up to the inference.
Loop ==
  /\ planner_pc = "sleep"
  /\ reseed # "asked"
  /\ elapsed = Period
  /\ elapsed' = 0
  /\ LET n == counter + 1 IN
       /\ counter' = IF TimeToReplan(n) THEN 0 ELSE n
       /\ IF NeedReplan(n)
          THEN /\ planner_pc' = "infer"
               /\ last_movement' = movement
               /\ gen' = [gen_frame |-> GenFrame, timesteps |-> 0,
                          kept |-> timesteps > 0 /\ ~Paused, since |-> 0]
               /\ unplanned' = 0
          ELSE /\ unplanned' = IF Moving(movement)
                               THEN UpTo(unplanned + 1, ReplanDefault) ELSE 0
               /\ UNCHANGED <<planner_pc, last_movement, gen>>
  /\ UNCHANGED <<movement, reseed, age, playVars, skips, settled, lapse>>

\* resample_30hz_to_50hz() and SetData().
Publish ==
  /\ planner_pc = "infer"
  /\ \E n \in PredFrames :
       Usable(n) /\ plan' = [gen EXCEPT !.timesteps = Resampled(n)]
  /\ planned' = last_movement
  /\ gen' = NoPlan
  /\ planner_pc' = "sleep"
  /\ age' = 0
  /\ lapse' = IF lapse = "lapsed" THEN "replanned" ELSE lapse
  /\ UNCHANGED <<movement, last_movement, counter, reseed, elapsed, control,
                 timesteps, cursor, playing, skips, settled, unplanned>>

\* Enqueue fails, or the output has NaNs or a length out of range.
InferenceFails ==
  /\ planner_pc = "infer"
  /\ planner_pc' = "sleep"
  /\ lapse' = "lapsed"
  /\ gen' = NoPlan
  /\ UNCHANGED <<movement, last_movement, counter, reseed, elapsed, age,
                 playVars, skips, settled, unplanned>>

\* An iteration that finds a request: the buffer is cleared first.
Reseed ==
  /\ planner_pc = "sleep"
  /\ reseed = "asked"
  /\ elapsed = Period
  /\ planner_pc' = "seed"
  /\ reseed' = "served"
  /\ elapsed' = 0
  /\ plan' = NoPlan
  /\ unplanned' = 0
  /\ UNCHANGED <<movement, last_movement, counter, age, gen, control,
                 timesteps, cursor, planned, playing, skips, settled, lapse>>

\* initialize_once(), and the acknowledgement of the request it was started
\* for: one that came meanwhile is still to be served.
PublishSeed ==
  /\ planner_pc = "seed"
  /\ \E n \in PredFrames :
       Usable(n) /\ plan' = [NoPlan EXCEPT !.timesteps = Resampled(n)]
  /\ planned' = DefaultMovement
  /\ last_movement' = DefaultMovement
  /\ counter' = 0
  /\ reseed' = IF reseed = "served" THEN "acked" ELSE reseed
  /\ planner_pc' = "sleep"
  /\ age' = 0
  /\ unplanned' = 0
  /\ UNCHANGED <<movement, elapsed, gen, control, timesteps, cursor, playing,
                 skips, settled, lapse>>

\* No robot state, or the inference fails: the next iteration tries again.
SeedFails ==
  /\ planner_pc = "seed"
  /\ planner_pc' = "sleep"
  /\ reseed' = "asked"
  /\ UNCHANGED <<movement, last_movement, counter, elapsed, age, gen, playVars,
                 ghosts>>

-------------------------------------------------------------------------------
\* The control loop's tick.

\* The planner's thread is not late: it has started, or ended, what is due.
TimePasses ==
  /\ planner_pc = "sleep" => elapsed < Period
  /\ planner_pc # "sleep" => elapsed < MaxInference
  /\ elapsed' = elapsed + 1
  /\ age' = IF reseed' = "acked" \/ (reseed' = "none" /\ timesteps' = 0)
            THEN UpTo(age + 1, MaxAge) ELSE 0
  /\ settled' = IF control' # "play" \/ skips' > MaxSkips THEN 0
                ELSE UpTo(settled + 1, Deadline)

BlendedLength == UpTo(plan.gen_frame - cursor + plan.timesteps, kCapacity)

\* The first plan is copied, a later one blended; one that ended before the
\* cursor is dropped.
Adopted ==
  IF ~Fresh THEN [timesteps |-> timesteps, cursor |-> cursor]
  ELSE IF timesteps = 0 THEN [timesteps |-> plan.timesteps, cursor |-> 0]
  ELSE IF BlendedLength > 0 THEN [timesteps |-> BlendedLength, cursor |-> 0]
  ELSE [timesteps |-> timesteps, cursor |-> cursor]

NextFrame(adopted) == UpTo(adopted.cursor + 1, adopted.timesteps - 1)

Played(adopted) == NextFrame(adopted) - adopted.cursor

\* The blend starts later than the look-ahead: until then the end of the old
\* motion is repeated.
Late == Fresh /\ timesteps > 0 /\ plan.gen_frame - cursor > kLookAheadSteps

\* advance_playback()
Tick ==
  /\ control \in {"play", "return"} \/ WaitOver
  /\ Fresh \/ timesteps > 0
  /\ control' = "play"
  /\ reseed' = "none"
  /\ timesteps' = Adopted.timesteps
  /\ cursor' = NextFrame(Adopted)
  /\ playing' = IF Fresh /\ (timesteps = 0 \/ BlendedLength > 0)
                THEN planned ELSE playing
  /\ plan' = NoPlan
  /\ gen' = [gen EXCEPT !.since = IF gen.kept THEN @ + Played(Adopted) ELSE 0]
  /\ skips' = 0
  /\ lapse' = IF Late THEN "lapsed"
              ELSE IF Fresh /\ lapse = "replanned" THEN "none" ELSE lapse
  /\ TimePasses
  /\ UNCHANGED <<movement, last_movement, counter, planner_pc, planned,
                 unplanned>>

\* The tick returns before advance_playback(): a failed step, the grace, a
\* session, its recovery, or the wait for the reseed.
TickSkipped ==
  /\ control # "return"
  /\ skips' = IF timesteps = 0 THEN 0 ELSE UpTo(skips + 1, MaxSkips + 1)
  /\ UNCHANGED <<movement, last_movement, counter, planner_pc, reseed, gen,
                 playVars, unplanned, lapse>>
  /\ TimePasses

\* The session's recovery has landed its blend and asks for the reseed.
Recover ==
  /\ control = "play" \/ WaitOver
  /\ timesteps = 0 \/ Paused
  /\ control' = "recover"
  /\ reseed' = "asked"
  /\ UNCHANGED <<movement, last_movement, counter, planner_pc, gen, plan,
                 timesteps, cursor, planned, playing, skips, unplanned,
                 lapse>>
  /\ TimePasses

\* Mutant: the timeline is not reset.
NoReset ==
  UNCHANGED <<timesteps, cursor, skips, playing, gen, plan>>

\* playback_motion_ = {}, cursor_ = 0; last_plan_stamp_ = {} makes the plan in
\* the buffer one to adopt, whichever it is.
ResetPlayback ==
  /\ timesteps' = 0
  /\ cursor' = 0
  /\ skips' = 0
  /\ playing' = DefaultMovement
  /\ gen' = [gen EXCEPT !.kept = FALSE]
  /\ plan' = [plan EXCEPT !.kept = FALSE]

\* kRecovering -> kNormal: the tick that sees the acknowledgement resets the
\* timeline, and goes on to Tick.
Return ==
  /\ control = "recover"
  /\ reseed = "acked"
  /\ control' = "return"
  /\ reseed' = "none"
  /\ ResetPlayback
  /\ UNCHANGED <<movement, last_movement, counter, planner_pc, elapsed, age,
                 planned, settled, unplanned, lapse>>

\* LowState is back after a loss that outlasted the grace: the timeline is
\* reset before the reseed is asked for.
LongLoss ==
  /\ control # "return"
  /\ timesteps = 0 \/ Paused
  /\ control' = "wait"
  /\ reseed' = "asked"
  /\ ResetPlayback
  /\ UNCHANGED <<movement, last_movement, counter, planner_pc, planned,
                 unplanned, lapse>>
  /\ TimePasses

-------------------------------------------------------------------------------
\* The input thread.

ChangeMovement ==
  /\ movement' \in Movement \ {movement}
  /\ settled' = 0
  /\ unplanned' =
       IF Moving(movement) /\ Moving(movement') THEN unplanned ELSE 0
  /\ UNCHANGED <<plannerVars, playVars, skips, lapse>>

PlannerNext == Loop \/ Publish \/ InferenceFails
ReseedNext  == Reseed \/ PublishSeed \/ SeedFails
ControlNext == Tick \/ TickSkipped \/ Recover \/ Return \/ LongLoss

Next == PlannerNext \/ ReseedNext \/ ControlNext \/ ChangeMovement

Spec == Init /\ [][Next]_vars

-------------------------------------------------------------------------------
\* Type correctness of the timeline.
TypeOK ==
  /\ movement \in Movement
  /\ last_movement \in Movement
  /\ counter \in 0 .. ReplanDefault
  /\ planner_pc \in {"sleep", "infer", "seed"}
  /\ reseed \in {"none", "asked", "served", "acked"}
  /\ elapsed \in 0 .. Period
  /\ age \in 0 .. MaxAge
  /\ gen \in Plan
  /\ plan \in Plan
  /\ control \in {"play", "recover", "return", "wait"}
  /\ timesteps \in 0 .. kCapacity
  /\ cursor \in Nat
  /\ planned \in Movement
  /\ playing \in Movement
  /\ skips \in 0 .. MaxSkips + 1
  /\ settled \in 0 .. Deadline
  /\ unplanned \in 0 .. ReplanDefault
  /\ lapse \in {"none", "lapsed", "replanned"}

\* Conditions on the lengths of the plans: every plan has k frames, is not
\* over when its inference ends, and lasts one interval of replans and k
\* frames more.
PlansHave(k)            == \A n \in PredFrames : Usable(n) => Resampled(n) >= k
PlansOutlastInference   == PlansHave(MaxInference + 2 - kLookAheadSteps)
PlansOutlastInterval(k) == PlansHave(MaxGap + k + 1)

(* The cursor is inside the motion that is played, and past its first      *)
(* frame: the encoder takes a cursor of 0 for a new motion and turns the   *)
(* robot's heading reference to its first frame (token_encoder.cpp), which *)
(* is meant for the first plan only and not for one that is blended in.    *)
HeadingIsKept == timesteps > 0 => cursor \in 1 .. timesteps - 1

(* No index leaves its motion: the resampler's source frames, the frames   *)
(* the encoder looks ahead to, and both sides of a blend, whose clamps     *)
(* have a range only while neither motion is empty.                        *)
FramesInRange ==
  /\ ResamplerStaysInside
  /\ timesteps > 0 => \A k \in 0 .. kFutFrames - 1 :
       TargetFrame(cursor, k, timesteps) \in cursor .. timesteps - 1
  /\ Fresh /\ timesteps > 0 => \A f \in 0 .. BlendedLength - 1 :
       /\ BlendOld(f, cursor, timesteps) \in 0 .. timesteps - 1
       /\ BlendNew(f, cursor, plan.gen_frame, plan.timesteps)
            \in 0 .. plan.timesteps - 1

(* The context of a replan of a moving robot runs past the last frame that *)
(* was planned by ContextOverrun at most, however late the timer fires:    *)
(* the clamps repeat that frame there, and the planner is told of a robot  *)
(* that stops.  Snapshots of a paused playback may run over by more.       *)
ContextOverrun == kLookAheadSteps + ContextEnd(0) - (MaxInference + 1)

ContextNearMotion ==
  [][planner_pc = "sleep" /\ planner_pc' = "infer" /\ gen'.kept
       /\ Moving(playing) /\ lapse = "none" =>
         ContextEnd(gen'.gen_frame) <= timesteps - 1 + ContextOverrun]_vars

(* A plan whose snapshot was taken from a playback that was not paused     *)
(* names the frame of the snapshot plus the look-ahead, wherever it waits  *)
(* and however long, unless the timeline is reset: no other plan rebases   *)
(* it in between.  A snapshot of a pause may be taken while a plan waits   *)
(* to rebase the timeline, and after a reset the frame is of a timeline    *)
(* that is gone; advance_playback() blends both in without a check.        *)
PlanIsAligned ==
  /\ planner_pc = "infer" /\ gen.kept =>
       gen.gen_frame + gen.since = cursor + kLookAheadSteps
  /\ Fresh /\ plan.kept =>
       plan.gen_frame + plan.since = cursor + kLookAheadSteps

(* A motion that moves is replaced before its last frame is reached, where *)
(* the playback would freeze in the middle of a stride, unless an          *)
(* inference failed or a plan came late since it was adopted.              *)
NeverFreezes ==
  Moving(playing) /\ timesteps > 0 /\ cursor = timesteps - 1 => lapse # "none"

(* A movement that has not changed for Deadline ticks of a playback that   *)
(* did not pause is the one that is played, unless an inference failed or  *)
(* a plan came late meanwhile.                                             *)
FollowsInTime ==
  settled = Deadline /\ timesteps > 0 /\ lapse = "none" =>
    /\ playing.mode = movement.mode
    /\ ~Static(movement) => playing.pace = movement.pace

(* While the robot is to move, replans are at most one interval apart,     *)
(* those that follow a failed inference included.                          *)
ReplansInTime == unplanned < ReplanDefault
===============================================================================
