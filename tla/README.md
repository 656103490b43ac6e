# Verification of kist-gearsonic-inference

TLA+ specifications of the real-time control process in this repository, the
TLC configurations that model-check them on small instances, and TLAPS proofs
of their safety properties for every value of the constants. Paths below are
relative to the repository.

## 1. The system

One process drives a humanoid robot. Every component is a singleton with a
thread of its own; components share state through locked one-slot buffers
(`DataBuffer`: `SetData`, `GetData`, `Clear`) and a few atomics.

| Component | State | Operations | Talks to |
|---|---|---|---|
| Whole-body controller, 50 Hz (`src/control/whole_body_controller.cpp`) | `state_` (INIT, WAIT_FOR_CONTROL, CONTROL, ESTOP), missing ticks, reseed tickets, playback motion and cursor, the command buffer | the loop's gates, the INIT ramp, the CONTROL tick, loss policy, `reset_playback`, `advance_playback`, `start`, `stop` | reads LowState, input, teleop target, stream tokens, plans; steps the arbiter; requests reseeds |
| Control arbiter (`include/control/control_arbiter.hpp`) | mode, held token, blend counters | `decide`, `step_mode`, `select_token`, `arm_handoff` | called by the control loop; the mode is read by three other threads |
| Teleop tracker, 50 Hz (`src/teleop/teleop_tracker.cpp`) | calibration, requests, hold counter, `vr3point_buf` | reset, gesture, process, publish | the body stream; reset by the control loop |
| Planner, 10 Hz (`src/planner/planner_inference.cpp`) | reseed request and acknowledgement, context, `motion_50hz_buf` | reseed, initialize, replan, publish | LowState, the movement command, a snapshot of the playback |
| Input handler, 500 Hz (`src/motion/input_handler.cpp`) | hold counters, `estop_`, `mode_index_`, height, `movement_buf` | gestures, e-stop, mode walk, movement, safe stop, `disarm` (called by the control loop) | VR controller samples, navigation commands |
| Robot state reader (`src/unitree/unitree_state_reader.cpp`) | `unitree_state_buf` | DDS callback, watchdog | everyone |
| Token receiver (`src/vla/vla_token_receiver.cpp`) | `latent_buf` | DDS callback | controller, hand writer |
| Command writer, 500 Hz (`src/unitree/unitree_command_writer.cpp`) | the outgoing command | loop, damping burst on `stop` | repeats the controller's last command |
| Hand writer, 100 Hz (`src/unitree/hand_command_writer.cpp`) | fist delay | choose a source per tick | tracker, arbiter, input, stream |
| VR reader (`src/pico/pico_vr_reader.cpp`) | two buffers | SDK callback, watchdog | input, tracker, hand writer |
| Lifecycle (`src/system/gearsonic_inference.cpp`) | `*_started_` flags, `quit_` | `start`, rollback, `stop`, signals | all stages |
| Engine (`src/tensorrt/InferenceEngine.cpp`) | the `.trt` file beside each model; the tensors' shapes and buffers | hash, convert, write, load, `InitInputs`, validation, copies of an inference | planner, encoder, decoder |
| State logger (`include/control/state_logger.hpp`) | the ring of robot states | `Log`, `GetLatest` | the control loop logs, the decoder reads |
| Token publisher (`src/collector/motion_token_publisher.cpp`) | `last_seq_` | poll the newest token, publish | `motion_token_buf` of the control loop |
| Encoder and decoder models, buffers, kinematics, configuration | | | see section 8 |

What is hard here: a dozen threads meet between any two reads of one tick; two
parties (an operator in VR, an external token stream) compete for the robot
while a third (the origin policy) has to take it back standing; a LowState loss
may fall anywhere into that; plans are generated from state that may be
replaced while the network runs; and nothing ever confirms that a command
stopped being asserted, because the writer repeats the last one for ever.

What makes each component correct:

* arbiter: one owner at a time, who is first keeps the robot, exits pass through
  the origin, tokens slide and never step;
* controller: the loss policy outlasts the loss until a reseed is acknowledged,
  damping is final and comes from the e-stop, nothing older than the reseed is
  played;
* tracker: targets exist while calibrated only, and no calibration hides in a
  session;
* planner: an acknowledgement answers for the plan in the buffer; plans meet
  the frame they were planned for, and playback never runs dry;
* input: a gesture is one hold, the e-stop latches, a lost link stops;
* lifecycle: the robot's last command is damping, rollback is complete;
* hand writer: a grasp outlives the loss of its stream, the e-stop opens it;
* engine: what runs is what was hashed, and what a network reads is what its
  caller gave it;
* state feed: robot state is never acted on for long after it fell silent, the
  observed history is the latest one, and a token is lost to a stall only.

## 2. Modules

| Module | Models | Composed in |
|---|---|---|
| `Ownership` | the abstract protocol: who holds the robot, and the token that drives it | refined by `GearsonicControl` |
| `ControlArbiter` | `control_arbiter.hpp` | `TeleopTracker` and on |
| `TeleopTracker` | `teleop_tracker.cpp`, four steps per tick | `GearsonicControl` |
| `PlannerInference` | the planner's loop: reseed, initialize, acknowledge, replan, publish | `GearsonicControl` |
| `ModelInference` | an inference that answers or fails | planner, controller |
| `UnitreeStateReader`, `VlaTokenReceiver` | LowState and the token's age | `GearsonicControl` |
| `OperatorInput` | what the control loop sees of the operator | `GearsonicControl`; implemented by `InputHandler` |
| `WholeBodyController` | the control loop, cut wherever another thread matters | `GearsonicControl` |
| `GearsonicControl` | all of the above interleaved, and the properties | |
| `ControlInvariants`, `ControlProofs` | the inductive invariants of the composed system and their proofs | |
| `MotionFrames` | frame arithmetic: the resampler, the context, the blend and the encoder's look ahead | `PlaybackTimeline` |
| `PlaybackTimeline` | `need_replan`, frame numbers and lengths, `advance_playback`, its pauses, its two resets and the reseeds they wait for, in ticks | |
| `MCPlaybackTimeline` | the premises of the theorems, for the instance that TLC checks | |
| `PlaybackProofs` | proofs of the timeline and of the frame arithmetic | |
| `StateLogger`, `LoggerProofs` | the observation ring, and the proof about it | `StateFeed` |
| `StateFeed` | LowState, its watchdog, the control loop's two reads, the history and the token publisher, in time | |
| `FeedProofs` | the proofs about it; it drives `LoggerSpec` | |
| `InputHandler`, `InputProofs` | the 500 Hz loop | implements `OperatorInput` |
| `HandCommandWriter`, `HandProofs` | one hand tick, read by read | |
| `GearsonicInference`, `LifecycleProofs` | `start`, the takeover of the command topic, rollback, `stop`, the writer and the loop's last command | |
| `EngineCache`, `EngineProofs` | the engine file through crashes and exchanged models, then the tensors' buffers, their validation by elements and their copies by bytes | |
| `MCEngineCache` | four models, by the sizes and types of their tensors | |

Correspondence with the code:

* A name in TLA+ is the code's name where there is one (`handoff_blend_ticks`,
  `reinit_done`, `estop_hold_ticks`). A variable marked "history" is not in the
  code; no guard reads it.
* One action is one handler, or one step of a tick where another thread's step
  in between changes the outcome. `pc`, `tracker_pc`, `planner_pc`, `input_pc`,
  `hand_pc`, `watchdog_pc` and `loop_pc` name those steps.
  `update_arbiter()` reads three shared inputs in one action: each mode consults
  one of them, and `kNormal` two that unrelated threads write, so that the order
  of the reads cannot be told.
* A token is its source ("EncoderG1", "EncoderTeleop", "Stream", "Standing") or
  "Mixed"; a command is such a token or one of the ramps, the base pose and
  damping. A motion is the number of the reseed it descends from
  (`PlannerInference`), or its length and the movement it was planned for
  (`PlaybackTimeline`): the two modules ask different questions of the planner.
  `PlaybackTimeline` keeps of the loss policy and of a session's recovery what
  touches the playback: ticks that return before `advance_playback()`
  (`TickSkipped`), the request for a reseed, and the reset of the timeline,
  which a recovery does after the acknowledgement (`Return`) and a long loss
  before its request (`LongLoss`). How a session begins and how the hand-over
  blends is the composed system's.
  In the same way `UnitreeStateReader` says what a loss does and has no clock,
  and `StateFeed` says when it is seen, with one clock and little else.
* Counters that only have to reach a threshold saturate there.
* The age of a stream token is one of none, fresh, stale (younger than the
  age that ends a session) and lost.

`OwnershipProtocol` maps the abstract token to the arbiter's held token once a
first token was decoded, and the four modes to the four owners.

## 3. Runs

| Run | Module | Asks |
|---|---|---|
| `Arbitration` | `GearsonicControl` | do teleop, stream and origin share the robot correctly, can a target outlive its calibration, and does the system implement `Ownership`? |
| `LossReentry` | `ControlInvariants` | what is commanded and played through two LowState losses, with failing inferences? |
| `Progress` | `GearsonicControl` | do the e-stop, the recovery and the reseed waits reach their ends? |
| `StateFeed` | `StateFeed` | how long may the loop act on old state, what does a clear cost, what does the decoder observe, which tokens are lost? |
| `Operator` | `InputHandler` | are gestures single holds, does a lost link stop, is it the `OperatorInput` of the core? |
| `Lifecycle` | `GearsonicInference` | what is sent last, what is left running, and who else publishes? |
| `Hands` | `HandCommandWriter` | who moves the hands? |
| `Playback` | `MCPlaybackTimeline` | which plans are aligned, are they in time and long enough, and does every frame read exist, through pauses, resets and reseeds? |
| `EngineCache` | `MCEngineCache` | is the loaded engine the hashed model's, across crashes, and are its inferences fed? |
| `HiddenTeleop`, `VlaReseed`, `DisarmRace` | | disagreements with comments, section 7 |

### Properties

Core. `NoHiddenTeleop`: a calibration inside a session or its recovery is one
the pending reset drops. `HeldIsLastCommand`: an armed blend starts from the
last output. `BaseHeldUntilReseed`, `DampingIsEStop`, `LossOriginFresh`: the
loss policy. `TargetIsCalibrated`: a target implies its calibration.
`OwnershipProtocol`: refinement. `EStopDamps`, `RecoveryEnds`,
`ReseedWaitEnds`: liveness.

State feed. `NeverBlind`: past the watchdog's limit, its sleep, its clear and a
period, ticks are missing ones. `MissesMeanSilence`: the watchdog tests one
sample and clears another; that costs one tick and never the grace window.
`HistoryIsLatest`: the ring answers with the last entries in order.
`TokensAreRecorded`: messages are ever newer, and a token goes unread only
while one write blocks for as long as the time between two decodes.

Operator. `GestureIsOneHold`, which has the e-stop in it, and `HardModeIsHeld`
compare what fires with the history of samples, so that a threshold reached by
adding holds up, or on the way into A+B+X+Y, is caught. `LostLinkStops`, `NavYields`:
liveness. `ImplementsOperatorInput`: refinement.

Lifecycle. `DampingIsLast`, `NoStageOutlivesItsSource`. `RolledBack`: after a
`start()` that returned false no thread runs, and no subscription is live but
that of a reader that failed between its two subscribers. `QuitStops`: a quit
takes down what a start that threw left running, with the same exception.
`OnePublisher`: the writer runs beside an active motion service
only if the service left the first question unanswered, which the code takes
for its absence.

Hands. `GraspIsKept`, `FistFirst`, `EStopStopsHands`, `StreamYields`.

Playback. `PlanIsAligned`: a plan in flight or in the buffer names its
snapshot's frame plus the look-ahead, on the timeline it will be blended into,
unless its snapshot was taken during a pause or the timeline has been reset
since; section 5 says what happens to those. `NeverFreezes`: a moving playback
reaches no last frame unless an inference failed or a plan was blended in late.
`FollowsInTime`: a settled movement is played within a period, an inference and
a tick. `ReplansInTime`: replans of a moving robot are at most one interval
apart. `HeadingIsKept`: the cursor is inside the motion and never on its frame 0,
where the encoder would turn the robot's heading reference. `FramesInRange`:
every index into a sequence is inside it. `ContextNearMotion`: the context of a
replan runs past the last planned frame by `ContextOverrun` at most.

Engine. `LoadedIsCurrent` names the only two mishaps after which another
model's engine runs; `RejectsOnlyTornFiles` and `HeaderIsWhole` say which files
`Initialize()` can meet. `InferenceIsFed`: every inference copies each tensor
that the start compared, but for one of another data type: start-ups compare
numbers of elements, and the copy compares bytes.

### Bounds, and why they are enough

* Ramps and blends (`kInitTicks`, `kHandoffBlendTicks`, `kRecoveryBlendTicks`,
  `kBaseRampTicks`, `kStateGraceTicks`, `kCalibHoldTicks`) are 1 or 2 ticks:
  two tell the first tick, one in between and the last apart; the proofs hold
  for every value.
* `MaxStreams` is the number of times the stream comes back from silence. Two
  are needed for a stream that returns in the recovery and again afterwards.
  `MaxLosses` is the number of LowState losses: two, so that a loss can fall
  into the wait for the reseed of another. `MaxFaults` is the number of failed
  inferences.
* `Arbitration` runs without the body's lag, which makes its `TargetIsCalibrated`
  the weaker instance: the theorem covers the lag. `Strengthened`, the invariant
  of the proofs, is proved and in no run.
* `StateFeed` counts units of 5 ms: a control period of 4, a watchdog that sleeps
  2, a publisher that sleeps 1 (4 ms in the code), limits of 6 and 12 for the
  code's 12 and 100, which keep their order, and work that may last `MaxLag = 1`.
  A DDS write may block for `MaxWrite = 4`, a control period, which is what it
  takes to lose a token. Six ticks wrap the ring of three entries; the
  properties' limits add up to 13 units, so that both limits and every phase of
  the two sleeps are met within the six.
* The switches `Gestures`, `BodyLags`, `Replans`, `Locomotion` and the set
  `Speeds` turn parts of the environment on. No run turns everything on: each
  turns on what its question is about, and the proofs do without the switches.
* `Held` in `Operator` are eight button combinations: nothing, each button that
  fires, one with a trigger, a pair, a triple and the e-stop. The thresholds 2
  and 3 order as the real ones do.
* `MaxStarts = 2`: the second start finds what the first left. `MaxAttempts = 2`
  of the writer's five tells a retry from giving up.
* `Playback` scales the real numbers (loops of 5 ticks, inferences of up to 3,
  11 loops between timed replans, plans of 60 frames, a look-ahead of 2, four
  context frames) to 4, 1, 2, 11, 1 and two. The real interval of 1.0 s takes 11
  loops because ten additions of 0.1 stay below 1.0 in doubles. `NeverFreezes`
  needs plans of `ReplanDefault * Period + MaxInference + 2` frames
  (`PlansOutlastInterval`), since the first plan is adopted without its
  look-ahead. The instance has exactly that many, 11, and so has the code: the
  shortest plan that the token mask is meant to allow, 36 frames at 30 Hz,
  resamples to 60, and inferences of up to three ticks need 60. TLC finds a
  frozen playback with one frame less; a slower inference would show.
  With plans of that length a replan's context does run past the motion's end,
  as in the code: its last frame lies five frames behind `gen_frame`, which is
  two ahead of the cursor, and after the longest interval four planned frames
  are left. `ContextOverrun` is what remains, 3 of 7 frames at the real numbers
  and 1 of 3 in the instance, and TLC meets a replan that runs over by all of it.
  `Paused` begins at the second tick skipped in a row, and a pause may last for
  any time (`skips` saturates): every phase of the planner falls into one, a
  loss may fall into a recovery and the reverse, and a reseed may fail any number
  of times. `TimelineAssumption` says that inference and the ticks lost outside
  pauses fit into a period, and that running modes replan at least as often as
  the others (`planner_inference.cpp`, `need_replan`: 0.1 s against 1.0 s).
  `PredFrames` holds usable and refused lengths.
* `EngineCache` has four models: the wanted one, one with another size of a
  tensor that the planner does not compare, one that agrees in bytes only and
  one that agrees in elements only. It has no other bound.

### Fairness

`Threads` is weak fairness of the control loop, the tracker and the planner,
each of which sleeps to its next period and is never blocked. Nothing is assumed
of the operator, the stream or LowState, except in `RecoveryEnds` and
`ReseedWaitEnds`, whose premise `LowStateReturns` says that the robot publishes
again after each of the finitely many losses: without robot state the
controller holds the base pose and waits, as it should. `EStopDamps` goes
without that premise.
`StateFeed` needs no fairness: its limits are invariants over a clock that does
not pass a thread that is due.
`InputHandler` and `HandCommandWriter` assume weak fairness of their own loop.
`GearsonicInference` assumes that the caller's loop polls `quit_` and calls
`stop()`, that each step of `start()` and `stop()` returns, and that every
thread reads its `stop_`. Only that run disables the deadlock check: the
process really ends.
The safety runs need no fairness. `PlaybackTimeline` states its deadlines as
invariants over a clock instead.

## 4. Proofs

The theorems hold for every value of the constants that satisfies the named
assumptions: positive tick counts, bounds in `Nat`, switches in `BOOLEAN`, and the
orders that the code's own numbers have. A further condition is written into
the theorem that needs it. TLC evaluates the assumptions on every instance.

| Module | Theorem | Says |
|---|---|---|
| `ControlProofs` | `TypeCorrect` | `Spec => []TypeOK` |
| | `DampingOnlyAfterEStop` | `Spec => []DampingIsEStop` |
| | `DampingIsFinal` | a commanded damping stays the command: the safety half of `EStopDamps` |
| | `BaseHeld` | `Spec => []BaseHeldUntilReseed` |
| | `LossOriginIsFresh` | `Spec => []LossOriginFresh` |
| | `ImplementsOwnership` | `Spec => OwnershipProtocol` |
| | `HiddenTeleopNeedsLag` | without a body lag, `Spec => []NoHiddenTeleop` |
| | `TargetNeedsCalibration` | `Spec => []TargetIsCalibrated` |
| | `HeldIsCommanded` | `Spec => [](faults = 0 => HeldIsLastCommand)` |
| | `SessionOriginIsFresh` | without the late replan of section 7, `Spec => []VlaOriginFresh` |
| `LoggerProofs` | `LatestAreLatest` | `LoggerSpec => []HistoryIsLatest` |
| `FeedProofs` | `LoopIsNeverBlind` | `Spec => []NeverBlind` |
| | `OneRaceCostsOneTick` | `Spec => MissesMeanSilence` |
| | `TokensReachTheRecording` | `Spec => TokensAreRecorded` |
| | `LoopDrivesLogger` | `Spec => LoggerSpec`, a refinement |
| | `FeedHistoryIsLatest` | `Spec => []HistoryIsLatest`, of the two specifications |
| `PlaybackProofs` | `ResamplerInside` | `ResamplerStaysInside`, for every length and capacity |
| | `TimelineTypes` | `Spec => []TypeOK` |
| | `PlansAreAligned` | `Spec => []PlanIsAligned` |
| | `FramesStayInRange` | `Spec => []FramesInRange` |
| | `ReplansComeInTime` | `Spec => []ReplansInTime` |
| | `HeadingStays`, `MovementIsFollowed` | `PlansOutlastInference` implies `HeadingIsKept` and `FollowsInTime` |
| | `PlaybackGoesOn` | `PlansOutlastInterval(MaxInference + 1)` implies `NeverFreezes` |
| | `ContextStaysNear` | the same premise implies `ContextNearMotion` |
| `InputProofs` | `InputTypes` | `Spec => []TypeOK`: the race takes the mode to -1 and no further |
| | `GesturesAreHolds` | `Spec => GestureIsOneHold` |
| | `HardModesAreHeld` | `Spec => HardModeIsHeld` |
| | `RecogniserIsTheOperator` | `Spec => ImplementsOperatorInput` |
| | `OnlyTheRaceUnclamps` | without the race of section 7, `Spec => []ModeClamped` |
| `HandProofs` | `HandTypes` | `Spec => []TypeOK` |
| | `GraspsAreKept` | `Spec => GraspIsKept` |
| | `FistComesFirst` | `Spec => FistFirst` |
| | `StoppedHandsStay` | stopped hands stay stopped: the safety half of `EStopStopsHands` |
| `EngineProofs` | `EngineTypeCorrect` | `Spec => []TypeOK` |
| | `EngineIsCurrent` | `Spec => []LoadedIsCurrent` |
| | `RejectedWasTorn` | `Spec => []RejectsOnlyTornFiles` |
| | `ShortFilesAreRebuilt` | `Spec => []HeaderIsWhole` |
| | `FedAsCompared` | `Spec => []InferenceIsFed` |
| `LifecycleProofs` | `LifecycleTypeCorrect` | `Spec => []TypeOK` |
| | `DampingAlwaysLast` | `Spec => []DampingIsLast` |
| | `SourcesOutlive` | `Spec => []NoStageOutlivesItsSource` |
| | `FailedStartsRollBack` | `Spec => []RolledBack` |
| | `NeverTwoPublishers` | `Spec => []OnePublisher` |

Each is an induction over `Next`, one lemma per group of actions, with a
strengthening of what it states.

The composed system (`ControlInvariants`; `Strengthened` is the conjunction of
those that hold without a proviso):

* `EStopInv`: an ESTOP state is seen at the gate only, so that no tick in
  flight writes a command after the damping. `FinalInv` adds that damping means
  an ESTOP state, from which no step leads out.
* `LossInv`: missing ticks are counted at the gate only, a reseed is asked for in
  CONTROL, and no tick gets past the wait while a ticket is pending.
  `BaseHeldUntilReseed` alone is not inductive: it does not exclude a tick that
  is past the gate when the ticket is drawn.
* `TicketInv` and `FreshInv`: acknowledgements never run ahead of requests, and
  at the store of an acknowledgement the plan in the buffer is the one it
  answers for. From the acknowledgement on, every motion in the planner's
  hands (buffer, own output, context under inference) descends from the
  loss's ticket. A replan in flight is what makes this delicate: its context
  was sampled before the loss. It cannot be published after the
  acknowledgement, because the same thread does both.
* `VlaInv` says the same of the recovery's ticket, and one step breaks it: a
  replan while `ReturnPending`, when the reseed is acknowledged and the session's
  playback is still there. `SessionOriginIsFresh` excludes that step and no
  other.
* `RecoveryInv` and `SlideInv`: with no crossfade armed, the held token is the
  source that passes through or still a mixture; a recovery asks for its
  reseed only with the standing blend landed. The refinement needs both.
* `TeleopInv`: without a lag a calibration request lives within one tick.
* `HeldInv`: between the arbiter's token and the command only a failed decode can
  intervene. The premise `faults = 0` is the code's own limit: after a failure
  the two do differ (section 7).

The state feed (`FeedInv`): `OnTime` is what the clock's urgency amounts to.
`SampleIsRecent` bounds the age of what the buffer holds by what the watchdog
has slept since it looked. `MissingInv` ties the count of missing ticks to the
silence from both sides: a long silence has been counted, and a count means
silence. The second half has two cases, since a watchdog that tests one sample
and clears another empties the buffer of a talking robot: then a sample younger
than the present tick refills it or the silence is real. `TokenInv` is the time for
which the publisher cannot have looked. `FeedAssumption` asks that a control
period be at most the watchdog's limit (20 ms and 60 ms in the code), without
which a sample may die of age within one period and the count of ticks says
nothing of the silence.

The logger: `LatestAreLatest` needs that the ring, read from `start_` on, is the
end of what was logged (`LoggerInv`). `SlotWraps` is the one fact about the
modulus: an index less than twice around wraps at most once. The feed changes
the ring through `Log` only, which is the refinement `LoopDrivesLogger`.

The playback:

* `ResamplerInside`: the output's length is rounded down, and so is the source
  frame, and the two roundings bound the index that the code does not clamp.
* `TimelineInv`: `InPhase` ties the control loop's place in a loss or a recovery
  to the reseed it asked for: from the acknowledgement on there is a plan to
  adopt, and a wait has no timeline. `PlansInTime` says when a plan is under
  inference, waits and is adopted: beside a playback that does not pause, a plan
  that waits is adopted before the planner wakes. `Lateness` bounds how far the
  cursor has moved past the frame a plan was made for by the time that passed,
  stale plans included: they come late and never early. `PlanIsAligned` is
  another conjunct: it is what a blend relies on. A snapshot of an unpaused
  playback finds no plan waiting, and its own plan is the next one to rebase the
  timeline, unless a reset comes first; that is the argument for it.
* `GapInv` counts the loops since a replan against the counter of `need_replan`,
  and `FollowInv` the ticks since the movement changed against the time that a
  loop, its inference and the adoption take.
* `Waits` and `Remains(k)`: a plan in the buffer, and a moving playback, have the
  rest of the interval, and `k` frames, ahead of them. Adoption takes the one to
  the other, every tick uses up one frame of both sides, and a pause none.

The lengths of plans are the network's to choose, and these hypotheses are what
is asked of it. With the code's numbers and inferences of up to three ticks,
`PlansOutlastInference` is three frames; `PlaybackGoesOn` and `ContextStaysNear`
need the 60 that section 3 finds in the code.

The operator loop (`InputInv`): `HoldInv`, a running count is a hold of that
length of its own buttons and nothing else; the e-stop's and a gesture's
exclude one another through it. `StepInv`: what a step was checked against still
holds when it is made, except that `disarm()` may have lowered the mode to
IDLE. `CheckedBeforeUse` is the same without the exception.

The hand writer (`HandInv`): `GraspInv`, a grasp came from a target, and a tick
that read a mode which keeps it is not past its choice. `FistInv`: the delay is
counted in step with the calibration for as long as writer and tracker agree on
the engagement. `StopInv`: stopped hands mean a latched e-stop.

The engine (`EngineInv`) follows the file. `Converting`: what each `pc` of a
conversion knows of the model and the network. `WholeFile`: a file whose last
write ended is whole, and its engine is its hash's unless the model was
exchanged in between. `Loading`: whoever reaches `load` found the hash, wrote
the file, or failed to. `LoadedIsCurrent` alone speaks of three places only and
says nothing of the file a crashed start left, on which the next one depends.
`Prepared`: what was validated has a shape and a buffer. A compared tensor has
the caller's number of elements, so that of the caller's type it has the
caller's bytes too: that step is `FedAsCompared`.

The lifecycle (`LifecycleInv`) ties the running stages to the place of the
calling thread: `Risen`, on the way up what was passed runs and what is ahead
does not; `Descended`, on the way down what was passed is gone, and one stage at
most is ending. What a stage needs is started before it and stopped after it
(`StartedAfterNeeds`, `StoppedBeforeNeeds`), which is the argument for
`NoStageOutlivesItsSource`. `WriterInv`: a writer without a thread has nothing
in hand, so that nothing follows its damping. The LowState subscription is the
reader's from its start to its stop, and outside of that a half-started one's
only, which `FailedStartsRollBack` rests on.

What TLC alone checks is liveness, for which the prover has neither fairness nor
`ENABLED`: `EStopDamps`, `RecoveryEnds`, `ReseedWaitEnds`, `LostLinkStops`,
`NavYields`, `QuitStops`, `EStopStopsHands` and `StreamYields`. The bounds of a
run (`MaxStreams`, `MaxFaults`, `MaxTicks` and the like) remain parameters of
the theorems: they hold for every value of them.

## 5. Hazards

`PROJECT.json` lists them at their lines. Those no property covers say why.
Some the models contain without a property that fails:

* A failed plan into a static mode is never asked for again
  (`planner_inference.cpp:403` stores the movement before the inference; static
  modes have no timer). The old motion runs to its last frame and holds it.
  `FollowsInTime` leaves the time after a failure out, and `ReplansInTime`
  holds for moving commands only, for this reason.
* A plan is blended in at its `gen_frame` without a check that the timeline is
  still the one it was generated on (`whole_body_controller.cpp:191-195`). A
  replan that samples the playback after a session's reseed was acknowledged and
  before the control loop resets the timeline carries a frame of the old one. If
  the reset and the adoption of the initial plan come before its end, it is
  blended in as many frames late as the old cursor was far (`VlaReseed` shows
  where its motion descends from). In a pause the same comes about without a
  reset: a plan waits, the next snapshot is taken on the timeline that this plan
  was to rebase, and whichever is blended last counts from the wrong origin.
  Until the late blend begins, the playback repeats the old motion's last frame
  or goes on with a movement that was given up. `PlanIsAligned` leaves these two
  out by name, `Late` marks them, and `NeverFreezes` and `FollowsInTime` hold
  again from the next adoption on.
* A replan's last context frames repeat the end of the motion when the timer
  fires late (`planner_inference.cpp:182`): the network is told of a robot that
  stops. `ContextNearMotion` bounds it by three frames.
* A reader whose second subscriber throws leaves the first one's callback alive
  (`unitree_state_reader.cpp:56-62`): `robot_started_` is not set, neither the
  rollback nor `stop()` comes to it, and it fills the buffer until a later
  `start()` replaces the subscriber or the process ends. `RolledBack` and
  `QuitStops` name it as the one exception.
* A replan before the first adoption estimates its frame from the wall clock
  (`planner_inference.cpp:432`). If the control loop then adopts the older plan,
  which restarts the timeline at 0, the new plan is blended in as late as the
  first one waited. `PlanIsAligned` leaves estimated plans out.
* A torn engine file with a whole hash is taken as valid on every later start
  (`InferenceEngine.cpp:162`), rejected by `Initialize()` each time, and never
  rebuilt: somebody has to delete it. An unwritable directory makes a stale
  file count as rebuilt (`InferenceEngine.cpp:308`). `LoadedIsCurrent` names it.
* A tensor of another size in bytes is logged and skipped
  (`InferenceEngine.cpp:614`), `Infer()` returns true and the network reads the
  zeros of `InitInputs()`. The encoder and the decoder compare all tensors at
  their start, the planner two of its own, and they compare numbers of elements:
  a model with the right dimensions and another data type starts and is never
  fed. `InferenceIsFed` names this one exception for what was compared.
* `StreamFails` of `EngineCache` leaves the engine prepared; a restart of the encoder or
  decoder creates a CUDA stream without having destroyed the last one. Nothing
  here counts streams.
* The publisher sends the newest token only, so that a write as long as a
  control period loses one of the recorded stream. `TokensAreRecorded` says
  that nothing shorter does.

Four are comments rather than properties and are listed in section 7: the mode
after a link loss, a body stream that ends, a grace window that ends before
anything was commanded, and a tick that returns early while the writer repeats
the last command.

## 6. Assumptions about what is outside

LowState, body samples, tokens, buttons and commands arrive at any time and in
any order. Tokens that the receiver rejects leave no trace and are not modelled.
An inference may fail at any call, up to the bound. The pose of the robot is
not modelled. DDS and the headset's SDK deliver callbacks; they start and stop
as the code calls them. Memory is sequentially consistent: every shared datum is
a mutex-protected slot or a default-ordered atomic.

## 7. Disagreements with the comments

Three are kept as runs that TLC must find violated:

* `HiddenTeleop`. `reset_calibration()` leaves `calibrate_request_` set, so a
  calibration requested just before the claim is captured by the first body
  sample inside the session (`teleop_tracker.cpp:163`, against
  `whole_body_controller.cpp:433-436`). `HiddenTeleopNeedsLag` proves that a
  lagging body stream is the only way to it.
* `VlaReseed`. A replan that sampled the playback before the controller cleared
  it publishes after the acknowledgement of the recovery's reseed, against
  `planner_inference.hpp:49-51`. After a LowState loss the same cannot happen
  (`LossOriginIsFresh`), since there the playback is cleared before the
  request. `SessionOriginIsFresh` proves that a replan which samples the playback
  between the acknowledgement and that clearing is the only way to it.
* `DisarmRace`. `mode_index_ > 0` and `--mode_index_` are two accesses with
  `disarm()` of another thread between them, which leaves -1
  (`input_handler.cpp:131`, against lines 12-13). `OnlyTheRaceUnclamps` proves
  that nothing else does.

Others were met while modelling and have no run; the models contain what
the code does:

| Code | Comment |
|---|---|
| `whole_body_controller.cpp:304`: the token is stored before the decoder runs, and a failed decode commands nothing | `control_arbiter.hpp:158-159`: `held_token_` "tracks every commanded token". `HeldIsLastCommand` holds until an inference fails (`HeldIsCommanded`), the setting of `Arbitration` |
| `whole_body_controller.cpp:353`: with nothing commanded yet, the base ramp starts from all zeros | `:26-28`: it ramps "the last commanded target" |
| `whole_body_controller.cpp:133`: overspeed ends the tick, and the writer repeats the last command | `:135`: "stopping" |
| `teleop_tracker.cpp:90`: a lost body stream releases nothing | `control_arbiter.hpp:17`: "B off / VR loss" |
| `input_handler.cpp:221-231`: hold counters survive a link loss, so that two short holds of all four buttons add up. `GestureIsOneHold` counts samples and not time, and holds | `:29`: "held for a full second" |
| `input_handler.cpp:123-130`: one long hold of Y steps twice from the basic modes | `:120-122`: "one hold, one step" |
| `input_handler.cpp:221-231`: `mode_index_` survives a link loss | `input_handler.hpp:75-76`: "drop back to IDLE whenever the VR link is lost" |
| `input_handler.cpp:155`: IDLE is published with the crouch height | `:21-22`: "standing modes force -1" |
| `gearsonic_inference.cpp:47`: a missing key throws past the rollback; so do the `InitChannel` calls of `hand_command_writer.cpp:107-108` and `unitree_command_writer.cpp:65`; a reader that fails after `unitree_state_reader.cpp:54` stays subscribed | `gearsonic_inference.hpp:39-40`: everything "rolled back on any failure" |
| `planner_inference.cpp:120-122`, `obs_dict_model.cpp:47-50`: a model of another data type passes the validation and is never fed | `planner_inference.cpp:53-55`: "Fails here with a clear message instead of strangely at the first inference" |
| `gearsonic_inference.cpp:64`: a second start finds the last session's sample | `gearsonic_inference.hpp:38`: "blocks until robot state is flowing" |
| `whole_body_controller.cpp:385`: `state_` survives `stop()`, so a second start has no ramp | `gearsonic_inference.hpp:17-18`: "3s INIT ramp" |
| `unitree_command_writer.cpp:102`: without a LowState sample the command carries `mode_machine` 0 | `unitree_command_writer.hpp:20`: "mode_machine is echoed from LowState" |
| `whole_body_controller.cpp:364`: a loss holds the last command, then the base pose, and never damps | `unitree_state_reader.cpp:101-102`: "a genuine link loss reaches damping after 60ms" |
| `whole_body_controller.cpp`, `gather_robot_state`: nothing is logged on a tick without state and nothing is cleared after a long loss, so that the history spans the gap | `state_logger.hpp:11-13`: it "only ever samples the last N consecutive 50Hz ticks" |
| `motion_token_publisher.cpp:41`: a slot that holds the newest token is polled | `motion_token_publisher.hpp:21`: "exactly one message per decoded tick" |
| `hand_command_writer.cpp:175`: a stream that resumes in the recovery moves the hands | `:181-182`: the hands "KEEP the last commanded targets" |

One condition never decides: the encoder takes the heading reference anew at a
cursor of 0 (`token_encoder.cpp:83-84`), and `advance_playback` has moved the cursor to 1 in
the tick that adopts a plan (`HeadingIsKept`).

## 8. Not modelled

The observation vectors of encoder and decoder, gains, ramps' values, poses and
kinematics (floating-point data no property here tells apart); the JSON of the
headset's SDK and the DDS message layouts (I/O); GPU memory; the configuration
file's contents and the thread priorities (a hint to the scheduler); the stick's
angle, direction and speed; the vendored hash. The torso IMU has the watchdog of
LowState and gates nothing. `EventQueue` (`include/common/event_queue.hpp`) is
used nowhere in the program.

## 9. Plan

Done: sections 2 to 4; every invariant and every action property that a run
checks is a theorem. Next, in this order:

1. `LossReentry` and `StateFeed` answer the loss policy from two sides, one without
   a clock and one without a command. A theorem that joins them: how many
   milliseconds after the last sample the base hold is commanded.
2. A second start that meets the first one's buffers, as a property of
   `GearsonicInference`.
3. `HeldIsLastCommand` after a failed decode: how long the arbiter and the robot
   disagree.

## 10. Running

    tlc -config Arbitration.cfg GearsonicControl.tla
    tlapm ControlProofs.tla

Each `.cfg` is named after its run; `PROJECT.json` names the module.
