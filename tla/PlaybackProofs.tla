----------------------------- MODULE PlaybackProofs -----------------------------
(***************************************************************************)
(* The timeline of the playback for every period, deadline, look-ahead and *)
(* length of the plans.  Two conditions on the lengths are hypotheses of   *)
(* the theorems that need them, and of no other.                           *)
(***************************************************************************)
EXTENDS PlaybackTimeline, TLAPS

USE FramesAssumption, TimelineAssumption
    DEF FramesAssumption, TimelineAssumption

-------------------------------------------------------------------------------
\* The lengths a plan may have.
Length == {Resampled(n) : n \in {p \in PredFrames : Usable(p)}}

\* When a plan is made, waits and is adopted.
PlansInTime ==
  /\ planner_pc # "sleep" => elapsed <= MaxInference
  /\ timesteps = 0 => cursor = 0
  /\ timesteps > 0 => cursor <= timesteps - 1
  /\ Fresh => plan.timesteps \in Length
  /\ Fresh /\ timesteps > 0 /\ ~Paused =>
       planner_pc = "sleep" /\ elapsed <= MaxInference + skips
  /\ planner_pc = "infer" /\ gen.kept => ~Fresh /\ timesteps > 0
  /\ plan.kept => timesteps > 0

\* Which plan the control loop finds where it goes on after a reset.
InPhase ==
  /\ control \in {"play", "return"} <=> reseed = "none"
  /\ control \in {"play", "return"} /\ timesteps = 0 => Fresh
  /\ reseed = "acked" => Fresh
  /\ reseed = "served" => planner_pc = "seed"
  /\ planner_pc = "seed" => reseed \in {"asked", "served"}
  /\ control \in {"return", "wait"} => timesteps = 0
  /\ control = "recover" /\ timesteps > 0 => Paused

\* How far the playback is past the frame a plan was made for.
Lateness ==
  /\ planner_pc = "infer" =>
       /\ kLookAheadSteps <= gen.gen_frame
       /\ cursor + kLookAheadSteps <= gen.gen_frame + elapsed
  /\ Fresh /\ timesteps > 0 /\ control = "play" =>
       cursor + kLookAheadSteps <= plan.gen_frame + MaxInference

TimelineInv == TypeOK /\ PlansInTime /\ InPhase /\ Lateness /\ PlanIsAligned

LEMMA Lengths ==
  Length \subseteq 2 .. kCapacity
<1>. SUFFICES ASSUME NEW n \in PredFrames, Usable(n)
              PROVE  Resampled(n) \in 2 .. kCapacity
  BY DEF Length
<1>1. (5 * n) \div 3 \in Int
  OBVIOUS
<1>. QED
  BY <1>1 DEF Usable, Resampled, UpTo

LEMMA TimelineStarts == Init => TimelineInv
<1>. SUFFICES ASSUME Init PROVE TimelineInv
  OBVIOUS
<1>. PICK m \in Movement, n \in PredFrames :
       /\ Static(m) /\ Usable(n)
       /\ movement = m
       /\ last_movement = m
       /\ counter = 0
       /\ planner_pc = "sleep"
       /\ reseed = "none"
       /\ elapsed = 0
       /\ age = 0
       /\ gen = NoPlan
       /\ plan = [NoPlan EXCEPT !.timesteps = Resampled(n)]
       /\ control = "play"
       /\ timesteps = 0
       /\ cursor = 0
       /\ planned = m
       /\ playing = m
       /\ skips = 0
       /\ settled = 0
       /\ unplanned = 0
       /\ lapse = "none"
  BY DEF Init
<1>1. Resampled(n) \in Length /\ Resampled(n) \in 2 .. kCapacity
  BY Lengths DEF Length
<1>2. MaxGap \in Nat /\ Deadline \in Nat
  BY DEF MaxGap, Deadline
<1>3. TypeOK
  <2>1. gen \in Plan /\ plan \in Plan
    <3>1. NoPlan \in Plan
      BY DEF Plan, NoPlan
    <3>2. Resampled(n) \in Nat
      BY <1>1
    <3>. QED
      BY <3>1, <3>2 DEF Plan
  <2>2. /\ counter \in 0 .. ReplanDefault /\ elapsed \in 0 .. Period
        /\ age \in 0 .. MaxAge /\ timesteps \in 0 .. kCapacity
        /\ skips \in 0 .. MaxSkips + 1 /\ settled \in 0 .. Deadline
        /\ unplanned \in 0 .. ReplanDefault
    BY <1>2
  <2>. QED
    BY <2>1, <2>2 DEF TypeOK
<1>. QED
  BY <1>1, <1>3 DEF TimelineInv, PlansInTime, InPhase, Lateness,
                    PlanIsAligned, NoPlan, Fresh

\* What a tick plays, and how far its cursor moves.
LEMMA AdoptedMotion ==
  ASSUME TypeOK, PlansInTime, Fresh \/ timesteps > 0
  PROVE  /\ Adopted.timesteps \in 1 .. kCapacity
         /\ Adopted.cursor \in 0 .. Adopted.timesteps - 1
         /\ NextFrame(Adopted) \in 0 .. Adopted.timesteps - 1
         /\ Adopted.cursor <= NextFrame(Adopted)
         /\ NextFrame(Adopted) <= Adopted.cursor + 1
         /\ ~Fresh => Adopted.timesteps = timesteps /\ Adopted.cursor = cursor
         /\ timesteps = 0 => Adopted.cursor = 0
<1>1. BlendedLength \in Int /\ BlendedLength <= kCapacity
  BY DEF TypeOK, Plan, BlendedLength, UpTo
<1>2. /\ timesteps \in 0 .. kCapacity /\ cursor \in Nat
      /\ timesteps > 0 => cursor <= timesteps - 1
      /\ timesteps = 0 => Fresh /\ cursor = 0
      /\ Fresh => plan.timesteps \in 2 .. kCapacity
  <2>1. timesteps \in 0 .. kCapacity /\ cursor \in Nat
    BY DEF TypeOK
  <2>2. Fresh => plan.timesteps \in Length
    BY DEF PlansInTime
  <2>3. /\ timesteps > 0 => cursor <= timesteps - 1
        /\ timesteps = 0 => cursor = 0
    BY DEF PlansInTime
  <2>4. timesteps = 0 => Fresh
    OBVIOUS
  <2>. QED
    BY <2>1, <2>2, <2>3, <2>4, Lengths
<1>3. /\ Adopted.timesteps \in 1 .. kCapacity
      /\ Adopted.cursor \in 0 .. Adopted.timesteps - 1
      /\ ~Fresh => Adopted.timesteps = timesteps /\ Adopted.cursor = cursor
      /\ timesteps = 0 => Adopted.cursor = 0
  <2>1. CASE ~Fresh
    BY <2>1, <1>2 DEF Adopted
  <2>2. CASE Fresh /\ timesteps = 0
    BY <2>2, <1>2 DEF Adopted
  <2>3. CASE Fresh /\ timesteps # 0 /\ BlendedLength > 0
    BY <2>3, <1>1, <1>2 DEF Adopted
  <2>4. CASE Fresh /\ timesteps # 0 /\ ~(BlendedLength > 0)
    BY <2>4, <1>2 DEF Adopted
  <2>. QED
    BY <2>1, <2>2, <2>3, <2>4
<1>. QED
  BY <1>3 DEF NextFrame, UpTo

LEMMA TimelineStep == TimelineInv /\ [Next]_vars => TimelineInv'
<1>. SUFFICES ASSUME TimelineInv, [Next]_vars PROVE TimelineInv'
  OBVIOUS
<1>0. TypeOK /\ PlansInTime /\ InPhase /\ Lateness /\ PlanIsAligned
  BY DEF TimelineInv
<1>. USE DEF TimelineInv, plannerVars, playVars, ghosts
<1>g. Deadline \in Nat
  BY DEF Deadline
<1>1. CASE Loop
  <2>0. /\ planner_pc = "sleep" /\ elapsed = Period /\ elapsed' = 0
        /\ reseed # "asked"
        /\ UNCHANGED <<movement, reseed, age, playVars, skips, settled, lapse>>
    BY <1>1 DEF Loop
  <2>f. Fresh' = Fresh /\ Paused' = Paused
    BY <2>0 DEF Fresh, Paused
  <2>1. \/ /\ planner_pc' = "infer" /\ last_movement' = movement
           /\ gen' = [gen_frame |-> GenFrame, timesteps |-> 0,
                      kept |-> timesteps > 0 /\ ~Paused, since |-> 0]
           /\ unplanned' = 0
        \/ /\ UNCHANGED <<planner_pc, last_movement, gen>>
           /\ unplanned' \in 0 .. ReplanDefault
    BY <1>1, <1>0 DEF Loop, TypeOK, UpTo
  <2>2. TypeOK'
    <3>1. counter' \in 0 .. ReplanDefault
      BY <1>1, <1>0 DEF TypeOK, Loop, TimeToReplan, ReplanLoops
    <3>2. gen' \in Plan
      <4>1. GenFrame \in Nat
        BY <1>0 DEF GenFrame, TypeOK
      <4>2. (timesteps > 0 /\ ~Paused) \in BOOLEAN
        OBVIOUS
      <4>3. [gen_frame |-> GenFrame, timesteps |-> 0,
             kept |-> timesteps > 0 /\ ~Paused, since |-> 0] \in Plan
        BY <4>1, <4>2 DEF Plan
      <4>. QED
        BY <2>1, <4>3, <1>0 DEF TypeOK
    <3>. QED
      BY <1>0, <2>0, <2>1, <3>1, <3>2 DEF TypeOK
  <2>3. planner_pc' = "infer" =>
          /\ gen'.kept => timesteps > 0 /\ ~Paused
          /\ gen'.gen_frame = GenFrame /\ gen'.since = 0
    <3>. SUFFICES ASSUME planner_pc' = "infer"
                  PROVE  /\ gen'.kept => timesteps > 0 /\ ~Paused
                         /\ gen'.gen_frame = GenFrame /\ gen'.since = 0
      OBVIOUS
    <3>1. gen' = [gen_frame |-> GenFrame, timesteps |-> 0,
                  kept |-> timesteps > 0 /\ ~Paused, since |-> 0]
      BY <2>0, <2>1
    <3>2. gen'.kept = (timesteps > 0 /\ ~Paused)
      BY <3>1
    <3>3. gen'.gen_frame = GenFrame /\ gen'.since = 0
      BY <3>1
    <3>. QED
      BY <3>2, <3>3
  <2>4. timesteps > 0 /\ ~Paused => ~Fresh
    BY <2>0, <1>0 DEF PlansInTime, Paused, TypeOK
  <2>5. PlansInTime'
    <3>1. /\ UNCHANGED <<plan, timesteps, cursor, skips>>
          /\ planner_pc' \in {"sleep", "infer"}
      BY <2>0, <2>1
    <3>. QED
      BY <2>0, <2>f, <2>3, <2>4, <3>1, <1>0 DEF PlansInTime
  <2>6. InPhase'
    BY <2>0, <2>f, <2>1, <1>0 DEF InPhase
  <2>7. Lateness'
    <3>1. planner_pc' = "infer" =>
            /\ kLookAheadSteps <= GenFrame
            /\ cursor + kLookAheadSteps <= GenFrame
      BY <1>0 DEF GenFrame, TypeOK, PlansInTime
    <3>2. UNCHANGED <<plan, timesteps, cursor, control>> /\ elapsed' = 0
      BY <2>0
    <3>3. planner_pc' = "infer" => gen'.gen_frame = GenFrame
      BY <2>3
    <3>4. GenFrame \in Nat
      BY <1>0 DEF GenFrame, TypeOK
    <3>. QED
      BY <2>f, <3>1, <3>2, <3>3, <3>4, <1>0 DEF Lateness
  <2>8. PlanIsAligned'
    <3>1. UNCHANGED <<plan, timesteps, cursor>>
      BY <2>0
    <3>2. planner_pc' = "infer" /\ gen'.kept =>
            gen'.gen_frame + gen'.since = cursor' + kLookAheadSteps
      BY <2>3, <3>1, <1>0 DEF GenFrame, TypeOK
    <3>. QED
      BY <2>f, <3>1, <3>2, <1>0 DEF PlanIsAligned
  <2>. QED
    BY <2>2, <2>5, <2>6, <2>7, <2>8
<1>2. CASE Publish
  <2>0. PICK n \in PredFrames :
          Usable(n) /\ plan' = [gen EXCEPT !.timesteps = Resampled(n)]
    BY <1>2 DEF Publish
  <2>e. Resampled(n) \in Length /\ Resampled(n) \in 2 .. kCapacity
    BY <2>0, Lengths DEF Length
  <2>1. TypeOK'
    BY <1>2, <1>0, <2>0, <2>e DEF TypeOK, Publish, Plan, NoPlan
  <2>f. Fresh' /\ Paused' = Paused
    BY <1>2, <1>0, <2>0, <2>e DEF Fresh, Paused, Publish, TypeOK, Plan
  <2>2. PlansInTime' /\ InPhase'
    BY <1>2, <1>0, <2>0, <2>e, <2>f DEF PlansInTime, InPhase, Publish, TypeOK,
                                        Plan, NoPlan
  <2>3. Lateness'
    BY <1>2, <1>0, <2>0, <2>e DEF PlansInTime, Lateness, Publish, TypeOK, Plan
  <2>4. PlanIsAligned'
    BY <1>2, <1>0, <2>0, <2>e DEF PlansInTime, PlanIsAligned, Publish, TypeOK,
                                  Plan
  <2>. QED
    BY <2>1, <2>2, <2>3, <2>4
<1>3. CASE InferenceFails
  BY <1>3, <1>0 DEF InferenceFails, TypeOK, Plan, PlansInTime, InPhase,
                    Lateness, PlanIsAligned, Fresh, Paused, NoPlan
<1>4. CASE Tick
  <2>p. /\ control' = "play" /\ reseed' = "none"
        /\ planner_pc' = planner_pc
        /\ timesteps' = Adopted.timesteps /\ cursor' = NextFrame(Adopted)
        /\ gen' = [gen EXCEPT !.since = IF gen.kept THEN @ + Played(Adopted)
                                        ELSE 0]
        /\ plan' = NoPlan /\ skips' = 0 /\ elapsed' = elapsed + 1
        /\ planner_pc = "sleep" => elapsed < Period
        /\ planner_pc # "sleep" => elapsed < MaxInference
        /\ reseed \in {"none", "acked"}
        /\ ~Fresh' /\ ~Paused'
    BY <1>4, <1>0 DEF Tick, TimePasses, WaitOver, InPhase, Fresh, NoPlan,
           Paused
  <2>a. /\ Adopted.timesteps \in 1 .. kCapacity
        /\ NextFrame(Adopted) \in 0 .. Adopted.timesteps - 1
        /\ Adopted.cursor \in Nat
        /\ Adopted.cursor <= NextFrame(Adopted)
        /\ NextFrame(Adopted) <= Adopted.cursor + 1
        /\ ~Fresh => Adopted.timesteps = timesteps /\ Adopted.cursor = cursor
        /\ timesteps = 0 => Adopted.cursor = 0
    BY <1>4, <1>0, AdoptedMotion DEF Tick
  <2>b. Adopted.cursor = 0 \/ Adopted.cursor = cursor
    BY DEF Adopted
  <2>1. TypeOK'
    <3>1. cursor' \in Nat /\ timesteps' \in 0 .. kCapacity
      BY <2>p, <1>0, <2>a
    <3>2. gen' \in Plan
      <4>1. Played(Adopted) \in Nat
        BY <2>a, <1>0 DEF Played
      <4>. QED
        BY <2>p, <1>0, <4>1 DEF TypeOK, Plan
    <3>3. plan' \in Plan
      BY <2>p DEF NoPlan, Plan
    <3>4. /\ elapsed' \in 0 .. Period /\ age' \in 0 .. MaxAge
          /\ settled' \in 0 .. Deadline
      BY <1>4, <1>0, <1>g DEF Tick, TimePasses, TypeOK, UpTo
    <3>5. playing' \in Movement /\ lapse' \in {"none", "lapsed", "replanned"}
          /\ skips' \in 0 .. MaxSkips + 1
      BY <1>4, <1>0 DEF Tick, TypeOK
    <3>. QED
      BY <1>4, <1>0, <2>p, <3>1, <3>2, <3>3, <3>4, <3>5 DEF Tick, TypeOK
  <2>2. PlansInTime'
    BY <2>p, <1>0, <2>a DEF PlansInTime, TypeOK, Plan, NoPlan
  <2>3. InPhase'
    BY <2>p, <1>0, <2>a DEF InPhase
  <2>4. Lateness'
    <3>1. planner_pc = "infer" => cursor' <= cursor + 1 \/ cursor' <= 1
      BY <2>a, <2>b, <2>p, <1>0 DEF TypeOK
    <3>2. gen.gen_frame \in Nat /\ gen'.gen_frame = gen.gen_frame
          /\ cursor \in Nat /\ cursor' \in Nat /\ elapsed \in Nat
      BY <2>p, <1>0, <2>1 DEF TypeOK, Plan
    <3>. QED
      BY <3>1, <3>2, <2>p, <1>0 DEF Lateness
  <2>5. PlanIsAligned'
    <3>1. ASSUME planner_pc = "infer", gen.kept
          PROVE  gen'.gen_frame + gen'.since = cursor' + kLookAheadSteps
      <4>1. ~Fresh /\ Adopted.cursor = cursor
        BY <3>1, <1>0, <2>a DEF PlansInTime
      <4>2. gen'.gen_frame = gen.gen_frame
            /\ gen'.since = gen.since + (cursor' - cursor)
            /\ gen.gen_frame \in Nat /\ gen.since \in Nat
        BY <3>1, <4>1, <2>p, <1>0 DEF Played, TypeOK, Plan
      <4>3. gen.gen_frame + gen.since = cursor + kLookAheadSteps
        BY <3>1, <1>0 DEF PlanIsAligned
      <4>. QED
        BY <4>2, <4>3, <1>0, <2>1 DEF TypeOK
    <3>2. gen'.kept = gen.kept
      BY <2>p, <1>0 DEF TypeOK, Plan
    <3>. QED
      BY <3>1, <3>2, <2>p DEF PlanIsAligned
  <2>. QED
    BY <2>1, <2>2, <2>3, <2>4, <2>5
<1>5. CASE TickSkipped
  <2>0. /\ UNCHANGED <<movement, last_movement, counter, planner_pc, reseed,
                       gen, playVars, unplanned, lapse>>
        /\ skips' = (IF timesteps = 0 THEN 0
                     ELSE UpTo(skips + 1, MaxSkips + 1))
        /\ elapsed' = elapsed + 1
        /\ planner_pc = "sleep" => elapsed < Period
        /\ planner_pc # "sleep" => elapsed < MaxInference
        /\ Fresh' = Fresh
    BY <1>5 DEF TickSkipped, TimePasses, Fresh
  <2>1. TypeOK'
    <3>1. /\ elapsed' \in 0 .. Period /\ age' \in 0 .. MaxAge
          /\ settled' \in 0 .. Deadline /\ skips' \in 0 .. MaxSkips + 1
      BY <1>5, <2>0, <1>0, <1>g DEF TickSkipped, TimePasses, TypeOK, UpTo
    <3>. QED
      BY <2>0, <3>1, <1>0 DEF TypeOK
  <2>2. PlansInTime' /\ InPhase'
    BY <2>0, <1>0 DEF PlansInTime, InPhase, Paused, UpTo, TypeOK
  <2>3. Lateness' /\ PlanIsAligned'
    BY <2>0, <1>0 DEF Lateness, PlanIsAligned, TypeOK, Plan
  <2>. QED
    BY <2>1, <2>2, <2>3
<1>6. CASE ChangeMovement
  BY <1>6, <1>0, <1>g DEF ChangeMovement, TypeOK, Plan, PlansInTime, InPhase,
                          Lateness, PlanIsAligned, Fresh, Paused
<1>7. CASE Reseed
  BY <1>7, <1>0 DEF Reseed, TypeOK, Plan, NoPlan, PlansInTime, InPhase,
                    Lateness, PlanIsAligned, Fresh, Paused
<1>8. CASE PublishSeed
  <2>0. PICK n \in PredFrames :
          Usable(n) /\ plan' = [NoPlan EXCEPT !.timesteps = Resampled(n)]
    BY <1>8 DEF PublishSeed
  <2>e. Resampled(n) \in Length /\ Resampled(n) \in 2 .. kCapacity
    BY <2>0, Lengths DEF Length
  <2>f. plan'.kept = FALSE /\ plan'.timesteps = Resampled(n)
    <3>1. plan' = [gen_frame |-> 0, timesteps |-> Resampled(n),
                   kept |-> FALSE, since |-> 0]
      BY <2>0 DEF NoPlan
    <3>. QED
      BY <3>1
  <2>1. TypeOK'
    <3>1. plan' \in Plan
      <4>1. plan' = [gen_frame |-> 0, timesteps |-> Resampled(n),
                     kept |-> FALSE, since |-> 0]
        BY <2>0 DEF NoPlan
      <4>2. 0 \in Nat /\ Resampled(n) \in Nat /\ FALSE \in BOOLEAN
        BY <2>e
      <4>. QED
        BY <4>1, <4>2 DEF Plan
    <3>2. DefaultMovement \in Movement
      BY DEF DefaultMovement, Movement
    <3>3. counter' \in 0 .. ReplanDefault /\ age' \in 0 .. MaxAge
          /\ unplanned' \in 0 .. ReplanDefault
      BY <1>8 DEF PublishSeed
    <3>. QED
      BY <1>8, <1>0, <3>1, <3>2, <3>3 DEF TypeOK, PublishSeed
  <2>2. PlansInTime' /\ InPhase'
    BY <1>8, <1>0, <2>e, <2>f DEF PlansInTime, InPhase, Fresh, Paused,
                                  PublishSeed, TypeOK
  <2>3. Lateness' /\ PlanIsAligned'
    BY <1>8, <1>0, <2>e, <2>f DEF InPhase, Lateness, PlanIsAligned, Fresh,
                                  Paused, PublishSeed, TypeOK
  <2>. QED
    BY <2>1, <2>2, <2>3
<1>9. CASE SeedFails
  BY <1>9, <1>0 DEF SeedFails, TypeOK, PlansInTime, InPhase, Lateness,
                    PlanIsAligned, Fresh, Paused
<1>10. CASE Recover
  <2>0. /\ UNCHANGED <<movement, last_movement, counter, planner_pc, gen, plan,
                       timesteps, cursor, planned, playing, skips, unplanned,
                       lapse>>
        /\ control' = "recover" /\ reseed' = "asked"
        /\ timesteps = 0 \/ Paused
        /\ elapsed' = elapsed + 1
        /\ planner_pc = "sleep" => elapsed < Period
        /\ planner_pc # "sleep" => elapsed < MaxInference
        /\ Fresh' = Fresh /\ Paused' = Paused
    BY <1>10 DEF Recover, TimePasses, Fresh, Paused
  <2>1. TypeOK'
    <3>1. /\ elapsed' \in 0 .. Period /\ age' \in 0 .. MaxAge
          /\ settled' \in 0 .. Deadline
      BY <1>10, <2>0, <1>0, <1>g DEF Recover, TimePasses, TypeOK, UpTo
    <3>. QED
      BY <2>0, <3>1, <1>0 DEF TypeOK
  <2>2. PlansInTime' /\ InPhase'
    BY <2>0, <1>0 DEF PlansInTime, InPhase, Paused, TypeOK
  <2>3. Lateness' /\ PlanIsAligned'
    BY <2>0, <1>0 DEF Lateness, PlanIsAligned, TypeOK, Plan
  <2>. QED
    BY <2>1, <2>2, <2>3
<1>11. CASE Return \/ LongLoss
  <2>0. /\ UNCHANGED <<movement, last_movement, counter, planner_pc, planned,
                       unplanned, lapse>>
        /\ ResetPlayback
        /\ \/ control' = "return" /\ reseed' = "none" /\ reseed = "acked"
              /\ elapsed' = elapsed
           \/ control' = "wait" /\ reseed' = "asked" /\ elapsed' = elapsed + 1
        /\ elapsed' # elapsed /\ planner_pc = "sleep" => elapsed < Period
        /\ elapsed' # elapsed /\ planner_pc # "sleep" => elapsed < MaxInference
    BY <1>11 DEF Return, LongLoss, TimePasses
  <2>f. /\ Fresh' = Fresh /\ ~Paused'
        /\ timesteps' = 0 /\ cursor' = 0 /\ skips' = 0
        /\ ~gen'.kept /\ ~plan'.kept
        /\ gen'.gen_frame = gen.gen_frame /\ plan'.timesteps = plan.timesteps
        /\ gen' \in Plan /\ plan' \in Plan
    <3>1. /\ timesteps' = 0 /\ cursor' = 0 /\ skips' = 0
          /\ gen' = [gen EXCEPT !.kept = FALSE]
          /\ plan' = [plan EXCEPT !.kept = FALSE]
      BY <2>0 DEF ResetPlayback
    <3>2. gen \in Plan /\ plan \in Plan
      BY <1>0 DEF TypeOK
    <3>3. ~gen'.kept /\ ~plan'.kept
      BY <3>1, <3>2 DEF Plan
    <3>4. /\ gen'.gen_frame = gen.gen_frame
          /\ plan'.timesteps = plan.timesteps
          /\ gen' \in Plan /\ plan' \in Plan
      BY <3>1, <3>2 DEF Plan
    <3>. QED
      BY <3>1, <3>3, <3>4 DEF Fresh, Paused
  <2>1. TypeOK'
    <3>1. /\ elapsed' \in 0 .. Period /\ age' \in 0 .. MaxAge
          /\ settled' \in 0 .. Deadline
      BY <1>11, <1>0, <1>g DEF Return, LongLoss, TimePasses, TypeOK, UpTo
    <3>2. playing' \in Movement
      BY <2>0 DEF ResetPlayback, DefaultMovement, Movement
    <3>. QED
      BY <2>0, <2>f, <3>1, <3>2, <1>0 DEF TypeOK
  <2>2. PlansInTime' /\ InPhase'
    BY <2>0, <2>f, <1>0 DEF PlansInTime, InPhase, TypeOK
  <2>3. Lateness' /\ PlanIsAligned'
    BY <2>0, <2>f, <1>0 DEF Lateness, PlanIsAligned, TypeOK, Plan
  <2>. QED
    BY <2>1, <2>2, <2>3
<1>12. CASE UNCHANGED vars
  BY <1>12, <1>0 DEF vars, TypeOK, Plan, PlansInTime, InPhase, Lateness,
                     PlanIsAligned, Fresh, Paused
<1>. QED
  BY <1>1, <1>2, <1>3, <1>4, <1>5, <1>6, <1>7, <1>8, <1>9, <1>10, <1>11, <1>12
     DEF Next, PlannerNext, ReseedNext, ControlNext

LEMMA TimelineAlways == Spec => []TimelineInv
BY TimelineStarts, TimelineStep, PTL DEF Spec

-------------------------------------------------------------------------------
\* Products of the period.
LEMMA Loops ==
  ASSUME NEW c \in Nat
  PROVE  /\ c * Period \in Nat
         /\ (c + 1) * Period = c * Period + Period
         /\ c <= ReplanDefault - 1 => c * Period + Period <= MaxGap
<1>1. Period \in Nat /\ Period >= 1 /\ ReplanDefault \in Nat
  OBVIOUS
<1>2. /\ c * Period \in Nat
      /\ (c + 1) * Period = c * Period + Period
  BY <1>1
<1>3. ASSUME c <= ReplanDefault - 1
      PROVE  c * Period + Period <= ReplanDefault * Period
  <2>1. PICK d \in Nat : ReplanDefault = (c + 1) + d
    <3>1. ReplanDefault - (c + 1) \in Nat
      BY <1>1, <1>3
    <3>2. ReplanDefault = (c + 1) + (ReplanDefault - (c + 1))
      BY <1>1
    <3>. QED
      BY <3>1, <3>2
  <2>2. ReplanDefault * Period = (c + 1) * Period + d * Period
    BY <2>1, <1>1
  <2>3. d * Period \in Nat
    BY <1>1
  <2>. QED
    BY <1>2, <2>2, <2>3
<1>. QED
  BY <1>2, <1>3 DEF MaxGap

\* The loops of movement since the last replan, against the timer's.
GapInv ==
  /\ ~Moving(movement) => unplanned = 0
  /\ counter <= ReplanDefault - 1
  /\ unplanned <= counter

LEMMA GapStep == TimelineInv /\ GapInv /\ [Next]_vars => GapInv'
<1>. SUFFICES ASSUME TimelineInv, GapInv, [Next]_vars PROVE GapInv'
  OBVIOUS
<1>0. /\ counter \in Nat /\ unplanned \in Nat
      /\ ~Moving(movement) => unplanned = 0
      /\ counter <= ReplanDefault - 1
      /\ unplanned <= counter
  BY DEF TimelineInv, TypeOK, GapInv
<1>. USE DEF plannerVars, playVars, ghosts
<1>1. CASE Loop
  <2>0. movement' = movement
    BY <1>1 DEF Loop
  <2>1. CASE TimeToReplan(counter + 1)
    <3>1. counter' = 0
      BY <1>1, <2>1 DEF Loop
    <3>2. unplanned' = 0
      BY <1>1, <2>1, <1>0 DEF Loop, NeedReplan, Moving
    <3>. QED
      BY <3>1, <3>2, <1>0 DEF GapInv
  <2>2. CASE ~TimeToReplan(counter + 1)
    <3>1. counter' = counter + 1
      BY <1>1, <2>2 DEF Loop
    <3>2. counter + 1 <= ReplanDefault - 1
      BY <2>2, <1>0 DEF TimeToReplan, ReplanLoops
    <3>3. unplanned' \in 0 .. unplanned + 1
          /\ (~Moving(movement) => unplanned' = 0)
      BY <1>1, <1>0 DEF Loop, UpTo
    <3>. QED
      BY <2>0, <3>1, <3>2, <3>3, <1>0 DEF GapInv, Moving, Static
  <2>. QED
    BY <2>1, <2>2
<1>2. CASE UNCHANGED <<movement, counter, unplanned>>
  BY <1>2, <1>0 DEF GapInv, Moving, Static
<1>3. CASE Reseed \/ PublishSeed
  <2>1. /\ movement' = movement /\ unplanned' = 0
        /\ counter' = counter \/ counter' = 0
    BY <1>3 DEF Reseed, PublishSeed
  <2>. QED
    BY <2>1, <1>0 DEF GapInv
<1>4. CASE ChangeMovement
  <2>1. /\ counter' = counter
        /\ ~Moving(movement') => unplanned' = 0
        /\ unplanned' = 0 \/ unplanned' = unplanned
    BY <1>4 DEF ChangeMovement
  <2>. QED
    BY <2>1, <1>0 DEF GapInv, Moving, Static
<1>. QED
  BY <1>1, <1>2, <1>3, <1>4
     DEF Next, PlannerNext, ReseedNext, ControlNext, Publish, InferenceFails,
         Tick, TickSkipped, Recover, Return, LongLoss, SeedFails, vars

LEMMA GapAlways == Spec => []GapInv
<1>1. Init => GapInv
  BY DEF Init, GapInv, Moving
<1>. QED
  BY <1>1, TimelineAlways, GapStep, PTL DEF Spec

-------------------------------------------------------------------------------
\* As far as the planner can tell: the pace of a static mode decides nothing.
Same(a, b) == a.mode = b.mode /\ (~Static(b) => a.pace = b.pace)

\* What is planned and what is played, against what is asked for.
FollowInv ==
  /\ ~Same(last_movement, movement) => settled <= elapsed
  /\ planner_pc # "infer" /\ lapse # "lapsed" => planned = last_movement
  /\ control = "play" /\ timesteps > 0 /\ ~Fresh => playing = planned
  /\ planner_pc = "infer" /\ lapse # "lapsed" /\ settled > Period + elapsed
       => Same(planned, movement)
  /\ Fresh /\ timesteps > 0 /\ lapse = "none" /\ settled > Period + elapsed
       => Same(playing, movement)
  /\ Paused \/ control # "play" => settled = 0

\* A plan is blended in, and never dropped.
LEMMA BlendIsLong ==
  ASSUME PlansOutlastInference, TimelineInv, Fresh, timesteps > 0,
         control = "play"
  PROVE  BlendedLength \in 2 .. kCapacity
<1>1. plan.timesteps \in Length /\ plan.timesteps \in 2 .. kCapacity
  BY Lengths DEF TimelineInv, PlansInTime
<1>2. plan.timesteps >= MaxInference + 2 - kLookAheadSteps
  BY <1>1 DEF PlansOutlastInference, PlansHave, Length
<1>3. /\ plan.gen_frame \in Nat /\ cursor \in Nat
      /\ cursor + kLookAheadSteps <= plan.gen_frame + MaxInference
  BY DEF TimelineInv, TypeOK, Plan, Lateness
<1>. QED
  BY <1>1, <1>2, <1>3 DEF BlendedLength, UpTo

\* A tick finds a playback, or the plan it starts with.
LEMMA TickPlays ==
  ASSUME TimelineInv, Tick
  PROVE  /\ timesteps > 0 => control = "play"
         /\ planner_pc # "seed"
         /\ timesteps \in Nat
BY DEF TimelineInv, TypeOK, InPhase, Tick, WaitOver

LEMMA FollowStep ==
  ASSUME PlansOutlastInference, TimelineInv, FollowInv, [Next]_vars
  PROVE  FollowInv'
<1>0. /\ elapsed \in 0 .. Period /\ skips \in 0 .. MaxSkips + 1
      /\ settled \in 0 .. Deadline /\ timesteps \in Nat
      /\ planner_pc \in {"sleep", "infer", "seed"}
      /\ lapse \in {"none", "lapsed", "replanned"}
      /\ Deadline = Period + MaxInference + MaxSkips + 1
      /\ PlansInTime /\ InPhase
  BY DEF TimelineInv, TypeOK, Deadline
<1>. USE DEF FollowInv, plannerVars, playVars, ghosts
<1>1. CASE Loop
  <2>1. planner_pc = "sleep" /\ elapsed = Period /\ elapsed' = 0
    BY <1>1 DEF Loop
  <2>2. Fresh /\ timesteps > 0 => settled = 0
    BY <2>1, <1>0 DEF PlansInTime, Paused
  <2>3. /\ Fresh' = Fresh /\ Paused' = Paused
        /\ UNCHANGED <<movement, playVars, settled, lapse>>
    BY <1>1 DEF Loop, Fresh, Paused
  <2>4. CASE NeedReplan(counter + 1)
    <3>1. planner_pc' = "infer" /\ last_movement' = movement
      BY <1>1, <2>4 DEF Loop
    <3>. QED
      BY <1>0, <2>1, <2>2, <2>3, <3>1 DEF Same
  <2>5. CASE ~NeedReplan(counter + 1)
    <3>1. planner_pc' = "sleep" /\ last_movement' = last_movement
      BY <1>1, <2>5 DEF Loop
    <3>2. Same(last_movement, movement)
      BY <2>5 DEF NeedReplan, Same
    <3>. QED
      BY <1>0, <2>1, <2>2, <2>3, <3>1, <3>2 DEF Same
  <2>. QED
    BY <2>4, <2>5
<1>2. CASE Publish
  <2>1. timesteps > 0 /\ settled > 0 => ~Fresh /\ control = "play"
    BY <1>2, <1>0 DEF Publish, PlansInTime
  <2>2. /\ planner_pc = "infer" /\ planner_pc' = "sleep"
        /\ planned' = last_movement
        /\ UNCHANGED <<movement, last_movement, elapsed, control, timesteps,
                       playing, skips, settled>>
        /\ lapse' # "lapsed" /\ (lapse' = "none" => lapse = "none")
        /\ Paused' = Paused
    BY <1>2, <1>0 DEF Publish, Paused
  <2>3. Fresh'
    <3>1. PICK n \in PredFrames :
            Usable(n) /\ plan' = [gen EXCEPT !.timesteps = Resampled(n)]
      BY <1>2 DEF Publish
    <3>2. Resampled(n) \in 2 .. kCapacity
      BY <3>1, Lengths DEF Length
    <3>. QED
      BY <3>1, <3>2 DEF Fresh, TimelineInv, TypeOK, Plan
  <2>. QED
    BY <1>0, <2>1, <2>2, <2>3 DEF Same
<1>3. CASE InferenceFails
  BY <1>3 DEF InferenceFails, Same, Fresh, Paused
<1>4. CASE Tick
  <2>1. TimePasses /\ ~Fresh' /\ ~Paused' /\ control' = "play"
    BY <1>4 DEF Tick, NoPlan, Fresh, Paused
  <2>2. /\ elapsed' = elapsed + 1
        /\ settled' = (IF settled + 1 < Deadline THEN settled + 1
                       ELSE Deadline)
        /\ planner_pc # "sleep" => elapsed < MaxInference
    BY <1>4, <2>1 DEF TimePasses, UpTo, Tick
  <2>3. Fresh => playing' = planned
    BY <1>4, TickPlays, BlendIsLong, <1>0 DEF Tick
  <2>4. /\ UNCHANGED <<movement, last_movement, planner_pc, planned>>
        /\ ~Fresh => playing' = playing /\ timesteps > 0
        /\ lapse' # "lapsed" => lapse # "lapsed"
    BY <1>4, <1>0 DEF Tick
  <2>. QED
    BY <1>0, <1>4, TickPlays, <2>1, <2>2, <2>3, <2>4 DEF Same
<1>5. CASE TickSkipped \/ Recover
  <2>1. TimePasses
    BY <1>5 DEF TickSkipped, Recover
  <2>2. /\ elapsed' = elapsed + 1
        /\ settled' \in 0 .. settled + 1
        /\ Paused' \/ control' # "play" => settled' = 0
    BY <2>1, <1>0 DEF TimePasses, UpTo, Paused
  <2>3. /\ UNCHANGED <<movement, last_movement, planner_pc, timesteps, planned,
                       playing, lapse>>
        /\ Fresh' = Fresh
        /\ control' = "play" => control = "play"
    BY <1>5 DEF TickSkipped, Recover, Fresh
  <2>. QED
    BY <1>0, <2>2, <2>3 DEF Same
<1>6. CASE ChangeMovement
  BY <1>6, <1>0 DEF ChangeMovement, Same, Fresh, Paused
<1>7. CASE Reseed \/ PublishSeed \/ SeedFails
  <2>1. /\ UNCHANGED <<movement, control, timesteps, playing, settled, lapse>>
        /\ planner_pc # "infer" /\ planner_pc' # "infer"
        /\ control # "play" /\ settled = 0
        /\ elapsed' \in Nat
        /\ \/ UNCHANGED <<planned, last_movement>>
           \/ planned' = last_movement'
    BY <1>7, <1>0 DEF Reseed, PublishSeed, SeedFails, InPhase
  <2>. QED
    BY <1>0, <2>1
<1>8. CASE Return \/ LongLoss
  <2>1. /\ timesteps' = 0 /\ control' # "play"
        /\ UNCHANGED <<movement, last_movement, planner_pc, planned, lapse>>
    BY <1>8 DEF Return, LongLoss, ResetPlayback
  <2>2. settled' = 0 /\ elapsed' \in Nat
    BY <1>8, <1>0 DEF Return, LongLoss, TimePasses
  <2>. QED
    BY <1>0, <2>1, <2>2
<1>9. CASE UNCHANGED vars
  BY <1>9 DEF vars, Same, Fresh, Paused
<1>. QED
  BY <1>1, <1>2, <1>3, <1>4, <1>5, <1>6, <1>7, <1>8, <1>9
     DEF Next, PlannerNext, ReseedNext, ControlNext

LEMMA FollowAlways ==
  ASSUME PlansOutlastInference PROVE Spec => []FollowInv
<1>1. Init => FollowInv
  BY DEF Init, FollowInv, Same, Fresh, NoPlan, Paused
<1>2. TimelineInv /\ FollowInv /\ [Next]_vars => FollowInv'
  BY FollowStep
<1>. QED
  BY <1>1, <1>2, TimelineAlways, PTL DEF Spec

-------------------------------------------------------------------------------
\* Such plans are long enough for what is proved above.
LEMMA IntervalOutlastsInference ==
  ASSUME NEW k \in Nat, k > MaxInference, PlansOutlastInterval(k)
  PROVE  PlansOutlastInference
<1>1. MaxGap \in Nat
  BY DEF MaxGap
<1>2. ASSUME NEW n \in PredFrames, Usable(n)
      PROVE  Resampled(n) >= MaxInference + 2 - kLookAheadSteps
  <2>1. Resampled(n) \in 2 .. kCapacity
    BY <1>2, Lengths DEF Length
  <2>2. Resampled(n) >= MaxGap + k + 1
    BY <1>2 DEF PlansOutlastInterval, PlansHave
  <2>. QED
    BY <2>1, <2>2, <1>1
<1>. QED
  BY <1>2 DEF PlansOutlastInference, PlansHave

\* The timer that has not fired yet leaves loops enough.
LEMMA LoopsLeft ==
  ASSUME TimelineInv, GapInv
  PROVE  /\ counter * Period \in Nat
         /\ (counter + 1) * Period = counter * Period + Period
         /\ counter * Period + Period <= MaxGap
         /\ MaxGap \in Nat
<1>1. counter \in Nat /\ counter <= ReplanDefault - 1
  BY DEF TimelineInv, TypeOK, GapInv
<1>. QED
  BY <1>1, Loops DEF MaxGap

\* A plan that waits through a pause is younger than the timer's last interval,
\* or the planner is at the next one.
Waits ==
  /\ Fresh /\ timesteps > 0 /\ control = "play"
  /\ planner_pc = "sleep" /\ lapse # "lapsed" /\ Moving(planned)
  => cursor + kLookAheadSteps <= plan.gen_frame + counter * Period + elapsed

LEMMA WaitsStep ==
  ASSUME TimelineInv, GapInv, FollowInv, Waits, [Next]_vars
  PROVE  Waits'
<1>0. /\ elapsed \in 0 .. Period /\ timesteps \in Nat /\ cursor \in Nat
      /\ counter \in Nat /\ gen.gen_frame \in Nat /\ plan.gen_frame \in Nat
      /\ planner_pc \in {"sleep", "infer", "seed"}
      /\ lapse \in {"none", "lapsed", "replanned"}
  BY DEF TimelineInv, TypeOK, Plan
<1>l. /\ counter * Period \in Nat
      /\ (counter + 1) * Period = counter * Period + Period
  BY LoopsLeft
<1>. USE DEF Waits, plannerVars, playVars, ghosts
<1>1. CASE Loop
  <2>1. /\ planner_pc = "sleep" /\ elapsed = Period /\ elapsed' = 0
        /\ UNCHANGED <<playVars, lapse, movement>>
        /\ Fresh' = Fresh
    BY <1>1 DEF Loop, Fresh
  <2>2. CASE NeedReplan(counter + 1)
    BY <1>1, <2>2 DEF Loop
  <2>3. CASE ~NeedReplan(counter + 1)
    <3>1. ASSUME lapse # "lapsed", Moving(planned)
          PROVE  counter' = counter + 1
      <4>1. planned = last_movement
        BY <3>1, <2>1 DEF FollowInv
      <4>2. Moving(movement)
        BY <4>1, <3>1, <2>3 DEF NeedReplan, Moving, Static
      <4>3. ~TimeToReplan(counter + 1)
        BY <4>2, <2>3 DEF NeedReplan, Moving
      <4>. QED
        BY <4>3, <1>1 DEF Loop
    <3>2. ASSUME Waits' = FALSE PROVE FALSE
      <4>1. /\ Fresh /\ timesteps > 0 /\ control = "play"
            /\ lapse # "lapsed" /\ Moving(planned)
        BY <3>2, <2>1 DEF Moving, Static
      <4>2. counter' = counter + 1
        BY <4>1, <3>1
      <4>3. cursor + kLookAheadSteps
              <= plan.gen_frame + counter * Period + elapsed
        BY <4>1, <2>1
      <4>4. counter' * Period = counter * Period + Period
        BY <4>2, <1>l
      <4>5. cursor' + kLookAheadSteps
              <= plan'.gen_frame + counter' * Period + elapsed'
        BY <4>3, <4>4, <2>1, <1>0, <1>l
      <4>. QED
        BY <4>5, <3>2
    <3>. QED
      BY <3>2
  <2>. QED
    BY <2>2, <2>3
<1>2. CASE Publish
  <2>1. /\ UNCHANGED <<cursor, counter, elapsed>>
        /\ plan'.gen_frame = gen.gen_frame
        /\ cursor + kLookAheadSteps <= gen.gen_frame + elapsed
    BY <1>2 DEF Publish, TimelineInv, TypeOK, Plan, Lateness
  <2>. QED
    BY <2>1, <1>0, <1>l
<1>3. CASE InferenceFails \/ Reseed \/ PublishSeed \/ SeedFails
  <2>1. lapse' = "lapsed" \/ control' # "play"
    BY <1>3 DEF InferenceFails, Reseed, PublishSeed, SeedFails, TimelineInv,
                InPhase
  <2>. QED
    BY <2>1
<1>4. CASE Tick
  BY <1>4 DEF Tick, Fresh, NoPlan
<1>5. CASE TickSkipped
  <2>1. /\ UNCHANGED <<plan, timesteps, control, cursor, counter, planned,
                       planner_pc, lapse>>
        /\ elapsed' = elapsed + 1 /\ Fresh' = Fresh
    BY <1>5 DEF TickSkipped, TimePasses, Fresh
  <2>. QED
    BY <2>1, <1>0, <1>l DEF Moving, Static
<1>6. CASE Recover \/ Return \/ LongLoss
  BY <1>6 DEF Recover, Return, LongLoss
<1>7. CASE ChangeMovement \/ UNCHANGED vars
  BY <1>7 DEF ChangeMovement, vars, Fresh, Moving, Static
<1>. QED
  BY <1>1, <1>2, <1>3, <1>4, <1>5, <1>6, <1>7
     DEF Next, PlannerNext, ReseedNext, ControlNext

\* What is left to play until the next plan comes, in each of its stages.
Remains(k) ==
  timesteps > 0 /\ Moving(playing) /\ lapse = "none" =>
    timesteps - 1 - cursor >=
      IF Fresh \/ control # "play" THEN k - MaxInference
      ELSE IF planner_pc = "infer" THEN k - elapsed
      ELSE MaxGap - counter * Period - elapsed + k

\* What a tick starts to play lasts until the next plan comes.
LEMMA AdoptedRemains ==
  ASSUME NEW k \in Nat, k > MaxInference, PlansOutlastInterval(k),
         TimelineInv, GapInv, FollowInv, Waits, Tick, Fresh,
         Moving(playing'), lapse' = "none"
  PROVE  /\ timesteps' \in Nat /\ cursor' \in 0 .. 1
         /\ timesteps' - 1 - cursor' >=
              IF planner_pc = "infer" THEN k - (elapsed + 1)
              ELSE MaxGap - counter * Period - (elapsed + 1) + k
<1>0. /\ elapsed \in 0 .. Period /\ timesteps \in Nat /\ cursor \in Nat
      /\ counter \in Nat /\ plan.gen_frame \in Nat
      /\ planner_pc \in {"sleep", "infer"}
      /\ timesteps > 0 => control = "play"
  BY TickPlays DEF TimelineInv, TypeOK, Plan
<1>l. /\ counter * Period \in Nat /\ MaxGap \in Nat
      /\ counter * Period + Period <= MaxGap
  BY LoopsLeft
<1>1. plan.timesteps \in Nat /\ plan.timesteps <= kCapacity
      /\ plan.timesteps >= MaxGap + k + 1
  <2>1. plan.timesteps \in Length /\ plan.timesteps \in 2 .. kCapacity
    BY Lengths DEF TimelineInv, PlansInTime
  <2>. QED
    BY <2>1 DEF Length, PlansOutlastInterval, PlansHave
<1>2. CASE timesteps = 0
  <2>1. timesteps' = plan.timesteps /\ cursor' \in 0 .. 1
    BY <1>1, <1>2, <1>l DEF Tick, Adopted, NextFrame, UpTo
  <2>. QED
    BY <2>1, <1>0, <1>1, <1>l
<1>3. CASE timesteps > 0
  <2>1. BlendedLength \in 2 .. kCapacity
    BY <1>0, <1>3, BlendIsLong, IntervalOutlastsInference
  <2>2. timesteps' = BlendedLength /\ cursor' \in 0 .. 1
    BY <1>0, <1>3, <2>1 DEF Tick, Adopted, NextFrame, UpTo
  <2>3. playing' = planned
    BY <2>1 DEF Tick
  <2>4. lapse # "lapsed"
    BY DEF Tick
  <2>5. \/ BlendedLength = plan.gen_frame - cursor + plan.timesteps
        \/ BlendedLength = kCapacity
    BY DEF BlendedLength, UpTo
  <2>6. CASE planner_pc = "infer"
    <3>1. cursor + kLookAheadSteps <= plan.gen_frame + MaxInference
      BY <1>0, <1>3 DEF TimelineInv, Lateness
    <3>2. BlendedLength >= k + 1
      BY <1>0, <1>1, <1>l, <2>1, <2>5, <3>1
    <3>3. timesteps' - 1 - cursor' >= k - (elapsed + 1)
      <4>1. elapsed \in Nat /\ BlendedLength \in Nat /\ k \in Nat
        BY <1>0, <2>1
      <4>2. cursor' = 0 \/ cursor' = 1
        BY <2>2
      <4>3. timesteps' = BlendedLength
        BY <2>2
      <4>. QED
        BY <4>1, <4>2, <4>3, <3>2
    <3>. QED
      BY <2>1, <2>2, <2>6, <3>3
  <2>7. CASE planner_pc = "sleep"
    <3>1. cursor + kLookAheadSteps
            <= plan.gen_frame + counter * Period + elapsed
      BY <1>0, <1>3, <2>3, <2>4, <2>7 DEF Waits
    <3>2. BlendedLength >= MaxGap + k + 1 - counter * Period - elapsed
      BY <1>0, <1>1, <1>l, <2>1, <2>5, <3>1
    <3>. QED
      BY <1>0, <1>l, <2>1, <2>2, <2>7, <3>2
  <2>. QED
    BY <1>0, <2>6, <2>7
<1>. QED
  BY <1>0, <1>2, <1>3

LEMMA RemainsStep ==
  ASSUME NEW k \in Nat, k > MaxInference, PlansOutlastInterval(k),
         TimelineInv, GapInv, FollowInv, Waits, Remains(k), [Next]_vars
  PROVE  Remains(k)'
<1>0. /\ elapsed \in 0 .. Period /\ timesteps \in Nat /\ cursor \in Nat
      /\ counter \in Nat
      /\ planner_pc \in {"sleep", "infer", "seed"}
      /\ lapse \in {"none", "lapsed", "replanned"}
      /\ PlansInTime /\ InPhase
  BY DEF TimelineInv, TypeOK
<1>l. /\ counter * Period \in Nat
      /\ (counter + 1) * Period = counter * Period + Period
      /\ counter * Period + Period <= MaxGap
      /\ MaxGap \in Nat
  BY LoopsLeft
<1>. USE DEF Remains, plannerVars, playVars, ghosts
<1>e. timesteps > 0 /\ Moving(playing) /\ lapse = "none"
        => timesteps - 1 - cursor >= k - MaxInference
  BY <1>0, <1>l DEF PlansInTime
<1>1. CASE Loop
  <2>1. /\ planner_pc = "sleep" /\ elapsed = Period /\ elapsed' = 0
        /\ UNCHANGED <<playVars, lapse, movement>>
        /\ Fresh' = Fresh
    BY <1>1 DEF Loop, Fresh
  <2>2. CASE Fresh \/ control # "play"
    BY <2>1, <2>2
  <2>3. CASE ~Fresh /\ control = "play" /\ NeedReplan(counter + 1)
    <3>1. planner_pc' = "infer"
      BY <1>1, <2>3 DEF Loop
    <3>. QED
      BY <1>0, <1>l, <2>1, <2>3, <3>1
  <2>4. CASE ~Fresh /\ control = "play" /\ ~NeedReplan(counter + 1)
    <3>1. planner_pc' = "sleep"
      BY <1>1, <2>1, <2>4 DEF Loop
    <3>2. ASSUME timesteps > 0, Moving(playing), lapse = "none"
          PROVE  counter' = counter + 1
      <4>1. playing = last_movement
        BY <3>2, <2>1, <2>4, <1>0 DEF FollowInv
      <4>2. Moving(movement)
        BY <4>1, <3>2, <2>4 DEF NeedReplan, Moving, Static
      <4>3. ~TimeToReplan(counter + 1)
        BY <4>2, <2>4 DEF NeedReplan, Moving
      <4>. QED
        BY <4>3, <1>1 DEF Loop
    <3>. QED
      BY <1>0, <1>l, <2>1, <2>4, <3>1, <3>2
  <2>. QED
    BY <2>2, <2>3, <2>4
<1>2. CASE Publish
  <2>1. Fresh'
    <3>1. PICK n \in PredFrames :
            Usable(n) /\ plan' = [gen EXCEPT !.timesteps = Resampled(n)]
      BY <1>2 DEF Publish
    <3>2. Resampled(n) \in 2 .. kCapacity
      BY <3>1, Lengths DEF Length
    <3>. QED
      BY <3>1, <3>2 DEF Fresh, TimelineInv, TypeOK, Plan
  <2>2. /\ UNCHANGED <<timesteps, cursor, playing>>
        /\ lapse' = "none" => lapse = "none"
    BY <1>2 DEF Publish
  <2>. QED
    BY <1>e, <2>1, <2>2
<1>3. CASE InferenceFails
  BY <1>3 DEF InferenceFails
<1>4. CASE Tick
  <2>1. /\ control' = "play" /\ ~Fresh'
        /\ planner_pc' = planner_pc /\ counter' = counter
        /\ elapsed' = elapsed + 1 /\ elapsed' \in 1 .. Period
        /\ lapse' = "none" => ~Late
    BY <1>4, <1>0 DEF Tick, NoPlan, Fresh, TimePasses
  <2>2. CASE ~Fresh
    <3>1. /\ timesteps' = timesteps /\ playing' = playing
          /\ lapse' = lapse /\ timesteps > 0 /\ control = "play"
      BY <1>4, <2>2, <1>0, TickPlays DEF Tick, Adopted, Late
    <3>2. cursor' \in Nat /\ cursor' <= cursor + 1
      BY <1>4, <2>2, <1>0 DEF Tick, Adopted, NextFrame, UpTo, PlansInTime
    <3>. QED
      BY <1>0, <1>l, <2>1, <2>2, <3>1, <3>2
  <2>3. CASE Fresh
    <3>. SUFFICES ASSUME timesteps' > 0, Moving(playing'), lapse' = "none"
                  PROVE  timesteps' - 1 - cursor' >=
                           IF planner_pc = "infer" THEN k - (elapsed + 1)
                           ELSE MaxGap - counter * Period - (elapsed + 1) + k
      BY <2>1 DEF Moving, Static
    <3>. QED
      BY <1>4, <2>3, AdoptedRemains
  <2>. QED
    BY <2>2, <2>3
<1>5. CASE TickSkipped
  <2>1. /\ UNCHANGED <<timesteps, cursor, playing, control, planner_pc,
                       counter, lapse>>
        /\ elapsed' = elapsed + 1 /\ Fresh' = Fresh
    BY <1>5 DEF TickSkipped, TimePasses, Fresh
  <2>. QED
    BY <2>1, <1>0, <1>l
<1>6. CASE Recover \/ Reseed \/ PublishSeed \/ SeedFails
  <2>1. /\ UNCHANGED <<timesteps, cursor, playing, lapse>>
        /\ control' # "play"
    BY <1>6, <1>0 DEF Recover, Reseed, PublishSeed, SeedFails, InPhase
  <2>. QED
    BY <1>e, <2>1
<1>7. CASE Return \/ LongLoss
  BY <1>7 DEF Return, LongLoss, ResetPlayback
<1>8. CASE ChangeMovement
  BY <1>8 DEF ChangeMovement, Fresh
<1>9. CASE UNCHANGED vars
  BY <1>9 DEF vars, Fresh
<1>. QED
  BY <1>1, <1>2, <1>3, <1>4, <1>5, <1>6, <1>7, <1>8, <1>9
     DEF Next, PlannerNext, ReseedNext, ControlNext

LEMMA RemainsAlways ==
  ASSUME NEW k \in Nat, k > MaxInference, PlansOutlastInterval(k)
  PROVE  Spec => [](TimelineInv /\ GapInv /\ FollowInv /\ Waits /\ Remains(k))
<1>1. Init => Waits /\ Remains(k)
  BY DEF Init, Waits, Remains
<1>2. TimelineInv /\ GapInv /\ FollowInv /\ Waits /\ Remains(k) /\ [Next]_vars
        => Waits' /\ Remains(k)'
  BY WaitsStep, RemainsStep
<1>3. Spec => []FollowInv
  BY IntervalOutlastsInference, FollowAlways
<1>. QED
  BY <1>1, <1>2, <1>3, TimelineAlways, GapAlways, PTL DEF Spec

-------------------------------------------------------------------------------
\* An output frame within the rounded length comes from a source frame.
LEMMA SourceIsBelow ==
  ASSUME NEW n \in Nat, NEW f \in Nat, f < (5 * n) \div 3
  PROVE  (3 * f) \div 5 < n
<1>. DEFINE q == (5 * n) \div 3
            s == (3 * f) \div 5
<1>1. q \in Nat /\ 3 * q <= 5 * n
  OBVIOUS
<1>2. s \in Nat /\ 5 * s <= 3 * f
  OBVIOUS
<1>. HIDE DEF q, s
<1>3. f < q
  BY DEF q
<1>4. 5 * s < 5 * n
  BY <1>1, <1>2, <1>3
<1>5. s < n
  BY <1>2, <1>4
<1>. QED
  BY <1>5 DEF s

(* Whatever the longest output and the capacity, the resampler reads only  *)
(* frames that the model wrote: the index it computes without a clamp      *)
(* stays inside, because the output's length is rounded down.              *)
THEOREM ResamplerInside == ResamplerStaysInside
<1>. SUFFICES ASSUME NEW n \in 1 .. kMaxPlannerFrames, Usable(n),
                     NEW f \in 0 .. Resampled(n) - 1
              PROVE  /\ SourceFrame(f) \in 0 .. n - 1
                     /\ SourceNext(f, n) \in 0 .. n - 1
  BY DEF ResamplerStaysInside
<1>1. n \in Nat /\ n >= 1
  BY FramesAssumption DEF FramesAssumption
<1>2. (5 * n) \div 3 \in Int /\ kCapacity \in Nat
  BY <1>1, FramesAssumption DEF FramesAssumption
<1>3. f \in Nat /\ f < (5 * n) \div 3
  <2>1. Resampled(n) \in Int /\ Resampled(n) <= (5 * n) \div 3
    BY <1>2 DEF Resampled, UpTo
  <2>. QED
    BY <2>1, <1>2
<1>4. (3 * f) \div 5 < n
  BY <1>1, <1>3, SourceIsBelow
<1>5. (3 * f) \div 5 \in Nat
  BY <1>3
<1>6. SourceFrame(f) \in 0 .. n - 1
  BY <1>1, <1>4, <1>5 DEF SourceFrame
<1>. QED
  BY <1>1, <1>6 DEF SourceNext, UpTo

-------------------------------------------------------------------------------
(* The timeline keeps its types, whatever the period of the planner, its   *)
(* deadline, and the ticks the control loop skips.                         *)
THEOREM TimelineTypes == Spec => []TypeOK
<1>1. TimelineInv => TypeOK
  BY DEF TimelineInv
<1>. QED
  BY <1>1, TimelineAlways, PTL

(* A plan under inference or in the buffer whose snapshot was taken from a *)
(* playback that was not paused names the frame of that snapshot plus the  *)
(* look-ahead, for as long as the timeline is not reset, through pauses of *)
(* any length, sessions and reseeds.                                       *)
THEOREM PlansAreAligned == Spec => []PlanIsAligned
<1>1. TimelineInv => PlanIsAligned
  BY DEF TimelineInv
<1>. QED
  BY <1>1, TimelineAlways, PTL

(* No index that the resampler, the encoder's look-ahead or a blend reads  *)
(* leaves its motion, for every length of the plans and every cursor.      *)
THEOREM FramesStayInRange == Spec => []FramesInRange
<1>1. TimelineInv => FramesInRange
  <2>. SUFFICES ASSUME TimelineInv PROVE FramesInRange
    OBVIOUS
  <2>0. /\ timesteps \in Nat /\ cursor \in Nat
        /\ timesteps > 0 => cursor <= timesteps - 1
        /\ Fresh => plan.timesteps \in Nat /\ plan.timesteps >= 2
        /\ plan.gen_frame \in Nat
    BY Lengths DEF TimelineInv, TypeOK, PlansInTime, Plan
  <2>1. ASSUME timesteps > 0, NEW k \in 0 .. kFutFrames - 1
        PROVE  TargetFrame(cursor, k, timesteps) \in cursor .. timesteps - 1
    <3>1. k \in Nat /\ kFutStep \in Nat
      OBVIOUS
    <3>2. k * kFutStep \in Nat
      BY <3>1
    <3>. DEFINE ahead == k * kFutStep
    <3>3. ahead \in Nat
      BY <3>2
    <3>. HIDE DEF ahead
    <3>4. Clamped(UpTo(cursor + ahead, timesteps - 1), timesteps)
            \in cursor .. timesteps - 1
      BY <2>0, <2>1, <3>3 DEF Clamped, UpTo
    <3>. QED
      BY <3>4 DEF TargetFrame, ahead
  <2>2. ASSUME Fresh, timesteps > 0, NEW f \in 0 .. BlendedLength - 1
        PROVE  /\ BlendOld(f, cursor, timesteps) \in 0 .. timesteps - 1
               /\ BlendNew(f, cursor, plan.gen_frame, plan.timesteps)
                    \in 0 .. plan.timesteps - 1
    <3>1. f \in Nat
      OBVIOUS
    <3>. QED
      BY <2>0, <2>2, <3>1 DEF BlendOld, BlendNew, Clamped, UpTo
  <2>. QED
    BY <2>1, <2>2, ResamplerInside DEF FramesInRange
<1>. QED
  BY <1>1, TimelineAlways, PTL

(* While the robot is to move, its replans are at most one interval of     *)
(* need_replan() apart, for every interval of the modes.                   *)
THEOREM ReplansComeInTime == Spec => []ReplansInTime
<1>1. TimelineInv /\ GapInv => ReplansInTime
  BY DEF TimelineInv, TypeOK, GapInv, ReplansInTime
<1>. QED
  BY <1>1, TimelineAlways, GapAlways, PTL

(* The encoder sees a cursor of 0 for no motion but the first, as long as  *)
(* no plan is over when it is adopted.                                     *)
THEOREM HeadingStays == PlansOutlastInference => (Spec => []HeadingIsKept)
<1>. SUFFICES ASSUME PlansOutlastInference PROVE Spec => []HeadingIsKept
  OBVIOUS
<1>1. Init => HeadingIsKept
  BY DEF Init, HeadingIsKept
<1>2. TimelineInv /\ HeadingIsKept /\ [Next]_vars => HeadingIsKept'
  <2>. SUFFICES ASSUME TimelineInv, HeadingIsKept, [Next]_vars
                PROVE  HeadingIsKept'
    OBVIOUS
  <2>0. /\ timesteps \in Nat /\ cursor \in Nat
        /\ Fresh => plan.timesteps \in 2 .. kCapacity
    <3>1. Fresh => plan.timesteps \in Length
      BY DEF TimelineInv, PlansInTime
    <3>2. timesteps \in Nat /\ cursor \in Nat
      BY DEF TimelineInv, TypeOK
    <3>. QED
      BY <3>1, <3>2, Lengths
  <2>1. CASE Tick
    <3>1. timesteps' = Adopted.timesteps /\ cursor' = NextFrame(Adopted)
          /\ (Fresh \/ timesteps > 0)
      BY <2>1 DEF Tick
    <3>2. CASE ~Fresh
      <4>1. Adopted = [timesteps |-> timesteps, cursor |-> cursor]
        BY <3>2 DEF Adopted
      <4>2. timesteps > 0 /\ cursor \in 1 .. timesteps - 1
        BY <3>1, <3>2 DEF HeadingIsKept
      <4>. QED
        BY <2>0, <3>1, <4>1, <4>2 DEF HeadingIsKept, NextFrame, UpTo
    <3>3. CASE Fresh
      <4>1. PICK n \in 2 .. kCapacity :
              Adopted = [timesteps |-> n, cursor |-> 0]
        <5>1. CASE timesteps = 0
          BY <2>0, <3>3, <5>1 DEF Adopted
        <5>2. CASE timesteps # 0
          <6>1. timesteps > 0 /\ control = "play"
            BY <5>2, <2>0, <2>1, TickPlays
          <6>2. BlendedLength \in 2 .. kCapacity
            BY <6>1, <3>3, BlendIsLong
          <6>. QED
            BY <6>2, <5>2, <3>3 DEF Adopted
        <5>. QED
          BY <5>1, <5>2
      <4>. QED
        BY <3>1, <4>1 DEF HeadingIsKept, NextFrame, UpTo
    <3>. QED
      BY <3>2, <3>3
  <2>2. CASE UNCHANGED <<timesteps, cursor>>
    BY <2>2 DEF HeadingIsKept
  <2>3. CASE Return \/ LongLoss
    BY <2>3 DEF Return, LongLoss, ResetPlayback, HeadingIsKept
  <2>. QED
    BY <2>1, <2>2, <2>3 DEF Next, PlannerNext, ReseedNext, ControlNext, Loop,
           Publish, InferenceFails, TickSkipped, Recover, Reseed, PublishSeed,
           SeedFails, ChangeMovement, vars, plannerVars, playVars
<1>. QED
  BY <1>1, <1>2, TimelineAlways, PTL DEF Spec

(* A movement that has not changed for Deadline ticks of an unpaused       *)
(* playback is the one played, unless an inference failed or a plan came   *)
(* late meanwhile, as long as no plan is over when it is adopted.          *)
THEOREM MovementIsFollowed ==
  PlansOutlastInference => (Spec => []FollowsInTime)
<1>. SUFFICES ASSUME PlansOutlastInference PROVE Spec => []FollowsInTime
  OBVIOUS
<1>1. TimelineInv /\ FollowInv => FollowsInTime
  <2>. SUFFICES ASSUME TimelineInv, FollowInv,
                       settled = Deadline, timesteps > 0, lapse = "none"
                PROVE  Same(playing, movement)
    BY DEF FollowsInTime, Same
  <2>0. /\ elapsed \in 0 .. Period /\ skips \in 0 .. MaxSkips + 1
        /\ planner_pc \in {"sleep", "infer", "seed"}
        /\ planner_pc = "infer" => elapsed <= MaxInference
        /\ settled = Period + MaxInference + MaxSkips + 1
    BY DEF TimelineInv, TypeOK, PlansInTime, Deadline
  <2>1. Same(last_movement, movement) /\ ~Paused /\ control = "play"
    BY <2>0 DEF FollowInv
  <2>2. CASE Fresh
    <3>1. elapsed <= MaxInference + MaxSkips
      BY <2>0, <2>1, <2>2 DEF TimelineInv, PlansInTime, Paused
    <3>. QED
      BY <2>0, <2>2, <3>1 DEF FollowInv
  <2>3. CASE ~Fresh
    BY <2>0, <2>1, <2>3 DEF FollowInv
  <2>. QED
    BY <2>2, <2>3
<1>. QED
  BY <1>1, TimelineAlways, FollowAlways, PTL

(* A motion that moves is replaced before its last frame, across pauses of *)
(* any length, as long as the plans outlast the longest interval and the   *)
(* inference that follows it.                                              *)
THEOREM PlaybackGoesOn ==
  PlansOutlastInterval(MaxInference + 1) => (Spec => []NeverFreezes)
<1>. SUFFICES ASSUME NEW k \in Nat, k = MaxInference + 1,
                     PlansOutlastInterval(k)
              PROVE  Spec => []NeverFreezes
  <2>. MaxInference + 1 \in Nat
    OBVIOUS
  <2>. QED
    OBVIOUS
<1>0. k > MaxInference
  OBVIOUS
<1>1. TimelineInv /\ GapInv /\ Remains(k) => NeverFreezes
  <2>. SUFFICES ASSUME TimelineInv, GapInv, Remains(k),
                       Moving(playing), timesteps > 0, lapse = "none"
                PROVE  cursor # timesteps - 1
    BY DEF NeverFreezes
  <2>0. /\ elapsed \in 0 .. Period /\ timesteps \in Nat /\ cursor \in Nat
        /\ counter \in Nat
        /\ planner_pc = "infer" => elapsed <= MaxInference
    BY DEF TimelineInv, TypeOK, PlansInTime
  <2>1. MaxGap - counter * Period - elapsed + k >= 1
    BY <2>0, LoopsLeft
  <2>2. timesteps - 1 - cursor >= 1
    BY <2>0, <2>1, LoopsLeft DEF Remains
  <2>. QED
    BY <2>0, <2>2
<1>2. Spec => [](TimelineInv /\ GapInv /\ FollowInv /\ Waits /\ Remains(k))
  BY <1>0, RemainsAlways
<1>. QED
  BY <1>1, <1>2, PTL

(* The context of a replan of a moving robot runs past the planned frames  *)
(* by ContextOverrun at most, with plans no longer than the playback needs *)
(* to go on.                                                               *)
THEOREM ContextStaysNear ==
  PlansOutlastInterval(MaxInference + 1) => (Spec => ContextNearMotion)
<1>. SUFFICES ASSUME NEW k \in Nat, k = MaxInference + 1,
                     PlansOutlastInterval(k)
              PROVE  Spec => ContextNearMotion
  <2>. MaxInference + 1 \in Nat
    OBVIOUS
  <2>. QED
    OBVIOUS
<1>0. k > MaxInference
  OBVIOUS
<1>1. ASSUME NEW g \in Nat PROVE ContextEnd(g) = g + ContextEnd(0)
                                 /\ ContextEnd(0) \in Int
  <2>. DEFINE c == (5 * (kContextFrames - 1)) \div 3
              d == IF 5 * (kContextFrames - 1) % 3 = 0 THEN 0 ELSE 1
  <2>1. c \in Int /\ d \in Int
    BY DEF ContextEnd
  <2>2. ContextEnd(g) = g + c + d /\ ContextEnd(0) = 0 + c + d
    BY DEF ContextEnd, ContextFrame
  <2>. HIDE DEF c, d
  <2>. QED
    BY <2>1, <2>2
<1>2. TimelineInv /\ GapInv /\ Remains(k) /\ [Next]_vars =>
        [planner_pc = "sleep" /\ planner_pc' = "infer" /\ gen'.kept
           /\ Moving(playing) /\ lapse = "none" =>
             ContextEnd(gen'.gen_frame) <= timesteps - 1 + ContextOverrun]_vars
  <2>. SUFFICES ASSUME TimelineInv, GapInv, Remains(k), [Next]_vars,
                       planner_pc = "sleep", planner_pc' = "infer",
                       gen'.kept, Moving(playing), lapse = "none"
                PROVE  ContextEnd(gen'.gen_frame)
                         <= timesteps - 1 + ContextOverrun
    OBVIOUS
  <2>1. Loop
    BY DEF Next, PlannerNext, ReseedNext, ControlNext, Publish, InferenceFails,
           Reseed, PublishSeed, SeedFails, Tick, TickSkipped, Recover, Return,
           LongLoss, ChangeMovement, vars, plannerVars
  <2>2. elapsed = Period
    BY <2>1 DEF Loop
  <2>3. gen' = [gen_frame |-> GenFrame, timesteps |-> 0,
                kept |-> timesteps > 0 /\ ~Paused, since |-> 0]
    <3>1. NeedReplan(counter + 1)
      BY <2>1 DEF Loop
    <3>. QED
      BY <2>1, <3>1 DEF Loop
  <2>4. timesteps > 0 /\ ~Paused
    BY <2>3
  <2>5. gen'.gen_frame = cursor + kLookAheadSteps
    BY <2>3, <2>4 DEF GenFrame
  <2>6. /\ timesteps \in Nat /\ cursor \in Nat /\ counter \in Nat
        /\ ~Fresh /\ control = "play"
    BY <2>2, <2>4 DEF TimelineInv, TypeOK, PlansInTime, InPhase, Paused
  <2>7. timesteps - 1 - cursor >= MaxGap - counter * Period - Period + k
    BY <2>2, <2>4, <2>6 DEF Remains
  <2>8. timesteps - 1 - cursor >= k
    BY <2>6, <2>7, LoopsLeft
  <2>9. ContextEnd(gen'.gen_frame) = cursor + kLookAheadSteps + ContextEnd(0)
        /\ ContextEnd(0) \in Int
    <3>1. cursor + kLookAheadSteps \in Nat
      BY <2>6
    <3>. QED
      BY <3>1, <1>1, <2>5
  <2>. QED
    BY <2>6, <2>8, <2>9 DEF ContextOverrun
<1>3. Spec => [](TimelineInv /\ GapInv /\ FollowInv /\ Waits /\ Remains(k))
  BY <1>0, RemainsAlways
<1>. QED
  BY <1>2, <1>3, PTL DEF Spec, ContextNearMotion
===============================================================================
