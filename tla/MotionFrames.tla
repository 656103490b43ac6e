------------------------------ MODULE MotionFrames ------------------------------
(***************************************************************************)
(* Which frame of which motion is read: the resampler and the context of   *)
(* the planner (planner_inference.cpp), the blend of a new plan            *)
(* (whole_body_controller.cpp) and the encoder's look at the frames to     *)
(* come (token_encoder.cpp).  Frames are their indices; times at 30 Hz and *)
(* 50 Hz are exact, as the doubles of the code are at these lengths.       *)
(***************************************************************************)
EXTENDS Integers

CONSTANTS
  kMaxPlannerFrames,  \* the model's longest output, at 30 Hz
  kCapacity,          \* MotionSequence50Hz::kCapacity
  kContextFrames,     \* frames of context an inference starts from, at 30 Hz
  kFutFrames,         \* frames the encoder looks at, at 50 Hz
  kFutStep            \* ... and the steps between them

ASSUME FramesAssumption ==
  /\ {kMaxPlannerFrames, kContextFrames, kFutFrames, kFutStep} \subseteq Nat
  /\ kCapacity \in Nat \ {0, 1}

Least(S)     == CHOOSE x \in S : \A y \in S : x <= y
Greatest(S)  == CHOOSE x \in S : \A y \in S : x >= y
UpTo(n, cap) == IF n < cap THEN n ELSE cap

\* std::clamp(f, 0, n - 1)
Clamped(f, n) == IF f < 0 THEN 0 ELSE UpTo(f, n - 1)

-------------------------------------------------------------------------------
\* resample_30hz_to_50hz()

\* floor(n / 30.0 * 50.0), within the capacity.
Resampled(n) == UpTo((5 * n) \div 3, kCapacity)

\* The resampler refuses every other length.
Usable(n) == n > 0 /\ n <= kMaxPlannerFrames /\ Resampled(n) >= 2

\* Mutant: the time is rounded up.
SourceFrameUp(f) == (3 * f + 4) \div 5

\* f0 of output frame f, which no clamp protects.
SourceFrame(f) == (3 * f) \div 5

\* f1
SourceNext(f, n) == UpTo(SourceFrame(f) + 1, n - 1)

-------------------------------------------------------------------------------
\* update_context_from_motion(): the 50 Hz frame of context frame k.
ContextFrame(gen_frame, k) == gen_frame + (5 * k) \div 3

\* The last frame the context is interpolated from: f1 of its last frame,
\* unless that one needs no interpolation.
ContextEnd(gen_frame) ==
  LET k == kContextFrames - 1
  IN  ContextFrame(gen_frame, k) + (IF 5 * k % 3 = 0 THEN 0 ELSE 1)

-------------------------------------------------------------------------------
\* advance_playback(): frame f of the blend, in the motion played so far and
\* in the plan generated for frame gen_frame.
BlendOld(f, cursor, old_steps)            == Clamped(f + cursor, old_steps)
BlendNew(f, cursor, gen_frame, new_steps) == Clamped(f + cursor - gen_frame,
                                                     new_steps)

\* target_frame() of the encoder, while the motion plays.
TargetFrame(cursor, k, steps) ==
  Clamped(UpTo(cursor + k * kFutStep, steps - 1), steps)

-------------------------------------------------------------------------------
\* Every 30 Hz frame the resampler reads is one the model wrote: f0 is used as
\* it is computed, and only the floor in the output's length keeps the last
\* one inside.
ResamplerStaysInside ==
  \A n \in 1 .. kMaxPlannerFrames : Usable(n) =>
    \A f \in 0 .. Resampled(n) - 1 :
      /\ SourceFrame(f) \in 0 .. n - 1
      /\ SourceNext(f, n) \in 0 .. n - 1
===============================================================================
