---------------------------- MODULE ControlArbiter ----------------------------
(***************************************************************************)
(* The arbitration stage on the token path (control_arbiter.hpp): who owns *)
(* the robot, and the crossfades between token sources.  The stage is      *)
(* driven by the 50 Hz control loop only, so its operations are operators  *)
(* that the loop's actions apply.                                          *)
(*                                                                         *)
(* A 64-float token is abstracted to the source it carries in full, or     *)
(* "Mixed" while a crossfade holds a part of two of them.                  *)
(***************************************************************************)
EXTENDS Naturals

CONSTANTS
  kRecoveryBlendTicks,   \* ticks of the blend to the safe standing token
  kHandoffBlendTicks     \* ticks of the crossfade onto a new token source

ASSUME BlendTicksAssumption ==
  /\ kRecoveryBlendTicks \in Nat /\ kRecoveryBlendTicks > 1
  /\ kHandoffBlendTicks \in Nat  /\ kHandoffBlendTicks > 1

Mode    == {"kNormal", "kTeleop", "kVla", "kRecovering"}
Sources == {"Standing", "EncoderG1", "EncoderTeleop", "Stream"}
Token   == Sources \union {"Mixed"}

VARIABLES
  mode,                 \* mode_
  held_token,           \* held_token_
  recovery_blend_tick,  \* recovery_blend_tick_
  handoff_blend_ticks   \* handoff_blend_ticks_

arbiterVars == <<mode, held_token, recovery_blend_tick, handoff_blend_ticks>>

ArbiterInit ==
  /\ mode = "kNormal"
  /\ held_token = "Standing"
  /\ recovery_blend_tick = 0
  /\ handoff_blend_ticks = 0

ArbiterTypeOK ==
  /\ mode \in Mode
  /\ held_token \in Token
  /\ recovery_blend_tick \in 0..kRecoveryBlendTicks
  /\ handoff_blend_ticks \in 0..kHandoffBlendTicks

\* The pure transition function: entries from kNormal only, the stream first.
Decide(current, vla_fresh, vla_alive, calibrated_, recovery_done) ==
  CASE current = "kNormal"     -> IF vla_fresh THEN "kVla"
                                  ELSE IF calibrated_ THEN "kTeleop"
                                  ELSE "kNormal"
    [] current = "kTeleop"     -> IF calibrated_ THEN "kTeleop" ELSE "kNormal"
    [] current = "kVla"        -> IF vla_alive THEN "kVla" ELSE "kRecovering"
    [] current = "kRecovering" -> IF recovery_done THEN "kNormal"
                                  ELSE "kRecovering"

\* Mutant: the stream's first token is not faded in.
ArmsHandoffOutOnly(next) == mode = "kRecovering" /\ next = "kNormal"

\* A crossfade armed by a change of owner: out of a recovery, into the stream.
ArmsHandoff(next) ==
  \/ mode = "kRecovering" /\ next = "kNormal"
  \/ mode # "kVla" /\ next = "kVla"

\* step_mode() once the decision is taken: arm the blends, store the mode.
StepMode(next) ==
  /\ recovery_blend_tick' =
       IF next # mode /\ next = "kRecovering" THEN 0 ELSE recovery_blend_tick
  /\ handoff_blend_ticks' =
       IF ArmsHandoff(next) THEN kHandoffBlendTicks ELSE handoff_blend_ticks
  /\ mode' = next
  /\ UNCHANGED held_token

\* (1 - part/whole) * from + part/whole * to, by the sources that remain.
Blend(from, to, part, whole) ==
  IF part = 0 \/ from = to THEN from
  ELSE IF part = whole THEN to ELSE "Mixed"

\* select_token() in kNormal, kTeleop and kVla: the source's token, through
\* the crossfade that `armed` says is left, and held for the next one.
Crossfaded(target, armed) ==
  IF armed > 0
    THEN Blend(held_token, target, kHandoffBlendTicks - armed,
               kHandoffBlendTicks)
    ELSE target

\* Mutant: a passed-through token is not held.
CrossfadeForgetsHeld(target, armed) ==
  /\ held_token' = IF armed > 0 THEN Crossfaded(target, armed) ELSE held_token
  /\ handoff_blend_ticks' = IF armed > 0 THEN armed - 1 ELSE armed
  /\ UNCHANGED <<mode, recovery_blend_tick>>

CrossfadeInto(target, armed) ==
  /\ held_token' = Crossfaded(target, armed)
  /\ handoff_blend_ticks' = IF armed > 0 THEN armed - 1 ELSE armed
  /\ UNCHANGED <<mode, recovery_blend_tick>>

\* select_token() in kRecovering: blend to the standing token and stay there.
BlendToStanding ==
  LET tick == IF recovery_blend_tick < kRecoveryBlendTicks
                THEN recovery_blend_tick + 1 ELSE recovery_blend_tick
  IN  /\ recovery_blend_tick' = tick
      /\ held_token' = Blend(held_token, "Standing", tick, kRecoveryBlendTicks)
      /\ UNCHANGED <<mode, handoff_blend_ticks>>

\* recovery_blend_done(), as the loop asks it right after BlendToStanding.
RecoveryBlendDone == recovery_blend_tick' >= kRecoveryBlendTicks
===============================================================================
