--------------------------- MODULE ControlInvariants ---------------------------
(***************************************************************************)
(* The inductive strengthenings behind the safety properties of            *)
(* GearsonicControl, one per argument.  The proofs use them, and the       *)
(* model-checking runs check them on their instances.                      *)
(***************************************************************************)
EXTENDS GearsonicControl

PlannerModes == {"kNormal", "kTeleop"}
VlaModes     == {"kVla", "kRecovering"}

\* What Decide may answer in each mode.
Successors(m) ==
  CASE m = "kNormal"     -> {"kNormal", "kTeleop", "kVla"}
    [] m = "kTeleop"     -> {"kTeleop", "kNormal"}
    [] m = "kVla"        -> {"kVla", "kRecovering"}
    [] m = "kRecovering" -> {"kRecovering", "kNormal"}

\* A recovery asks for its reseed with the standing blend landed, and only an
\* issued ticket lets it end.
RecoveryInv ==
  /\ mode = "kRecovering" =>
       /\ reinit_ticket_issued => recovery_blend_tick = kRecoveryBlendTicks
       /\ recovery_blend_tick > 0 => held_token \in {"Mixed", "Standing"}
       /\ recovery_blend_tick = kRecoveryBlendTicks => held_token = "Standing"
  /\ pc = "step" =>
       /\ next_mode \in Successors(mode)
       /\ mode = "kRecovering" /\ next_mode = "kNormal" => reinit_ticket_issued

\* With no crossfade armed, the held token is the source that is passed
\* through, or still a mixture.
Settled == IF last_vr3_present THEN "EncoderTeleop" ELSE "EncoderG1"
SlideInv ==
  token_seq = 1 /\ handoff_blend_ticks = 0 =>
    /\ mode \in PlannerModes => held_token \in {"Mixed", Settled}
    /\ mode = "kVla" => held_token \in {"Mixed", "Stream"}

\* Missing ticks are counted at the gate only, a reseed is asked for in
\* CONTROL, and while its ticket is pending no tick gets past the wait.
LossInv ==
  /\ state_missing_ticks > 0 => pc = "gate"
  /\ pc = "reseed" => state = "CONTROL"
  /\ state_reseed_ticket # 0 =>
       pc \in {"gate", "reseed", "tick"} /\ state \in {"CONTROL", "ESTOP"}
  /\ BaseHeldUntilReseed

EStopInv ==
  /\ DampingIsEStop
  /\ state = "ESTOP" => pc = "gate"

\* The planner's acknowledgements never run ahead of the requests, and the
\* plan an acknowledgement answers for is in the buffer when it is stored.
TicketInv ==
  /\ reinit_done <= reinit_req
  /\ reinit_req <= reinit_requested
  /\ loss_ticket <= reinit_requested
  /\ planner_pc = "acknowledge" =>
       motion_50hz = reinit_req /\ motion_seq = reinit_req
  /\ planner_pc # "publish" => context = NoMotion
  /\ state_reseed_ticket # 0 => state_reseed_ticket = loss_ticket
  /\ state_reseed_ticket = 0 => loss_ticket <= reinit_done
  /\ pc = "reseed" \/ state_reseed_ticket # 0 => playback = NoMotion

NotBefore(motion, ticket) == motion # NoMotion => motion >= ticket

\* From the acknowledgement of the loss's reseed on, every motion in the
\* planner's hands descends from it.
FreshInv ==
  /\ NotBefore(playback, loss_ticket)
  /\ reinit_done >= loss_ticket =>
       /\ NotBefore(motion_50hz, loss_ticket)
       /\ NotBefore(motion_seq, loss_ticket)
       /\ NotBefore(context, loss_ticket)

\* While every tick finds a body sample, a calibration request lives within
\* one tick; so whatever outlives the claim of the stream has a reset pending.
TeleopInv ==
  /\ body = "new"
  /\ calibrate_request => tracker_pc = "body"
  /\ (calibrated \/ calibrate_request) /\ mode \in VlaModes
       => reset_request \/ pc = "resetCalibration"
\* A target is published by a tick that found the calibration in place.
TargetInv == TargetIsCalibrated /\ (tracker_pc = "publish" => calibrated)

\* From the acknowledgement of a recovery's reseed until the return drops the
\* timeline: the playback is still the session's.
ReturnPending ==
  /\ reinit_ticket_issued
  /\ reinit_done >= reinit_ticket
  /\ mode = "kRecovering" \/ pc = "resetPlayback"

\* A recovery ends behind its acknowledgement, after which every motion but
\* the timeline that the return drops descends from its reseed.
VlaInv ==
  /\ pc = "advance" => mode \in PlannerModes
  /\ reinit_ticket_issued =>
       /\ reinit_ticket <= reinit_requested
       /\ mode # "kRecovering" \/ (pc = "step" /\ next_mode = "kNormal")
            => reinit_done >= reinit_ticket
       /\ mode # "kRecovering" /\ pc # "resetPlayback"
            => NotBefore(playback, reinit_ticket)
       /\ reinit_done >= reinit_ticket =>
            /\ NotBefore(motion_50hz, reinit_ticket)
            /\ NotBefore(motion_seq, reinit_ticket)
            /\ NotBefore(context, reinit_ticket)

\* What the proofs take as inductive for every value of the constants.  (A
\* replan while the return is pending breaks VlaInv, and TeleopInv needs a
\* body sample in every tick: theirs are the theorems under such a proviso.)
Strengthened ==
  /\ RecoveryInv
  /\ SlideInv
  /\ LossInv
  /\ EStopInv
  /\ TicketInv
  /\ FreshInv
  /\ TargetInv
===============================================================================
