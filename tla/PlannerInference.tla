--------------------------- MODULE PlannerInference ---------------------------
(***************************************************************************)
(* The planner thread (planner_inference.cpp): reseed requests from the    *)
(* control loop, the initial IDLE plan, and replans from the played back   *)
(* motion.  A motion is abstracted to the reseed it descends from: the     *)
(* number of the request that the initialize_once() at the root of its     *)
(* context served.  A replan inherits the number of its context.           *)
(***************************************************************************)
EXTENDS Integers, ModelInference, UnitreeStateReader

CONSTANT Replans   \* switch: the movement command asks for replans

ASSUME ReplansAssumption == Replans \in BOOLEAN

NoMotion == -1
Motion   == Nat

VARIABLES
  planner_pc,
  reinit_requested,  \* reinit_requested_
  reinit_done,       \* reinit_done_
  reinit_req,        \* the request loaded at the top of the iteration
  initialized,       \* initialized_
  context,           \* context_ of the inference under way
  motion_seq,        \* motion_seq_, the planner's own last output
  motion_50hz,       \* motion_50hz_buf
  plan_seen,         \* the loop's last_plan_stamp_ is motion_50hz_buf's stamp
  playback           \* the loop's playback_motion_, read by playback_snapshot()

plannerVars == <<planner_pc, reinit_requested, reinit_done, reinit_req,
                 initialized, context, motion_seq, motion_50hz, plan_seen,
                 playback>>

PlannerPc == {"load", "initialize", "acknowledge", "replan", "publish"}

PlannerInit ==
  /\ planner_pc = "load"
  /\ reinit_requested = 0
  /\ reinit_done = 0
  /\ reinit_req = 0
  /\ initialized = FALSE
  /\ context = NoMotion
  /\ motion_seq = NoMotion
  /\ motion_50hz = NoMotion
  /\ plan_seen = FALSE
  /\ playback = NoMotion

PlannerTypeOK ==
  /\ planner_pc \in PlannerPc
  /\ reinit_requested \in Nat
  /\ reinit_done \in Nat
  /\ reinit_req \in Nat
  /\ initialized \in BOOLEAN
  /\ context \in Motion \union {NoMotion}
  /\ motion_seq \in Motion \union {NoMotion}
  /\ motion_50hz \in Motion \union {NoMotion}
  /\ plan_seen \in BOOLEAN
  /\ playback \in Motion \union {NoMotion}

\* request_reinit(), called from the control loop's thread; the ticket it
\* returns is the new request number.
RequestReinit ==
  /\ reinit_requested' = reinit_requested + 1
  /\ UNCHANGED <<planner_pc, reinit_done, reinit_req, initialized, context,
                 motion_seq, motion_50hz, plan_seen, playback>>

-------------------------------------------------------------------------------
\* The top of an iteration: a reseed drops the published plan first.
LoadReinitRequest ==
  LET reseed == reinit_requested # reinit_done /\ initialized
  IN  /\ planner_pc = "load"
      /\ reinit_req' = reinit_requested
      /\ initialized' = (initialized /\ ~reseed)
      /\ motion_50hz' = IF reseed THEN NoMotion ELSE motion_50hz
      /\ planner_pc' = IF initialized' THEN "replan" ELSE "initialize"
      /\ UNCHANGED <<reinit_requested, reinit_done, context, motion_seq,
                     plan_seen, playback, faults>>

\* initialize_once(): plan from the measured pose.
InitializeOnce ==
  /\ planner_pc = "initialize"
  /\ low_state
  /\ InferOk
  /\ motion_seq' = reinit_req
  /\ motion_50hz' = reinit_req
  /\ plan_seen' = FALSE
  /\ initialized' = TRUE
  /\ planner_pc' = "acknowledge"
  /\ UNCHANGED <<reinit_requested, reinit_done, reinit_req, context, playback>>

\* initialize_once() returns false: no robot state, or the inference failed.
InitializeFails ==
  /\ planner_pc = "initialize"
  /\ IF low_state THEN InferFails ELSE UNCHANGED faults
  /\ planner_pc' = "load"
  /\ UNCHANGED <<reinit_requested, reinit_done, reinit_req, initialized,
                 context, motion_seq, motion_50hz, plan_seen, playback>>

\* Mutant: acknowledges the newest request instead of the one it served.
AcknowledgeNewest ==
  /\ planner_pc = "acknowledge"
  /\ reinit_done' = reinit_requested
  /\ planner_pc' = "load"
  /\ UNCHANGED <<reinit_requested, reinit_req, initialized, context,
                 motion_seq, motion_50hz, plan_seen, playback, faults>>

AcknowledgeReinit ==
  /\ planner_pc = "acknowledge"
  /\ reinit_done' = reinit_req
  /\ planner_pc' = "load"
  /\ UNCHANGED <<reinit_requested, reinit_req, initialized, context,
                 motion_seq, motion_50hz, plan_seen, playback, faults>>

\* need_replan() is false, or no movement command was published yet.
KeepPlan ==
  /\ planner_pc = "replan"
  /\ planner_pc' = "load"
  /\ UNCHANGED <<reinit_requested, reinit_done, reinit_req, initialized,
                 context, motion_seq, motion_50hz, plan_seen, playback, faults>>

\* need_replan() is true: the context is the played back motion, or the
\* planner's own last output while nothing is played back.
Replan ==
  /\ Replans
  /\ planner_pc = "replan"
  /\ context' = IF playback # NoMotion THEN playback ELSE motion_seq
  /\ planner_pc' = "publish"
  /\ UNCHANGED <<reinit_requested, reinit_done, reinit_req, initialized,
                 motion_seq, motion_50hz, plan_seen, playback, faults>>

\* run_and_publish() of a replan: the inference, then SetData().
PublishPlan ==
  /\ planner_pc = "publish"
  /\ InferOk
  /\ motion_seq' = context
  /\ motion_50hz' = context
  /\ plan_seen' = FALSE
  /\ context' = NoMotion
  /\ planner_pc' = "load"
  /\ UNCHANGED <<reinit_requested, reinit_done, reinit_req, initialized,
                 playback>>

PublishFails ==
  /\ planner_pc = "publish"
  /\ InferFails
  /\ context' = NoMotion
  /\ planner_pc' = "load"
  /\ UNCHANGED <<reinit_requested, reinit_done, reinit_req, initialized,
                 motion_seq, motion_50hz, plan_seen, playback>>

PlannerTick ==
  \/ LoadReinitRequest
  \/ InitializeOnce
  \/ InitializeFails
  \/ AcknowledgeReinit
  \/ KeepPlan
  \/ Replan
  \/ PublishPlan
  \/ PublishFails
===============================================================================
