-------------------------- MODULE UnitreeStateReader --------------------------
(***************************************************************************)
(* The robot's LowState as the control loop and the planner see it:        *)
(* unitree_state_buf is filled by the DDS callback (packets with a bad CRC *)
(* are dropped before it) and cleared by the 60 ms watchdog.               *)
(***************************************************************************)
EXTENDS Naturals

CONSTANT MaxLosses   \* bound: how often the watchdog clears the buffer

VARIABLES
  low_state,   \* unitree_state_buf holds a sample
  overspeed,   \* its joint velocities exceed kMaxJointVel
  losses       \* watchdog clears so far, up to MaxLosses

readerVars == <<low_state, overspeed, losses>>

\* start-up waits for the first sample before it starts the other threads.
ReaderInit ==
  /\ low_state = TRUE
  /\ overspeed = FALSE
  /\ losses = 0

ReaderTypeOK ==
  /\ low_state \in BOOLEAN
  /\ overspeed \in BOOLEAN
  /\ losses \in Nat

\* on_lowstate_update(): a sample whose CRC matches; an overspeed one needs
\* a robot that moves, so `fast` is the sampled velocity class.
OnLowState(fast) ==
  /\ low_state' = TRUE
  /\ overspeed' = fast
  /\ UNCHANGED losses

\* watchdog_loop(): no sample for 60 ms.
WatchdogClears ==
  /\ low_state
  /\ losses < MaxLosses
  /\ low_state' = FALSE
  /\ losses' = losses + 1
  /\ UNCHANGED overspeed
===============================================================================
