---------------------------- MODULE OperatorInput ----------------------------
(***************************************************************************)
(* What the control loop takes from the operator: the latched e-stop and   *)
(* the selected locomotion mode of the InputHandler, and the request to    *)
(* start control (start_control() or auto_start_control).  The gesture     *)
(* recognition behind them has a 500 Hz loop of its own.                   *)
(***************************************************************************)
CONSTANT Locomotion   \* switch: the operator selects locomotion modes

ASSUME LocomotionAssumption == Locomotion \in BOOLEAN

VARIABLES
  estop,          \* estop_
  armed,          \* mode_index_ > 0
  operator_start  \* operator_start_ || auto_start_

inputVars == <<estop, armed, operator_start>>

InputInit ==
  /\ estop = FALSE
  /\ armed = FALSE
  /\ operator_start \in BOOLEAN

InputTypeOK ==
  /\ estop \in BOOLEAN
  /\ armed \in BOOLEAN
  /\ operator_start \in BOOLEAN

\* A+B+X+Y held for a second: latched, and never cleared again.
PressEStop ==
  /\ ~estop
  /\ estop' = TRUE
  /\ UNCHANGED <<armed, operator_start>>

\* The Y, X and A gestures move mode_index_.
SelectMode ==
  /\ Locomotion
  /\ armed' = ~armed
  /\ UNCHANGED <<estop, operator_start>>

\* start_control()
StartControl ==
  /\ ~operator_start
  /\ operator_start' = TRUE
  /\ UNCHANGED <<estop, armed>>

\* disarm(), called from the control loop's thread.
Disarm ==
  /\ armed' = FALSE
  /\ UNCHANGED <<estop, operator_start>>

\* The operator's side as a specification of its own.
InputNext == PressEStop \/ SelectMode \/ StartControl \/ Disarm
InputSpec == InputInit /\ [][InputNext]_inputVars
===============================================================================
