---------------------------- MODULE ModelInference ----------------------------
(***************************************************************************)
(* One inference of the planner, encoder or decoder network, as its callers *)
(* see it: it answers, or Enqueue fails and the caller's step is given up. *)
(***************************************************************************)
EXTENDS Naturals

CONSTANT MaxFaults   \* bound: how many inferences fail

ASSUME FaultsAssumption == MaxFaults \in Nat

VARIABLE faults      \* failed inferences so far

InferenceInit   == faults = 0
InferenceTypeOK == faults \in 0..MaxFaults

InferOk    == UNCHANGED faults
InferFails == faults < MaxFaults /\ faults' = faults + 1
===============================================================================
