----------------------------- MODULE MCEngineCache -----------------------------
(***************************************************************************)
(* Four models for TLC: the one the callers want, one whose uncompared     *)
(* tensor has another size, one with two elements for one at half the      *)
(* size, so that only the bytes agree, and one with the right numbers of   *)
(* elements whose compared tensor has a data type of half the size.        *)
(***************************************************************************)
EXTENDS EngineCache

CONSTANTS wanted, otherwise, doubled, halved

FourModels == {wanted, otherwise, doubled, halved}

OneEach == [tensor \in Tensors |-> 1]

FourElements ==
  [m \in FourModels |->
     CASE m = otherwise -> [compared |-> 1, other |-> 3]
       [] m = doubled   -> [compared |-> 2, other |-> 1]
       [] OTHER         -> OneEach]

FourTypes ==
  [m \in FourModels |->
     [compared |-> IF m \in {doubled, halved} THEN 2 ELSE 4, other |-> 4]]
===============================================================================
