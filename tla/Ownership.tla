------------------------------- MODULE Ownership -------------------------------
(***************************************************************************)
(* What the arbitration promises (control_arbiter.hpp): the operator and   *)
(* the external stream exclude each other, whoever comes first keeps the   *)
(* robot until it lets go, the stream's exit goes through the origin and   *)
(* reaches it standing, and the token that drives the robot slides from    *)
(* one source into the next instead of stepping.                           *)
(***************************************************************************)
VARIABLES
  owner,   \* who holds the robot
  token    \* the token that drives it

Owner  == {"origin", "operator", "stream", "returning"}
Driven == {"None", "Mixed", "Standing", "EncoderG1", "EncoderTeleop", "Stream"}

\* The sources an owner may let through undiluted.
SourcesOf(o) == CASE o = "stream"    -> {"Stream"}
                  [] o = "returning" -> {"Standing"}
                  [] OTHER           -> {"EncoderG1", "EncoderTeleop"}

Init == owner = "origin" /\ token = "None"

Claim(o)    == owner = "origin"    /\ owner' = o           /\ UNCHANGED token
Release     == owner = "operator"  /\ owner' = "origin"    /\ UNCHANGED token
LoseStream  == owner = "stream"    /\ owner' = "returning" /\ UNCHANGED token
ReachOrigin ==
  /\ owner = "returning"
  /\ token \in {"Standing", "None"}
  /\ owner' = "origin"
  /\ UNCHANGED token

\* The first token may be any; from then on a source is faded in.
Drive ==
  /\ \/ token = "None" /\ token' \in Driven
     \/ token' = "Mixed"
     \/ token = "Mixed" /\ token' \in SourcesOf(owner)
  /\ UNCHANGED owner

Next ==
  \/ \E o \in {"operator", "stream"} : Claim(o)
  \/ Release
  \/ LoseStream
  \/ ReachOrigin
  \/ Drive

Spec == Init /\ [][Next]_<<owner, token>>
===============================================================================
