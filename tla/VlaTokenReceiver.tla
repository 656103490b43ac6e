--------------------------- MODULE VlaTokenReceiver ---------------------------
(***************************************************************************)
(* The external token stream: latent_buf keeps the last finite token for   *)
(* ever, and only its age tells a live stream from a dead one.  The age is *)
(* kept as the class the arbiter's two thresholds cut it into.             *)
(***************************************************************************)
EXTENDS Naturals

CONSTANT MaxStreams   \* bound: how often a stream starts or resumes

VARIABLES
  token_age,   \* age class of latent_buf
  streams      \* streams started so far, up to MaxStreams

vlaVars == <<token_age, streams>>

\* fresh <= kVlaTokenFreshMs < alive <= kVlaTokenHoldMs < dead
AgeClass == {"none", "fresh", "alive", "dead"}
VlaFresh == token_age = "fresh"
VlaAlive == token_age \in {"fresh", "alive"}

VlaInit    == token_age = "none" /\ streams = 0
VlaTypeOK  == token_age \in AgeClass /\ streams \in Nat

\* on_latent_action() accepts a token; a non-finite one changes nothing.
OnLatentAction ==
  /\ token_age # "fresh"
  /\ IF token_age = "alive"
       THEN UNCHANGED streams
       ELSE streams < MaxStreams /\ streams' = streams + 1
  /\ token_age' = "fresh"

\* No token arrives while the last one passes the next threshold.
TokenAges ==
  \/ token_age = "fresh" /\ token_age' = "alive" /\ UNCHANGED streams
  \/ token_age = "alive" /\ token_age' = "dead"  /\ UNCHANGED streams
===============================================================================
