--------------------------- MODULE MCPlaybackTimeline ---------------------------
(***************************************************************************)
(* The instance of the timeline that TLC checks has plans as long as the   *)
(* theorems about it need, and none longer than that asks for.             *)
(***************************************************************************)
EXTENDS PlaybackTimeline

ASSUME PlansAreLongEnough ==
  /\ PlansOutlastInference
  /\ PlansOutlastInterval(MaxInference + 1)
===============================================================================
