---------------------------- MODULE LifecycleProofs ----------------------------
(***************************************************************************)
(* The lifecycle's safety for every number of starts and attempts: an      *)
(* invariant ties the stages that run to the place of the calling thread   *)
(* in the two orders, and the orders to what each stage needs.             *)
(***************************************************************************)
EXTENDS GearsonicInference, TLAPS

USE LifecycleAssumption DEF LifecycleAssumption

\* The two orders, place by place.
LEMMA Orders ==
  /\ Len(StartOrder) = 10 /\ Len(StopOrder) = 10
  /\ StartOrder[1] = "PicoVRReader"        /\ StopOrder[10] = StartOrder[1]
  /\ StartOrder[2] = "InputHandler"        /\ StopOrder[8] = StartOrder[2]
  /\ StartOrder[3] = "TeleopTracker"       /\ StopOrder[7] = StartOrder[3]
  /\ StartOrder[4] = "UnitreeStateReader"  /\ StopOrder[9] = StartOrder[4]
  /\ StartOrder[5] = "VlaTokenReceiver"    /\ StopOrder[6] = StartOrder[5]
  /\ StartOrder[6] = "PlannerInference"    /\ StopOrder[5] = StartOrder[6]
  /\ StartOrder[7] = "UnitreeCommandWriter" /\ StopOrder[4] = StartOrder[7]
  /\ StartOrder[8] = "HandCommandWriter"   /\ StopOrder[3] = StartOrder[8]
  /\ StartOrder[9] = "MotionTokenPublisher" /\ StopOrder[2] = StartOrder[9]
  /\ StartOrder[10] = "WholeBodyController" /\ StopOrder[1] = StartOrder[10]
BY DEF StartOrder, StopOrder

LEMMA Stages ==
  Stage = {"PicoVRReader", "InputHandler", "TeleopTracker",
           "UnitreeStateReader", "VlaTokenReceiver", "PlannerInference",
           "UnitreeCommandWriter", "HandCommandWriter",
           "MotionTokenPublisher", "WholeBodyController"}
<1>1. Stage = {StartOrder[i] : i \in 1..10}
  BY Orders DEF Stage
<1>2. 1..10 = {1, 2, 3, 4, 5, 6, 7, 8, 9, 10}
  OBVIOUS
<1>. QED
  BY <1>1, <1>2, Orders

LEMMA PlacesAreStages ==
  \A i \in 1..10 : StartOrder[i] \in Stage /\ StopOrder[i] \in Stage
BY Orders, Stages

\* A stop that passed every place stopped every stage.
LEMMA AllPlaces ==
  ASSUME NEW S \in SUBSET Stage,
         (\A i \in 1..10 : StartOrder[i] \notin S)
           \/ (\A i \in 1..10 : StopOrder[i] \notin S)
  PROVE  S = {}
<1>1. \A s \in Stage : s \notin S
  BY Orders, Stages
<1>. QED
  BY <1>1

\* What a stage needs was started before it ...
LEMMA StartedAfterNeeds ==
  ASSUME NEW j \in 1..10
  PROVE  \A s \in Needs(StartOrder[j]) :
           \E i \in 1..10 : i < j /\ s = StartOrder[i]
BY Orders DEF Needs

\* ... and is stopped after it.
LEMMA StoppedBeforeNeeds ==
  ASSUME NEW i \in 1..10, NEW s \in Stage, StopOrder[i] \in Needs(s)
  PROVE  \E j \in 1..10 : j < i /\ s = StopOrder[j]
BY Orders, Stages DEF Needs

LEMMA NobodyNeedsTheController ==
  ASSUME NEW s \in Stage PROVE "WholeBodyController" \notin Needs(s)
BY Stages DEF Needs

-------------------------------------------------------------------------------
Rising == main \in {"start", "wait", "release", "exclusive"}

\* On the way up: what was passed runs, what is ahead has not started.
Risen ==
  Rising =>
    /\ \A i \in 1..10 : i < at => StartOrder[i] \in running
    /\ \A i \in 1..10 : i >= at /\ (i > 3 \/ at = 1)
                          => StartOrder[i] \notin started
    /\ main = "wait" => at = 6
    /\ main \in {"release", "exclusive"} => at = 7

\* On the way down: what was passed is gone, and one stage at most is ending.
Descended ==
  /\ main \in {"stop", "join"} =>
       \A i \in 1..10 : i < at => StopOrder[i] \notin started
  /\ \A s \in stopping : main = "join" /\ s = StopOrder[at]
  /\ running \subseteq started

\* The writer's last command, and the command in its hand.
WriterInv ==
  /\ "UnitreeCommandWriter" \notin running => in_hand = "None"
  /\ "UnitreeCommandWriter" \notin started => lowcmd \in {"None", "Damping"}

\* The takeover: exclusive, or the first question had no answer.
TakenOver ==
  /\ main = "exclusive" /\ service = "active" => unanswered
  /\ main = "release" => attempts < MaxAttempts
  /\ OnePublisher

\* A subscriber that is open beside no reader was opened by half a start.
Subscribed == subscribed /\ "UnitreeStateReader" \notin started => half

LifecycleInv ==
  /\ TypeOK
  /\ Risen
  /\ Descended
  /\ WriterInv
  /\ TakenOver
  /\ Subscribed
  /\ NoStageOutlivesItsSource
  /\ RolledBack

LEMMA LifecycleStarts == Init => LifecycleInv
<1>. SUFFICES ASSUME Init PROVE LifecycleInv
  OBVIOUS
<1>1. TypeOK
  <2>1. /\ 1 \in 1..Len(StartOrder)
        /\ 0 \in 0..MaxStarts /\ 0 \in 0..MaxAttempts
    BY Orders
  <2>. QED
    BY <2>1 DEF Init, TypeOK, Command
<1>. QED
  BY <1>1 DEF Init, LifecycleInv, Risen, Rising, Descended, WriterInv,
         TakenOver, OnePublisher, NoStageOutlivesItsSource, RolledBack, Quiet,
         Subscribed

\* The type invariant in the form the provers can use.
LEMMA Typed ==
  ASSUME TypeOK
  PROVE  /\ at \in 1..10
         /\ starts \in 0..MaxStarts /\ attempts \in 0..MaxAttempts
         /\ main \in {"idle", "start", "wait", "release", "exclusive", "up",
                       "stop", "join", "returned"}
         /\ started \subseteq Stage /\ running \subseteq Stage
         /\ stopping \subseteq Stage
BY Orders DEF TypeOK

\* Every step keeps it.
LEMMA LifecycleStep == LifecycleInv /\ [Next]_vars => LifecycleInv'
<1>. SUFFICES ASSUME LifecycleInv, [Next]_vars PROVE LifecycleInv'
  OBVIOUS
<1>. USE DEF LifecycleInv, takeVars, mainVars, threadVars, readerVars,
             stageVars, commandVars
<1>0. TypeOK
  OBVIOUS
<1>1. CASE CallStart
  <2>1. TypeOK'
    BY <1>1, <1>0, Typed, Orders DEF TypeOK, Command, Risen, Rising, TakenOver,
           CallStart
  <2>2. Risen'
    BY <1>1, <1>0, Typed, Orders DEF Risen, Rising, Descended, CallStart
  <2>3. Descended'
    BY <1>1, <1>0, Typed, Orders DEF Descended, CallStart
  <2>4. WriterInv' /\ TakenOver' /\ Subscribed'
    BY <1>1, <1>0, Typed, Orders DEF WriterInv, TakenOver, Subscribed,
           OnePublisher, Risen, Rising, Descended, CallStart
  <2>5. NoStageOutlivesItsSource'
    BY <1>1, <1>0, Typed, Orders DEF NoStageOutlivesItsSource, CallStart
  <2>6. RolledBack'
    BY <1>1, <1>0, Typed, Orders DEF RolledBack, Quiet, Subscribed, Descended,
           CallStart
  <2>. QED
    BY <2>1, <2>2, <2>3, <2>4, <2>5, <2>6
<1>2. CASE StageStarts
  <2>1. TypeOK'
    <3>1. Starting \in Stage
      BY <1>0, Typed, PlacesAreStages DEF Starting
    <3>2. at' \in 1..Len(StartOrder)
      BY <1>2, <1>0, Typed, Orders DEF StageStarts, MayStart
    <3>3. started' \subseteq Stage /\ running' \subseteq Stage
      BY <1>2, <1>0, <3>1, Typed, Stages DEF StageStarts, MayStart
    <3>. QED
      BY <1>2, <1>0, <3>2, <3>3 DEF TypeOK, StageStarts, MayStart
  <2>2. Risen'
    BY <1>2, <1>0, Typed, Orders DEF Risen, Rising, Descended, StageStarts,
           MayStart, Starting
  <2>3. Descended'
    BY <1>2, <1>0, Typed, Orders DEF Descended, StageStarts,
           MayStart, Starting
  <2>4. WriterInv' /\ TakenOver' /\ Subscribed'
    BY <1>2, <1>0, Typed, Orders DEF WriterInv, TakenOver, Subscribed,
           OnePublisher, Risen, Rising, Descended, StageStarts, MayStart,
           Starting
  <2>5. NoStageOutlivesItsSource'
    <3>1. running' = running \union {Starting}
      BY <1>2 DEF StageStarts, MayStart
    <3>2. Needs(Starting) \subseteq running
      <4>1. at \in 1..10 /\ \A i \in 1..10 : i < at => StartOrder[i] \in running
        BY <1>2, <1>0, Typed DEF Risen, Rising, StageStarts, MayStart
      <4>. QED
        BY <4>1, StartedAfterNeeds DEF Starting
    <3>3. ASSUME NEW s \in running' PROVE Needs(s) \subseteq running'
      <4>1. CASE s \in running
        <5>1. Needs(s) \subseteq running
          BY <4>1, <1>0 DEF NoStageOutlivesItsSource
        <5>. QED
          BY <5>1, <3>1
      <4>2. CASE s = Starting
        BY <4>2, <3>1, <3>2
      <4>. QED
        BY <4>1, <4>2, <3>1
    <3>. QED
      BY <3>3 DEF NoStageOutlivesItsSource
  <2>6. RolledBack'
    BY <1>2, <1>0, Typed, Orders DEF RolledBack, Quiet, Subscribed, Descended,
           StageStarts, MayStart, Starting
  <2>. QED
    BY <2>1, <2>2, <2>3, <2>4, <2>5, <2>6
<1>3. CASE StageFails
  <2>1. TypeOK'
    <3>1. subscribed' \in BOOLEAN /\ half' \in BOOLEAN
      BY <1>3, <1>0 DEF TypeOK, StageFails, ReaderFails
    <3>2. /\ main' \in {"returned", "stop"} /\ at' = 1 /\ result' = "false"
          /\ UNCHANGED <<starts, quit, started, threadVars, commandVars,
                         takeVars>>
      BY <1>3 DEF StageFails
    <3>. QED
      BY <1>0, <3>1, <3>2, Orders DEF TypeOK, Command
  <2>2. Risen'
    BY <1>3, <1>0, Typed, Orders DEF Risen, Rising, Descended, StageFails,
           ReaderFails, Starting
  <2>3. Descended'
    BY <1>3, <1>0, Typed, Orders DEF Descended, StageFails, ReaderFails,
           Starting
  <2>4. WriterInv' /\ TakenOver' /\ Subscribed'
    BY <1>3, <1>0, Typed, Orders DEF WriterInv, TakenOver, Subscribed,
           OnePublisher, Risen, Rising, Descended, StageFails, ReaderFails,
           Starting
  <2>5. NoStageOutlivesItsSource'
    BY <1>3, <1>0, Typed, Orders DEF NoStageOutlivesItsSource, StageFails,
           ReaderFails, Starting
  <2>6. RolledBack'
    <3>1. CASE Starting = "PicoVRReader"
      <4>1. at = 1
        BY <1>0, <3>1, Typed, Orders DEF Starting
      <4>2. started = {}
        BY <1>3, <1>0, <4>1, Typed, AllPlaces DEF Risen, Rising, StageFails
      <4>. QED
        BY <1>3, <4>2 DEF RolledBack, Quiet, Subscribed, Descended, StageFails
    <3>2. CASE Starting # "PicoVRReader"
      BY <1>3, <3>2 DEF RolledBack, Quiet, Subscribed, StageFails
    <3>. QED
      BY <3>1, <3>2
  <2>. QED
    BY <2>1, <2>2, <2>3, <2>4, <2>5, <2>6
<1>4. CASE KeyThrows
  <2>1. TypeOK'
    BY <1>4, <1>0, Typed, Orders DEF TypeOK, Command, Risen, Rising, TakenOver,
           KeyThrows, Starting
  <2>2. Risen'
    BY <1>4, <1>0, Typed, Orders DEF Risen, Rising, Descended, KeyThrows,
           Starting
  <2>3. Descended'
    BY <1>4, <1>0, Typed, Orders DEF Descended, KeyThrows, Starting
  <2>4. WriterInv' /\ TakenOver' /\ Subscribed'
    BY <1>4, <1>0, Typed, Orders DEF WriterInv, TakenOver, Subscribed,
           OnePublisher, Risen, Rising, Descended, KeyThrows, Starting
  <2>5. NoStageOutlivesItsSource'
    BY <1>4, <1>0, Typed, Orders DEF NoStageOutlivesItsSource, KeyThrows,
           Starting
  <2>6. RolledBack'
    BY <1>4, <1>0, Typed, Orders DEF RolledBack, Quiet, Subscribed, Descended,
           KeyThrows, Starting
  <2>. QED
    BY <2>1, <2>2, <2>3, <2>4, <2>5, <2>6
<1>5. CASE AwaitState
  <2>1. TypeOK'
    BY <1>5, <1>0, Typed, Orders DEF TypeOK, Command, Risen, Rising, TakenOver,
           AwaitState
  <2>2. Risen'
    BY <1>5, <1>0, Typed, Orders DEF Risen, Rising, Descended, AwaitState
  <2>3. Descended'
    BY <1>5, <1>0, Typed, Orders DEF Descended, AwaitState
  <2>4. WriterInv' /\ TakenOver' /\ Subscribed'
    BY <1>5, <1>0, Typed, Orders DEF WriterInv, TakenOver, Subscribed,
           OnePublisher, Risen, Rising, Descended, AwaitState
  <2>5. NoStageOutlivesItsSource'
    BY <1>5, <1>0, Typed, Orders DEF NoStageOutlivesItsSource, AwaitState
  <2>6. RolledBack'
    BY <1>5, <1>0, Typed, Orders DEF RolledBack, Quiet, Subscribed, Descended,
           AwaitState
  <2>. QED
    BY <2>1, <2>2, <2>3, <2>4, <2>5, <2>6
<1>6. CASE CheckMode
  <2>1. TypeOK'
    <3>0. 0 \in 0..MaxAttempts
      BY LifecycleAssumption DEF LifecycleAssumption
    <3>1. attempts' \in 0..MaxAttempts /\ unanswered' \in BOOLEAN
      BY <1>6, <3>0 DEF CheckMode
    <3>2. main' \in {"release", "exclusive"}
      BY <1>6 DEF CheckMode
    <3>. QED
      BY <1>6, <1>0, <3>1, <3>2 DEF TypeOK, CheckMode
  <2>2. Risen'
    BY <1>6, <1>0, Typed, Orders DEF Risen, Rising, Descended, CheckMode,
           Starting
  <2>3. Descended'
    BY <1>6, <1>0, Typed, Orders DEF Descended, CheckMode, Starting
  <2>4. WriterInv' /\ TakenOver' /\ Subscribed'
    BY <1>6, <1>0, Typed, Orders DEF WriterInv, TakenOver, Subscribed,
           OnePublisher, Risen, Rising, Descended, CheckMode, Starting
  <2>5. NoStageOutlivesItsSource'
    BY <1>6, <1>0, Typed, Orders DEF NoStageOutlivesItsSource, CheckMode,
           Starting
  <2>6. RolledBack'
    BY <1>6, <1>0, Typed, Orders DEF RolledBack, Quiet, Subscribed, Descended,
           CheckMode, Starting
  <2>. QED
    BY <2>1, <2>2, <2>3, <2>4, <2>5, <2>6
<1>7. CASE ReleaseMode
  <2>1. TypeOK'
    BY <1>7, <1>0, Typed, Orders DEF TypeOK, Command, Risen, Rising, TakenOver,
           ReleaseMode, IsReleased
  <2>2. Risen'
    BY <1>7, <1>0, Typed, Orders DEF Risen, Rising, Descended, ReleaseMode,
           IsReleased
  <2>3. Descended'
    BY <1>7, <1>0, Typed, Orders DEF Descended, ReleaseMode, IsReleased
  <2>4. WriterInv' /\ TakenOver' /\ Subscribed'
    BY <1>7, <1>0, Typed, Orders DEF WriterInv, TakenOver, Subscribed,
           OnePublisher, Risen, Rising, Descended, ReleaseMode, IsReleased
  <2>5. NoStageOutlivesItsSource'
    BY <1>7, <1>0, Typed, Orders DEF NoStageOutlivesItsSource, ReleaseMode,
           IsReleased
  <2>6. RolledBack'
    BY <1>7, <1>0, Typed, Orders DEF RolledBack, Quiet, Subscribed, Descended,
           ReleaseMode, IsReleased
  <2>. QED
    BY <2>1, <2>2, <2>3, <2>4, <2>5, <2>6
<1>8. CASE CallStop
  <2>1. TypeOK'
    BY <1>8, <1>0, Typed, Orders DEF TypeOK, Command, Risen, Rising, TakenOver,
           CallStop
  <2>2. Risen'
    BY <1>8, <1>0, Typed, Orders DEF Risen, Rising, Descended, CallStop
  <2>3. Descended'
    BY <1>8, <1>0, Typed, Orders DEF Descended, CallStop
  <2>4. WriterInv' /\ TakenOver' /\ Subscribed'
    BY <1>8, <1>0, Typed, Orders DEF WriterInv, TakenOver, Subscribed,
           OnePublisher, Risen, Rising, Descended, CallStop
  <2>5. NoStageOutlivesItsSource'
    BY <1>8, <1>0, Typed, Orders DEF NoStageOutlivesItsSource, CallStop
  <2>6. RolledBack'
    BY <1>8, <1>0, Typed, Orders DEF RolledBack, Quiet, Subscribed, Descended,
           CallStop
  <2>. QED
    BY <2>1, <2>2, <2>3, <2>4, <2>5, <2>6
<1>9. CASE RequestQuit
  <2>1. TypeOK'
    BY <1>9, <1>0, Typed, Orders DEF TypeOK, Command, Risen, Rising, TakenOver,
           RequestQuit
  <2>2. Risen'
    BY <1>9, <1>0, Typed, Orders DEF Risen, Rising, Descended, RequestQuit
  <2>3. Descended'
    BY <1>9, <1>0, Typed, Orders DEF Descended, RequestQuit
  <2>4. WriterInv' /\ TakenOver' /\ Subscribed'
    BY <1>9, <1>0, Typed, Orders DEF WriterInv, TakenOver, Subscribed,
           OnePublisher, Risen, Rising, Descended, RequestQuit
  <2>5. NoStageOutlivesItsSource'
    BY <1>9, <1>0, Typed, Orders DEF NoStageOutlivesItsSource, RequestQuit
  <2>6. RolledBack'
    BY <1>9, <1>0, Typed, Orders DEF RolledBack, Quiet, Subscribed, Descended,
           RequestQuit
  <2>. QED
    BY <2>1, <2>2, <2>3, <2>4, <2>5, <2>6
<1>10. CASE SignalStop
  <2>1. TypeOK'
    BY <1>10, <1>0, Typed, Orders DEF TypeOK, Command, Risen, Rising,
           TakenOver, SignalStop, Stopping, NextStop
  <2>2. Risen'
    BY <1>10, <1>0, Typed, Orders DEF Risen, Rising, Descended, SignalStop,
           Stopping, NextStop
  <2>3. Descended'
    BY <1>10, <1>0, Typed, Orders DEF Descended, SignalStop, Stopping, NextStop
  <2>4. WriterInv' /\ TakenOver' /\ Subscribed'
    BY <1>10, <1>0, Typed, Orders DEF WriterInv, TakenOver, Subscribed,
           OnePublisher, Risen, Rising, Descended, SignalStop, Stopping,
           NextStop
  <2>5. NoStageOutlivesItsSource'
    BY <1>10, <1>0, Typed, Orders DEF NoStageOutlivesItsSource, SignalStop,
           Stopping, NextStop
  <2>6. RolledBack'
    <3>1. CASE main' = "returned"
      <4>1. at = 10 /\ \A i \in 1..10 : StopOrder[i] \notin started'
        BY <1>10, <1>0, <3>1, Typed, Orders
           DEF Descended, SignalStop, Stopping, NextStop
      <4>2. started' = {}
        BY <2>1, <4>1, AllPlaces DEF TypeOK
      <4>. QED
        BY <2>3, <2>4, <4>2 DEF RolledBack, Quiet, Subscribed, Descended
    <3>2. CASE main' # "returned"
      BY <3>2 DEF RolledBack, Quiet, Subscribed
    <3>. QED
      BY <3>1, <3>2
  <2>. QED
    BY <2>1, <2>2, <2>3, <2>4, <2>5, <2>6
<1>11. CASE JoinStage
  <2>1. TypeOK'
    BY <1>11, <1>0, Typed, Orders DEF TypeOK, Command, Risen, Rising,
           TakenOver, JoinStage, Stopping, NextStop, LastWord
  <2>2. Risen'
    BY <1>11, <1>0, Typed, Orders DEF Risen, Rising, Descended, JoinStage,
           Stopping, NextStop, LastWord
  <2>3. Descended'
    BY <1>11, <1>0, Typed, Orders DEF Descended, JoinStage, Stopping, NextStop,
           LastWord
  <2>4. WriterInv' /\ TakenOver' /\ Subscribed'
    BY <1>11, <1>0, Typed, Orders DEF WriterInv, TakenOver, Subscribed,
           OnePublisher, Risen, Rising, Descended, JoinStage, Stopping,
           NextStop, LastWord
  <2>5. NoStageOutlivesItsSource'
    BY <1>11, <1>0, Typed, Orders DEF NoStageOutlivesItsSource, JoinStage,
           Stopping, NextStop, LastWord
  <2>6. RolledBack'
    <3>1. CASE main' = "returned"
      <4>1. at = 10 /\ \A i \in 1..10 : StopOrder[i] \notin started'
        BY <1>11, <1>0, <3>1, Typed, Orders
           DEF Descended, JoinStage, Stopping, NextStop
      <4>2. started' = {}
        BY <2>1, <4>1, AllPlaces DEF TypeOK
      <4>. QED
        BY <2>3, <2>4, <4>2 DEF RolledBack, Quiet, Subscribed, Descended
    <3>2. CASE main' # "returned"
      BY <3>2 DEF RolledBack, Quiet, Subscribed
    <3>. QED
      BY <3>1, <3>2
  <2>. QED
    BY <2>1, <2>2, <2>3, <2>4, <2>5, <2>6
<1>12. CASE LoopEnds
  <2>1. TypeOK'
    BY <1>12, <1>0, Typed, Orders DEF TypeOK, Command, Risen, Rising,
           TakenOver, LoopEnds
  <2>2. Risen'
    BY <1>12, <1>0, Typed, Orders DEF Risen, Rising, Descended, LoopEnds
  <2>3. Descended'
    BY <1>12, <1>0, Typed, Orders DEF Descended, LoopEnds
  <2>4. WriterInv' /\ TakenOver' /\ Subscribed'
    BY <1>12, <1>0, Typed, Orders DEF WriterInv, TakenOver, Subscribed,
           OnePublisher, Risen, Rising, Descended, LoopEnds
  <2>5. NoStageOutlivesItsSource'
    <3>. SUFFICES ASSUME NEW s \in running' PROVE Needs(s) \subseteq running'
      BY DEF NoStageOutlivesItsSource
    <3>1. PICK e \in stopping \intersect running : running' = running \ {e}
      BY <1>12 DEF LoopEnds
    <3>2. /\ s \in Stage /\ s \in started /\ Needs(s) \subseteq running
          /\ main = "join" /\ e = StopOrder[at]
      BY <1>0, <3>1, Typed DEF NoStageOutlivesItsSource, Descended
    <3>3. e \notin Needs(s)
      BY <1>0, <3>2, Typed, StoppedBeforeNeeds DEF Descended
    <3>. QED
      BY <3>1, <3>2, <3>3
  <2>6. RolledBack'
    BY <1>12, <1>0, Typed, Orders DEF RolledBack, Quiet, Subscribed, Descended,
           LoopEnds
  <2>. QED
    BY <2>1, <2>2, <2>3, <2>4, <2>5, <2>6
<1>13. CASE LoopDies
  <2>1. TypeOK'
    BY <1>13, <1>0, Typed, Orders DEF TypeOK, Command, Risen, Rising,
           TakenOver, LoopDies
  <2>2. Risen'
    BY <1>13, <1>0, Typed, Orders DEF Risen, Rising, Descended, LoopDies
  <2>3. Descended'
    BY <1>13, <1>0, Typed, Orders DEF Descended, LoopDies
  <2>4. WriterInv' /\ TakenOver' /\ Subscribed'
    BY <1>13, <1>0, Typed, Orders DEF WriterInv, TakenOver, Subscribed,
           OnePublisher, Risen, Rising, Descended, LoopDies
  <2>5. NoStageOutlivesItsSource'
    BY <1>13, <1>0, Typed, NobodyNeedsTheController
       DEF NoStageOutlivesItsSource, LoopDies
  <2>6. RolledBack'
    BY <1>13, <1>0, Typed, Orders DEF RolledBack, Quiet, Subscribed, Descended,
           LoopDies
  <2>. QED
    BY <2>1, <2>2, <2>3, <2>4, <2>5, <2>6
<1>14. CASE ControlLoop
  <2>1. TypeOK'
    BY <1>14, <1>0, Typed, Orders DEF TypeOK, Command, Risen, Rising,
           TakenOver, ControlLoop
  <2>2. Risen'
    BY <1>14, <1>0, Typed, Orders DEF Risen, Rising, Descended, ControlLoop
  <2>3. Descended'
    BY <1>14, <1>0, Typed, Orders DEF Descended, ControlLoop
  <2>4. WriterInv' /\ TakenOver' /\ Subscribed'
    BY <1>14, <1>0, Typed, Orders DEF WriterInv, TakenOver, Subscribed,
           OnePublisher, Risen, Rising, Descended, ControlLoop
  <2>5. NoStageOutlivesItsSource'
    BY <1>14, <1>0, Typed, Orders DEF NoStageOutlivesItsSource, ControlLoop
  <2>6. RolledBack'
    BY <1>14, <1>0, Typed, Orders DEF RolledBack, Quiet, Subscribed, Descended,
           ControlLoop
  <2>. QED
    BY <2>1, <2>2, <2>3, <2>4, <2>5, <2>6
<1>15. CASE WriterReads
  <2>1. TypeOK'
    BY <1>15, <1>0, Typed, Orders DEF TypeOK, Command, Risen, Rising,
           TakenOver, WriterReads
  <2>2. Risen'
    BY <1>15, <1>0, Typed, Orders DEF Risen, Rising, Descended, WriterReads
  <2>3. Descended'
    BY <1>15, <1>0, Typed, Orders DEF Descended, WriterReads
  <2>4. WriterInv' /\ TakenOver' /\ Subscribed'
    BY <1>15, <1>0, Typed, Orders DEF WriterInv, TakenOver, Subscribed,
           OnePublisher, Risen, Rising, Descended, WriterReads
  <2>5. NoStageOutlivesItsSource'
    BY <1>15, <1>0, Typed, Orders DEF NoStageOutlivesItsSource, WriterReads
  <2>6. RolledBack'
    BY <1>15, <1>0, Typed, Orders DEF RolledBack, Quiet, Subscribed, Descended,
           WriterReads
  <2>. QED
    BY <2>1, <2>2, <2>3, <2>4, <2>5, <2>6
<1>16. CASE WriterSends
  <2>1. TypeOK'
    BY <1>16, <1>0, Typed, Orders DEF TypeOK, Command, Risen, Rising,
           TakenOver, WriterSends
  <2>2. Risen'
    BY <1>16, <1>0, Typed, Orders DEF Risen, Rising, Descended, WriterSends
  <2>3. Descended'
    BY <1>16, <1>0, Typed, Orders DEF Descended, WriterSends
  <2>4. WriterInv' /\ TakenOver' /\ Subscribed'
    BY <1>16, <1>0, Typed, Orders DEF WriterInv, TakenOver, Subscribed,
           OnePublisher, Risen, Rising, Descended, WriterSends
  <2>5. NoStageOutlivesItsSource'
    BY <1>16, <1>0, Typed, Orders DEF NoStageOutlivesItsSource, WriterSends
  <2>6. RolledBack'
    BY <1>16, <1>0, Typed, Orders DEF RolledBack, Quiet, Subscribed, Descended,
           WriterSends
  <2>. QED
    BY <2>1, <2>2, <2>3, <2>4, <2>5, <2>6
<1>17. CASE LowState
  <2>1. TypeOK'
    BY <1>17, <1>0, Typed, Orders DEF TypeOK, Command, Risen, Rising,
           TakenOver, LowState
  <2>2. Risen'
    BY <1>17, <1>0, Typed, Orders DEF Risen, Rising, Descended, LowState
  <2>3. Descended'
    BY <1>17, <1>0, Typed, Orders DEF Descended, LowState
  <2>4. WriterInv' /\ TakenOver' /\ Subscribed'
    BY <1>17, <1>0, Typed, Orders DEF WriterInv, TakenOver, Subscribed,
           OnePublisher, Risen, Rising, Descended, LowState
  <2>5. NoStageOutlivesItsSource'
    BY <1>17, <1>0, Typed, Orders DEF NoStageOutlivesItsSource, LowState
  <2>6. RolledBack'
    BY <1>17, <1>0, Typed, Orders DEF RolledBack, Quiet, Subscribed, Descended,
           LowState
  <2>. QED
    BY <2>1, <2>2, <2>3, <2>4, <2>5, <2>6
<1>18. CASE ChannelThrows
  <2>1. TypeOK'
    BY <1>18, <1>0, Typed, Orders DEF TypeOK, Command, Risen, Rising,
           TakenOver, ChannelThrows, Starting, MayStart
  <2>2. Risen'
    BY <1>18, <1>0, Typed, Orders DEF Risen, Rising, Descended, ChannelThrows,
           Starting, MayStart
  <2>3. Descended'
    BY <1>18, <1>0, Typed, Orders DEF Descended, ChannelThrows, Starting,
           MayStart
  <2>4. WriterInv' /\ TakenOver' /\ Subscribed'
    BY <1>18, <1>0, Typed, Orders DEF WriterInv, TakenOver, Subscribed,
           OnePublisher, Risen, Rising, Descended, ChannelThrows, Starting,
           MayStart
  <2>5. NoStageOutlivesItsSource'
    BY <1>18, <1>0, Typed, Orders DEF NoStageOutlivesItsSource, ChannelThrows,
           Starting, MayStart
  <2>6. RolledBack'
    BY <1>18, <1>0, Typed, Orders DEF RolledBack, Quiet, Subscribed, Descended,
           ChannelThrows, Starting, MayStart
  <2>. QED
    BY <2>1, <2>2, <2>3, <2>4, <2>5, <2>6
<1>19. CASE WatchdogClears
  <2>1. TypeOK'
    BY <1>19, <1>0, Typed, Orders DEF TypeOK, Command, Risen, Rising,
           TakenOver, WatchdogClears
  <2>2. Risen'
    BY <1>19, <1>0, Typed, Orders DEF Risen, Rising, Descended, WatchdogClears
  <2>3. Descended'
    BY <1>19, <1>0, Typed, Orders DEF Descended, WatchdogClears
  <2>4. WriterInv' /\ TakenOver' /\ Subscribed'
    BY <1>19, <1>0, Typed, Orders DEF WriterInv, TakenOver, Subscribed,
           OnePublisher, Risen, Rising, Descended, WatchdogClears
  <2>5. NoStageOutlivesItsSource'
    BY <1>19, <1>0, Typed, Orders DEF NoStageOutlivesItsSource, WatchdogClears
  <2>6. RolledBack'
    BY <1>19, <1>0, Typed, Orders DEF RolledBack, Quiet, Subscribed, Descended,
           WatchdogClears
  <2>. QED
    BY <2>1, <2>2, <2>3, <2>4, <2>5, <2>6
<1>20. CASE UNCHANGED vars
  BY <1>20 DEF vars, TypeOK, Risen, Rising, Descended, WriterInv, TakenOver,
              OnePublisher, NoStageOutlivesItsSource, RolledBack, Quiet,
              Subscribed
<1>. QED
  BY <1>1, <1>2, <1>3, <1>4, <1>5, <1>6, <1>7, <1>8, <1>9, <1>10, <1>11, <1>12,
     <1>13, <1>14, <1>15, <1>16, <1>17, <1>18, <1>19, <1>20
     DEF Next, MainThread, StageThread, ReaderThread

\* It always holds.
LEMMA LifecycleAlways == Spec => []LifecycleInv
BY LifecycleStarts, LifecycleStep, PTL DEF Spec

-------------------------------------------------------------------------------
\* Type correctness; in particular at never leaves the two orders.
THEOREM LifecycleTypeCorrect == Spec => []TypeOK
BY LifecycleAlways, PTL DEF LifecycleInv

(* The last the robot was sent is damping, once the writer that moved it   *)
(* has stopped: in every rollback and shutdown, and at every order of the  *)
(* loops' steps.                                                           *)
THEOREM DampingAlwaysLast == Spec => []DampingIsLast
<1>1. LifecycleInv => DampingIsLast
  BY DEF LifecycleInv, WriterInv, DampingIsLast
<1>. QED
  BY <1>1, LifecycleAlways, PTL

(* A stage runs only beside what it reads and what carries it, from the    *)
(* first start to the last stop, whichever stage fails.                    *)
THEOREM SourcesOutlive == Spec => []NoStageOutlivesItsSource
BY LifecycleAlways, PTL DEF LifecycleInv

(* A start() that returned false left no thread running and no subscriber  *)
(* open, but for the one a reader's own start() opened before it failed.   *)
THEOREM FailedStartsRollBack == Spec => []RolledBack
BY LifecycleAlways, PTL DEF LifecycleInv

(* The command topic has one publisher, however often the service ignores  *)
(* the release or leaves the second question without an answer.            *)
THEOREM NeverTwoPublishers == Spec => []OnePublisher
<1>1. LifecycleInv => OnePublisher
  BY DEF LifecycleInv, TakenOver
<1>. QED
  BY <1>1, LifecycleAlways, PTL
===============================================================================
