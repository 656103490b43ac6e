-------------------------- MODULE GearsonicInference --------------------------
(***************************************************************************)
(* The lifecycle (gearsonic_inference.cpp): start() brings the stages up   *)
(* in order and rolls back through stop(), which takes them down with the  *)
(* controller first.  The command writer takes the topic over from the     *)
(* robot's own motion service; it and the control loop are followed far    *)
(* enough to tell what the robot was sent last.                            *)
(***************************************************************************)
EXTENDS Naturals, Sequences

CONSTANTS
  MaxStarts,  \* bound: how often start() is called
  Failures,   \* switch: a stage may fail or throw, or the loop may die
  BadConfig,  \* switch: a configuration key may be missing
  MaxAttempts \* calls of ReleaseMode() before the writer gives up

ASSUME LifecycleAssumption ==
  /\ MaxStarts \in Nat
  /\ MaxAttempts \in Nat \ {0}
  /\ {Failures, BadConfig} \subseteq BOOLEAN

StartOrder ==
  <<"PicoVRReader", "InputHandler", "TeleopTracker", "UnitreeStateReader",
    "VlaTokenReceiver", "PlannerInference", "UnitreeCommandWriter",
    "HandCommandWriter", "MotionTokenPublisher", "WholeBodyController">>

\* Mutant: the writer is stopped before the controller.
StopOrderWriterFirst ==
  <<"UnitreeCommandWriter", "WholeBodyController", "MotionTokenPublisher",
    "HandCommandWriter", "PlannerInference", "VlaTokenReceiver",
    "TeleopTracker", "InputHandler", "UnitreeStateReader", "PicoVRReader">>

StopOrder ==
  <<"WholeBodyController", "MotionTokenPublisher", "HandCommandWriter",
    "UnitreeCommandWriter", "PlannerInference", "VlaTokenReceiver",
    "TeleopTracker", "InputHandler", "UnitreeStateReader", "PicoVRReader">>

Stage == {StartOrder[i] : i \in 1..Len(StartOrder)}

\* start() of these does not return false, but for the writer's takeover of
\* the topic; two of them open their DDS channels without a catch; a key is
\* read on the way to the last three.
Infallible   == {"InputHandler", "TeleopTracker", "HandCommandWriter",
                 "UnitreeCommandWriter"}
OpensChannel == {"UnitreeCommandWriter", "HandCommandWriter"}
ReadsKey     == {"UnitreeStateReader", "PlannerInference",
                 "WholeBodyController"}

VARIABLES
  main,         \* where the calling thread is
  at,           \* the stage it is at
  result,       \* what the last start() returned
  starts,       \* calls of start() so far, up to MaxStarts
  quit,         \* quit_
  started,      \* the *_started_ flags
  running,      \* stages whose thread is alive; the reader's is its watchdog
  subscribed,   \* lowstate_sub_ is open: the LowState callback is alive
  half,         \* history: the reader failed after lowstate_sub_ had opened,
                \* and has not replaced it since
  stopping,     \* stages whose stop_ is set
  state_buf,    \* unitree_state_buf holds a sample
  state,        \* the controller's state_
  command,      \* motor_command_buf
  in_hand,      \* the command the writer has read and not yet sent
  lowcmd,       \* what the robot was sent last
  service,      \* the built-in motion service
  attempts,     \* ReleaseMode() calls so far
  unanswered    \* history: this start's first CheckMode() had no answer

takeVars    == <<service, attempts, unanswered>>
mainVars    == <<main, at, result, starts, quit, started, takeVars>>
threadVars  == <<running, stopping>>
readerVars  == <<subscribed, half>>
commandVars == <<state_buf, state, command, in_hand, lowcmd>>
stageVars   == <<threadVars, readerVars>>
vars        == <<mainVars, stageVars, commandVars>>

Command == {"None", "Ramp", "Policy", "Damping"}

Init ==
  /\ main = "idle"
  /\ at = 1
  /\ result = "none"
  /\ starts = 0
  /\ quit = FALSE
  /\ started = {}
  /\ running = {}
  /\ stopping = {}
  /\ subscribed = FALSE
  /\ half = FALSE
  /\ state_buf = FALSE
  /\ state = "INIT"
  /\ command = "None"
  /\ in_hand = "None"
  /\ lowcmd = "None"
  /\ service \in {"active", "released", "absent"}
  /\ attempts = 0
  /\ unanswered = FALSE

-------------------------------------------------------------------------------
\* start()

CallStart ==
  /\ main \in {"idle", "returned"}
  /\ started = {}
  /\ starts < MaxStarts
  /\ starts' = starts + 1
  /\ \/ main' = "start" /\ result' = "none"
     \/ Failures /\ main' = "returned" /\ result' = "false"
  /\ at' = 1
  /\ UNCHANGED <<quit, started, stageVars, commandVars, takeVars>>

Starting == StartOrder[at]

\* The command writer goes on once ensure_exclusive_lowcmd() has returned true.
MayStart ==
  main = IF Starting = "UnitreeCommandWriter" THEN "exclusive" ELSE "start"

\* vr_started_ stands for the first three stages.
StageStarts ==
  /\ MayStart
  /\ running' = running \union {Starting}
  /\ started' = started \union
       (IF Starting = "PicoVRReader"
          THEN {"PicoVRReader", "InputHandler", "TeleopTracker"}
          ELSE {Starting})
  /\ IF at = Len(StartOrder)
       THEN main' = "up" /\ result' = "true" /\ UNCHANGED at
       ELSE /\ main' =
                 IF Starting = "VlaTokenReceiver" THEN "wait" ELSE "start"
            /\ at' = at + 1
            /\ UNCHANGED result
  /\ IF Starting = "UnitreeStateReader"
       THEN subscribed' = TRUE /\ half' = FALSE
       ELSE UNCHANGED readerVars
  /\ UNCHANGED <<starts, quit, stopping, commandVars, takeVars>>

\* Mutant: a stage that fails returns without the rollback.
StageFailsOut ==
  /\ main = "start"
  /\ Failures
  /\ Starting \notin Infallible
  /\ result' = "false"
  /\ main' = "returned"
  /\ UNCHANGED <<at, starts, quit, started, stageVars, commandVars, takeVars>>

\* The reader's try block: Init() throws before an earlier subscriber is
\* replaced, the first InitChannel() after, the second one beside the first.
ReaderFails ==
  \/ UNCHANGED readerVars
  \/ subscribed' = FALSE /\ half' = FALSE
  \/ subscribed' = TRUE /\ half' = TRUE

\* A stage that returns false: rolled back, unless nothing runs yet.  Its own
\* flag is not set, so the rollback skips what it left open.
StageFails ==
  /\ main = "start"
  /\ Failures
  /\ Starting \notin Infallible
  /\ result' = "false"
  /\ main' = IF Starting = "PicoVRReader" THEN "returned" ELSE "stop"
  /\ at' = 1
  /\ IF Starting = "UnitreeStateReader" THEN ReaderFails
                                        ELSE UNCHANGED readerVars
  /\ UNCHANGED <<starts, quit, started, threadVars, commandVars, takeVars>>

\* The conversion of a missing key throws out of start().
KeyThrows ==
  /\ main = "start"
  /\ BadConfig
  /\ Starting \in ReadsKey
  /\ result' = "thrown"
  /\ main' = "returned"
  /\ UNCHANGED <<at, starts, quit, started, stageVars, commandVars, takeVars>>

\* Nor does start() catch what InitChannel() throws; it passes the rollback.
ChannelThrows ==
  /\ MayStart
  /\ Failures
  /\ Starting \in OpensChannel
  /\ result' = "thrown"
  /\ main' = "returned"
  /\ UNCHANGED <<at, starts, quit, started, stageVars, commandVars, takeVars>>

\* Mutant: the wait does not look at quit_.
AwaitStateDeaf ==
  /\ main = "wait"
  /\ state_buf
  /\ main' = "start"
  /\ UNCHANGED <<at, result, starts, quit, started, stageVars, commandVars,
                 takeVars>>

AwaitState ==
  /\ main = "wait"
  /\ IF state_buf
       THEN main' = "start" /\ UNCHANGED <<at, result>>
       ELSE quit /\ main' = "stop" /\ at' = 1 /\ result' = "false"
  /\ UNCHANGED <<starts, quit, started, stageVars, commandVars, takeVars>>

\* The first CheckMode(): without an answer nothing is released.
CheckMode ==
  /\ main = "start"
  /\ Starting = "UnitreeCommandWriter"
  /\ attempts' = 0
  /\ \/ unanswered' = TRUE /\ main' = "exclusive"
     \/ /\ service # "absent"
        /\ unanswered' = FALSE
        /\ main' = IF service = "released" THEN "exclusive" ELSE "release"
  /\ UNCHANGED <<at, result, starts, quit, started, service, stageVars,
                 commandVars>>

\* Mutant: a check without an answer counts as released.
IsReleasedUnheard(answer) == answer # "active"

\* CheckMode() after the release: 0, and an empty name.
IsReleased(answer) == answer = "released"

\* One round of the loop: the release may be ignored, the check unanswered.
ReleaseMode ==
  /\ main = "release"
  /\ attempts' = attempts + 1
  /\ service' \in {"active", "released"}
  /\ \E answer \in {service', "none"} :
       IF IsReleased(answer)
       THEN main' = "exclusive" /\ UNCHANGED <<at, result>>
       ELSE IF attempts' < MaxAttempts THEN UNCHANGED <<main, at, result>>
       ELSE main' = "stop" /\ at' = 1 /\ result' = "false"
  /\ UNCHANGED <<starts, quit, started, unanswered, stageVars, commandVars>>

-------------------------------------------------------------------------------
\* stop()

Stopping == StopOrder[at]

NextStop == IF at < Len(StopOrder) THEN main' = "stop" /\ at' = at + 1
                                   ELSE main' = "returned" /\ at' = 1

\* The caller's loop sees quit_; an embedding process calls it when it likes.
CallStop ==
  /\ main \in {"up", "returned"}
  /\ started # {}
  /\ main' = "stop"
  /\ at' = 1
  /\ UNCHANGED <<result, starts, quit, started, stageVars, commandVars,
                 takeVars>>

RequestQuit ==
  /\ ~quit
  /\ quit' = TRUE
  /\ UNCHANGED <<main, at, result, starts, started, stageVars, commandVars,
                 takeVars>>

\* stop_ = true, for a stage that came up.
SignalStop ==
  /\ main = "stop"
  /\ IF Stopping \in started
       THEN /\ stopping' = stopping \union {Stopping}
            /\ main' = "join"
            /\ UNCHANGED at
       ELSE NextStop /\ UNCHANGED stopping
  /\ UNCHANGED <<result, starts, quit, started, running, readerVars,
                 commandVars, takeVars>>

\* Mutant: the writer's stop() sends no damping.
LastWordNone == UNCHANGED lowcmd

\* send_damping(), after the writer's loop has ended.
LastWord == lowcmd' = IF Stopping = "UnitreeCommandWriter" THEN "Damping"
                      ELSE lowcmd

\* The thread is joined; the controller leaves damping in its buffer, the
\* reader drops its subscribers.
JoinStage ==
  /\ main = "join"
  /\ Stopping \notin running
  /\ stopping' = stopping \ {Stopping}
  /\ started' = started \ {Stopping}
  /\ command' = IF Stopping = "WholeBodyController" THEN "Damping" ELSE command
  /\ subscribed' = (subscribed /\ Stopping # "UnitreeStateReader")
  /\ LastWord
  /\ NextStop
  /\ UNCHANGED <<result, starts, quit, running, half, state_buf, state,
                 in_hand, takeVars>>

-------------------------------------------------------------------------------
\* The stages' threads.

LoopEnds ==
  /\ \E s \in stopping \intersect running :
       /\ s = "UnitreeCommandWriter" => in_hand = "None"
       /\ running' = running \ {s}
  /\ UNCHANGED <<mainVars, stopping, readerVars, commandVars>>

\* The control loop's catch: the thread ends, its flag stays.
LoopDies ==
  /\ Failures
  /\ "WholeBodyController" \in running
  /\ running' = running \ {"WholeBodyController"}
  /\ UNCHANGED <<mainVars, stopping, readerVars, commandVars>>

\* state_ survives a stop(), so only the first start sees INIT.
ControlLoop ==
  /\ "WholeBodyController" \in running
  /\ state_buf
  /\ IF state = "INIT"
       THEN command' = "Ramp" /\ state' \in {"INIT", "CONTROL"}
       ELSE command' = "Policy" /\ UNCHANGED state
  /\ UNCHANGED <<mainVars, stageVars, state_buf, in_hand, lowcmd>>

WriterReads ==
  /\ "UnitreeCommandWriter" \in running \ stopping
  /\ in_hand = "None"
  /\ command # "None"
  /\ in_hand' = command
  /\ UNCHANGED <<mainVars, stageVars, state_buf, state, command, lowcmd>>

WriterSends ==
  /\ in_hand # "None"
  /\ lowcmd' = in_hand
  /\ in_hand' = "None"
  /\ UNCHANGED <<mainVars, stageVars, state_buf, state, command>>

\* The DDS callback: nothing but the reader's stop() ends it.
LowState ==
  /\ subscribed
  /\ ~state_buf
  /\ state_buf' = TRUE
  /\ UNCHANGED <<mainVars, stageVars, state, command, in_hand, lowcmd>>

WatchdogClears ==
  /\ "UnitreeStateReader" \in running
  /\ state_buf
  /\ state_buf' = FALSE
  /\ UNCHANGED <<mainVars, stageVars, state, command, in_hand, lowcmd>>

MainThread ==
  \/ StageStarts \/ StageFails \/ KeyThrows \/ ChannelThrows
  \/ AwaitState \/ CheckMode \/ ReleaseMode
  \/ CallStop \/ SignalStop \/ JoinStage

StageThread ==
  LoopEnds \/ LoopDies \/ ControlLoop \/ WriterReads \/ WriterSends

ReaderThread == LowState \/ WatchdogClears

Next == CallStart \/ MainThread \/ RequestQuit \/ StageThread \/ ReaderThread

Spec == Init /\ [][Next]_vars

\* The caller polls quit_ and calls stop(); every loop reads its stop_.
FairSpec ==
  /\ Spec
  /\ WF_vars(StageStarts \/ StageFails \/ AwaitState \/ CheckMode
             \/ ReleaseMode)
  /\ WF_vars(quit /\ CallStop)
  /\ WF_vars(SignalStop)
  /\ WF_vars(JoinStage)
  /\ WF_vars(LoopEnds)
  /\ WF_vars(WriterSends)
-------------------------------------------------------------------------------
\* Type correctness of the lifecycle's state.
TypeOK ==
  /\ main \in {"idle", "start", "wait", "release", "exclusive", "up", "stop",
              "join", "returned"}
  /\ at \in 1..Len(StartOrder)
  /\ result \in {"none", "true", "false", "thrown"}
  /\ starts \in 0..MaxStarts
  /\ {quit, state_buf, subscribed, half} \subseteq BOOLEAN
  /\ {started, running, stopping} \subseteq SUBSET Stage
  /\ state \in {"INIT", "CONTROL"}
  /\ {command, in_hand, lowcmd} \subseteq Command
  /\ service \in {"active", "released", "absent"}
  /\ attempts \in 0..MaxAttempts
  /\ unanswered \in BOOLEAN

\* The robot's last word is damping: once a writer that moved it has stopped,
\* nothing else was sent after it, whatever the control loop was doing and
\* wherever the start failed.
DampingIsLast ==
  "UnitreeCommandWriter" \notin running \union started
    => lowcmd \in {"None", "Damping"}

\* What each stage reads, or the DDS factory it rides, is up while it runs.
Needs(s) ==
  CASE s \in {"InputHandler", "TeleopTracker"} -> {"PicoVRReader"}
    [] s \in {"VlaTokenReceiver", "UnitreeCommandWriter",
              "MotionTokenPublisher"}          -> {"UnitreeStateReader"}
    [] s = "PlannerInference"    -> {"UnitreeStateReader", "InputHandler"}
    [] s = "HandCommandWriter"   -> {"UnitreeStateReader", "VlaTokenReceiver",
                                     "InputHandler", "TeleopTracker",
                                     "PicoVRReader"}
    [] s = "WholeBodyController" -> {"UnitreeCommandWriter", "InputHandler",
                                     "TeleopTracker", "PlannerInference",
                                     "VlaTokenReceiver", "UnitreeStateReader"}
    [] OTHER                     -> {}

\* No stage outlives one it depends on, in any rollback and any shutdown; the
\* controller in particular never runs without the writer that would damp.
NoStageOutlivesItsSource == \A s \in running : Needs(s) \subseteq running

\* Nothing runs, but perhaps the callback of a reader that failed half way.
Quiet == running = {} /\ (subscribed => half)

\* A start() that returned false, at whatever stage, left no thread running.
\* The one thing it can leave alive is the LowState callback, and that only
\* if a reader's start() failed between its two subscribers and none has
\* opened its own since: every other subscriber is gone with the rollback.
RolledBack == main = "returned" /\ result = "false" => Quiet

\* Never two publishers on the command topic: the writer's thread runs beside
\* an active motion service only if the service did not answer the question
\* that comes first, which the code takes for its absence.
OnePublisher ==
  "UnitreeCommandWriter" \in running /\ service = "active" => unanswered

\* A quit request takes everything down, from a start under way and from one
\* that threw as well; only a half-opened reader's callback may stay.
QuitStops == quit ~> Quiet
===============================================================================
