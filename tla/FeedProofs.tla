------------------------------ MODULE FeedProofs ------------------------------
(***************************************************************************)
(* The robot's state and the token in time, for all periods, limits and    *)
(* lags that keep the order of FeedAssumption.                             *)
(***************************************************************************)
EXTENDS StateFeed, LoggerProofs

USE FeedAssumption DEF FeedAssumption

\* The oldest sample the watchdog leaves in the buffer.
Limit == stale_ms + kWatchdogDt + MaxLag

Types ==
  /\ sample \in {"none", "slow", "fast"}
  /\ {age, asleep, t, ticks, missing, token_seq, last_seq, polled, silence}
       \subseteq Nat
  /\ watchdog_pc \in {"sleep", "clear"}
  /\ loop_pc \in {"sleep", "gather", "decode"}
  /\ ticks <= MaxTicks
  /\ loop_pc = "gather" => ticks >= 1
  /\ missing <= ticks
  /\ silence <= MaxSilence

\* No thread is later than the clock lets it be.
OnTime ==
  /\ t <= kControlDt
  /\ loop_pc # "sleep" => t <= MaxLag
  /\ asleep <= kWatchdogDt \/ watchdog_pc = "clear"
  /\ watchdog_pc = "clear" => asleep <= MaxLag

\* A sample's age is the silence, and bounded by what the watchdog has done.
SampleIsRecent ==
  /\ HasData => age = silence
  /\ watchdog_pc = "clear" => HasData
  /\ HasData => IF watchdog_pc = "sleep" THEN age <= stale_ms + asleep
                ELSE age <= stale_ms + kWatchdogDt + asleep

\* What a count of missing ticks says of the time.
MissingInv ==
  /\ silence > Limit + t => missing > 0
  /\ missing > 0 => IF HasData THEN watchdog_pc = "sleep" /\ age <= t
                    ELSE silence >= (missing - 1) * kControlDt + t

\* How long the publisher has not looked while a token waits.
TokenInv ==
  /\ last_seq <= token_seq
  /\ token_seq # last_seq =>
       IF loop_pc = "sleep" THEN polled + MaxLag >= t
       ELSE polled >= kControlDt - MaxLag

FeedInv == Types /\ OnTime /\ SampleIsRecent /\ MissingInv /\ TokenInv

\* Products of the period.
LEMMA Periods ==
  ASSUME NEW m \in Nat
  PROVE  /\ m * kControlDt \in Nat
         /\ ((m + 1) - 1) * kControlDt = m * kControlDt
         /\ (m - 1) * kControlDt = m * kControlDt - kControlDt
         /\ m <= MaxTicks => m * kControlDt <= MaxSilence
<1>1. kControlDt \in Nat /\ MaxTicks \in Nat
  OBVIOUS
<1>2. m * kControlDt \in Nat
      /\ (m - 1) * kControlDt = m * kControlDt - kControlDt
  BY <1>1
<1>3. (m + 1) - 1 = m
  OBVIOUS
<1>4. ASSUME m <= MaxTicks
      PROVE  m * kControlDt <= MaxTicks * kControlDt
  <2>1. PICK d \in Nat : MaxTicks = m + d
    <3>1. MaxTicks - m \in Nat /\ MaxTicks = m + (MaxTicks - m)
      BY <1>1, <1>4
    <3>. QED
      BY <3>1
  <2>2. MaxTicks * kControlDt = m * kControlDt + d * kControlDt
    BY <2>1, <1>1
  <2>3. d * kControlDt \in Nat
    BY <1>1
  <2>. QED
    BY <1>2, <2>2, <2>3
<1>. QED
  BY <1>2, <1>3, <1>4 DEF MaxSilence

LEMMA MaxSilenceIsNat == MaxSilence \in Nat
<1>1. MaxTicks \in Nat /\ MaxTicks <= MaxTicks
  OBVIOUS
<1>2. MaxTicks * kControlDt \in Nat
  BY <1>1, Periods
<1>. QED
  BY <1>2 DEF MaxSilence

LEMMA FeedStarts == Init => FeedInv
<1>. SUFFICES ASSUME Init PROVE FeedInv
  OBVIOUS
<1>1. Types
  BY MaxSilenceIsNat DEF Init, Types
<1>2. OnTime
  BY DEF Init, OnTime
<1>3. SampleIsRecent
  BY DEF Init, SampleIsRecent, HasData
<1>4. MissingInv
  BY DEF Init, MissingInv, Limit
<1>5. TokenInv
  BY DEF Init, TokenInv
<1>. QED
  BY <1>1, <1>2, <1>3, <1>4, <1>5 DEF FeedInv

\* check_safety() refuses a sample only when there is none.
LEMMA RecentIsSafe ==
  ASSUME FeedInv
  PROVE  /\ CheckSafety <=> HasData
         /\ HasData => silence <= Limit
<1>1. HasData => age <= Limit /\ age = silence
  BY DEF FeedInv, Types, OnTime, SampleIsRecent, Limit
<1>2. Limit <= kStateStaleMs - 1 /\ Limit \in Nat
  BY DEF Limit
<1>3. age \in Nat
  BY DEF FeedInv, Types
<1>. QED
  BY <1>1, <1>2, <1>3 DEF CheckSafety

LEMMA FeedStep == FeedInv /\ [Next]_vars => FeedInv'
<1>. SUFFICES ASSUME FeedInv, [Next]_vars PROVE FeedInv'
  OBVIOUS
<1>. USE DEF FeedInv, readerVars, dogVars, tokenVars, pubVars, loopVars
<1>0. /\ sample \in {"none", "slow", "fast"}
      /\ age \in Nat /\ asleep \in Nat /\ t \in Nat /\ ticks \in Nat
      /\ missing \in Nat /\ token_seq \in Nat /\ last_seq \in Nat
      /\ polled \in Nat /\ silence \in Nat
      /\ watchdog_pc \in {"sleep", "clear"}
      /\ loop_pc \in {"sleep", "gather", "decode"}
      /\ MaxSilence \in Nat /\ Limit \in Nat
  BY MaxSilenceIsNat DEF Types, Limit
<1>m. /\ missing * kControlDt \in Nat
      /\ ((missing + 1) - 1) * kControlDt = missing * kControlDt
      /\ (missing - 1) * kControlDt = missing * kControlDt - kControlDt
      /\ missing * kControlDt <= MaxSilence
  <2>1. missing <= MaxTicks
    BY DEF Types
  <2>. QED
    BY <1>0, <2>1, Periods
<1>1. CASE OnLowState
  <2>1. /\ sample' \in {"slow", "fast"} /\ age' = 0 /\ silence' = 0
        /\ HasData'
        /\ UNCHANGED <<watchdog_pc, asleep, loop_pc, t, ticks, missing,
                       token_seq, last_seq, polled>>
    BY <1>1 DEF OnLowState, HasData
  <2>2. Types' /\ OnTime'
    BY <2>1, <1>0 DEF Types, OnTime
  <2>3. SampleIsRecent'
    BY <2>1, <1>0 DEF SampleIsRecent
  <2>4. MissingInv'
    <3>1. missing > 0 => watchdog_pc = "sleep"
      BY <1>0 DEF MissingInv, SampleIsRecent
    <3>2. (silence > Limit + t)' = FALSE
      BY <2>1, <1>0 DEF Limit
    <3>. QED
      BY <2>1, <1>0, <3>1, <3>2 DEF MissingInv
  <2>5. TokenInv'
    BY <2>1 DEF TokenInv
  <2>. QED
    BY <2>2, <2>3, <2>4, <2>5
<1>2. CASE WatchdogReads
  <2>1. /\ watchdog_pc = "sleep" /\ asleep = kWatchdogDt /\ asleep' = 0
        /\ watchdog_pc' = IF HasData /\ IsStale THEN "clear" ELSE "sleep"
        /\ UNCHANGED <<sample, age, silence, loop_pc, t, ticks, missing,
                       token_seq, last_seq, polled>>
        /\ HasData' = HasData
    BY <1>2 DEF WatchdogReads, HasData
  <2>2. Types' /\ OnTime'
    BY <2>1, <1>0 DEF Types, OnTime
  <2>3. SampleIsRecent'
    BY <2>1, <1>0 DEF SampleIsRecent, IsStale
  <2>4. MissingInv'
    <3>1. missing > 0 => watchdog_pc' = "sleep"
      <4>1. missing > 0 /\ HasData => age <= stale_ms
        BY <1>0 DEF MissingInv, OnTime
      <4>. QED
        BY <4>1, <2>1, <1>0 DEF IsStale
    <3>. QED
      BY <2>1, <3>1 DEF MissingInv, Limit
  <2>5. TokenInv'
    BY <2>1 DEF TokenInv
  <2>. QED
    BY <2>2, <2>3, <2>4, <2>5
<1>3. CASE WatchdogClears
  <2>1. /\ watchdog_pc = "clear" /\ sample' = "none" /\ age' = 0
        /\ asleep' = 0 /\ watchdog_pc' = "sleep"
        /\ ~HasData'
        /\ UNCHANGED <<silence, loop_pc, t, ticks, missing,
                       token_seq, last_seq, polled>>
    BY <1>3 DEF WatchdogClears, HasData
  <2>2. Types' /\ OnTime' /\ SampleIsRecent'
    BY <2>1, <1>0 DEF Types, OnTime, SampleIsRecent
  <2>3. HasData /\ missing = 0
    BY <2>1, <1>0 DEF SampleIsRecent, MissingInv
  <2>4. MissingInv'
    BY <2>1, <2>3 DEF MissingInv, Limit
  <2>5. TokenInv'
    BY <2>1 DEF TokenInv
  <2>. QED
    BY <2>2, <2>4, <2>5
<1>4. CASE Gate
  <2>1. /\ loop_pc = "sleep" /\ t = kControlDt /\ ticks < MaxTicks
        /\ t' = 0 /\ ticks' = ticks + 1
        /\ UNCHANGED <<sample, age, silence, watchdog_pc, asleep,
                       token_seq, last_seq, polled>>
        /\ HasData' = HasData
    BY <1>4, <1>0 DEF Gate, HasData, OnTime
  <2>2. IF HasData THEN missing' = 0 /\ loop_pc' = "gather"
        ELSE missing' = missing + 1 /\ loop_pc' = "sleep"
    BY <1>4, RecentIsSafe DEF Gate
  <2>3. Types'
    BY <2>1, <2>2, <1>0 DEF Types
  <2>4. OnTime' /\ SampleIsRecent'
    BY <2>1, <2>2, <1>0 DEF OnTime, SampleIsRecent
  <2>5. MissingInv'
    <3>1. CASE HasData
      BY <3>1, <2>1, <2>2, <1>0, RecentIsSafe DEF MissingInv, Limit
    <3>2. CASE ~HasData
      <4>1. missing' = missing + 1 /\ missing' > 0
        BY <3>2, <2>2, <1>0
      <4>2. silence >= missing * kControlDt
        <5>1. CASE missing = 0
          <6>1. 0 * kControlDt = 0
            OBVIOUS
          <6>. QED
            BY <6>1, <5>1, <1>0
        <5>2. CASE missing > 0
          BY <5>2, <3>2, <2>1, <1>0, <1>m DEF MissingInv
        <5>. QED
          BY <5>1, <5>2, <1>0
      <4>3. silence' >= (missing' - 1) * kControlDt + t'
        BY <4>1, <4>2, <2>1, <1>0, <1>m
      <4>. QED
        BY <4>1, <4>3, <3>2, <2>1 DEF MissingInv
    <3>. QED
      BY <3>1, <3>2
  <2>6. TokenInv'
    BY <2>1, <2>2, <1>0 DEF TokenInv
  <2>. QED
    BY <2>3, <2>4, <2>5, <2>6
<1>5. CASE GatherRobotState
  <2>1. /\ loop_pc = "gather" /\ loop_pc' \in {"sleep", "decode"}
        /\ UNCHANGED <<sample, age, silence, watchdog_pc, asleep, t, ticks,
                       missing, token_seq, last_seq, polled>>
        /\ HasData' = HasData
    BY <1>5 DEF GatherRobotState, HasData
  <2>2. Types' /\ OnTime' /\ SampleIsRecent'
    BY <2>1, <1>0 DEF Types, OnTime, SampleIsRecent
  <2>3. MissingInv'
    BY <2>1 DEF MissingInv, Limit
  <2>4. TokenInv'
    BY <2>1, <1>0 DEF TokenInv, OnTime
  <2>. QED
    BY <2>2, <2>3, <2>4
<1>6. CASE TickEndsEarly \/ Decode
  <2>1. /\ loop_pc = "decode" /\ loop_pc' = "sleep"
        /\ UNCHANGED <<sample, age, silence, watchdog_pc, asleep, t, ticks,
                       missing, last_seq, polled>>
        /\ token_seq' \in {token_seq, token_seq + 1}
        /\ HasData' = HasData
    BY <1>6 DEF TickEndsEarly, Decode, HasData
  <2>2. Types' /\ OnTime' /\ SampleIsRecent'
    BY <2>1, <1>0 DEF Types, OnTime, SampleIsRecent
  <2>3. MissingInv'
    BY <2>1 DEF MissingInv, Limit
  <2>4. TokenInv'
    BY <2>1, <1>0 DEF TokenInv, OnTime
  <2>. QED
    BY <2>2, <2>3, <2>4
<1>7. CASE Poll
  <2>1. /\ last_seq' = token_seq /\ polled' = 0
        /\ UNCHANGED <<sample, age, silence, watchdog_pc, asleep, loop_pc, t,
                       ticks, missing, token_seq>>
        /\ HasData' = HasData
    BY <1>7 DEF Poll, IsNew, SentSeq, HasData
  <2>2. Types' /\ OnTime' /\ SampleIsRecent'
    BY <2>1, <1>0 DEF Types, OnTime, SampleIsRecent
  <2>3. MissingInv' /\ TokenInv'
    BY <2>1, <1>0 DEF MissingInv, TokenInv, Limit
  <2>. QED
    BY <2>2, <2>3
<1>8. CASE TimePasses
  <2>1. /\ watchdog_pc = "sleep" => asleep < kWatchdogDt
        /\ watchdog_pc = "clear" => asleep < MaxLag
        /\ loop_pc = "sleep" => t < kControlDt
        /\ loop_pc # "sleep" => t < MaxLag
        /\ asleep' = asleep + 1 /\ t' = t + 1 /\ polled' = polled + 1
        /\ UNCHANGED <<sample, watchdog_pc, loop_pc, ticks, missing,
                       token_seq, last_seq>>
        /\ HasData' = HasData
    BY <1>8 DEF TimePasses, HasData
  <2>2. /\ silence' \in Nat /\ silence' <= silence + 1
        /\ silence' <= MaxSilence /\ silence' >= silence
        /\ silence' = silence + 1 \/ silence' = MaxSilence
    BY <1>8, <1>0 DEF TimePasses, Older, Types
  <2>3. /\ age' \in Nat
        /\ HasData => age' <= age + 1 /\ age' = silence'
    BY <1>8, <1>0 DEF TimePasses, Older, Types, SampleIsRecent
  <2>4. Types'
    BY <2>1, <2>2, <2>3, <1>0 DEF Types
  <2>5. OnTime'
    BY <2>1, <1>0 DEF OnTime
  <2>6. SampleIsRecent'
    BY <2>1, <2>3, <1>0 DEF SampleIsRecent
  <2>7. MissingInv'
    <3>1. silence' > Limit' + t' => missing' > 0
      BY <2>1, <2>2, <1>0 DEF MissingInv, Limit
    <3>2. ASSUME missing > 0, HasData PROVE watchdog_pc = "sleep" /\ age' <= t'
      BY <3>2, <2>1, <2>3, <1>0 DEF MissingInv
    <3>3. ASSUME missing > 0, ~HasData
          PROVE  silence' >= (missing - 1) * kControlDt + t'
      <4>1. silence >= (missing - 1) * kControlDt + t
        BY <3>3 DEF MissingInv
      <4>2. t' <= kControlDt
        BY <2>5 DEF OnTime
      <4>. QED
        BY <4>1, <4>2, <2>1, <2>2, <1>0, <1>m
    <3>. QED
      BY <3>1, <3>2, <3>3, <2>1 DEF MissingInv
  <2>8. TokenInv'
    BY <2>1, <1>0 DEF TokenInv
  <2>. QED
    BY <2>4, <2>5, <2>6, <2>7, <2>8
<1>9. CASE UNCHANGED vars
  BY <1>9 DEF vars, Types, OnTime, SampleIsRecent, MissingInv, TokenInv,
              HasData, Limit
<1>. QED
  BY <1>1, <1>2, <1>3, <1>4, <1>5, <1>6, <1>7, <1>8, <1>9 DEF Next

LEMMA FeedAlways == Spec => []FeedInv
BY FeedStarts, FeedStep, PTL DEF Spec

-------------------------------------------------------------------------------
(* Past the watchdog's limit, its sleep, its lag and one period of the     *)
(* loop, a silent robot has made the tick a missing one, for every limit   *)
(* below that of check_safety().                                           *)
THEOREM LoopIsNeverBlind == Spec => []NeverBlind
<1>1. FeedInv => NeverBlind
  BY DEF FeedInv, Types, OnTime, MissingInv, NeverBlind, Limit
<1>. QED
  BY <1>1, FeedAlways, PTL

(* A loop that misses its state n times in a row has heard nothing for     *)
(* n - 1 periods: the watchdog that clears a fresh sample costs one tick.  *)
THEOREM OneRaceCostsOneTick == Spec => MissesMeanSilence
<1>1. FeedInv /\ [Next]_vars =>
        [missing' > missing => silence >= missing * kControlDt]_vars
  <2>. SUFFICES ASSUME FeedInv, Next, missing' > missing
                PROVE  silence >= missing * kControlDt
    BY DEF vars, loopVars, FeedInv, Types
  <2>0. missing \in Nat /\ silence \in Nat
    BY DEF FeedInv, Types
  <2>1. Gate
    BY <2>0 DEF Next, OnLowState, WatchdogReads, WatchdogClears,
       GatherRobotState, TickEndsEarly, Decode, Poll, TimePasses, loopVars
  <2>2. ~HasData /\ t >= kControlDt /\ t \in Nat
    BY <2>0, <2>1, RecentIsSafe DEF Gate, FeedInv, Types
  <2>3. CASE missing = 0
    <3>1. 0 * kControlDt = 0
      OBVIOUS
    <3>. QED
      BY <2>0, <2>3, <3>1
  <2>4. CASE missing > 0
    <3>1. silence >= (missing - 1) * kControlDt + t
      BY <2>2, <2>4 DEF FeedInv, MissingInv
    <3>. QED
      BY <2>0, <2>2, <3>1, Periods
  <2>. QED
    BY <2>0, <2>3, <2>4
<1>. QED
  BY <1>1, FeedAlways, PTL DEF Spec, MissesMeanSilence

(* Every recorded message is newer than all before it, and a token is      *)
(* overwritten unread only by a publisher that took all the time between   *)
(* two decodes for one iteration.                                          *)
THEOREM TokensReachTheRecording == Spec => TokensAreRecorded
<1>1. FeedInv /\ [Next]_vars =>
        [/\ messages' # messages => last_seq' > last_seq
         /\ token_seq' # token_seq /\ token_seq # last_seq =>
              polled >= kControlDt - MaxLag]_vars
  <2>. SUFFICES ASSUME FeedInv, Next
                PROVE  /\ messages' # messages => last_seq' > last_seq
                       /\ token_seq' # token_seq /\ token_seq # last_seq =>
                            polled >= kControlDt - MaxLag
    OBVIOUS
  <2>0. token_seq \in Nat /\ last_seq \in Nat /\ last_seq <= token_seq
    BY DEF FeedInv, Types, TokenInv
  <2>1. ASSUME messages' # messages PROVE last_seq' > last_seq
    <3>1. Poll
      BY <2>1 DEF Next, OnLowState, WatchdogReads, WatchdogClears, Gate,
         GatherRobotState, TickEndsEarly, Decode, TimePasses, pubVars
    <3>. QED
      BY <2>0, <2>1, <3>1 DEF Poll, IsNew, SentSeq
  <2>2. ASSUME token_seq' # token_seq, token_seq # last_seq
        PROVE  polled >= kControlDt - MaxLag
    <3>1. Decode
      BY <2>2 DEF Next, OnLowState, WatchdogReads, WatchdogClears, Gate,
         GatherRobotState, TickEndsEarly, Poll, TimePasses, loopVars, tokenVars
    <3>. QED
      BY <2>2, <3>1 DEF Decode, FeedInv, TokenInv
  <2>. QED
    BY <2>1, <2>2
<1>. QED
  BY <1>1, FeedAlways, PTL DEF Spec, TokensAreRecorded

(* The loop drives the logger as its own specification says: every tick    *)
(* that gathers its state logs one entry, whatever the reader and the      *)
(* watchdog do in between.                                                 *)
THEOREM LoopDrivesLogger == Spec => LoggerSpec
<1>1. Init => LoggerInit
  BY DEF Init
<1>2. FeedInv /\ [Next]_vars => [LoggerNext]_loggerVars
  <2>. SUFFICES ASSUME FeedInv, [Next]_vars PROVE [LoggerNext]_loggerVars
    OBVIOUS
  <2>1. CASE GatherRobotState
    <3>1. CASE sample = "slow"
      <4>1. Log(ticks)
        BY <2>1, <3>1 DEF GatherRobotState
      <4>2. ticks \in Entries
        BY <2>1 DEF FeedInv, Types, GatherRobotState
      <4>. QED
        BY <4>1, <4>2 DEF LoggerNext
    <3>2. CASE sample # "slow"
      BY <2>1, <3>2 DEF GatherRobotState
    <3>. QED
      BY <3>1, <3>2
  <2>2. CASE UNCHANGED loggerVars
    BY <2>2
  <2>. QED
    BY <2>1, <2>2 DEF Next, OnLowState, WatchdogReads, WatchdogClears, Gate,
       TickEndsEarly, Decode, Poll, TimePasses, loopVars, vars
<1>. QED
  BY <1>1, <1>2, FeedAlways, PTL DEF Spec, LoggerSpec

(* So the history that the decoder observes in the loop is the latest one. *)
THEOREM FeedHistoryIsLatest == Spec => []HistoryIsLatest
BY LoopDrivesLogger, LatestAreLatest, PTL
===============================================================================
