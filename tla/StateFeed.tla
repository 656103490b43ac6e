------------------------------- MODULE StateFeed -------------------------------
(***************************************************************************)
(* The robot's state on its way in and the token on its way out, in time:  *)
(* the DDS callback and the watchdog over unitree_state_buf                *)
(* (unitree_state_reader.cpp), the control loop's two reads of it, the     *)
(* history the decoder observes, and the recording stream                  *)
(* (motion_token_publisher.cpp).  Each thread sleeps by the clock; a       *)
(* thread that works may be late by MaxLag.                                *)
(*                                                                         *)
(* UnitreeStateReader is the same buffer without time, for the modules     *)
(* that ask what a loss does and not when it is seen.                      *)
(***************************************************************************)
EXTENDS StateLogger

CONSTANTS
  kControlDt,      \* the loop's period
  kWatchdogDt,     \* the watchdog's sleep
  stale_ms,        \* the age at which the watchdog clears
  kStateStaleMs,   \* the age check_safety() refuses
  kPollPeriod,     \* the publisher's sleep
  MaxWrite,        \* bound: how long a DDS write may block the publisher
  MaxLag,          \* bound: how long a tick, or a clear, takes
  MaxTicks         \* bound: iterations of the control loop

ASSUME FeedAssumption ==
  /\ {kControlDt, kWatchdogDt, stale_ms, kStateStaleMs, kPollPeriod}
       \subseteq Nat \ {0}
  /\ {MaxWrite, MaxLag, MaxTicks} \subseteq Nat
  /\ MaxLag < kControlDt
  /\ kControlDt <= stale_ms
  /\ stale_ms + kWatchdogDt + MaxLag < kStateStaleMs
  /\ 1 .. MaxTicks \subseteq Entries
  /\ Zero \notin Entries

VARIABLES
  sample,       \* unitree_state_buf: "none", "slow", or "fast" for overspeed
  age,          \* GetAgeMs() of the sample
  watchdog_pc,
  asleep,       \* time since the watchdog's last iteration ended, or its read
  loop_pc,
  t,            \* time since t0 of the control loop's iteration
  ticks,        \* iterations so far, the name of the entry a tick logs
  missing,      \* state_missing_ticks_
  token_seq,    \* token_seq_, and the sample in motion_token_buf
  last_seq,     \* last_seq_ of the publisher
  polled,       \* time since the publisher read the buffer
  silence,      \* history: time since a sample arrived, to MaxSilence
  messages      \* history: messages of the recording stream

readerVars == <<sample, age, silence>>
dogVars    == <<watchdog_pc, asleep>>
tokenVars  == <<token_seq>>
pubVars    == <<last_seq, polled, messages>>
loopVars   == <<loop_pc, t, ticks, missing, loggerVars, tokenVars>>
vars       == <<readerVars, dogVars, loopVars, pubVars>>

MaxSilence == MaxTicks * kControlDt
HasData    == sample # "none"
Older(a)   == IF a < MaxSilence THEN a + 1 ELSE MaxSilence

\* start() waits for a sample before it starts the loop.
Init ==
  /\ sample = "slow"
  /\ age = 0
  /\ watchdog_pc = "sleep"
  /\ asleep \in 0 .. kWatchdogDt
  /\ loop_pc = "sleep"
  /\ t = kControlDt
  /\ ticks = 0
  /\ missing = 0
  /\ LoggerInit
  /\ token_seq = 0
  /\ last_seq = 0
  /\ polled = 0
  /\ silence = 0
  /\ messages = 0

-------------------------------------------------------------------------------
\* The robot state reader.

\* A packet whose CRC fails is dropped and leaves no trace.
OnLowState ==
  /\ sample' \in {"slow", "fast"}
  /\ age' = 0
  /\ silence' = 0
  /\ UNCHANGED <<dogVars, loopVars, pubVars>>

\* Mutant: the watchdog uses the limit of check_safety().
IsStaleLate == age > kStateStaleMs

\* Mutant: the limit is compared the wrong way round.
IsStaleSwapped == stale_ms > age

IsStale == age > stale_ms

\* GetDataWithTime(), and the test of what it returned.
WatchdogReads ==
  /\ watchdog_pc = "sleep"
  /\ asleep = kWatchdogDt
  /\ asleep' = 0
  /\ watchdog_pc' = IF HasData /\ IsStale THEN "clear" ELSE "sleep"
  /\ UNCHANGED <<readerVars, loopVars, pubVars>>

\* Clear() of whatever the buffer holds by now.
WatchdogClears ==
  /\ watchdog_pc = "clear"
  /\ sample' = "none"
  /\ age' = 0
  /\ asleep' = 0
  /\ watchdog_pc' = "sleep"
  /\ UNCHANGED <<silence, loopVars, pubVars>>

-------------------------------------------------------------------------------
\* The control loop.

CheckSafety == HasData /\ age <= kStateStaleMs

\* The gate at the top of an iteration.
Gate ==
  /\ loop_pc = "sleep"
  /\ t >= kControlDt
  /\ ticks < MaxTicks
  /\ t' = 0
  /\ ticks' = ticks + 1
  /\ IF CheckSafety
     THEN missing' = 0 /\ loop_pc' = "gather"
     ELSE missing' = missing + 1 /\ loop_pc' = "sleep"
  /\ UNCHANGED <<readerVars, dogVars, loggerVars, tokenVars, pubVars>>

\* The second read: the buffer may have been cleared since the gate.
GatherRobotState ==
  /\ loop_pc = "gather"
  /\ IF sample = "slow"
     THEN Log(ticks) /\ loop_pc' = "decode"
     ELSE UNCHANGED loggerVars /\ loop_pc' = "sleep"
  /\ UNCHANGED <<readerVars, dogVars, t, ticks, missing, tokenVars, pubVars>>

\* A wait for the reseed, no motion yet, an encoder or a decoder that fails.
TickEndsEarly ==
  /\ loop_pc = "decode"
  /\ loop_pc' = "sleep"
  /\ UNCHANGED <<readerVars, dogVars, t, ticks, missing, loggerVars, tokenVars,
                 pubVars>>

\* The command is sent, and record_token() stores the sample.
Decode ==
  /\ loop_pc = "decode"
  /\ token_seq' = token_seq + 1
  /\ loop_pc' = "sleep"
  /\ UNCHANGED <<readerVars, dogVars, t, ticks, missing, loggerVars, pubVars>>

-------------------------------------------------------------------------------
\* The publisher's loop: read, write what is new, sleep.

\* Mutant: what was sent is not remembered.
SentSeqForgotten == last_seq

\* Mutant: only the successor of the last message is sent.
IsNewNext == token_seq = last_seq + 1

IsNew   == token_seq # last_seq
SentSeq == token_seq

Poll ==
  /\ polled >= kPollPeriod
  /\ polled' = 0
  /\ IF IsNew
     THEN last_seq' = SentSeq /\ messages' = messages + 1
     ELSE UNCHANGED <<last_seq, messages>>
  /\ UNCHANGED <<readerVars, dogVars, loopVars>>

-------------------------------------------------------------------------------
\* Time; a thread that is due has run before it passes.
TimePasses ==
  /\ watchdog_pc = "sleep" => asleep < kWatchdogDt
  /\ watchdog_pc = "clear" => asleep < MaxLag
  /\ loop_pc = "sleep" => t < kControlDt
  /\ loop_pc # "sleep" => t < MaxLag
  /\ polled < kPollPeriod + MaxWrite
  /\ age' = IF HasData THEN Older(age) ELSE 0
  /\ silence' = Older(silence)
  /\ asleep' = asleep + 1
  /\ t' = t + 1
  /\ polled' = polled + 1
  /\ UNCHANGED <<sample, watchdog_pc, loop_pc, ticks, missing, loggerVars,
                 tokenVars, last_seq, messages>>

Next ==
  \/ OnLowState \/ WatchdogReads \/ WatchdogClears
  \/ Gate \/ GatherRobotState \/ TickEndsEarly \/ Decode
  \/ Poll \/ TimePasses

Spec == Init /\ [][Next]_vars

-------------------------------------------------------------------------------
(* The loop acts on no robot state for long after the robot fell silent:   *)
(* past the watchdog's limit, its sleep, a clear that lags and one period, *)
(* the tick is a missing one, however samples, clears and reads meet.      *)
NeverBlind ==
  silence > stale_ms + kWatchdogDt + MaxLag + kControlDt => missing > 0

(* A clear may take a fresh sample with it, since the watchdog tests one   *)
(* sample and clears another.  That costs one tick: a loop that misses its *)
(* state n times in a row has heard nothing for n - 1 periods, so that no  *)
(* race of the two threads can use up the grace window.                    *)
MissesMeanSilence ==
  [][missing' > missing => silence >= missing * kControlDt]_vars

(* The recording stream: every message is newer than all before, and the   *)
(* token of a tick is overwritten unread only while one iteration of the   *)
(* publisher lasts as long as the time between two decodes.                *)
TokensAreRecorded ==
  [][/\ messages' # messages => last_seq' > last_seq
     /\ token_seq' # token_seq /\ token_seq # last_seq =>
          polled >= kControlDt - MaxLag]_vars
===============================================================================
