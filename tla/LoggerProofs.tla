------------------------------ MODULE LoggerProofs ------------------------------
(***************************************************************************)
(* The ring of state_logger.hpp answers with the latest entries, for every *)
(* capacity and every sequence of Log() calls.                             *)
(***************************************************************************)
EXTENDS StateLogger, TLAPS

USE LoggerAssumption DEF LoggerAssumption

\* Less than twice around, an index wraps at most once.
LEMMA SlotWraps ==
  ASSUME NEW i \in 0 .. 2 * capacity - 1
  PROVE  Slot(i) = IF i < capacity THEN i ELSE i - capacity
<1>1. CASE i < capacity
  BY <1>1 DEF Slot
<1>2. CASE i >= capacity
  <2>1. i - capacity \in 0 .. capacity - 1
    BY <1>2
  <2>2. i = capacity * 1 + (i - capacity)
    OBVIOUS
  <2>. QED
    BY <1>2, <2>1, <2>2 DEF Slot
<1>. QED
  BY <1>1, <1>2

LEMMA LoggerStarts == LoggerInit => LoggerInv
<1>. SUFFICES ASSUME LoggerInit PROVE LoggerInv
  OBVIOUS
<1>. QED
  BY DEF LoggerInit, LoggerInv

LEMMA LogKeepsInv ==
  ASSUME LoggerInv, NEW e \in Entries, Log(e)
  PROVE  LoggerInv'
<1>1. /\ ring \in [0 .. capacity - 1 -> Entries \union {Zero}]
      /\ start \in 0 .. capacity - 1
      /\ size \in 0 .. capacity
      /\ size < capacity => start = 0
  BY DEF LoggerInv
<1>2. /\ Len(logged) \in Nat
      /\ size = (IF Len(logged) < capacity THEN Len(logged) ELSE capacity)
  BY DEF LoggerInv
<1>3. \A k \in 0 .. size - 1 :
        ring[Slot(start + k)] = logged[Len(logged) - size + k + 1]
  BY DEF LoggerInv
<1>4. /\ logged' \in Seq(Entries)
      /\ Len(logged') = Len(logged) + 1
      /\ logged'[Len(logged')] = e
      /\ \A i \in 1 .. Len(logged) : logged'[i] = logged[i]
  BY DEF Log, LoggerInv
<1>5. /\ WriteSlot = (IF size < capacity THEN size ELSE start)
      /\ WriteSlot \in 0 .. capacity - 1
  BY <1>1, SlotWraps DEF WriteSlot
<1>6. /\ ring' \in [0 .. capacity - 1 -> Entries \union {Zero}]
      /\ \A i \in 0 .. capacity - 1 :
           ring'[i] = IF i = WriteSlot THEN e ELSE ring[i]
  BY <1>1, <1>5 DEF Log
<1>7. CASE size < capacity
  <2>1. size' = size + 1 /\ start' = 0 /\ start = 0 /\ size = Len(logged)
    BY <1>7, <1>1, <1>2 DEF Log
  <2>2. ASSUME NEW k \in 0 .. size' - 1
        PROVE  ring'[Slot(start' + k)]
                 = logged'[Len(logged') - size' + k + 1]
    <3>1. k \in 0 .. size /\ k \in 0 .. capacity - 1
      BY <2>1, <1>1, <1>7
    <3>2. Slot(start + k) = k /\ Slot(start' + k) = k
      BY <3>1, <2>1, SlotWraps
    <3>3. Len(logged') - size' + k + 1 = k + 1
      <4>1. size \in Int /\ k \in Int
        BY <2>1, <3>1, <1>2
      <4>. QED
        BY <4>1, <2>1, <1>4
    <3>4. CASE k = size
      BY <3>1, <3>2, <3>3, <3>4, <2>1, <1>4, <1>5, <1>6, <1>7
    <3>5. CASE k # size
      <4>1. k \in 0 .. size - 1 /\ k + 1 \in 1 .. Len(logged)
        BY <3>1, <3>5, <2>1, <1>2
      <4>2. ring[k] = logged[Len(logged) - size + k + 1]
        BY <4>1, <3>2, <1>3
      <4>3. Len(logged) - size + k + 1 = k + 1
        BY <2>1, <1>2, <3>1
      <4>4. ring'[k] = ring[k]
        BY <3>1, <3>5, <1>5, <1>6, <1>7
      <4>5. logged'[k + 1] = logged[k + 1]
        BY <4>1, <1>4
      <4>. QED
        BY <4>2, <4>3, <4>4, <4>5, <3>2, <3>3
    <3>. QED
      BY <3>4, <3>5
  <2>3. /\ start' \in 0 .. capacity - 1
        /\ size' \in 0 .. capacity
        /\ size' < capacity => start' = 0
        /\ size' = (IF Len(logged') < capacity THEN Len(logged') ELSE capacity)
    BY <2>1, <1>1, <1>2, <1>4, <1>7
  <2>. QED
    BY <2>1, <2>2, <2>3, <1>4, <1>6 DEF LoggerInv
<1>8. CASE size = capacity
  <2>1. size' = capacity /\ start' = Slot(start + 1) /\ WriteSlot = start
    BY <1>8, <1>5, <1>1 DEF Log
  <2>2. start' = IF start + 1 < capacity THEN start + 1 ELSE 0
    BY <2>1, <1>1, SlotWraps
  <2>3. ASSUME NEW k \in 0 .. size' - 1
        PROVE  ring'[Slot(start' + k)]
                 = logged'[Len(logged') - size' + k + 1]
    <3>1. k \in 0 .. capacity - 1
      BY <2>1
    <3>2. CASE k = capacity - 1
      <4>1. Slot(start' + k) = start
        BY <3>2, <2>2, <1>1, SlotWraps
      <4>2. Len(logged') - size' + k + 1 = Len(logged')
        BY <3>2, <2>1, <1>2, <1>4
      <4>. QED
        BY <4>1, <4>2, <2>1, <1>1, <1>4, <1>6
    <3>3. CASE k # capacity - 1
      <4>1. k + 1 \in 0 .. capacity - 1 /\ k + 1 \in 0 .. size - 1
        BY <3>1, <3>3, <1>8
      <4>2. Slot(start' + k) = Slot(start + (k + 1))
        BY <4>1, <3>1, <2>2, <1>1, SlotWraps
      <4>3. Slot(start + (k + 1)) \in 0 .. capacity - 1
              /\ Slot(start + (k + 1)) # start
        BY <4>1, <3>1, <1>1, SlotWraps
      <4>4. ring[Slot(start + (k + 1))]
              = logged[Len(logged) - size + (k + 1) + 1]
        BY <4>1, <1>3
      <4>5. Len(logged') - size' + k + 1 = Len(logged) - size + (k + 1) + 1
        <5>1. k \in Int /\ capacity \in Int /\ Len(logged) \in Int
          BY <3>1, <1>2
        <5>. QED
          BY <5>1, <1>4, <1>8, <2>1
      <4>6. Len(logged) - size + (k + 1) + 1 \in 1 .. Len(logged)
        BY <4>1, <1>2, <1>8
      <4>7. ring'[Slot(start + (k + 1))] = ring[Slot(start + (k + 1))]
        BY <4>3, <2>1, <1>6
      <4>8. logged'[Len(logged) - size + (k + 1) + 1]
              = logged[Len(logged) - size + (k + 1) + 1]
        BY <4>6, <1>4
      <4>. QED
        BY <4>2, <4>4, <4>5, <4>7, <4>8
    <3>. QED
      BY <3>2, <3>3
  <2>4. /\ start' \in 0 .. capacity - 1
        /\ size' = (IF Len(logged') < capacity THEN Len(logged') ELSE capacity)
    BY <2>1, <2>2, <1>1, <1>2, <1>4, <1>8
  <2>5. /\ size' \in 0 .. capacity
        /\ ~(size' < capacity)
    BY <2>1
  <2>6. /\ ring' \in [0 .. capacity - 1 -> Entries \union {Zero}]
        /\ logged' \in Seq(Entries)
    BY <1>4, <1>6
  <2>. QED
    BY <2>3, <2>4, <2>5, <2>6, Zenon DEF LoggerInv
<1>. QED
  BY <1>1, <1>7, <1>8

LEMMA RingIsHistory == LoggerInv => HistoryIsLatest
<1>. SUFFICES ASSUME LoggerInv, NEW n \in 0 .. capacity, NEW j \in 0 .. n - 1
              PROVE  GetLatest(n)[j] = Latest(n)[j]
  BY DEF HistoryIsLatest, GetLatest, Latest
<1>1. /\ size \in 0 .. capacity
      /\ start \in 0 .. capacity - 1
      /\ Len(logged) \in Nat
      /\ size = (IF Len(logged) < capacity THEN Len(logged) ELSE capacity)
  BY DEF LoggerInv
<1>2. \A k \in 0 .. size - 1 :
        ring[Slot(start + k)] = logged[Len(logged) - size + k + 1]
  BY DEF LoggerInv
<1>3. Have(n) = IF n < size THEN n ELSE size
  BY DEF Have
<1>4. CASE j < n - Have(n)
  <2>1. Have(n) = size /\ size = Len(logged)
    BY <1>1, <1>3, <1>4
  <2>2. Len(logged) - n + j + 1 < 1
    BY <1>1, <1>4, <2>1
  <2>. QED
    BY <1>4, <2>2 DEF GetLatest, Latest
<1>5. CASE ~(j < n - Have(n))
  <2>. DEFINE k == size - n + j
  <2>0. /\ n \in Int /\ j \in Int /\ size \in Int /\ start \in Int
        /\ Have(n) \in Int /\ Len(logged) \in Int
    BY <1>1, <1>3
  <2>1. k \in 0 .. size - 1
    BY <1>1, <1>3, <1>5
  <2>2. start + size - Have(n) + (j - (n - Have(n))) = start + k
    BY <2>0
  <2>3. Len(logged) - n + j + 1 = Len(logged) - size + k + 1
    BY <2>0
  <2>4. ~(Len(logged) - n + j + 1 < 1)
    BY <2>1, <2>3, <1>1
  <2>5. ring[Slot(start + k)] = logged[Len(logged) - size + k + 1]
    BY <2>1, <1>2
  <2>6. GetLatest(n)[j] = ring[Slot(start + k)]
    <3>1. GetLatest(n)[j]
            = ring[Slot(start + size - Have(n) + (j - (n - Have(n))))]
      BY <1>5 DEF GetLatest
    <3>. QED
      BY <3>1, <2>2
  <2>7. Latest(n)[j] = logged[Len(logged) - n + j + 1]
    BY <2>4 DEF Latest
  <2>. QED
    BY <2>3, <2>5, <2>6, <2>7
<1>. QED
  BY <1>4, <1>5

(* GetLatest(n) is the last n entries logged, oldest first and padded with *)
(* zeros, at every size of the ring and however often it has wrapped.      *)
THEOREM LatestAreLatest == LoggerSpec => []HistoryIsLatest
<1>1. LoggerInv /\ [LoggerNext]_loggerVars => LoggerInv'
  <2>. SUFFICES ASSUME LoggerInv, [LoggerNext]_loggerVars PROVE LoggerInv'
    OBVIOUS
  <2>1. ASSUME NEW e \in Entries, Log(e) PROVE LoggerInv'
    BY <2>1, LogKeepsInv
  <2>2. CASE UNCHANGED loggerVars
    BY <2>2 DEF loggerVars, LoggerInv, Slot
  <2>. QED
    BY <2>1, <2>2 DEF LoggerNext
<1>. QED
  BY <1>1, LoggerStarts, RingIsHistory, PTL DEF LoggerSpec
===============================================================================
