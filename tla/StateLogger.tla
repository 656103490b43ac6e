------------------------------ MODULE StateLogger ------------------------------
(***************************************************************************)
(* The ring of robot states behind the his_* observations                  *)
(* (state_logger.hpp).  The lock makes Log() and GetLatest() atomic.       *)
(***************************************************************************)
EXTENDS Integers, Sequences

CONSTANTS
  capacity,   \* capacity_
  Entries,    \* what Log() is called with
  Zero        \* the entry of all zeros

ASSUME LoggerAssumption == capacity \in Nat \ {0}

VARIABLES
  ring,       \* ring_
  start,      \* start_, the index of the oldest entry
  size,       \* size_
  logged      \* history: every entry logged, in order

loggerVars == <<ring, start, size, logged>>

LoggerInit ==
  /\ ring = [i \in 0 .. capacity - 1 |-> Zero]
  /\ start = 0
  /\ size = 0
  /\ logged = <<>>

Slot(i) == i % capacity

\* Mutant: a full ring overwrites its newest entry.
WriteSlotNewest == IF size < capacity THEN size ELSE capacity - 1

WriteSlot == Slot(start + size)

Log(e) ==
  /\ ring' = [ring EXCEPT ![WriteSlot] = e]
  /\ IF size < capacity
     THEN size' = size + 1 /\ start' = start
     ELSE size' = size /\ start' = Slot(start + 1)
  /\ logged' = Append(logged, e)

\* min(n, size_)
Have(n) == IF n < size THEN n ELSE size

\* Oldest first; the slots nothing is there for stay zero.
GetLatest(n) ==
  [j \in 0 .. n - 1 |->
     IF j < n - Have(n) THEN Zero
     ELSE ring[Slot(start + size - Have(n) + (j - (n - Have(n))))]]

LoggerNext     == \E e \in Entries : Log(e)
LoggerSpec     == LoggerInit /\ [][LoggerNext]_loggerVars

-------------------------------------------------------------------------------
(* Whatever was logged before, GetLatest(n) answers with the n entries     *)
(* logged last, in order, behind as many zero entries as there were never  *)
(* n; through every wrap of the ring.                                      *)
Latest(n) ==
  [j \in 0 .. n - 1 |->
     LET i == Len(logged) - n + j + 1
     IN  IF i < 1 THEN Zero ELSE logged[i]]

HistoryIsLatest == \A n \in 0 .. capacity : GetLatest(n) = Latest(n)

\* The ring from its oldest entry on is the end of what was logged.
LoggerInv ==
  /\ ring \in [0 .. capacity - 1 -> Entries \union {Zero}]
  /\ start \in 0 .. capacity - 1
  /\ size \in 0 .. capacity
  /\ logged \in Seq(Entries)
  /\ size = (IF Len(logged) < capacity THEN Len(logged) ELSE capacity)
  /\ size < capacity => start = 0
  /\ \A k \in 0 .. size - 1 :
       ring[Slot(start + k)] = logged[Len(logged) - size + k + 1]
===============================================================================
