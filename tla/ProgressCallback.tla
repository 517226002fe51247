--------------------------- MODULE ProgressCallback ---------------------------
(***************************************************************************)
(* ProgressCallback: the counter a read or a write advances and a client   *)
(* polls from another thread.  increment() takes the mutex; resetCount(),  *)
(* setMax() and the two getters do not.                                    *)
(***************************************************************************)
EXTENDS Naturals

VARIABLES
  count,       \* m_Count
  max          \* m_Max

ResetCount == count' = 0 /\ UNCHANGED max

SetMax(m) == max' = m /\ UNCHANGED count

\* An increment beyond max is refused with a warning.
Increment ==
  /\ count' = IF count + 1 <= max THEN count + 1 ELSE count
  /\ UNCHANGED max

IsComplete == count = max
=============================================================================
