----------------------------- MODULE ResultSlice -----------------------------
(***************************************************************************)
(* What a window of a query's result promises, whatever its layout: its    *)
(* rows are consecutive rows of the result, from the position it says it   *)
(* starts at.                                                              *)
(***************************************************************************)
EXTENDS Naturals, Sequences

VARIABLES result,   \* the rows of the query, in order
          first,    \* the position of the window's first row
          rows      \* the window's rows

vars == <<result, first, rows>>

Init == rows = <<>> /\ first = 0

\* The row that follows is fetched.
Fetch ==
    /\ first + Len(rows) < Len(result)
    /\ rows' = Append(rows, result[first + Len(rows) + 1])
    /\ UNCHANGED <<result, first>>

\* The window starts again, somewhere else or for another result.
Restart == rows' = <<>> /\ first' \in Nat

Next == Fetch \/ Restart

Spec == Init /\ [][Next]_vars

============================================================================
