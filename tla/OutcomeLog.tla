----------------------------- MODULE OutcomeLog -----------------------------
(***************************************************************************)
(* What the outcome history of the reputation contract promises, without   *)
(* pages: per anchor a log that grows at its end and that the admin may    *)
(* hide as a whole.                                                        *)
(***************************************************************************)
EXTENDS Naturals, Sequences

CONSTANTS Anchor, Outcome

VARIABLE log

LogTypeOK == log \in [Anchor -> Seq(Outcome)]

LogInit == log = [a \in Anchor |-> <<>>]

Submit(a, o) == log' = [log EXCEPT ![a] = Append(@, o)]

Hide(a) == log' = [log EXCEPT ![a] = <<>>]

LogNext ==
    \E a \in Anchor :
        \/ \E o \in Outcome : Submit(a, o)
        \/ Hide(a)

LogSpec == LogInit /\ [][LogNext]_log

\* The newest n entries of a log, newest first.
Newest(a, n) ==
    LET size == Len(log[a])
        count == IF n < size THEN n ELSE size
    IN  [i \in 1..count |-> log[a][size + 1 - i]]
=============================================================================
