------------------------------- MODULE Positions -------------------------------
(***************************************************************************)
(* Positions in sequences: the members of a set of positions in their      *)
(* order, and where parts that follow each other end.                      *)
(***************************************************************************)
EXTENDS Naturals, Sequences, FiniteSets

\* How many members of S there are up to i.
Rank(S, i) == Cardinality({j \in S : j <= i})

\* The k-th member of S.
Nth(S, k) == CHOOSE i \in S : Rank(S, i) = k

\* Where the parts end: the n-th at Ends(widths)[n].
Ends(widths) ==
    LET end[n \in 0 .. Len(widths)] == IF n = 0 THEN 0 ELSE end[n - 1] + widths[n]
    IN  end

Total(widths) == Ends(widths)[Len(widths)]

=============================================================================
