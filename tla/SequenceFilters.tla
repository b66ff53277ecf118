--------------------------- MODULE SequenceFilters ---------------------------
(* The elements of a sequence that belong to a set, in order: SelectSeq with *)
(* a set in the place of the test.                                           *)
EXTENDS Integers, Sequences

Select(s, S) ==
  LET kept[n \in 0..Len(s)] ==
        IF n = 0 THEN <<>>
        ELSE IF s[n] \in S THEN Append(kept[n - 1], s[n])
        ELSE kept[n - 1]
  IN  kept[Len(s)]

=============================================================================
