----------------------------- MODULE Selection -----------------------------
(* The loop that picks elements of a list, for the two programs that read  *)
(* recorded files.                                                         *)
EXTENDS SequencesExt

(* The elements of a sequence at the indices in S, in order.               *)
SelectAt(list, S) ==
  LET kept[n \in 0..Len(list)] ==
        IF n = 0 THEN <<>>
        ELSE IF n \in S THEN Append(kept[n - 1], list[n]) ELSE kept[n - 1]
  IN  kept[Len(list)]
=============================================================================
