------------------------------- MODULE Folding -------------------------------
(***************************************************************************)
(* Loops over a sequence, front to back: what a loop has after its last    *)
(* item, as a recursive function of how many items it went through.        *)
(***************************************************************************)
EXTENDS Naturals, Sequences

Folded(step(_, _), start, s) ==
    LET upto[n \in 0..Len(s)] == IF n = 0 THEN start ELSE step(upto[n - 1], s[n])
    IN  upto[Len(s)]

(* The items of s that are in T, and the first k items of s.                  *)
OnlyIn(s, T) == Folded(LAMBDA chosen, x : IF x \in T THEN Append(chosen, x) ELSE chosen, <<>>, s)
AtMost(k, s) == SubSeq(s, 1, IF Len(s) < k THEN Len(s) ELSE k)
=============================================================================
