------------------------------ MODULE Sublists ------------------------------
(***************************************************************************)
(* The elements of a sequence that lie in a set, in their order, gathered  *)
(* the way a loop of the code gathers them.  It is SelectSeq with a set    *)
(* for the test, so that facts about it can be stated and used.            *)
(***************************************************************************)
EXTENDS Naturals, Sequences

Where(s, Keep) ==
  LET kept[n \in 0 .. Len(s)] ==
        IF n = 0 THEN <<>>
        ELSE IF s[n] \in Keep THEN Append(kept[n - 1], s[n]) ELSE kept[n - 1]
  IN  kept[Len(s)]

(* What remains of s without the elements that are gone.                    *)
Remaining(s, gone) == Where(s, {s[i] : i \in DOMAIN s} \ gone)

(* The sum of a sequence of numbers, added up as a loop does.               *)
Total(s) ==
  LET sum[n \in 0 .. Len(s)] == IF n = 0 THEN 0 ELSE sum[n - 1] + s[n]
  IN  sum[Len(s)]
=============================================================================
