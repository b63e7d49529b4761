------------------------------ MODULE SeqFilter ------------------------------
(***************************************************************************)
(* The loops over a slice that copy the elements that pass a test, or add  *)
(* numbers up.                                                             *)
(***************************************************************************)
EXTENDS Naturals, SequencesExt

\* The elements of s that are in S, in their order.
SelectIn(s, S) == FlattenSeq([i \in DOMAIN s |-> IF s[i] \in S THEN <<s[i]>> ELSE <<>>])

\* The numbers of s added up.
Total(s) ==
    LET sum[n \in 0..Len(s)] == IF n = 0 THEN 0 ELSE sum[n - 1] + s[n]
    IN  sum[Len(s)]
===============================================================================
