---------------------------- MODULE SequenceFolds ----------------------------
(* Folding and building sequences in time linear in their length.             *)
EXTENDS Naturals, Sequences

\* FoldLeft of SequencesExt; each partial result is an element of a set, so
\* that TLC evaluates it once.
Accumulate(Op(_, _), base, seq) ==
  LET acc[n \in 0 .. Len(seq)] ==
        IF n = 0 THEN base ELSE CHOOSE r \in {Op(p, seq[n]) : p \in {acc[n - 1]}} : TRUE
  IN  acc[Len(seq)]

\* A function on 1 .. n as a tuple, whose elements TLC evaluates once.
Tuple(f, n) == SubSeq(f, 1, n)
==============================================================================
