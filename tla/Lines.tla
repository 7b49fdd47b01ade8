--------------------------------- MODULE Lines ---------------------------------
(* What is kept of a line when some leave it.                              *)
EXTENDS Naturals, Sequences

\* the elements of s that are in S, in their order; the function gives what is kept of
\* the first i (the provers know nothing of SelectSeq)
Kept(s, S) ==
    LET k[i \in 0 .. Len(s)] ==
          IF i = 0 THEN << >> ELSE IF s[i] \in S THEN Append(k[i - 1], s[i]) ELSE k[i - 1]
    IN  k[Len(s)]
=============================================================================
