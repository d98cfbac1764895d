-------------------------------- MODULE Lists --------------------------------
(* What the loops over a list compute, as recursive functions of the place     *)
(* the loop has come to: the form proofs by induction can be given about.      *)
EXTENDS Integers, Sequences

\* [x for x in s if x in T]
Among(s, T) ==
  LET kept[n \in 0 .. Len(s)] ==
        IF n = 0 THEN <<>> ELSE IF s[n] \in T THEN Append(kept[n - 1], s[n]) ELSE kept[n - 1]
  IN kept[Len(s)]

\* sum(s)
Total(s) ==
  LET sum[n \in 0 .. Len(s)] == IF n = 0 THEN 0 ELSE sum[n - 1] + s[n]
  IN sum[Len(s)]
=============================================================================
