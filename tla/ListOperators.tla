--------------------------- MODULE ListOperators ---------------------------
(* Operators on lists in a form that can be reasoned about.                *)
EXTENDS Integers, Sequences

(* The elements of s that are in P, of the first i elements of s.          *)
SelectedUpTo(s, P) ==
  LET f[i \in 0 .. Len(s)] ==
        IF i = 0 THEN <<>> ELSE IF s[i] \in P THEN Append(f[i - 1], s[i]) ELSE f[i - 1]
  IN f

(* SelectSeq with a set in place of a test: tlapm knows nothing of it.     *)
Selected(s, P) == SelectedUpTo(s, P)[Len(s)]

(* 2 ^ n, for which the same holds.                                        *)
Power[n \in Nat] == IF n = 0 THEN 1 ELSE 2 * Power[n - 1]
=============================================================================
