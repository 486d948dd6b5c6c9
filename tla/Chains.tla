------------------------------- MODULE Chains -------------------------------
(***************************************************************************)
(* Sequences strung together, as a recursive function: the operator the    *)
(* models collect their reports, calls and lines with.                     *)
(***************************************************************************)
EXTENDS Integers, Sequences

\* Strung(ss)[n]: the first n of the sequences ss, one after the other.
Strung(ss) ==
    LET strung[n \in 0 .. Len(ss)] == IF n = 0 THEN <<>> ELSE strung[n - 1] \o ss[n]
    IN  strung
=============================================================================
