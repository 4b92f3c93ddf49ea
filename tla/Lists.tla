------------------------------- MODULE Lists --------------------------------
(***************************************************************************)
(* What the code does with vectors, stated by positions instead of by      *)
(* recursion: retain, a stable sort and ORDER BY.                          *)
(***************************************************************************)
EXTENDS Integers, Sequences, FiniteSets

(* The elements of a finite set I in the strict order R: each is at the     *)
(* place that its number of predecessors says.                              *)
Ordered(I, R) ==
  [k \in 1 .. Cardinality(I) |->
     CHOOSE i \in I : Cardinality({j \in I : <<j, i>> \in R}) = k - 1]

(* The elements of s at the positions p.                                    *)
At(s, p) == [k \in DOMAIN p |-> s[p[k]]]

(* Where a sequence has an element of S.                                    *)
Hits(s, S) == {i \in DOMAIN s : s[i] \in S}

(* Vec::retain, and DELETE of the rows that are not in S.                   *)
Retain(s, S) ==
  LET I == Hits(s, S) IN
  [k \in 1 .. Cardinality(I) |-> s[CHOOSE i \in I : Cardinality({j \in I : j < i}) = k - 1]]
=============================================================================
