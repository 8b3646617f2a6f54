---------------------------------- MODULE Sums ----------------------------------
(***************************************************************************)
(* Running sums over an array of amounts.  The contracts never compute     *)
(* such a sum: they keep counters (queuedDLP, claimableDLP, ...) that are  *)
(* meant to equal one, and the invariants of this project say which.       *)
(* The sum is a recursive function so that TLAPS can reason about it; its  *)
(* algebra is proved in SumsProofs.                                        *)
(***************************************************************************)
EXTENDS Integers, Sequences, FiniteSets

\* f[1] + ... + f[n]
SumTo(f, n) ==
    LET S[k \in Nat] == IF k = 0 THEN 0 ELSE S[k - 1] + f[k]
    IN  S[n]

\* The elements of a finite set in some order, each once.
EnumerationOf(S) ==
    CHOOSE list \in [1..Cardinality(S) -> S] :
        \A x \in S : \E i \in 1..Cardinality(S) : list[i] = x

\* f[x] summed over the elements of a list
SumOver(f, list) == SumTo([i \in 1..Len(list) |-> f[list[i]]], Len(list))

=================================================================================
