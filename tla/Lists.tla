------------------------------- MODULE Lists --------------------------------
(***************************************************************************)
(* Operations on lists, in a form that can be proved about: the list       *)
(* comprehension [x for x in list if ...], by which the code drops an      *)
(* entry from a list it keeps (router.py's remove_route, pac.py's          *)
(* remove_custom_rule, policy_routes.py's upsert); sorting by a key that   *)
(* no two elements share (transcript_buffer.py's add_chunk, connectors.py's*)
(* receive_fragment); and sorting a list in place (span_arbiter.py's and   *)
(* regex_detector.py's sort by start).                                     *)
(***************************************************************************)
EXTENDS Naturals, Sequences, FiniteSets

\* The elements of the sequence s that are in S, in their order.  SelectSeq
\* with a set in the place of the test, so that it can be proved about.
Kept(s, S) ==
    LET upto[i \in 0..Len(s)] ==
          IF i = 0 THEN << >>
          ELSE IF s[i] \in S THEN Append(upto[i - 1], s[i]) ELSE upto[i - 1]
    IN  upto[Len(s)]

\* The elements of the finite set S in the order R, a set of pairs: the n-th
\* has n - 1 elements before it.
Sorted(S, R) ==
    [n \in 1..Cardinality(S) |->
        CHOOSE x \in S : Cardinality({y \in S : <<y, x>> \in R}) = n - 1]

\* The sequence s in the order R, a set of pairs of its positions.  (SubSeq
\* takes all of it: TLC then computes each element once.)
Arranged(s, R) ==
    LET order == Sorted(DOMAIN s, R)
    IN  SubSeq([k \in DOMAIN s |-> s[order[k]]], 1, Len(s))
=============================================================================
