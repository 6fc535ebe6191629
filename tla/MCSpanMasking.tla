--------------------------- MODULE MCSpanMasking ----------------------------
(* TLC instance of SpanMasking: one node of four characters, in which two     *)
(* regex hits of a secret type and a name can partly overlap; no checksums.   *)
EXTENDS SpanMasking

a == [char |-> "a"]
b == [char |-> "b"]

OneNode == << << a, b, a, b >> >>
SecretAndName == [KEY |-> 3, NAME |-> 1]
NoDowngrades == [t \in {} |-> t]
TwoChars(value) == Len(value) = 2
=============================================================================
