---------------------------- MODULE MCTailBuffer ----------------------------
(* Instances of TailBuffer for TLC: the window holds a token of five       *)
(* characters, as the window of the code holds the longest one.            *)
EXTENDS TailBuffer

Token == << "[", "A", "_", "1", "]" >>
Words == << ".", "a" >>
SampleTexts == {
    Words \o Token \o Words \o Token \o Words,
    << ".", "[", "a", "a", "a", "_", "1", "1", "1", "2", "1", "2", "1", "." >>,
    << "[", "[", "A", "_", "_", "1", "]", "]", ".", "[", "A", "B", "_", "2", "]", "." >>}
=============================================================================
