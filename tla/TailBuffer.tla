----------------------------- MODULE TailBuffer -----------------------------
(***************************************************************************)
(* The TailBuffer FSM of a stream: text deltas are appended to a buffer,   *)
(* which is scanned for complete and partial tokens and flushed up to a    *)
(* tail window; other events pass by it.  What it emits is restored chunk  *)
(* by chunk, so a token that is cut in two is never restored.              *)
(*                                                                         *)
(* Text is a sequence of one-character strings.                            *)
(***************************************************************************)
EXTENDS Naturals, Sequences, FiniteSets, SequencesExt

CONSTANTS
    StreamTexts,              \* the texts a provider may stream
    Window,             \* TAIL_WINDOW_CHARS
    MaxBuffer,          \* MAX_BUFFER_CHARS
    MaxChunk,           \* bound on the length of a delta
    NameLen,            \* the 49 of TOKEN_PATTERN
    PartialLen,         \* the 19 of PARTIAL_PATTERN
    MaxBypass           \* bound on the events that pass by the buffer

ASSUME BufferAssumption ==
    /\ \A t \in StreamTexts : t \in Seq(STRING)
    /\ Window \in Nat \ {0}
    /\ MaxBuffer \in Nat
    /\ Window < MaxBuffer
    /\ MaxChunk \in Nat \ {0}
    /\ NameLen \in Nat
    /\ PartialLen \in Nat
    /\ MaxBypass \in Nat

VARIABLES
    text,           \* what the provider streams
    fed,            \* how many characters of it have been ingested
    active_buffer,
    state,
    emitted,        \* the text chunks yielded, in order
    bypassed        \* the events yielded past the buffer

tailVars == <<text, fed, active_buffer, state, emitted, bypassed>>

-----------------------------------------------------------------------------
Upper == {"A", "B"}
Lower == {"a", "b"}
Digits == {"1", "2"}

AllIn(s, i, j, chars) == \A k \in i..j : s[k] \in chars

\* \[[A-Z][A-Z_]{0,49}_\d+\] matches all of s.
IsToken(s) ==
    /\ Len(s) >= 5
    /\ s[1] = "[" /\ s[2] \in Upper /\ s[Len(s)] = "]"
    /\ \E u \in 3..(Len(s) - 2) :
          /\ s[u] = "_"
          /\ u - 3 <= NameLen
          /\ AllIn(s, 3, u - 1, Upper \cup {"_"})
          /\ AllIn(s, u + 1, Len(s) - 1, Digits)

\* TOKEN_PATTERN.search
HasToken(s) ==
    \E i \in 1..Len(s) : \E j \in i..Len(s) : IsToken(SubSeq(s, i, j))

\* \[[A-Za-z][A-Za-z_]{0,19}_?\d*$ matches all of s.
IsPartial(s) ==
    /\ Len(s) >= 2
    /\ s[1] = "[" /\ s[2] \in Upper \cup Lower
    /\ \E n \in 2..Len(s) : \E m \in {n, n + 1} :
          /\ n - 2 <= PartialLen
          /\ AllIn(s, 3, n, Upper \cup Lower \cup {"_"})
          /\ m = n + 1 => m <= Len(s) /\ s[m] = "_"
          /\ AllIn(s, m + 1, Len(s), Digits)

\* PARTIAL_PATTERN.search
HasPartialTail(s) == \E i \in 1..Len(s) : IsPartial(SubSeq(s, i, Len(s)))

TailRegion(s) == IF Len(s) > Window THEN SubSeq(s, Len(s) - Window + 1, Len(s)) ELSE s

\* Mutated Flush: a buffer that fits in the window is dropped.
Flush_DropsSmall(s) ==
    IF Len(s) <= Window
    THEN [keep |-> << >>, out |-> << >>]
    ELSE [keep |-> SubSeq(s, Len(s) - Window + 1, Len(s)),
          out |-> << SubSeq(s, 1, Len(s) - Window) >>]

\* Mutated Flush: one character too many is emitted.
Flush_OffByOne(s) ==
    IF Len(s) <= Window
    THEN [keep |-> s, out |-> << >>]
    ELSE [keep |-> SubSeq(s, Len(s) - Window + 2, Len(s)),
          out |-> << SubSeq(s, 1, Len(s) - Window + 1) >>]

\* FLUSHING: everything before the tail window is emitted.
Flush(s) ==
    IF Len(s) <= Window
    THEN [keep |-> s, out |-> << >>]
    ELSE [keep |-> SubSeq(s, Len(s) - Window + 1, Len(s)),
          out |-> << SubSeq(s, 1, Len(s) - Window) >>]

\* Mutated Match: a partial token is waited for whatever the size.
Match_PartialFirst(s, aged) ==
    IF HasPartialTail(TailRegion(s)) /\ ~HasToken(TailRegion(s))
    THEN [keep |-> s, out |-> << >>]
    ELSE Flush(s)

\* MATCHING: age and size force a flush, then a complete token does; only
\* then is a partial token at the end waited for.
Match(s, aged) ==
    IF /\ ~aged
       /\ Len(s) < MaxBuffer
       /\ ~HasToken(TailRegion(s))
       /\ HasPartialTail(TailRegion(s))
    THEN [keep |-> s, out |-> << >>]
    ELSE Flush(s)

-----------------------------------------------------------------------------
TailInit ==
    /\ text \in StreamTexts
    /\ fed = 0
    /\ active_buffer = << >>
    /\ state = "COLLECTING"
    /\ emitted = << >>
    /\ bypassed = 0

\* ingest of a TEXT_DELTA (an empty delta is matched too).  aged: the last
\* flush is at least MAX_BUFFER_AGE_MS ago.
Ingest ==
    /\ state = "COLLECTING"
    /\ \E n \in 0..MaxChunk, aged \in BOOLEAN :
          /\ fed + n <= Len(text)
          /\ fed' = fed + n
          /\ LET m == Match(active_buffer \o SubSeq(text, fed + 1, fed + n), aged)
             IN  /\ active_buffer' = m.keep
                 /\ emitted' = emitted \o m.out
    /\ UNCHANGED <<text, state, bypassed>>

\* ingest of a tool call: emitted at once.
Bypass ==
    /\ state = "COLLECTING"
    /\ bypassed < MaxBypass
    /\ bypassed' = bypassed + 1
    /\ UNCHANGED <<text, fed, active_buffer, state, emitted>>

\* The provider's stream finished: flush_remaining, then terminate.
FinishStream ==
    /\ state = "COLLECTING"
    /\ fed = Len(text)
    /\ emitted' = IF active_buffer = << >> THEN emitted ELSE Append(emitted, active_buffer)
    /\ active_buffer' = << >>
    /\ state' = "TERMINATED"
    /\ UNCHANGED <<text, fed, bypassed>>

\* An error, a disconnect or a cancellation: terminate without a flush.
Terminate ==
    /\ state = "COLLECTING"
    /\ state' = "TERMINATED"
    /\ UNCHANGED <<text, fed, active_buffer, emitted, bypassed>>

TailDone == state = "TERMINATED" /\ UNCHANGED tailVars

TailNext == Ingest \/ Bypass \/ FinishStream \/ Terminate \/ TailDone

TailSpec == TailInit /\ [][TailNext]_tailVars
-----------------------------------------------------------------------------
(***************************************************************************)
(* Properties.                                                             *)
(***************************************************************************)

\* Nothing is lost, repeated or reordered: what was emitted followed by what
\* is buffered is what was received, whatever the chunk boundaries, the age
\* and size flushes and the partial matches (_match, _flush).
TextConserved ==
    FlattenSeq(emitted) \o active_buffer = SubSeq(text, 1, fed)

\* The buffer stays below its limit, however long a partial token at its end
\* is waited for.
BufferBounded == Len(active_buffer) < MaxBuffer

\* The positions of the text at which a chunk ends.
Cuts == {Len(FlattenSeq(SubSeq(emitted, 1, k))) : k \in 1..Len(emitted)}

\* A token that is still arriving is not cut: wherever a chunk ends inside a
\* token that is at most one character longer than the window, the whole of the
\* token had been received.  A flush forced by age or size, or set off by an
\* earlier token, never gives up the beginning of a token it could not yet see.
ArrivingTokenNotCut ==
    \A c \in Cuts : \A i \in 1..c : \A j \in (c + 1)..Len(text) :
        IsToken(SubSeq(text, i, j)) /\ j - i <= Window => j <= fed

\* The tail buffer returns the text it was given, in bounded memory, and never
\* cuts a token before it has come in whole.
StreamIntact ==
    /\ TextConserved
    /\ BufferBounded
    /\ ArrivingTokenNotCut
-----------------------------------------------------------------------------
(***************************************************************************)
(* Said of the code and not kept by it; each comment names the exception.  *)
(***************************************************************************)

\* The key guarantee of the module: no token is emitted in parts.  Except one
\* that has come in and spans the cut of a flush, whose distance from the end is fixed.
NoTokenSplit ==
    \A c \in Cuts : \A i \in 1..c : \A j \in (c + 1)..Len(text) :
        ~IsToken(SubSeq(text, i, j))
=============================================================================
