---------------------------- MODULE SpanMasking -----------------------------
(***************************************************************************)
(* From recogniser hits to a masked text and back: the overlap rules of    *)
(* RegexDetector, SpanArbiter.merge, the exclusion and checksum filters of *)
(* DetectionStage, the Tokenizer session and Restorer.restore_text.        *)
(*                                                                         *)
(* A text is a sequence of characters [char] and tokens [type, index].     *)
(* The recognisers report any spans; a span has 0-based start and end      *)
(* offsets as in the code.                                                 *)
(***************************************************************************)
EXTENDS Integers, Sequences, FiniteSets, SequencesExt, Lists

CONSTANTS
    NodeTexts,          \* the text nodes of the request
    Specificity,    \* ENTITY_SPECIFICITY: a function on the entity types
    Irreversible,   \* IRREVERSIBLE_ENTITY_TYPES and configured ones
    Checked,        \* the types with a checksum validator
    Valid(_),       \* whether a value passes the checksum
    OnFormat,       \* _MASK_ON_FORMAT: types downgraded when the checksum fails
    Excluded,       \* the values on the exclusion list
    MaxScore,       \* bound on the scores, which only order the spans
    MaxRegex,       \* bound on the regex hits in a node
    MaxOther        \* bound on the hits of the other recognisers in a node

Types == DOMAIN Specificity

ASSUME MaskingAssumption ==
    /\ NodeTexts \in Seq(Seq([char : STRING])) \ {<< >>}
    /\ Specificity \in [Types -> Nat]
    /\ Irreversible \subseteq Types
    /\ Checked \subseteq Types
    /\ DOMAIN OnFormat \subseteq Checked
    /\ \A t \in DOMAIN OnFormat : OnFormat[t] \in Types
    /\ MaxScore \in Nat \ {0}
    /\ MaxRegex \in Nat
    /\ MaxOther \in Nat

VARIABLES
    node,           \* the text node being processed
    step,           \* "detect" or "done"
    regex,          \* hits of the regex patterns in this node
    other,          \* hits of NER, MNPI and enterprise recognisers
    counters,       \* Tokenizer._per_type_counters
    tokens,         \* Tokenizer._value_to_token: {<<value, reversible, token>>}
    mapping,        \* all_mappings: {<<token, value>>}
    masked,         \* the tokenized text nodes
    accepted        \* per node, the spans that were masked

maskVars == <<node, step, regex, other, counters, tokens, mapping, masked, accepted>>

Spans(n) ==
    {s \in [start : 0..(Len(NodeTexts[n]) - 1), end : 1..Len(NodeTexts[n]),
            type : Types, source : {"regex", "ner", "enterprise"},
            score : 1..MaxScore] :
        s.start < s.end}

\* The 1-based positions of the characters of a span.
Chars(s) == (s.start + 1)..s.end
Cover(spans) == UNION {Chars(spans[k]) : k \in 1..Len(spans)}
Value(text, s) == SubSeq(text, s.start + 1, s.end)

\* The pairs of positions of q that a stable sort by (start, minor) keeps or
\* puts in this order.
StartOrder(q, minor) ==
    {p \in (DOMAIN q) \X (DOMAIN q) :
        \/ q[p[1]].start < q[p[2]].start
        \/ /\ q[p[1]].start = q[p[2]].start
           /\ minor[p[1]] < minor[p[2]] \/ (minor[p[1]] = minor[p[2]] /\ p[1] < p[2])}

\* list.sort(key=(start, minor)), with a minor key per position.
SortByStart(q, minor) == Arranged(q, StartOrder(q, minor))

Overlaps(a, b) == a.start < b.end /\ b.start < a.end
Encloses(a, b) == a.start <= b.start /\ a.end >= b.end

\* The first span of q that overlaps s, 0 if none does.
FirstOverlap(q, s) ==
    LET hits == {i \in 1..Len(q) : Overlaps(q[i], s)}
    IN  IF hits = {} THEN 0 ELSE CHOOSE i \in hits : \A j \in hits : i <= j

-----------------------------------------------------------------------------
(***************************************************************************)
(* RegexDetector._collapse_overlaps.                                       *)
(***************************************************************************)
CollapseInto(kept, s) ==
    LET i == FirstOverlap(kept, s)
    IN  IF i = 0
        THEN Append(kept, s)
        ELSE LET a == kept[i]
                 takes == \/ Encloses(s, a) /\ ~Encloses(a, s)
                          \/ /\ Encloses(s, a) <=> Encloses(a, s)
                             /\ Specificity[s.type] > Specificity[a.type]
             IN  IF takes THEN [kept EXCEPT ![i] = s] ELSE kept

\* The longer of two hits that start together comes first.
CollapseOverlaps(hits) ==
    LET queue == SortByStart(hits, [k \in DOMAIN hits |-> -hits[k].end])
        kept[k \in 0..Len(queue)] ==
          IF k = 0 THEN << >> ELSE CollapseInto(kept[k - 1], queue[k])
    IN  kept[Len(queue)]

(***************************************************************************)
(* SpanArbiter.merge.                                                      *)
(***************************************************************************)
\* The enterprise and MNPI recognisers are the _PROTECTED_SOURCES.
Secret(s) == s.type \in Irreversible \/ s.source = "enterprise"

\* _with_flags: protected and irreversible coincide on every span it returns.
WithFlags(s) ==
    [start |-> s.start, end |-> s.end, type |-> s.type, source |-> s.source,
     score |-> s.score, secret |-> Secret(s)]

\* _preferred_span: regex wins exact overlaps, specificity the others.
Preferred(incoming, old) ==
    IF incoming.start = old.start /\ incoming.end = old.end
    THEN incoming.source = "regex"
    ELSE Specificity[incoming.type] > Specificity[old.type]

\* Mutated CoverUnion: the winner keeps its own bounds.
CoverUnion_KeepsBounds(w, o) == [w EXCEPT !.secret = w.secret \/ o.secret]

\* Mutated CoverUnion: the flags are the winner's.
CoverUnion_WinnerFlags(w, o) ==
    [w EXCEPT !.start = IF o.start < w.start THEN o.start ELSE w.start,
              !.end = IF o.end > w.end THEN o.end ELSE w.end]

CoverUnion(w, o) ==
    [w EXCEPT !.start = IF o.start < w.start THEN o.start ELSE w.start,
              !.end = IF o.end > w.end THEN o.end ELSE w.end,
              !.secret = w.secret \/ o.secret]

\* One round of merge's inner loop: absorb the first overlapping survivor.
Absorb(acc) ==
    LET i == FirstOverlap(acc.merged, acc.pending)
    IN  IF i = 0
        THEN acc
        ELSE LET old == acc.merged[i]
                 wins == Preferred(acc.pending, old)
             IN  [merged |-> RemoveAt(acc.merged, i),
                  pending |-> IF wins THEN CoverUnion(acc.pending, old)
                                      ELSE CoverUnion(old, acc.pending)]

\* Each round removes a survivor, so there are at most Len(merged) of them.
MergeInto(merged, s) ==
    LET round[k \in 0..Len(merged)] ==
          IF k = 0 THEN [merged |-> merged, pending |-> s] ELSE Absorb(round[k - 1])
        last == round[Len(merged)]
    IN  Append(last.merged, last.pending)

\* All hits with their flags, the regex hits first.
Tagged(reg, oth) ==
    [k \in 1..(Len(reg) + Len(oth)) |->
        WithFlags(IF k <= Len(reg) THEN reg[k] ELSE oth[k - Len(reg)])]

\* Higher scores first within a start, then the order of the lists.
Merge(reg, oth) ==
    LET tagged == Tagged(reg, oth)
        queue == SortByStart(tagged, [k \in DOMAIN tagged |-> -tagged[k].score])
        into[k \in 0..Len(queue)] ==
          IF k = 0 THEN << >> ELSE MergeInto(into[k - 1], queue[k])
        survivors == into[Len(queue)]
    IN  SortByStart(survivors, [k \in DOMAIN survivors |-> survivors[k].end])

(***************************************************************************)
(* DetectionStage: exclusions and checksums are looked up after the merge. *)
(***************************************************************************)
Passes(text, s) == s.secret \/ s.type \notin Checked \/ Valid(Value(text, s))

SpanStays(text, s) ==
    /\ s.secret \/ Value(text, s) \notin Excluded
    /\ Passes(text, s) \/ s.type \in DOMAIN OnFormat

\* _validate_or_downgrade, on a span that is kept.
Validated(text, s) ==
    IF Passes(text, s) THEN s ELSE [s EXCEPT !.type = OnFormat[s.type]]

Detections(text, reg, oth) ==
    LET spans == Merge(CollapseOverlaps(reg), oth)
        kept == Kept(spans, {s \in ToSet(spans) : SpanStays(text, s)})
    IN  [k \in 1..Len(kept) |-> Validated(text, kept[k])]

(***************************************************************************)
(* Tokenizer and Restorer.  The spans no longer overlap, so the merge of   *)
(* Tokenizer._non_overlapping keeps them as they are.                      *)
(***************************************************************************)

\* Mutated KeyOf: the value alone is the key.
KeyOf_ValueOnly(value, reversible) == << value, TRUE >>

\* The key of the deduplication map.
KeyOf(value, reversible) == << value, reversible >>

\* A token was made: the counter of its type moves on.
NextIndex(count, type) == [count EXCEPT ![type] = @ + 1]

\* _token_for, on a session acc = [counters, tokens, mapping, out, cursor].
TokenFor(text, acc, s) ==
    LET value == Value(text, s)
        key == KeyOf(value, ~s.secret)
        known == {t \in acc.tokens : << t[1], t[2] >> = key}
        fresh == [type |-> s.type, index |-> acc.counters[s.type]]
        token == IF known = {} THEN fresh ELSE (CHOOSE t \in known : TRUE)[3]
    IN  [counters |-> IF known = {} THEN NextIndex(acc.counters, s.type) ELSE acc.counters,
         tokens |-> IF known = {}
                    THEN acc.tokens \cup {<< key[1], key[2], fresh >>} ELSE acc.tokens,
         mapping |-> IF known = {} /\ ~s.secret
                     THEN acc.mapping \cup {<< fresh, value >>} ELSE acc.mapping,
         out |-> acc.out \o SubSeq(text, acc.cursor + 1, s.start) \o << token >>,
         cursor |-> s.end]

Tokenize(text, spans) ==
    LET session[k \in 0..Len(spans)] ==
          IF k = 0
          THEN [counters |-> counters, tokens |-> tokens, mapping |-> mapping,
                out |-> << >>, cursor |-> 0]
          ELSE TokenFor(text, session[k - 1], spans[k])
        last == session[Len(spans)]
    IN  [last EXCEPT !.out = @ \o SubSeq(text, last.cursor + 1, Len(text))]

\* What restoring puts in the place of x: tokens without an entry stay.
Restored(x, map) ==
    LET entries == {m \in map : m[1] = x}
    IN  IF entries = {} THEN << x >> ELSE (CHOOSE m \in entries : TRUE)[2]

\* restore_text: one pass.
Restore(text, map) == FlattenSeq([i \in 1..Len(text) |-> Restored(text[i], map)])

-----------------------------------------------------------------------------
MaskInit ==
    /\ node = 1
    /\ step = "detect"
    /\ regex = << >>
    /\ other = << >>
    /\ counters = [t \in Types |-> 0]
    /\ tokens = {}
    /\ mapping = {}
    /\ masked = << >>
    /\ accepted = << >>

\* A regex pattern matches (seen_spans: a type does not match the same span twice).
RegexHit ==
    /\ step = "detect"
    /\ Len(regex) < MaxRegex
    /\ \E s \in Spans(node) :
          /\ s.source = "regex"
          /\ \A i \in 1..Len(regex) : regex[i] # [s EXCEPT !.score = regex[i].score]
          /\ regex' = Append(regex, s)
    /\ UNCHANGED <<node, step, other, counters, tokens, mapping, masked, accepted>>

\* Another recogniser reports a span.
OtherHit ==
    /\ step = "detect"
    /\ Len(other) < MaxOther
    /\ \E s \in Spans(node) :
          /\ s.source # "regex"
          /\ other' = Append(other, s)
    /\ UNCHANGED <<node, step, regex, counters, tokens, mapping, masked, accepted>>

\* Detection and tokenization of the node, with the session's state.
MaskNode ==
    /\ step = "detect"
    /\ LET spans == Detections(NodeTexts[node], regex, other)
           t == Tokenize(NodeTexts[node], spans)
       IN  /\ counters' = t.counters
           /\ tokens' = t.tokens
           /\ mapping' = t.mapping
           /\ masked' = Append(masked, t.out)
           /\ accepted' = Append(accepted, spans)
    /\ IF node = Len(NodeTexts)
       THEN step' = "done" /\ UNCHANGED <<node, regex, other>>
       ELSE /\ node' = node + 1 /\ regex' = << >> /\ other' = << >>
            /\ UNCHANGED step

MaskDone == step = "done" /\ UNCHANGED maskVars

MaskNext == RegexHit \/ OtherHit \/ MaskNode \/ MaskDone

MaskSpec == MaskInit /\ [][MaskNext]_maskVars
-----------------------------------------------------------------------------
(***************************************************************************)
(* Properties.                                                             *)
(***************************************************************************)

\* SpanArbiter.merge masks the union: whatever the order, nesting and types of
\* the spans, the characters of the result are those of the input, and no two
\* spans of the result overlap.
MergeCoversUnion(spans) ==
    /\ Cover(spans) = Cover(regex) \cup Cover(other)
    /\ \A i, j \in 1..Len(spans) : i # j => ~Overlaps(spans[i], spans[j])

\* A secret absorbed by an ordinary type stays a secret: every character of a
\* protected hit is in a span that is never restored (_cover_union).
SecretsStayProtected(spans) ==
    LET hits == regex \o other
    IN  \A i \in 1..Len(hits) : Secret(hits[i]) =>
            \E k \in 1..Len(spans) :
                spans[k].secret /\ Chars(hits[i]) \subseteq Chars(spans[k])

\* A text with every token shown as one "#".
Hashed(text) ==
    [i \in 1..Len(text) |-> IF "type" \in DOMAIN text[i] THEN [char |-> "#"] ELSE text[i]]

\* What must be left of position i of a text, with these spans masked, when it
\* has been restored: a span that is never restored leaves one "#".
Left(text, spans, i) ==
    LET hidden == {k \in 1..Len(spans) : spans[k].secret}
    IN  IF \A k \in hidden : i \notin Chars(spans[k]) THEN << text[i] >>
        ELSE IF \E k \in hidden : i = spans[k].start + 1 THEN << [char |-> "#"] >>
        ELSE << >>

\* What restoring a masked node must give: its text, with every span that is
\* never restored still masked.
Expected(text, spans) == FlattenSeq([i \in 1..Len(text) |-> Left(text, spans, i)])

\* Restoring the masked text with the mapping of the whole session gives back
\* the text and nothing of a secret, also when the same value occurs as an
\* ordinary span, in this node or in another (TokenFor, Restore).
RoundTrip ==
    \A n \in 1..Len(masked) :
        Hashed(Restore(masked[n], mapping)) = Expected(NodeTexts[n], accepted[n])

\* Arbitration loses no character and no flag, and restoring undoes masking.
MaskingSound ==
    /\ LET spans == Merge(regex, other)
       IN  MergeCoversUnion(spans) /\ SecretsStayProtected(spans)
    /\ RoundTrip
-----------------------------------------------------------------------------
(***************************************************************************)
(* Said of the code and not kept by it; each comment names the exception.  *)
(***************************************************************************)

\* What masking the union is for: no character of a reported span that would
\* be masked by itself is left in clear text.  Except those that only the loser
\* of two partially overlapping regex hits covers, and those of a span whose
\* union with a type with a checksum fails it.
ReportedSpansMasked ==
    step = "done" =>
        LET hits == regex \o other
        IN  \A i \in 1..Len(hits) :
                SpanStays(NodeTexts[node], WithFlags(hits[i]))
                => Chars(hits[i]) \subseteq Cover(accepted[node])
=============================================================================
