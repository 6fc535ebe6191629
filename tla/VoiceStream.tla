---------------------------- MODULE VoiceStream ----------------------------
(***************************************************************************)
(* Voice protection (src/anonreq/voice): the pipeline with its sliding     *)
(* window detector and sanitizers, the speech-to-text engine with its      *)
(* transcript buffer, and the channel connectors.  Three parts that share  *)
(* no state.  Audio time is counted in units, a chunk lasts Dur of them.   *)
(* A transcript is a sequence of characters; the detection engine finds a  *)
(* secret wherever one of the words in SecretForms stands, however many    *)
(* segments the word is spread over.                                       *)
(***************************************************************************)
EXTENDS Integers, Sequences, FiniteSets, FiniteSetsExt, SequencesExt, Lists

CONSTANTS Transcripts,  \* what speech-to-text may return for a chunk
          SecretForms,  \* the words the detection engine takes for secrets
          Dur,          \* duration of a chunk
          VoiceWindow,  \* SlidingWindowDetector.window_ms
          VoiceOverlap, \* overlap_ms
          Margin,       \* TimelineMapper.safety_margin_ms
          MaxVoiceChunks \* bound on the chunks of a stream
VARIABLES stream,       \* "new", "open", "ended"
          heard,        \* number of chunks taken from the connector
          segments,     \* _window_buffer: [text, start] records
          emittedKeys,  \* _emitted_keys: audio range and text of what was handed out
          spoken,       \* every segment so far (history)
          inspected,    \* segments of spoken at the last detection (history)
          sent          \* chunks handed on: [start, text, muted, masked]
voiceVars == <<stream, heard, segments, emittedKeys, spoken, inspected, sent>>

ASSUME VoiceAssumption == /\ Dur \in Nat \ {0} /\ VoiceWindow \in Nat \ {0} /\ Margin \in Nat
                          /\ VoiceOverlap \in 0..(VoiceWindow - 1)

VoiceInit == /\ stream = "new" /\ heard = 0
             /\ segments = <<>> /\ emittedKeys = {}
             /\ spoken = <<>> /\ inspected = 0 /\ sent = <<>>

SegEnd(seg) == seg.start + Dur

\* _assemble_window: a place is a character of the window, <<segment, index>>;
\* the text between two places runs over the segments that lie between them.
Places(segs) == UNION {{<<k, i>> : i \in DOMAIN segs[k].text} : k \in DOMAIN segs}
Between(segs, p, q) == [k \in 1..(q[1] - p[1] - 1) |-> segs[p[1] + k].text]
SpanText(segs, p, q) ==
  IF p[1] = q[1] THEN SubSeq(segs[p[1]].text, p[2], q[2])
  ELSE SubSeq(segs[p[1]].text, p[2], Len(segs[p[1]].text)) \o FlattenSeq(Between(segs, p, q))
       \o SubSeq(segs[q[1]].text, 1, q[2])

\* char_offset_to_ms and entity_to_frame_range, for one character.
OffsetTime(seg, i) == seg.start + (i * Dur) \div Len(seg.text)
FrameStart(seg, i) == Max({seg.start, OffsetTime(seg, i) - Margin})
FrameEnd(seg, i) == Min({SegEnd(seg), Max({OffsetTime(seg, i + 1), OffsetTime(seg, i) + 1}) + Margin})

\* The secrets of a transcript, by the places of their first and last character.
Secrets(segs) ==
  {z \in Places(segs) \X Places(segs) :
     /\ z[1][1] < z[2][1] \/ (z[1][1] = z[2][1] /\ z[1][2] <= z[2][2])
     /\ SpanText(segs, z[1], z[2]) \in SecretForms}

\* _map_entity: the audio range, and the offsets in the window's text.
AudioOf(segs, z) ==
  LET from == FrameStart(segs[z[1][1]], z[1][2] - 1)
  IN <<from, Max({FrameEnd(segs[z[2][1]], z[2][2] - 1), from + 1})>>
OffsetOf(segs, p) ==
  Cardinality({q \in Places(segs) : q[1] < p[1] \/ (q[1] = p[1] /\ q[2] < p[2])})
MapEntity(segs, z) == [start |-> OffsetOf(segs, z[1]), end |-> OffsetOf(segs, z[2]) + 1,
                       audio |-> AudioOf(segs, z), text |-> SpanText(segs, z[1], z[2])]

\* _prune_for_overlap: the first segments go while they end before the overlap,
\* and one stays.
Pruned_LastOnly(segs) == <<segs[Len(segs)]>>
Pruned(segs) ==
  LET stands(k) == k = Len(segs) \/ SegEnd(segs[k]) > SegEnd(segs[Len(segs)]) - VoiceOverlap
      first == CHOOSE k \in 1..Len(segs) : stands(k) /\ \A j \in 1..(k - 1) : ~stands(j)
  IN SubSeq(segs, first, Len(segs))

\* _mark_new, and process_chunk once the window is full.
EmittedKey(e) == <<e.audio, e.text>>
WindowFull(window) == window # <<>> /\ SegEnd(window[Len(window)]) - window[1].start >= VoiceWindow
NewOnes(entities) == {e \in entities : EmittedKey(e) \notin emittedKeys}
VoiceDetected(window) ==
  IF WindowFull(window) THEN NewOnes({MapEntity(window, z) : z \in Secrets(window)}) ELSE {}

\* mute_frame, beep_frame: a range covers positions of the chunk's own bytes,
\* cut to its length (_range_to_bytes).
UnitsIn(range) == {u \in 0..(Dur - 1) : range[1] <= u /\ u < range[2]}
\* sanitize: merging ranges that meet leaves what they cover as it is.
Muted(entities) == UNION {UnitsIn(e.audio) : e \in entities}
\* sanitize_text: the window's offsets, taken as positions in the chunk's text.
Masked(text, entities) == {i \in DOMAIN text : \E e \in entities : e.start < i /\ i <= e.end}

OpenVoice ==
  /\ stream = "new"
  /\ stream' = "open"
  /\ UNCHANGED <<heard, segments, emittedKeys, spoken, inspected, sent>>

\* One round of process_stream: transcribe, process_chunk, sanitize, yield.
HearChunk(text) ==
  LET seg == [text |-> text, start |-> heard * Dur]
      window == IF text = <<>> THEN segments ELSE Append(segments, seg)
      found == VoiceDetected(window)
  IN /\ stream = "open" /\ heard < MaxVoiceChunks
     /\ heard' = heard + 1
     /\ segments' = IF WindowFull(window) THEN Pruned(window) ELSE window
     /\ emittedKeys' = emittedKeys \union {EmittedKey(e) : e \in found}
     /\ spoken' = IF text = <<>> THEN spoken ELSE Append(spoken, seg)
     /\ inspected' = IF WindowFull(window) THEN Len(spoken') ELSE inspected
     /\ sent' = Append(sent, [start |-> seg.start, text |-> text,
                              muted |-> Muted(found), masked |-> Masked(text, found)])
     /\ UNCHANGED stream

\* The connector's chunks end, or a stage raises: nothing more is yielded.
EndVoice ==
  /\ stream = "open"
  /\ stream' = "ended"
  /\ UNCHANGED <<heard, segments, emittedKeys, spoken, inspected, sent>>

VoiceNext == OpenVoice \/ (\E t \in Transcripts : HearChunk(t)) \/ EndVoice

\* The segments a secret lies in before its last one reach back less than the
\* overlap, or it lies in two neighbouring segments at most.
WithinOverlap(segs, z) ==
  LET first == z[1][1]  last == z[2][1]
  IN first >= last - 1 \/ SegEnd(segs[last - 1]) - SegEnd(segs[first]) < VoiceOverlap
Reported(segs, z) == <<AudioOf(segs, z), SpanText(segs, z[1], z[2])>>

\* However the chunks cut the speech, with silence among them or not, a secret
\* that ends before the last detection has been reported, with its text and the
\* audio range its own chunks give it, if what precedes its last segment lies
\* within the overlap: no detection on the way has pruned its beginning.
EverySecretFound ==
  \A z \in Secrets(spoken) :
    z[2][1] <= inspected /\ WithinOverlap(spoken, z) => Reported(spoken, z) \in emittedKeys

\* Does not hold: a secret spread over more than that is pruned apart.
LongSecretFound ==
  \A z \in Secrets(spoken) : z[2][1] <= inspected => Reported(spoken, z) \in emittedKeys
\* Does not hold: chunks handed on before the window was full are clear, and
\* ranges of later chunks are applied from the chunk's beginning.
SpokenSecretsMuted ==
  \A z \in Secrets(spoken) : z[2][1] <= inspected /\ WithinOverlap(spoken, z) =>
    \A c \in Range(sent), u \in 0..(Dur - 1) :
      c.start + u \in AudioOf(spoken, z)[1]..(AudioOf(spoken, z)[2] - 1) => u \in c.muted
\* Does not hold, for the same two reasons, of the text output.
SpokenSecretsMasked ==
  stream = "ended" /\ inspected = Len(spoken) =>
    \A c \in Range(sent) : \A i \in DOMAIN c.text : \A j \in i..Len(c.text) :
      SubSeq(c.text, i, j) \in SecretForms => i..j \subseteq c.masked

(***************************************************************************)
(* The speech-to-text engine: the model is loaded once, under a lock with  *)
(* a second look, by whichever transcription comes first; close() may come *)
(* at any moment.  Texts go to the transcript buffer by time stamp.        *)
(***************************************************************************)
CONSTANTS Listeners,    \* concurrent calls of transcribe()
          AudioStamps,  \* time stamps of audio chunks
          MaxSegments,  \* TranscriptBuffer.max_chunks
          MaxTexts      \* bound on the texts transcribed
VARIABLES sttModel,     \* _model is set
          sttClosed,    \* _closed
          loadLock,     \* who holds _load_lock (a set)
          hearing,      \* [Listeners -> [step, stamp]]
          modelLoads,        \* number of models loaded
          transcript,   \* TranscriptBuffer._segments: <<stamp, sequence>> pairs
          texts         \* every pair added (history)
sttVars == <<sttModel, sttClosed, loadLock, hearing, modelLoads, transcript, texts>>

ASSUME SttAssumption == MaxSegments \in Nat \ {0} /\ AudioStamps \subseteq Nat

SttInit ==
  /\ sttModel = FALSE /\ sttClosed = FALSE /\ loadLock = {} /\ modelLoads = 0
  /\ hearing = [l \in Listeners |-> [step |-> "idle", stamp |-> 0]]
  /\ transcript = <<>> /\ texts = <<>>

\* transcribe up to the first await: _ensure_open, _load_model's first look.
Transcribe(l, t) ==
  /\ hearing[l].step = "idle" /\ ~sttClosed
  /\ Len(texts) < MaxTexts
  /\ hearing' = [hearing EXCEPT ![l] = [step |-> IF sttModel THEN "running" ELSE "waiting", stamp |-> t]]
  /\ UNCHANGED <<sttModel, sttClosed, loadLock, modelLoads, transcript, texts>>

\* The lock is acquired and the model looked at again.
TakeLock_NoLook(l) ==
  /\ hearing[l].step = "waiting" /\ loadLock = {}
  /\ loadLock' = {l}
  /\ hearing' = [hearing EXCEPT ![l].step = "loading"]
  /\ UNCHANGED <<sttModel, sttClosed, modelLoads, transcript, texts>>
TakeLock(l) ==
  /\ hearing[l].step = "waiting" /\ loadLock = {}
  /\ loadLock' = IF sttModel THEN {} ELSE {l}
  /\ hearing' = [hearing EXCEPT ![l].step = IF sttModel THEN "running" ELSE "loading"]
  /\ UNCHANGED <<sttModel, sttClosed, modelLoads, transcript, texts>>

ModelLoaded(l) ==
  /\ hearing[l].step = "loading"
  /\ sttModel' = TRUE /\ modelLoads' = modelLoads + 1 /\ loadLock' = {}
  /\ hearing' = [hearing EXCEPT ![l].step = "running"]
  /\ UNCHANGED <<sttClosed, transcript, texts>>
LoadFails(l) ==
  /\ hearing[l].step = "loading"
  /\ loadLock' = {}
  /\ hearing' = [hearing EXCEPT ![l].step = "idle"]
  /\ UNCHANGED <<sttModel, sttClosed, modelLoads, transcript, texts>>

EarlierText(a, b) == a[1] < b[1] \/ (a[1] = b[1] /\ a[2] < b[2])
InTime(pairs) == Sorted(pairs, {p \in pairs \X pairs : EarlierText(p[1], p[2])})

\* add_chunk: sorted by time stamp, the oldest dropped past the limit.
AddChunk_DropsLast(buffer, pair) ==
  LET all == InTime(Range(buffer) \union {pair}) IN SubSeq(all, 1, Min({Len(all), MaxSegments}))
AddChunk(buffer, pair) ==
  LET all == InTime(Range(buffer) \union {pair})
  IN SubSeq(all, Max({1, Len(all) - MaxSegments + 1}), Len(all))

\* The model has run: a text goes to the buffer, silence does not.
Heard(l) ==
  /\ hearing[l].step = "running"
  /\ Len(texts) < MaxTexts
  /\ hearing' = [hearing EXCEPT ![l].step = "idle"]
  /\ LET pair == <<hearing[l].stamp, Len(texts) + 1>>
     IN texts' = Append(texts, pair) /\ transcript' = AddChunk(transcript, pair)
  /\ UNCHANGED <<sttModel, sttClosed, loadLock, modelLoads>>
HeardNothing(l) ==
  /\ hearing[l].step = "running"
  /\ hearing' = [hearing EXCEPT ![l].step = "idle"]
  /\ UNCHANGED <<sttModel, sttClosed, loadLock, modelLoads, transcript, texts>>

CloseEngine ==
  /\ ~sttClosed
  /\ sttClosed' = TRUE /\ sttModel' = FALSE
  /\ UNCHANGED <<loadLock, hearing, modelLoads, transcript, texts>>

SttNext == \/ \E l \in Listeners : \/ \E t \in AudioStamps : Transcribe(l, t)
                                   \/ TakeLock(l) \/ ModelLoaded(l) \/ LoadFails(l)
                                   \/ Heard(l) \/ HeardNothing(l)
           \/ CloseEngine

\* However many transcriptions arrive at once, an engine that is not closed
\* has loaded one model at most.
OneModelLoaded == ~sttClosed => modelLoads <= 1

\* The transcript buffer holds the newest texts by time stamp, in order, in
\* whatever order the concurrent transcriptions ended.
TranscriptHoldsNewest ==
  /\ Len(transcript) = Min({Len(texts), MaxSegments}) /\ Range(transcript) \subseteq Range(texts)
  /\ \A i, j \in DOMAIN transcript : i < j => EarlierText(transcript[i], transcript[j])
  /\ \A x \in Range(texts) \ Range(transcript) : \A i \in DOMAIN transcript : EarlierText(x, transcript[i])

\* Does not hold: a load that ends after close() puts the model back.
ClosedHoldsNoModel == sttClosed /\ (\A l \in Listeners : hearing[l].step = "idle") => ~sttModel

(***************************************************************************)
(* A connector: its life, and the fragments of a WebSocket stream.  The    *)
(* last fragment of a message is marked final; fragments may overtake each *)
(* other, which is why they carry an index.                                *)
(***************************************************************************)
CONSTANTS MaxConnections, \* VoiceConfig.max_connections
          Fragments,    \* number of fragments of a message
          MaxMessages,  \* bound on the messages of the stream
          MaxConnects   \* bound on starts, reconnects and timeouts
VARIABLES channelOn,    \* running
          channels,     \* _active_connections
          connects,     \* starts, reconnects and timeouts so far
          flying,       \* fragments sent and not received: <<message, index>>
          kept,         \* _fragments of the stream, in order of arrival
          joined,       \* audio delivered: sequences of fragments
          messages      \* messages sent so far
channelVars == <<channelOn, channels, connects, flying, kept, joined, messages>>

ASSUME ChannelAssumption == Fragments \in Nat \ {0}

ChannelInit ==
  /\ channelOn = FALSE /\ channels = 0 /\ connects = 0
  /\ flying = {} /\ kept = <<>> /\ joined = <<>> /\ messages = 0

\* start(), and reconnect(), which only counts and starts: refused at the limit.
Connect ==
  /\ connects < MaxConnects /\ channels < MaxConnections
  /\ connects' = connects + 1
  /\ channelOn' = TRUE
  /\ channels' = channels + 1
  /\ UNCHANGED <<flying, kept, joined, messages>>
IdleTimeout ==
  /\ channelOn /\ connects < MaxConnects
  /\ connects' = connects + 1
  /\ channelOn' = FALSE
  /\ UNCHANGED <<channels, flying, kept, joined, messages>>
StopChannel ==
  /\ channelOn
  /\ channelOn' = FALSE /\ channels' = 0
  /\ UNCHANGED <<connects, flying, kept, joined, messages>>

SendMessage ==
  /\ messages < MaxMessages
  /\ messages' = messages + 1
  /\ flying' = flying \union {<<messages + 1, i>> : i \in 1..Fragments}
  /\ UNCHANGED <<channelOn, channels, connects, kept, joined>>

\* The fragments kept, by index; equal indices stay in order of arrival.
Joined_Arrival(frags) == frags
Joined(frags) ==
  LET earlier == {p \in (DOMAIN frags) \X (DOMAIN frags) :
                    frags[p[1]][2] < frags[p[2]][2] \/ (frags[p[1]][2] = frags[p[2]][2] /\ p[1] < p[2])}
      order == Sorted(DOMAIN frags, earlier)
  IN [k \in DOMAIN frags |-> frags[order[k]]]

\* deliver_audio: the callback takes the chunk, or wait_for gives up on it.
DeliverAudio(data) == joined' = Append(joined, data) \/ UNCHANGED joined

\* receive_fragment: kept, or, on the final one, joined and delivered.
ReceiveFragment(f) ==
  /\ f \in flying
  /\ flying' = flying \ {f}
  /\ IF f[2] = Fragments
     THEN kept' = <<>> /\ DeliverAudio(Joined(Append(kept, f)))
     ELSE kept' = Append(kept, f) /\ UNCHANGED joined
  /\ UNCHANGED <<channelOn, channels, connects, messages>>

ChannelNext == Connect \/ IdleTimeout \/ StopChannel \/ SendMessage \/ \E f \in flying : ReceiveFragment(f)

\* The three parts beside each other.
speechVars == <<voiceVars, sttVars, channelVars>>
SpeechInit == VoiceInit /\ SttInit /\ ChannelInit
SpeechNext == \/ VoiceNext /\ UNCHANGED <<sttVars, channelVars>>
              \/ SttNext /\ UNCHANGED <<voiceVars, channelVars>>
              \/ ChannelNext /\ UNCHANGED <<voiceVars, sttVars>>
SpeechSpec == SpeechInit /\ [][SpeechNext]_speechVars

\* A message delivered from the right number of fragments of its own is the
\* message that was sent, even when its fragments overtook each other.
OwnFragmentsJoinInOrder ==
  \A d \in Range(joined) :
    (Len(d) = Fragments /\ \A i, j \in DOMAIN d : d[i][1] = d[j][1])
    => \A i \in DOMAIN d : d[i][2] = i

\* No part of the voice path loses or reorders what it is given: the window,
\* the model, the transcript and the connection.
VoiceSound ==
    /\ EverySecretFound
    /\ OneModelLoaded
    /\ TranscriptHoldsNewest
    /\ OwnFragmentsJoinInOrder

\* Does not hold: a final fragment that overtakes another ends the message,
\* and the late fragment becomes part of the next one.
DeliveredWhole == \A d \in Range(joined) : Len(d) = Fragments /\ \A i \in DOMAIN d : d[i] = <<d[1][1], i>>
\* Does not hold: an idle timeout gives no connection back, so reconnecting
\* uses up the limit.
ReconnectKeepsRoom == ~channelOn => channels < MaxConnections
============================================================================
