---------------------------- MODULE ProbeReplay ----------------------------
(***************************************************************************)
(* The way of one probe sample: a client asks, the upstream answers with a *)
(* response object or a stream, the plugin collects the text of it, and    *)
(* another request is answered from that sample.  It puts the functions of *)
(* ProbeText together the way internal/plugin/engine.go does; when it does *)
(* so, among concurrent requests, is the matter of Engine and Plugin.      *)
(*                                                                         *)
(* The upstream and the clients are external.  A stream is cut anywhere    *)
(* when it reaches the cap on accumulated text.                            *)
(***************************************************************************)
EXTENDS ProbeText, FiniteSets

CONSTANTS
    Body,       \* request bodies
    Piece,      \* texts the upstream may say at once
    MaxPieces   \* bound: events of a stream, contents of an object

IsSeq(s) == s \in Seq(Range(s))

WellFormed(body) ==
    /\ body.stream \in BOOLEAN
    /\ IsSeq(body.messages)
    /\ \A m \in Range(body.messages) :
          /\ IsSeq(m.role) /\ IsSeq(m.content)
          /\ \A part \in Range(m.content) : IsSeq(part.text)

ASSUME ProbeReplayAssumption ==
    /\ MaxPieces \in Nat
    /\ \A t \in Piece : IsSeq(t) /\ IsText(t)
    /\ \A b \in Body : WellFormed(b)

VARIABLES
    asked,      \* the body of the first request
    stage,      \* how far the sample has come
    spaced,     \* TRUE when the host keeps the line breaks of frames
    stream,     \* the stream so far
    object,     \* the response object of a request that is not streamed
    said,       \* history: the text of the upstream's reply
    plain,      \* history: of a stream, the deltas of that text without a mark
    extra,      \* history: the stream also had deltas of something else
    cut,        \* history: only part of the stream was accumulated
    sample,     \* the sample collected
    again,      \* the body of the second request
    replay      \* what the plugin answered it with

vars == <<asked, stage, spaced, stream, object, said, plain, extra, cut, sample, again, replay>>

None == [none |-> TRUE]

-----------------------------------------------------------------------------
Init ==
    /\ asked \in Body
    /\ stage = "asked"
    /\ spaced \in BOOLEAN
    /\ stream = <<>>
    /\ object = None
    /\ said = <<>>
    /\ plain = <<>>
    /\ extra = FALSE
    /\ cut = FALSE
    /\ sample = None
    /\ again = None
    /\ replay = None

(* The upstream's events. *)

Events(s) == Len(SelectSeq(s, LAMBDA x : x.tok = "open"))

\* A frame the way the host hands it over: handleStreamChunk ends it with a
\* blank line.  Responses events have a name, which may stand right before
\* "data:".
Handed(kind, text) ==
    IF Format(asked) = "chat_completions" THEN Frame(kind, text)
    ELSE IF spaced THEN NamedFrame(kind, text)
    ELSE <<EVENT>> \o Frame(kind, text)

Emit(kind, text) ==
    /\ stage = "asked" /\ asked.stream
    /\ Events(stream) < MaxPieces
    /\ stream' = stream \o Handed(kind, text)

Say(t) ==
    /\ Emit(IF Format(asked) = "responses" THEN "text_delta" ELSE "content", t)
    /\ said' = said \o t
    /\ plain' = IF Legible(t) THEN plain \o t ELSE plain
    /\ UNCHANGED <<asked, stage, spaced, object, extra, cut, sample, again, replay>>

\* A chunk without content, a delta that is no text, or a response without
\* output yet.
SayNothing ==
    /\ \/ /\ Format(asked) = "chat_completions"
          /\ Emit("no_content", <<>>)
          /\ UNCHANGED extra
       \/ /\ Format(asked) = "responses"
          /\ Emit("other_delta", <<Char("{")>>)
          /\ extra' = TRUE
       \/ /\ Format(asked) = "responses"
          /\ Emit("response", <<>>)
          /\ UNCHANGED extra
    /\ UNCHANGED <<asked, stage, spaced, object, said, plain, cut, sample, again, replay>>

\* response.completed, the last event, repeats the whole text.
Complete ==
    /\ Format(asked) = "responses"
    /\ Emit("response", said)
    /\ stage' = "completed"
    /\ UNCHANGED <<asked, spaced, object, said, plain, extra, cut, sample, again, replay>>

Respond(texts) ==
    /\ stage = "asked" /\ ~asked.stream
    /\ object' = Object(Format(asked), texts)
    /\ said' = IF texts = <<>> THEN <<>>
               ELSE IF Format(asked) = "responses" THEN Joined(texts) ELSE texts[1]
    /\ stage' = "completed"
    /\ UNCHANGED <<asked, spaced, stream, plain, extra, cut, sample, again, replay>>

-----------------------------------------------------------------------------
(* The plugin. *)

SampleOf(text, raw) ==
    IF Eligible(asked) /\ Fits(text)
    THEN [hash |-> InputHash(asked), text |-> text, raw |-> raw]
    ELSE None

\* collectStreamSample, of a stream of which the first n tokens were kept.
CollectStream(n) ==
    /\ stage \in {"asked", "completed"} /\ asked.stream
    /\ LET text == TextOfFirst(Format(asked), stream, n)
       IN  sample' = SampleOf(text, SynthesizeRawResponse(Format(asked), text))
    /\ cut' = (n < Len(stream))
    /\ stage' = "collected"
    /\ UNCHANGED <<asked, spaced, stream, object, said, plain, extra, again, replay>>

\* handleResponseInterceptAfter.
CollectResponse ==
    /\ stage = "completed" /\ ~asked.stream
    /\ sample' = SampleOf(ExtractOutputText(Format(asked), object), object)
    /\ stage' = "collected"
    /\ UNCHANGED <<asked, spaced, stream, object, said, plain, extra, cut, again, replay>>

\* handleInterceptBefore of another request finds the sample, or not.
AskAgain(b) ==
    /\ stage = "collected" /\ sample # None
    /\ again' = b
    /\ replay' = IF Eligible(b) /\ InputHash(b) = sample.hash
                 THEN FormatResponse(sample.text, b.stream, Format(b)) ELSE None
    /\ stage' = "answered"
    /\ UNCHANGED <<asked, spaced, stream, object, said, plain, extra, cut, sample>>

Next ==
    \/ \E t \in Piece : Say(t)
    \/ SayNothing
    \/ Complete
    \/ \E k \in 0..MaxPieces : \E texts \in [1..k -> Piece] : Respond(texts)
    \/ \E n \in 0..Len(stream) : CollectStream(n)
    \/ CollectResponse
    \/ \E b \in Body : AskAgain(b)

Spec == Init /\ [][Next]_vars

-----------------------------------------------------------------------------
(* Properties *)

Stages == {"asked", "completed", "collected", "answered"}

\* Every variable has its type; a sample is as long as the pool allows.
TypeOK ==
    /\ asked \in Body
    /\ stage \in Stages
    /\ {spaced, extra, cut} \subseteq BOOLEAN
    /\ IsText(said) /\ IsText(plain)
    /\ sample # None => Chars(sample.text) \in 1..MaxOutputChars /\ IsText(sample.text)
    /\ again # None => again \in Body
    /\ replay # None => sample # None

\* response.completed was handed over, and its text can be read.
Repeated == stage = "completed" /\ said # <<>> /\ Legible(said)

\* What a stream has said can be told from it: nothing but text came as deltas,
\* or the response object at the end set it right.
TextOnly == ~extra \/ Repeated

\* Whatever the protocol and however the host hands over the frames, what is
\* read from a response object is its text; what is read from a stream is the
\* text of its deltas, each once, but for the deltas that hold "data:" or
\* "event:", which are lost, as is a response.completed that holds one; what
\* is read of a stream cut anywhere, in the middle of a frame too, is how that
\* begins; and the raw response stored with a sample says what its text says
\* (probecache/engine.go:105-222, 396-423).
ReadsWhatWasSaid ==
    LET whole == IF asked.stream THEN ExtractStreamText(Format(asked), stream)
                 ELSE ExtractOutputText(Format(asked), object)
    IN  /\ stage \in {"asked", "completed"} /\ object # None => whole = said
        /\ stage \in {"asked", "completed"} /\ asked.stream /\ TextOnly => whole = plain
        /\ sample # None =>
              /\ ~asked.stream => sample.text = said
              /\ asked.stream /\ ~extra =>
                    IF cut THEN IsPrefix(sample.text, plain) ELSE sample.text = plain
              /\ ExtractOutputText(Format(asked), sample.raw) = sample.text

\* What a client reads: the documents of these kinds, text by text.
TextFrom(s, p) ==
    SubSeq(s, p + 1, (CHOOSE q \in p+1..Len(s) :
                        s[q] = CLOSE /\ \A k \in p+1..q-1 : s[k] # CLOSE) - 1)

ReadFrom(s, kinds) ==
    Joined([p \in DOMAIN s |->
              IF s[p].tok = "open" /\ s[p].kind \in kinds THEN TextFrom(s, p) ELSE <<>>])

ClientReads(answer) ==
    IF answer.stream THEN ReadFrom(answer.tokens, {"content", "text_delta"})
    ELSE Joined(answer.object.texts)

\* The question a body asks, apart from protocol, streaming and the way a
\* text is split into parts.
Question(b) ==
    <<b.model, [n \in DOMAIN b.messages |->
                  <<b.messages[n].role, ContentString(b.messages[n].content)>>]>>

TextBody(b) ==
    \A m \in Range(b.messages) :
        /\ {Char(":"), Char("|")} \cap Range(m.role) = {}
        /\ \A part \in Range(m.content) :
              part.image = "none" /\ Char("|") \notin Range(part.text)

\* "The hash must match on model+input only" (engine_test.go:102-122): among
\* requests of text that nowhere has the separator "|", nor ":" in a role, a
\* request is answered from a sample exactly when it asks the same question, in
\* either protocol, streamed or not, and its client reads the sample's text,
\* once.
ReplayAnswersTheQuestion ==
    stage = "answered" =>
        /\ TextBody(asked) /\ TextBody(again) =>
              (replay # None <=> Eligible(again) /\ Question(again) = Question(asked))
        /\ replay # None =>
              /\ ClientReads(replay) = sample.text
              /\ replay.stream = again.stream

-----------------------------------------------------------------------------
(* What the repository says and the code does not do: the properties of     *)
(* runs that must find them violated.                                       *)

\* probecache/engine.go:159, the function "concatenates the plain text output
\* of the SSE chunk history": a sample collected of a whole stream is the
\* text the stream said.
SamplesArePlainText ==
    stage = "collected" /\ asked.stream /\ sample # None /\ ~cut => sample.text = said
=============================================================================
