----------------------------- MODULE ProbeText -----------------------------
(***************************************************************************)
(* internal/probecache/engine.go: the pure functions between the bodies of *)
(* requests and responses and the pool of probe samples.                   *)
(*                                                                         *)
(* Bodies and streams are sequences of tokens.  A text is a sequence of    *)
(* characters, in which the strings "data:" and "event:" are tokens of     *)
(* their own, DATA and EVENT, because ExtractStreamText treats them as     *)
(* marks wherever it finds them.  A JSON document is an opening token,     *)
(* which says what it is, the one text ExtractStreamText looks for in it,  *)
(* and a closing token.  White space around lines and the rest of each     *)
(* document are left out.                                                  *)
(***************************************************************************)
EXTENDS Integers, Sequences, SequencesExt

CONSTANTS
    MaxInputBytes,   \* Engine.maxInputBytes
    MaxOutputChars   \* Engine.maxOutputChars

\* NewEngine replaces limits that are not positive.
ASSUME ProbeTextAssumption == {MaxInputBytes, MaxOutputChars} \subseteq Nat \ {0}

-----------------------------------------------------------------------------
(* Texts *)

Char(c) == [tok |-> "char", char |-> c]
DATA == [tok |-> "data"]
EVENT == [tok |-> "event"]

IsText(t) == \A n \in DOMAIN t : t[n].tok \in {"char", "data", "event"}

Count(t, mark) == Len(SelectSeq(t, LAMBDA x : x = mark))

\* Its length in characters: "data:" has five, and "event:" six.
Chars(t) == Len(t) + 4 * Count(t, DATA) + 5 * Count(t, EVENT)

\* Mutant of Fits: a text one character too long is taken.
Fits_OneMore(t) == Chars(t) \in 1..MaxOutputChars + 1

\* No empty text is collected and no long one.
Fits(t) == Chars(t) \in 1..MaxOutputChars

Joined(texts) == FlattenSeq(texts)

-----------------------------------------------------------------------------
(* ComputeInputHash.  A request body has a size, a model, the stream flag,  *)
(* the field that holds the conversation, and its messages: a role and a    *)
(* content of parts, of which an image has no text.  A body that is not     *)
(* JSON has no field; a conversation that is not a list has no messages.    *)

TextPart(t) == [image |-> "none", text |-> t]
ImagePart(i) == [image |-> i, text |-> <<>>]

\* extractContentString: a string content is its only part.
ContentString(content) == Joined([n \in DOMAIN content |-> content[n].text])

Prompt(m) == m.role \o <<Char(":")>> \o ContentString(m.content)

Format(body) ==
    IF body.field = "messages" THEN "chat_completions" ELSE "responses"

Eligible(body) ==
    /\ body.size <= MaxInputBytes
    /\ body.field \in {"messages", "input"}
    /\ body.messages # <<>>

\* Mutant of InputHash: the role is left out.
InputHash_NoRole(body) ==
    <<Char(body.model)>> \o
    Joined([n \in DOMAIN body.messages |->
              <<Char("|")>> \o ContentString(body.messages[n].content)])

\* What is hashed.  SHA-256 is taken to be injective.
InputHash(body) ==
    <<Char(body.model)>> \o
    Joined([n \in DOMAIN body.messages |-> <<Char("|")>> \o Prompt(body.messages[n])])

-----------------------------------------------------------------------------
(* ExtractOutputText of a response object: its first choice's content, or   *)
(* all texts of its output.                                                 *)

Object(format, texts) ==
    [is |-> IF format = "chat_completions" THEN "choices" ELSE "output", texts |-> texts]

ExtractOutputText(format, object) ==
    CASE format = "chat_completions" /\ object.is = "choices" /\ object.texts # <<>>
              -> object.texts[1]
      [] format = "responses" /\ object.is = "output" -> Joined(object.texts)
      [] OTHER -> <<>>

-----------------------------------------------------------------------------
(* ExtractStreamText *)

NL == [tok |-> "nl"]
DONE == [tok |-> "done"]

\* Kinds of documents.  Chunks of a chat completion have choices, the delta
\* of the first with or without a content ("content", "no_content").
\* Responses events have a delta, of the output text ("text_delta") or of
\* something else, the arguments of a tool or a reasoning summary
\* ("other_delta"), or a response with its output ("response").
Open(kind) == [tok |-> "open", kind |-> kind]
CLOSE == [tok |-> "close"]

Document(kind, text) == <<Open(kind)>> \o text \o <<CLOSE>>

\* What follows "data:" can be unmarshalled.
IsDocument(s) ==
    /\ Len(s) >= 2
    /\ s[1].tok = "open"
    /\ s[Len(s)] = CLOSE
    /\ IsText(SubSeq(s, 2, Len(s) - 1))

\* Mutant of Absorb: a response object adds its text to that of the deltas.
Absorb_NoReset(format, text, kind, t) ==
    CASE format = "chat_completions" /\ kind = "content" -> text \o t
      [] format = "responses" /\ kind \in {"text_delta", "other_delta", "response"} -> text \o t
      [] OTHER -> text

\* The text accumulated so far, after an event with text t.  A delta is added
\* whatever it is a delta of; a response with output takes the place of all.
Absorb(format, text, kind, t) ==
    CASE format = "chat_completions" /\ kind = "content" -> text \o t
      [] format = "responses" /\ kind \in {"text_delta", "other_delta"} -> text \o t
      [] format = "responses" /\ kind = "response" /\ t # <<>> -> t
      [] OTHER -> text

AbsorbLine(format, acc) ==
    LET data == Tail(acc.line)
    IN  IF acc.line # <<>> /\ Head(acc.line) = DATA /\ IsDocument(data)
        THEN Absorb(format, acc.text, Head(data).kind, SubSeq(data, 2, Len(data) - 1))
        ELSE acc.text

\* ReplaceAll starts a new line before every "event:" and "data:".
StartsLine(x) == x \in {EVENT, DATA}

\* ... in a text too, whose document is then torn apart and cannot be read.
Legible(t) == \A n \in DOMAIN t : ~StartsLine(t[n])

ScanStep(format, acc, x) ==
    CASE x = NL -> [line |-> <<>>, text |-> AbsorbLine(format, acc)]
      [] StartsLine(x) -> [line |-> <<x>>, text |-> AbsorbLine(format, acc)]
      [] OTHER -> [line |-> Append(acc.line, x), text |-> acc.text]

\* The text found in the first n tokens of a stream.
TextOfFirst(format, stream, n) ==
    LET scan[i \in 0..n] ==
            IF i = 0 THEN [line |-> <<>>, text |-> <<>>]
            ELSE ScanStep(format, scan[i - 1], stream[i])
    IN  AbsorbLine(format, scan[n])

ExtractStreamText(format, stream) == TextOfFirst(format, stream, Len(stream))

-----------------------------------------------------------------------------
(* FormatResponse: a sample's text as the answer to a request.              *)

Frame(kind, text) == <<DATA>> \o Document(kind, text) \o <<NL, NL>>

NamedFrame(kind, text) == <<EVENT, NL>> \o Frame(kind, text)

LastFrame == <<DATA, DONE, NL, NL>>

\* The stream it is replayed as.
Replayed(format, text) ==
    IF format = "responses"
    THEN NamedFrame("response", <<>>) \o NamedFrame("text_delta", text)
         \o NamedFrame("response", text) \o LastFrame
    ELSE Frame("no_content", <<>>) \o Frame("content", text)
         \o Frame("no_content", <<>>) \o LastFrame

\* A response object with this text alone, which is also stored as the raw
\* response of a stream.
SynthesizeRawResponse(format, text) == Object(format, <<text>>)

FormatResponse(text, stream, format) ==
    IF stream THEN [stream |-> TRUE, tokens |-> Replayed(format, text)]
    ELSE [stream |-> FALSE, object |-> SynthesizeRawResponse(format, text)]
=============================================================================
