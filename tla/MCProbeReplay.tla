--------------------------- MODULE MCProbeReplay ---------------------------
(***************************************************************************)
(* ProbeReplay on small instances: values of its constants for TLC.        *)
(***************************************************************************)
EXTENDS ProbeReplay, TLC

a == Char("a")
b == Char("b")

\* With a limit of 6: one character, another, five at once, and the marks, one
\* behind a character.
Pieces == {<<a>>, <<b>>, <<a, a, a, a, a>>, <<a, DATA>>, <<EVENT>>}

Says(role, parts) == [role |-> <<Char(role)>>, content |-> parts]

Ping == <<Says("user", <<TextPart(<<a, b>>)>>)>>
PingInParts == <<Says("user", <<TextPart(<<a>>), TextPart(<<b>>)>>)>>
SystemPing == <<Says("system", <<TextPart(<<a, b>>)>>)>>
TwoPings == <<Says("user", <<TextPart(<<a>>)>>), Says("user", <<TextPart(<<b>>)>>)>>

\* One message that spells the separator and the next message's role.
OneAsTwo ==
    <<Says("user", <<TextPart(<<a, Char("|"), Char("user"), Char(":"), b>>)>>)>>

\* The same prompt, with a part of the text in the role.
LongRole ==
    <<[role |-> <<Char("user"), Char(":"), a>>, content |-> <<TextPart(<<b>>)>>]>>
ShortRole == <<Says("user", <<TextPart(<<a, Char(":"), b>>)>>)>>
PingWithImage == <<Says("user", <<TextPart(<<a, b>>), ImagePart("i")>>)>>

Asks(field, streamed, messages) ==
    [size |-> 1, model |-> "m", stream |-> streamed, field |-> field, messages |-> messages]

Bodies ==
    {Asks(f, s, Ping) : f \in {"messages", "input"}, s \in BOOLEAN}
    \cup {Asks("messages", FALSE, m) :
            m \in {PingInParts, SystemPing, TwoPings, OneAsTwo, LongRole, ShortRole,
                   PingWithImage}}
    \cup {[Asks("input", TRUE, Ping) EXCEPT !.size = 2], Asks("input", FALSE, <<>>),
          [Asks("messages", FALSE, Ping) EXCEPT !.model = "n"],
          Asks("none", FALSE, <<>>)}

Streams == {Asks(f, TRUE, Ping) : f \in {"messages", "input"}}
=============================================================================
