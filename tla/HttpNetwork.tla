---------------------------- MODULE HttpNetwork ----------------------------
(***************************************************************************)
(* HttpNetwork of resonate/src/http_network.rs: the task that connects to  *)
(* the event stream of the server, parses what arrives, and connects again *)
(* with a growing delay, which is left open here.                          *)
(*                                                                         *)
(* An event is four tokens on the wire: the two halves of its one line,    *)
(* "data:" in the first, and two newlines.  Between the halves of a wide   *)
(* event lies a character of several bytes.  Chunks cut the stream         *)
(* anywhere, and a chunk that is no UTF-8 by itself is skipped.            *)
(***************************************************************************)
EXTENDS Network, SequencesExt

CONSTANTS
    Event,      \* the messages of the server
    Wide,       \* those with a character outside ASCII
    MaxEvents   \* bound: how many of them the server sends on one connection

ASSUME HttpAssumption ==
    /\ Wide \subseteq Event
    /\ MaxEvents \in Nat

VARIABLES
    sse,        \* the task: "none", "connecting", "open", "asleep", "aborted",
                \* or "ending": aborted in the middle of a chunk
    line,       \* the tokens under way on the open connection
    buffer,     \* the tokens the parser keeps
    sent, got,  \* history: the events of this connection, sent and handed on
    torn        \* history: a chunk of this connection ended inside a character

httpVars == <<sse, line, buffer, sent, got, torn>>
parser == <<buffer, got, torn>>

NL == <<"newline", 0>>
Tokens(e) == <<<<e, 1>>, <<e, 2>>, NL, NL>>

HttpInit ==
    /\ sse = "none"
    /\ line = <<>> /\ buffer = <<>>
    /\ sent = <<>> /\ got = <<>>
    /\ torn = FALSE

\* The pieces of text that a separator ends, and what follows the last one.
Unsplit == [pieces |-> <<>>, rest |-> <<>>]
Cut(s, token, sep) ==
    LET rest == Append(s.rest, token)
    IN  IF IsSuffix(sep, rest)
        THEN [pieces |-> Append(s.pieces, SubSeq(rest, 1, Len(rest) - Len(sep))),
              rest |-> <<>>]
        ELSE [s EXCEPT !.rest = rest]
Split(text, sep) ==
    LET after[n \in 0 .. Len(text)] ==
            IF n = 0 THEN Unsplit ELSE Cut(after[n - 1], text[n], sep)
    IN  after[Len(text)]

\* std::str::from_utf8 accepts the chunk.
Utf8(chunk) ==
    /\ Head(chunk)[1] \in Wide => Head(chunk)[2] = 1
    /\ Last(chunk)[1] \in Wide => Last(chunk)[2] = 2

\* The messages of an event block: of its lines, those that start with "data:" go
\* to the callbacks, and Transport::recv discards what does not parse.
IsMessage(text) == Len(text) = 2 /\ text[1][1] = text[2][1] /\ text[1][2] = 1
Messages(block) ==
    LET s == Split(block, <<NL>>)
        lines == Append(s.pieces, s.rest)
        taken[n \in 0 .. Len(lines)] ==
            IF n = 0 THEN <<>>
            ELSE IF IsMessage(lines[n]) THEN Append(taken[n - 1], lines[n][1][1])
            ELSE taken[n - 1]
    IN  taken[Len(lines)]

\* Those of one block after the other.
HandOn(before, blocks) ==
    LET all[n \in 0 .. Len(blocks)] ==
            IF n = 0 THEN before ELSE all[n - 1] \o Messages(blocks[n])
    IN  all[Len(blocks)]

\* Faulty: only what arrives together is looked at.
ForgetRest(text) == [Split(text, <<NL, NL>>) EXCEPT !.rest = <<>>]
Parse(text) == Split(text, <<NL, NL>>)

-----------------------------------------------------------------------------

HttpStart ==
    /\ Launch
    /\ sse' = "connecting"
    /\ UNCHANGED <<line, buffer, sent, got, torn>>

Connect ==
    /\ sse = "connecting"
    /\ sse' = "open" /\ line' = <<>> /\ buffer' = <<>>
    /\ sent' = <<>> /\ got' = <<>> /\ torn' = FALSE
    /\ UNCHANGED lifeVars

\* No connection, or not the status that was asked for.
Refused ==
    /\ sse = "connecting"
    /\ sse' = "asleep"
    /\ UNCHANGED <<line, sent, parser, lifeVars>>

ServerSends(e) ==
    /\ sse = "open" /\ Len(sent) < MaxEvents
    /\ line' = line \o Tokens(e)
    /\ sent' = Append(sent, e)
    /\ UNCHANGED <<sse, parser, lifeVars>>

\* The next chunk: the first n tokens under way.
Receive(n) ==
    LET chunk == SubSeq(line, 1, n)
        p == Parse(IF Utf8(chunk) THEN buffer \o chunk ELSE buffer)
    IN  /\ sse \in {"open", "ending"}
        /\ sse' = IF sse = "open" THEN sse ELSE "aborted"
        /\ line' = SubSeq(line, n + 1, Len(line))
        /\ buffer' = p.rest
        /\ got' = HandOn(got, p.pieces)
        /\ torn' = (torn \/ ~Utf8(chunk))
        /\ IF p.pieces = <<>> THEN UNCHANGED lifeVars ELSE Hear
        /\ UNCHANGED <<sent>>

\* The stream ends or fails.
Disconnect ==
    /\ sse = "open"
    /\ sse' = "asleep"
    /\ UNCHANGED <<line, sent, parser, lifeVars>>

Retry ==
    /\ sse = "asleep"
    /\ sse' = "connecting"
    /\ UNCHANGED <<line, sent, parser, lifeVars>>

\* stop aborts the task if its handle is there; it goes no further than its next
\* await, and may have a chunk to finish first.
HttpStop ==
    /\ StopTasks
    /\ sse' \in IF sse = "none" \/ "store" \in spawned THEN {sse}
                ELSE {"aborted"} \union {x \in {"ending"} : sse = "open"}
    /\ UNCHANGED <<line, sent, parser>>

HttpNext ==
    \/ HttpStart \/ HttpStop
    \/ (Store \/ ClearCallbacks) /\ UNCHANGED httpVars
    \/ Connect \/ Refused \/ Disconnect \/ Retry
    \/ \E e \in Event : ServerSends(e)
    \/ \E n \in 1 .. Len(line) : Receive(n)

-----------------------------------------------------------------------------

\* However the stream is cut into chunks, the events of a connection reach the
\* callback once each, in order, and no later than with the last of their bytes,
\* unless a cut went through a character (the buffer of stream_sse).
StreamFaithful ==
    sse = "open" /\ ~torn =>
        IF line = <<>> THEN got = sent ELSE IsPrefix(got, sent)
=============================================================================
