---------------------------- MODULE HttpMessage ----------------------------
(***************************************************************************)
(* Request::parse() and header lookup, over text as the sequence of its    *)
(* lines.  Of a line the parser sees four things: its words, which count   *)
(* in the request line; its header, <<name, value>> around the first       *)
(* colon, both trimmed, or <<>> without a colon; whether it is empty; and  *)
(* how it ends.  A line at the end of the text that has no newline parses  *)
(* like one that has, unless it is empty and does not count at all.        *)
(*                                                                         *)
(* Left out: the bytes of names, values and the body, and carriage returns *)
(* anywhere but before a newline.                                          *)
(***************************************************************************)
EXTENDS Integers, Sequences, FiniteSetsExt, SequencesExt

CONSTANT LowerCase      \* of every header name

Line(words, header, ending) ==
    [words |-> words, header |-> header, empty |-> FALSE, ending |-> ending]

EmptyLine(ending) ==
    [words |-> <<>>, header |-> <<>>, empty |-> TRUE, ending |-> ending]

NoValue == "NoValue"

Failed(error) == [error |-> error]

IsRequest(r) == "error" \notin DOMAIN r

-----------------------------------------------------------------------------
\* Where "\r\n\r\n" occurs: the empty lines that it ends in.
CrLfBlanks(text) ==
    {i \in 2 .. Len(text) :
        text[i].empty /\ text[i].ending = "CRLF" /\ text[i - 1].ending = "CRLF"}

\* Where "\n\n" occurs: the line before may end in either way.
LfBlanks(text) == {i \in 2 .. Len(text) : text[i].empty /\ text[i].ending = "LF"}

\* Mutant: only "\r\n\r\n" ends the head.
BlankCrLfOnly(text) ==
    IF CrLfBlanks(text) # {} THEN Min(CrLfBlanks(text)) ELSE Len(text) + 1

\* Mutant: the last one ends the head.
LastBlank(text) ==
    CASE CrLfBlanks(text) # {} -> Max(CrLfBlanks(text))
      [] CrLfBlanks(text) = {} /\ LfBlanks(text) # {} -> Max(LfBlanks(text))
      [] CrLfBlanks(text) = {} /\ LfBlanks(text) = {} -> Len(text) + 1

\* The blank line between head and body; the first "\r\n\r\n" wins over any
\* "\n\n".  Without one all of the text is head.
Blank(text) ==
    CASE CrLfBlanks(text) # {} -> Min(CrLfBlanks(text))
      [] CrLfBlanks(text) = {} /\ LfBlanks(text) # {} -> Min(LfBlanks(text))
      [] CrLfBlanks(text) = {} /\ LfBlanks(text) = {} -> Len(text) + 1

Body(text) == SubSeq(text, Blank(text) + 1, Len(text))

\* The headers of the lines up to each one; empty lines are skipped.
HeadersUpTo(text) ==
    LET headers[n \in 1 .. Len(text)] ==
            IF n = 1 THEN <<>>
            ELSE IF text[n].empty THEN headers[n - 1]
            ELSE Append(headers[n - 1], text[n].header)
    IN  headers

Headers(text) == HeadersUpTo(text)[Blank(text) - 1]

Parse(text) ==
    LET words   == text[1].words
        headers == Headers(text)
    IN  CASE text = <<>> \/ words = <<>> -> Failed("Empty")
          [] text # <<>> /\ Len(words) = 1 -> Failed("MalformedRequestLine")
          [] OTHER ->
                IF \E i \in DOMAIN headers : headers[i] = <<>>
                THEN Failed("MalformedHeader")
                ELSE [method  |-> words[1],
                      path    |-> words[2],
                      version |-> IF Len(words) > 2 THEN words[3] ELSE "HTTP/1.1",
                      headers |-> headers,
                      body    |-> Body(text)]

-----------------------------------------------------------------------------
\* The header lines of a request that are called name, in any case.
Called(r, name) ==
    {i \in DOMAIN r.headers : LowerCase[r.headers[i][1]] = LowerCase[name]}

\* Mutant: a later header overrides an earlier one.
LastHeader(r, name) ==
    IF Called(r, name) = {} THEN NoValue ELSE r.headers[Max(Called(r, name))][2]

Header(r, name) ==
    IF Called(r, name) = {} THEN NoValue ELSE r.headers[Min(Called(r, name))][2]
=============================================================================
