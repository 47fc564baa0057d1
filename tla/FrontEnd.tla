------------------------------ MODULE FrontEnd ------------------------------
(***************************************************************************)
(* From text to a service: the text of a request arrives line by line at a *)
(* router whose table is complete, and is parsed as far as it has come.    *)
(* A program that embeds the proxy does this with Request::parse() before  *)
(* it calls handle(), which routes what was parsed.                        *)
(*                                                                         *)
(* Serving is the set of tables texts arrive under; MaxLines bounds them.  *)
(***************************************************************************)
EXTENDS Router, HttpMessage

CONSTANTS Lines, MaxLines, StickyHeader, Serving

ASSUME FrontEndAssumption ==
    /\ MaxLines \in Nat
    /\ \A line \in Lines : \E ending \in {"CRLF", "LF"} :
          line = EmptyLine(ending) \/ line = Line(line.words, line.header, ending)

VARIABLE text

frontVars == <<routes, text>>

Parsed == Parse(text)

\* What the router and the sticky key look at.
Request(r) ==
    [host    |-> IF Header(r, "Host") = NoValue THEN NoHost ELSE Header(r, "Host"),
     path    |-> r.path,
     session |-> Header(r, StickyHeader)]

FrontInit == Init /\ text = <<>>

AddRoute == text = <<>> /\ Add /\ UNCHANGED text

Receive ==
    /\ routes \in Serving
    /\ Len(text) < MaxLines
    /\ \E line \in Lines : text' = Append(text, line)
    /\ UNCHANGED routes

FrontSpec == FrontInit /\ [][AddRoute \/ Receive]_frontVars

-----------------------------------------------------------------------------
Ended(lines, ending) == [i \in DOMAIN lines |-> [lines[i] EXCEPT !.ending = ending]]

(***************************************************************************)
(* Line endings do not matter as long as they are all the same: a text     *)
(* ended by "\n" throughout parses like the same text ended by "\r\n", to  *)
(* the same error or the same request (http.rs parse).                     *)
(***************************************************************************)
EndingsAreAlike ==
    LET lf == Parse(Ended(text, "LF"))
    IN  Parse(Ended(text, "CRLF")) =
            IF IsRequest(lf) THEN [lf EXCEPT !.body = Ended(@, "CRLF")] ELSE lf

\* The blank line after the head has arrived, and line does not undo that: a
\* "\n\n" holds only as long as there is no "\r\n\r\n" anywhere.
Sealed(line) ==
    \/ CrLfBlanks(text) # {}
    \/ LfBlanks(text) # {} /\ CrLfBlanks(Append(text, line)) = {}

(***************************************************************************)
(* The body is opaque: whatever lines follow the blank line, also empty    *)
(* ones, ones like headers and ones like nothing, they are appended to the *)
(* body and change neither the rest of the request nor the error, except   *)
(* for the later "\r\n\r\n" that Sealed excludes (http.rs parse).          *)
(***************************************************************************)
BodyIsOpaque ==
    [][\A line \in Lines :
          text' = Append(text, line) /\ Sealed(line) =>
              Parsed' = IF IsRequest(Parsed)
                        THEN [Parsed EXCEPT !.body = Append(@, line)] ELSE Parsed]_frontVars

(***************************************************************************)
(* The first of several headers of one name decides: once a Host header    *)
(* has arrived, in whatever spelling, no later line changes the service    *)
(* the request is routed to, and once the sticky header has, no later line *)
(* changes the session; and a text in error stays in error unless it was   *)
(* empty (http.rs header, parse, router.rs route).                         *)
(***************************************************************************)
FirstHeadersDecide ==
    [][LET r == Request(Parsed)
           s == Request(Parsed')
       IN  /\ IsRequest(Parsed) /\ IsRequest(Parsed') =>
                  /\ r.host # NoHost => RouteFor(routes, s) = RouteFor(routes, r)
                  /\ r.session # NoValue => s.session = r.session
           /\ ~IsRequest(Parsed) /\ text # <<>> => Parsed' = Parsed]_frontVars
=============================================================================
