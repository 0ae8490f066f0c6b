------------------------------ MODULE Parsers ------------------------------
(***************************************************************************)
(* The generated parsers at work: httpclient_parser_execute and            *)
(* http_parser_execute with the callbacks of HttpParser.cc, and            *)
(* URI::Create.  An HTTP parser is called once per read with what the read *)
(* returned; its marks are offsets into that buffer and are set to 0 at    *)
(* every call.  Its state is kept, except for the size line of a chunk     *)
(* (execute with chunck = true), where every call starts over.  A read may *)
(* end behind any piece.                                                   *)
(***************************************************************************)
EXTENDS Integers, Sequences, SequencesExt, FiniteSets, FiniteSetsExt, TLC

Resp == INSTANCE ResponseGrammar
Req  == INSTANCE RequestGrammar
Uri  == INSTANCE UriGrammar

CONSTANTS
  ResponseLines,   \* lines a server may send, as sequences of pieces
  SizeLines,       \* size lines of a chunk
  RequestLines,    \* first lines a client may send
  RequestFields,   \* the lines it may send behind the first one
  UriPieces,       \* pieces a URI is made of
  UriStarts,       \* how a URI may start
  MaxLines,        \* lines of a response
  MaxFields,       \* lines of a request behind the first one
  MaxCuts,         \* reads of a message, less one
  MaxPieces        \* pieces of a URI behind its start

VARIABLES
  lang,    \* which parser; "chunk" is the response parser called for a size
           \* line, "relaxed" the request parser with uri_relaxed set
  text,    \* everything read so far
  todo,    \* the rest of the line that is being sent
  left,    \* how many more lines, or pieces of a URI, may come
  cuts,    \* where the reads began
  cs,      \* parser->cs, or "throw" after an exception in a callback, or "assert"
  marks,   \* mark, field_start, field_len, query_start and body_start
  got      \* what the callbacks delivered

vars == <<lang, text, todo, left, cuts, cs, marks, got>>

LF == "LF"
CR == "CR"
SP == " "
EOF == "EOF"
NULL == -1

Requests == {"request", "relaxed"}
Http     == {"response", "chunk"} \cup Requests
Stopped  == {"error", "throw", "assert", "done", "349", "accept"}

\* The automaton of each parser, indexed by state.
Table == [response |-> Resp!ByState(Resp!ResponseRules),
          chunk |-> Resp!ByState(Resp!ResponseRules), request |-> Req!ByState(Req!RequestRules(FALSE)),
          relaxed |-> Req!ByState(Req!RequestRules(TRUE)), uri |-> Uri!ByState(Uri!UriRules)]
ASSUME GrammarsAssumption == \A l \in DOMAIN Table : Resp!Deterministic(Table[l])

\* The parts a message or a URI can have; an empty one has not been set.
PartNames == {"version", "status", "reason", "size", "length", "method", "path",
              "query", "fragment", "uri", "scheme", "userinfo", "host", "port"}
Flags == {"chunked", "close", "error"}

\* Where the current buffer begins, and the offset of the piece being read.
Base == Max(cuts)
P == Len(text) - Base
Span(i, j) == SubSeq(text, Base + i + 1, Base + j)

\* A parser between two pieces, as the actions change it.
Now == [marks |-> marks, got |-> got, threw |-> FALSE]
SetMark(st, m, value) == [st EXCEPT !.marks[m] = value]
SetPart(st, part, value) == [st EXCEPT !.got.parts[part] = value]
SetFlag(st, flag) == [st EXCEPT !.got.flags = @ \cup {flag}]

\* MARK(...): the actions that note the current offset.
Marking == [mark |-> "mark", marku |-> "mark", markh |-> "mark", start_value |-> "mark",
            start_field |-> "start", start_query |-> "query"]

\* The callbacks of HttpParser.cc that store what is between mark and p.
Storing == [reason_phrase |-> "reason", status_code |-> "status", content_len |-> "length",
            request_path |-> "path", request_uri |-> "uri", fragment |-> "fragment"]

\* on_request_version and on_response_version: strncmp over the length of the
\* span, so that an empty span counts as HTTP/1.1.
Version(st, span) ==
  LET known == {<<"HTTP/", "1", ".", d>> : d \in {"0", "1"}} \cup {<<v>> : v \in Req!Versions}
  IN IF \E v \in known : IsPrefix(span, v) THEN SetPart(st, "version", span) ELSE SetFlag(st, "error")

\* on_request_method: here "A" starts a method that CharsToHttpMethod knows.
Method(st, span) ==
  IF IsPrefix(<<"A">>, span) THEN SetPart(st, "method", span) ELSE SetFlag(st, "error")

\* on_request_query: query_start survives a call, so that the length may be
\* negative, which std::string does not take.
QueryString(st) ==
  IF st.marks.query > P THEN [st EXCEPT !.threw = TRUE]
  ELSE SetPart(st, "query", Span(st.marks.query, P))

\* on_request_http_field and on_response_http_field: a field without a name is
\* dropped.
HttpField(st) ==
  LET field == [name |-> Span(st.marks.start, st.marks.start + st.marks.len),
                value |-> Span(st.marks.mark, P),
                line |-> Cardinality({i \in 1 .. Len(text) : text[i] = LF}) + 1]
  IN IF st.marks.len = 0 THEN st ELSE [st EXCEPT !.got.fields = Append(@, field)]

\* The actions of uri.rl that save a part: a string built from a null mark
\* throws, an empty port is not set, and all but save_host clear the mark.
SaveUri(st, act) ==
  LET part == [save_scheme |-> "scheme", save_port |-> "port", save_userinfo |-> "userinfo",
               save_host |-> "host", save_path |-> "path", save_query |-> "query",
               save_fragment |-> "fragment"][act]
      null == st.marks.mark = NULL
      skip == (act \in {"save_userinfo", "save_host"} /\ null)
              \/ (act = "save_port" /\ st.marks.mark = P)
      set  == IF skip THEN st ELSE SetPart(st, part, Span(st.marks.mark, P))
  IN IF null /\ ~skip THEN [st EXCEPT !.threw = TRUE]
     ELSE IF act = "save_host" THEN set ELSE SetMark(set, "mark", NULL)

\* One action of a rule.
Effect(st, act) ==
  LET span == Span(st.marks.mark, P) IN
  CASE st.threw -> st
    [] act \in DOMAIN Marking -> SetMark(st, Marking[act], P)
    [] act = "write_field" -> SetMark(st, "len", P - st.marks.start)
    [] act \in DOMAIN Storing -> SetPart(st, Storing[act], span)
    [] act = "http_version" -> Version(st, span)
    [] act = "request_method" -> Method(st, span)
    [] act = "query_string" -> QueryString(st)
    [] act \in {"http_field", "header_value"} -> HttpField(st)
    [] act = "chunk_size" -> SetFlag(SetPart(st, "size", span), "chunked")
    [] act \in Flags -> SetFlag(st, act)
    [] act \in {"header_done", "done"} -> SetMark(st, "body", P + 1)
    [] act \in {"xml", "json"} -> st
    [] OTHER -> SaveUri(st, act)

-----------------------------------------------------------------------------

Init ==
  /\ lang \in Http \cup {"uri"}
  /\ text = << >>
  /\ todo \in (CASE lang = "response" -> {<< >>}
                 [] lang = "chunk" -> SizeLines
                 [] lang \in Requests -> RequestLines
                 [] OTHER -> UriStarts)
  /\ left = CASE lang = "uri" -> MaxPieces
              [] lang = "response" -> MaxLines
              [] lang = "chunk" -> 0
              [] OTHER -> MaxFields
  /\ cuts = {0}
  /\ cs = "start"
  /\ marks = [mark |-> IF lang = "uri" THEN NULL ELSE 0, start |-> 0, len |-> 0, query |-> 0, body |-> 0]
  /\ got = [parts |-> [p \in PartNames |-> << >>], fields |-> << >>, flags |-> {}]

Running == cs \notin Stopped /\ "error" \notin got.flags

\* The empty line below an empty Connection, Transfer-Encoding or
\* Content-Length line ends the call in a state that is not is_finished.
Returned == cs \in {"121", "122", "123"} /\ P > 0

\* The automaton reads one piece.
Read(piece) ==
  LET rules == Resp!Applicable(Table[lang], cs, piece)
      end   == LET r == CHOOSE r \in rules : TRUE IN FoldLeft(Effect, Now, r.do)
  IN IF rules = {}
       THEN cs' = "error" /\ UNCHANGED <<marks, got>>
       ELSE /\ cs' = IF end.threw THEN "throw" ELSE (CHOOSE r \in rules : TRUE).to
            /\ marks' = end.marks
            /\ got' = end.got

\* A piece of the current line, or of the start of a URI.
Feed ==
  /\ Running /\ ~Returned
  /\ todo # << >>
  /\ Read(Head(todo))
  /\ text' = Append(text, Head(todo))
  /\ todo' = Tail(todo)
  /\ UNCHANGED <<lang, left, cuts>>

\* The peer goes on with another line.
SendLine ==
  /\ Running
  /\ lang \in Http /\ todo = << >> /\ left > 0
  /\ todo' \in IF lang = "response" THEN ResponseLines ELSE RequestFields
  /\ left' = left - 1
  /\ UNCHANGED <<lang, text, cuts, cs, marks, got>>

\* The size line starts over: httpclient_parser_init.
Again(st) ==
  [st EXCEPT !.parts["size"] = << >>, !.flags = @ \ {"chunked", "close"}]

\* http(client)_parser_execute returns, which it may not with body_start of an
\* earlier call behind the end of its buffer, and is called again with what it
\* has left and the next read.  Behind an early return any read may end.
NextRead ==
  /\ Running
  /\ lang \in Http /\ P > 0
  /\ Cardinality(cuts) <= MaxCuts \/ marks.body > 0
  /\ cuts' = cuts \cup {Len(text)}
  /\ marks' = [marks EXCEPT !.mark = 0, !.start = 0, !.len = 0]
  /\ cs' = CASE marks.body > P -> "assert" [] lang = "chunk" -> "start" [] OTHER -> cs
  /\ got' = IF lang = "chunk" THEN Again(got) ELSE got
  /\ UNCHANGED <<lang, text, todo, left>>

InBrackets ==
  \E i \in 1 .. Len(text) : text[i] = "[" /\ \A j \in i .. Len(text) : text[j] # "]"

\* What a piece takes of the bound: an IPv6 address ends by itself and counts
\* as three pieces in all.
Cost(piece) ==
  IF piece = "[" THEN 3
  ELSE IF piece = EOF \/ (InBrackets /\ ~Contains(text, "v")) THEN 0 ELSE 1

\* Any piece of a URI.  Between brackets "a" and "1" are whole groups, so that
\* two of them do not follow each other; the end of the string comes last.
Type(piece) ==
  /\ Running
  /\ lang = "uri" /\ todo = << >>
  /\ Cost(piece) <= left
  /\ InBrackets => /\ piece \in {"a", "1", "v", ":", ".", "]"}
                   /\ ~(Last(text) \in Uri!Word /\ piece \in Uri!Word)
  /\ Read(piece)
  /\ text' = IF piece = EOF THEN text ELSE Append(text, piece)
  /\ left' = left - Cost(piece)
  /\ UNCHANGED <<lang, todo, cuts>>

Next ==
  \/ Feed
  \/ SendLine
  \/ NextRead
  \/ \E piece \in UriPieces \cup {EOF} : Type(piece)

Spec == Init /\ [][Next]_vars

-----------------------------------------------------------------------------
(* References: what a message or a URI says, read off the whole text. *)

\* Everything before, and everything behind, the first piece of a set.
Before(s, stops) == SelectInSeq(s, LAMBDA x : x \in stops) - 1
Upto(s, stops)   == IF Before(s, stops) < 0 THEN s ELSE SubSeq(s, 1, Before(s, stops))
Behind(s, stops) == IF Before(s, stops) < 0 THEN << >> ELSE SubSeq(s, Before(s, stops) + 2, Len(s))
NoBlanks(s) == LET i == SelectInSeq(s, LAMBDA x : x # SP)
               IN IF i = 0 THEN << >> ELSE SubSeq(s, i, Len(s))

Ends  == {i \in 1 .. Len(text) : text[i] = LF}
Lines == 1 .. Cardinality(Ends)
End(j)   == CHOOSE i \in Ends : Cardinality({k \in Ends : k <= i}) = j
Begin(j) == IF j = 1 THEN 1 ELSE End(j - 1) + 1
Line(j)  == Upto(SubSeq(text, Begin(j), End(j)), {CR, LF})

\* A read ended inside the line, before the CR or LF that ends it.
Torn(j) == \E b \in cuts : Begin(j) <= b /\ b < Begin(j) + Len(Line(j))

Tokens == IF lang = "response" THEN Resp!Token ELSE Req!Token
IsField(j) ==
  /\ Line(j) # << >> /\ Head(Line(j)) \in Tokens /\ Contains(Line(j), ":")
  /\ \A x \in Range(Upto(Line(j), {":"})) : x \in Tokens
Name(j)  == Upto(Line(j), {":"})
Value(j) == NoBlanks(Behind(Line(j), {":"}))

\* A target is cut at "?" and "#", and a scheme before them is not part of the
\* path.
IsScheme(s) ==
  /\ s # << >> /\ Head(s) \in Req!Letter
  /\ \A x \in Range(s) : x \in Req!AlphaNum \cup {"."}
PathOf(s) == IF Contains(s, ":") /\ IsScheme(Upto(s, {":"})) THEN Behind(s, {":"}) ELSE s
Target(s) == [path |-> PathOf(Upto(s, {"#", "?"})), query |-> Behind(Upto(s, {"#"}), {"?"}),
              fragment |-> Behind(s, {"#"})]

\* The first line, cut at its blanks.
Words(line) == <<Upto(line, {SP}), Upto(Behind(line, {SP}), {SP}), Behind(Behind(line, {SP}), {SP})>>
Named(words) ==
  IF lang = "response" THEN [version |-> words[1], status |-> words[2], reason |-> words[3]]
  ELSE [method |-> words[1], version |-> words[3]] @@ Target(words[2])
FirstLine == Named(Words(Line(1)))

\* A read that ends inside a line spoils at most that line: every other field,
\* and an untorn first line, reach the callbacks of HttpParser.cc exactly as
\* they were sent, and no line is reported twice, however the text is cut.  Only
\* a read that ends inside the query makes a callback throw.
MessageExact ==
  /\ lang \in Http /\ cs = "throw" =>
       /\ Lines = {}
       /\ \E b \in cuts : \E i \in 1 .. b : text[i] = "?"
  /\ /\ lang \in Http /\ todo = << >> /\ Lines # {} /\ text[1] \in {"HTTP/", "A"}
     /\ cs \notin {"error", "throw", "assert"} /\ "error" \notin got.flags
     => /\ ~Torn(1) => \E words \in {FirstLine} : \A part \in DOMAIN words : got.parts[part] = words[part]
        /\ \A j \in Lines \ {1} : (\A k \in 2 .. j : IsField(k)) =>
             LET here == {i \in DOMAIN got.fields : got.fields[i].line = j} IN
             /\ Cardinality(here) <= 1
             /\ ~Torn(j) => \E i \in here : got.fields[i].name = Name(j) /\ got.fields[i].value = Value(j)

\* Line k gives `value' to the field `name': on the line of the name, or on a
\* later line if everything between them is blank.
Says(k, name, value) ==
  \E j \in 2 .. k :
     /\ IsField(j) /\ Name(j) = name
     /\ IF j = k THEN Value(j) = value
        ELSE /\ Value(j) = << >> /\ NoBlanks(Line(k)) = value
             /\ \A i \in j + 1 .. k - 1 : NoBlanks(Line(i)) = << >>

\* The names whose empty line makes the parser read on behind an empty line.
Folding == {<<"con", "nection">>, <<"transfer", "-encoding">>, <<"con", "tent-length">>}

\* parser->chunked and parser->close, which decide where the body of a response
\* ends, are what the headers say, folded or not, wherever the reads ended and
\* also when an empty line did not end the headers; only such an empty line can
\* make the assertion on body_start fail.  The size of a chunk is what its line
\* says behind the last read's start.
FramingExact ==
  /\ lang = "response" /\ cs = "done" /\ text[1] = "HTTP/"
     => /\ "chunked" \in got.flags
             <=> \E k \in Lines \ {1} : Says(k, <<"transfer", "-encoding">>, <<"chunk", "ed">>)
        /\ "close" \in got.flags
             <=> \E k \in Lines \ {1} : Says(k, <<"con", "nection">>, <<"clo", "se">>)
  /\ cs = "assert" => \E j \in Lines \ {1} :
       /\ IsField(j) /\ Name(j) \in Folding /\ Value(j) = << >>
       /\ j + 1 \in Lines /\ Line(j + 1) = << >>
  /\ lang = "chunk" /\ cs = "done" =>
       got.parts["size"] = Upto(SubSeq(text, Base + 1, Len(text)), {";", CR, LF})

\* RFC 3986, appendix B, and the authority cut at "@" and at the last ":".
SchemeIn(hier, first) ==
  IF /\ first # << >> /\ Head(first) \in Uri!Letter
     /\ Len(first) < Len(hier) /\ hier[Len(first) + 1] = ":"
    THEN first ELSE << >>
SchemeOf(hier) == SchemeIn(hier, Upto(hier, {":", "/", "@", "!", "%xx", "hi"}))
RestOf(hier) == IF SchemeOf(hier) = << >> THEN hier ELSE Behind(hier, {":"})
AuthorityOf(rest) ==
  IF IsPrefix(<<"/", "/">>, rest) THEN Upto(SubSeq(rest, 3, Len(rest)), {"/"}) ELSE << >>
HostPort(authority) == IF Contains(authority, "@") THEN Behind(authority, {"@"}) ELSE authority
HostOf(hostport) ==
  IF IsPrefix(<<"[">>, hostport) THEN Append(Upto(hostport, {"]"}), "]") ELSE Upto(hostport, {":"})
PortOf(hostport) == SubSeq(hostport, Len(HostOf(hostport)) + 2, Len(hostport))

AuthorityParts(authority) ==
  [userinfo |-> IF Contains(authority, "@") THEN Upto(authority, {"@"}) ELSE << >>,
   host |-> HostOf(HostPort(authority)), port |-> PortOf(HostPort(authority))]
HierParts(scheme, rest) ==
  [scheme |-> scheme,
   path |-> IF scheme # << >> /\ IsPrefix(<<"/", "/">>, rest)
              THEN SubSeq(rest, Len(AuthorityOf(rest)) + 3, Len(rest)) ELSE << >>]
  @@ AuthorityParts(AuthorityOf(rest))
PartsOf(hier) == HierParts(SchemeOf(hier), RestOf(hier))
UriParts ==
  [query |-> Behind(Upto(text, {"#"}), {"?"}), fragment |-> Behind(text, {"#"})]
  @@ PartsOf(Upto(text, {"#", "?"}))

\* The groups of an IPv6 address, a dotted quad counting as two; "::" leaves an
\* empty one.
Groups(host) == Cardinality({i \in DOMAIN host : host[i] \in Uri!Word})
                - (IF Contains(host, ".") THEN 2 ELSE 0)
Doubled(host) == Cardinality({i \in 1 .. Len(host) - 1 : host[i] = ":" /\ host[i + 1] = ":"})

\* The parts that URI::Create has found are these.
Accepted(parts) ==
  /\ \A part \in DOMAIN parts \ {"userinfo"} : got.parts[part] = parts[part]
  /\ got.parts["userinfo"] = LET password == Behind(parts.userinfo, {":"})
                             IN IF IsPrefix(<<"1">>, password) THEN password ELSE parts.userinfo
  /\ IsPrefix(<<"[">>, parts.host) /\ ~Contains(parts.host, "v") =>
       \/ Groups(parts.host) = 8 /\ Doubled(parts.host) = 0
       \/ Groups(parts.host) < 8 /\ Doubled(parts.host) = 1

\* A scheme, and an authority that ends in ":".
EmptyPort(hier) ==
  SchemeOf(hier) # << >> /\ IsSuffix(<<":">>, AuthorityOf(RestOf(hier)))

\* URI::Create accepts a string only with the parts RFC 3986 gives it (the path
\* only behind a scheme and an authority), and an address in brackets only with
\* eight groups, or with fewer and one "::".  User information whose password
\* starts with a digit loses all before the password.  The strings that make it
\* throw have a scheme and a ":" without a port, and none of those is accepted.
UriExact ==
  lang = "uri" =>
    /\ cs = "accept" => Accepted(UriParts) /\ ~EmptyPort(Upto(text, {"#", "?"}))
    /\ cs = "throw" => EmptyPort(Upto(text, {"#", "?"}))
=============================================================================
