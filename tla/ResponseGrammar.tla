-------------------------- MODULE ResponseGrammar --------------------------
(***************************************************************************)
(* The automaton of http_response_parser.cc, which reads the status line   *)
(* and the headers of a response, or the size line of a chunk.  One state  *)
(* here stands for a run of numbered states of the generated code; the     *)
(* numbers are in the comments.  A letter stands for both its cases.       *)
(***************************************************************************)
EXTENDS Automaton

CR == "CR"
LF == "LF"
SP == " "

\* Pieces.  The keywords of the grammar come in halves, so that a read may
\* end inside one and a name may begin like a keyword and go on differently.
Keyword == {"con", "nection", "tent-length", "transfer", "-encoding",
            "clo", "se", "chunk", "ed"}
Digit   == {"0", "1"}
Hex     == Digit \cup {"f", "ed"}
Token   == Keyword \cup Hex \cup {"x", "."}
Visible == Token \cup {"HTTP/", ":", ";", "="}
Pieces  == Visible \cup {SP, CR, LF}

\* States 1-3: the first piece tells a chunk size from a status line.
ChunkSize ==
  { Rule("start", Hex,     "hex",  <<"mark">>),
    Rule("start", {"HTTP/"}, "major", <<"mark">>),
    Quiet("hex", Hex, "hex"),
    Rule("hex", {CR},  "crlf", <<"chunk_size">>),
    Rule("hex", {";"}, "ext",  <<"chunk_size">>),
    Rule("hex", {LF},  "done", <<"chunk_size", "header_done">>),
    Rule("crlf", {LF}, "done", <<"header_done">>) }

\* States 4 and 5: the name of a chunk extension.
ChunkExtension ==
  { Rule("ext", Token, "extname", <<"start_field">>),
    Quiet("extname", Token, "extname"),
    Rule("extname", {"="}, "exteq", <<"write_field", "start_value">>),
    Rule("extname", {CR},  "crlf",  <<"write_field", "start_value", "http_field">>),
    Rule("extname", {";"}, "ext",   <<"write_field", "start_value", "http_field">>),
    Rule("extname", {LF},  "done",
         <<"write_field", "start_value", "http_field", "header_done">>) }

\* States 6 and 7: its value.
ExtensionValue ==
  { Rule("exteq", Token, "extval", <<"start_value">>),
    Quiet("extval", Token, "extval"),
    Rule("extval", {CR},  "crlf", <<"http_field">>),
    Rule("extval", {";"}, "ext",  <<"http_field">>),
    Rule("extval", {LF},  "done", <<"http_field", "header_done">>) }

\* States 8-19: HTTP/d.d, the status code and the reason phrase.
StatusLine ==
  { Quiet("major", Digit, "major1"), Quiet("major1", Digit, "major1"),
    Quiet("major1", {"."}, "minor"), Quiet("minor", Digit, "minor1"),
    Quiet("minor1", Digit, "minor1"),
    Rule("minor1", {SP}, "status", <<"http_version">>),
    Rule("status", Digit, "status1", <<"mark">>),
    Quiet("status1", Digit, "status1"),
    Rule("status1", {SP}, "reason", <<"status_code">>),
    Rule("reason", Pieces \ {LF}, "reason1", <<"mark">>),
    Quiet("reason1", Pieces \ {CR, LF}, "reason1"),
    Rule("reason1", {LF}, "line", <<"reason_phrase">>),
    Rule("reason1", {CR}, "lf",   <<"reason_phrase">>) }

\* The pieces that start a header line; `first' runs before the line's own
\* actions, `c' is where a piece that starts like Connection or Content leads.
LineStart(from, first) ==
  { Rule(from, {CR}, "crlf", first),
    Rule(from, {LF}, "done", first \o <<"header_done">>),
    Rule(from, {"con"}, "con", first \o <<"start_field">>),
    Rule(from, {"transfer"}, "transfer", first \o <<"start_field">>),
    Rule(from, Token \ {"con", "transfer"}, "name", first \o <<"start_field">>) }

\* State 20: the start of a header line.
HeaderLine == LineStart("line", << >>)

\* State 21: a name that is not one of the three keywords; its end at ":".
NameRest(from, on) ==
  { Quiet(from, on, "name"), Rule(from, {":"}, "colon", <<"write_field">>) }
FieldName == NameRest("name", Token)

\* States 22-24: the value, without the blanks before it.
ValueRest(from, on) ==
  { Quiet(from, on, "value"), Rule(from, {LF}, "line", <<"http_field">>),
    Rule(from, {CR}, "lf", <<"http_field">>) }
FieldValueKeepsBlanks ==   \* mutant: a blank behind ":" starts the value
  { Rule("colon", Visible \cup {SP}, "value", <<"start_value">>),
    Rule("colon", {LF}, "line", <<"start_value", "http_field">>),
    Rule("colon", {CR}, "lf",   <<"start_value", "http_field">>),
    Quiet("lf", {LF}, "line") }
  \cup ValueRest("value", Visible \cup {SP})
FieldValue ==
  { Rule("colon", {SP}, "colon", <<"start_value">>),
    Rule("colon", Visible, "value", <<"start_value">>),
    Rule("colon", {LF}, "line", <<"start_value", "http_field">>),
    Rule("colon", {CR}, "lf",   <<"start_value", "http_field">>),
    Quiet("lf", {LF}, "line") }
  \cup ValueRest("value", Visible \cup {SP})

\* States 25-27: a name that starts with "con" may become either keyword.
ConPrefix ==
  { Quiet("con", {"nection"}, "connection"),
    Quiet("con", {"tent-length"}, "contentlength") }
  \cup NameRest("con", Token \ {"nection", "tent-length"})

\* States 28-34: the name Connection.
ConnectionName ==
  { Quiet("connection", Token, "name"),
    Rule("connection", {":"}, "conn", <<"write_field">>) }

\* States 35 and 36: its value, and the line behind an empty value.
ConnectionValue ==
  { Rule("conn", {SP}, "conn", <<"start_value">>),
    Rule("conn", {"clo"}, "valclo", <<"start_value">>),
    Rule("conn", Visible \ {"clo"}, "value", <<"start_value">>),
    Rule("conn", {LF}, "conn-lf", <<"start_value", "http_field">>),
    Rule("conn", {CR}, "conn-cr", <<"start_value", "http_field">>),
    Rule("conn-lf", Token \ {"clo", "con", "transfer"}, "name", <<"start_field">>),
    Rule("conn-lf", {"con"}, "con", <<"start_field">>),
    Rule("conn-lf", {"clo"}, "bareclo", <<"start_field">>),
    Rule("conn-lf", {"transfer"}, "transfer", <<"start_field">>),
    Quiet("conn-lf", {SP}, "conn-fold"), Quiet("conn-lf", {CR}, "conn-lfcr"),
    Rule("conn-lf", {LF}, "122", <<"header_done">>) }

\* States 37-43: the value "close" on a folded line, and the line behind it.
FoldedCloseForgets ==   \* mutant: the action of the line behind "close" is lost
  { Quiet("conn-fold", {SP, CR, LF}, "conn-fold"),
    Quiet("conn-fold", {"clo"}, "foldclo"), Quiet("foldclo", {"se"}, "close"),
    Quiet("close", {LF}, "close-lf"), Quiet("close", {CR}, "close-cr") }
  \cup LineStart("close-lf", << >>)
FoldedClose ==
  { Quiet("conn-fold", {SP, CR, LF}, "conn-fold"),
    Quiet("conn-fold", {"clo"}, "foldclo"), Quiet("foldclo", {"se"}, "close"),
    Quiet("close", {LF}, "close-lf"), Quiet("close", {CR}, "close-cr") }
  \cup LineStart("close-lf", <<"close">>)

\* States 88-94: a bare "close" below an empty Connection line.
BareClose ==
  { Quiet("close-cr", {LF}, "close-lf"),
    Quiet("conn-lfcr", {SP, CR}, "conn-fold"),
    Quiet("conn-lfcr", {"clo"}, "foldclo"),
    Rule("conn-lfcr", {LF}, "122", <<"header_done">>),
    Quiet("bareclo", {"se"}, "bareclose"),
    Quiet("bareclose", {LF}, "close-lf"), Quiet("bareclose", {CR}, "close-cr") }
  \cup NameRest("bareclo", Token \ {"se"}) \cup NameRest("bareclose", Token)

\* States 95-100: "close" on the line of the name.
InlineClose ==
  { Quiet("conn-cr", {LF}, "conn-lf"), Quiet("conn-cr", {SP, CR}, "conn-fold"),
    Quiet("conn-cr", {"clo"}, "foldclo"),
    Quiet("valclo", {"se"}, "valclose"),
    Quiet("valclose", Visible \cup {SP}, "value"),
    Rule("valclose", {LF}, "close-lf", <<"http_field">>),
    Rule("valclose", {CR}, "close-cr", <<"http_field">>) }
  \cup ValueRest("valclo", (Visible \cup {SP}) \ {"se"})

\* State 122: the final state behind an empty Connection line.
AfterEmptyConnection ==
  { Quiet("122", {SP, CR, LF}, "conn-fold"), Quiet("122", {"clo"}, "foldclo") }

\* States 44-51: a name that starts with "transfer".
TransferPrefix ==
  { Quiet("transfer", {"-encoding"}, "encoding") }
  \cup NameRest("transfer", Token \ {"-encoding"})

\* States 52-60: the name Transfer-Encoding.
EncodingName ==
  { Quiet("encoding", Token, "name"),
    Rule("encoding", {":"}, "te", <<"write_field">>) }

\* States 61 and 62: its value, and the line behind an empty value.
EncodingValue ==
  { Rule("te", {SP}, "te", <<"start_value">>),
    Rule("te", {"chunk"}, "valchunk", <<"start_value">>),
    Rule("te", Visible \ {"chunk"}, "value", <<"start_value">>),
    Rule("te", {LF}, "te-lf", <<"start_value", "http_field">>),
    Rule("te", {CR}, "te-cr", <<"start_value", "http_field">>),
    Rule("te-lf", Token \ {"clo", "con", "chunk", "transfer"}, "name", <<"start_field">>),
    Rule("te-lf", {"clo"}, "name", <<"start_value", "start_field">>),
    Rule("te-lf", {"con"}, "con", <<"start_value", "start_field">>),
    Rule("te-lf", {"chunk"}, "barechunk", <<"start_value", "start_field">>),
    Rule("te-lf", {"transfer"}, "transfer", <<"start_field">>),
    Quiet("te-lf", {SP}, "te-fold"), Quiet("te-lf", {CR}, "te-lfcr"),
    Rule("te-lf", {LF}, "121", <<"header_done">>) }

\* States 63-70: the value "chunked" on a folded line.
FoldedChunked ==
  { Quiet("te-fold", {SP, CR, LF}, "te-fold"),
    Rule("te-fold", {"chunk"}, "foldchunk", <<"start_value">>),
    Quiet("foldchunk", {"ed"}, "foldchunked"),
    Rule("foldchunked", {LF}, "line", <<"http_field", "chunked">>),
    Rule("foldchunked", {CR}, "chunked-cr", <<"http_field">>) }

\* States 71, 121 and 72: the end of the "chunked" line, and what may follow
\* the empty line behind an empty Transfer-Encoding line.
AfterEmptyEncoding ==
  { Rule("chunked-cr", {LF}, "line", <<"chunked">>),
    Quiet("121", {SP, CR, LF}, "te-fold"),
    Rule("121", {"chunk"}, "foldchunk", <<"start_value">>),
    Quiet("te-lfcr", {SP, CR}, "te-fold"),
    Rule("te-lfcr", {"chunk"}, "foldchunk", <<"start_value">>),
    Rule("te-lfcr", {LF}, "121", <<"header_done">>) }

\* States 73-79: a bare "chunked" below an empty Transfer-Encoding line.
BareChunked ==
  { Quiet("barechunk", {"ed"}, "barechunked"),
    Rule("barechunked", {LF}, "line", <<"http_field", "chunked">>),
    Rule("barechunked", {CR}, "chunked-cr", <<"http_field">>) }
  \cup NameRest("barechunk", Token \ {"ed"}) \cup NameRest("barechunked", Token)

\* States 80-87: "chunked" on the line of the name.
InlineChunked ==
  { Quiet("te-cr", {LF}, "te-lf"), Quiet("te-cr", {SP, CR}, "te-fold"),
    Rule("te-cr", {"chunk"}, "foldchunk", <<"start_value">>),
    Quiet("valchunk", {"ed"}, "valchunked"),
    Quiet("valchunked", Visible \cup {SP}, "value"),
    Rule("valchunked", {LF}, "line", <<"http_field", "chunked">>),
    Rule("valchunked", {CR}, "chunked-cr", <<"http_field">>) }
  \cup ValueRest("valchunk", (Visible \cup {SP}) \ {"ed"})

\* States 101-111: the name Content-Length.
LengthName ==
  { Quiet("contentlength", Token, "name"),
    Rule("contentlength", {":"}, "cl", <<"write_field">>) }

\* States 112 and 113: its value, and the line behind an empty value.
LengthValue ==
  { Rule("cl", {SP}, "cl", <<"start_value">>),
    Rule("cl", Digit, "valdigits", <<"start_value">>),
    Rule("cl", Visible \ Digit, "value", <<"start_value">>),
    Rule("cl", {LF}, "cl-lf", <<"start_value", "http_field">>),
    Rule("cl", {CR}, "cl-cr", <<"start_value", "http_field">>),
    Rule("cl-lf", Token \ ({"con", "transfer"} \cup Digit), "name", <<"start_field">>),
    Rule("cl-lf", {"con"}, "con", <<"start_field">>),
    Rule("cl-lf", {"transfer"}, "transfer", <<"start_field">>),
    Rule("cl-lf", Digit, "baredigits", <<"start_value", "start_field">>),
    Quiet("cl-lf", {SP}, "cl-fold"), Quiet("cl-lf", {CR}, "cl-lfcr"),
    Rule("cl-lf", {LF}, "123", <<"header_done">>) }

\* The end of the digits: the length is taken before the field is reported.
LengthEnd(from) ==
  { Quiet(from, Digit, from),
    Rule(from, {LF}, "line", <<"content_len", "http_field">>),
    Rule(from, {CR}, "lf",   <<"content_len", "http_field">>) }

\* States 114 and 115: the digits on a folded line.
FoldedLength ==
  { Quiet("cl-fold", {SP, CR, LF}, "cl-fold"),
    Rule("cl-fold", Digit, "folddigits", <<"start_value">>) }
  \cup LengthEnd("folddigits")

\* States 123, 116 and 117: what may follow the empty line behind an empty
\* Content-Length line, and bare digits below it.
AfterEmptyLength ==
  { Quiet("123", {SP, CR, LF}, "cl-fold"),
    Rule("123", Digit, "folddigits", <<"start_value">>),
    Quiet("cl-lfcr", {SP, CR}, "cl-fold"),
    Rule("cl-lfcr", Digit, "folddigits", <<"start_value">>),
    Rule("cl-lfcr", {LF}, "123", <<"header_done">>) }
  \cup LengthEnd("baredigits") \cup NameRest("baredigits", Token \ Digit)

\* States 118 and 119: the digits on the line of the name.
InlineLength ==
  { Quiet("cl-cr", {LF}, "cl-lf"), Quiet("cl-cr", {SP, CR}, "cl-fold"),
    Rule("cl-cr", Digit, "folddigits", <<"start_value">>),
    Quiet("valdigits", (Visible \cup {SP}) \ Digit, "value") }
  \cup LengthEnd("valdigits")

ResponseRules ==
  UNION { ChunkSize, ChunkExtension, ExtensionValue, StatusLine, HeaderLine,
          FieldName, FieldValue, ConPrefix, ConnectionName, ConnectionValue,
          FoldedClose, BareClose, InlineClose, AfterEmptyConnection,
          TransferPrefix, EncodingName, EncodingValue, FoldedChunked,
          AfterEmptyEncoding, BareChunked, InlineChunked, LengthName,
          LengthValue, FoldedLength, AfterEmptyLength, InlineLength }
=============================================================================
