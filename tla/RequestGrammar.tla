--------------------------- MODULE RequestGrammar ---------------------------
(***************************************************************************)
(* The automaton of http_request_parser.cc.  The operators with a prefix c *)
(* describe a part of the grammar that the generated code holds twice:     *)
(* once for the target of a request line, once for the address of a JSON   *)
(* message ("@address {...}").  `relaxed' is parser->uri_relaxed, which    *)
(* http_parser_init leaves unset.                                          *)
(***************************************************************************)
EXTENDS Automaton

CR  == "CR"
LF  == "LF"
SP  == " "
NUL == "NUL"

\* Pieces: "A" is an upper-case letter and "TEN" ten of them, "a" a hex digit
\* (in an address: a group), "1" a digit (in an address: an octet), "v" the
\* letter v, "!" a mark that a scheme may not hold, "%xx" an encoded octet,
\* "hi" an octet above 127.
Versions == {"HTTP/1.0", "HTTP/1.1"}
Upper    == {"A", "TEN"}
Letter   == Upper \cup {"a", "v"}
AlphaNum == Letter \cup {"1"}
Braces   == {"{", "}"}
Token    == AlphaNum \cup {"!", ".", "^", "#", "%xx"}
Pieces   == Token \cup Versions \cup Braces
            \cup {"hi", "/", "?", ":", "@", "[", "]", "<", ">", SP, CR, LF, NUL}

\* The characters of a registered name, a path and a query.
Relaxing(relaxed) == IF relaxed THEN {"^"} \cup Braces ELSE {}
Reg(relaxed)   == AlphaNum \cup {"!", ".", "%xx"} \cup Relaxing(relaxed)
PChar(relaxed) == Reg(relaxed) \cup {"hi", ":", "@"}
QChar(relaxed) == PChar(relaxed) \cup {"/", "?"}

\* States 1 and 2: what kind of message it is.
MessageStart ==
  { Rule("start", {"A", "1"}, Nth("method", 1), <<"mark">>),
    Rule("start", {"TEN"}, Nth("method", 10), <<"mark">>),
    Rule("start", {"<"}, "xml", <<"mark">>), Rule("start", {"@"}, "@", <<"mark">>) }

\* States 2 and 175-193: the method, of at most MethodMax characters.
MethodMax == 20
Method ==
  { Quiet(Nth("method", k), {"A", "1"}, Nth("method", k + 1)) : k \in 1 .. MethodMax - 1 }
  \cup { Quiet(Nth("method", k), {"TEN"}, Nth("method", k + 10)) : k \in 1 .. MethodMax - 10 }
  \cup { Rule(Nth("method", k), {SP}, "target", <<"request_method">>) : k \in 1 .. MethodMax }

\* How a path ends: what was marked is the path, and at the end of the target
\* or at the fragment also the URI.
PathEnd(from, first) ==
  { Rule(from, {SP}, "version", first \o <<"request_path", "request_uri">>),
    Rule(from, {"#"}, "frag", first \o <<"request_path", "request_uri">>),
    Rule(from, {"?"}, "query", first \o <<"request_path">>) }

\* State 3: the first character of the target.
Target(relaxed) ==
  PathEnd("target", <<"mark">>) \cup
  { Rule("target", (Reg(relaxed) \ Letter) \cup {"@"}, "rel", <<"mark">>),
    Rule("target", Letter, "scheme", <<"mark">>),
    Rule("target", {"/"}, "slash", <<"mark">>) }

\* States 4-12: the version.
Version ==
  { Rule("version", Versions, "version1", <<"mark">>),
    Rule("version1", {LF}, "line", <<"http_version">>),
    Rule("version1", {CR}, "lf", <<"http_version">>) }

\* States 13 and 17: the start of a header line; a CR may end the headers.
HeaderLine ==
  { Rule("line", Token, "name", <<"start_field">>),
    Rule("line", {CR}, "line-cr", <<"start_field">>),
    Rule("line", {LF}, "done", <<"start_field", "done">>),
    Quiet("lf", {LF}, "line") }

\* States 14-16: a field.  A name may hold a CR or LF; a value may not.
Field ==
  { Quiet("name", Token \cup {CR, LF}, "name"),
    Rule("name", {":"}, "colon", <<"write_field">>),
    Rule("colon", {SP}, "colon", <<"start_value">>),
    Rule("colon", Pieces \ {SP, CR, LF, NUL}, "value", <<"start_value">>),
    Rule("colon", {LF}, "line", <<"start_value", "header_value">>),
    Rule("colon", {CR}, "lf", <<"start_value", "header_value">>),
    Quiet("value", Pieces \ {CR, LF, NUL}, "value"),
    Rule("value", {LF}, "line", <<"header_value">>),
    Rule("value", {CR}, "lf", <<"header_value">>) }

\* States 18 and 348: behind the CR, and behind the end of the headers.
AfterHeaders ==
  { Quiet("line-cr", Token \cup {CR}, "name"),
    Rule("line-cr", {":"}, "colon", <<"write_field">>),
    Rule("line-cr", {LF}, "done", <<"done">>),
    Quiet("done", Token \cup {CR, LF}, "name"),
    Rule("done", {":"}, "colon", <<"write_field">>) }

\* States 19, 24 and 25: a path that does not start with "/".
RelativePath(relaxed) ==
  PathEnd("rel", << >>) \cup
  { Quiet("rel", Reg(relaxed) \cup {"@"}, "rel"), Quiet("rel", {"/"}, "path") }

\* States 20-23: the fragment.
Fragment(relaxed) ==
  { Rule("frag", {SP}, "version", <<"mark", "fragment">>),
    Rule("frag", QChar(relaxed), "frag1", <<"mark">>),
    Rule("frag1", {SP}, "version", <<"fragment">>),
    Quiet("frag1", QChar(relaxed), "frag1") }

\* States 26-28: the rest of a path.
Path(relaxed) ==
  PathEnd("path", << >>) \cup { Quiet("path", PChar(relaxed) \cup {"/"}, "path") }

\* States 29-32: the query.
Query(relaxed) ==
  { Rule(s, {SP}, "version", IF s = "query" THEN <<"start_query", "query_string", "request_uri">>
                             ELSE <<"query_string", "request_uri">>) : s \in {"query", "query1"} }
  \cup
  { Rule(s, {"#"}, "frag", IF s = "query" THEN <<"start_query", "query_string", "request_uri">>
                           ELSE <<"query_string", "request_uri">>) : s \in {"query", "query1"} }
  \cup
  { Rule("query", QChar(relaxed), "query1", <<"start_query">>),
    Quiet("query1", QChar(relaxed), "query1") }

\* State 33: a "/" that may be the first of two.
Slash(relaxed) ==
  PathEnd("slash", << >>) \cup
  { Quiet("slash", PChar(relaxed), "path"), Quiet("slash", {"/"}, "auth") }

\* States 34-37 (209-212): user information or a host, not yet known which.
UserOrHost(c, relaxed) ==
  { Quiet(c \o s, Reg(relaxed), c \o "user") : s \in {"auth", "user"} } \cup
  { Quiet(c \o s, {":"}, c \o "colon2") : s \in {"auth", "user"} } \cup
  { Quiet(c \o s, {"@"}, c \o "host") : s \in {"auth", "user"} } \cup
  { Quiet(c \o "auth", {"["}, c \o "lit") }

\* States 38-41 (213-216): behind a ":", a port or the rest of the user.
PortOrPassword(c, relaxed) ==
  { Quiet(c \o "colon2", {"1"}, c \o "colon2"),
    Quiet(c \o "colon2", (Reg(relaxed) \ {"1"}) \cup {":"}, c \o "password"),
    Quiet(c \o "colon2", {"@"}, c \o "host"),
    Quiet(c \o "password", Reg(relaxed) \cup {":"}, c \o "password"),
    Quiet(c \o "password", {"@"}, c \o "host") }

\* States 42-46 (217-221): the host behind "@", and the port.
HostAndPort(c, relaxed) ==
  { Quiet(c \o s, Reg(relaxed), c \o "host1") : s \in {"host", "host1"} } \cup
  { Quiet(c \o s, {":"}, c \o "port") : s \in {"host", "host1", "literal"} } \cup
  { Quiet(c \o "host", {"["}, c \o "lit"), Quiet(c \o "port", {"1"}, c \o "port") }

\* The states of an authority in which it may end.
AuthorityEnds == {"auth", "user", "colon2", "host", "host1", "port", "literal"}
TargetAuthorityEnd ==
  UNION { PathEnd(s, << >>) \cup {Quiet(s, {"/"}, "path")} : s \in AuthorityEnds }

\* States 173 and 174: a scheme, or a path that starts like one.
Scheme(relaxed) ==
  PathEnd("scheme", << >>) \cup PathEnd("hier", <<"mark">>) \cup
  { Quiet("scheme", AlphaNum \cup {"."}, "scheme"),
    Quiet("scheme", {"!", "@", "%xx"} \cup Relaxing(relaxed), "rel"),
    Quiet("scheme", {"/"}, "path"), Quiet("scheme", {":"}, "hier"),
    Rule("hier", PChar(relaxed), "path", <<"mark">>), Rule("hier", {"/"}, "slash", <<"mark">>) }

\* States 194-197: an XML message, "<name ...>" and a NUL.
Xml ==
  { Quiet("xml", AlphaNum \cup {"."}, "xmlname"), Quiet("xmlname", AlphaNum \cup {"."}, "xmlname"),
    Rule("xmlname", {SP, CR, LF, "/", ">"}, "xmlbody", <<"request_path">>),
    Quiet("xmlbody", Pieces \ {">"}, "xmlbody"), Quiet("xmlbody", {">"}, "xmlend"),
    Quiet("xmlend", Pieces \ {">", NUL}, "xmlbody"), Quiet("xmlend", {">"}, "xmlend"),
    Rule("xmlend", {NUL}, "349", <<"xml", "done">>) }

\* States 199-201: the body of a JSON message and its NUL.
Json ==
  { Rule("json", {"{"}, "jsonbody", <<"mark">>),
    Quiet("jsonbody", Pieces \ {"}"}, "jsonbody"), Quiet("jsonbody", {"}"}, "jsonend"),
    Quiet("jsonend", Pieces \ {"}", NUL}, "jsonbody"), Quiet("jsonend", {"}"}, "jsonend"),
    Rule("jsonend", {NUL}, "349", <<"json", "done">>) }

\* States 198 and 202-208: the address of a JSON message.
JsonAddress(relaxed) ==
  { Rule(s, {SP}, "json", <<"request_path">>) : s \in {"@", "@rel", "@path", "@slash"} } \cup
  { Quiet(s, Reg(relaxed) \cup {"@"}, "@rel") : s \in {"@", "@rel"} } \cup
  { Quiet(s, PChar(relaxed), "@path") : s \in {"@path", "@slash"} } \cup
  { Quiet("@", {"/"}, "@slash"), Quiet("@rel", {"/"}, "@path"), Quiet("@path", {"/"}, "@path"),
    Quiet("@slash", {"/"}, "@auth") }

\* States 209-221: the end of an authority in such an address.
JsonAuthorityEnd ==
  UNION { { Rule("@" \o s, {SP}, "json", <<"request_path">>),
            Quiet("@" \o s, {"/"}, "@path") } : s \in AuthorityEnds }

Word == {"a", "1"}

\* States 47-52 (222-227): the start of an address in brackets, and the one
\* group that "::" must have behind it after four groups.
LiteralStart(c) ==
  { Quiet(c \o "lit", {w}, c \o "w1") : w \in Word } \cup
  { Quiet(c \o "lit", {":"}, c \o "lead"), Quiet(c \o "lit", {"v"}, c \o "future"),
    Quiet(c \o "in4", Word, c \o "in4w"), Quiet(c \o "in4w", {":"}, c \o "ls32") }

\* States 53-76 (228-251): the last two groups as a dotted quad.
Quad(c) ==
  { Quiet(c \o "ls32", {"1"}, c \o "ls32o"), Quiet(c \o "ls32o", {"."}, c \o "quad2"),
    Quiet(c \o "quad2", {"1"}, c \o "quad2o"), Quiet(c \o "quad2o", {"."}, c \o "quad3"),
    Quiet(c \o "quad3", {"1"}, c \o "quad3o"), Quiet(c \o "quad3o", {"."}, c \o "quad4"),
    Quiet(c \o "quad4", {"1"}, c \o "last") }

\* States 77-90 (252-265): the last two groups as groups.
LastGroups(c) ==
  { Quiet(c \o "ls32", {"a"}, c \o "ls32h"),
    Quiet(c \o "ls32h", {":"}, c \o "end"), Quiet(c \o "ls32o", {":"}, c \o "end"),
    Quiet(c \o "end", Word, c \o "last"), Quiet(c \o "last", {"]"}, c \o "literal") }

\* States 91-125 (266-300): the groups before a "::".
LeadingGroups(c) ==
  { Quiet(c \o Nth("w", k), {":"}, c \o Nth("g", k)) : k \in 1 .. 7 } \cup
  { Quiet(c \o Nth("g", k), Word, c \o Nth("w", IF k < 7 THEN k + 1 ELSE 7)) : k \in 1 .. 7 } \cup
  { Quiet(c \o Nth("g", k), {":"}, c \o Nth("in", k)) : k \in 1 .. 7 }

\* States 126-149 (301-324): at most two groups behind "::".
TrailingGroups(c) ==
  { Quiet(c \o s, {"a"}, c \o "tailh") : s \in {"in6", "in7", "lead2"} } \cup
  { Quiet(c \o s, {"1"}, c \o "tailo") : s \in {"in6", "in7", "lead2"} } \cup
  { Quiet(c \o s, {"]"}, c \o "literal") : s \in {"in7", "lead2", "tailh", "tailo", "tail2h", "tail2o"} } \cup
  { Quiet(c \o s, {":"}, c \o "tail2") : s \in {"tailh", "tailo", "in5h", "in5o"} } \cup
  { Quiet(c \o s, {"."}, c \o "quad2") : s \in {"tailo", "tail2o", "in5o"} } \cup
  { Quiet(c \o "tail2", {"a"}, c \o "tail2h"), Quiet(c \o "tail2", {"1"}, c \o "tail2o"),
    Quiet(c \o "tail2h", {":"}, c \o "end"), Quiet(c \o "tail2o", {":"}, c \o "end") }

\* States 150-168 (325-343): "::" after five groups, and at the start.
InnerGroups(c) ==
  { Quiet(c \o "in5", {"a"}, c \o "in5h"), Quiet(c \o "in5", {"1"}, c \o "in5o"),
    Quiet(c \o "lead", {":"}, c \o "lead2") }

\* States 169-172 (344-347): an address of a future version.
Future(c, relaxed) ==
  { Quiet(c \o "future", Word, c \o "future1"), Quiet(c \o "future1", Word, c \o "future1"),
    Quiet(c \o "future1", {"."}, c \o "future2"),
    Quiet(c \o "future2", (Reg(relaxed) \ {"%xx"}) \cup {":"}, c \o "future3"),
    Quiet(c \o "future3", (Reg(relaxed) \ {"%xx"}) \cup {":"}, c \o "future3"),
    Quiet(c \o "future3", {"]"}, c \o "literal") }

\* The authority of a target.
TargetAuthority(relaxed) ==
  UNION { UserOrHost("", relaxed), PortOrPassword("", relaxed), HostAndPort("", relaxed),
          LiteralStart(""), Quad(""), LastGroups(""), LeadingGroups(""), TrailingGroups(""),
          InnerGroups(""), Future("", relaxed), TargetAuthorityEnd }

\* The second copy, part by part: the authority in the address of a JSON message.
JsonUserOrHost(relaxed)     == UserOrHost("@", relaxed)
JsonPortOrPassword(relaxed) == PortOrPassword("@", relaxed)
JsonHostAndPort(relaxed)    == HostAndPort("@", relaxed)
JsonLiteralStart   == LiteralStart("@")
JsonQuad           == Quad("@")
JsonLastGroups     == LastGroups("@")
JsonLeadingGroups  == LeadingGroups("@")
JsonTrailingGroups == TrailingGroups("@")
JsonInnerGroups    == InnerGroups("@")
JsonFuture(relaxed) == Future("@", relaxed)
JsonAuthority(relaxed) ==
  UNION { JsonUserOrHost(relaxed), JsonPortOrPassword(relaxed), JsonHostAndPort(relaxed),
          JsonLiteralStart, JsonQuad, JsonLastGroups, JsonLeadingGroups, JsonTrailingGroups,
          JsonInnerGroups, JsonFuture(relaxed), JsonAuthorityEnd }

RequestRules(relaxed) ==
  UNION { MessageStart, Method, Target(relaxed), Version, HeaderLine, Field, AfterHeaders,
          RelativePath(relaxed), Fragment(relaxed), Path(relaxed), Query(relaxed), Slash(relaxed),
          Scheme(relaxed), TargetAuthority(relaxed), Xml, Json, JsonAddress(relaxed),
          JsonAuthority(relaxed) }
=============================================================================
