----------------------------- MODULE UriGrammar -----------------------------
(***************************************************************************)
(* The automaton of net/uri.cc.  The generated code holds the authority    *)
(* twice, once for a reference that starts with "//" (prefix "r.") and     *)
(* once behind a scheme (prefix "s."), because only the second one saves   *)
(* the path.  EOF is the end of the string, where the code runs the        *)
(* actions of its switch over the final states.                            *)
(***************************************************************************)
EXTENDS Automaton

EOF == "EOF"

\* Pieces: "a" is a letter and hex digit (in an address: a group), "v" the
\* letter v, "1" a digit (in an address or a host: an octet), "!" a mark that
\* a scheme may not hold, "%xx" an encoded octet, "hi" an octet above 127.
Letter == {"a", "v"}
Reg    == Letter \cup {"1", "!", ".", "%xx"}
PChar  == Reg \cup {":", "@", "hi"}
QChar  == PChar \cup {"/", "?"}
Pieces == QChar \cup {"#", "[", "]"}

\* Where the part of a path may end without an authority before it.
PathEnd(from, first) ==
  { Rule(from, {"#"}, "frag", first), Rule(from, {"?"}, "query", first),
    Rule(from, {EOF}, "accept", first) }

\* States 451 and 452: the start, and a path that starts with a segment.
Start ==
  PathEnd("start", << >>) \cup PathEnd("rel", << >>) \cup
  { Rule("start", Letter, "scheme", <<"marku">>),
    Quiet("start", (Reg \ Letter) \cup {"@", "hi"}, "rel"),
    Quiet("start", {"/"}, "slash"),
    Quiet("rel", Reg \cup {"@", "hi"}, "rel"), Quiet("rel", {"/"}, "path") }

\* States 453, 454, 1 and 2: the fragment.
Fragment ==
  { Rule("frag", QChar, "frag1", <<"marku">>),
    Rule("frag", {EOF}, "accept", <<"marku", "save_fragment">>),
    Quiet("frag1", QChar, "frag1"),
    Rule("frag1", {EOF}, "accept", <<"save_fragment">>) }

\* States 455, 5 and 6: a path that is not saved.
Path == PathEnd("path", << >>) \cup { Quiet("path", PChar \cup {"/"}, "path") }

\* States 456, 457, 7 and 8: the query.
Query ==
  { Rule("query", QChar, "query1", <<"marku">>),
    Rule("query", {"#"}, "frag", <<"marku", "save_query">>),
    Rule("query", {EOF}, "accept", <<"marku", "save_query">>),
    Quiet("query1", QChar, "query1"),
    Rule("query1", {"#"}, "frag", <<"save_query">>),
    Rule("query1", {EOF}, "accept", <<"save_query">>) }

\* State 458: a "/" that may be the first of two.
Slash ==
  PathEnd("slash", << >>) \cup
  { Quiet("slash", PChar, "path"), Quiet("slash", {"/"}, "r.auth") }

\* States 508-510: a scheme, or a path that starts like one.
Scheme ==
  PathEnd("scheme", << >>) \cup PathEnd("hier", << >>) \cup PathEnd("hier/", << >>) \cup
  { Quiet("scheme", Letter \cup {"1", "."}, "scheme"),
    Quiet("scheme", {"!", "%xx", "@", "hi"}, "rel"), Quiet("scheme", {"/"}, "path"),
    Rule("scheme", {":"}, "hier", <<"save_scheme">>),
    Quiet("hier", PChar, "path"), Quiet("hier", {"/"}, "hier/"),
    Quiet("hier/", PChar, "path"), Quiet("hier/", {"/"}, "s.auth") }

\* How an authority ends.  Behind a scheme the path starts there and is saved
\* where it ends; `again' is the mark of the path, which the generated code
\* leaves out where the host or port has just set it.
AuthorityEndNoMark(c, from, first, again) ==   \* mutant: the path is not marked again
  IF c = "r."
    THEN PathEnd(c \o from, first) \cup { Rule(c \o from, {"/"}, "path", first) }
    ELSE PathEnd(c \o from, first \o <<"save_path">>)
         \cup { Rule(c \o from, {"/"}, "s.path", first) }
AuthorityEnd(c, from, first, again) ==
  IF c = "r."
    THEN PathEnd(c \o from, first) \cup { Rule(c \o from, {"/"}, "path", first) }
    ELSE PathEnd(c \o from, first \o again \o <<"save_path">>)
         \cup { Rule(c \o from, {"/"}, "s.path", first \o again) }
Again == <<"markh">>

\* State 513: the path that is saved.
SavedPath ==
  PathEnd("s.path", <<"save_path">>) \cup { Quiet("s.path", PChar \cup {"/"}, "s.path") }

\* State 459 (511): the first character behind "//".
AuthorityStart(c) ==
  AuthorityEnd(c, "auth", <<"markh", "save_host">>, << >>) \cup
  { Rule(c \o "auth", Reg \ {"1"}, c \o "user", <<"markh">>),
    Rule(c \o "auth", {"1"}, c \o Nth("u", 1), <<"markh">>),
    Rule(c \o "auth", {"["}, c \o "lit", <<"markh">>),
    Rule(c \o "auth", {":"}, c \o "colon", <<"markh", "save_host">>),
    Rule(c \o "auth", {"@"}, c \o "host", <<"markh", "save_userinfo">>) }

\* States 460-462 (512, 514, 515): behind an address in brackets; the port.
LiteralAndPort(c) ==
  AuthorityEnd(c, "literal", <<"save_host">>, Again) \cup
  AuthorityEnd(c, "port", <<"markh", "save_port">>, << >>) \cup
  AuthorityEnd(c, "port1", <<"save_port">>, Again) \cup
  { Rule(c \o "literal", {":"}, c \o "port", <<"save_host">>),
    Rule(c \o "port", {"1"}, c \o "port1", <<"markh">>), Quiet(c \o "port1", {"1"}, c \o "port1") }

\* What follows any state of a name that may be user information or a host.
UserRest(c, from, on) ==
  AuthorityEnd(c, from, <<"save_host">>, Again) \cup
  { Quiet(c \o from, on, c \o "user"), Rule(c \o from, {":"}, c \o "colon", <<"save_host">>),
    Rule(c \o from, {"@"}, c \o "host", <<"save_userinfo">>) }

\* States 467 and 31, 32 (520): such a name.
UserOrHost(c) == UserRest(c, "user", Reg)

\* States 468, 489 and 33-35 (521, 542): behind ":", a port or a password.
PortOrPassword(c) ==
  AuthorityEnd(c, "colon", <<"markh", "save_port">>, << >>) \cup
  AuthorityEnd(c, "digits", <<"save_port">>, Again) \cup
  { Rule(c \o "colon", {"1"}, c \o "digits", <<"markh">>), Quiet(c \o "digits", {"1"}, c \o "digits") } \cup
  { Quiet(c \o s, (Reg \ {"1"}) \cup {":"}, c \o "password") : s \in {"colon", "digits"} } \cup
  { Quiet(c \o "password", Reg \cup {":"}, c \o "password") } \cup
  { Rule(c \o s, {"@"}, c \o "host", <<"save_userinfo">>) : s \in {"colon", "digits", "password"} }

\* What follows any state of a name that is a host.
HostRest(c, from, on) ==
  AuthorityEnd(c, from, <<"save_host">>, Again) \cup
  { Quiet(c \o from, on, c \o "host1"), Rule(c \o from, {":"}, c \o "port", <<"save_host">>) }

\* States 469, 470, 36 and 37 (522, 523): the host behind "@".
Host(c) ==
  AuthorityEnd(c, "host", <<"markh", "save_host">>, << >>) \cup
  { Rule(c \o "host", Reg \ {"1"}, c \o "host1", <<"markh">>),
    Rule(c \o "host", {"1"}, c \o Nth("h", 1), <<"markh">>),
    Rule(c \o "host", {"["}, c \o "lit", <<"markh">>),
    Rule(c \o "host", {":"}, c \o "port", <<"markh", "save_host">>) }
  \cup HostRest(c, "host1", Reg)

\* What carries on a dotted quad of which k octets and dots have been read.
DottedNext(k) == IF k = 6 THEN {} ELSE IF k % 2 = 1 THEN {"."} ELSE {"1"}

\* States 490-507 (543-560): octets and dots where a user or host may be;
\* state 2k-1 is behind the k-th octet, state 2k behind the dot after it.
DottedUser(c) ==
  UNION { UserRest(c, Nth("u", k), Reg \ DottedNext(k)) : k \in 1 .. 6 }
  \cup { Quiet(c \o Nth("u", k), DottedNext(k), c \o Nth("u", k + 1)) : k \in 1 .. 5 }

\* States 471-488 (524-541): the same behind "@".
DottedHost(c) ==
  UNION { HostRest(c, Nth("h", k), Reg \ DottedNext(k)) : k \in 1 .. 6 }
  \cup { Quiet(c \o Nth("h", k), DottedNext(k), c \o Nth("h", k + 1)) : k \in 1 .. 5 }

Word == {"a", "1"}

\* States 38-67 (260-289): the first six groups of an address in brackets,
\* which a second ":" may cut short; "::" then stands for exactly one group.
LeadingGroups(c) ==
  { Quiet(c \o "lit", Word, c \o Nth("w", 1)), Quiet(c \o "lit", {":"}, c \o "lead"),
    Quiet(c \o "lit", {"v"}, c \o "future") } \cup
  { Quiet(c \o Nth("w", k), {":"}, c \o Nth("g", k)) : k \in 1 .. 6 } \cup
  { Quiet(c \o Nth("g", k), Word, c \o Nth("w", k + 1)) : k \in 1 .. 5 } \cup
  { Quiet(c \o Nth("g", k), {":"}, c \o Nth("in", k + 1)) : k \in 1 .. 6 }

\* States 68-92 (290-314): the seventh group, or a dotted quad in its place.
Quad(c) ==
  { Quiet(c \o Nth("g", 6), {"a"}, c \o "w7h"), Quiet(c \o Nth("g", 6), {"1"}, c \o "w7o"),
    Quiet(c \o "q2", {"1"}, c \o "q2o"), Quiet(c \o "q2o", {"."}, c \o "q3"),
    Quiet(c \o "q3", {"1"}, c \o "q3o"), Quiet(c \o "q3o", {"."}, c \o "q4"),
    Quiet(c \o "q4", {"1"}, c \o "last"),
    Quiet(c \o "last", {"]"}, c \o "literal"), Quiet(c \o "end", {"]"}, c \o "literal") }

\* States 93-110 (315-332): the eighth group.
LastGroups(c) ==
  { Quiet(c \o "w7h", {":"}, c \o "g7"), Quiet(c \o "w7o", {":"}, c \o "g7"),
    Quiet(c \o "w7o", {"."}, c \o "q2"),
    Quiet(c \o "g7", Word, c \o "last"), Quiet(c \o "g7", {":"}, c \o "end") }

\* States 111-145 (333-367): the groups behind an inner "::".
InnerGroups(c) ==
  { Quiet(c \o Nth("in", k), Word, c \o Nth("inw", k)) : k \in 2 .. 5 } \cup
  { Quiet(c \o Nth("inw", k), {":"}, c \o Nth("in", k + 1)) : k \in 2 .. 5 } \cup
  { Quiet(c \o "in6", {"a"}, c \o "in6h"), Quiet(c \o "in6", {"1"}, c \o "in6o"),
    Quiet(c \o "in6h", {":"}, c \o "in7"), Quiet(c \o "in6o", {":"}, c \o "in7"),
    Quiet(c \o "in6o", {"."}, c \o "q2"), Quiet(c \o "in7", Word, c \o "last") }

\* States 146-176 (368-398): the groups behind a "::" that comes first.
TrailingGroups(c) ==
  { Quiet(c \o "lead", {":"}, c \o Nth("t", 0)), Quiet(c \o Nth("t", 0), {"]"}, c \o "literal") } \cup
  { Quiet(c \o Nth("t", k), {"a"}, c \o Nth("th", k)) : k \in 0 .. 5 } \cup
  { Quiet(c \o Nth("th", k), {"]"}, c \o "literal") : k \in 0 .. 5 } \cup
  { Quiet(c \o Nth("th", k), {":"}, c \o IF k < 5 THEN Nth("t", k + 1) ELSE "in7") : k \in 0 .. 5 }

\* States 177-224 (399-446): the same for groups that may start a quad.
TrailingOctets(c) ==
  { Quiet(c \o Nth("t", k), {"1"}, c \o Nth("to", k)) : k \in 0 .. 5 } \cup
  { Quiet(c \o Nth("to", k), {"]"}, c \o "literal") : k \in 0 .. 5 } \cup
  { Quiet(c \o Nth("to", k), {"."}, c \o "q2") : k \in 0 .. 5 } \cup
  { Quiet(c \o Nth("to", k), {":"}, c \o IF k < 5 THEN Nth("t", k + 1) ELSE "in7") : k \in 0 .. 5 }

\* States 225-228 (447-450): an address of a future version.
Future(c) ==
  { Quiet(c \o "future", Word, c \o "future1"), Quiet(c \o "future1", Word, c \o "future1"),
    Quiet(c \o "future1", {"."}, c \o "future2"),
    Quiet(c \o "future2", (Reg \ {"%xx"}) \cup {":"}, c \o "future3"),
    Quiet(c \o "future3", (Reg \ {"%xx"}) \cup {":"}, c \o "future3"),
    Quiet(c \o "future3", {"]"}, c \o "literal") }

\* The authority of a reference that starts with "//".
ReferenceAuthority ==
  UNION { AuthorityStart("r."), LiteralAndPort("r."), UserOrHost("r."), PortOrPassword("r."),
          Host("r."), DottedUser("r."), DottedHost("r."), LeadingGroups("r."), Quad("r."),
          LastGroups("r."), InnerGroups("r."), TrailingGroups("r."), TrailingOctets("r."),
          Future("r.") }

\* The second copy, part by part: the authority behind a scheme.
SchemeAuthorityStart == AuthorityStart("s.")
SchemeLiteralAndPort == LiteralAndPort("s.")
SchemeUserOrHost == UserOrHost("s.")
SchemePortOrPassword == PortOrPassword("s.")
SchemeHost == Host("s.")
SchemeDottedUser == DottedUser("s.")
SchemeDottedHost == DottedHost("s.")
SchemeLeadingGroups == LeadingGroups("s.")
SchemeQuad == Quad("s.")
SchemeLastGroups == LastGroups("s.")
SchemeInnerGroups == InnerGroups("s.")
SchemeTrailingGroups == TrailingGroups("s.")
SchemeTrailingOctets == TrailingOctets("s.")
SchemeFuture == Future("s.")
SchemeAuthority ==
  UNION { SchemeAuthorityStart, SchemeLiteralAndPort, SchemeUserOrHost, SchemePortOrPassword,
          SchemeHost, SchemeDottedUser, SchemeDottedHost, SchemeLeadingGroups, SchemeQuad,
          SchemeLastGroups, SchemeInnerGroups, SchemeTrailingGroups, SchemeTrailingOctets,
          SchemeFuture }

UriRules ==
  UNION { Start, Fragment, Path, Query, Slash, Scheme, SavedPath, ReferenceAuthority,
          SchemeAuthority }
=============================================================================
