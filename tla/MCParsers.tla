----------------------------- MODULE MCParsers -----------------------------
EXTENDS Parsers

\* Lines of a response: the names that the grammar knows with their values on
\* the same line or below, names that only start like them, and the end.
MCResponseLines ==
  { <<"HTTP/", "1", ".", "1", SP, "0", SP, "x", CR, LF>>,
    <<"con", "nection", ":", SP, "clo", "se", CR, LF>>, <<"con", "nection", ":", LF>>,
    <<SP, "clo", "se", LF>>, <<"clo", "se", LF>>, <<"con", "x", ":", SP, "x", CR, LF>>,
    <<"transfer", "-encoding", ":", "chunk", "ed", LF>>, <<"transfer", "-encoding", ":", CR, LF>>,
    <<SP, "chunk", "ed", CR, LF>>, <<"con", "tent-length", ":", SP, "1", "0", CR, LF>>,
    <<SP, LF>>, <<CR, LF>> }

MCSizeLines ==
  { <<"1", "f", CR, LF>>, <<"1", "0", ";", "x", "=", "f", CR, LF>>, <<"f", ";", "1", LF>> }

Targets == { <<"/", "a">>, <<"a", "?", "a">>, <<"/", "?", "a", "?", "#", "a">>, <<"a", ":", "/", "/", "a", "@", "a", ":", "1", "/">>,
             <<"/", "^", "#">>, <<"/", "/", "[", ":", ":", "1", "]", "?">>, <<"%xx", "/", "hi">> }
MCRequestLines ==
  { <<m, SP>> \o t \o <<SP, "HTTP/1.1", CR, LF>> : m \in {"A", "TEN"}, t \in Targets }
  \cup { <<"<", "a", SP, "x", ">", "NUL">>, <<"@", "/", "/", "a", SP, "{", "}", "NUL">> }
MCRequestFields ==
  { <<"a", ":", SP, "1", CR, LF>>, <<"!", ".", ":", LF>>, <<"a", "A", ":", SP, SP, "a", ":", "1", LF>>, <<CR, LF>>, <<LF>> }

MCUriStarts == {<< >>, <<"/", "/">>, <<"a", ":", "/", "/">>}
=============================================================================
