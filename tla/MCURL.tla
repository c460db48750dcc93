-------------------------------- MODULE MCURL --------------------------------
(***************************************************************************)
(* URL for TLC: the arguments of the setters and create_with_* are the     *)
(* values the code's tests tell apart.                                    *)
(***************************************************************************)
EXTENDS URL

MCHosts == {"", "text"}
MCPaths == {"", "text"}
\* 0 (no port), a default port, and a port that is no protocol's default
MCPorts == {0, 80, 81}
MCProtocols == {"", "http", "https", "file", "data", "about", "other"}
\* complete_url strings: relative ("c", "c/", empty), absolute-path ("/c"),
\* scheme-relative ("//c", and "//", whose second parse fails), fragment ("#", "#c"), and a URL by itself.
MCRefs == {<<"c">>, <<"c", "/">>, <<>>, <<"/", "c">>, <<"/", "/", "c">>, <<"/", "/">>,
           <<"#">>, <<"#", "c">>, <<"http", ":", "/", "/", "c">>}
====
