-------------------------------- MODULE URL ---------------------------------
(***************************************************************************)
(* AK::URL (src/AK/URL.cpp): one URL object, constructed by parsing text  *)
(* or by create_with_*, and changed by its setters.                       *)
(*                                                                         *)
(* URL::parse is the byte-at-a-time machine of lines 24-229.  While the   *)
(* constructor runs, phase = "parsing" and each iteration of its while    *)
(* loop is one action; the end of input runs the finalisation (lines      *)
(* 197-228) as one action.  The input is drawn one character at a time    *)
(* as the machine reads it, at most MaxLen characters, so every input up  *)
(* to that length is explored.  look is a character peek() has returned   *)
(* but nothing has consumed yet.                                          *)
(*                                                                         *)
(* Characters are abstracted to the classes the code tells apart.  A run  *)
(* of lowercase letters is one character naming what it spells: one of    *)
(* the protocols the code compares with, the six letters "base64" ("b64"), *)
(* or anything else ("z").  Digits are "0" and "8"; "c" is any other      *)
(* character, and "nul" the byte 0.  The text of a host, path, query,     *)
(* fragment, mime type or payload is abstracted to "null", "" or "text": *)
(* the code only tests whether these are null or empty.                   *)
(***************************************************************************)
EXTENDS Naturals, Sequences, SequencesExt

CONSTANTS NONE,
          MaxLen,       \* the longest input parsed
          Hosts,        \* arguments of set_host
          Paths,        \* arguments of set_path, set_query, set_fragment
          Ports,        \* arguments of set_port
          Protocols,    \* arguments of set_protocol
          DataMimes,    \* mime types passed to create_with_data
          Refs          \* strings passed to complete_url and create_with_url_or_path

ASSUME MaxLen \in 1..15

VARIABLES phase, st, buf, look, budget, url,
          input,    \* the characters still to read, when the input is given
          orig,     \* the URL whose to_string() is being parsed, or NONE
          parsed,   \* whether url was built by parsing
          completing \* complete_url's base, string and stage, or NONE

vars == <<phase, st, buf, look, budget, url, input, orig, parsed, completing>>

Letters == {"http", "file", "data", "about", "b64", "z"}
Digits  == {"0", "8"}
Alphabet == Letters \cup Digits \cup {":", "/", "?", "#", ";", ",", "c", "nul"}

Text == {"null", "", "text"}
States == {"InProtocol", "InHostname", "InPort", "InPath", "InQuery",
           "InFragment", "InDataMimeType", "InDataPayload"}

(* Only 'a'..'z' are protocol characters: "base64" stops at its '6'.      *)
is_valid_protocol_character(c) == c \in Letters \ {"b64"}
is_valid_hostname_character(c) == c \notin {"nul", "/", ":"}
(* The ten digits, as String::number writes them; the input drawn freely *)
(* uses only Digits.                                                     *)
DigitChars == <<"0", "1", "2", "3", "4", "5", "6", "7", "8", "9">>
AllDigits == {DigitChars[k] : k \in 1..10}

is_digit(c) == c \in AllDigits

(* default_port_for_protocol and protocol_requires_port. *)
DefaultPort(p) ==
    CASE p \in {"http", "ws"} -> 80
      [] p \in {"https", "wss"} -> 443
      [] p = "gemini" -> 1965
      [] p = "irc" -> 6667
      [] p = "ircs" -> 6697
      [] OTHER -> 0

RequiresPort(p) == DefaultPort(p) # 0

compute_validity(u) ==
    CASE u.protocol \in {"null", ""} -> FALSE
      [] u.protocol \in {"about", "file"} -> u.path \notin {"null", ""}
      [] u.protocol = "data" -> u.mime \notin {"null", ""}
      [] u.host \in {"null", ""} -> FALSE
      [] u.port = 0 /\ RequiresPort(u.protocol) -> FALSE
      [] OTHER -> TRUE

(* The fields of a default-constructed URL. *)
DefaultURL ==
    [protocol |-> "null", host |-> "null", port |-> 0, path |-> "null",
     query |-> "null", fragment |-> "null", mime |-> "null",
     payload |-> "null", base64 |-> FALSE, valid |-> FALSE]

(* String::copy(buffer) of the protocol: the name its letters spell. *)
ProtocolName(b) ==
    IF b = <<>> THEN ""
    ELSE IF Len(b) = 1 /\ b[1] \in {"http", "file", "data", "about"} THEN b[1]
    ELSE "other"

(* String::copy(buffer) of any other field. *)
Copy(b) == IF b = <<>> THEN "" ELSE "text"

(* buffer.append(c) of a protocol letter run: a second run makes the name *)
(* spell no protocol.                                                     *)
PushLetter(b, c) == IF b = <<>> THEN <<c>> ELSE <<"z", "z">>

(* buffer.append(c) where only whether the buffer is empty matters. *)
Mark(b) == <<"c">>

(* urldecode replaces each %XX by one byte, so only empty text decodes to *)
(* empty text.                                                            *)
urldecode(s) == IF s = "" THEN "" ELSE "text"

(* String::to_uint() of a buffer of digits: no value when empty.  It has  *)
(* no value above 2^32 - 1 either, but that needs ten digits, more than   *)
(* an input of MaxLen characters holds after "z://c:".                    *)
NoValue == -1
DigitValue(d) == CHOOSE v \in 0..9 : DigitChars[v + 1] = d
to_uint(b) ==
    IF b = <<>> THEN NoValue
    ELSE FoldLeft(LAMBDA acc, d : 10 * acc + DigitValue(d), 0, b)

(* m_port as if it were as wide as the parsed value. *)
ToU16Unwrapped(v) == v

(* Assigning an unsigned to the u16 m_port. *)
ToU16(v) == v % 2^16

Recompute(u) == [u EXCEPT !.valid = compute_validity(u)]

set_port(u, p) == Recompute([u EXCEPT !.port = p])

Init ==
    /\ phase = "idle" /\ url = DefaultURL
    /\ st = "InProtocol" /\ buf = <<>> /\ look = NONE /\ budget = 0
    /\ input = NONE /\ orig = NONE /\ parsed = FALSE /\ completing = NONE

(***************************************************************************)
(* The parse loop.  Peek(c): c is the character at index: the one peek() *)
(* already returned, else the next of a given input, else one drawn      *)
(* freely.  Drawn and Rest are the free budget and the given input left  *)
(* once c is read.  Take consumes c; Keep leaves it for the next          *)
(* iteration.                                                             *)
(***************************************************************************)
Peek(c) ==
    c \in CASE look # NONE    -> {look}
          [] input # NONE   -> IF input = <<>> THEN {} ELSE {Head(input)}
          [] budget > 0     -> Alphabet
          [] OTHER          -> {}
Drawn == IF look = NONE /\ input = NONE THEN budget - 1 ELSE budget
Rest == IF look = NONE /\ input # NONE THEN Tail(input) ELSE input
Take == look' = NONE /\ budget' = Drawn /\ input' = Rest
Keep(c) == look' = c /\ budget' = Drawn /\ input' = Rest
Goto(s, b) == st' = s /\ buf' = b /\ UNCHANGED <<phase, orig, parsed, completing>>

(* Two consume() calls after c, testing the characters with a and b: k   *)
(* is how many of the tests pass in a row.  A given input decides k; a   *)
(* free one may continue with anything.                                  *)
Checks(a, b) ==
    IF input = NONE THEN 0..2
    ELSE {IF Len(Rest) >= 1 /\ Rest[1] = a
          THEN IF Len(Rest) >= 2 /\ Rest[2] = b THEN 2 ELSE 1
          ELSE 0}

(* Both consumed characters passed: index moves past them. *)
Skip2 ==
    /\ input # NONE \/ Drawn >= 2
    /\ look' = NONE
    /\ budget' = IF input = NONE THEN Drawn - 2 ELSE 0
    /\ input' = IF input = NONE THEN NONE ELSE SubSeq(Rest, 3, Len(Rest))

(* parse returns v; the constructor stores it in m_valid.  Its locals go *)
(* out of scope.  Inside complete_url, the rest of complete_url follows.  *)
Return(v, u) ==
    /\ phase' = IF completing = NONE THEN "idle" ELSE "completing"
    /\ url' = [u EXCEPT !.valid = v] /\ UNCHANGED completing
    /\ st' = "InProtocol" /\ buf' = <<>> /\ look' = NONE /\ budget' = 0
    /\ input' = NONE /\ orig' = NONE /\ parsed' = TRUE

Parsing(s) == phase = "parsing" /\ st = s

(* URL(string) with a non-null string: parse starts on default fields. *)
Construct ==
    /\ phase = "idle"
    /\ phase' = "parsing" /\ url' = DefaultURL
    /\ st' = "InProtocol" /\ buf' = <<>> /\ look' = NONE /\ budget' = MaxLen
    /\ input' = NONE /\ UNCHANGED <<orig, parsed, completing>>

(* URL(string) with a null string: parse returns false at once. *)
ConstructNull == phase = "idle" /\ Return(FALSE, DefaultURL)

(* The protocol is followed by ':'; then "data" and "about" switch state, *)
(* and any other protocol needs "//" (k is how many of the two '/' the    *)
(* next two consume() calls return) and a non-empty name.                 *)
ProtocolStep(c) ==
    /\ Parsing("InProtocol") /\ Peek(c)
    /\ IF is_valid_protocol_character(c)
       THEN Take /\ Goto("InProtocol", PushLetter(buf, c)) /\ UNCHANGED url
       ELSE IF c # ":" THEN Return(FALSE, url)
       ELSE LET u == [url EXCEPT !.protocol = ProtocolName(buf)] IN
            CASE u.protocol = "data" ->
                   Take /\ Goto("InDataMimeType", <<>>) /\ url' = [u EXCEPT !.host = ""]
              [] u.protocol = "about" ->
                   Take /\ Goto("InPath", <<>>) /\ url' = [u EXCEPT !.host = ""]
              [] OTHER ->
                   \E k \in Checks("/", "/") :
                      IF k < 2 \/ buf = <<>> THEN Return(FALSE, u)
                      ELSE Skip2 /\ Goto("InHostname", <<>>) /\ url' = u

(* The file case of InHostname without state = State::InPath. *)
HostnameStepStaying(c) ==
    /\ Parsing("InHostname") /\ Peek(c)
    /\ IF is_valid_hostname_character(c)
       THEN Take /\ Goto("InHostname", Mark(buf)) /\ UNCHANGED url
       ELSE IF buf = <<>>
       THEN IF url.protocol = "file"
            THEN Keep(c) /\ Goto("InHostname", buf) /\ url' = [url EXCEPT !.host = ""]
            ELSE Return(FALSE, url)
       ELSE LET u == [url EXCEPT !.host = Copy(buf)] IN
            CASE c = ":" -> Take /\ Goto("InPort", <<>>) /\ url' = u
              [] c = "/" -> Keep(c) /\ Goto("InPath", <<>>) /\ url' = u
              [] OTHER -> Return(FALSE, u)

HostnameStep(c) ==
    /\ Parsing("InHostname") /\ Peek(c)
    /\ IF is_valid_hostname_character(c)
       THEN Take /\ Goto("InHostname", Mark(buf)) /\ UNCHANGED url
       ELSE IF buf = <<>>
       THEN IF url.protocol = "file"
            THEN Keep(c) /\ Goto("InPath", buf) /\ url' = [url EXCEPT !.host = ""]
            ELSE Return(FALSE, url)
       ELSE LET u == [url EXCEPT !.host = Copy(buf)] IN
            CASE c = ":" -> Take /\ Goto("InPort", <<>>) /\ url' = u
              [] c = "/" -> Keep(c) /\ Goto("InPath", <<>>) /\ url' = u
              [] OTHER -> Return(FALSE, u)

PortStep(c) ==
    /\ Parsing("InPort") /\ Peek(c)
    /\ IF is_digit(c)
       THEN Take /\ Goto("InPort", Append(buf, c)) /\ UNCHANGED url
       ELSE IF buf = <<>> \/ to_uint(buf) = NoValue THEN Return(FALSE, url)
       ELSE LET u == [url EXCEPT !.port = ToU16(to_uint(buf))] IN
            IF c = "/" THEN Keep(c) /\ Goto("InPath", <<>>) /\ url' = u
            ELSE Return(FALSE, u)

PathStep(c) ==
    /\ Parsing("InPath") /\ Peek(c) /\ Take
    /\ IF c \in {"?", "#"}
       THEN /\ Goto(IF c = "?" THEN "InQuery" ELSE "InFragment", <<>>)
            /\ url' = [url EXCEPT !.path = Copy(buf)]
       ELSE Goto("InPath", Mark(buf)) /\ UNCHANGED url

QueryStep(c) ==
    /\ Parsing("InQuery") /\ Peek(c) /\ Take
    /\ IF c = "#"
       THEN Goto("InFragment", <<>>) /\ url' = [url EXCEPT !.query = Copy(buf)]
       ELSE Goto("InQuery", Mark(buf)) /\ UNCHANGED url

FragmentStep(c) ==
    Parsing("InFragment") /\ Peek(c) /\ Take /\ Goto("InFragment", Mark(buf)) /\ UNCHANGED url

(* After ';' the next six characters must be "base64" and the one after   *)
(* them ','; k is how many of these two checks pass.                      *)
MimeTypeStep(c) ==
    /\ Parsing("InDataMimeType") /\ Peek(c)
    /\ IF c \notin {";", ","}
       THEN Take /\ Goto("InDataMimeType", Mark(buf)) /\ UNCHANGED url
       ELSE LET u == [url EXCEPT !.mime = Copy(buf)] IN
            IF c = ","
            THEN Take /\ Goto("InDataPayload", <<>>) /\ url' = u
            ELSE \E k \in Checks("b64", ","):
                    CASE k = 0 -> Return(FALSE, u)
                      [] k = 1 -> Return(FALSE, [u EXCEPT !.base64 = TRUE])
                      [] k = 2 -> /\ Skip2 /\ Goto("InDataPayload", <<>>)
                                  /\ url' = [u EXCEPT !.base64 = TRUE]

PayloadStep(c) ==
    Parsing("InDataPayload") /\ Peek(c) /\ Take /\ Goto("InDataPayload", Mark(buf)) /\ UNCHANGED url

(* The loop ends with the input: commit the buffer to the field of the    *)
(* state, default query and fragment to "", apply the default port, and   *)
(* return compute_validity().                                             *)
Finish ==
    /\ phase = "parsing" /\ look = NONE /\ input \in {NONE, <<>>}
    /\ IF st = "InProtocol" \/ (st = "InHostname" /\ buf = <<>>)
       THEN Return(FALSE, url)
       ELSE LET v == to_uint(buf)
                u1 == CASE st = "InHostname" -> [url EXCEPT !.host = Copy(buf), !.path = "text"]
                        [] st = "InPath" -> [url EXCEPT !.path = Copy(buf)]
                        [] st = "InQuery" -> [url EXCEPT !.query = Copy(buf)]
                        [] st = "InFragment" -> [url EXCEPT !.fragment = Copy(buf)]
                        [] st = "InDataPayload" -> [url EXCEPT !.payload = urldecode(Copy(buf))]
                        [] st = "InPort" /\ v # NoValue -> [url EXCEPT !.port = ToU16(v)]
                        [] OTHER -> url
                u2 == [u1 EXCEPT !.query = IF @ = "null" THEN "" ELSE @,
                                 !.fragment = IF @ = "null" THEN "" ELSE @]
                u3 == IF u2.port = 0 /\ RequiresPort(u2.protocol)
                      THEN set_port(u2, DefaultPort(u2.protocol)) ELSE u2
            IN  Return(compute_validity(u3), u3)

ParseStep ==
    \/ \E c \in Alphabet \cup AllDigits :
          \/ ProtocolStep(c) \/ HostnameStep(c) \/ PortStep(c) \/ PathStep(c)
          \/ QueryStep(c) \/ FragmentStep(c) \/ MimeTypeStep(c) \/ PayloadStep(c)
    \/ Finish

(***************************************************************************)
(* The operations on a constructed URL.  Every setter but set_query and   *)
(* set_fragment recomputes m_valid.                                       *)
(***************************************************************************)
set_protocol(u, p) == Recompute([u EXCEPT !.protocol = p])
set_path(u, p) == Recompute([u EXCEPT !.path = p])

Idle(u) ==
    /\ phase = "idle" /\ url' = u /\ parsed' = FALSE
    /\ UNCHANGED <<phase, st, buf, look, budget, input, orig, completing>>

SetProtocol(p) == Idle(set_protocol(url, p))
(* set_host without recomputing m_valid. *)
SetHostKeepingValid(h) == Idle([url EXCEPT !.host = h])

SetHost(h) == Idle(Recompute([url EXCEPT !.host = h]))
SetPort(p) == Idle(set_port(url, p))
SetPath(p) == Idle(set_path(url, p))
SetQuery(q) == Idle([url EXCEPT !.query = q])
SetFragment(f) == Idle([url EXCEPT !.fragment = f])

create_with_file_protocol(p, f) ==
    [set_path(set_protocol(DefaultURL, "file"), p) EXCEPT !.fragment = f]

CreateWithFileProtocol(p, f) == Idle(create_with_file_protocol(p, f))

(* m_valid is set to true before, and independently of, the mime type. *)
create_with_data(m, p, b64) ==
    [set_protocol(DefaultURL, "data") EXCEPT !.valid = TRUE, !.payload = p,
                                             !.mime = m, !.base64 = b64]

CreateWithData(m, p, b64) == Idle(create_with_data(m, p, b64))

(***************************************************************************)
(* to_string() (URL.cpp 236-274), over the model's characters: a field's  *)
(* text is one character that ends no state of parse ("c"; "/" for a      *)
(* path), a protocol the letter run that spells it, and the port its      *)
(* decimal digits.                                                        *)
(***************************************************************************)
RECURSIVE NumberChars(_)
NumberChars(n) ==
    IF n < 10 THEN <<DigitChars[n + 1]>>
    ELSE NumberChars(n \div 10) \o <<DigitChars[(n % 10) + 1]>>

Render(t, chars) == IF t \in {"null", ""} THEN <<>> ELSE chars

ProtocolChars(p) ==
    CASE p \in {"null", ""}                       -> <<>>
      [] p \in {"http", "file", "data", "about"}  -> <<p>>
      [] OTHER                                    -> <<"z", "z">>

to_string(u) ==
    CASE u.protocol = "about" ->
           ProtocolChars(u.protocol) \o <<":">> \o Render(u.path, <<"/">>)
      [] u.protocol = "data" ->
           ProtocolChars(u.protocol) \o <<":">> \o Render(u.mime, <<"c">>)
             \o (IF u.base64 THEN <<";", "b64">> ELSE <<>>)
             \o <<",">> \o Render(u.payload, <<"c">>)
      [] OTHER ->
           ProtocolChars(u.protocol) \o <<":", "/", "/">> \o Render(u.host, <<"c">>)
             \o (IF DefaultPort(u.protocol) # u.port
                 THEN <<":">> \o NumberChars(u.port) ELSE <<>>)
             \o Render(u.path, <<"/">>)
             \o Render(u.query, <<"?", "c">>)
             \o Render(u.fragment, <<"#", "c">>)

(* URL(url.to_string()) of a URL the program parsed and found valid; orig *)
(* keeps the URL to compare with.                                          *)
Reparse ==
    /\ phase = "idle" /\ parsed /\ url.valid
    /\ phase' = "parsing" /\ url' = DefaultURL /\ orig' = url
    /\ st' = "InProtocol" /\ buf' = <<>> /\ look' = NONE /\ budget' = 0
    /\ input' = to_string(url) /\ UNCHANGED <<parsed, completing>>

(***************************************************************************)
(* complete_url(string) (URL.cpp 276-333) of the URL the program holds;   *)
(* the program goes on with the URL it returns.  It first constructs     *)
(* URL(string), a parse of the given characters, and after the parse     *)
(* returns, CompleteStep runs the rest of the function.                  *)
(***************************************************************************)
StartParse(chars) ==
    /\ phase' = "parsing" /\ url' = DefaultURL
    /\ st' = "InProtocol" /\ buf' = <<>> /\ look' = NONE /\ budget' = 0
    /\ input' = chars /\ UNCHANGED <<orig, parsed>>

CompleteURL(s) ==
    /\ phase = "idle"
    /\ IF ~url.valid
       THEN Idle(DefaultURL) /\ UNCHANGED completing
       ELSE /\ StartParse(s)
            /\ completing' = [kind |-> "complete", base |-> url, string |-> s, second |-> FALSE]

(* create_with_url_or_path(string) (URL.cpp 435-443) also starts with     *)
(* URL(string); CompleteStep finishes it.                                 *)
CreateWithUrlOrPath(s) ==
    /\ phase = "idle" /\ StartParse(s)
    /\ completing' = [kind |-> "url_or_path", base |-> DefaultURL, string |-> s, second |-> FALSE]

(* LexicalPath::canonicalized_path, which is not in this repository: a    *)
(* non-empty path canonicalizes to a non-empty one ("." at least); what   *)
(* it makes of the empty string is left open.                             *)
CanonicalizedPaths(s) == IF s = <<>> THEN {"", "text"} ELSE {"text"}

(* complete_url returns u. *)
Completed(u, p) ==
    /\ phase' = "idle" /\ url' = u /\ parsed' = p /\ completing' = NONE
    /\ UNCHANGED <<st, buf, look, budget, input, orig>>

(* LexicalPath(path()) and the loop over its parts first read the last   *)
(* character of path(): String::operator[] on a null or empty path       *)
(* aborts the program.                                                    *)
Abort ==
    /\ phase' = "aborted"
    /\ UNCHANGED <<st, buf, look, budget, url, input, orig, parsed, completing>>

(* url = *this; url.set_fragment(string.substring(1, length - 1)). *)
Fragment(s) == IF Len(s) = 1 THEN "" ELSE "text"

(* Mutant: set_fragment on the URL that failed to parse, without first *)
(* copying *this into it.                                               *)
WithFragmentOnParsed(b, s) == [url EXCEPT !.fragment = Fragment(s)]

WithFragment(b, s) == [b EXCEPT !.fragment = Fragment(s)]

StartsWith(s, c) == s # <<>> /\ Head(s) = c

(* url holds the URL just parsed from the string, or from                 *)
(* String::formatted("{}:{}", m_protocol, string) on the second parse.   *)
CompleteStep ==
    /\ phase = "completing"
    /\ LET b == completing.base
           s == completing.string
       IN  CASE url.valid -> Completed(url, TRUE)
             [] completing.kind = "url_or_path" ->
                  \E p \in CanonicalizedPaths(s) :
                     Completed(create_with_file_protocol(p, "null"), FALSE)
             [] b.protocol = "data" -> Completed(DefaultURL, FALSE)
             [] ~completing.second /\ IsPrefix(<<"/", "/">>, s) ->
                  /\ StartParse(ProtocolChars(b.protocol) \o <<":">> \o s)
                  /\ completing' = [completing EXCEPT !.second = TRUE]
             [] StartsWith(s, "/") -> Completed(set_path(b, "text"), FALSE)
             [] StartsWith(s, "#") ->
                  Completed(WithFragment(b, s), FALSE)
             [] b.path \in {"null", ""} -> Abort
             [] OTHER -> Completed(set_path(b, "text"), FALSE)

Next ==
    \/ Construct \/ ConstructNull \/ ParseStep \/ Reparse \/ CompleteStep
    \/ \E s \in Refs : CompleteURL(s) \/ CreateWithUrlOrPath(s)
    \/ \E p \in Protocols : SetProtocol(p)
    \/ \E h \in Hosts : SetHost(h)
    \/ \E p \in Ports : SetPort(p)
    \/ \E p \in Paths : SetPath(p) \/ SetQuery(p) \/ SetFragment(p)
    \/ \E p, f \in Paths : CreateWithFileProtocol(p, f)
    \/ \E m \in DataMimes, p \in Paths, b64 \in BOOLEAN : CreateWithData(m, p, b64)

(* The constructor runs parse to completion: nothing else happens while   *)
(* it runs, so its steps are weakly fair.                                 *)
Spec == Init /\ [][Next]_vars /\ WF_vars(ParseStep) /\ WF_vars(CompleteStep)

(***************************************************************************)
(* Properties.                                                            *)
(***************************************************************************)
TypeOK ==
    /\ phase \in {"idle", "parsing", "completing", "aborted"} /\ st \in States
    /\ buf \in Seq(Alphabet \cup AllDigits) /\ look \in Alphabet \cup AllDigits \cup {NONE}
    /\ budget \in 0..MaxLen
    /\ url.port \in 0..(2^16 - 1)
    /\ {url.host, url.path, url.query, url.fragment, url.mime, url.payload} \subseteq Text
    /\ url.base64 \in BOOLEAN /\ url.valid \in BOOLEAN
    /\ completing = NONE \/ (completing.string \in Refs /\ completing.second \in BOOLEAN)

(* URL::parse terminates on every input: each iteration of its loop       *)
(* either consumes a character or moves to a state that will, so the      *)
(* constructor always returns; so does complete_url, unless it aborts.   *)
ParseTerminates == phase \in {"parsing", "completing"} ~> phase \in {"idle", "aborted"}

(* Spec section 3: validity is derived, recomputed from the fields after  *)
(* every mutation.  A URL whose m_valid is true satisfies                 *)
(* compute_validity(), whether it was parsed, built by create_with_*, or  *)
(* changed by a setter.                                                   *)
ValidityDerived == url.valid => compute_validity(url)

(* The same rule, kept by every step but create_with_data, which sets     *)
(* m_valid without looking at the mime type: starting from a URL whose    *)
(* m_valid agrees with its fields, a parse step, its finalisation, a      *)
(* setter, complete_url or another create_with_* never makes a URL        *)
(* marked valid whose fields are not.                                     *)
CreatedWithData(u) ==
    \E m \in DataMimes, p \in Paths, b64 \in BOOLEAN : u = create_with_data(m, p, b64)

ValidityPreserved ==
    [][ValidityDerived /\ ~CreatedWithData(url') => ValidityDerived']_vars

(* Spec section 7: reading the fields of an address whose parse failed    *)
(* returns default/empty values.  A parse that returns false leaves every *)
(* text field null or empty, the port 0 and the base64 flag clear.        *)
Blank(u) ==
    /\ {u.protocol, u.host, u.path, u.query, u.fragment, u.mime, u.payload} \subseteq {"null", ""}
    /\ u.port = 0 /\ ~u.base64

FailedParseLeavesDefaults ==
    [][phase = "parsing" /\ phase' \in {"idle", "completing"} /\ ~url'.valid => Blank(url')]_vars

(* Spec section 7 (round trip): a valid address serializes back to an     *)
(* address with the same fields, and the port is left out of the text     *)
(* exactly when it is the protocol's default.  Parsing to_string() of a   *)
(* valid parsed URL gives a URL equal to it.                               *)
RoundTrip ==
    [][phase = "parsing" /\ phase' = "idle" /\ orig # NONE => url' = orig]_vars

(* complete_url of a valid URL resolves the string against it: the       *)
(* result is a valid URL, unless the base is a data: URL and the string   *)
(* is no URL by itself (complete_url returns {}), and a result that was   *)
(* not parsed from the string is the base with only its path or          *)
(* fragment replaced, so it keeps the base's protocol, host, port and     *)
(* validity.                                                              *)
CompleteResolvesAgainstBase ==
    [][phase = "completing" /\ phase' = "idle" /\ completing.kind = "complete" =>
         LET b == completing.base IN
         /\ url'.valid \/ (b.protocol = "data" /\ url' = DefaultURL)
         /\ ~parsed' /\ url' # DefaultURL =>
               /\ url'.protocol = b.protocol /\ url'.host = b.host
               /\ url'.port = b.port /\ url'.valid = b.valid]_vars

(* complete_url is a total function of a valid URL: whatever the string, *)
(* it returns a URL (TestURL calls it on parsed http URLs) and never      *)
(* aborts the program, in particular not on the read of the path's last *)
(* character in its relative branch.                                      *)
CompleteNeverAborts == phase # "aborted"
====
