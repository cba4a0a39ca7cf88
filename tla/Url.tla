---------------------------------- MODULE Url ----------------------------------
(***************************************************************************)
(* url_t (include/skal/util.hpp, src/skal/util.cpp): the parts of a URL    *)
(* and, cached, the URL they make.  A string is a sequence of characters;  *)
(* any character but ':' and '/' is the letter "a".                        *)
(***************************************************************************)
EXTENDS Naturals, Sequences

CONSTANTS
    MaxLen,  \* bound: length of a string that is parsed
    MaxCall  \* bound: calls

VARIABLES
    uri,     \* url_
    parts,   \* scheme_, host_, port_ and path_
    thrown,  \* the exception of the last call of url(), or "none"
    calls    \* calls so far

vars == <<uri, parts, thrown, calls>>

Text == UNION {[1..n -> {":", "/", "a"}] : n \in 0..MaxLen}

\* What the setters are given.
Part == {<<>>, <<"a">>, <<"/">>, <<":">>, <<"/", "a">>}

\* A default url_t: the parts are empty and so is url_.
Init ==
    /\ uri = <<>>
    /\ parts = [scheme |-> <<>>, host |-> <<>>, port |-> <<>>, path |-> <<>>]
    /\ thrown = "none"
    /\ calls = 0

\* std::string::find: the first place of c in s, or 0.
Find(s, c) ==
    IF \E i \in DOMAIN s : s[i] = c
    THEN CHOOSE i \in DOMAIN s : s[i] = c /\ \A j \in 1..(i - 1) : s[j] # c
    ELSE 0

\* std::string::substr
From(s, i) == SubSeq(s, i, Len(s))
UpTo(s, i) == SubSeq(s, 1, i)
-------------------------------------------------------------------------------
\* Mutant: the port is written without its colon.
UpdateUrl_NoColon(p) == p.scheme \o <<":", "/", "/">> \o p.host \o p.port \o p.path

\* update_url()
UpdateUrl(p) ==
    p.scheme \o <<":", "/", "/">> \o p.host
      \o (IF p.port = <<>> THEN <<>> ELSE <<":">> \o p.port) \o p.path

\* "host:port/path", what follows the scheme.
ReadRest(scheme, s) ==
    LET slash == Find(s, "/")
        server == IF slash = 0 THEN s ELSE UpTo(s, slash - 1)
        colon == Find(server, ":")
    IN  [scheme |-> scheme,
         host |-> IF colon = 0 THEN server ELSE UpTo(server, colon - 1),
         port |-> IF colon = 0 THEN <<>> ELSE From(server, colon + 1),
         path |-> IF slash = 0 THEN <<>> ELSE From(s, slash)]

\* Where the rest of s begins: one '/' after the first ':' is enough for two
\* characters to be skipped.
RestAt(s) ==
    LET i == Find(s, ":") + 1
    IN  IF i <= Len(s) /\ s[i] = "/" THEN i + 2 ELSE i

\* url(s) of an object with parts p: the parts it leaves, and what it throws.
\* scheme_ is assigned before the checks.
Read(s, p) ==
    LET colon == Find(s, ":")
        scheme == UpTo(s, colon - 1)
    IN  IF colon = 0 THEN [parts |-> p, thrown |-> "bad_url"]
        ELSE IF scheme = <<>>
          THEN [parts |-> [p EXCEPT !.scheme = scheme], thrown |-> "bad_url"]
        ELSE IF RestAt(s) > Len(s) + 1
          THEN [parts |-> [p EXCEPT !.scheme = scheme], thrown |-> "out_of_range"]
        ELSE [parts |-> ReadRest(scheme, From(s, RestAt(s))), thrown |-> "none"]

\* url(s), the constructor from a string, and the assignment of a string.
SetUrl(s) ==
    /\ calls < MaxCall /\ calls' = calls + 1
    /\ parts' = Read(s, parts).parts
    /\ thrown' = Read(s, parts).thrown
    /\ uri' = IF thrown' = "none" THEN UpdateUrl(parts') ELSE uri

\* scheme(s), host(s), port(s) and path(s)
SetPart(f, s) ==
    /\ calls < MaxCall /\ calls' = calls + 1
    /\ parts' = [parts EXCEPT ![f] = s]
    /\ uri' = UpdateUrl(parts')
    /\ thrown' = "none"

\* The constructor from the parts, in place of the default one.  An object that
\* is assigned what it makes is as good as new.
Assemble(p) ==
    /\ calls = 0 /\ calls' = 1
    /\ parts' = p
    /\ uri' = UpdateUrl(p)
    /\ thrown' = "none"

Next ==
    \/ \E s \in Text : SetUrl(s)
    \/ \E f \in DOMAIN parts, s \in Part : SetPart(f, s)
    \/ \E p \in [DOMAIN parts -> Part] : Assemble(p)

Spec == Init /\ [][Next]_vars
-------------------------------------------------------------------------------
\* Parts that a URL can tell apart.
WellFormed(p) ==
    /\ p.scheme # <<>> /\ Find(p.scheme, ":") = 0
    /\ Find(p.host, ":") = 0 /\ Find(p.host, "/") = 0
    /\ Find(p.port, "/") = 0
    /\ p.path = <<>> \/ p.path[1] = "/"

\* Whatever was parsed and set before, the cached URL reads back as the parts,
\* if a URL can tell them: what one process prints another one understands.  A
\* call of url() that throws may leave another scheme_ behind, and nothing else.
ReadsBack ==
    LET got  == Read(uri, parts)
        kept == [parts EXCEPT !.scheme = got.parts.scheme]
    IN  uri # <<>> /\ WellFormed(kept) =>
          /\ got = [parts |-> kept, thrown |-> "none"]
          /\ thrown = "none" => kept = parts
===============================================================================
