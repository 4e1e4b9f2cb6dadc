------------------------------ MODULE MCRouter ------------------------------
(* Small instances of Router for TLC. *)
EXTENDS Router, TLC

\* The path of the secret "odd" holds a line terminator.
MCScheme == "env" :> "env" @@ "cred" :> "cred" @@ "file" :> "file" @@ "odd" :> "file"

\* The text of a secret, with and without a line terminator, and what is none.
MCContents == {Absent, <<>>, <<"secret">>, <<"secret", "newline">>, <<"newline">>, <<"control">>}

Plain == [url |-> "http://host", health |-> "/path", headers |-> <<>>, unlisted |-> FALSE]

Models(names) == [m \in names |-> Plain]

Base ==
    [syntax |-> "ok", maxBodyBytes |-> 0, maxBufferedBytes |-> 1, listen |-> {"host:port", "unix:///path"},
     tokens |-> "t" :> <<"text">>, models |-> Models({<<"a">>})]

WithModel(m) == [Base EXCEPT !.models = <<"a">> :> m]

\* The names that routing tells apart: one below another, one unlisted, dots,
\* and empty segments in every place.
Names ==
    {{<<"a">>, <<"a", "b">>}, {<<"a", "b">>, <<"a", "b", "a">>}, {<<"a", "..", "b">>}, {<<"..">>},
     {<<"route", "a">>}, {<<"">>}, {<<"", "a">>}, {<<"", "route", "a">>}, {<<"a", "">>}, {<<"a", "", "b">>}}

NamesFiles ==
    {[Base EXCEPT !.models = Models(n)] : n \in Names} \union
    {[Base EXCEPT !.models = <<"a">> :> [Plain EXCEPT !.unlisted = TRUE] @@ <<"a", "b">> :> Plain]}

\* Everything but names and values that is accepted or not.
AddressFiles ==
    {[Base EXCEPT !.syntax = "unknown key"], [Base EXCEPT !.maxBodyBytes = -1], [Base EXCEPT !.models = <<>>]} \union
    {[Base EXCEPT !.listen = {l}] : l \in Listens} \union
    {WithModel([Plain EXCEPT !.url = u]) : u \in URLs} \union
    {WithModel([Plain EXCEPT !.health = p]) : p \in HealthPaths}

\* Tokens of one or two parts, and two tokens of which one may fail.
TokenValues ==
    {<<"env">>, <<"cred">>, <<"text", "env">>, <<"env", "env">>, <<"${}">>, <<"${}", "env">>, <<"$$", "text">>,
     <<"control">>, <<"unknown">>, <<"text", "odd">>, <<"control", "odd">>, <<>>}

TokenFiles ==
    {[Base EXCEPT !.tokens = "t" :> v] : v \in TokenValues} \union
    {[Base EXCEPT !.tokens = "t" :> <<"text">> @@ "u" :> v] : v \in TokenValues} \union
    {[Base EXCEPT !.tokens = <<>>], [Base EXCEPT !.tokens = "" :> <<"text">>]}

\* Headers that differ in case, an invalid one, and the two that are handled apart.
Headers ==
    {<<"X", "X">> :> <<"text">> @@ <<"X", "x">> :> <<"env">>,
     <<"X", "X">> :> <<"text">> @@ <<"", "bad header">> :> <<"text">>,
     <<"Host", "host">> :> <<"env">> @@ <<"X", "X">> :> <<"${}">>,
     <<"Authorization", "authorization">> :> <<"text", "file">> @@ <<"X", "X">> :> <<"$$">>,
     <<"X", "X">> :> <<"odd">> @@ <<"Host", "host">> :> <<"text">>}

HeaderFiles ==
    {WithModel([Plain EXCEPT !.headers = h]) : h \in Headers} \union
    {[WithModel([Plain EXCEPT !.headers = h]) EXCEPT !.tokens = <<>>] : h \in Headers}

NoSecrets == [s \in Secrets |-> Absent]

MCInstances ==
    ((NamesFiles \union AddressFiles) \X {NoSecrets}) \union
    ((TokenFiles \union HeaderFiles) \X {[s \in Secrets |-> c] : c \in MCContents})

\* "R" and "A" are "route" and "a" with an escaped letter.
MCText ==
    [w \in {"", ".", "..", "route", "v1", "models", "health", "a", "b"} |-> w] @@ "R" :> "route" @@ "A" :> "a"

Segments == {<<"a">>, <<"b">>, <<"A">>, <<"a", "b">>, <<"">>, <<"..">>, <<"a", "..", "b">>}

Paths ==
    LET rests == {<<s>> : s \in Segments} \union {<<s, t>> : s, t \in Segments}
                 \union {<<<<"a">>, s, t>> : s, t \in Segments} IN
    UNION {{<<<<"route">>>> \o s, <<<<"R">>>> \o s, <<<<"R">> \o s[1]>> \o Tail(s), <<<<"v1">>, <<"models">>>> \o s} : s \in rests}
    \union {<<<<"health">>>>, <<<<"v1">>, <<"models">>>>, <<<<"v1", "models">>>>, <<<<"a">>>>}

Request ==
    [get |-> TRUE, path |-> <<<<"a">>>>, bearer |-> <<"text">>, model |-> <<"a">>, host |-> <<"client">>]

\* Every path, and every credential and method on some.
MCRequests ==
    {[Request EXCEPT !.path = p] : p \in Paths} \union
    {[Request EXCEPT !.path = p, !.bearer = b, !.get = g] :
        p \in {<<<<"a">>>>, <<<<"route">>, <<"a">>>>, <<<<"health">>>>, <<<<"v1">>, <<"models">>>>},
        b \in {Nobody, <<>>, <<"text">>, <<"secret">>, <<"text", "secret">>, <<"env">>, <<"$", "text">>, <<"${}">>},
        g \in BOOLEAN} \union
    {[Request EXCEPT !.model = m] : m \in {Nobody, <<"a", "b">>, <<"b">>}}

=============================================================================
