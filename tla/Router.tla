------------------------------- MODULE Router -------------------------------
(***************************************************************************)
(* The handler that router.New builds from a configuration, as the         *)
(* requests it answers: the health endpoint, authentication, the models    *)
(* API, and the backend a request goes to, with the path and the headers   *)
(* it has there (src/internal/router/router.go and models.go).  The        *)
(* limits, the slots and the body are those of module ProxyHandler.        *)
(*                                                                         *)
(* The path of a request is what it says on the wire: the sequence of its  *)
(* segments between slashes, each the sequence of its pieces between       *)
(* escaped slashes (`%2F'), each a member of Written that stands for Text. *)
(* So /route/org%2Fname/x is <<<<"route">>, <<"org", "name">>, <<"x">>>>,  *)
(* and both it and /route/org/name/x name the model <<"org", "name">>.     *)
(***************************************************************************)
EXTENDS Config

CONSTANTS
    Written,    \* the ways to write a piece of a path
    Text,       \* what each of them stands for
    Requests

ASSUME RouterAssumption ==
    /\ DOMAIN Text = Written
    /\ {"", ".", "..", "route", "v1", "models", "health"} \subseteq Written
    /\ \A w \in {"", ".", "..", "route", "v1", "models", "health"} : Text[w] = w
    /\ \A r \in Requests : r.path \in Seq(Seq(Written) \ {<<>>}) \ {<<>>}

\* The plain spelling of a text, that of url.PathEscape, has the name of the
\* text.  Every piece of the name of a model has one.
Unescaped == {w \in Written : Text[w] = w}

ASSUME NamesAssumption ==
    \A i \in Instances : DOMAIN i[1].models \subseteq Seq(Unescaped) \ {<<>>}

VARIABLE last   \* the request being answered, and its answer

vars == <<configVars, last>>

None == [request |-> Nobody]

TypeOK ==
    /\ ConfigTypeOK
    /\ last = None \/ last.request \in Requests

-----------------------------------------------------------------------------
(* Paths. *)

\* The text of a segment, and of segments, cut at its slashes.
Segment(s) == [i \in DOMAIN s |-> Text[s[i]]]
Decoded(path) == FlattenSeq([i \in DOMAIN path |-> Segment(path[i])])

\* http.ServeMux redirects a path with empty segments or dots to a clean one.
Clean(path) ==
    /\ \A i \in 1 .. Len(path) - 1 : path[i] # <<"">>
    /\ \A i \in DOMAIN path : path[i] \notin {<<".">>, <<"..">>}

\* http.ServeMux matches a literal segment of a pattern once it is unescaped.
IsHealth(path) == Len(path) = 1 /\ Segment(path[1]) = <<"health">>
IsCatalog(path) ==
    /\ Len(path) \in Nat \ {0, 1}
    /\ Segment(path[1]) = <<"v1">> /\ Segment(path[2]) = <<"models">>

\* Fault: the prefix is looked for in the path as it is written.
HasRoutePrefixFault(path) == Len(path) > 1 /\ path[1] = <<"route">>

HasRoutePrefix(path) == Len(Decoded(path)) > 1 /\ Decoded(path)[1] = "route"

\* What is left of the escaped path without the prefix, which stays if it is not written plainly.
Stripped(path) ==
    IF path[1] = <<"route">> THEN Tail(path) ELSE <<<<"">>>> \o path

\* What routeModel returns for the first n segments, or, if there are none that
\* name a model, for the first one.
Named(path, n) ==
    LET rest == Stripped(path) IN
    IF n = 0 THEN [model |-> Segment(rest[1]), rest |-> <<>>, ok |-> FALSE]
    ELSE [model |-> Decoded(SubSeq(rest, 1, n)), rest |-> SubSeq(rest, n + 1, Len(rest)), ok |-> TRUE]

\* The lengths at which the segments are the name of a model.
Lengths(path) ==
    LET rest == Stripped(path) IN
    {n \in 1 .. Len(rest) : Decoded(SubSeq(rest, 1, n)) \in DOMAIN backends}

\* Fault: the shortest name wins.
RouteModelFault(path) ==
    IF Lengths(path) = {} THEN Named(path, 0) ELSE Named(path, Min(Lengths(path)))

\* routeModel tries the names from the longest down.
RouteModel(path) ==
    IF Lengths(path) = {} THEN Named(path, 0) ELSE Named(path, Max(Lengths(path)))

Listed == {m \in DOMAIN backends : ~file.models[m].unlisted}

-----------------------------------------------------------------------------
(* Requests. *)

CheckBearer(bearer) ==
    \E n \in DOMAIN tokens : bearer # Nobody /\ bearer = FlattenSeq(tokens[n])

Authorized(r) == DOMAIN tokens = {} \/ CheckBearer(r.bearer)

\* The client's Authorization header, after authMiddleware.
Forwarded(r) == IF DOMAIN tokens = {} THEN r.bearer ELSE Nobody

\* The headers a backend sees: its own, or else the client's.
Sent(r, m, path) ==
    LET own == backends[m]
        host == IF "Host" \in DOMAIN own THEN FlattenSeq(own["Host"]) ELSE <<>> IN
    [path |-> path,
     host |-> IF host # <<>> THEN host ELSE r.host,
     headers |-> [c \in DOMAIN own \ {"Host"} |-> own[c]],
     authorization |-> IF "Authorization" \in DOMAIN own THEN FlattenSeq(own["Authorization"]) ELSE Forwarded(r)]

Answer(r, status, m, sent) ==
    /\ last' = [request |-> r, status |-> status, model |-> m, sent |-> sent]
    /\ UNCHANGED configVars

Redirect(r) ==
    /\ ~Clean(r.path)
    /\ Answer(r, 301, Nobody, Nobody)

Health(r) ==
    /\ Clean(r.path) /\ r.get /\ IsHealth(r.path)
    /\ Answer(r, 200, Nobody, Nobody)

Guarded(r) == Clean(r.path) /\ ~(r.get /\ IsHealth(r.path))

Unauthorized(r) ==
    /\ Guarded(r) /\ ~Authorized(r)
    /\ Answer(r, 401, Nobody, Nobody)

Catalog(r) ==
    /\ Guarded(r) /\ Authorized(r) /\ r.get /\ IsCatalog(r.path)
    /\ LET name == Decoded(SubSeq(r.path, 3, Len(r.path))) IN
       IF Len(r.path) = 2 THEN Answer(r, 200, Nobody, Nobody)
       ELSE IF name \in Listed THEN Answer(r, 200, name, Nobody)
       ELSE Answer(r, 404, name, Nobody)

Proxied(r) == Guarded(r) /\ Authorized(r) /\ ~(r.get /\ IsCatalog(r.path))

ByPath(r) ==
    /\ Proxied(r) /\ HasRoutePrefix(r.path)
    /\ LET to == RouteModel(r.path) IN
       IF to.ok THEN Answer(r, 0, to.model, Sent(r, to.model, to.rest))
       ELSE Answer(r, 404, to.model, Nobody)

ByBody(r) ==
    /\ Proxied(r) /\ ~HasRoutePrefix(r.path)
    /\ IF r.model = Nobody THEN Answer(r, 400, Nobody, Nobody)
       ELSE IF r.model \in DOMAIN backends THEN Answer(r, 0, r.model, Sent(r, r.model, r.path))
       ELSE Answer(r, 404, r.model, Nobody)

Init == LoadInit /\ last = None

Respond ==
    /\ phase = "serving" /\ last = None
    /\ \E r \in Requests :
           Redirect(r) \/ Health(r) \/ Unauthorized(r) \/ Catalog(r) \/ ByPath(r) \/ ByBody(r)

\* The answer is written, and another request may come.
Over == last # None /\ last' = None /\ UNCHANGED configVars

Next == (Load /\ UNCHANGED last) \/ Respond \/ Over

Spec == Init /\ [][Next]_vars

-----------------------------------------------------------------------------
(* Properties. *)

\* Nothing but the expansion of a token of the file authenticates: not the
\* text that refers to it, and never the empty credential.  A backend never
\* sees a credential of a client that was authenticated.
OnlyTokensAuthenticate ==
    last # None /\ last.status \notin {301, 401} /\ TokenTexts # {} =>
        \/ last.status = 200 /\ IsHealth(last.request.path)
        \/ /\ last.request.bearer \notin {Nobody, <<>>}
           /\ \E text \in TokenTexts : last.request.bearer = FlattenSeq(Expanded(text, TRUE))
           /\ last.sent # Nobody =>
                  \/ "Authorization" \in DOMAIN backends[last.model]
                  \/ last.sent.authorization = Nobody

\* Every header of a model reaches its backend with the value of its text,
\* in place of the client's, in whichever order the maps are gone through.
\* An empty Host is no Host.
HeadersReachBackend ==
    last # None /\ last.sent # Nobody =>
        LET own == file.models[last.model].headers IN
        \A h \in DOMAIN own :
            LET value == Expanded(own[h], TRUE) IN
            IF h[1] # "Host"
            THEN h[1] \in DOMAIN last.sent.headers /\ last.sent.headers[h[1]] = value
            ELSE FlattenSeq(value) \in {<<>>, last.sent.host}

\* The path leads to m and nothing else.
LeadsTo(path, m) ==
    /\ Clean(path) /\ HasRoutePrefix(path)
    /\ RouteModel(path) = [model |-> m, rest |-> <<>>, ok |-> TRUE]

\* A model of an accepted configuration is reached by its path, "and a name
\* with `/' may be written raw or with `%2F'" (routeModel).  A name with dots
\* for a segment only has the second way, since http.ServeMux cleans the first.
NamesReachable ==
    phase = "serving" =>
        \A m \in DOMAIN file.models :
            LET dots == {".", ".."} \intersect ToSet(m) # {} IN
            /\ ~dots => LeadsTo(<<<<"route">>>> \o [i \in DOMAIN m |-> <<m[i]>>], m)
            /\ ~dots \/ Len(m) > 1 => LeadsTo(<<<<"route">>, m>>, m)

\* A request below /route/, in any spelling, only goes to the model that its
\* path names after a prefix written plainly, and to the one with the longest
\* name, with the rest of the path as it was written.  Any other goes to the
\* model of its body, with its path.
SentAsWritten ==
    last # None /\ last.sent # Nobody =>
        LET path == last.request.path
            text == Decoded(path) IN
        IF Len(text) > 1 /\ text[1] = "route"
        THEN \E n \in 2 .. Len(path) :
                /\ path[1] = <<"route">> /\ Decoded(SubSeq(path, 2, n)) = last.model
                /\ last.sent.path = SubSeq(path, n + 1, Len(path))
                /\ \A k \in n + 1 .. Len(path) : Decoded(SubSeq(path, 2, k)) \notin DOMAIN file.models
        ELSE last.model = last.request.model /\ last.sent.path = path

\* The models API retrieves, from any spelling of a name, the listed model to
\* which the same spelling leads after /route/, and no other.
CatalogAgrees ==
    last # None /\ last.status \in {200, 404} /\ last.request.get
    /\ IsCatalog(last.request.path) /\ Len(last.request.path) > 2 =>
        LET path == <<<<"route">>>> \o SubSeq(last.request.path, 3, Len(last.request.path)) IN
        last.status = 200 <=>
            /\ LeadsTo(path, last.model)
            /\ ~file.models[last.model].unlisted

=============================================================================
