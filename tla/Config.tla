------------------------------- MODULE Config -------------------------------
(***************************************************************************)
(* `llmhop check' and then `llmhop serve' load one configuration file:     *)
(* config.Load, which expands the secrets only to serve, and router.New,   *)
(* up to the handler that answers (src/cmd/llmhop/main.go, load).          *)
(*                                                                         *)
(* The text of a token or header is the sequence of what os.Expand tells   *)
(* apart in it:                                                            *)
(*   "text"      characters that stand for themselves;                     *)
(*   "$$"        an escaped dollar sign;                                   *)
(*   "${}"       a malformed reference, which os.Expand drops;             *)
(*   "control"   a byte that no header may contain, in the text itself;    *)
(*   "unknown"   a reference to no scheme, or to an invalid argument;      *)
(*   a member of Secrets, a well-formed reference to it, whose argument    *)
(*               may hold a control byte too (Unprintable).                *)
(* A value is a sequence of chunks, one for each of these, and a chunk a   *)
(* sequence of characters: what follows is whether a value is empty or     *)
(* invalid, and which values are equal.                                    *)
(*                                                                         *)
(* Go visits a map in any order, so a loop over one takes its names from   *)
(* todo in any order and stops at the first error.                         *)
(***************************************************************************)
EXTENDS Integers, Sequences, SequencesExt

CONSTANTS
    Secrets,        \* the secrets a configuration may refer to
    Scheme,         \* "cred", "env" or "file", for each of them
    Unprintable,    \* those whose reference holds a byte that no header may contain
    Absent,         \* stands for the contents of a secret that does not exist
    Nobody,         \* no model, and no value
    Instances       \* the files to load, each with the secrets there are by then

Commands == {"check", "serve"}
Invalid == {"control", "newline"}

\* The forms of an address that the parsers tell apart.
Listens == {"host:port", "unix:///path", "unix://path", "unix:///path?x", "host", "host:65536"}
URLs == {"http://host", "http://user@host", "http:", "unix:///path", "unix://host/path", "host:port"}
HealthPaths == {"", "/path", "path", "http://host/path"}

ASSUME ConfigAssumption ==
    /\ Scheme \in [Secrets -> {"cred", "env", "file"}]
    /\ Unprintable \subseteq Secrets
    /\ Secrets \intersect {"text", "$$", "${}", "control", "newline", "unknown"} = {}
    /\ \A i \in Instances : i = <<i[1], i[2]>>

IsSequence(s) == s \in Seq(ToSet(s))

ASSUME TextAssumption ==
    \A i \in Instances :
        /\ \A n \in DOMAIN i[1].tokens : IsSequence(i[1].tokens[n])
        /\ \A s \in Secrets : i[2][s] = Absent \/ IsSequence(i[2][s])

VARIABLES
    file,       \* the configuration file
    secrets,    \* the contents of each secret, or Absent
    command,    \* the command that runs, or ran last
    verdict,    \* what each command made of the file
    phase,      \* the loop it is in
    todo,       \* the names that the loop has not visited
    model,      \* the model whose headers are visited
    headers,    \* its headers not yet visited
    seen,       \* the canonical names of those visited
    tokens,     \* cfg.AuthTokens
    values,     \* the headers of cfg.Models
    backends    \* the headers of each backend built, by canonical name

loop == <<todo, model, headers, seen>>
loaded == <<tokens, values, backends>>
configVars == <<file, secrets, command, verdict, phase, loop, loaded>>

ConfigTypeOK ==
    /\ <<file, secrets>> \in Instances
    /\ command \in Commands
    /\ verdict \in [Commands -> {"none", "accepted", "refused"}]
    /\ phase \in {"idle", "limits", "tokens", "models", "headers", "backends", "serving"}
    /\ phase = "serving" => verdict["serve"] = "accepted"
    /\ phase = "headers" => model \in DOMAIN file.models /\ headers \subseteq DOMAIN file.models[model].headers
    /\ phase = "tokens" => todo \subseteq DOMAIN file.tokens
    /\ phase \in {"models", "headers", "backends"} => todo \subseteq DOMAIN file.models
    /\ phase = "serving" => DOMAIN backends = DOMAIN file.models

-----------------------------------------------------------------------------
(* Secrets. *)

\* readFile trims the line terminators that end a file.
Trimmed(c) == SubSeq(c, 1, CHOOSE n \in 0 .. Len(c) :
    /\ \A i \in n + 1 .. Len(c) : c[i] = "newline"
    /\ n > 0 => c[n] # "newline")

Contents(s) == IF Scheme[s] = "env" THEN secrets[s] ELSE Trimmed(secrets[s])

\* Fault: a check reads the secrets too, where there are none.
UnresolvedFault(x, expand) == x = "unknown" \/ (x \in Secrets /\ (expand => secrets[x] = Absent))

Unresolved(x, expand) == x = "unknown" \/ (expand /\ x \in Secrets /\ secrets[x] = Absent)

\* Fault: a check does not look at the references.
FailsFault(text, expand) == expand /\ \E i \in DOMAIN text : Unresolved(text[i], expand)

\* secrets.Expand: it fails, or returns the text as it is or expanded.
Fails(text, expand) == \E i \in DOMAIN text : Unresolved(text[i], expand)

\* A part of a text as it stands in the file.
Raw(x) == IF x \in Unprintable THEN <<x, "control">> ELSE <<x>>

Chunk(x, expand) ==
    IF ~expand \/ x \notin Secrets \union {"${}", "$$"} THEN Raw(x)
    ELSE IF x \in Secrets THEN Contents(x)
    ELSE IF x = "${}" THEN <<>> ELSE <<"$">>

Expanded(text, expand) == [i \in DOMAIN text |-> Chunk(text[i], expand)]

\* Fault: only a value without any text is empty.
EmptyFault(value) == value = <<>>

Empty(value) == \A i \in DOMAIN value : value[i] = <<>>

ValidHeaderValue(value) == \A i \in DOMAIN value : \A j \in DOMAIN value[i] : value[i][j] \notin Invalid

-----------------------------------------------------------------------------
(* The names and addresses of a file. *)

\* Fault: only a whole name may not be empty.
ValidModelNameFault(name) == name # <<"">>

\* A name is the sequence of its segments between slashes; none may be empty.
ValidModelName(name) == \A i \in DOMAIN name : name[i] # ""

\* Fault: headers that differ in case are taken for different ones.
CanonicalFault(h) == h[2]

\* A header is the pair of its canonical name, empty if it is invalid, and its spelling.
Canonical(h) == h[1]

ValidHeaderName(h) == h[1] # ""

ValidListen(l) == l \in {"host:port", "unix:///path"}

ValidURL(u) == u \in {"http://host", "unix:///path"}

ValidHealthPath(p) == p \in {"", "/path"}

-----------------------------------------------------------------------------
(* Loading. *)

LoadInit ==
    /\ \E i \in Instances : file = i[1] /\ secrets = i[2]
    /\ command = "check" /\ verdict = [c \in Commands |-> "none"] /\ phase = "idle"
    /\ todo = {} /\ model = Nobody /\ headers = {} /\ seen = {}
    /\ tokens = <<>> /\ values = <<>> /\ backends = <<>>

\* The loop p begins with the names s.
Begin(p, s) ==
    /\ phase' = p
    /\ todo' = s /\ model' = Nobody /\ headers' = {} /\ seen' = {}

\* load returns, with an error or the configuration and its handler.
Returns(v) ==
    /\ verdict' = [verdict EXCEPT ![command] = v]
    /\ Begin(IF command = "serve" /\ v = "accepted" THEN "serving" ELSE "idle", {})
    /\ UNCHANGED <<file, secrets, command>>

Refuse == Returns("refused") /\ UNCHANGED loaded

\* A command is run, and decodes the file.
Start(c) ==
    /\ phase = "idle"
    /\ verdict[c] = "none" /\ (c = "serve" => verdict["check"] # "none")
    /\ command' = c
    /\ tokens' = <<>> /\ values' = <<>> /\ backends' = <<>>
    /\ IF file.syntax # "ok"
       THEN /\ verdict' = [verdict EXCEPT ![c] = "refused"]
            /\ UNCHANGED <<phase, loop>>
       ELSE /\ Begin("limits", {})
            /\ UNCHANGED verdict
    /\ UNCHANGED <<file, secrets>>

\* The checks of Config.validate before its loops.
Limits ==
    /\ phase = "limits"
    /\ IF \/ DOMAIN file.models = {}
          \/ file.maxBodyBytes < 0 \/ file.maxBufferedBytes < 0
          \/ \E l \in file.listen : ~ValidListen(l)
       THEN Refuse
       ELSE /\ Begin("tokens", DOMAIN file.tokens)
            /\ UNCHANGED <<file, secrets, command, verdict, loaded>>

Token(n) ==
    /\ phase = "tokens" /\ n \in todo
    /\ LET value == Expanded(file.tokens[n], command = "serve") IN
       IF n = "" \/ Fails(file.tokens[n], command = "serve") \/ Empty(value) \/ ~ValidHeaderValue(value)
       THEN Refuse
       ELSE /\ tokens' = [m \in DOMAIN tokens \union {n} |-> IF m = n THEN value ELSE tokens[m]]
            /\ todo' = todo \ {n}
            /\ UNCHANGED <<file, secrets, command, verdict, phase, model, headers, seen, values, backends>>

TokensDone ==
    /\ phase = "tokens" /\ todo = {}
    /\ Begin("models", DOMAIN file.models)
    /\ UNCHANGED <<file, secrets, command, verdict, loaded>>

Model(m) ==
    /\ phase = "models" /\ m \in todo
    /\ IF ~ValidModelName(m) \/ ~ValidHealthPath(file.models[m].health)
       THEN Refuse
       ELSE /\ phase' = "headers"
            /\ model' = m /\ headers' = DOMAIN file.models[m].headers /\ seen' = {}
            /\ values' = [n \in DOMAIN values \union {m} |-> IF n = m THEN <<>> ELSE values[n]]
            /\ UNCHANGED <<file, secrets, command, verdict, todo, tokens, backends>>

Header(h) ==
    /\ phase = "headers" /\ h \in headers
    /\ LET text == file.models[model].headers[h]
           value == Expanded(text, command = "serve") IN
       IF \/ ~ValidHeaderName(h) \/ Canonical(h) \in seen
          \/ Fails(text, command = "serve") \/ ~ValidHeaderValue(value)
       THEN Refuse
       ELSE /\ seen' = seen \union {Canonical(h)}
            /\ values' = [values EXCEPT ![model] =
                   [g \in DOMAIN values[model] \union {h} |-> IF g = h THEN value ELSE values[model][g]]]
            /\ headers' = headers \ {h}
            /\ UNCHANGED <<file, secrets, command, verdict, phase, todo, model, tokens, backends>>

HeadersDone ==
    /\ phase = "headers" /\ headers = {}
    /\ Begin("models", todo \ {model})
    /\ UNCHANGED <<file, secrets, command, verdict, loaded>>

ModelsDone ==
    /\ phase = "models" /\ todo = {}
    /\ Begin("backends", DOMAIN file.models)
    /\ UNCHANGED <<file, secrets, command, verdict, loaded>>

\* Fault: a model with an invalid URL is left out.
BackendFault(m) ==
    /\ phase = "backends" /\ m \in todo
    /\ todo' = todo \ {m}
    /\ backends' = IF ValidURL(file.models[m].url)
                   THEN [n \in DOMAIN backends \union {m} |-> <<>>] ELSE backends
    /\ UNCHANGED <<file, secrets, command, verdict, phase, model, headers, seen, tokens, values>>

\* newBackend: of two headers with one canonical name the later one stays.
Backend(m) ==
    /\ phase = "backends" /\ m \in todo
    /\ IF ~ValidURL(file.models[m].url)
       THEN Refuse
       ELSE /\ \E last \in SUBSET DOMAIN values[m] :
                   /\ \A h \in DOMAIN values[m] : \E g \in last : g[1] = h[1]
                   /\ \A g, h \in last : g[1] = h[1] => g = h
                   /\ backends' = [n \in DOMAIN backends \union {m} |->
                          IF n # m THEN backends[n]
                          ELSE [c \in {h[1] : h \in last} |->
                                   values[m][CHOOSE h \in last : h[1] = c]]]
            /\ todo' = todo \ {m}
            /\ UNCHANGED <<file, secrets, command, verdict, phase, model, headers, seen, tokens, values>>

BackendsDone ==
    /\ phase = "backends" /\ todo = {}
    /\ Returns("accepted")
    /\ UNCHANGED loaded

Load ==
    \/ \E c \in Commands : Start(c)
    \/ Limits
    \/ \E n \in todo : Token(n)
    \/ TokensDone
    \/ \E m \in todo : Model(m)
    \/ \E h \in headers : Header(h)
    \/ HeadersDone \/ ModelsDone
    \/ \E m \in todo : Backend(m)
    \/ BackendsDone

-----------------------------------------------------------------------------
(* Properties. *)

\* The texts of the tokens, and those of the tokens and headers.
TokenTexts == {file.tokens[n] : n \in DOMAIN file.tokens}
Texts ==
    TokenTexts \union UNION {{file.models[m].headers[h] : h \in DOMAIN file.models[m].headers}
                             : m \in DOMAIN file.models}

\* Some reference of the file holds a byte that no header may contain.
SomeUnprintable == \E text \in Texts : \E i \in DOMAIN text : text[i] \in Unprintable

\* What `serve' accepts, `check' has accepted before, whatever the secrets
\* contain and in whichever order the two go through the maps, unless some
\* reference holds a control byte, which only check looks for, although "raw
\* references are valid header values" (validate): a configuration that check
\* refuses for anything else cannot be served.
ServedWasChecked ==
    verdict["serve"] = "accepted" => verdict["check"] = "accepted" \/ SomeUnprintable

\* Every secret that the file names exists, and has contents that a header may have.
SecretsUsable ==
    \A text \in Texts : \A i \in DOMAIN text :
        text[i] \in Secrets =>
            /\ secrets[text[i]] # Absent
            /\ Contents(text[i]) # <<>>
            /\ ValidHeaderValue(<<Contents(text[i])>>)

\* What `check' accepts is refused by `serve' only for a secret that does not
\* exist or cannot be used ("every startup error short of binding surfaces",
\* load), or a token of nothing but dropped references, which check takes for
\* text: that one has no secret to blame.
CheckedIsServed ==
    verdict["check"] = "accepted" /\ SecretsUsable /\ verdict["serve"] = "refused" =>
        \E text \in TokenTexts : \A i \in DOMAIN text : text[i] = "${}"

=============================================================================
