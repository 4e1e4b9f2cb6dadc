---------------------------- MODULE RouterProofs ----------------------------
(***************************************************************************)
(* Proofs about Config and Router, for any configuration, secrets and      *)
(* requests.                                                               *)
(***************************************************************************)
EXTENDS Router, SequenceLemmas

(***************************************************************************)
(* What the loops of Config.validate and router.New look for, in one       *)
(* formula: a configuration is Acceptable with secrets expanded or not.    *)
(***************************************************************************)
Names == DOMAIN file.models
Own(m) == file.models[m].headers

Bounded ==
    /\ Names # {}
    /\ ~(file.maxBodyBytes < 0) /\ ~(file.maxBufferedBytes < 0)
    /\ \A l \in file.listen : ValidListen(l)

TokenOK(n, expand) ==
    LET value == Expanded(file.tokens[n], expand) IN
    n # "" /\ ~Fails(file.tokens[n], expand) /\ ~Empty(value) /\ ValidHeaderValue(value)

ModelOK(m) == ValidModelName(m) /\ ValidHealthPath(file.models[m].health)

HeaderOK(m, h, expand) ==
    /\ ValidHeaderName(h)
    /\ ~Fails(Own(m)[h], expand) /\ ValidHeaderValue(Expanded(Own(m)[h], expand))

Distinct(hs) == \A g, h \in hs : Canonical(g) = Canonical(h) => g = h

HeadersOK(m, expand) == (\A h \in DOMAIN Own(m) : HeaderOK(m, h, expand)) /\ Distinct(DOMAIN Own(m))

Acceptable(expand) ==
    /\ file.syntax = "ok" /\ Bounded
    /\ \A n \in DOMAIN file.tokens : TokenOK(n, expand)
    /\ \A m \in Names : ModelOK(m) /\ HeadersOK(m, expand) /\ ValidURL(file.models[m].url)

-----------------------------------------------------------------------------
(* The invariant. *)

Expand == command = "serve"
Loading == phase \notin {"idle", "serving"}

\* A verdict says whether the configuration is acceptable to its command.
Verdicts ==
    /\ \A c \in Commands : verdict[c] = "refused" => ~Acceptable(c = "serve")
    /\ \A c \in Commands : verdict[c] = "accepted" => Acceptable(c = "serve")
    /\ verdict["serve"] # "none" => verdict["check"] # "none"
    /\ Loading /\ command = "serve" => verdict["check"] # "none"

\* What a loop has visited is acceptable, and so is what the loops before it have.
Visited ==
    /\ Loading => file.syntax = "ok"
    /\ Loading /\ phase # "limits" => Bounded
    /\ phase = "tokens" => \A n \in DOMAIN file.tokens \ todo : TokenOK(n, Expand)
    /\ phase \in {"models", "headers", "backends"} => \A n \in DOMAIN file.tokens : TokenOK(n, Expand)
    /\ phase \in {"models", "headers"} => \A m \in Names \ todo : ModelOK(m) /\ HeadersOK(m, Expand)
    /\ phase = "headers" =>
           /\ model \in todo /\ ModelOK(model)
           /\ \A h \in DOMAIN Own(model) \ headers : HeaderOK(model, h, Expand)
           /\ Distinct(DOMAIN Own(model) \ headers)
           /\ seen = {Canonical(h) : h \in DOMAIN Own(model) \ headers}
    /\ phase = "backends" =>
           /\ \A m \in Names : ModelOK(m) /\ HeadersOK(m, Expand)
           /\ \A m \in Names \ todo : ValidURL(file.models[m].url)

\* Of the headers of m, those in hs have their values.
Valued(m, hs) ==
    /\ m \in DOMAIN values /\ DOMAIN values[m] = hs
    /\ \A h \in hs : values[m][h] = Expanded(Own(m)[h], Expand)

\* The backend of m has the values of its headers.
Built(m) ==
    \A h \in DOMAIN Own(m) :
        h[1] \in DOMAIN backends[m] /\ backends[m][h[1]] = Expanded(Own(m)[h], Expand)

\* What the loops have built of what they have visited.
Made ==
    /\ phase \in {"models", "headers"} =>
           \A m \in Names \ todo : Valued(m, DOMAIN Own(m))
    /\ phase = "headers" =>
           Valued(model, DOMAIN Own(model) \ headers)
    /\ phase = "backends" =>
           /\ \A m \in Names : Valued(m, DOMAIN Own(m))
           /\ DOMAIN backends = Names \ todo
           /\ \A m \in Names \ todo : Built(m)
    /\ phase = "serving" => Expand /\ (\A m \in Names : Built(m))
    /\ phase \in {"limits", "tokens", "models", "headers"} => backends = <<>>

\* Of the tokens, those in ns have their values.
Credited(ns) ==
    /\ DOMAIN tokens = ns
    /\ \A n \in ns : tokens[n] = Expanded(file.tokens[n], Expand)

Credentials ==
    /\ phase = "limits" => DOMAIN tokens = {}
    /\ phase = "tokens" => Credited(DOMAIN file.tokens \ todo)
    /\ phase \in {"models", "headers", "backends", "serving"} => Credited(DOMAIN file.tokens)

\* What a request is sent to, and what the models API says of a name.
Forwards(a) ==
    LET path == a.request.path IN
    /\ a.model \in Names
    /\ IF HasRoutePrefix(path)
       THEN /\ RouteModel(path).ok /\ a.model = RouteModel(path).model
            /\ a.sent = Sent(a.request, a.model, RouteModel(path).rest)
       ELSE a.model = a.request.model /\ a.sent = Sent(a.request, a.model, path)

Retrieves(a) ==
    LET path == a.request.path IN
    /\ a.model = Decoded(SubSeq(path, 3, Len(path)))
    /\ a.status = 200 <=> a.model \in Listed

\* An answer is the one that the handler in place gives to the request.
Answers(a) ==
    LET path == a.request.path IN
    /\ a.status # 301 => Clean(path)
    /\ a.status \notin {301, 401} => Authorized(a.request) \/ (a.status = 200 /\ IsHealth(path))
    /\ a.status \in {200, 404} /\ a.request.get /\ IsCatalog(path) /\ Len(path) > 2 => Retrieves(a)
    /\ a.sent # Nobody => Forwards(a)

Answered == last # None => phase = "serving" /\ Answers(last)

LoadInv == TypeOK /\ Verdicts /\ Visited /\ Made

Inv == LoadInv /\ Credentials /\ Answered

-----------------------------------------------------------------------------
(* The configuration does not change, nor what is acceptable of it. *)

LEMMA Frame ==
    ASSUME UNCHANGED <<file, secrets>>
    PROVE  /\ Names' = Names /\ (Bounded' <=> Bounded)
           /\ \A m : Own(m)' = Own(m)
           /\ \A text, e : (Fails(text, e)' <=> Fails(text, e)) /\ Expanded(text, e)' = Expanded(text, e)
<1>1. Names' = Names /\ \A m : Own(m)' = Own(m)
  BY DEF Names, Own
<1>2. Bounded' <=> Bounded
  BY <1>1 DEF Bounded
<1>3. ASSUME NEW text, NEW e PROVE Fails(text, e)' <=> Fails(text, e)
  BY DEF Fails, Unresolved
<1>4. ASSUME NEW text, NEW e PROVE Expanded(text, e)' = Expanded(text, e)
  BY DEF Expanded, Chunk, Contents, Raw
<1> QED
  BY <1>1, <1>2, <1>3, <1>4

LEMMA FrameOK ==
    ASSUME UNCHANGED <<file, secrets>>
    PROVE  /\ \A n, e : TokenOK(n, e)' <=> TokenOK(n, e)
           /\ \A m : ModelOK(m)' <=> ModelOK(m)
           /\ \A m, h, e : HeaderOK(m, h, e)' <=> HeaderOK(m, h, e)
           /\ \A m, e : HeadersOK(m, e)' <=> HeadersOK(m, e)
           /\ \A e : Acceptable(e)' <=> Acceptable(e)
<1>1. \A n, e : TokenOK(n, e)' <=> TokenOK(n, e)
  BY Frame DEF TokenOK
<1>2. \A m : ModelOK(m)' <=> ModelOK(m)
  BY DEF ModelOK
<1>3. \A m, h, e : HeaderOK(m, h, e)' <=> HeaderOK(m, h, e)
  BY Frame DEF HeaderOK
<1>4. \A m, e : HeadersOK(m, e)' <=> HeadersOK(m, e)
  BY <1>3, Frame DEF HeadersOK
<1>5. \A e : Acceptable(e)' <=> Acceptable(e)
  BY <1>1, <1>2, <1>4, Frame DEF Acceptable
<1> QED
  BY <1>1, <1>2, <1>3, <1>4, <1>5

-----------------------------------------------------------------------------
(* Arithmetic: a set of lengths has a greatest one. *)

LEMMA Greatest ==
    ASSUME NEW n \in Nat, NEW S \in SUBSET (0 .. n), S # {}
    PROVE  Max(S) \in S /\ \A k \in S : k =< Max(S)
<1> DEFINE T == {i \in Nat : \E j \in S : i = n - j}
           R == OpToRel(<, Nat)
<1>0. \A j \in S : n - j \in T
  OBVIOUS
<1>1. T \subseteq Nat /\ T # {}
  BY <1>0
<1>2. IsWellFoundedOn(R, Nat)
  BY NatLessThanWellFounded
<1> HIDE DEF R
<1>3. PICK x \in T : \A y \in T : ~ (<<y, x>> \in R)
  BY <1>1, <1>2, WFMin
<1>4. \A y \in T : ~ (y < x)
  BY <1>1, <1>3 DEF R, OpToRel
<1>5. PICK k \in S : x = n - k
  BY <1>3
<1>6. \A j \in S : k >= j
  <2> TAKE j \in S
  <2>1. j \in Nat /\ k \in Nat
    OBVIOUS
  <2> HIDE DEF T
  <2>2. ~ (n - j < n - k)
    BY <1>0, <1>4, <1>5
  <2> QED
    BY <2>1, <2>2
<1> QED
  BY <1>6 DEF Max

-----------------------------------------------------------------------------
(* The steps of load. *)

LEMMA InvInit == Init => Inv
<1> SUFFICES ASSUME Init PROVE Inv
  OBVIOUS
<1> USE DEF Init, LoadInit
<1>1. TypeOK
  <2>1. <<file, secrets>> \in Instances
    BY ConfigAssumption
  <2> QED
    BY <2>1 DEF TypeOK, ConfigTypeOK, Commands
<1>2. Verdicts /\ Visited /\ Made /\ Credentials /\ Answered
  BY DEF Verdicts, Visited, Made, Credentials, Answered, Loading, Commands
<1> QED
  BY <1>1, <1>2 DEF Inv, LoadInv

LEMMA VerdictsKept ==
    ASSUME Verdicts, Loading, UNCHANGED <<file, secrets, command, verdict>>
    PROVE  Verdicts'
  BY FrameOK DEF Verdicts

LEMMA Refused ==
    ASSUME LoadInv, Loading, ~Acceptable(Expand), Refuse, UNCHANGED last
    PROVE  LoadInv'
<1> USE DEF Refuse, Returns, Begin, loaded
<1>1. TypeOK'
  BY DEF LoadInv, TypeOK, ConfigTypeOK
<1>2. Verdicts'
  BY FrameOK DEF LoadInv, TypeOK, ConfigTypeOK, Verdicts, Loading, Expand
<1>3. Visited' /\ Made'
  BY DEF Visited, Made, Loading
<1> QED
  BY <1>1, <1>2, <1>3 DEF LoadInv

LEMMA StartInv ==
    ASSUME LoadInv, NEW c \in Commands, Start(c), UNCHANGED last
    PROVE  LoadInv'
<1> USE DEF Start, Begin, loop
<1>1. TypeOK'
  BY DEF LoadInv, TypeOK, ConfigTypeOK
<1>2. Verdicts'
  <2>1. \A e : Acceptable(e)' <=> Acceptable(e)
    BY FrameOK
  <2>2. CASE file.syntax # "ok"
    <3>1. \A e : ~Acceptable(e)
      BY <2>2 DEF Acceptable
    <3> QED
      BY <2>1, <2>2, <3>1 DEF LoadInv, TypeOK, ConfigTypeOK, Verdicts, Loading, Commands
  <2>3. CASE file.syntax = "ok"
    BY <2>1, <2>3 DEF LoadInv, Verdicts
  <2> QED
    BY <2>2, <2>3
<1>3. Visited' /\ Made'
  BY DEF Visited, Made, Loading
<1> QED
  BY <1>1, <1>2, <1>3 DEF LoadInv

LEMMA LimitsInv ==
    ASSUME LoadInv, Limits, UNCHANGED last
    PROVE  LoadInv'
<1>1. Loading
  BY DEF Limits, Loading
<1>2. CASE Bounded
  <2>1. Begin("tokens", DOMAIN file.tokens) /\ UNCHANGED <<file, secrets, command, verdict, loaded>>
    BY <1>2 DEF Limits, Bounded, Names
  <2>2. TypeOK'
    BY <2>1 DEF LoadInv, TypeOK, ConfigTypeOK, Begin, loaded
  <2>3. Verdicts'
    BY <1>1, <2>1, VerdictsKept DEF LoadInv
  <2>4. Visited' /\ Made'
    BY <1>1, <1>2, <2>1, Frame DEF LoadInv, Visited, Made, Loading, Begin, loaded, Limits
  <2> QED
    BY <2>2, <2>3, <2>4 DEF LoadInv
<1>3. CASE ~Bounded
  <2>1. Refuse /\ ~Acceptable(Expand)
    BY <1>3 DEF Limits, Bounded, Names, Acceptable
  <2> QED
    BY <1>1, <2>1, Refused
<1> QED
  BY <1>2, <1>3

LEMMA TokenInv ==
    ASSUME LoadInv, NEW n \in todo, Token(n), UNCHANGED last
    PROVE  LoadInv'
<1>1. Loading /\ phase = "tokens" /\ n \in DOMAIN file.tokens
  BY DEF Token, Loading, LoadInv, TypeOK, ConfigTypeOK
<1>2. CASE TokenOK(n, Expand)
  <2>1. /\ todo' = todo \ {n}
        /\ UNCHANGED <<file, secrets, command, verdict, phase, model, headers, seen, values, backends>>
    BY <1>2 DEF Token, TokenOK, Expand
  <2>2. TypeOK'
    BY <1>1, <2>1 DEF LoadInv, TypeOK, ConfigTypeOK
  <2>3. Verdicts'
    BY <1>1, <2>1, VerdictsKept DEF LoadInv
  <2>4. Visited' /\ Made'
    BY <1>1, <1>2, <2>1, Frame, FrameOK DEF LoadInv, Visited, Made, Loading, Expand
  <2> QED
    BY <2>2, <2>3, <2>4 DEF LoadInv
<1>3. CASE ~TokenOK(n, Expand)
  <2>1. Refuse /\ ~Acceptable(Expand)
    BY <1>1, <1>3 DEF Token, TokenOK, Expand, Acceptable
  <2> QED
    BY <1>1, <2>1, Refused
<1> QED
  BY <1>2, <1>3

LEMMA TokensDoneInv ==
    ASSUME LoadInv, TokensDone, UNCHANGED last
    PROVE  LoadInv'
<1> USE DEF TokensDone, Begin, loaded
<1>1. TypeOK'
  BY DEF LoadInv, TypeOK, ConfigTypeOK
<1>2. Verdicts'
  BY VerdictsKept DEF LoadInv, Loading
<1>3. Visited' /\ Made'
  BY Frame, FrameOK DEF LoadInv, Visited, Made, Loading, Expand, Names
<1> QED
  BY <1>1, <1>2, <1>3 DEF LoadInv

LEMMA ModelInv ==
    ASSUME LoadInv, NEW m \in todo, Model(m), UNCHANGED last
    PROVE  LoadInv'
<1>1. Loading /\ phase = "models" /\ m \in Names
  BY DEF Model, Loading, LoadInv, TypeOK, ConfigTypeOK, Names
<1>2. CASE ModelOK(m)
  <2>1. /\ phase' = "headers" /\ model' = m /\ headers' = DOMAIN Own(m) /\ seen' = {}
        /\ values' = [n \in DOMAIN values \union {m} |-> IF n = m THEN <<>> ELSE values[n]]
        /\ UNCHANGED <<file, secrets, command, verdict, todo, tokens, backends>>
    BY <1>2 DEF Model, ModelOK, Own
  <2>2. TypeOK'
    BY <1>1, <2>1 DEF LoadInv, TypeOK, ConfigTypeOK, Names, Own
  <2>3. Verdicts'
    BY <1>1, <2>1, VerdictsKept DEF LoadInv
  <2>4. Visited'
    BY <1>1, <1>2, <2>1, Frame, FrameOK DEF LoadInv, Visited, Loading, Expand, Distinct
  <2>5. Made'
    <3>1. \A k \in Names \ todo : Valued(k, DOMAIN Own(k))'
      BY <1>1, <2>1, Frame DEF LoadInv, Made, Valued, Expand
    <3>2. DOMAIN values'[m] = {} /\ DOMAIN Own(m) \ headers' = {}
      BY <2>1
    <3>3. Valued(m, DOMAIN Own(m) \ headers)'
      BY <2>1, <3>2, Frame DEF Valued
    <3> QED
      BY <1>1, <2>1, <3>1, <3>3, Frame DEF LoadInv, Made
  <2> QED
    BY <2>2, <2>3, <2>4, <2>5 DEF LoadInv
<1>3. CASE ~ModelOK(m)
  <2>1. Refuse /\ ~Acceptable(Expand)
    BY <1>1, <1>3 DEF Model, ModelOK, Acceptable
  <2> QED
    BY <1>1, <2>1, Refused
<1> QED
  BY <1>2, <1>3

LEMMA HeaderInv ==
    ASSUME LoadInv, NEW h \in headers, Header(h), UNCHANGED last
    PROVE  LoadInv'
<1>1. /\ Loading /\ phase = "headers" /\ model \in Names /\ h \in DOMAIN Own(model)
      /\ headers \subseteq DOMAIN Own(model)
  BY DEF Header, Loading, LoadInv, TypeOK, ConfigTypeOK, Names, Own
<1>2. CASE HeaderOK(model, h, Expand) /\ Canonical(h) \notin seen
  <2> DEFINE value == Expanded(Own(model)[h], Expand)
  <2>1. /\ seen' = seen \union {Canonical(h)} /\ headers' = headers \ {h}
        /\ values' = [values EXCEPT ![model] =
               [g \in DOMAIN values[model] \union {h} |-> IF g = h THEN value ELSE values[model][g]]]
        /\ UNCHANGED <<file, secrets, command, verdict, phase, todo, model, tokens, backends>>
    BY <1>2 DEF Header, HeaderOK, Expand, Own
  <2>2. TypeOK'
    BY <1>1, <2>1 DEF LoadInv, TypeOK, ConfigTypeOK, Own
  <2>3. Verdicts'
    BY <1>1, <2>1, VerdictsKept DEF LoadInv
  <2>4. DOMAIN Own(model) \ headers' = (DOMAIN Own(model) \ headers) \union {h}
    BY <1>1, <2>1
  <2>5. Visited'
    <3> DEFINE done == DOMAIN Own(model) \ headers
    <3>1. /\ \A g \in done : HeaderOK(model, g, Expand)
          /\ Distinct(done) /\ seen = {Canonical(g) : g \in done}
      BY <1>1 DEF LoadInv, Visited
    <3>2. Distinct(done \union {h})
      BY <1>2, <3>1 DEF Distinct
    <3>3. seen' = {Canonical(g) : g \in done \union {h}}
      BY <2>1, <3>1
    <3>4. \A g \in done \union {h} : HeaderOK(model, g, Expand)
      BY <1>2, <3>1
    <3>5. Distinct(DOMAIN Own(model) \ headers)'
      BY <2>1, <2>4, <3>2, Frame DEF Distinct
    <3> QED
      BY <1>1, <2>1, <2>4, <3>3, <3>4, <3>5, Frame, FrameOK DEF LoadInv, Visited, Loading, Expand
  <2>6. Made'
    <3>1. Valued(model, DOMAIN Own(model) \ headers)
      BY <1>1 DEF LoadInv, Made
    <3>2. Valued(model, DOMAIN Own(model) \ headers)'
      BY <2>1, <2>4, <3>1, Frame DEF Valued, Expand
    <3>3. \A m \in Names \ todo : Valued(m, DOMAIN Own(m))'
      <4>1. model \in todo /\ \A m \in Names \ todo : Valued(m, DOMAIN Own(m))
        BY <1>1 DEF LoadInv, Made, Visited
      <4> QED
        BY <2>1, <4>1, Frame DEF Valued, Expand
    <3> QED
      BY <1>1, <2>1, <3>2, <3>3, Frame DEF LoadInv, Made
  <2> QED
    BY <2>2, <2>3, <2>5, <2>6 DEF LoadInv
<1>3. CASE ~ (HeaderOK(model, h, Expand) /\ Canonical(h) \notin seen)
  <2>1. Refuse
    BY <1>3 DEF Header, HeaderOK, Expand, Own
  <2>2. ~HeadersOK(model, Expand)
    BY <1>1, <1>3 DEF LoadInv, Visited, HeadersOK, Distinct
  <2>3. ~Acceptable(Expand)
    BY <1>1, <2>2 DEF Acceptable
  <2> QED
    BY <1>1, <2>1, <2>3, Refused
<1> QED
  BY <1>2, <1>3

LEMMA HeadersDoneInv ==
    ASSUME LoadInv, HeadersDone, UNCHANGED last
    PROVE  LoadInv'
<1> USE DEF HeadersDone, Begin, loaded
<1>1. TypeOK'
  BY DEF LoadInv, TypeOK, ConfigTypeOK
<1>2. Verdicts'
  BY VerdictsKept DEF LoadInv, Loading
<1>3. HeadersOK(model, Expand) /\ ModelOK(model) /\ Valued(model, DOMAIN Own(model))
  BY DEF LoadInv, Visited, Made, HeadersOK
<1>4. Visited'
  BY <1>3, Frame, FrameOK DEF LoadInv, Visited, Loading, Expand
<1>5. Made'
  <2>1. \A m \in Names \ todo' : Valued(m, DOMAIN Own(m))
    BY <1>3 DEF LoadInv, Made
  <2>2. \A m \in Names \ todo' : Valued(m, DOMAIN Own(m))'
    BY <2>1, Frame DEF Valued, Expand
  <2> QED
    BY <2>2, Frame DEF LoadInv, Made
<1> QED
  BY <1>1, <1>2, <1>4, <1>5 DEF LoadInv

LEMMA ModelsDoneInv ==
    ASSUME LoadInv, ModelsDone, UNCHANGED last
    PROVE  LoadInv'
<1> USE DEF ModelsDone, Begin, loaded
<1>1. TypeOK'
  BY DEF LoadInv, TypeOK, ConfigTypeOK
<1>2. Verdicts'
  BY VerdictsKept DEF LoadInv, Loading
<1>3. Visited'
  BY Frame, FrameOK DEF LoadInv, Visited, Loading, Expand, Names
<1>4. Made'
  <2>1. \A m \in Names : Valued(m, DOMAIN Own(m))
    BY DEF LoadInv, Made
  <2>2. \A m \in Names : Valued(m, DOMAIN Own(m))'
    BY <2>1, Frame DEF Valued, Expand
  <2>3. DOMAIN backends' = {} /\ todo' = Names
    BY DEF LoadInv, Made, Names
  <2> QED
    BY <2>2, <2>3, Frame DEF Made
<1> QED
  BY <1>1, <1>2, <1>3, <1>4 DEF LoadInv

LEMMA BackendInv ==
    ASSUME LoadInv, NEW m \in todo, Backend(m), UNCHANGED last
    PROVE  LoadInv'
<1>1. Loading /\ phase = "backends" /\ m \in Names
  BY DEF Backend, Loading, LoadInv, TypeOK, ConfigTypeOK, Names
<1>2. CASE ValidURL(file.models[m].url)
  <2>1. /\ todo' = todo \ {m}
        /\ UNCHANGED <<file, secrets, command, verdict, phase, model, headers, seen, tokens, values>>
    BY <1>2 DEF Backend
  <2>2. PICK kept \in SUBSET DOMAIN values[m] :
            /\ \A h \in DOMAIN values[m] : \E g \in kept : g[1] = h[1]
            /\ backends' = [n \in DOMAIN backends \union {m} |->
                   IF n # m THEN backends[n]
                   ELSE [c \in {h[1] : h \in kept} |-> values[m][CHOOSE h \in kept : h[1] = c]]]
    BY <1>2 DEF Backend
  <2>3. TypeOK'
    BY <1>1, <2>1 DEF LoadInv, TypeOK, ConfigTypeOK
  <2>4. Verdicts'
    BY <1>1, <2>1, VerdictsKept DEF LoadInv
  <2>5. Visited'
    BY <1>1, <1>2, <2>1, Frame, FrameOK DEF LoadInv, Visited, Loading, Expand
  <2>6. Valued(m, DOMAIN Own(m)) /\ Distinct(DOMAIN Own(m))
    BY <1>1 DEF LoadInv, Made, Visited, HeadersOK
  <2>7. \A h \in DOMAIN Own(m) : h \in kept /\ h = CHOOSE g \in kept : g[1] = h[1]
    BY <2>2, <2>6 DEF Valued, Distinct, Canonical
  <2>8. Built(m)'
    <3> SUFFICES ASSUME NEW h \in DOMAIN Own(m)
                 PROVE  /\ h[1] \in DOMAIN backends'[m]
                        /\ backends'[m][h[1]] = Expanded(Own(m)[h], Expand)
      BY <2>1, Frame DEF Built, Expand
    <3> DEFINE Kept(c) == CHOOSE g \in kept : g[1] = c
    <3>1. h \in kept /\ h = Kept(h[1])
      BY <2>7
    <3>2. backends'[m] = [c \in {g[1] : g \in kept} |-> values[m][Kept(c)]]
      BY <2>2
    <3> HIDE DEF Kept
    <3>3. h[1] \in DOMAIN backends'[m] /\ backends'[m][h[1]] = values[m][h]
      BY <3>1, <3>2
    <3> QED
      BY <2>6, <3>3 DEF Valued
  <2>9. Made'
    <3>1. \A n \in Names \ todo : Built(n)'
      <4>1. DOMAIN backends = Names \ todo /\ \A n \in Names \ todo : Built(n)
        BY <1>1 DEF LoadInv, Made
      <4>2. \A n \in Names \ todo : backends'[n] = backends[n]
        BY <2>2, <4>1
      <4> QED
        BY <2>1, <4>1, <4>2, Frame DEF Built, Expand
    <3>2. DOMAIN backends' = Names \ todo'
      BY <1>1, <2>1, <2>2 DEF LoadInv, Made
    <3>3. \A n \in Names : Valued(n, DOMAIN Own(n))'
      BY <1>1, <2>1, Frame DEF LoadInv, Made, Valued, Expand
    <3> QED
      BY <1>1, <2>1, <2>8, <3>1, <3>2, <3>3, Frame DEF Made
  <2> QED
    BY <2>3, <2>4, <2>5, <2>9 DEF LoadInv
<1>3. CASE ~ValidURL(file.models[m].url)
  <2>1. Refuse /\ ~Acceptable(Expand)
    BY <1>1, <1>3 DEF Backend, Acceptable
  <2> QED
    BY <1>1, <2>1, Refused
<1> QED
  BY <1>2, <1>3

LEMMA BackendsDoneInv ==
    ASSUME LoadInv, BackendsDone, UNCHANGED last
    PROVE  LoadInv'
<1> USE DEF BackendsDone, Returns, Begin, loaded
<1>1. Acceptable(Expand) /\ Loading
  BY DEF LoadInv, Visited, Acceptable, Loading
<1>2. TypeOK'
  BY DEF LoadInv, TypeOK, ConfigTypeOK, Made, Names
<1>3. Verdicts'
  BY <1>1, FrameOK DEF LoadInv, TypeOK, ConfigTypeOK, Verdicts, Expand
<1>4. Visited'
  BY DEF Visited, Loading
<1>5. Made'
  BY Frame DEF LoadInv, Made, Built, Expand
<1> QED
  BY <1>2, <1>3, <1>4, <1>5 DEF LoadInv

LEMMA LoadStep ==
    ASSUME LoadInv, Load, UNCHANGED last
    PROVE  LoadInv'
  BY StartInv, LimitsInv, TokenInv, TokensDoneInv, ModelInv, HeaderInv, HeadersDoneInv,
     ModelsDoneInv, BackendInv, BackendsDoneInv DEF Load

\* The values of the tokens.
LEMMA CredentialsStep ==
    ASSUME LoadInv, Credentials, Load
    PROVE  Credentials'
<1> DEFINE Same == UNCHANGED <<file, secrets, command, tokens>>
<1>1. ASSUME NEW ns, Credited(ns), Same PROVE Credited(ns)'
  BY <1>1, Frame DEF Credited, Expand
<1>2. ASSUME NEW c \in Commands, Start(c) PROVE Credentials'
  BY <1>2 DEF Start, Begin, Credentials
<1>3. ASSUME Refuse PROVE Credentials'
  BY <1>3 DEF Refuse, Returns, Begin, Credentials
<1>4. ASSUME Limits PROVE Credentials'
  <2>1. CASE Refuse
    BY <1>3, <2>1
  <2>2. CASE ~Refuse
    <3>1. phase = "limits" /\ phase' = "tokens" /\ todo' = DOMAIN file.tokens /\ Same
      BY <1>4, <2>2 DEF Limits, Begin, loaded
    <3> QED
      BY <3>1 DEF Credentials, Credited
  <2> QED
    BY <2>1, <2>2
<1>5. ASSUME NEW n \in todo, Token(n) PROVE Credentials'
  <2>1. CASE Refuse
    BY <1>3, <2>1
  <2>2. CASE ~Refuse
    <3> DEFINE value == Expanded(file.tokens[n], Expand)
               ns == DOMAIN file.tokens \ todo
    <3>1. /\ phase = "tokens" /\ phase' = "tokens" /\ todo' = todo \ {n} /\ todo \subseteq DOMAIN file.tokens
          /\ tokens' = [m \in DOMAIN tokens \union {n} |-> IF m = n THEN value ELSE tokens[m]]
          /\ UNCHANGED <<file, secrets, command>>
      BY <1>5, <2>2 DEF Token, Expand, LoadInv, TypeOK, ConfigTypeOK
    <3>2. DOMAIN tokens = ns /\ \A m \in ns : tokens[m] = Expanded(file.tokens[m], Expand)
      BY <3>1 DEF Credentials, Credited
    <3>3. DOMAIN file.tokens \ todo' = ns \union {n}
      BY <3>1
    <3>4. DOMAIN tokens' = ns \union {n} /\ \A m \in ns \union {n} : tokens'[m] = Expanded(file.tokens[m], Expand)
      <4> HIDE DEF value, ns
      <4>1. DOMAIN tokens' = ns \union {n} /\ tokens'[n] = value /\ \A m \in ns : m # n => tokens'[m] = tokens[m]
        BY <3>1, <3>2
      <4> QED
        BY <3>2, <4>1 DEF value
    <3>5. Credited(DOMAIN file.tokens \ todo)'
      BY <3>1, <3>3, <3>4, Frame DEF Credited, Expand
    <3> QED
      BY <3>1, <3>5 DEF Credentials
  <2> QED
    BY <2>1, <2>2
<1>6. ASSUME TokensDone PROVE Credentials'
  <2>1. phase = "tokens" /\ todo = {} /\ phase' = "models" /\ Same
    BY <1>6 DEF TokensDone, Begin, loaded
  <2>2. Credited(DOMAIN file.tokens)
    BY <2>1 DEF Credentials
  <2> QED
    BY <1>1, <2>1, <2>2 DEF Credentials
<1>7. ASSUME phase \in {"models", "headers", "backends"}, phase' \in {"models", "headers", "backends", "serving", "idle"}, Same
      PROVE  Credentials'
  <2>1. Credited(DOMAIN file.tokens)
    BY <1>7 DEF Credentials
  <2> QED
    BY <1>1, <1>7, <2>1 DEF Credentials
<1>8. ASSUME NEW m \in todo, Model(m) PROVE Credentials'
  BY <1>3, <1>7, <1>8 DEF Model
<1>9. ASSUME NEW h \in headers, Header(h) PROVE Credentials'
  BY <1>3, <1>7, <1>9 DEF Header
<1>10. ASSUME HeadersDone \/ ModelsDone PROVE Credentials'
  BY <1>7, <1>10 DEF HeadersDone, ModelsDone, Begin, loaded
<1>11. ASSUME NEW m \in todo, Backend(m) PROVE Credentials'
  BY <1>3, <1>7, <1>11 DEF Backend
<1>12. ASSUME BackendsDone PROVE Credentials'
  BY <1>7, <1>12 DEF BackendsDone, Returns, Begin, loaded
<1> QED
  BY <1>2, <1>4, <1>5, <1>6, <1>8, <1>9, <1>10, <1>11, <1>12 DEF Load

LEMMA CredentialsStay ==
    ASSUME Credentials, UNCHANGED configVars
    PROVE  Credentials'
<1> USE DEF configVars, loop, loaded
<1>1. ASSUME NEW ns, Credited(ns) PROVE Credited(ns)'
  BY <1>1, Frame DEF Credited, Expand
<1> QED
  BY <1>1 DEF Credentials

-----------------------------------------------------------------------------
(* The contents of secrets. *)

LEMMA ElementIsSequence == \A x : IsSequence(<<x>>)
<1> SUFFICES ASSUME NEW x PROVE <<x>> \in Seq(ToSet(<<x>>))
  BY DEF IsSequence
<1> DEFINE s == <<x>>
<1>1. DOMAIN s = {1} /\ s[1] = x
  OBVIOUS
<1>2. x \in ToSet(s)
  <2> HIDE DEF s
  <2> QED
    BY <1>1 DEF ToSet
<1>3. \A S : x \in S => <<x>> \in Seq(S)
  OBVIOUS
<1> QED
  BY <1>2, <1>3

\* Contents without the line terminators at their end are a sequence.
LEMMA TrimmedType ==
    ASSUME NEW c, IsSequence(c)
    PROVE  IsSequence(Trimmed(c))
<1> DEFINE P(n) == /\ \A i \in n + 1 .. Len(c) : c[i] = "newline"
                   /\ n > 0 => c[n] # "newline"
           S == {n \in 0 .. Len(c) : n > 0 => c[n] # "newline"}
           k == CHOOSE n \in 0 .. Len(c) : P(n)
<1>1. Len(c) \in Nat /\ \A i \in 1 .. Len(c) : c[i] \in ToSet(c)
  BY LenProperties, ElementOfSeq DEF IsSequence
<1>2. \E n \in 0 .. Len(c) : P(n)
  <2>1. 0 \in S /\ S \in SUBSET (0 .. Len(c))
    BY <1>1
  <2>2. Max(S) \in S /\ \A n \in S : n =< Max(S)
    <3> HIDE DEF S
    <3> QED
      BY <1>1, <2>1, Greatest
  <2> DEFINE m == Max(S)
  <2> HIDE DEF m
  <2>3. m \in 0 .. Len(c) /\ (m > 0 => c[m] # "newline") /\ \A n \in S : n =< m
    BY <2>2 DEF m
  <2>4. \A i \in m + 1 .. Len(c) : i \in 0 .. Len(c) /\ i > 0 /\ ~(i =< m)
    BY <1>1, <2>3
  <2>5. P(m)
    BY <2>3, <2>4
  <2> QED
    BY <2>3, <2>5
<1>3. k \in 0 .. Len(c)
  BY <1>2
<1>4. Trimmed(c) = SubSeq(c, 1, k)
  BY DEF Trimmed
<1> HIDE DEF k
<1> DEFINE t == SubSeq(c, 1, k)
<1>5. \A i \in 1 .. k : c[i] \in ToSet(c)
  BY <1>1, <1>3
<1>6. t \in Seq(ToSet(c)) /\ Len(t) = k
  BY <1>1, <1>3, <1>5, SubSeqProperties
<1>7. t \in Seq(ToSet(t))
  <2> HIDE DEF t
  <2>1. DOMAIN t = 1 .. Len(t) /\ Len(t) \in Nat
    BY <1>6, LenProperties
  <2>2. t \in [1 .. Len(t) -> ToSet(t)]
    <3>1. t \in [1 .. Len(t) -> ToSet(c)]
      BY <1>6, LenProperties
    <3> QED
      BY <2>1, <3>1 DEF ToSet
  <2> QED
    BY <2>1, <2>2, SeqDef
<1> QED
  BY <1>4, <1>7 DEF IsSequence

-----------------------------------------------------------------------------
(* The empty string by a name: the SMT backend does not translate its literal. *)

Blank == ""

LEMMA BlankFacts ==
    /\ Blank \in Written /\ Text[Blank] = Blank
    /\ \A path : Stripped(path) = IF path[1] = <<"route">> THEN Tail(path) ELSE <<<<Blank>>>> \o path
    /\ \A m : ValidModelName(m) <=> \A i \in DOMAIN m : m[i] # Blank
    /\ \A path : Clean(path) <=> /\ \A i \in 1 .. Len(path) - 1 : path[i] # <<Blank>>
                               /\ \A i \in DOMAIN path : path[i] \notin {<<".">>, <<"..">>}
<1>1. Blank \in Written /\ Text[Blank] = Blank
  BY RouterAssumption, Zenon DEF Blank
<1>2. \A path : Stripped(path) = IF path[1] = <<"route">> THEN Tail(path) ELSE <<<<Blank>>>> \o path
  BY Zenon DEF Stripped, Blank
<1>3. \A m : ValidModelName(m) <=> \A i \in DOMAIN m : m[i] # Blank
  BY Zenon DEF ValidModelName, Blank
<1>4. \A path : Clean(path) <=> /\ \A i \in 1 .. Len(path) - 1 : path[i] # <<Blank>>
                             /\ \A i \in DOMAIN path : path[i] \notin {<<".">>, <<"..">>}
  BY Zenon DEF Clean, Blank
<1> QED
  BY <1>1, <1>2, <1>3, <1>4

-----------------------------------------------------------------------------
(* Paths of any length. *)

Segments == Seq(Written) \ {<<>>}
Pieces == {Text[w] : w \in Written}
Split(path) == [i \in DOMAIN path |-> Segment(path[i])]

\* A segment stands for as many pieces of text as it has pieces.
LEMMA SegmentType ==
    ASSUME NEW s \in Segments
    PROVE  /\ Segment(s) \in Seq(Pieces) /\ Segment(s) # <<>>
           /\ Len(s) \in Nat \ {0} /\ Len(Segment(s)) = Len(s)
           /\ \A i \in 1 .. Len(s) : s[i] \in Written /\ Segment(s)[i] = Text[s[i]]
<1>1. /\ Len(s) \in Nat \ {0} /\ DOMAIN s = 1 .. Len(s)
      /\ \A i \in 1 .. Len(s) : s[i] \in Written
  BY EmptySeq, LenProperties, ElementOfSeq DEF Segments
<1>2. \A i \in 1 .. Len(s) : Text[s[i]] \in Pieces
  BY <1>1 DEF Pieces
<1>3. Segment(s) \in [1 .. Len(s) -> Pieces]
  BY <1>1, <1>2 DEF Segment
<1>4. Segment(s) \in Seq(Pieces)
  BY <1>1, <1>3, SeqDef
<1>5. Len(Segment(s)) = Len(s)
  BY <1>1, <1>3
<1> QED
  BY <1>1, <1>4, <1>5, EmptySeq DEF Segment

LEMMA SplitType ==
    ASSUME NEW path \in Seq(Segments)
    PROVE  /\ Split(path) \in Seq(Seq(Pieces)) /\ Len(Split(path)) = Len(path)
           /\ Len(path) \in Nat
           /\ \A i \in 1 .. Len(path) : path[i] \in Segments /\ Split(path)[i] = Segment(path[i])
<1>1. /\ Len(path) \in Nat /\ DOMAIN path = 1 .. Len(path)
      /\ \A i \in 1 .. Len(path) : path[i] \in Segments
  BY LenProperties, ElementOfSeq
<1>2. \A i \in 1 .. Len(path) : Segment(path[i]) \in Seq(Pieces)
  BY <1>1, SegmentType
<1> DEFINE T == Seq(Pieces)
<1>3. Split(path) \in [1 .. Len(path) -> T]
  BY <1>1, <1>2 DEF Split
<1>4. Split(path) \in Seq(T)
  <2> HIDE DEF T
  <2> QED
    BY <1>1, <1>3, SeqDef
<1>5. Len(Split(path)) = Len(path)
  <2> HIDE DEF T
  <2> QED
    BY <1>1, <1>3
<1> QED
  BY <1>1, <1>4, <1>5 DEF Split

\* A path stands for a sequence of pieces, for none only if it is empty.
LEMMA DecodedType ==
    ASSUME NEW path \in Seq(Segments)
    PROVE  /\ Decoded(path) = FlattenSeq(Split(path))
           /\ Decoded(path) \in Seq(Pieces)
           /\ path # <<>> => Decoded(path) # <<>>
<1>1. Decoded(path) = FlattenSeq(Split(path))
  BY DEF Decoded, Split
<1>2. Split(path) \in Seq(Seq(Pieces)) /\ Len(Split(path)) = Len(path)
  BY SplitType
<1>3. FlattenSeq(Split(path)) \in Seq(Pieces)
  BY <1>2, FlattenType
<1>4. ASSUME path # <<>> PROVE FlattenSeq(Split(path)) # <<>>
  <2>1. 1 \in 1 .. Len(path)
    BY <1>4, EmptySeq
  <2>2. Split(path)[1] # <<>> /\ 1 \in 1 .. Len(Split(path))
    BY <1>2, <2>1, SplitType, SegmentType
  <2> QED
    BY <1>2, <2>2, FlattenNonempty
<1> QED
  BY <1>1, <1>3, <1>4

\* What a path stands for begins with what its first segment stands for.
LEMMA DecodedFirst ==
    ASSUME NEW s \in Segments, NEW path \in Seq(Segments)
    PROVE  /\ <<s>> \o path \in Seq(Segments) /\ <<s>> \o path # <<>>
           /\ Len(<<s>> \o path) = 1 + Len(path)
           /\ (<<s>> \o path)[1] = s
           /\ \A i \in 1 .. Len(path) : (<<s>> \o path)[i + 1] = path[i]
           /\ Tail(<<s>> \o path) = path
           /\ Decoded(<<s>> \o path) = Segment(s) \o Decoded(path)
<1> DEFINE whole == <<s>> \o path
<1>1. Len(path) \in Nat /\ \A i \in 1 .. Len(path) : path[i] \in Segments
  BY SplitType
<1>2. /\ whole \in Seq(Segments) /\ Len(whole) = 1 + Len(path) /\ whole[1] = s
      /\ \A i \in 1 .. Len(path) : whole[i + 1] = path[i]
  BY <1>1, ConcatFirst
<1>3. whole # <<>>
  BY <1>1, <1>2, EmptySeq
<1>4. Tail(whole) = path
  <2> HIDE DEF whole
  <2>1. Tail(whole) \in Seq(Segments) /\ Len(Tail(whole)) = Len(path)
        /\ \A i \in 1 .. Len(path) : Tail(whole)[i] = whole[i + 1]
    BY <1>1, <1>2, <1>3, HeadTailProperties
  <2> QED
    BY <1>1, <1>2, <2>1, SeqEqual
<1>5. Decoded(whole) = Segment(s) \o Decoded(path)
  <2> DEFINE T == Seq(Pieces)
             split == <<Segment(s)>> \o Split(path)
  <2>1. Segment(s) \in T /\ Split(path) \in Seq(T) /\ Len(Split(path)) = Len(path)
    BY SegmentType, SplitType
  <2>2. /\ split \in Seq(T) /\ Len(split) = 1 + Len(path) /\ split[1] = Segment(s)
        /\ \A i \in 1 .. Len(path) : split[i + 1] = Split(path)[i]
    <3> HIDE DEF T
    <3> QED
      BY <2>1, ConcatFirst
  <2>3. Split(whole) \in Seq(T) /\ Len(Split(whole)) = 1 + Len(path)
        /\ \A i \in 1 .. 1 + Len(path) : Split(whole)[i] = Segment(whole[i])
    BY <1>2, SplitType
  <2>4. \A i \in 1 .. 1 + Len(path) : Split(whole)[i] = split[i]
    <3> TAKE i \in 1 .. 1 + Len(path)
    <3>1. CASE i = 1
      BY <1>1, <1>2, <2>2, <2>3, <3>1
    <3>2. CASE i # 1
      <4> DEFINE j == i - 1
      <4>1. j \in 1 .. Len(path) /\ i = j + 1
        BY <1>1, <3>2
      <4> HIDE DEF j, whole, split, T
      <4>2. split[i] = Split(path)[j] /\ whole[i] = path[j] /\ Split(path)[j] = Segment(path[j])
        BY <1>2, <2>2, <4>1, SplitType
      <4> QED
        BY <2>3, <4>2
    <3> QED
      BY <3>1, <3>2
  <2>5. Split(whole) = split
    <3> HIDE DEF whole, split, T
    <3> QED
      BY <2>2, <2>3, <2>4, SeqEqual
  <2>6. FlattenSeq(split) = Segment(s) \o FlattenSeq(Split(path))
    BY <2>1, FlattenFirst
  <2> QED
    BY <1>2, <2>5, <2>6, DecodedType
<1> QED
  BY <1>2, <1>3, <1>4, <1>5

\* It begins with what the first piece stands for.
LEMMA DecodedHead ==
    ASSUME NEW path \in Seq(Segments), path # <<>>
    PROVE  1 \in DOMAIN Decoded(path) /\ Decoded(path)[1] = Text[path[1][1]]
<1> DEFINE s == path[1]
<1>1. s \in Segments /\ Tail(path) \in Seq(Segments)
  <2>1. 1 \in 1 .. Len(path)
    BY EmptySeq
  <2> QED
    BY <2>1, SplitType, HeadTailProperties
<1>2. path = <<s>> \o Tail(path)
  <2>1. Len(path) \in Nat \ {0} /\ 1 \in 1 .. Len(path) /\ Len(path) \in 1 .. Len(path)
    BY EmptySeq
  <2>2. SubSeq(path, 1, Len(path)) = <<path[1]>> \o SubSeq(path, 1 + 1, Len(path))
    BY <2>1, SubSeqRecursiveFirst
  <2>3. SubSeq(path, 1, Len(path)) = path /\ Tail(path) = SubSeq(path, 2, Len(path))
    BY SubSeqFull, TailIsSubSeq
  <2>4. 1 + 1 = 2
    OBVIOUS
  <2> QED
    BY <2>2, <2>3, <2>4
<1> HIDE DEF s
<1>3. Decoded(path) = Segment(s) \o Decoded(Tail(path))
  <2>1. Decoded(<<s>> \o Tail(path)) = Segment(s) \o Decoded(Tail(path))
    BY <1>1, DecodedFirst
  <2> QED
    BY <1>2, <2>1
<1>4. /\ Segment(s) \in Seq(Pieces) /\ Decoded(Tail(path)) \in Seq(Pieces)
      /\ Len(Segment(s)) \in Nat \ {0} /\ Segment(s)[1] = Text[s[1]]
  <2>1. 1 \in 1 .. Len(s)
    BY <1>1, SegmentType
  <2> QED
    BY <1>1, <2>1, SegmentType, DecodedType
<1>5. /\ Segment(s) \o Decoded(Tail(path)) \in Seq(Pieces)
      /\ Len(Segment(s) \o Decoded(Tail(path))) = Len(Segment(s)) + Len(Decoded(Tail(path)))
      /\ \A i \in 1 .. Len(Segment(s)) + Len(Decoded(Tail(path))) :
             (Segment(s) \o Decoded(Tail(path)))[i] =
                 IF i <= Len(Segment(s)) THEN Segment(s)[i] ELSE Decoded(Tail(path))[i - Len(Segment(s))]
  BY <1>4, ConcatProperties
<1>6. /\ Len(Decoded(Tail(path))) \in Nat
      /\ DOMAIN (Segment(s) \o Decoded(Tail(path))) = 1 .. Len(Segment(s) \o Decoded(Tail(path)))
  BY <1>4, <1>5, LenProperties
<1>7. 1 \in 1 .. Len(Segment(s)) + Len(Decoded(Tail(path))) /\ 1 <= Len(Segment(s))
  BY <1>4, <1>6
<1> QED
  BY <1>3, <1>4, <1>5, <1>6, <1>7 DEF s

\* A name is what both its raw and its escaped spelling stand for.
LEMMA DecodedName ==
    ASSUME NEW m \in Seq(Unescaped) \ {<<>>}
    PROVE  LET raw == [i \in DOMAIN m |-> <<m[i]>>] IN
           /\ raw \in Seq(Segments) \ {<<>>} /\ Decoded(raw) = m
           /\ Len(raw) = Len(m) /\ \A i \in 1 .. Len(m) : raw[i] = <<m[i]>>
           /\ <<m>> \in Seq(Segments) \ {<<>>} /\ Decoded(<<m>>) = m
           /\ Len(<<m>>) = 1 /\ <<m>>[1] = m
<1> DEFINE raw == [i \in DOMAIN m |-> <<m[i]>>]
           whole == <<m>>
<1>1. /\ Len(m) \in Nat \ {0} /\ DOMAIN m = 1 .. Len(m)
      /\ \A i \in 1 .. Len(m) : m[i] \in Written /\ Text[m[i]] = m[i]
  BY EmptySeq, LenProperties, ElementOfSeq DEF Unescaped
<1>2. m \in Segments
  <2>1. m \in Seq(Written)
    BY SeqMonotonic DEF Unescaped
  <2> QED
    BY <2>1 DEF Segments
<1>3. m \in Seq(Pieces) /\ Segment(m) = m
  <2>1. Segment(m) \in Seq(Pieces) /\ Len(Segment(m)) = Len(m) /\ \A i \in 1 .. Len(m) : Segment(m)[i] = m[i]
    BY <1>1, <1>2, SegmentType
  <2>2. m \in Seq(Pieces)
    <3>1. Unescaped \subseteq Pieces
      BY DEF Unescaped, Pieces
    <3> QED
      BY <3>1, SeqMonotonic
  <2> QED
    BY <2>1, <2>2, SeqEqual
<1>4. \A w \in Written : <<w>> \in Segments
  <2>1. \A w \in Written : <<w>> \in Seq(Written) /\ <<w>> # <<>>
    OBVIOUS
  <2> QED
    BY <2>1 DEF Segments
<1>5. /\ raw \in Seq(Segments) \ {<<>>} /\ Len(raw) = Len(m)
      /\ \A i \in 1 .. Len(m) : raw[i] = <<m[i]>>
  <2>1. raw \in [1 .. Len(m) -> Segments]
    BY <1>1, <1>4
  <2> HIDE DEF raw
  <2>2. raw \in Seq(Segments) /\ Len(raw) = Len(m)
    BY <1>1, <2>1, SeqDef
  <2>3. \A i \in 1 .. Len(m) : raw[i] = <<m[i]>>
    BY <1>1 DEF raw
  <2> QED
    BY <1>1, <2>2, <2>3, EmptySeq
<1>6. Decoded(raw) = m
  <2>1. /\ Split(raw) \in Seq(Seq(Pieces)) /\ Len(Split(raw)) = Len(m)
        /\ \A i \in 1 .. Len(m) : Split(raw)[i] = Segment(raw[i])
    BY <1>5, SplitType
  <2>2. \A w \in Written : Segment(<<w>>) = <<Text[w]>>
    <3> SUFFICES ASSUME NEW w \in Written PROVE Segment(<<w>>) = <<Text[w]>>
      OBVIOUS
    <3> DEFINE s == <<w>>
               x == <<Text[w]>>
    <3>1. DOMAIN s = {1} /\ s[1] = w
      OBVIOUS
    <3>2. Segment(s) = [i \in {1} |-> Text[w]]
      BY <3>1 DEF Segment
    <3>3. \A y : <<y>> = [i \in {1} |-> y]
      OBVIOUS
    <3> QED
      BY <3>2, <3>3
  <2>3. \A i \in 1 .. Len(m) : Split(raw)[i] = <<m[i]>>
    BY <1>1, <1>5, <2>1, <2>2
  <2>4. FlattenSeq(Split(raw)) = m
    <3> HIDE DEF raw
    <3> QED
      BY <1>3, <2>1, <2>3, FlattenElements
  <2> QED
    BY <1>5, <2>4, DecodedType
<1>7. whole \in Seq(Segments) \ {<<>>} /\ Len(whole) = 1 /\ whole[1] = m
  <2>1. \A s \in Segments : <<s>> \in Seq(Segments) /\ <<s>> # <<>> /\ Len(<<s>>) = 1 /\ <<s>>[1] = s
    OBVIOUS
  <2> QED
    BY <1>2, <2>1
<1>8. Decoded(whole) = m
  <2> HIDE DEF whole
  <2>1. Len(Split(whole)) = 1 /\ Split(whole)[1] = m
    BY <1>3, <1>7, SplitType
  <2> QED
    BY <1>7, <2>1, FlattenOne, DecodedType
<1> QED
  BY <1>5, <1>6, <1>7, <1>8

-----------------------------------------------------------------------------
(* Where a path leads. *)

LEMMA PlainPrefix ==
    /\ <<"route">> \in Segments /\ <<"route">>[1] = "route" /\ Text["route"] = "route"
    /\ <<Blank>> \in Segments /\ <<Blank>>[1] = Blank /\ Text[Blank] = Blank
<1>1. "route" \in Written /\ Text["route"] = "route"
  BY RouterAssumption, Zenon
<1>2. \A w \in Written : <<w>> \in Segments /\ <<w>>[1] = w
  <2>1. \A w \in Written : <<w>> \in Seq(Written) /\ <<w>> # <<>> /\ <<w>>[1] = w
    OBVIOUS
  <2> QED
    BY <2>1 DEF Segments
<1> QED
  BY <1>1, <1>2, BlankFacts

LEMMA RequestPath ==
    ASSUME NEW r \in Requests
    PROVE  r.path \in Seq(Segments) \ {<<>>}
  BY RouterAssumption, Zenon DEF Segments

LEMMA StrippedType ==
    ASSUME NEW path \in Seq(Segments) \ {<<>>}
    PROVE  Stripped(path) \in Seq(Segments) /\ Len(Stripped(path)) \in Nat
<1>1. Tail(path) \in Seq(Segments)
  BY HeadTailProperties
<1>2. <<<<Blank>>>> \o path \in Seq(Segments)
  BY PlainPrefix, DecodedFirst
<1>3. Stripped(path) \in Seq(Segments)
  BY <1>1, <1>2, BlankFacts
<1> QED
  BY <1>3, LenProperties

\* Below a prefix that is written plainly comes the rest.
LEMMA Prefixed ==
    ASSUME NEW rest \in Seq(Segments) \ {<<>>}
    PROVE  LET path == <<<<"route">>>> \o rest IN
           /\ HasRoutePrefix(path) /\ Stripped(path) = rest
           /\ Len(path) = 1 + Len(rest) /\ path[1] = <<"route">>
           /\ \A i \in 1 .. Len(rest) : path[i + 1] = rest[i]
<1> DEFINE s == <<"route">>
           path == <<s>> \o rest
<1>1. s \in Segments /\ s[1] = "route" /\ Text["route"] = "route"
  BY PlainPrefix DEF s
<1> HIDE DEF s
<1>2. /\ path \in Seq(Segments) /\ path # <<>> /\ Len(path) = 1 + Len(rest) /\ path[1] = s
      /\ \A i \in 1 .. Len(rest) : path[i + 1] = rest[i]
      /\ Tail(path) = rest /\ Decoded(path) = Segment(s) \o Decoded(rest)
  BY <1>1, DecodedFirst
<1> HIDE DEF path
<1>3. Decoded(path)[1] = "route"
  BY <1>1, <1>2, DecodedHead
<1>4. Len(Decoded(path)) > 1
  <2>1. /\ Segment(s) \in Seq(Pieces) /\ Len(Segment(s)) \in Nat \ {0}
        /\ Decoded(rest) \in Seq(Pieces) /\ Decoded(rest) # <<>>
    BY <1>1, SegmentType, DecodedType
  <2>2. Len(Decoded(rest)) \in Nat \ {0}
    BY <2>1, EmptySeq
  <2>3. Len(Decoded(path)) = Len(Segment(s)) + Len(Decoded(rest))
    BY <1>2, <2>1, ConcatProperties
  <2> QED
    BY <2>1, <2>2, <2>3
<1> QED
  BY <1>2, <1>3, <1>4, BlankFacts DEF HasRoutePrefix, s, path

\* A path leads to a model that has a backend, by the most segments that name one.
LEMMA RouteFinds ==
    ASSUME NEW path \in Seq(Segments) \ {<<>>}, RouteModel(path).ok
    PROVE  \E n \in 1 .. Len(Stripped(path)) :
               /\ RouteModel(path) = Named(path, n)
               /\ Named(path, n) = [model |-> Decoded(SubSeq(Stripped(path), 1, n)),
                                    rest |-> SubSeq(Stripped(path), n + 1, Len(Stripped(path))), ok |-> TRUE]
               /\ Decoded(SubSeq(Stripped(path), 1, n)) \in DOMAIN backends
               /\ \A k \in n + 1 .. Len(Stripped(path)) : Decoded(SubSeq(Stripped(path), 1, k)) \notin DOMAIN backends
<1> DEFINE S == Lengths(path)
<1>1. S # {} /\ RouteModel(path) = Named(path, Max(S))
  BY DEF RouteModel, Named
<1>2. S \in SUBSET (0 .. Len(Stripped(path))) /\ Len(Stripped(path)) \in Nat
  BY StrippedType DEF Lengths
<1>3. Max(S) \in S /\ \A k \in S : k =< Max(S)
  <2> HIDE DEF S
  <2> QED
    BY <1>1, <1>2, Greatest
<1>4. /\ Max(S) \in 1 .. Len(Stripped(path)) /\ Max(S) # 0
      /\ Decoded(SubSeq(Stripped(path), 1, Max(S))) \in DOMAIN backends
  BY <1>2, <1>3 DEF Lengths
<1>5. \A k \in Max(S) + 1 .. Len(Stripped(path)) : Decoded(SubSeq(Stripped(path), 1, k)) \notin DOMAIN backends
  <2> SUFFICES ASSUME NEW k \in Max(S) + 1 .. Len(Stripped(path)), k \in S PROVE FALSE
    BY <1>2, <1>4 DEF Lengths
  <2> HIDE DEF S
  <2> QED
    BY <1>2, <1>3, <1>4
<1> QED
  BY <1>1, <1>4, <1>5 DEF Named

\* A path below the prefix that is the name of a model as a whole leads to it.
LEMMA RouteWhole ==
    ASSUME NEW rest \in Seq(Segments) \ {<<>>}, Decoded(rest) \in DOMAIN backends
    PROVE  RouteModel(<<<<"route">>>> \o rest) = [model |-> Decoded(rest), rest |-> <<>>, ok |-> TRUE]
<1> DEFINE path == <<<<"route">>>> \o rest
           S == Lengths(path)
           n == Len(rest)
<1>1. Stripped(path) = rest /\ n \in Nat \ {0} /\ SubSeq(rest, 1, n) = rest
  BY Prefixed, EmptySeq, SubSeqFull
<1> HIDE DEF path
<1>2. n \in S /\ S \in SUBSET (0 .. n)
  <2>1. S = {k \in 1 .. Len(rest) : Decoded(SubSeq(rest, 1, k)) \in DOMAIN backends}
    BY <1>1 DEF Lengths
  <2>2. Decoded(SubSeq(rest, 1, n)) \in DOMAIN backends
    BY <1>1
  <2> HIDE DEF S
  <2> QED
    BY <1>1, <2>1, <2>2
<1>3. Max(S) = n
  <2>1. Max(S) \in S /\ \A k \in S : k =< Max(S)
    <3> HIDE DEF S, n
    <3> QED
      BY <1>1, <1>2, Greatest
  <2> HIDE DEF S, n
  <2>2. Max(S) \in 0 .. n /\ n =< Max(S)
    BY <1>2, <2>1
  <2> QED
    BY <1>1, <2>2
<1>4. RouteModel(path) = Named(path, n)
  BY <1>2, <1>3 DEF RouteModel
<1>5. SubSeq(rest, n + 1, Len(rest)) = <<>>
  BY <1>1, SubSeqEmpty
<1>6. Named(path, n) = [model |-> Decoded(rest), rest |-> <<>>, ok |-> TRUE]
  BY <1>1, <1>5 DEF Named
<1> QED
  BY <1>4, <1>6 DEF path

\* The names that are served are valid, and can be written.
LEMMA ServedNames ==
    ASSUME LoadInv, phase = "serving", NEW m \in Names
    PROVE  ValidModelName(m) /\ m \in Seq(Unescaped) \ {<<>>} /\ m \in DOMAIN backends
<1>1. Acceptable(TRUE) /\ DOMAIN backends = Names
  BY DEF LoadInv, TypeOK, ConfigTypeOK, Verdicts, Commands, Names
<1>2. DOMAIN file.models \subseteq Seq(Unescaped) \ {<<>>}
  <2> DEFINE i == <<file, secrets>>
  <2>1. i \in Instances /\ i[1] = file
    BY DEF LoadInv, TypeOK, ConfigTypeOK
  <2> HIDE DEF i
  <2>2. DOMAIN i[1].models \subseteq Seq(Unescaped) \ {<<>>}
    BY <2>1, NamesAssumption
  <2> QED
    BY <2>1, <2>2
<1> QED
  BY <1>1, <1>2 DEF Acceptable, ModelOK, Names

-----------------------------------------------------------------------------
(* The steps of the handler. *)

LEMMA ConfigStays ==
    ASSUME LoadInv, UNCHANGED configVars
    PROVE  ConfigTypeOK' /\ Verdicts' /\ Visited' /\ Made'
<1> USE DEF configVars, loop, loaded
<1>1. ConfigTypeOK'
  BY DEF LoadInv, TypeOK, ConfigTypeOK
<1>2. Verdicts'
  BY FrameOK DEF LoadInv, Verdicts, Loading
<1>3. Visited'
  BY Frame, FrameOK DEF LoadInv, Visited, Loading, Expand
<1>4. Made'
  BY Frame DEF LoadInv, Made, Valued, Built, Expand
<1> QED
  BY <1>1, <1>2, <1>3, <1>4

LEMMA AnswersFrame ==
    ASSUME UNCHANGED configVars
    PROVE  \A a : Answers(a)' <=> Answers(a)
<1> USE DEF configVars, loaded
<1>1. \A r : Authorized(r)' <=> Authorized(r)
  BY DEF Authorized, CheckBearer
<1>2. \A r, m, path : Sent(r, m, path)' = Sent(r, m, path)
  BY DEF Sent, Forwarded
<1>3. \A path : RouteModel(path)' = RouteModel(path)
  BY DEF RouteModel, Lengths, Named
<1>4. Names' = Names /\ Listed' = Listed
  BY DEF Names, Listed
<1>5. \A a : Forwards(a)' <=> Forwards(a)
  BY <1>2, <1>3, <1>4 DEF Forwards
<1>6. \A a : Retrieves(a)' <=> Retrieves(a)
  BY <1>4 DEF Retrieves
<1> QED
  BY <1>1, <1>5, <1>6 DEF Answers

\* Each branch of the handler gives the answer that Answers describes.
LEMMA RespondAnswers ==
    ASSUME LoadInv, phase = "serving", NEW r \in Requests,
           Redirect(r) \/ Health(r) \/ Unauthorized(r) \/ Catalog(r) \/ ByPath(r) \/ ByBody(r)
    PROVE  \E status, m, sent :
               LET a == [request |-> r, status |-> status, model |-> m, sent |-> sent] IN
               last' = a /\ Answers(a) /\ UNCHANGED configVars
<1> DEFINE A(status, m, sent) == [request |-> r, status |-> status, model |-> m, sent |-> sent]
<1>1. SUFFICES \E status, m, sent : Answer(r, status, m, sent) /\ Answers(A(status, m, sent))
  BY DEF Answer
<1>2. DOMAIN backends = Names
  BY DEF LoadInv, TypeOK, ConfigTypeOK, Names
<1>3. CASE Redirect(r)
  <2>1. Answers(A(301, Nobody, Nobody))
    BY DEF Answers
  <2> QED
    BY <1>3, <2>1 DEF Redirect
<1>4. CASE Health(r)
  <2>1. Answers(A(200, Nobody, Nobody))
    BY <1>4 DEF Answers, Health, IsHealth, IsCatalog
  <2> QED
    BY <1>4, <2>1 DEF Health
<1>5. CASE Unauthorized(r)
  <2>1. Answers(A(401, Nobody, Nobody))
    BY <1>5 DEF Answers, Unauthorized, Guarded
  <2> QED
    BY <1>5, <2>1 DEF Unauthorized
<1>6. CASE Catalog(r)
  <2> DEFINE name == Decoded(SubSeq(r.path, 3, Len(r.path)))
  <2>1. Clean(r.path) /\ Authorized(r)
    BY <1>6 DEF Catalog, Guarded
  <2>2. CASE Len(r.path) = 2
    <3>1. ~(Len(r.path) > 2)
      BY <2>2
    <3>2. Answers(A(200, Nobody, Nobody))
      BY <2>1, <3>1 DEF Answers
    <3> QED
      BY <1>6, <2>2, <3>2 DEF Catalog
  <2>3. CASE Len(r.path) # 2 /\ name \in Listed
    <3>1. Answers(A(200, name, Nobody))
      BY <2>1, <2>3 DEF Answers, Retrieves
    <3> QED
      BY <1>6, <2>3, <3>1 DEF Catalog
  <2>4. CASE Len(r.path) # 2 /\ name \notin Listed
    <3>1. Answers(A(404, name, Nobody))
      BY <2>1, <2>4 DEF Answers, Retrieves
    <3> QED
      BY <1>6, <2>4, <3>1 DEF Catalog
  <2> QED
    BY <2>2, <2>3, <2>4
<1>7. CASE ByPath(r)
  <2> DEFINE to == RouteModel(r.path)
  <2>1. Clean(r.path) /\ Authorized(r) /\ ~(r.get /\ IsCatalog(r.path)) /\ HasRoutePrefix(r.path)
    BY <1>7 DEF ByPath, Proxied, Guarded
  <2>2. CASE to.ok
    <3>1. to.model \in Names
      BY <1>2, <2>2, RequestPath, RouteFinds
    <3> HIDE DEF to
    <3>2. Answers(A(0, to.model, Sent(r, to.model, to.rest)))
      BY <2>1, <2>2, <3>1 DEF Answers, Forwards, to
    <3> QED
      BY <1>7, <2>2, <3>2 DEF ByPath, to
  <2>3. CASE ~to.ok
    <3> HIDE DEF to
    <3>1. Answers(A(404, to.model, Nobody))
      BY <2>1 DEF Answers
    <3> QED
      BY <1>7, <2>3, <3>1 DEF ByPath, to
  <2> QED
    BY <2>2, <2>3
<1>8. CASE ByBody(r)
  <2>1. Clean(r.path) /\ Authorized(r) /\ ~(r.get /\ IsCatalog(r.path)) /\ ~HasRoutePrefix(r.path)
    BY <1>8 DEF ByBody, Proxied, Guarded
  <2>2. CASE r.model = Nobody
    <3>1. Answers(A(400, Nobody, Nobody))
      BY <2>1 DEF Answers
    <3> QED
      BY <1>8, <2>2, <3>1 DEF ByBody
  <2>3. CASE r.model # Nobody /\ r.model \in DOMAIN backends
    <3>1. Answers(A(0, r.model, Sent(r, r.model, r.path)))
      BY <1>2, <2>1, <2>3 DEF Answers, Forwards
    <3> QED
      BY <1>8, <2>3, <3>1 DEF ByBody
  <2>4. CASE r.model # Nobody /\ r.model \notin DOMAIN backends
    <3>1. Answers(A(404, r.model, Nobody))
      BY <2>1 DEF Answers
    <3> QED
      BY <1>8, <2>4, <3>1 DEF ByBody
  <2> QED
    BY <2>2, <2>3, <2>4
<1> QED
  <2> HIDE DEF A
  <2> QED
    BY <1>3, <1>4, <1>5, <1>6, <1>7, <1>8

LEMMA RespondInv ==
    ASSUME Inv, Respond
    PROVE  Inv'
<1>1. PICK r \in Requests :
          Redirect(r) \/ Health(r) \/ Unauthorized(r) \/ Catalog(r) \/ ByPath(r) \/ ByBody(r)
  BY DEF Respond
<1>2. phase = "serving"
  BY DEF Respond
<1>3. \E status, m, sent :
          LET a == [request |-> r, status |-> status, model |-> m, sent |-> sent] IN
          last' = a /\ Answers(a) /\ UNCHANGED configVars
  BY <1>1, <1>2, RespondAnswers DEF Inv
<1>4. UNCHANGED configVars /\ last'.request = r /\ Answers(last')
  BY <1>3
<1>5. LoadInv'
  BY <1>4, ConfigStays DEF Inv, LoadInv, TypeOK
<1>6. Credentials'
  BY <1>4, CredentialsStay DEF Inv
<1>7. Answered'
  <2>1. \A a : Answers(a)' <=> Answers(a)
    BY <1>4, AnswersFrame
  <2>2. Answers(last)'
    BY <1>4, <2>1
  <2> QED
    BY <1>2, <1>4, <2>2 DEF Answered, configVars
<1> QED
  BY <1>5, <1>6, <1>7 DEF Inv

LEMMA InvNext == Inv /\ [Next]_vars => Inv'
<1> SUFFICES ASSUME Inv, [Next]_vars PROVE Inv'
  OBVIOUS
<1>1. CASE Load /\ UNCHANGED last
  <2>1. phase # "serving"
    BY <1>1 DEF Load, Start, Limits, Token, TokensDone, Model, Header, HeadersDone, ModelsDone,
                Backend, BackendsDone
  <2>2. LoadInv' /\ Credentials'
    BY <1>1, LoadStep, CredentialsStep DEF Inv
  <2>3. Answered'
    BY <1>1, <2>1 DEF Inv, Answered, None
  <2> QED
    BY <2>2, <2>3 DEF Inv
<1>2. CASE Respond
  BY <1>2, RespondInv
<1>3. CASE UNCHANGED configVars /\ (UNCHANGED last \/ last' = None)
  <2>1. LoadInv' /\ Credentials'
    BY <1>3, ConfigStays, CredentialsStay DEF Inv, LoadInv, TypeOK
  <2>2. Answered'
    <3>1. CASE last' = None
      BY <3>1 DEF Answered, None
    <3>2. CASE UNCHANGED last
      <4>1. Answers(last)' <=> Answers(last)
        BY <1>3, <3>2, AnswersFrame
      <4> QED
        BY <1>3, <3>2, <4>1 DEF Inv, Answered, None, configVars
    <3> QED
      BY <1>3, <3>1, <3>2
  <2> QED
    BY <2>1, <2>2 DEF Inv
<1> QED
  BY <1>1, <1>2, <1>3 DEF Next, Over, vars

LEMMA Invariant == Spec => []Inv
  BY InvInit, InvNext, PTL DEF Spec

-----------------------------------------------------------------------------
(* Theorems. *)

\* Every state is one of those that Config and Router are written for: a
\* handler is only served from an accepted configuration, with a backend for
\* each of its models.
THEOREM TypeCorrect == Spec => []TypeOK
<1>1. Inv => TypeOK
  BY DEF Inv, LoadInv
<1> QED
  BY <1>1, Invariant, PTL

LEMMA Single ==
    ASSUME NEW x, NEW t, t = <<x>>
    PROVE  DOMAIN t = {1} /\ t[1] = x
  OBVIOUS

LEMMA Nothing ==
    ASSUME NEW t, t = <<>>
    PROVE  DOMAIN t = {}
  OBVIOUS

\* A part of a text stands in the file first, and alone unless it is unprintable.
LEMMA RawText ==
    ASSUME NEW x
    PROVE  /\ Raw(x) # <<>> /\ 1 \in DOMAIN Raw(x) /\ Raw(x)[1] = x
           /\ x \notin Unprintable => Raw(x) = <<x>>
<1>1. CASE x \in Unprintable
  <2> DEFINE t == <<x, "control">>
  <2>1. 1 \in DOMAIN t /\ t[1] = x /\ t # <<>>
    OBVIOUS
  <2>2. Raw(x) = t
    BY <1>1 DEF Raw
  <2> HIDE DEF t
  <2> QED
    BY <1>1, <2>1, <2>2
<1>2. CASE x \notin Unprintable
  <2> DEFINE t == <<x>>
  <2>1. 1 \in DOMAIN t /\ t[1] = x /\ t # <<>>
    OBVIOUS
  <2>2. Raw(x) = t
    BY <1>2 DEF Raw
  <2> HIDE DEF t
  <2>3. 1 \in DOMAIN Raw(x) /\ Raw(x)[1] = x /\ Raw(x) # <<>>
    BY <2>1, <2>2
  <2> QED
    BY <2>2, <2>3 DEF t
<1> QED
  BY <1>1, <1>2

\* Expansion only adds reasons to refuse, unless it replaces a reference with a
\* control byte: what is acceptable with the contents of the secrets is
\* acceptable with the text that refers to them.
LEMMA ExpandedIsStricter ==
    ASSUME Acceptable(TRUE), ~SomeUnprintable
    PROVE  Acceptable(FALSE)
<1>1. \A text : Fails(text, FALSE) => Fails(text, TRUE)
  BY DEF Fails, Unresolved
<1>2. /\ \A text, e : DOMAIN Expanded(text, e) = DOMAIN text
      /\ \A text, e : \A i \in DOMAIN text : Expanded(text, e)[i] = Chunk(text[i], e)
  BY DEF Expanded
<1>3. ASSUME NEW text, ~Empty(Expanded(text, TRUE))
      PROVE  ~Empty(Expanded(text, FALSE))
  <2>1. PICK i \in DOMAIN text : TRUE
    BY <1>2, <1>3 DEF Empty
  <2>2. Chunk(text[i], FALSE) # <<>>
    BY RawText DEF Chunk
  <2> QED
    BY <1>2, <2>1, <2>2 DEF Empty
<1>4. ASSUME NEW text \in Texts, ValidHeaderValue(Expanded(text, TRUE))
      PROVE  ValidHeaderValue(Expanded(text, FALSE))
  <2> SUFFICES ASSUME NEW i \in DOMAIN text, NEW j \in DOMAIN Expanded(text, FALSE)[i],
                      Expanded(text, FALSE)[i][j] \in Invalid
               PROVE  FALSE
    BY <1>2 DEF ValidHeaderValue
  <2> DEFINE x == text[i]
  <2>1. x \in Invalid
    <3>1. Expanded(text, FALSE)[i] = Chunk(x, FALSE)
      BY <1>2
    <3>2. Chunk(x, FALSE) = <<x>>
      <4>1. x \notin Unprintable
        BY DEF SomeUnprintable
      <4>2. Chunk(x, FALSE) = Raw(x)
        BY DEF Chunk
      <4> QED
        BY <4>1, <4>2, RawText
    <3>3. Expanded(text, FALSE)[i] = <<x>>
      BY <3>1, <3>2
    <3>4. DOMAIN Expanded(text, FALSE)[i] = {1} /\ Expanded(text, FALSE)[i][1] = x
      BY <3>3, Single
    <3> QED
      BY <3>4
  <2>2. x \notin Secrets \union {"${}", "$$"}
    BY <2>1, ConfigAssumption DEF Invalid
  <2>3. Chunk(x, TRUE) = <<x>>
    <3>1. Chunk(x, TRUE) = Raw(x) /\ x \notin Unprintable
      BY <2>2, ConfigAssumption DEF Chunk
    <3> QED
      BY <3>1, RawText
  <2>4. Expanded(text, TRUE)[i] = <<x>>
    BY <1>2, <2>3
  <2>5. DOMAIN Expanded(text, TRUE)[i] = {1} /\ Expanded(text, TRUE)[i][1] = x
    BY <2>4, Single
  <2> QED
    BY <1>2, <1>4, <2>1, <2>5 DEF ValidHeaderValue
<1>5. \A n \in DOMAIN file.tokens : TokenOK(n, TRUE) => TokenOK(n, FALSE)
  <2>1. \A n \in DOMAIN file.tokens : file.tokens[n] \in Texts
    BY DEF TokenTexts, Texts
  <2> QED
    BY <1>1, <1>3, <1>4, <2>1 DEF TokenOK
<1>6. \A m \in Names : HeadersOK(m, TRUE) => HeadersOK(m, FALSE)
  <2>1. \A m \in Names : \A h \in DOMAIN Own(m) : Own(m)[h] \in Texts
    BY DEF Names, Own, Texts
  <2> QED
    BY <1>1, <1>4, <2>1 DEF HeadersOK, HeaderOK
<1> QED
  BY <1>5, <1>6 DEF Acceptable

\* Whatever the file and its secrets, and in whichever order the maps are gone
\* through, serve accepts only what check has accepted, unless a reference of
\* the file holds a control byte.
THEOREM ServedIsChecked == Spec => []ServedWasChecked
<1>1. Inv => ServedWasChecked
  <2> SUFFICES ASSUME Inv, verdict["serve"] = "accepted", ~SomeUnprintable
               PROVE  verdict["check"] = "accepted"
    BY DEF ServedWasChecked
  <2>1. Acceptable(TRUE) /\ verdict["check"] # "none"
    BY DEF Inv, LoadInv, Verdicts, Commands
  <2>2. verdict["check"] # "refused"
    BY <2>1, ExpandedIsStricter DEF Inv, LoadInv, Verdicts, Commands
  <2> QED
    BY <2>1, <2>2 DEF Inv, LoadInv, TypeOK, ConfigTypeOK, Commands
<1> QED
  BY <1>1, Invariant, PTL

\* A configuration that check accepts, with secrets that exist and are usable,
\* is refused to serve only for a token of nothing but dropped references.
LEMMA TextIsComplete ==
    ASSUME Acceptable(FALSE), SecretsUsable, ~Acceptable(TRUE)
    PROVE  \E text \in TokenTexts : \A i \in DOMAIN text : text[i] = "${}"
<1>1. /\ \A text, e : DOMAIN Expanded(text, e) = DOMAIN text
      /\ \A text, e : \A i \in DOMAIN text : Expanded(text, e)[i] = Chunk(text[i], e)
  BY DEF Expanded
<1>2. ASSUME NEW text \in Texts, ~Fails(text, FALSE)
      PROVE  ~Fails(text, TRUE)
  BY <1>2 DEF Fails, Unresolved, SecretsUsable
<1>3. ASSUME NEW text \in Texts, ValidHeaderValue(Expanded(text, FALSE))
      PROVE  ValidHeaderValue(Expanded(text, TRUE))
  <2> SUFFICES ASSUME NEW i \in DOMAIN text
               PROVE  \A j \in DOMAIN Chunk(text[i], TRUE) : Chunk(text[i], TRUE)[j] \notin Invalid
    BY <1>1 DEF ValidHeaderValue
  <2> DEFINE x == text[i]
  <2>1. x \notin Invalid
    <3>1. Expanded(text, FALSE)[i] = Chunk(x, FALSE)
      BY <1>1
    <3>2. Chunk(x, FALSE) = Raw(x)
      BY DEF Chunk
    <3>3. 1 \in DOMAIN Expanded(text, FALSE)[i] /\ Expanded(text, FALSE)[i][1] = x
      BY <3>1, <3>2, RawText
    <3> QED
      BY <1>1, <1>3, <3>3 DEF ValidHeaderValue
  <2>2. CASE x \in Secrets
    <3>1. ValidHeaderValue(<<Contents(x)>>)
      BY <2>2 DEF SecretsUsable
    <3>2. \A j \in DOMAIN Contents(x) : Contents(x)[j] \notin Invalid
      <4> DEFINE t == <<Contents(x)>>
      <4>1. DOMAIN t = {1} /\ t[1] = Contents(x)
        BY Single
      <4> HIDE DEF t
      <4> QED
        BY <3>1, <4>1 DEF ValidHeaderValue, t
    <3>3. Chunk(x, TRUE) = Contents(x)
      BY <2>2, ConfigAssumption DEF Chunk
    <3> QED
      BY <3>2, <3>3
  <2>3. CASE x \notin Secrets \union {"${}", "$$"}
    <3>1. Chunk(x, TRUE) = <<x>>
      <4>1. Chunk(x, TRUE) = Raw(x) /\ x \notin Unprintable
        BY <2>3, ConfigAssumption DEF Chunk
      <4> QED
        BY <4>1, RawText
    <3>2. DOMAIN Chunk(x, TRUE) = {1} /\ Chunk(x, TRUE)[1] = x
      BY <3>1, Single
    <3> QED
      BY <2>1, <3>2
  <2>4. CASE x \in {"${}", "$$"}
    <3>1. Chunk(x, TRUE) = <<>> \/ Chunk(x, TRUE) = <<"$">>
      BY <2>4, ConfigAssumption DEF Chunk
    <3>2. CASE Chunk(x, TRUE) = <<"$">>
      <4>1. DOMAIN Chunk(x, TRUE) = {1} /\ Chunk(x, TRUE)[1] = "$"
        BY <3>2, Single
      <4> QED
        BY <4>1 DEF Invalid
    <3>3. CASE Chunk(x, TRUE) = <<>>
      <4>1. DOMAIN Chunk(x, TRUE) = {}
        BY <3>3, Nothing
      <4> QED
        BY <4>1
    <3> QED
      BY <3>1, <3>2, <3>3
  <2> QED
    BY <2>2, <2>3, <2>4
<1>4. ASSUME NEW text \in TokenTexts, Empty(Expanded(text, TRUE))
      PROVE  \A i \in DOMAIN text : text[i] = "${}"
  <2> SUFFICES ASSUME NEW i \in DOMAIN text
               PROVE  text[i] = "${}"
    OBVIOUS
  <2>1. Chunk(text[i], TRUE) = <<>>
    BY <1>1, <1>4 DEF Empty
  <2>2. text[i] \notin Secrets
    <3>1. text \in Texts
      BY DEF Texts
    <3>2. text[i] \in Secrets => Chunk(text[i], TRUE) = Contents(text[i])
      BY ConfigAssumption DEF Chunk
    <3> QED
      BY <2>1, <3>1, <3>2 DEF SecretsUsable
  <2> QED
    BY <2>1, <2>2, RawText DEF Chunk
<1>5. PICK text \in TokenTexts : Empty(Expanded(text, TRUE))
  <2>1. \A n \in DOMAIN file.tokens : file.tokens[n] \in TokenTexts /\ file.tokens[n] \in Texts
    BY DEF TokenTexts, Texts
  <2>2. \A m \in Names : \A h \in DOMAIN Own(m) : Own(m)[h] \in Texts
    BY DEF Names, Own, Texts
  <2>3. \A m \in Names : HeadersOK(m, TRUE)
    BY <1>2, <1>3, <2>2 DEF Acceptable, HeadersOK, HeaderOK
  <2>4. PICK n \in DOMAIN file.tokens : ~TokenOK(n, TRUE)
    BY <2>3 DEF Acceptable
  <2>5. Empty(Expanded(file.tokens[n], TRUE))
    BY <1>2, <1>3, <2>1, <2>4 DEF Acceptable, TokenOK
  <2> QED
    BY <2>1, <2>5
<1> QED
  BY <1>4, <1>5

\* What check accepts is served, unless a secret is missing or unusable, or a
\* token has nothing but dropped references for its text.
THEOREM CheckIsComplete == Spec => []CheckedIsServed
<1>1. Inv => CheckedIsServed
  <2> SUFFICES ASSUME Inv, verdict["check"] = "accepted", SecretsUsable, verdict["serve"] = "refused"
               PROVE  \E text \in TokenTexts : \A i \in DOMAIN text : text[i] = "${}"
    BY DEF CheckedIsServed
  <2>1. Acceptable(FALSE) /\ ~Acceptable(TRUE)
    BY DEF Inv, LoadInv, Verdicts, Commands
  <2> QED
    BY <2>1, TextIsComplete
<1> QED
  BY <1>1, Invariant, PTL

\* A request that is sent to a backend has every header of its model, with the
\* expanded value, in place of the client's.
THEOREM HeadersArrive == Spec => []HeadersReachBackend
<1>1. Inv => HeadersReachBackend
  <2> SUFFICES ASSUME Inv, last # None, last.sent # Nobody, NEW h \in DOMAIN Own(last.model)
               PROVE  LET value == Expanded(Own(last.model)[h], TRUE) IN
                      IF h[1] # "Host"
                      THEN h[1] \in DOMAIN last.sent.headers /\ last.sent.headers[h[1]] = value
                      ELSE FlattenSeq(value) \in {<<>>, last.sent.host}
    BY DEF HeadersReachBackend, Own
  <2> DEFINE own == backends[last.model]
             value == Expanded(Own(last.model)[h], TRUE)
  <2>1. PICK r, path : last.sent = Sent(r, last.model, path)
    BY DEF Inv, Answered, Answers, Forwards
  <2>2. h[1] \in DOMAIN own /\ own[h[1]] = value
    <3>1. Expand /\ Built(last.model)
      BY DEF Inv, LoadInv, Made, Answered, Answers, Forwards
    <3>2. \A text : Expanded(text, Expand) = Expanded(text, TRUE)
      BY <3>1 DEF Expanded, Chunk
    <3> QED
      BY <3>1, <3>2 DEF Built
  <2>3. CASE h[1] # "Host"
    <3>1. last.sent.headers = [c \in DOMAIN own \ {"Host"} |-> own[c]]
      BY <2>1 DEF Sent
    <3> QED
      BY <2>2, <2>3, <3>1
  <2>4. CASE h[1] = "Host"
    <3> DEFINE host == IF "Host" \in DOMAIN own THEN FlattenSeq(own["Host"]) ELSE <<>>
    <3>1. last.sent.host = IF host # <<>> THEN host ELSE r.host
      BY <2>1 DEF Sent
    <3>2. host = FlattenSeq(value)
      BY <2>2, <2>4
    <3> HIDE DEF host
    <3>3. FlattenSeq(value) \in {<<>>, last.sent.host}
      BY <3>1, <3>2
    <3> QED
      BY <2>4, <3>3
  <2> QED
    BY <2>3, <2>4
<1> QED
  BY <1>1, Invariant, PTL

\* The credential of a token of a served file is never empty.
LEMMA TokenValue ==
    ASSUME LoadInv, phase = "serving", NEW n \in DOMAIN file.tokens
    PROVE  FlattenSeq(Expanded(file.tokens[n], TRUE)) # <<>>
<1> DEFINE text == file.tokens[n]
           value == Expanded(text, TRUE)
<1>1. TokenOK(n, TRUE)
  BY DEF LoadInv, TypeOK, ConfigTypeOK, Verdicts, Commands, Acceptable
<1>2. IsSequence(text) /\ \A s \in Secrets : secrets[s] = Absent \/ IsSequence(secrets[s])
  <2> DEFINE i == <<file, secrets>>
  <2>1. i \in Instances /\ i[1] = file /\ i[2] = secrets
    BY DEF LoadInv, TypeOK, ConfigTypeOK
  <2> HIDE DEF i
  <2>2. /\ \A m \in DOMAIN i[1].tokens : IsSequence(i[1].tokens[m])
        /\ \A s \in Secrets : i[2][s] = Absent \/ IsSequence(i[2][s])
    BY <2>1, TextAssumption
  <2> QED
    BY <2>1, <2>2
<1>3. Len(text) \in Nat /\ DOMAIN text = 1 .. Len(text)
  BY <1>2, LenProperties DEF IsSequence
<1>4. \A i \in DOMAIN text : IsSequence(Chunk(text[i], TRUE))
  <2> SUFFICES ASSUME NEW i \in DOMAIN text PROVE IsSequence(Chunk(text[i], TRUE))
    OBVIOUS
  <2>1. ~Unresolved(text[i], TRUE)
    BY <1>1 DEF TokenOK, Fails
  <2>2. CASE text[i] \in Secrets
    <3>1. IsSequence(secrets[text[i]])
      BY <1>2, <2>1, <2>2 DEF Unresolved
    <3> QED
      BY <2>2, <3>1, TrimmedType DEF Chunk, Contents
  <2>3. CASE text[i] \notin Secrets
    <3>1. \A x : IsSequence(<<x>>)
      BY ElementIsSequence
    <3>2. IsSequence(<<>>)
      BY EmptySeq DEF IsSequence
    <3>3. Raw(text[i]) = <<text[i]>>
      BY <2>3, ConfigAssumption, RawText
    <3> QED
      BY <2>3, <3>1, <3>2, <3>3 DEF Chunk
  <2> QED
    BY <2>2, <2>3
<1> DEFINE S == UNION {ToSet(Chunk(text[i], TRUE)) : i \in DOMAIN text}
           T == Seq(S)
<1>5. \A i \in DOMAIN text : Chunk(text[i], TRUE) \in T
  <2> SUFFICES ASSUME NEW i \in DOMAIN text PROVE Chunk(text[i], TRUE) \in Seq(S)
    OBVIOUS
  <2> DEFINE c == Chunk(text[i], TRUE)
  <2>1. c \in Seq(ToSet(c)) /\ ToSet(c) \subseteq S
    BY <1>4 DEF IsSequence
  <2> HIDE DEF c, S
  <2>2. c \in Seq(S)
    BY <2>1, SeqMonotonic
  <2> QED
    BY <2>2 DEF c
<1>6. value \in Seq(T) /\ Len(value) = Len(text) /\ DOMAIN value = 1 .. Len(text)
  <2>1. value \in [1 .. Len(text) -> T]
    <3> HIDE DEF T
    <3> QED
      BY <1>3, <1>5 DEF Expanded
  <2> HIDE DEF value, T
  <2> QED
    BY <1>3, <2>1, SeqDef
<1>7. PICK i \in 1 .. Len(value) : value[i] # <<>>
  BY <1>1, <1>6 DEF TokenOK, Empty
<1> HIDE DEF value, S
<1>8. FlattenSeq(value) # <<>>
  BY <1>6, <1>7, FlattenNonempty
<1> QED
  BY <1>8 DEF value

\* Nothing but the value of a token of the file authenticates, and that is
\* never empty; a backend does not see it.
THEOREM TokensAuthenticate == Spec => []OnlyTokensAuthenticate
<1>1. Inv => OnlyTokensAuthenticate
  <2> DEFINE r == last.request
  <2> SUFFICES ASSUME Inv, last # None, last.status \notin {301, 401}, TokenTexts # {},
                      ~(last.status = 200 /\ IsHealth(r.path))
               PROVE  /\ r.bearer \notin {Nobody, <<>>}
                      /\ \E text \in TokenTexts : r.bearer = FlattenSeq(Expanded(text, TRUE))
                      /\ last.sent # Nobody =>
                             \/ "Authorization" \in DOMAIN backends[last.model]
                             \/ last.sent.authorization = Nobody
    BY DEF OnlyTokensAuthenticate
  <2>1. phase = "serving" /\ Answers(last) /\ Authorized(r)
    BY DEF Inv, Answered, Answers
  <2>2. /\ DOMAIN tokens = DOMAIN file.tokens
        /\ \A n \in DOMAIN file.tokens : tokens[n] = Expanded(file.tokens[n], TRUE)
    <3>1. Expand /\ Credited(DOMAIN file.tokens)
      BY <2>1 DEF Inv, LoadInv, Made, Credentials
    <3>2. \A text : Expanded(text, Expand) = Expanded(text, TRUE)
      BY <3>1 DEF Expanded, Chunk
    <3> QED
      BY <3>1, <3>2 DEF Credited
  <2>3. DOMAIN tokens # {}
    BY <2>2 DEF TokenTexts
  <2>4. PICK n \in DOMAIN file.tokens : r.bearer # Nobody /\ r.bearer = FlattenSeq(Expanded(file.tokens[n], TRUE))
    <3>1. PICK n \in DOMAIN tokens : r.bearer # Nobody /\ r.bearer = FlattenSeq(tokens[n])
      BY <2>1, <2>3 DEF Authorized, CheckBearer
    <3>2. n \in DOMAIN file.tokens /\ tokens[n] = Expanded(file.tokens[n], TRUE)
      BY <2>2
    <3>3. r.bearer = FlattenSeq(Expanded(file.tokens[n], TRUE))
      BY <3>1, <3>2
    <3> QED
      BY <3>1, <3>2, <3>3
  <2>5. r.bearer # <<>>
    BY <2>1, <2>4, TokenValue DEF Inv
  <2>6. file.tokens[n] \in TokenTexts
    BY DEF TokenTexts
  <2>7. ASSUME last.sent # Nobody, "Authorization" \notin DOMAIN backends[last.model]
        PROVE  last.sent.authorization = Nobody
    <3>1. PICK path : last.sent = Sent(r, last.model, path)
      BY <2>1, <2>7 DEF Answers, Forwards
    <3> QED
      BY <2>3, <2>7, <3>1 DEF Sent, Forwarded
  <2> QED
    BY <2>4, <2>5, <2>6, <2>7
<1> QED
  BY <1>1, Invariant, PTL

\* A clean path below the plain prefix that is the name of a model leads to it.
LEMMA WholeLeads ==
    ASSUME NEW rest \in Seq(Segments) \ {<<>>}, Decoded(rest) \in DOMAIN backends,
           Clean(<<<<"route">>>> \o rest)
    PROVE  LeadsTo(<<<<"route">>>> \o rest, Decoded(rest))
<1> DEFINE path == <<<<"route">>>> \o rest
<1>1. HasRoutePrefix(path)
  BY Prefixed
<1>2. RouteModel(path) = [model |-> Decoded(rest), rest |-> <<>>, ok |-> TRUE]
  BY RouteWhole
<1> QED
  BY <1>1, <1>2 DEF LeadsTo

\* No segment of a clean path is a dot or two, and none but the last is empty.
LEMMA CleanSegments ==
    ASSUME NEW path \in Seq(Segments), Clean(path)
    PROVE  /\ \A i \in 1 .. Len(path) - 1 : path[i] # <<Blank>>
           /\ \A i \in 1 .. Len(path) : path[i] \notin {<<".">>, <<"..">>}
<1>1. DOMAIN path = 1 .. Len(path)
  BY LenProperties
<1>2. \A i \in 1 .. Len(path) - 1 : path[i] # <<Blank>>
  BY BlankFacts, Zenon
<1>3. \A i \in DOMAIN path : path[i] \notin {<<".">>, <<"..">>}
  BY BlankFacts, Zenon
<1> QED
  BY <1>1, <1>2, <1>3, Zenon

\* What is below the plain prefix is clean if it is.
LEMMA CleanBelow ==
    ASSUME NEW rest \in Seq(Segments) \ {<<>>},
           \A i \in 1 .. Len(rest) - 1 : rest[i] # <<Blank>>,
           \A i \in 1 .. Len(rest) : rest[i] \notin {<<".">>, <<"..">>}
    PROVE  Clean(<<<<"route">>>> \o rest)
<1> DEFINE s == <<"route">>
           path == <<s>> \o rest
<1>1. s \notin {<<Blank>>, <<".">>, <<"..">>}
  <2>1. "route" # Blank /\ "route" # "." /\ "route" # ".."
    BY Zenon DEF Blank
  <2>2. \A x, y : x # y => <<x>> # <<y>>
    OBVIOUS
  <2> QED
    BY <2>1, <2>2
<1> HIDE DEF s
<1>2. s \in Segments
  BY PlainPrefix DEF s
<1>3. /\ path \in Seq(Segments) /\ Len(path) = 1 + Len(rest) /\ path[1] = s
      /\ \A i \in 1 .. Len(rest) : path[i + 1] = rest[i]
  BY <1>2, DecodedFirst
<1> HIDE DEF path
<1>4. Len(rest) \in Nat /\ DOMAIN path = 1 .. 1 + Len(rest)
  BY <1>3, LenProperties
<1>5. ASSUME NEW i \in 1 .. 1 + Len(rest)
      PROVE  path[i] = s \/ (i - 1 \in 1 .. Len(rest) /\ path[i] = rest[i - 1])
  <2>1. CASE i = 1
    BY <1>3, <2>1
  <2>2. CASE i # 1
    <3>1. i - 1 \in 1 .. Len(rest) /\ (i - 1) + 1 = i
      BY <1>4, <2>2
    <3> QED
      BY <1>3, <3>1
  <2> QED
    BY <2>1, <2>2
<1>6. \A i \in 1 .. Len(path) - 1 : path[i] # <<Blank>>
  <2> SUFFICES ASSUME NEW i \in 1 .. Len(path) - 1 PROVE path[i] # <<Blank>>
    OBVIOUS
  <2>1. i \in 1 .. 1 + Len(rest) /\ (i - 1 \in 1 .. Len(rest) => i - 1 \in 1 .. Len(rest) - 1)
    BY <1>3, <1>4
  <2> QED
    BY <1>1, <1>5, <2>1
<1>7. \A i \in DOMAIN path : path[i] \notin {<<".">>, <<"..">>}
  BY <1>1, <1>4, <1>5
<1> QED
  BY <1>6, <1>7, BlankFacts DEF s, path

LEMMA PairConcat == \A x, y : <<x>> \o <<y>> = <<x, y>>
<1> SUFFICES ASSUME NEW x, NEW y PROVE <<x>> \o <<y>> = <<x, y>>
  OBVIOUS
<1> DEFINE T == {x, y}
           s == <<y>>
           both == <<x, y>>
<1>1. s \in Seq(T) /\ Len(s) = 1 /\ s[1] = y
  OBVIOUS
<1>2. both \in Seq(T) /\ Len(both) = 2 /\ both[1] = x /\ both[2] = y
  OBVIOUS
<1> HIDE DEF s, both
<1>3. /\ <<x>> \o s \in Seq(T) /\ Len(<<x>> \o s) = 2
      /\ (<<x>> \o s)[1] = x /\ (<<x>> \o s)[1 + 1] = y
  BY <1>1, ConcatFirst
<1>4. \A i \in 1 .. 2 : i = 1 \/ i = 1 + 1
  OBVIOUS
<1>5. \A i \in 1 .. 2 : (<<x>> \o s)[i] = both[i]
  BY <1>2, <1>3, <1>4
<1> HIDE DEF T
<1>6. <<x>> \o s = both
  BY <1>2, <1>3, <1>5, SeqEqual
<1> QED
  BY <1>6 DEF s, both

\* Every model that is served is reached by its name, raw or escaped.
THEOREM NamesReach == Spec => []NamesReachable
<1>1. Inv => NamesReachable
  <2> SUFFICES ASSUME Inv, phase = "serving", NEW m \in Names
               PROVE  LET dots == {".", ".."} \intersect ToSet(m) # {} IN
                      /\ ~dots => LeadsTo(<<<<"route">>>> \o [i \in DOMAIN m |-> <<m[i]>>], m)
                      /\ ~dots \/ Len(m) > 1 => LeadsTo(<<<<"route">>, m>>, m)
    BY DEF NamesReachable, Names
  <2> DEFINE dots == {".", ".."} \intersect ToSet(m) # {}
             raw == [i \in DOMAIN m |-> <<m[i]>>]
             whole == <<m>>
  <2>1. /\ m \in Seq(Unescaped) \ {<<>>} /\ m \in DOMAIN backends
        /\ \A i \in DOMAIN m : m[i] # Blank
    BY ServedNames, BlankFacts DEF Inv
  <2>2. /\ raw \in Seq(Segments) \ {<<>>} /\ Decoded(raw) = m
        /\ Len(raw) = Len(m) /\ \A i \in 1 .. Len(m) : raw[i] = <<m[i]>>
        /\ whole \in Seq(Segments) \ {<<>>} /\ Decoded(whole) = m
        /\ Len(whole) = 1 /\ whole[1] = m
    BY <2>1, DecodedName
  <2>3. Len(m) \in Nat \ {0} /\ DOMAIN m = 1 .. Len(m)
    BY <2>1, EmptySeq, LenProperties
  <2>4. \A x, y : <<x>> = <<y>> => x = y
    OBVIOUS
  <2> HIDE DEF raw, whole
  <2>5. ASSUME ~dots PROVE \A i \in 1 .. Len(m) : m[i] \notin {".", ".."}
    BY <2>3, <2>5 DEF ToSet
  <2>6. ASSUME ~dots PROVE LeadsTo(<<<<"route">>>> \o raw, m)
    <3>1. \A i \in 1 .. Len(raw) - 1 : raw[i] # <<Blank>>
      BY <2>1, <2>2, <2>3, <2>4
    <3>2. \A i \in 1 .. Len(raw) : raw[i] \notin {<<".">>, <<"..">>}
      BY <2>2, <2>4, <2>5, <2>6
    <3>3. Clean(<<<<"route">>>> \o raw)
      BY <2>2, <3>1, <3>2, CleanBelow
    <3> QED
      BY <2>1, <2>2, <3>3, WholeLeads
  <2>7. ASSUME ~dots \/ Len(m) > 1 PROVE LeadsTo(<<<<"route">>, m>>, m)
    <3>1. \A x \in {".", ".."} : m # <<x>>
      <4>1. CASE ~dots
        <5>1. 1 \in 1 .. Len(m) /\ m[1] \notin {".", ".."}
          BY <2>3, <2>5, <4>1
        <5>2. \A x : <<x>>[1] = x
          OBVIOUS
        <5> QED
          BY <5>1, <5>2
      <4>2. CASE Len(m) > 1
        <5> SUFFICES ASSUME NEW x, m = <<x>> PROVE FALSE
          OBVIOUS
        <5>1. Len(m) = 1
          OBVIOUS
        <5> QED
          BY <4>2, <5>1
      <4> QED
        BY <2>7, <4>1, <4>2
    <3>2. Clean(<<<<"route">>>> \o whole)
      <4>1. \A i \in 1 .. Len(whole) - 1 : whole[i] # <<Blank>>
        BY <2>2
      <4>2. \A i \in 1 .. Len(whole) : whole[i] \notin {<<".">>, <<"..">>}
        BY <2>2, <3>1
      <4> QED
        BY <2>2, <4>1, <4>2, CleanBelow
    <3>3. LeadsTo(<<<<"route">>>> \o whole, m)
      BY <2>1, <2>2, <3>2, WholeLeads
    <3>4. \A x, y : <<x>> \o <<y>> = <<x, y>>
      BY PairConcat
    <3> QED
      BY <3>3, <3>4 DEF whole
  <2> QED
    BY <2>6, <2>7 DEF raw
<1> QED
  BY <1>1, Invariant, PTL

\* A request is sent where its path says, and as it was written.
THEOREM PathsAreKept == Spec => []SentAsWritten
<1>1. Inv => SentAsWritten
  <2> DEFINE r == last.request
             path == r.path
             text == Decoded(path)
  <2> SUFFICES ASSUME Inv, last # None, last.sent # Nobody
               PROVE  IF Len(text) > 1 /\ text[1] = "route"
                      THEN \E n \in 2 .. Len(path) :
                              /\ path[1] = <<"route">> /\ Decoded(SubSeq(path, 2, n)) = last.model
                              /\ last.sent.path = SubSeq(path, n + 1, Len(path))
                              /\ \A k \in n + 1 .. Len(path) : Decoded(SubSeq(path, 2, k)) \notin Names
                      ELSE last.model = r.model /\ last.sent.path = path
    BY DEF SentAsWritten, Names
  <2>1. phase = "serving" /\ Forwards(last) /\ path \in Seq(Segments) \ {<<>>}
    BY RequestPath DEF Inv, Answered, Answers, LoadInv, TypeOK
  <2>2. \A q, m, p : Sent(q, m, p).path = p
    BY DEF Sent
  <2>3. CASE ~HasRoutePrefix(path)
    BY <2>1, <2>2, <2>3 DEF Forwards, HasRoutePrefix
  <2>4. CASE HasRoutePrefix(path)
    <3> DEFINE rest == Stripped(path)
    <3>1. /\ RouteModel(path).ok /\ last.model = RouteModel(path).model
          /\ last.sent.path = RouteModel(path).rest /\ last.model \in Names
      BY <2>1, <2>2, <2>4 DEF Forwards
    <3>2. PICK n \in 1 .. Len(rest) :
              /\ last.model = Decoded(SubSeq(rest, 1, n)) /\ last.sent.path = SubSeq(rest, n + 1, Len(rest))
              /\ \A k \in n + 1 .. Len(rest) : Decoded(SubSeq(rest, 1, k)) \notin DOMAIN backends
      BY <2>1, <3>1, RouteFinds
    <3>3. rest \in Seq(Segments) /\ Len(rest) \in Nat
      BY <2>1, StrippedType
    <3>4. path[1] = <<"route">>
      <4> SUFFICES ASSUME path[1] # <<"route">> PROVE FALSE
        OBVIOUS
      <4> DEFINE front == SubSeq(rest, 1, n)
      <4>1. rest[1] = <<Blank>>
        <5> DEFINE s == <<Blank>>
        <5>1. s \in Segments
          BY PlainPrefix
        <5> HIDE DEF s
        <5>2. (<<s>> \o path)[1] = s
          BY <2>1, <5>1, DecodedFirst
        <5> QED
          BY <5>2, BlankFacts DEF s
      <4> HIDE DEF rest
      <4>2. front \in Seq(Segments) /\ front # <<>> /\ front[1] = rest[1]
        <5>1. \A i \in 1 .. Len(rest) : rest[i] \in Segments
          BY <3>3, ElementOfSeq
        <5>2. \A i \in 1 .. n : rest[i] \in Segments
          BY <3>3, <5>1
        <5>3. /\ front \in Seq(Segments) /\ Len(front) = n
              /\ \A i \in 1 .. n : front[i] = rest[i]
          BY <3>3, <5>2
        <5> QED
          BY <5>3, EmptySeq
      <4>3. 1 \in DOMAIN Decoded(front) /\ Decoded(front)[1] = Blank
        <5> HIDE DEF front
        <5>1. 1 \in DOMAIN Decoded(front) /\ Decoded(front)[1] = Text[front[1][1]]
          BY <4>2, DecodedHead
        <5> QED
          BY <4>1, <4>2, <5>1, PlainPrefix
      <4>4. \A i \in DOMAIN last.model : last.model[i] # Blank
        BY <2>1, <3>1, ServedNames, BlankFacts DEF Inv
      <4> QED
        BY <3>2, <4>3, <4>4
    <3>5. rest = SubSeq(path, 2, Len(path)) /\ Len(rest) = Len(path) - 1
      BY <2>1, <3>4, BlankFacts, TailIsSubSeq, HeadTailProperties
    <3>6. Len(path) \in Nat /\ \A i \in 1 .. Len(path) : path[i] \in Segments
      BY <2>1, LenProperties, ElementOfSeq
    <3> HIDE DEF rest
    <3>7. n + 1 \in 2 .. Len(path) /\ n \in 1 .. Len(path) - 1
      BY <3>5, <3>6
    <3>8. \A k \in 1 .. Len(path) - 1 : SubSeq(rest, 1, k) = SubSeq(path, 2, k + 1)
      <4>1. \A i \in 2 .. Len(path) : path[i] \in Segments
        BY <3>6
      <4> QED
        BY <3>5, <3>6, <4>1
    <3>9. SubSeq(rest, n + 1, Len(rest)) = SubSeq(path, (n + 1) + 1, Len(path))
      BY <3>5, <3>6, <3>7
    <3>10. Len(text) > 1 /\ text[1] = "route"
      BY <2>4 DEF HasRoutePrefix
    <3>11. \A k \in (n + 1) + 1 .. Len(path) : Decoded(SubSeq(path, 2, k)) \notin Names
      <4> SUFFICES ASSUME NEW k \in (n + 1) + 1 .. Len(path) PROVE Decoded(SubSeq(path, 2, k)) \notin Names
        OBVIOUS
      <4>1. k - 1 \in n + 1 .. Len(rest) /\ k - 1 \in 1 .. Len(path) - 1 /\ (k - 1) + 1 = k
        BY <3>5, <3>6, <3>7
      <4>2. SubSeq(rest, 1, k - 1) = SubSeq(path, 2, k)
        BY <3>8, <4>1
      <4>3. DOMAIN backends = Names
        BY <2>1 DEF Inv, LoadInv, TypeOK, ConfigTypeOK, Names
      <4> QED
        BY <3>2, <4>1, <4>2, <4>3
    <3> HIDE DEF text, path
    <3> QED
      BY <3>2, <3>4, <3>7, <3>8, <3>9, <3>10, <3>11
  <2> QED
    BY <2>3, <2>4
<1> QED
  BY <1>1, Invariant, PTL

\* The models API and the path below /route/ agree on what a name, in any
\* spelling, refers to.
THEOREM CatalogAndRoute == Spec => []CatalogAgrees
<1>1. Inv => CatalogAgrees
  <2> DEFINE r == last.request
             rest == SubSeq(r.path, 3, Len(r.path))
             path == <<<<"route">>>> \o rest
             m == last.model
  <2> SUFFICES ASSUME Inv, last # None, last.status \in {200, 404}, r.get, IsCatalog(r.path), Len(r.path) > 2
               PROVE  last.status = 200 <=> LeadsTo(path, m) /\ ~file.models[m].unlisted
    BY DEF CatalogAgrees
  <2>1. phase = "serving" /\ Clean(r.path) /\ m = Decoded(rest) /\ (last.status = 200 <=> m \in Listed)
    BY DEF Inv, Answered, Answers, Retrieves
  <2>2. r.path \in Seq(Segments) \ {<<>>}
    BY RequestPath DEF Inv, LoadInv, TypeOK
  <2>3. /\ Len(r.path) \in Nat /\ DOMAIN r.path = 1 .. Len(r.path)
        /\ \A i \in 1 .. Len(r.path) : r.path[i] \in Segments
    BY <2>2, LenProperties, ElementOfSeq
  <2>4. /\ rest \in Seq(Segments) \ {<<>>} /\ Len(rest) = Len(r.path) - 2
        /\ \A i \in 1 .. Len(rest) : i + 2 \in 1 .. Len(r.path) /\ rest[i] = r.path[i + 2]
    <3>1. \A i \in 3 .. Len(r.path) : r.path[i] \in Segments
      BY <2>3
    <3>2. /\ rest \in Seq(Segments) /\ Len(rest) = Len(r.path) - 2
          /\ \A i \in 1 .. Len(r.path) - 2 : rest[i] = r.path[i + 2]
      BY <2>3, <3>1
    <3> HIDE DEF rest
    <3>3. rest # <<>>
      BY <2>3, <3>2, EmptySeq
    <3> QED
      BY <2>3, <3>2, <3>3
  <2> HIDE DEF rest
  <2>5. Clean(path)
    <3>1. /\ \A i \in 1 .. Len(r.path) - 1 : r.path[i] # <<Blank>>
          /\ \A i \in 1 .. Len(r.path) : r.path[i] \notin {<<".">>, <<"..">>}
      BY <2>1, <2>2, CleanSegments
    <3>2. \A i \in 1 .. Len(rest) - 1 : i \in 1 .. Len(rest) /\ i + 2 \in 1 .. Len(r.path) - 1
      BY <2>3, <2>4
    <3>3. \A i \in 1 .. Len(rest) - 1 : rest[i] # <<Blank>>
      <4> SUFFICES ASSUME NEW i \in 1 .. Len(rest) - 1 PROVE rest[i] # <<Blank>>
        OBVIOUS
      <4>1. rest[i] = r.path[i + 2] /\ r.path[i + 2] # <<Blank>>
        BY <2>4, <3>1, <3>2, Zenon
      <4> QED
        BY <4>1, Zenon
    <3>4. \A i \in 1 .. Len(rest) : rest[i] \notin {<<".">>, <<"..">>}
      <4> SUFFICES ASSUME NEW i \in 1 .. Len(rest) PROVE rest[i] \notin {<<".">>, <<"..">>}
        OBVIOUS
      <4>1. rest[i] = r.path[i + 2] /\ r.path[i + 2] \notin {<<".">>, <<"..">>}
        BY <2>4, <3>1, Zenon
      <4> QED
        BY <4>1, Zenon
    <3> QED
      BY <2>4, <3>3, <3>4, CleanBelow
  <2>6. ASSUME m \in DOMAIN backends PROVE LeadsTo(path, m)
    BY <2>1, <2>4, <2>5, <2>6, WholeLeads
  <2>7. ASSUME LeadsTo(path, m) PROVE m \in DOMAIN backends
    <3>1. path \in Seq(Segments) \ {<<>>}
      <4> DEFINE s == <<"route">>
      <4>1. s \in Segments
        BY PlainPrefix
      <4> HIDE DEF s
      <4>2. <<s>> \o rest \in Seq(Segments) \ {<<>>}
        BY <2>4, <4>1, DecodedFirst
      <4> QED
        BY <4>2 DEF s
    <3>2. RouteModel(path).ok /\ RouteModel(path).model = m
      BY <2>7 DEF LeadsTo
    <3> HIDE DEF path
    <3> QED
      BY <3>1, <3>2, RouteFinds
  <2> HIDE DEF path, m
  <2> QED
    BY <2>1, <2>6, <2>7 DEF Listed
<1> QED
  BY <1>1, Invariant, PTL

=============================================================================
