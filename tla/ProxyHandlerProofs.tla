------------------------- MODULE ProxyHandlerProofs -------------------------
(***************************************************************************)
(* Proofs about ProxyHandler, for any finite set of requests, any models   *)
(* and any limits.                                                         *)
(***************************************************************************)
EXTENDS ProxyHandler, FiniteSetTheorems, TLAPS

\* Where the handler of a body-routed request has no replayBody yet.
Buffering == {"read", "take", "cas", "parse", "refund"}

\* Where the handler has dispatched a request, or is about to.
Dispatched == {"dispatch", "proxy", "stream", "unslot", "return"}

\* What ties the local variables of one request together.
Route(r) ==
    /\ pc[r] = "idle" => charged[r] = 0 /\ once[r] = "none"
    /\ pc[r] # "idle" => req[r] \in Shapes
    /\ pc[r] # "idle" /\ req[r].path =>
         charged[r] = 0 /\ once[r] = "none" /\ pc[r] \notin Buffering
    /\ pc[r] \in {"proxy", "stream", "unslot"} => req[r].model \in Models

Body(r) ==
    /\ pc[r] \in Buffering => charged[r] <= Readable(req[r])
    /\ pc[r] \in {"take", "cas"} => charged[r] + chunk[r] <= Readable(req[r])
    /\ pc[r] \in {"take", "cas"} /\ err[r] = "eof" =>
         charged[r] + chunk[r] = req[r].size
    /\ pc[r] = "cas" => chunk[r] <= seen[r]
    /\ pc[r] = "parse" => charged[r] = req[r].size
    /\ pc[r] \in Dispatched /\ ~req[r].path => charged[r] = req[r].size

Replay(r) ==
    /\ pc[r] \in Buffering => once[r] = "none"
    /\ pc[r] \in Dispatched => (once[r] = "none" <=> req[r].path)
    /\ pc[r] = "dispatch" => once[r] \in {"none", "idle"}
    /\ pc[r] = "done" => once[r] \in {"none", "done"}
    /\ buf[r] <=> once[r] = "idle"
    /\ pc[r] = "stream" => req[r].path \/ once[r] = "done"

Consistent == \A r \in Requests : Route(r) /\ Body(r) /\ Replay(r)

\* The inductive invariant of the handler's local state.
LInv == TypeOK /\ Consistent

-----------------------------------------------------------------------------
(* The local state.                                                        *)

LEMMA ShapeFacts ==
    ASSUME NEW s \in Shapes
    PROVE  /\ s.path \in BOOLEAN
           /\ s.size \in Nat
           /\ s.model \in Models \union {NoModel}
           /\ Readable(s) \in Nat
           /\ ~TooLarge(s) => Readable(s) = s.size
BY ShapesAssumption, LimitsAssumption DEF Shape, Readable, TooLarge

LEMMA ReadErrorStatusType ==
    ASSUME NEW e \in (ReadErrors \union {"budget"}) \ {"none", "eof"}
    PROVE  ReadErrorStatus[e] \in Statuses \ {0}
BY DEF ReadErrorStatus, ReadErrors, Statuses

LEMMA LInvInit == Init => LInv
<1> SUFFICES ASSUME Init PROVE LInv
  OBVIOUS
<1>1. TypeOK
  BY LimitsAssumption
  DEF Init, TypeOK, Locations, ReadErrors, Statuses
<1>2. Consistent
  BY DEF Init, Consistent, Route, Body, Replay, Buffering, Dispatched
<1> QED
  BY <1>1, <1>2 DEF LInv

LEMMA LInvArrive ==
    ASSUME LInv, NEW r \in Requests, NEW s \in Shapes, Arrive(r, s)
    PROVE  LInv'
<1>1. TypeOK'
  BY DEF LInv, TypeOK, Arrive, Answer, Goto, budgetVars, replayVars, Locations, Statuses
<1>2. Consistent'
  <2> SUFFICES ASSUME NEW q \in Requests PROVE Route(q)' /\ Body(q)' /\ Replay(q)'
    BY DEF Consistent
  <2>1. Route(q) /\ Body(q) /\ Replay(q)
    BY DEF LInv, Consistent
  <2> QED
    BY <2>1, ShapeFacts DEF LInv, TypeOK, Arrive, Answer, Goto, budgetVars, replayVars,
       Route, Body, Replay, Buffering, Dispatched
<1> QED
  BY <1>1, <1>2 DEF LInv

LEMMA LInvDeliver ==
    ASSUME LInv, NEW r \in Requests, NEW n \in Nat, NEW e \in ReadErrors,
           n <= Remaining(r), e = "eof" => n = Remaining(r) /\ ~TooLarge(req[r]),
           Deliver(r, n, e)
    PROVE  LInv'
<1>1. TypeOK'
  BY ShapeFacts
  DEF LInv, TypeOK, Consistent, Route, Body, Replay, Buffering, Dispatched,
       Deliver, Remaining, Goto, Answer, budgetVars, replayVars, Locations,
       Statuses, ReadErrors
<1>2. Consistent'
  <2> SUFFICES ASSUME NEW q \in Requests PROVE Route(q)' /\ Body(q)' /\ Replay(q)'
    BY DEF Consistent
  <2>1. Route(q) /\ Body(q) /\ Replay(q)
    BY DEF LInv, Consistent
  <2> QED
    BY <2>1, ShapeFacts
    DEF LInv, TypeOK, Route, Body, Replay, Buffering, Dispatched, Deliver,
        Remaining, Goto, Answer, budgetVars, replayVars, ReadErrors
<1> QED
  BY <1>1, <1>2 DEF LInv

LEMMA LInvReading ==
    ASSUME LInv, NEW r \in Requests, Reading(r)
    PROVE  LInv'
<1>1. pc[r] = "read" /\ Remaining(r) \in Nat
  BY ShapeFacts
  DEF LInv, TypeOK, Consistent, Route, Body, Buffering, Reading, ReadData, ReadEnd,
      ReadTimeout, ReadFails, Deliver, Remaining
<1>2. CASE ReadData(r)
  BY <1>1, <1>2, LInvDeliver DEF ReadData, ReadErrors
<1>3. CASE ReadEnd(r)
  BY <1>1, <1>3, LInvDeliver DEF ReadEnd, ReadErrors
<1>4. CASE ReadTimeout(r)
  BY <1>1, <1>4, LInvDeliver DEF ReadTimeout, ReadErrors
<1>5. CASE ReadFails(r)
  BY <1>1, <1>5, LInvDeliver DEF ReadFails, ReadErrors
<1> QED
  BY <1>2, <1>3, <1>4, <1>5 DEF Reading

LEMMA LInvReadReturns ==
    ASSUME LInv, NEW r \in Requests, NEW n \in Nat,
           NEW e \in ReadErrors \union {"budget"},
           pc[r] \in {"take", "cas"}, n <= chunk[r], free' \in Int,
           e = "eof" => n = chunk[r] /\ err[r] = "eof",
           ReadReturns(r, n, e)
    PROVE  LInv'
<1>1. TypeOK'
  <2>1. status' \in [Requests -> Statuses] /\ pc' \in [Requests -> Locations]
    <3>1. e \notin {"none", "eof"} => ReadErrorStatus[e] \in Statuses
      BY ReadErrorStatusType
    <3> QED
      BY <3>1 DEF LInv, TypeOK, ReadReturns, Answer, Goto, Locations
  <2>2. /\ charged' \in [Requests -> Nat] /\ chunk' \in [Requests -> Nat]
        /\ err' \in [Requests -> ReadErrors] /\ seen' \in [Requests -> Int]
    BY DEF LInv, TypeOK, ReadReturns, ReadErrors
  <2>3. UNCHANGED <<used, req, buf, once, attempts, unread>>
    BY DEF ReadReturns, replayVars
  <2> QED
    BY <2>1, <2>2, <2>3 DEF LInv, TypeOK
<1>2. Consistent'
  <2> SUFFICES ASSUME NEW q \in Requests PROVE Route(q)' /\ Body(q)' /\ Replay(q)'
    BY DEF Consistent
  <2>1. Route(q) /\ Body(q) /\ Replay(q)
    BY DEF LInv, Consistent
  <2> QED
    BY <2>1, ShapeFacts, ReadErrorStatusType
    DEF LInv, TypeOK, Route, Body, Replay, Buffering, Dispatched, ReadReturns,
        Goto, Answer, budgetVars, replayVars, ReadErrors
<1> QED
  BY <1>1, <1>2 DEF LInv

LEMMA LInvTakeLoad ==
    ASSUME LInv, NEW r \in Requests, TakeLoad(r)
    PROVE  LInv'
<1>1. TypeOK'
  BY ShapeFacts
  DEF LInv, TypeOK, Consistent, Route, Body, Replay, Buffering, Dispatched,
       TakeLoad, Goto, Answer, budgetVars, replayVars, Locations, Statuses,
       ReadErrors
<1>2. Consistent'
  <2> SUFFICES ASSUME NEW q \in Requests PROVE Route(q)' /\ Body(q)' /\ Replay(q)'
    BY DEF Consistent
  <2>1. Route(q) /\ Body(q) /\ Replay(q)
    BY DEF LInv, Consistent
  <2> QED
    BY <2>1, ShapeFacts
    DEF LInv, TypeOK, Route, Body, Replay, Buffering, Dispatched, TakeLoad,
        Goto, Answer, budgetVars, replayVars, ReadErrors
<1> QED
  BY <1>1, <1>2 DEF LInv

LEMMA LInvTakeRetry ==
    ASSUME LInv, NEW r \in Requests, TakeRetry(r)
    PROVE  LInv'
<1>1. TypeOK'
  BY ShapeFacts
  DEF LInv, TypeOK, Consistent, Route, Body, Replay, Buffering, Dispatched,
       TakeRetry, Goto, Answer, budgetVars, replayVars, Locations, Statuses,
       ReadErrors
<1>2. Consistent'
  <2> SUFFICES ASSUME NEW q \in Requests PROVE Route(q)' /\ Body(q)' /\ Replay(q)'
    BY DEF Consistent
  <2>1. Route(q) /\ Body(q) /\ Replay(q)
    BY DEF LInv, Consistent
  <2> QED
    BY <2>1, ShapeFacts
    DEF LInv, TypeOK, Route, Body, Replay, Buffering, Dispatched, TakeRetry,
        Goto, Answer, budgetVars, replayVars, ReadErrors
<1> QED
  BY <1>1, <1>2 DEF LInv

LEMMA LInvTaking ==
    ASSUME LInv, NEW r \in Requests, Taking(r)
    PROVE  LInv'
<1>1. chunk[r] \in Nat /\ err[r] \in ReadErrors /\ seen[r] \in Int /\ free \in Int
  BY DEF LInv, TypeOK
<1>2. CASE TakeUnlimited(r)
  BY <1>1, <1>2, LInvReadReturns DEF TakeUnlimited
<1>3. CASE TakeRefused(r)
  BY <1>1, <1>3, LInvReadReturns DEF TakeRefused, ReadErrors
<1>4. CASE TakeLoad(r)
  BY <1>4, LInvTakeLoad
<1>5. CASE TakeSwap(r)
  BY <1>1, <1>5, LInvReadReturns DEF TakeSwap
<1>6. CASE TakeRetry(r)
  BY <1>6, LInvTakeRetry
<1> QED
  BY <1>2, <1>3, <1>4, <1>5, <1>6 DEF Taking

LEMMA LInvParsing ==
    ASSUME LInv, NEW r \in Requests, Parsing(r)
    PROVE  LInv'
<1>1. TypeOK'
  <2>1. CASE ParseFails(r)
    BY <2>1, ShapeFacts, LimitsAssumption, ModelsAssumption
    DEF LInv, TypeOK, Consistent, Route, Replay, Dispatched, ParseFails, Goto,
        Answer, budgetVars, replayVars, Locations, Statuses
  <2>2. CASE Parsed(r)
    BY <2>2, ShapeFacts, LimitsAssumption, ModelsAssumption
    DEF LInv, TypeOK, Consistent, Route, Replay, Dispatched, Parsed, Goto,
        Answer, budgetVars, replayVars, Locations, Statuses
  <2>3. CASE Refund(r)
    BY <2>3, ShapeFacts, LimitsAssumption, ModelsAssumption
    DEF LInv, TypeOK, Consistent, Route, Replay, Dispatched, Refund, Give,
        Goto, Answer, budgetVars, replayVars, Locations, Statuses
  <2> QED
    BY <2>1, <2>2, <2>3 DEF Parsing
<1>2. Consistent'
  <2> SUFFICES ASSUME NEW q \in Requests PROVE Route(q)' /\ Body(q)' /\ Replay(q)'
    BY DEF Consistent
  <2>1. Route(q) /\ Body(q) /\ Replay(q)
    BY DEF LInv, Consistent
  <2> QED
    BY <2>1, ShapeFacts, LimitsAssumption, ModelsAssumption
    DEF LInv, TypeOK, Route, Body, Replay, Buffering, Dispatched, Parsing,
        ParseFails, Parsed, Refund, Give, Goto, Answer, budgetVars, replayVars
<1> QED
  BY <1>1, <1>2 DEF LInv

LEMMA LInvDispatching ==
    ASSUME LInv, NEW r \in Requests, Dispatching(r)
    PROVE  LInv'
<1>1. TypeOK'
  <2>1. CASE UnknownModel(r)
    BY <2>1, ShapeFacts, LimitsAssumption, ModelsAssumption
    DEF LInv, TypeOK, Consistent, Route, Replay, Dispatched, UnknownModel,
        Goto, Answer, budgetVars, replayVars, Locations, Statuses
  <2>2. CASE Saturated(r)
    BY <2>2, ShapeFacts, LimitsAssumption, ModelsAssumption
    DEF LInv, TypeOK, Consistent, Route, Replay, Dispatched, Saturated, Goto,
        Answer, budgetVars, replayVars, Locations, Statuses
  <2>3. CASE Acquire(r)
    BY <2>3, ShapeFacts, LimitsAssumption, ModelsAssumption
    DEF LInv, TypeOK, Consistent, Route, Replay, Dispatched, Acquire, Goto,
        Answer, budgetVars, replayVars, Locations, Statuses
  <2> QED
    BY <2>1, <2>2, <2>3 DEF Dispatching
<1>2. Consistent'
  <2> SUFFICES ASSUME NEW q \in Requests PROVE Route(q)' /\ Body(q)' /\ Replay(q)'
    BY DEF Consistent
  <2>1. Route(q) /\ Body(q) /\ Replay(q)
    BY DEF LInv, Consistent
  <2> QED
    BY <2>1, ShapeFacts, LimitsAssumption, ModelsAssumption
    DEF LInv, TypeOK, Route, Body, Replay, Buffering, Dispatched, Dispatching,
        UnknownModel, Saturated, Acquire, Goto, Answer, budgetVars, replayVars
<1> QED
  BY <1>1, <1>2 DEF LInv

LEMMA LInvProxying ==
    ASSUME LInv, NEW r \in Requests, Proxying(r)
    PROVE  LInv'
<1>1. TypeOK'
  <2>1. CASE BodySent(r)
    BY <2>1, ShapeFacts, LimitsAssumption, ModelsAssumption
    DEF LInv, TypeOK, Consistent, Route, Replay, Dispatched, BodySent, Goto,
        Answer, budgetVars, replayVars, Locations, Statuses
  <2>2. CASE Resend(r)
    BY <2>2, ShapeFacts, LimitsAssumption, ModelsAssumption
    DEF LInv, TypeOK, Consistent, Route, Replay, Dispatched, Resend, Goto,
        Answer, budgetVars, replayVars, Locations, Statuses
  <2>3. CASE RoundTripFails(r)
    BY <2>3, ShapeFacts, LimitsAssumption, ModelsAssumption
    DEF LInv, TypeOK, Consistent, Route, Replay, Dispatched, RoundTripFails,
        Goto, Answer, budgetVars, replayVars, Locations, Statuses
  <2>4. CASE StreamTooLarge(r)
    BY <2>4, ShapeFacts, LimitsAssumption, ModelsAssumption
    DEF LInv, TypeOK, Consistent, Route, Replay, Dispatched, StreamTooLarge,
        Goto, Answer, budgetVars, replayVars, Locations, Statuses
  <2>5. CASE Response(r)
    BY <2>5, ShapeFacts, LimitsAssumption, ModelsAssumption
    DEF LInv, TypeOK, Consistent, Route, Replay, Dispatched, Response, Traced, Goto,
        Answer, budgetVars, replayVars, Locations, Statuses
  <2>6. CASE StreamEnds(r)
    BY <2>6, ShapeFacts, LimitsAssumption, ModelsAssumption
    DEF LInv, TypeOK, Consistent, Route, Replay, Dispatched, StreamEnds, Goto,
        Answer, budgetVars, replayVars, Locations, Statuses
  <2> QED
    BY <2>1, <2>2, <2>3, <2>4, <2>5, <2>6 DEF Proxying, RoundTripEnds
<1>2. Consistent'
  <2> SUFFICES ASSUME NEW q \in Requests PROVE Route(q)' /\ Body(q)' /\ Replay(q)'
    BY DEF Consistent
  <2>1. Route(q) /\ Body(q) /\ Replay(q)
    BY DEF LInv, Consistent
  <2> QED
    BY <2>1, ShapeFacts, LimitsAssumption, ModelsAssumption
    DEF LInv, TypeOK, Route, Body, Replay, Buffering, Dispatched, Proxying,
        RoundTripEnds, BodySent, Resend, RoundTripFails, StreamTooLarge,
        Response, Traced, StreamEnds, Goto, Answer, budgetVars, replayVars
<1> QED
  BY <1>1, <1>2 DEF LInv

LEMMA LInvDropping ==
    ASSUME LInv, NEW r \in Requests, Dropping(r)
    PROVE  LInv'
<1>1. TypeOK'
  <2>1. CASE HookDrops(r)
    BY <2>1, ShapeFacts, LimitsAssumption, ModelsAssumption
    DEF LInv, TypeOK, Consistent, Route, Replay, Dispatched, HookDrops,
        DropBegins, Goto, Answer, budgetVars, replayVars, Locations, Statuses
  <2>2. CASE HookDropped(r)
    BY <2>2, ShapeFacts, LimitsAssumption, ModelsAssumption
    DEF LInv, TypeOK, Consistent, Route, Replay, Dispatched, HookDropped,
        DropEnds, Give, Goto, Answer, budgetVars, replayVars, Locations,
        Statuses
  <2>3. CASE HandlerDrops(r)
    BY <2>3, ShapeFacts, LimitsAssumption, ModelsAssumption
    DEF LInv, TypeOK, Consistent, Route, Replay, Dispatched, HandlerDrops,
        DropBegins, Goto, Answer, budgetVars, replayVars, Locations, Statuses
  <2>4. CASE HandlerDropped(r)
    BY <2>4, ShapeFacts, LimitsAssumption, ModelsAssumption
    DEF LInv, TypeOK, Consistent, Route, Replay, Dispatched, HandlerDropped,
        DropEnds, Give, Goto, Answer, budgetVars, replayVars, Locations,
        Statuses
  <2> QED
    BY <2>1, <2>2, <2>3, <2>4 DEF Dropping
<1>2. Consistent'
  <2> SUFFICES ASSUME NEW q \in Requests PROVE Route(q)' /\ Body(q)' /\ Replay(q)'
    BY DEF Consistent
  <2>1. Route(q) /\ Body(q) /\ Replay(q)
    BY DEF LInv, Consistent
  <2> QED
    BY <2>1, ShapeFacts, LimitsAssumption, ModelsAssumption
    DEF LInv, TypeOK, Route, Body, Replay, Buffering, Dispatched, Dropping,
        HookDrops, DropBegins, HookDropped, DropEnds, Give, HandlerDrops,
        HandlerDropped, Connected, Goto, Answer, budgetVars, replayVars
<1> QED
  BY <1>1, <1>2 DEF LInv

LEMMA LInvReturning ==
    ASSUME LInv, NEW r \in Requests, Unslot(r) \/ Return(r)
    PROVE  LInv'
<1>1. TypeOK'
  <2>1. CASE Unslot(r)
    BY <2>1, ShapeFacts, LimitsAssumption, ModelsAssumption
    DEF LInv, TypeOK, Consistent, Route, Replay, Dispatched, Unslot, Goto,
        Answer, budgetVars, replayVars, Locations, Statuses
  <2>2. CASE Return(r)
    BY <2>2, ShapeFacts, LimitsAssumption, ModelsAssumption
    DEF LInv, TypeOK, Consistent, Route, Replay, Dispatched, Return, Goto,
        Answer, budgetVars, replayVars, Locations, Statuses
  <2> QED
    BY <2>1, <2>2
<1>2. Consistent'
  <2> SUFFICES ASSUME NEW q \in Requests PROVE Route(q)' /\ Body(q)' /\ Replay(q)'
    BY DEF Consistent
  <2>1. Route(q) /\ Body(q) /\ Replay(q)
    BY DEF LInv, Consistent
  <2> QED
    BY <2>1, ShapeFacts, LimitsAssumption, ModelsAssumption
    DEF LInv, TypeOK, Route, Body, Replay, Buffering, Dispatched, Unslot,
        Return, Goto, Answer, budgetVars, replayVars
<1> QED
  BY <1>1, <1>2 DEF LInv

LEMMA LInvNext == LInv /\ [Next]_vars => LInv'
<1> SUFFICES ASSUME LInv, [Next]_vars PROVE LInv'
  OBVIOUS
<1>1. ASSUME NEW r \in Requests, Step(r) PROVE LInv'
  BY <1>1, LInvArrive, LInvReading, LInvTaking, LInvParsing, LInvDispatching,
     LInvProxying, LInvDropping, LInvReturning DEF Step
<1>2. CASE UNCHANGED vars
  BY <1>2 DEF LInv, TypeOK, Consistent, Route, Body, Replay, vars, Remaining
<1> QED
  BY <1>1, <1>2 DEF Next, Finished

THEOREM LocalInvariant == Spec => []LInv
BY LInvInit, LInvNext, PTL DEF Spec

-----------------------------------------------------------------------------
(* Counting owed bytes.                                                    *)

\* OwedBytes for any number of bytes per request.
Pairs(f) == {p \in Requests \X (1..MaxBufferedBytes) : p[2] <= f[p[1]]}

Owed == [r \in Requests |-> Owes(r)]

LEMMA PairsFinite ==
    ASSUME NEW f
    PROVE  IsFiniteSet(Pairs(f)) /\ Cardinality(Pairs(f)) \in Nat
<1>1. IsFiniteSet(1..MaxBufferedBytes)
  BY LimitsAssumption, FS_Interval
<1>2. IsFiniteSet(Requests \X (1..MaxBufferedBytes))
  BY <1>1, RequestsAssumption, FS_Product
<1>3. IsFiniteSet(Pairs(f))
  BY <1>2, FS_Subset DEF Pairs
<1> QED
  BY <1>3, FS_CardinalityType

\* Reserving n more bytes for r adds n pairs.
LEMMA PairsAdd ==
    ASSUME NEW f \in [Requests -> Nat], NEW r \in Requests, NEW n \in Nat,
           f[r] + n <= MaxBufferedBytes
    PROVE  Cardinality(Pairs([f EXCEPT ![r] = f[r] + n])) = Cardinality(Pairs(f)) + n
<1> DEFINE g == [f EXCEPT ![r] = f[r] + n]
           I == (f[r] + 1)..(f[r] + n)
           New == {r} \X I
<1>1. Pairs(g) = Pairs(f) \union New
  BY LimitsAssumption DEF Pairs
<1>2. Pairs(f) \cap New = {}
  BY DEF Pairs
<1>3. IsFiniteSet(New) /\ Cardinality(New) = n
  <2>1. IsFiniteSet(I) /\ Cardinality(I) = n
    <3>1. f[r] + 1 \in Int /\ f[r] + n \in Int
      OBVIOUS
    <3>2. IsFiniteSet(I)
            /\ Cardinality(I)
                 = IF f[r] + 1 > f[r] + n THEN 0 ELSE (f[r] + n) - (f[r] + 1) + 1
      BY <3>1, FS_Interval
    <3> HIDE DEF I
    <3> QED
      BY <3>2
  <2>2. IsFiniteSet({r}) /\ Cardinality({r}) = 1
    BY FS_Singleton
  <2> HIDE DEF I
  <2> QED
    BY <2>1, <2>2, FS_Product
<1> HIDE DEF g, New
<1>4. Cardinality(Pairs(g)) = Cardinality(Pairs(f)) + n - Cardinality(Pairs(f) \cap New)
  BY <1>1, <1>3, PairsFinite, FS_Union
<1>5. Cardinality(Pairs(f) \cap New) = 0
  BY <1>2, FS_EmptySet
<1> QED
  BY <1>4, <1>5, PairsFinite DEF g

\* Giving everything r reserved back removes as many pairs.
LEMMA PairsClear ==
    ASSUME NEW f \in [Requests -> Nat], NEW r \in Requests,
           f[r] <= MaxBufferedBytes
    PROVE  Cardinality(Pairs([f EXCEPT ![r] = 0])) = Cardinality(Pairs(f)) - f[r]
<1> DEFINE g == [f EXCEPT ![r] = 0]
<1>1. /\ g \in [Requests -> Nat]
      /\ g[r] = 0
      /\ f = [g EXCEPT ![r] = g[r] + f[r]]
  <2>1. g \in [Requests -> Nat] /\ g[r] = 0
    OBVIOUS
  <2>2. g[r] + f[r] = f[r]
    BY <2>1
  <2>3. f = [g EXCEPT ![r] = f[r]]
    OBVIOUS
  <2> HIDE DEF g
  <2> QED
    BY <2>1, <2>2, <2>3
<1>2. f[r] \in Nat /\ g[r] + f[r] <= MaxBufferedBytes
  BY <1>1
<1> HIDE DEF g
<1>3. Cardinality(Pairs([g EXCEPT ![r] = g[r] + f[r]])) = Cardinality(Pairs(g)) + f[r]
  BY <1>1, <1>2, PairsAdd
<1>4. Cardinality(Pairs(f)) = Cardinality(Pairs(g)) + f[r]
  BY <1>1, <1>3
<1>5. Cardinality(Pairs(g)) \in Nat
  BY PairsFinite
<1> QED
  BY <1>2, <1>4, <1>5 DEF g

LEMMA OwedType ==
    ASSUME LInv
    PROVE  Owed \in [Requests -> Nat] /\ OwedBytes = Pairs(Owed)
BY DEF LInv, TypeOK, Owed, Owes, OwedBytes, Pairs

-----------------------------------------------------------------------------
(* The budget.                                                             *)

\* The three things a step can do to the budget, and to what the requests owe.
BudgetUnchanged == free' = free /\ Owed' = Owed

BudgetTaken(r) ==
    /\ chunk[r] <= free
    /\ free' = free - chunk[r]
    /\ Owed' = [Owed EXCEPT ![r] = Owed[r] + chunk[r]]

BudgetGiven(r) ==
    /\ free' = free + Owed[r]
    /\ Owed' = [Owed EXCEPT ![r] = 0]

LEMMA OwedArrive ==
    ASSUME LInv, NEW r \in Requests, NEW s \in Shapes, Arrive(r, s)
    PROVE  BudgetUnchanged
BY DEF LInv, TypeOK, Consistent, Route, Arrive, Answer, Goto, budgetVars, replayVars,
   BudgetUnchanged, Owed, Owes

LEMMA OwedReading ==
    ASSUME LInv, NEW r \in Requests, Reading(r)
    PROVE  BudgetUnchanged
BY DEF LInv, TypeOK, Reading, ReadData, ReadEnd, ReadTimeout, ReadFails, Deliver, Goto,
   replayVars, BudgetUnchanged, Owed, Owes

LEMMA OwedTaking ==
    ASSUME LInv, MaxBufferedBytes > 0, NEW r \in Requests, Taking(r)
    PROVE  BudgetUnchanged \/ BudgetTaken(r)
<1>1. CASE TakeUnlimited(r)
  BY <1>1, LimitsAssumption DEF TakeUnlimited
<1>2. CASE TakeRefused(r)
  BY <1>2 DEF LInv, TypeOK, TakeRefused, ReadReturns, Answer, Goto, replayVars,
     BudgetUnchanged, Owed, Owes
<1>3. CASE TakeLoad(r)
  BY <1>3 DEF LInv, TypeOK, TakeLoad, Goto, replayVars, BudgetUnchanged, Owed, Owes
<1>4. CASE TakeSwap(r)
  <2>1. chunk[r] <= free /\ free' = free - chunk[r]
    BY <1>4 DEF LInv, Consistent, Body, TakeSwap
  <2>2. once[r] = "none" /\ once' = once /\ pc[r] = "cas" /\ pc'[r] # "done"
    BY <1>4 DEF LInv, TypeOK, Consistent, Replay, Buffering, TakeSwap, ReadReturns,
       Answer, Goto, replayVars
  <2>3. /\ charged' = [charged EXCEPT ![r] = charged[r] + chunk[r]]
        /\ \A q \in Requests \ {r} : pc'[q] = pc[q]
    BY <1>4 DEF LInv, TypeOK, TakeSwap, ReadReturns, Answer, Goto
  <2>4. Owed' = [Owed EXCEPT ![r] = Owed[r] + chunk[r]]
    BY <2>2, <2>3 DEF LInv, TypeOK, Owed, Owes
  <2> QED
    BY <2>1, <2>4 DEF BudgetTaken
<1>5. CASE TakeRetry(r)
  BY <1>5 DEF LInv, TypeOK, TakeRetry, Goto, budgetVars, replayVars,
     BudgetUnchanged, Owed, Owes
<1> QED
  BY <1>1, <1>2, <1>3, <1>4, <1>5 DEF Taking

LEMMA OwedParsing ==
    ASSUME LInv, MaxBufferedBytes > 0, NEW r \in Requests, Parsing(r)
    PROVE  BudgetUnchanged \/ BudgetGiven(r)
<1>1. CASE ParseFails(r)
  BY <1>1 DEF LInv, TypeOK, ParseFails, Answer, Goto, budgetVars, replayVars,
     BudgetUnchanged, Owed, Owes
<1>2. CASE Parsed(r)
  BY <1>2 DEF LInv, TypeOK, Consistent, Replay, Buffering, Parsed, Goto, budgetVars,
     BudgetUnchanged, Owed, Owes
<1>3. CASE Refund(r)
  <2>1. once[r] = "none" /\ once' = once /\ charged' = charged
    BY <1>3 DEF LInv, Consistent, Replay, Buffering, Refund, replayVars
  <2>2. pc[r] = "refund" /\ pc' = [pc EXCEPT ![r] = "done"]
    BY <1>3 DEF Refund, Goto
  <2>3. Owed[r] = charged[r] /\ Owed' = [Owed EXCEPT ![r] = 0]
    BY <2>1, <2>2 DEF LInv, TypeOK, Owed, Owes
  <2>4. free' = free + charged[r]
    BY <1>3, LimitsAssumption DEF Refund, Give
  <2> QED
    BY <2>3, <2>4 DEF BudgetGiven
<1> QED
  BY <1>1, <1>2, <1>3 DEF Parsing

LEMMA OwedServing ==
    ASSUME LInv, NEW r \in Requests,
           Dispatching(r) \/ Proxying(r) \/ Unslot(r)
    PROVE  BudgetUnchanged
<1>1. CASE Dispatching(r)
  BY <1>1 DEF LInv, TypeOK, Dispatching, UnknownModel, Saturated, Acquire, Answer, Goto,
     budgetVars, replayVars, BudgetUnchanged, Owed, Owes
<1>2. CASE Proxying(r)
  BY <1>2 DEF LInv, TypeOK, Proxying, BodySent, Resend, RoundTripEnds, RoundTripFails,
     StreamTooLarge, Response, Traced, StreamEnds, Answer, Goto, budgetVars, replayVars,
     BudgetUnchanged, Owed, Owes
<1>3. CASE Unslot(r)
  BY <1>3 DEF LInv, TypeOK, Unslot, Goto, budgetVars, replayVars,
     BudgetUnchanged, Owed, Owes
<1> QED
  BY <1>1, <1>2, <1>3

LEMMA OwedDropping ==
    ASSUME LInv, MaxBufferedBytes > 0, NEW r \in Requests, Dropping(r)
    PROVE  BudgetUnchanged \/ BudgetGiven(r)
<1>1. CASE HookDrops(r) \/ HandlerDrops(r)
  BY <1>1 DEF LInv, TypeOK, HookDrops, HandlerDrops, DropBegins, budgetVars,
     BudgetUnchanged, Owed, Owes
<1>2. CASE HookDropped(r) \/ HandlerDropped(r)
  <2>1. /\ once[r] \in {"hook", "handler"}
        /\ once' = [once EXCEPT ![r] = "done"]
        /\ pc' = pc /\ charged' = charged
    BY <1>2 DEF HookDropped, HandlerDropped, DropEnds
  <2>2. pc[r] # "done"
    BY <2>1 DEF LInv, Consistent, Replay
  <2>3. Owed[r] = charged[r] /\ Owed' = [Owed EXCEPT ![r] = 0]
    BY <2>1, <2>2 DEF LInv, TypeOK, Owed, Owes
  <2>4. free' = free + charged[r]
    BY <1>2, LimitsAssumption DEF HookDropped, HandlerDropped, DropEnds, Give
  <2> QED
    BY <2>3, <2>4 DEF BudgetGiven
<1> QED
  BY <1>1, <1>2 DEF Dropping

LEMMA OwedReturn ==
    ASSUME LInv, NEW r \in Requests, Return(r)
    PROVE  BudgetUnchanged
BY DEF LInv, TypeOK, Consistent, Route, Return, Goto, budgetVars, replayVars,
   BudgetUnchanged, Owed, Owes

LEMMA OwedStep ==
    ASSUME LInv, MaxBufferedBytes > 0, NEW r \in Requests, Step(r)
    PROVE  BudgetUnchanged \/ BudgetTaken(r) \/ BudgetGiven(r)
BY OwedArrive, OwedReading, OwedTaking, OwedParsing, OwedServing, OwedDropping,
   OwedReturn DEF Step

BInv == LInv /\ BudgetConserved

LEMMA BInvInit == Init => BInv
<1> SUFFICES ASSUME Init, MaxBufferedBytes > 0 PROVE BudgetConserved
  BY LInvInit DEF BInv, BudgetConserved
<1>1. \A r \in Requests : Owes(r) = 0
  BY DEF Init, Owes
<1>2. OwedBytes = {}
  BY <1>1 DEF OwedBytes
<1>3. Cardinality(OwedBytes) = 0
  BY <1>2, FS_EmptySet
<1> QED
  BY <1>1, <1>3, LimitsAssumption DEF Init, BudgetConserved

LEMMA BInvNext == BInv /\ [Next]_vars => BInv'
<1> SUFFICES ASSUME BInv, [Next]_vars PROVE BInv'
  OBVIOUS
<1>1. LInv /\ LInv'
  BY LInvNext DEF BInv
<1>2. CASE MaxBufferedBytes = 0
  BY <1>1, <1>2 DEF BInv, BudgetConserved
<1>3. CASE MaxBufferedBytes > 0
  <2>1. /\ free \in Int
        /\ Owed \in [Requests -> Nat]
        /\ \A q \in Requests : Owed[q] <= MaxBufferedBytes
        /\ free + Cardinality(Pairs(Owed)) = MaxBufferedBytes
    BY <1>1, <1>3, OwedType DEF BInv, BudgetConserved, LInv, TypeOK, Owed
  <2>2. Cardinality(Pairs(Owed)) \in Nat
    BY PairsFinite
  <2>3. SUFFICES /\ \A q \in Requests : Owed'[q] <= MaxBufferedBytes
                 /\ free' + Cardinality(Pairs(Owed')) = MaxBufferedBytes
    <3>1. OwedBytes' = Pairs(Owed')
      BY DEF Owed, OwedBytes, Pairs
    <3> QED
      BY <1>1, <3>1, <2>3 DEF BInv, BudgetConserved, Owed
  <2>4. CASE BudgetUnchanged \/ UNCHANGED vars
    <3>1. free' = free /\ Owed' = Owed
      BY <2>4 DEF BudgetUnchanged, vars, Owed, Owes
    <3> QED
      BY <3>1, <2>1
  <2>5. ASSUME NEW r \in Requests, BudgetTaken(r)
        PROVE  /\ \A q \in Requests : Owed'[q] <= MaxBufferedBytes
               /\ free' + Cardinality(Pairs(Owed')) = MaxBufferedBytes
    <3>1. chunk[r] \in Nat /\ Owed[r] \in Nat
      BY <1>1, <2>1 DEF LInv, TypeOK
    <3>2. Cardinality(Pairs([Owed EXCEPT ![r] = 0]))
            = Cardinality(Pairs(Owed)) - Owed[r]
      BY <2>1, PairsClear
    <3>3. Cardinality(Pairs([Owed EXCEPT ![r] = 0])) \in Nat
      BY PairsFinite
    <3>4. Owed[r] + chunk[r] <= MaxBufferedBytes
      BY <2>1, <2>2, <2>5, <3>1, <3>2, <3>3, LimitsAssumption DEF BudgetTaken
    <3>5. Cardinality(Pairs(Owed')) = Cardinality(Pairs(Owed)) + chunk[r]
      BY <2>1, <2>5, <3>1, <3>4, PairsAdd DEF BudgetTaken
    <3>6. \A q \in Requests : Owed'[q] <= MaxBufferedBytes
      BY <2>1, <2>5, <3>4 DEF BudgetTaken
    <3>7. free' + Cardinality(Pairs(Owed')) = MaxBufferedBytes
      BY <2>1, <2>2, <2>5, <3>1, <3>5 DEF BudgetTaken
    <3> QED
      BY <3>6, <3>7
  <2>6. ASSUME NEW r \in Requests, BudgetGiven(r)
        PROVE  /\ \A q \in Requests : Owed'[q] <= MaxBufferedBytes
               /\ free' + Cardinality(Pairs(Owed')) = MaxBufferedBytes
    <3>1. Cardinality(Pairs(Owed')) = Cardinality(Pairs(Owed)) - Owed[r]
      BY <2>1, <2>6, PairsClear DEF BudgetGiven
    <3>2. \A q \in Requests : Owed'[q] <= MaxBufferedBytes
      BY <2>1, <2>6, LimitsAssumption DEF BudgetGiven
    <3>3. Owed[r] \in Nat
      BY <2>1
    <3> QED
      BY <2>1, <2>2, <2>6, <3>1, <3>2, <3>3 DEF BudgetGiven
  <2> QED
    BY <1>1, <1>3, <2>4, <2>5, <2>6, OwedStep DEF Next, Finished
<1> QED
  BY <1>2, <1>3, LimitsAssumption

-----------------------------------------------------------------------------
(* The slots.                                                              *)

SlotsUnchanged == used' = used /\ \A m \in Models : Holders(m)' = Holders(m)

SlotTaken(r) ==
    \A m \in Models :
        IF req[r].model = m
          THEN /\ MaxConcurrent[m] > 0 =>
                    used[m] < MaxConcurrent[m] /\ used'[m] = used[m] + 1
               /\ r \notin Holders(m) /\ Holders(m)' = Holders(m) \union {r}
          ELSE used'[m] = used[m] /\ Holders(m)' = Holders(m)

SlotGiven(r) ==
    \A m \in Models :
        IF req[r].model = m
          THEN /\ MaxConcurrent[m] > 0 => used'[m] = used[m] - 1
               /\ r \in Holders(m) /\ Holders(m)' = Holders(m) \ {r}
          ELSE used'[m] = used[m] /\ Holders(m)' = Holders(m)

LEMMA SlotsBuffering ==
    ASSUME LInv, NEW r \in Requests,
           (\E s \in Shapes : Arrive(r, s)) \/ Reading(r) \/ Taking(r) \/ Parsing(r)
    PROVE  SlotsUnchanged
<1>1. CASE \E s \in Shapes : Arrive(r, s)
  BY <1>1 DEF LInv, TypeOK, Arrive, Answer, Goto, SlotsUnchanged, Holders
<1>2. CASE Reading(r)
  BY <1>2 DEF LInv, TypeOK, Reading, ReadData, ReadEnd, ReadTimeout, ReadFails, Deliver,
     Goto, SlotsUnchanged, Holders
<1>3. CASE Taking(r)
  BY <1>3 DEF LInv, TypeOK, Taking, TakeUnlimited, TakeRefused, TakeLoad, TakeSwap,
     TakeRetry, ReadReturns, Answer, Goto, SlotsUnchanged, Holders
<1>4. CASE Parsing(r)
  BY <1>4 DEF LInv, TypeOK, Parsing, ParseFails, Parsed, Refund, Answer, Goto,
     SlotsUnchanged, Holders
<1> QED
  BY <1>1, <1>2, <1>3, <1>4

LEMMA SlotsServing ==
    ASSUME LInv, NEW r \in Requests,
           UnknownModel(r) \/ Saturated(r) \/ Proxying(r) \/ Dropping(r) \/ Return(r)
    PROVE  SlotsUnchanged
<1>1. CASE UnknownModel(r) \/ Saturated(r) \/ Return(r)
  BY <1>1 DEF LInv, TypeOK, UnknownModel, Saturated, Return, Answer, Goto,
     SlotsUnchanged, Holders
<1>2. CASE Proxying(r)
  BY <1>2 DEF LInv, TypeOK, Proxying, BodySent, Resend, RoundTripEnds, RoundTripFails,
     StreamTooLarge, Response, Traced, StreamEnds, Answer, Goto, SlotsUnchanged, Holders
<1>3. CASE Dropping(r)
  BY <1>3 DEF LInv, TypeOK, Dropping, HookDrops, HookDropped, HandlerDrops,
     HandlerDropped, DropBegins, DropEnds, SlotsUnchanged, Holders
<1> QED
  BY <1>1, <1>2, <1>3

LEMMA SlotsAcquire ==
    ASSUME LInv, NEW r \in Requests, Acquire(r)
    PROVE  SlotTaken(r)
<1>1. req[r].model \in Models
  BY ShapeFacts DEF LInv, Consistent, Route, Acquire
<1> QED
  BY <1>1, LimitsAssumption DEF LInv, TypeOK, Acquire, Goto, SlotTaken, Holders

LEMMA SlotsUnslot ==
    ASSUME LInv, NEW r \in Requests, Unslot(r)
    PROVE  SlotGiven(r)
<1>1. req[r].model \in Models
  BY DEF LInv, Consistent, Route, Unslot
<1> QED
  BY <1>1, LimitsAssumption DEF LInv, TypeOK, Unslot, Goto, SlotGiven, Holders

LEMMA SlotsStep ==
    ASSUME LInv, NEW r \in Requests, Step(r)
    PROVE  SlotsUnchanged \/ SlotTaken(r) \/ SlotGiven(r)
BY SlotsBuffering, SlotsServing, SlotsAcquire, SlotsUnslot DEF Step, Dispatching

LEMMA HoldersFinite ==
    ASSUME NEW m
    PROVE  IsFiniteSet(Holders(m)) /\ Cardinality(Holders(m)) \in Nat
BY RequestsAssumption, FS_Subset, FS_CardinalityType DEF Holders

SInv == LInv /\ SlotsConserved

LEMMA SInvInit == Init => SInv
<1> SUFFICES ASSUME Init PROVE SlotsConserved
  BY LInvInit DEF SInv
<1>1. \A m \in Models : Holders(m) = {}
  BY DEF Init, Holders
<1>2. \A m \in Models : used[m] = 0 /\ Cardinality(Holders(m)) = 0
  BY <1>1, FS_EmptySet DEF Init
<1> QED
  BY <1>2, LimitsAssumption DEF SlotsConserved

LEMMA SInvNext == SInv /\ [Next]_vars => SInv'
<1> SUFFICES ASSUME SInv, [Next]_vars PROVE SlotsConserved'
  BY LInvNext DEF SInv
<1> SUFFICES ASSUME NEW m \in Models, MaxConcurrent[m] > 0
             PROVE  /\ used'[m] = Cardinality(Holders(m)')
                    /\ used'[m] <= MaxConcurrent[m]
  BY DEF SlotsConserved
<1>1. LInv /\ used \in [Models -> Nat] /\ MaxConcurrent \in [Models -> Nat]
  BY LimitsAssumption DEF SInv, LInv, TypeOK
<1>2. used[m] = Cardinality(Holders(m)) /\ used[m] <= MaxConcurrent[m]
  BY DEF SInv, SlotsConserved
<1>3. CASE SlotsUnchanged \/ UNCHANGED vars
  BY <1>2, <1>3 DEF SlotsUnchanged, vars, Holders
<1>4. ASSUME NEW r \in Requests, SlotTaken(r)
      PROVE  used'[m] = Cardinality(Holders(m)') /\ used'[m] <= MaxConcurrent[m]
  <2>1. CASE req[r].model = m
    <3>1. Cardinality(Holders(m)') = Cardinality(Holders(m)) + 1
      <4>1. r \notin Holders(m) /\ Holders(m)' = Holders(m) \union {r}
        BY <1>4, <2>1 DEF SlotTaken
      <4>2. Cardinality(Holders(m) \union {r}) = Cardinality(Holders(m)) + 1
        BY <4>1, HoldersFinite, FS_AddElement
      <4> QED
        BY <4>1, <4>2
    <3>2. used'[m] = used[m] + 1 /\ used[m] < MaxConcurrent[m]
      BY <1>1, <1>4, <2>1 DEF SlotTaken
    <3> QED
      BY <1>1, <1>2, <3>1, <3>2
  <2>2. CASE req[r].model # m
    BY <1>1, <1>2, <1>4, <2>2 DEF SlotTaken
  <2> QED
    BY <2>1, <2>2
<1>5. ASSUME NEW r \in Requests, SlotGiven(r)
      PROVE  used'[m] = Cardinality(Holders(m)') /\ used'[m] <= MaxConcurrent[m]
  <2>1. CASE req[r].model = m
    <3>1. Cardinality(Holders(m)') = Cardinality(Holders(m)) - 1
      <4>1. r \in Holders(m) /\ Holders(m)' = Holders(m) \ {r}
        BY <1>5, <2>1 DEF SlotGiven
      <4>2. Cardinality(Holders(m) \ {r}) = Cardinality(Holders(m)) - 1
        BY <4>1, HoldersFinite, FS_RemoveElement
      <4> QED
        BY <4>1, <4>2
    <3>2. used'[m] = used[m] - 1
      BY <1>1, <1>5, <2>1 DEF SlotGiven
    <3> QED
      BY <1>1, <1>2, <3>1, <3>2
  <2>2. CASE req[r].model # m
    BY <1>1, <1>2, <1>5, <2>2 DEF SlotGiven
  <2> QED
    BY <2>1, <2>2
<1> QED
  BY <1>1, <1>3, <1>4, <1>5, SlotsStep DEF Next, Finished

-----------------------------------------------------------------------------
(* The theorems.                                                           *)

\* Every variable has its type in every reachable state of the handler.
THEOREM TypeCorrect == Spec => []TypeOK
<1>1. LInv => TypeOK
  BY DEF LInv
<1> QED
  BY <1>1, LocalInvariant, PTL

\* budget.free and the bytes the requests owe add up to maxBufferedBytes, whatever
\* the interleaving of take, give and drop: no byte is lost or given out twice.
THEOREM BudgetIsConserved == Spec => []BudgetConserved
<1>1. BInv => BudgetConserved
  BY DEF BInv
<1> QED
  BY <1>1, BInvInit, BInvNext, PTL DEF Spec

\* A model never has more proxied requests than maxConcurrentRequests, and each
\* value in its channel belongs to one of them.
THEOREM SlotsAreConserved == Spec => []SlotsConserved
<1>1. SInv => SlotsConserved
  BY DEF SInv
<1> QED
  BY <1>1, SInvInit, SInvNext, PTL DEF Spec

\* As long as replayBody.open can hand out a body, all its bytes are reserved.
THEOREM ReplayableStaysReserved == Spec => []ReplayableIsReserved
<1>1. LInv => ReplayableIsReserved
  <2> SUFFICES ASSUME LInv, NEW r \in Requests, buf[r] PROVE Owes(r) = req[r].size
    BY DEF ReplayableIsReserved
  <2>1. Route(r) /\ Body(r) /\ Replay(r)
    BY DEF LInv, Consistent
  <2>2. once[r] = "idle"
    BY <2>1 DEF Replay
  <2>3. pc[r] \in Dispatched /\ ~req[r].path
    BY <2>1, <2>2 DEF LInv, TypeOK, Locations, Route, Replay, Buffering, Dispatched
  <2> QED
    BY <2>1, <2>2, <2>3 DEF Body, Owes, Dispatched
<1> QED
  BY <1>1, LocalInvariant, PTL

\* While the response streams, the handler neither keeps the body replayable nor
\* its bytes reserved.
THEOREM StreamsReserveNothing == Spec => []StreamReservesNothing
<1>1. LInv => StreamReservesNothing
  BY DEF LInv, TypeOK, Consistent, Route, Replay, Buffering, Dispatched,
     StreamReservesNothing, Owes
<1> QED
  BY <1>1, LocalInvariant, PTL

\* No reader of a body is opened after the first byte of the response.
THEOREM NeverResent == Spec => NeverResentOnceAnswered
<1> DEFINE Opened == \A r \in Requests :
             once[r] \in {"hook", "handler", "done"} => attempts'[r] = attempts[r]
<1>1. LInv /\ [Next]_vars => [Opened]_vars
  <2> SUFFICES ASSUME LInv, NEW q \in Requests, Step(q), NEW r \in Requests,
                      once[r] \in {"hook", "handler", "done"}
               PROVE  attempts'[r] = attempts[r]
    BY DEF Next, Finished
  <2>1. ~buf[r] /\ pc[r] # "parse"
    BY DEF LInv, Consistent, Replay, Buffering
  <2>2. CASE Parsed(q) \/ Resend(q)
    BY <2>1, <2>2 DEF LInv, TypeOK, Parsed, Resend
  <2>3. CASE ~Parsed(q) /\ ~Resend(q)
    BY <2>3 DEF Step, Arrive, Reading, ReadData, ReadEnd, ReadTimeout, ReadFails, Deliver,
       Taking, TakeUnlimited, TakeRefused, TakeLoad, TakeSwap, TakeRetry, ReadReturns,
       Parsing, ParseFails, Refund, Dispatching, UnknownModel, Saturated, Acquire,
       Proxying, BodySent, RoundTripEnds, RoundTripFails, StreamTooLarge, Response, Traced,
       StreamEnds, Dropping, HookDrops, HookDropped, HandlerDrops, HandlerDropped,
       DropBegins, DropEnds, Unslot, Return, replayVars
  <2> QED
    BY <2>2, <2>3
<1> QED
  BY <1>1, LocalInvariant, PTL DEF Spec, NeverResentOnceAnswered

=============================================================================
