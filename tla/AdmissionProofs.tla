--------------------------- MODULE AdmissionProofs ---------------------------
(***************************************************************************)
(* ProxyHandler implements Admission.                                      *)
(***************************************************************************)
EXTENDS ProxyHandlerProofs

\* The abstract state, seen from the concrete one.
Stutter == Owed' = Owed /\ Closed' = Closed /\ Serving' = Serving

\* The inductive invariants of ProxyHandlerProofs together.
Inv == LInv /\ BudgetConserved /\ SlotsConserved

LEMMA InvFacts ==
    ASSUME Inv, NEW r \in Requests
    PROVE  TypeOK /\ Route(r) /\ Body(r) /\ Replay(r)
BY DEF Inv, LInv, Consistent

LEMMA StutterReading ==
    ASSUME Inv, NEW r \in Requests, Reading(r)
    PROVE  Stutter
BY InvFacts DEF TypeOK, Reading, ReadData, ReadEnd, ReadTimeout, ReadFails, Deliver, Goto,
   replayVars, Stutter, Owed, Owes, Closed, Serving

LEMMA StutterTaking ==
    ASSUME Inv, NEW r \in Requests, TakeRefused(r) \/ TakeLoad(r) \/ TakeRetry(r)
    PROVE  Stutter
<1>1. CASE TakeRefused(r)
  BY <1>1, InvFacts DEF TypeOK, TakeRefused, ReadReturns, Answer, Goto, replayVars,
     Stutter, Owed, Owes, Closed, Serving
<1>2. CASE TakeLoad(r) \/ TakeRetry(r)
  BY <1>2, InvFacts DEF TypeOK, TakeLoad, TakeRetry, Goto, budgetVars, replayVars,
     Stutter, Owed, Owes, Closed, Serving
<1> QED
  BY <1>1, <1>2

LEMMA StutterProxying ==
    ASSUME Inv, NEW r \in Requests,
           ParseFails(r) \/ Parsed(r) \/ UnknownModel(r) \/ Saturated(r) \/ Proxying(r)
             \/ HookDrops(r) \/ HandlerDrops(r)
    PROVE  Stutter
<1>1. CASE ParseFails(r) \/ UnknownModel(r) \/ Saturated(r)
  BY <1>1, InvFacts DEF TypeOK, ParseFails, UnknownModel, Saturated, Answer, Goto,
     budgetVars, replayVars, Stutter, Owed, Owes, Closed, Serving
<1>2. CASE Parsed(r)
  BY <1>2, InvFacts DEF TypeOK, Replay, Buffering, Parsed, Goto, budgetVars,
     Stutter, Owed, Owes, Closed, Serving
<1>3. CASE Proxying(r)
  BY <1>3, InvFacts DEF TypeOK, Proxying, BodySent, Resend, RoundTripEnds,
     RoundTripFails, StreamTooLarge, Response, Traced, StreamEnds, Answer, Goto, budgetVars,
     replayVars, Stutter, Owed, Owes, Closed, Serving
<1>4. CASE HookDrops(r) \/ HandlerDrops(r)
  BY <1>4, InvFacts DEF TypeOK, HookDrops, HandlerDrops, DropBegins, budgetVars,
     Stutter, Owed, Owes, Closed, Serving
<1> QED
  BY <1>1, <1>2, <1>3, <1>4

LEMMA SameCardinality ==
    ASSUME NEW S
    PROVE  A!Cardinality(S) = Cardinality(S)
BY DEF A!Cardinality, Cardinality

\* A body that take accepts is a single reservation.
LEMMA TakeReserves ==
    ASSUME Inv, NEW r \in Requests, TakeUnlimited(r) \/ TakeSwap(r)
    PROVE  \E n \in 0..MaxSize : A!Reserve(r, n)
<1>1. chunk[r] \in 0..MaxSize
  <2>1. charged[r] + chunk[r] <= Readable(req[r])
    BY InvFacts DEF Body, TakeUnlimited, TakeSwap
  <2>2. req[r] \in Shapes
    BY InvFacts DEF Route, TakeUnlimited, TakeSwap
  <2>3. Readable(req[r]) <= MaxSize
    BY <2>2, ShapesAssumption, LimitsAssumption DEF Shape, Readable, TooLarge
  <2>4. charged[r] \in Nat /\ chunk[r] \in Nat /\ Readable(req[r]) \in Nat
    BY <2>2, InvFacts, ShapeFacts DEF TypeOK
  <2> QED
    BY <2>1, <2>3, <2>4, LimitsAssumption
<1>2. once[r] = "none" /\ pc[r] \in {"take", "cas"} /\ r \notin Closed
  BY InvFacts DEF Replay, Buffering, TakeUnlimited, TakeSwap, Closed
<1>3. /\ once' = once /\ req' = req
      /\ charged' = [charged EXCEPT ![r] = charged[r] + chunk[r]]
      /\ \E l \in {"read", "parse", "refund"} : pc' = [pc EXCEPT ![r] = l]
  BY InvFacts DEF TypeOK, TakeUnlimited, TakeSwap, ReadReturns, Answer, Goto, replayVars
<1>4. Owed' = [Owed EXCEPT ![r] = Owed[r] + chunk[r]]
  BY <1>2, <1>3, InvFacts DEF TypeOK, Owed, Owes
<1>5. Closed' = Closed /\ Serving' = Serving
  BY <1>2, <1>3, InvFacts DEF TypeOK, Closed, Serving
<1>6. MaxBufferedBytes > 0 => Cardinality(OwedBytes) + chunk[r] <= MaxBufferedBytes
  <2> SUFFICES ASSUME MaxBufferedBytes > 0
               PROVE  Cardinality(OwedBytes) + chunk[r] <= MaxBufferedBytes
    OBVIOUS
  <2>1. chunk[r] <= free
    BY LimitsAssumption, InvFacts DEF Body, TakeUnlimited, TakeSwap
  <2>2. free + Cardinality(OwedBytes) = MaxBufferedBytes /\ free \in Int
    BY InvFacts DEF Inv, BudgetConserved, TypeOK
  <2>3. Cardinality(OwedBytes) \in Nat
    BY OwedType, PairsFinite DEF Inv
  <2> QED
    BY <2>1, <2>2, <2>3, <1>1, LimitsAssumption
<1>7. A!ReservedBytes = OwedBytes
  BY DEF A!ReservedBytes, OwedBytes
<1>8. A!Reserve(r, chunk[r])
  BY <1>2, <1>4, <1>5, <1>6, <1>7, SameCardinality DEF A!Reserve, Owed
<1> QED
  BY <1>1, <1>8

\* What the abstract Release asks of a step.
LEMMA Releases ==
    ASSUME NEW r \in Requests, r \notin Closed, Owed' = [Owed EXCEPT ![r] = 0],
           Closed' = Closed \union {r}, Serving' = Serving
    PROVE  A!Release(r)
BY DEF A!Release, Owed

LEMMA ArriveReleases ==
    ASSUME Inv, NEW r \in Requests, NEW s \in Shapes, Arrive(r, s)
    PROVE  Stutter \/ A!Release(r)
<1>1. pc[r] = "idle" /\ charged[r] = 0 /\ once[r] = "none" /\ r \notin Closed
  BY InvFacts DEF Route, Arrive, Closed
<1>2. charged' = charged /\ once' = once /\ req' = [req EXCEPT ![r] = s]
  BY DEF Arrive, budgetVars, replayVars
<1>3. CASE Goto(r, "done")
  <2>1. Owed' = [Owed EXCEPT ![r] = 0]
    BY <1>1, <1>2, <1>3, InvFacts DEF TypeOK, Goto, Owed, Owes
  <2>2. Closed' = Closed \union {r} /\ Serving' = Serving
    BY <1>1, <1>2, <1>3, InvFacts DEF TypeOK, Goto, Closed, Serving
  <2> QED
    BY <1>1, <2>1, <2>2, Releases
<1>4. CASE Goto(r, "dispatch") \/ Goto(r, "read")
  BY <1>1, <1>2, <1>4, InvFacts
  DEF TypeOK, Goto, Stutter, Owed, Owes, Closed, Serving
<1> QED
  BY <1>3, <1>4 DEF Arrive, Answer

LEMMA RefundReleases ==
    ASSUME Inv, NEW r \in Requests, Refund(r)
    PROVE  A!Release(r)
<1>1. pc[r] = "refund" /\ once[r] = "none" /\ r \notin Closed
  BY InvFacts DEF Replay, Buffering, Refund, Closed
<1>2. /\ charged' = charged /\ once' = once /\ req' = req
      /\ pc' = [pc EXCEPT ![r] = "done"]
  BY DEF Refund, Goto, replayVars
<1>3. Owed' = [Owed EXCEPT ![r] = 0]
  BY <1>1, <1>2, InvFacts DEF TypeOK, Owed, Owes
<1>4. Closed' = Closed \union {r} /\ Serving' = Serving
  BY <1>1, <1>2, InvFacts DEF TypeOK, Closed, Serving
<1> QED
  BY <1>1, <1>3, <1>4, Releases

LEMMA DropReleases ==
    ASSUME Inv, NEW r \in Requests, HookDropped(r) \/ HandlerDropped(r)
    PROVE  A!Release(r)
<1>1. once[r] \in {"hook", "handler"} /\ once' = [once EXCEPT ![r] = "done"]
  BY DEF HookDropped, HandlerDropped, DropEnds
<1>2. charged' = charged /\ pc' = pc /\ req' = req
  BY DEF HookDropped, HandlerDropped, DropEnds
<1>3. pc[r] # "done" /\ r \notin Closed
  BY <1>1, InvFacts DEF Replay, Closed
<1>4. Owed' = [Owed EXCEPT ![r] = 0]
  BY <1>1, <1>2, <1>3, InvFacts DEF TypeOK, Owed, Owes
<1>5. Closed' = Closed \union {r} /\ Serving' = Serving
  BY <1>1, <1>2, <1>3, InvFacts DEF TypeOK, Closed, Serving
<1> QED
  BY <1>3, <1>4, <1>5, Releases

LEMMA ReturnReleases ==
    ASSUME Inv, NEW r \in Requests, Return(r)
    PROVE  Stutter \/ A!Release(r)
<1>1. /\ pc[r] = "return" /\ pc' = [pc EXCEPT ![r] = "done"]
      /\ charged' = charged /\ once' = once /\ req' = req
  BY DEF Return, Goto, budgetVars, replayVars
<1>2. Serving' = Serving
  BY <1>1, InvFacts DEF TypeOK, Serving
<1>3. CASE once[r] = "done"
  BY <1>1, <1>2, <1>3, InvFacts DEF TypeOK, Stutter, Owed, Owes, Closed
<1>4. CASE once[r] # "done"
  <2>1. charged[r] = 0 /\ r \notin Closed
    BY <1>1, <1>4, InvFacts DEF Route, Return, Closed
  <2>2. Owed' = [Owed EXCEPT ![r] = 0]
    BY <1>1, <1>4, <2>1, InvFacts DEF TypeOK, Owed, Owes
  <2>3. Closed' = Closed \union {r}
    BY <1>1, <1>4, InvFacts DEF TypeOK, Closed
  <2> QED
    BY <1>2, <2>1, <2>2, <2>3, Releases
<1> QED
  BY <1>3, <1>4

LEMMA AcquireAdmits ==
    ASSUME Inv, NEW r \in Requests, Acquire(r)
    PROVE  \E m \in Models : A!Admit(r, m)
<1> DEFINE m == req[r].model
<1>1. m \in Models
  BY InvFacts, ShapeFacts DEF Route, Acquire
<1>2. /\ pc[r] = "dispatch" /\ pc' = [pc EXCEPT ![r] = "proxy"]
      /\ charged' = charged /\ once' = once /\ req' = req
      /\ MaxConcurrent[m] > 0 => used[m] < MaxConcurrent[m]
  BY LimitsAssumption, <1>1 DEF Acquire, Goto, budgetVars, replayVars
<1>3. r \notin Closed
  BY <1>2, InvFacts DEF Replay, Closed
<1>4. Owed' = Owed /\ Closed' = Closed
  BY <1>2, InvFacts DEF TypeOK, Owed, Owes, Closed
<1>5. Serving[r] = NoModel /\ Serving' = [Serving EXCEPT ![r] = m]
  BY <1>2, InvFacts DEF TypeOK, Serving
<1>6. A!Admitted(m) = Holders(m)
  BY <1>1, ModelsAssumption DEF A!Admitted, Serving, Holders
<1>7. MaxConcurrent[m] > 0 => Cardinality(Holders(m)) < MaxConcurrent[m]
  BY <1>1, <1>2 DEF Inv, SlotsConserved
<1> QED
  BY <1>1, <1>3, <1>4, <1>5, <1>6, <1>7, SameCardinality DEF A!Admit, Owed

LEMMA UnslotLeaves ==
    ASSUME Inv, NEW r \in Requests, Unslot(r)
    PROVE  A!Leave(r)
<1>1. /\ pc[r] = "unslot" /\ pc' = [pc EXCEPT ![r] = "return"]
      /\ charged' = charged /\ once' = once /\ req' = req
  BY DEF Unslot, Goto, budgetVars, replayVars
<1>2. Serving[r] # NoModel
  BY <1>1, ModelsAssumption, InvFacts DEF Route, Serving
<1>3. Owed' = Owed /\ Closed' = Closed
  BY <1>1, InvFacts DEF TypeOK, Owed, Owes, Closed
<1>4. Serving' = [Serving EXCEPT ![r] = NoModel]
  BY <1>1, InvFacts DEF TypeOK, Serving
<1> QED
  BY <1>2, <1>3, <1>4 DEF A!Leave, Owed

LEMMA StepImplements ==
    ASSUME Inv, NEW r \in Requests, Step(r)
    PROVE  Stutter \/ A!Next
<1>1. CASE \E s \in Shapes : Arrive(r, s)
  BY <1>1, ArriveReleases DEF A!Next
<1>2. CASE Reading(r)
  BY <1>2, StutterReading
<1>3. CASE Taking(r)
  BY <1>3, StutterTaking, TakeReserves DEF Taking, A!Next
<1>4. CASE Parsing(r)
  BY <1>4, StutterProxying, RefundReleases DEF Parsing, A!Next
<1>5. CASE Dispatching(r)
  BY <1>5, StutterProxying, AcquireAdmits DEF Dispatching, A!Next
<1>6. CASE Proxying(r)
  BY <1>6, StutterProxying
<1>7. CASE Dropping(r)
  BY <1>7, StutterProxying, DropReleases DEF Dropping, A!Next
<1>8. CASE Unslot(r)
  BY <1>8, UnslotLeaves DEF A!Next
<1>9. CASE Return(r)
  BY <1>9, ReturnReleases DEF A!Next
<1> QED
  BY <1>1, <1>2, <1>3, <1>4, <1>5, <1>6, <1>7, <1>8, <1>9 DEF Step

LEMMA InitImplements == Init => A!Init
<1> SUFFICES ASSUME Init PROVE A!Init
  OBVIOUS
<1>1. \A r \in Requests : Owes(r) = 0
  BY DEF Init, Owes
<1>2. Closed = {} /\ Serving = [r \in Requests |-> NoModel]
  BY DEF Init, Closed, Serving
<1> QED
  BY <1>1, <1>2 DEF A!Init

LEMMA InvAlways == Spec => []Inv
<1>1. LInv /\ BudgetConserved /\ SlotsConserved => Inv
  BY DEF Inv
<1> QED
  BY <1>1, LocalInvariant, BudgetIsConserved, SlotsAreConserved, PTL

\* The handler with all its interleavings implements Admission: what the requests
\* reserve, give back and are admitted to changes only as Admission allows, each
\* reservation within the budget, each given back once, each admission within
\* the limit of its model.
THEOREM HandlerImplementsAdmission == Spec => ImplementsAdmission
<1>1. Inv /\ [Next]_vars => [A!Next]_(A!vars)
  <2> SUFFICES ASSUME Inv, [Next]_vars PROVE [A!Next]_(A!vars)
    OBVIOUS
  <2>1. Stutter => UNCHANGED A!vars
    BY DEF Stutter, Owed, A!vars
  <2>2. UNCHANGED vars => Stutter
    BY DEF vars, Stutter, Owed, Owes, Closed, Serving
  <2> QED
    BY <2>1, <2>2, StepImplements DEF Next, Finished
<1> QED
  BY <1>1, InitImplements, InvAlways, PTL DEF Spec, A!Spec, ImplementsAdmission

-----------------------------------------------------------------------------
(* Refusals.                                                               *)

LEMMA RefusedByBudget ==
    ASSUME Inv, NEW q \in Requests, Step(q), NEW r \in Requests,
           status[r] = 0, status'[r] = 503
    PROVE  TakeRefused(r)
<1>1. r = q /\ Taking(r)
  BY InvFacts DEF TypeOK, Step, Arrive, Reading, ReadData, ReadEnd, ReadTimeout,
     ReadFails, Deliver, Taking, TakeUnlimited, TakeRefused, TakeLoad, TakeSwap,
     TakeRetry, ReadReturns, Parsing, ParseFails, Parsed, Refund, Dispatching,
     UnknownModel, Saturated, Acquire, Proxying, BodySent, Resend, RoundTripEnds,
     RoundTripFails, StreamTooLarge, Response, Traced, StreamEnds, Dropping, HookDrops,
     HookDropped, HandlerDrops, HandlerDropped, DropBegins, DropEnds, Unslot, Return,
     Answer
<1>2. err[r] \in {"none", "eof", "tooLarge", "timeout", "failed"}
  BY InvFacts DEF TypeOK, ReadErrors
<1>3. CASE TakeUnlimited(r) \/ TakeSwap(r)
  <2>1. ReadReturns(r, chunk[r], err[r])
    BY <1>3 DEF TakeUnlimited, TakeSwap
  <2>2. status'[r] \in {0, 400, 408, 413}
    BY <1>2, <2>1, InvFacts DEF TypeOK, ReadReturns, Answer, ReadErrorStatus
  <2> QED
    BY <2>2
<1>4. CASE TakeLoad(r) \/ TakeRetry(r)
  BY <1>4 DEF TakeLoad, TakeRetry
<1> QED
  BY <1>1, <1>3, <1>4 DEF Taking

\* A request is refused for the budget only while the bytes owed leave too little.
THEOREM BudgetRefusals == Spec => BudgetRefusalJustified
<1> DEFINE Justified == \A r \in Requests :
             status[r] = 0 /\ status'[r] = 503
               => Cardinality(OwedBytes) + chunk[r] > MaxBufferedBytes
<1>1. Inv /\ [Next]_vars => [Justified]_vars
  <2> SUFFICES ASSUME Inv, NEW q \in Requests, Step(q), NEW r \in Requests,
                      status[r] = 0, status'[r] = 503
               PROVE  Cardinality(OwedBytes) + chunk[r] > MaxBufferedBytes
    BY DEF Next, Finished
  <2>1. MaxBufferedBytes > 0 /\ free < chunk[r]
    BY RefusedByBudget DEF TakeRefused
  <2>2. free + Cardinality(OwedBytes) = MaxBufferedBytes
    BY <2>1 DEF Inv, BudgetConserved
  <2>3. free \in Int /\ chunk[r] \in Nat /\ Cardinality(OwedBytes) \in Nat
    BY InvFacts, OwedType, PairsFinite DEF Inv, TypeOK
  <2> QED
    BY <2>1, <2>2, <2>3, LimitsAssumption
<1> QED
  BY <1>1, InvAlways, PTL DEF Spec, BudgetRefusalJustified

LEMMA RefusedBySlots ==
    ASSUME Inv, NEW q \in Requests, Step(q), NEW r \in Requests,
           status[r] = 0, status'[r] = 429
    PROVE  Saturated(r)
<1>1. Saturated(r) \/ Taking(r)
  <2>1. CASE Saturated(q)
    <3>1. status' = [status EXCEPT ![q] = 429]
      BY <2>1 DEF Saturated, Answer
    <3>2. q = r
      BY <3>1, InvFacts DEF TypeOK
    <3> QED
      BY <2>1, <3>2
  <2>2. CASE ~Saturated(q)
    BY <2>2, InvFacts DEF TypeOK, Step, Arrive, Reading, ReadData, ReadEnd, ReadTimeout,
       ReadFails, Deliver, Taking, TakeUnlimited, TakeRefused, TakeLoad, TakeSwap,
       TakeRetry, ReadReturns, Parsing, ParseFails, Parsed, Refund, Dispatching,
       UnknownModel, Acquire, Proxying, BodySent, Resend, RoundTripEnds,
       RoundTripFails, StreamTooLarge, Response, Traced, StreamEnds, Dropping, HookDrops,
       HookDropped, HandlerDrops, HandlerDropped, DropBegins, DropEnds, Unslot, Return,
       Answer
  <2> QED
    BY <2>1, <2>2
<1>2. err[r] \in {"none", "eof", "tooLarge", "timeout", "failed"}
  BY InvFacts DEF TypeOK, ReadErrors
<1>3. CASE TakeUnlimited(r) \/ TakeSwap(r) \/ TakeRefused(r)
  <2>1. ReadReturns(r, chunk[r], err[r]) \/ ReadReturns(r, 0, "budget")
    BY <1>3 DEF TakeUnlimited, TakeSwap, TakeRefused
  <2>2. status'[r] \in {0, 400, 408, 413, 503}
    BY <1>2, <2>1, InvFacts DEF TypeOK, ReadReturns, Answer, ReadErrorStatus
  <2> QED
    BY <2>2
<1>4. CASE TakeLoad(r) \/ TakeRetry(r)
  BY <1>4 DEF TakeLoad, TakeRetry
<1> QED
  BY <1>1, <1>3, <1>4 DEF Taking

\* A request is refused for its model's limit only while that many are proxied.
THEOREM SlotRefusals == Spec => SlotRefusalJustified
<1> DEFINE Justified == \A r \in Requests :
             status[r] = 0 /\ status'[r] = 429
               => Cardinality(Holders(req[r].model)) >= MaxConcurrent[req[r].model]
<1>1. Inv /\ [Next]_vars => [Justified]_vars
  <2> SUFFICES ASSUME Inv, NEW q \in Requests, Step(q), NEW r \in Requests,
                      status[r] = 0, status'[r] = 429
               PROVE  Cardinality(Holders(req[r].model)) >= MaxConcurrent[req[r].model]
    BY DEF Next, Finished
  <2> DEFINE m == req[r].model
  <2>1. Saturated(r)
    BY RefusedBySlots
  <2>2. m \in Models
    BY <2>1, InvFacts, ShapeFacts DEF Route, Saturated
  <2>3. MaxConcurrent[m] > 0 /\ used[m] >= MaxConcurrent[m]
    BY <2>1 DEF Saturated
  <2> QED
    BY <2>2, <2>3 DEF Inv, SlotsConserved
<1> QED
  BY <1>1, InvAlways, PTL DEF Spec, SlotRefusalJustified

=============================================================================
