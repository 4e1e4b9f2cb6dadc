---------------------------- MODULE ProxyHandler ----------------------------
(***************************************************************************)
(* The proxy handler of internal/router/router.go: authentication, the     *)
(* body limits, buffering a body within the shared budget to read its      *)
(* JSON model, the concurrency slots of the models, and the reverse proxy  *)
(* with the replay of buffered bodies on a fresh connection.               *)
(*                                                                         *)
(* Every request has a goroutine of its own.  The goroutines share         *)
(* budget.free (an atomic.Int64 changed by compare-and-swap and by Add)    *)
(* and one channel of slots per model.  A body-routed request also shares  *)
(* its replayBody with the transport, whose connection goroutine calls     *)
(* replayBody.drop at the first byte of the response and whose round trip  *)
(* calls replayBody.open to resend the body.  An action is one atomic      *)
(* operation on that shared state with the local computation around it.    *)
(*                                                                         *)
(* A request is one element of Requests and is sent once: a client that    *)
(* tries again is another element.                                         *)
(***************************************************************************)
EXTENDS Integers, FiniteSets

CONSTANTS
    Requests,          \* the requests that ever arrive
    Models,            \* the configured models
    NoModel,           \* stands for "no model"
    Shapes,            \* what a client may send, see Shape
    NoShape,           \* the value of `req' before a request arrives
    MaxSize,           \* no client sends a longer body
    MaxBodyBytes,      \* config maxBodyBytes, 0 for unlimited
    MaxBufferedBytes,  \* config maxBufferedBytes, 0 for unlimited
    MaxConcurrent,     \* config maxConcurrentRequests of each model, 0 for unlimited
    MaxAttempts        \* bound: times the transport opens the body of one request

\* A request as far as the handler tells requests apart: whether it carries a
\* configured token, whether its path starts with /route/, the model it names
\* (NoModel when none of that name is configured), its body's length, whether
\* Content-Length declares that length, and what json.Unmarshal makes of it.
Shape ==
    [authorized : BOOLEAN, path : BOOLEAN, model : Models \union {NoModel},
     size : 0..MaxSize, declared : BOOLEAN, json : {"ok", "invalid", "missing"}]

ASSUME RequestsAssumption == IsFiniteSet(Requests)
ASSUME ModelsAssumption == NoModel \notin Models
ASSUME ShapesAssumption == Shapes \subseteq Shape /\ NoShape \notin Shapes
ASSUME LimitsAssumption ==
    /\ MaxSize \in Nat
    /\ MaxBodyBytes \in Nat
    /\ MaxBufferedBytes \in Nat
    /\ MaxConcurrent \in [Models -> Nat]
    /\ MaxAttempts \in Nat \ {0}

VARIABLES
    free,      \* budget.free
    used,      \* len(slots) of each model
    pc,        \* where the handler of a request is
    req,       \* what the client sent
    charged,   \* chargedReader.n
    chunk,     \* n and ...
    err,       \* ... err of the Read being charged
    seen,      \* the value take loaded from budget.free
    buf,       \* whether replayBody.buf is set
    once,      \* who runs the sync.OnceFunc of replayBody.drop, if any
    attempts,  \* readers replayBody.open has returned
    unread,    \* those of them that have not reached EOF
    status     \* the status code answered, 0 for none yet

budgetVars == <<free, charged, chunk, err, seen>>
replayVars == <<buf, once, attempts, unread>>
vars == <<free, used, pc, req, charged, chunk, err, seen, buf, once, attempts,
          unread, status>>

Locations ==
    {"idle", "read", "take", "cas", "parse", "refund", "dispatch", "proxy",
     "stream", "unslot", "return", "done"}

\* The errors of a Read, "none" for nil.  take adds "budget", errBudgetExceeded.
ReadErrors == {"none", "eof", "tooLarge", "timeout", "failed"}

Statuses == {0, 200, 400, 401, 404, 408, 413, 429, 502, 503}

\* The only type invariant: every variable has its type.
TypeOK ==
    /\ free \in Int
    /\ used \in [Models -> Nat]
    /\ pc \in [Requests -> Locations]
    /\ req \in [Requests -> Shapes \union {NoShape}]
    /\ charged \in [Requests -> Nat]
    /\ chunk \in [Requests -> Nat]
    /\ err \in [Requests -> ReadErrors]
    /\ seen \in [Requests -> Int]
    /\ buf \in [Requests -> BOOLEAN]
    /\ once \in [Requests -> {"none", "idle", "hook", "handler", "done"}]
    /\ attempts \in [Requests -> 0..MaxAttempts]
    /\ unread \in [Requests -> SUBSET (1..MaxAttempts)]
    /\ status \in [Requests -> Statuses]

Init ==
    /\ free = MaxBufferedBytes
    /\ used = [m \in Models |-> 0]
    /\ pc = [r \in Requests |-> "idle"]
    /\ req = [r \in Requests |-> NoShape]
    /\ charged = [r \in Requests |-> 0]
    /\ chunk = [r \in Requests |-> 0]
    /\ err = [r \in Requests |-> "none"]
    /\ seen = [r \in Requests |-> 0]
    /\ buf = [r \in Requests |-> FALSE]
    /\ once = [r \in Requests |-> "none"]
    /\ attempts = [r \in Requests |-> 0]
    /\ unread = [r \in Requests |-> {}]
    /\ status = [r \in Requests |-> 0]

-----------------------------------------------------------------------------
(* Helpers.                                                                *)

Goto(r, l) == pc' = [pc EXCEPT ![r] = l]

\* writeError, then on to l.
Answer(r, code, l) == status' = [status EXCEPT ![r] = code] /\ Goto(r, l)

\* The body exceeds maxBodyBytes.
TooLarge(s) == MaxBodyBytes > 0 /\ s.size > MaxBodyBytes

\* The bytes http.MaxBytesReader hands over, from the first to its error or EOF.
Readable(s) == IF TooLarge(s) THEN MaxBodyBytes ELSE s.size

\* budget.give: a nil budget is unlimited.
Give(n) == free' = IF MaxBufferedBytes = 0 THEN free ELSE free + n

\* The error response bodyModel writes for each error of readBody.
ReadErrorStatus ==
    [tooLarge |-> 413, budget |-> 503, timeout |-> 408, failed |-> 400]

-----------------------------------------------------------------------------
(* Arrival.                                                                *)

\* authMiddleware, then the head of proxyHandler up to choosing the route.
Arrive(r, s) ==
    /\ pc[r] = "idle"
    /\ req' = [req EXCEPT ![r] = s]
    /\ \/ /\ ~s.authorized
          /\ Answer(r, 401, "done")
       \/ /\ s.authorized /\ s.declared /\ TooLarge(s)
          /\ Answer(r, 413, "done")
       \/ /\ s.authorized /\ ~(s.declared /\ TooLarge(s))
          /\ Goto(r, IF s.path THEN "dispatch" ELSE "read")
          /\ UNCHANGED status
    /\ UNCHANGED <<budgetVars, used, replayVars>>

-----------------------------------------------------------------------------
(* readBody: io.ReadAll over a chargedReader, under a read deadline.       *)

\* The client's connection yields n bytes and error e to chargedReader.Read.
Deliver(r, n, e) ==
    /\ pc[r] = "read"
    /\ chunk' = [chunk EXCEPT ![r] = n]
    /\ err' = [err EXCEPT ![r] = e]
    /\ Goto(r, "take")
    /\ UNCHANGED <<free, used, req, charged, seen, replayVars, status>>

Remaining(r) == Readable(req[r]) - charged[r]

ReadData(r) ==
    /\ pc[r] = "read"
    /\ \E n \in 1..Remaining(r) : Deliver(r, n, "none")

\* The last bytes come with EOF, or with the *http.MaxBytesError.
ReadEnd(r) ==
    /\ pc[r] = "read"
    /\ Deliver(r, Remaining(r), IF TooLarge(req[r]) THEN "tooLarge" ELSE "eof")

\* bodyTimeout has passed since readBody set the deadline.
ReadTimeout(r) == Deliver(r, 0, "timeout")

\* The client disconnects or breaks the framing.
ReadFails(r) == Deliver(r, 0, "failed")

\* chargedReader.Read returns to io.ReadAll, having charged the n bytes or not.
\* ReadAll goes on, returns the body, or returns the error that bodyModel answers.
ReadReturns(r, n, e) ==
    /\ charged' = [charged EXCEPT ![r] = @ + n]
    /\ chunk' = [chunk EXCEPT ![r] = 0]
    /\ err' = [err EXCEPT ![r] = "none"]
    /\ seen' = [seen EXCEPT ![r] = 0]
    /\ \/ e = "none" /\ Goto(r, "read") /\ UNCHANGED status
       \/ e = "eof" /\ Goto(r, "parse") /\ UNCHANGED status
       \/ e \notin {"none", "eof"} /\ Answer(r, ReadErrorStatus[e], "refund")
    /\ UNCHANGED <<used, req, replayVars>>

\* budget.take on a nil budget.
TakeUnlimited(r) ==
    /\ pc[r] = "take"
    /\ MaxBufferedBytes = 0
    /\ ReadReturns(r, chunk[r], err[r])
    /\ UNCHANGED free

\* Fault: the refused bytes are counted as charged, and given back with the rest.
TakeRefusedCounted(r) ==
    /\ pc[r] = "take"
    /\ MaxBufferedBytes > 0
    /\ free < chunk[r]
    /\ ReadReturns(r, chunk[r], "budget")
    /\ UNCHANGED free

\* budget.take loads too small a value: errBudgetExceeded takes the place of
\* whatever Read returned, and the bytes it read stay uncharged.
TakeRefused(r) ==
    /\ pc[r] = "take"
    /\ MaxBufferedBytes > 0
    /\ free < chunk[r]
    /\ ReadReturns(r, 0, "budget")
    /\ UNCHANGED free

TakeLoad(r) ==
    /\ pc[r] = "take"
    /\ MaxBufferedBytes > 0
    /\ free >= chunk[r]
    /\ seen' = [seen EXCEPT ![r] = free]
    /\ Goto(r, "cas")
    /\ UNCHANGED <<free, used, req, charged, chunk, err, replayVars, status>>

\* Fault: a plain store in place of the compare-and-swap.
TakeStores(r) ==
    /\ pc[r] = "cas"
    /\ free' = seen[r] - chunk[r]
    /\ ReadReturns(r, chunk[r], err[r])

TakeSwap(r) ==
    /\ pc[r] = "cas"
    /\ free = seen[r]
    /\ free' = seen[r] - chunk[r]
    /\ ReadReturns(r, chunk[r], err[r])

\* Fault: a failed compare-and-swap counts as a budget that is exhausted.
TakeGivesUp(r) ==
    /\ pc[r] = "cas"
    /\ free # seen[r]
    /\ ReadReturns(r, 0, "budget")
    /\ UNCHANGED free

\* The compare-and-swap fails, and take loads again.
TakeRetry(r) ==
    /\ pc[r] = "cas"
    /\ free # seen[r]
    /\ Goto(r, "take")
    /\ UNCHANGED <<budgetVars, used, req, replayVars, status>>

-----------------------------------------------------------------------------
(* The rest of bodyModel.                                                  *)

\* The body is invalid JSON or names no model.
ParseFails(r) ==
    /\ pc[r] = "parse"
    /\ req[r].json # "ok"
    /\ Answer(r, 400, "refund")
    /\ UNCHANGED <<budgetVars, used, req, replayVars>>

\* newReplayBody, and the first open for req.Body.
Parsed(r) ==
    /\ pc[r] = "parse"
    /\ req[r].json = "ok"
    /\ buf' = [buf EXCEPT ![r] = TRUE]
    /\ once' = [once EXCEPT ![r] = "idle"]
    /\ attempts' = [attempts EXCEPT ![r] = 1]
    /\ unread' = [unread EXCEPT ![r] = {1}]
    /\ Goto(r, "dispatch")
    /\ UNCHANGED <<budgetVars, used, req, status>>

\* Fault: bodyModel returns its errors without the deferred give.
RefundForgotten(r) ==
    /\ pc[r] = "refund"
    /\ Goto(r, "done")
    /\ UNCHANGED <<budgetVars, used, req, replayVars, status>>

\* The deferred give of a bodyModel that returns an error.
Refund(r) ==
    /\ pc[r] = "refund"
    /\ Give(charged[r])
    /\ Goto(r, "done")
    /\ UNCHANGED <<used, req, charged, chunk, err, seen, replayVars, status>>

-----------------------------------------------------------------------------
(* The tail of proxyHandler: the model, its slot, and the reverse proxy.   *)

UnknownModel(r) ==
    /\ pc[r] = "dispatch"
    /\ req[r].model = NoModel
    /\ Answer(r, 404, "return")
    /\ UNCHANGED <<budgetVars, used, req, replayVars>>

\* Fault: acquire has no default case, so a send to a full channel waits.
SaturatedWaits(r) ==
    LET m == req[r].model IN
    /\ pc[r] = "dispatch"
    /\ m # NoModel
    /\ MaxConcurrent[m] > 0
    /\ used[m] >= MaxConcurrent[m]
    /\ UNCHANGED vars

\* Fault: the last slot is never given out.
SaturatedEarly(r) ==
    LET m == req[r].model IN
    /\ pc[r] = "dispatch"
    /\ m # NoModel
    /\ MaxConcurrent[m] > 0
    /\ used[m] >= MaxConcurrent[m] - 1
    /\ Answer(r, 429, "return")
    /\ UNCHANGED <<budgetVars, used, req, replayVars>>

\* acquire finds the channel full.
Saturated(r) ==
    LET m == req[r].model IN
    /\ pc[r] = "dispatch"
    /\ m # NoModel
    /\ MaxConcurrent[m] > 0
    /\ used[m] >= MaxConcurrent[m]
    /\ Answer(r, 429, "return")
    /\ UNCHANGED <<budgetVars, used, req, replayVars>>

\* Fault: the channel has room for one more.
AcquireOneMore(r) ==
    LET m == req[r].model IN
    /\ pc[r] = "dispatch"
    /\ m # NoModel
    /\ used' = [used EXCEPT ![m] = @ + 1]
    /\ MaxConcurrent[m] > 0 => used[m] <= MaxConcurrent[m]
    /\ Goto(r, "proxy")
    /\ UNCHANGED <<budgetVars, req, replayVars, status>>

\* acquire sends to the channel, or there is none.
Acquire(r) ==
    LET m == req[r].model IN
    /\ pc[r] = "dispatch"
    /\ m # NoModel
    /\ \/ MaxConcurrent[m] = 0 /\ UNCHANGED used
       \/ /\ MaxConcurrent[m] > 0
          /\ used[m] < MaxConcurrent[m]
          /\ used' = [used EXCEPT ![m] = @ + 1]
    /\ Goto(r, "proxy")
    /\ UNCHANGED <<budgetVars, req, replayVars, status>>

\* The transport reads a reader of the body up to EOF, while the backend takes it.
BodySent(r) ==
    /\ pc[r] \in {"proxy", "stream"}
    /\ \E a \in unread[r] : unread' = [unread EXCEPT ![r] = @ \ {a}]
    /\ UNCHANGED <<budgetVars, used, pc, req, buf, once, attempts, status>>

\* Fault: GetBody returns a reader without loading the pointer.
ResendUnchecked(r) ==
    /\ pc[r] = "proxy"
    /\ ~req[r].path
    /\ attempts[r] < MaxAttempts
    /\ attempts' = [attempts EXCEPT ![r] = @ + 1]
    /\ unread' = [unread EXCEPT ![r] = @ \union {attempts[r] + 1}]
    /\ UNCHANGED <<budgetVars, used, pc, req, buf, once, status>>

\* The connection broke before the response, and GetBody opens the body again.
Resend(r) ==
    /\ pc[r] = "proxy"
    /\ ~req[r].path
    /\ buf[r]
    /\ attempts[r] < MaxAttempts
    /\ attempts' = [attempts EXCEPT ![r] = @ + 1]
    /\ unread' = [unread EXCEPT ![r] = @ \union {attempts[r] + 1}]
    /\ UNCHANGED <<budgetVars, used, pc, req, buf, once, status>>

\* Fault: a failed round trip skips the release of its slot.
RoundTripFailsLeaking(r) ==
    /\ pc[r] = "proxy"
    /\ Answer(r, 502, "return")
    /\ UNCHANGED <<budgetVars, used, req, replayVars>>

\* The round trip fails: the backend is unreachable or breaks off, the client
\* goes away, or GetBody returns errBodySent.  proxyError answers.
RoundTripFails(r) ==
    /\ pc[r] = "proxy"
    /\ Answer(r, 502, "unslot")
    /\ UNCHANGED <<budgetVars, used, req, replayVars>>

\* A streamed body of undeclared length runs into http.MaxBytesReader.
StreamTooLarge(r) ==
    /\ pc[r] = "proxy"
    /\ req[r].path
    /\ TooLarge(req[r])
    /\ Answer(r, 413, "unslot")
    /\ UNCHANGED <<budgetVars, used, req, replayVars>>

\* Fault: GotFirstResponseByte is not set.
TracedNever(r) == FALSE

\* bodyModel set drop as the GotFirstResponseByte of r.
Traced(r) == ~req[r].path

\* The transport delivers the response after its call of GotFirstResponseByte
\* has returned, and the reverse proxy starts to copy it.
Response(r) ==
    /\ pc[r] = "proxy"
    /\ Traced(r) => once[r] = "done"
    /\ Answer(r, 200, "stream")
    /\ UNCHANGED <<budgetVars, used, req, replayVars>>

\* The response ends, or breaks off: http.ErrAbortHandler runs the defers too.
StreamEnds(r) ==
    /\ pc[r] = "stream"
    /\ Goto(r, "unslot")
    /\ UNCHANGED <<budgetVars, used, req, replayVars, status>>

\* Fault: the slot of a model without a limit is counted down as well.
UnslotAlways(r) ==
    LET m == req[r].model IN
    /\ pc[r] = "unslot"
    /\ used' = [used EXCEPT ![m] = @ - 1]
    /\ Goto(r, "return")
    /\ UNCHANGED <<budgetVars, req, replayVars, status>>

\* The deferred release of acquire, a receive that blocks on an empty channel.
Unslot(r) ==
    LET m == req[r].model IN
    /\ pc[r] = "unslot"
    /\ \/ MaxConcurrent[m] = 0 /\ UNCHANGED used
       \/ /\ MaxConcurrent[m] > 0
          /\ used[m] > 0
          /\ used' = [used EXCEPT ![m] = @ - 1]
    /\ Goto(r, "return")
    /\ UNCHANGED <<budgetVars, req, replayVars, status>>

-----------------------------------------------------------------------------
(* replayBody.drop: a sync.OnceFunc, called by the transport's connection  *)
(* goroutine (the hook) and by the handler's deferred release.  The first  *)
(* caller stores nil and gives the bytes back; the other one waits for it. *)

\* The transport has a connection for r whose first byte may still arrive.
Connected(r) ==
    \/ pc[r] \in {"proxy", "stream", "unslot"}
    \/ pc[r] = "return" /\ status[r] \notin {404, 429}

\* Fault: drop releases the bytes and leaves the pointer in place.
DropBeginsKeeping(r, caller) ==
    /\ once[r] = "idle"
    /\ once' = [once EXCEPT ![r] = caller]
    /\ UNCHANGED <<budgetVars, used, pc, req, buf, attempts, unread, status>>

DropBegins(r, caller) ==
    /\ once[r] = "idle"
    /\ once' = [once EXCEPT ![r] = caller]
    /\ buf' = [buf EXCEPT ![r] = FALSE]
    /\ UNCHANGED <<budgetVars, used, pc, req, attempts, unread, status>>

DropEnds(r, caller) ==
    /\ once[r] = caller
    /\ once' = [once EXCEPT ![r] = "done"]
    /\ Give(charged[r])
    /\ UNCHANGED <<used, pc, req, charged, chunk, err, seen, buf, attempts, unread,
                   status>>

\* GotFirstResponseByte, for a final response or for a 1xx one.
HookDrops(r) == Connected(r) /\ DropBegins(r, "hook")
HookDropped(r) == DropEnds(r, "hook")

\* The deferred release of bodyModel.
HandlerDrops(r) == pc[r] = "return" /\ DropBegins(r, "handler")
HandlerDropped(r) == pc[r] = "return" /\ DropEnds(r, "handler")

\* The handler returns, a body-routed one once drop has run.
Return(r) ==
    /\ pc[r] = "return"
    /\ req[r].path \/ once[r] = "done"
    /\ Goto(r, "done")
    /\ UNCHANGED <<budgetVars, used, req, replayVars, status>>

-----------------------------------------------------------------------------

Reading(r) == ReadData(r) \/ ReadEnd(r) \/ ReadTimeout(r) \/ ReadFails(r)

Taking(r) ==
    TakeUnlimited(r) \/ TakeRefused(r) \/ TakeLoad(r) \/ TakeSwap(r) \/ TakeRetry(r)

Parsing(r) == ParseFails(r) \/ Parsed(r) \/ Refund(r)

Dispatching(r) == UnknownModel(r) \/ Saturated(r) \/ Acquire(r)

RoundTripEnds(r) == RoundTripFails(r) \/ StreamTooLarge(r) \/ Response(r)

Proxying(r) == BodySent(r) \/ Resend(r) \/ RoundTripEnds(r) \/ StreamEnds(r)

Dropping(r) == HookDrops(r) \/ HookDropped(r) \/ HandlerDrops(r) \/ HandlerDropped(r)

Step(r) ==
    \/ \E s \in Shapes : Arrive(r, s)
    \/ Reading(r)
    \/ Taking(r)
    \/ Parsing(r)
    \/ Dispatching(r)
    \/ Proxying(r)
    \/ Dropping(r)
    \/ Unslot(r)
    \/ Return(r)

\* Every request is answered and the transport is through with it.
Finished ==
    /\ \A r \in Requests : pc[r] = "done"
    /\ UNCHANGED vars

Next == (\E r \in Requests : Step(r)) \/ Finished

Spec == Init /\ [][Next]_vars

-----------------------------------------------------------------------------
(* Safety.                                                                 *)

\* The budget bytes r is accountable for: what its chargedReader took, until
\* bodyModel's refund or the call of replayBody.drop has given it back.
Owes(r) == IF pc[r] = "done" \/ once[r] = "done" THEN 0 ELSE charged[r]

\* The owed bytes of all requests as a set: one pair for each byte.
OwedBytes == {p \in Requests \X (1..MaxBufferedBytes) : p[2] <= Owes(p[1])}

\* The requests in m's channel of slots.
Holders(m) ==
    {r \in Requests : pc[r] \in {"proxy", "stream", "unslot"} /\ req[r].model = m}

\* No byte of the budget is ever lost or counted twice: what is free and what the
\* requests owe adds up to maxBufferedBytes whatever the interleaving of the
\* compare-and-swap loops of take, the refunds of failed requests and the two
\* callers of drop.  So free is never negative and the owed bytes never exceed
\* the budget.
BudgetConserved ==
    MaxBufferedBytes > 0 =>
        /\ \A r \in Requests : Owes(r) <= MaxBufferedBytes
        /\ free + Cardinality(OwedBytes) = MaxBufferedBytes

\* Every slot taken from a model's channel belongs to one request being proxied
\* to it, so no more requests than maxConcurrentRequests ever are, and the
\* deferred receive of acquire's release never blocks.
SlotsConserved ==
    \A m \in Models : MaxConcurrent[m] > 0 =>
        /\ used[m] = Cardinality(Holders(m))
        /\ used[m] <= MaxConcurrent[m]

\* A body that the transport may open again is reserved in full: drop stores nil
\* before it gives the bytes to other requests, and no path out of the handler
\* gives them back while the body can still be sent.
ReplayableIsReserved ==
    \A r \in Requests : buf[r] => Owes(r) = req[r].size

\* The comment of replayBody: a response streamed for long keeps neither the body
\* replayable nor its bytes reserved.
StreamReservesNothing ==
    \A r \in Requests : pc[r] = "stream" => ~buf[r] /\ Owes(r) = 0

\* Whether the body of r is reachable: while bodyModel has it, through the pointer
\* of replayBody, or through a dropReader that is not at EOF and that the request
\* of the reverse proxy refers to.
Held(r) ==
    \/ pc[r] \in {"read", "take", "cas", "parse"}
    \/ buf[r]
    \/ pc[r] \in {"proxy", "stream"} /\ unread[r] # {}

HeldBytes ==
    {p \in Requests \X (1..MaxSize) : Held(p[1]) /\ p[2] <= charged[p[1]]}

\* The comment of budget, "bounds the bytes of buffered bodies held at once", read of
\* the memory that bodies occupy rather than of the bytes charged for them.  A
\* backend that answers before it has read the whole body, or a resend after a
\* body sent in part, leaves a dropReader that holds bytes given back.
HeldWithinBudget ==
    MaxBufferedBytes > 0 => Cardinality(HeldBytes) <= MaxBufferedBytes

\* "resends it on a fresh connection until the response starts": once a response
\* byte has arrived, no reader of the body is opened any more.
NeverResentOnceAnswered ==
    [][\A r \in Requests :
         once[r] \in {"hook", "handler", "done"} => attempts'[r] = attempts[r]]_vars

\* A request is refused with 503 only if its bytes would exceed the budget together
\* with all bytes owed at that moment: losing a compare-and-swap to another
\* request, or bytes another one has given back before, never refuses it.
BudgetRefusalJustified ==
    [][\A r \in Requests :
         status[r] = 0 /\ status'[r] = 503
           => Cardinality(OwedBytes) + chunk[r] > MaxBufferedBytes]_vars

\* A request is refused with 429 only while as many other requests as the model
\* may have at once are proxied to it.
SlotRefusalJustified ==
    [][\A r \in Requests :
         status[r] = 0 /\ status'[r] = 429
           => Cardinality(Holders(req[r].model)) >= MaxConcurrent[req[r].model]]_vars

-----------------------------------------------------------------------------
(* Refinement.                                                             *)

Closed == {r \in Requests : pc[r] = "done" \/ once[r] = "done"}

Serving ==
    [r \in Requests |->
        IF pc[r] \in {"proxy", "stream", "unslot"} THEN req[r].model ELSE NoModel]

A == INSTANCE Admission WITH
        reserved <- [r \in Requests |-> Owes(r)], closed <- Closed, serving <- Serving

\* Several steps of the code for each, but to the rest of the proxy every byte is
\* reserved within the budget and given back exactly once, and every admission
\* to a model within its limit, in one atomic step.
ImplementsAdmission == A!Spec

-----------------------------------------------------------------------------
(* Liveness.                                                               *)

\* Goroutines that are ready to run are scheduled.
GoroutinesRun ==
    \A r \in Requests :
        /\ WF_vars(Taking(r))
        /\ WF_vars(Parsing(r))
        /\ WF_vars(Dispatching(r))
        /\ WF_vars(Unslot(r))
        /\ WF_vars(HookDropped(r))
        /\ WF_vars(HandlerDrops(r) \/ HandlerDropped(r))
        /\ WF_vars(Return(r))

\* The read deadline of readBody expires if the body does not end before.
DeadlinesExpire == \A r \in Requests : WF_vars(ReadTimeout(r))

\* Clients, backends and the network are free to do nothing, for ever.
FairSpec == Spec /\ GoroutinesRun /\ DeadlinesExpire

\* Every round trip and every response ends, which only the backend can ensure.
BackendsAnswer ==
    \A r \in Requests :
        WF_vars(HookDrops(r)) /\ WF_vars(RoundTripEnds(r)) /\ WF_vars(StreamEnds(r))

\* A request waits for its client, for bodyTimeout at most, and for its backend,
\* never for another request: not for a slot, not for bytes of the budget, not
\* for the compare-and-swap and not for ever inside drop.
NeverWaitsForOthers ==
    \A r \in Requests :
        pc[r] \notin {"idle", "proxy", "stream"}
          ~> pc[r] \in {"proxy", "stream", "done"}

\* With backends that answer, every request that arrives is done with, all of the
\* budget is free again and every slot is.
EverythingGivenBack ==
    BackendsAnswer =>
        /\ \A r \in Requests : pc[r] # "idle" ~> pc[r] = "done"
        /\ (\A r \in Requests : pc[r] # "idle") ~>
               (free = MaxBufferedBytes /\ used = [m \in Models |-> 0])

=============================================================================
