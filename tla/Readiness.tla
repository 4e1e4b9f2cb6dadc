------------------------------ MODULE Readiness ------------------------------
(***************************************************************************)
(* GET /readiness: the prober of internal/router/readiness.go and          *)
(* Upstream.Probe of internal/upstream/upstream.go.                        *)
(*                                                                         *)
(* Callers of the endpoint take one mutex in turn.  The holder answers     *)
(* from the last round of probes, or runs a new round while it holds the   *)
(* mutex: one goroutine per backend, each with a deadline of its own.      *)
(*                                                                         *)
(* Time is discrete and kept as durations, each capped where a longer one  *)
(* makes no difference.  A step of the program takes no time: time passes  *)
(* only while everybody waits for a backend, a deadline or a new caller.   *)
(***************************************************************************)
EXTENDS Integers

CONSTANTS
    Callers,      \* the concurrent clients of the endpoint
    Backends,     \* the backends with a health path
    NoCaller,     \* the holder of a free mutex
    TTL,          \* readinessTTL
    ProbeTimeout  \* probeTimeout

ASSUME ReadinessAssumption ==
    /\ NoCaller \notin Callers
    /\ TTL \in Nat \ {0}
    /\ ProbeTimeout \in Nat \ {0}

VARIABLES
    mu,        \* the holder of prober.mu
    pc,        \* where the handler of a caller is
    age,       \* time.Since(prober.at), at most TTL
    ok,        \* whether prober.status is 200
    probe,     \* the state of each backend's probe in the current round
    elapsed,   \* the time since the context of the probe was made
    healthy,   \* whether a backend answers its health path with a 2xx now
    sinceOk,   \* the time since a probe of the backend saw a 2xx
    sinceRound,\* the time since a round began, at most TTL
    waited     \* the time since a caller asked

proberVars == <<mu, age, ok>>
probeVars == <<probe, elapsed, sinceOk>>
vars == <<mu, pc, age, ok, probe, elapsed, healthy, sinceOk, sinceRound, waited>>

\* The caps of the durations that only properties look at.
MaxStale == TTL + ProbeTimeout
MaxWait == ProbeTimeout + 1

\* The only type invariant: every variable has its type, and each duration its cap.
TypeOK ==
    /\ mu \in Callers \union {NoCaller}
    /\ pc \in [Callers -> {"idle", "lock", "check", "wait", "unlock"}]
    /\ age \in 0..TTL
    /\ ok \in BOOLEAN
    /\ probe \in [Backends -> {"none", "spawned", "running", "draining", "ready", "failed"}]
    /\ elapsed \in [Backends -> 0..ProbeTimeout]
    /\ healthy \in [Backends -> BOOLEAN]
    /\ sinceOk \in [Backends -> 0..MaxStale]
    /\ sinceRound \in 0..TTL
    /\ waited \in [Callers -> 0..MaxWait]

\* registerReadiness: the zero time has expired.
Init ==
    /\ mu = NoCaller
    /\ pc = [c \in Callers |-> "idle"]
    /\ age = TTL
    /\ ok = FALSE
    /\ probe = [b \in Backends |-> "none"]
    /\ elapsed = [b \in Backends |-> 0]
    /\ healthy \in [Backends -> BOOLEAN]
    /\ sinceOk = [b \in Backends |-> MaxStale]
    /\ sinceRound = TTL
    /\ waited = [c \in Callers |-> 0]

Goto(c, l) == pc' = [pc EXCEPT ![c] = l]

-----------------------------------------------------------------------------
(* prober.result, called by the handler.                                   *)

Call(c) ==
    /\ pc[c] = "idle"
    /\ Goto(c, "lock")
    /\ waited' = [waited EXCEPT ![c] = 0]
    /\ UNCHANGED <<proberVars, probeVars, healthy, sinceRound>>

Lock(c) ==
    /\ pc[c] = "lock"
    /\ mu = NoCaller
    /\ mu' = c
    /\ Goto(c, "check")
    /\ UNCHANGED <<age, ok, probeVars, healthy, sinceRound, waited>>

\* Fault: a round that succeeded answers for ever.
FreshForever(c) ==
    /\ pc[c] = "check"
    /\ ok \/ age < TTL
    /\ Goto(c, "unlock")
    /\ UNCHANGED <<proberVars, probeVars, healthy, sinceRound, waited>>

\* Fault: the cached answer returns without unlocking.
FreshKeepingLock(c) ==
    /\ pc[c] = "check"
    /\ age < TTL
    /\ Goto(c, "idle")
    /\ UNCHANGED <<proberVars, probeVars, healthy, sinceRound, waited>>

\* The last round answers.
Fresh(c) ==
    /\ pc[c] = "check"
    /\ age < TTL
    /\ Goto(c, "unlock")
    /\ UNCHANGED <<proberVars, probeVars, healthy, sinceRound, waited>>

\* Fault: the mutex is released while the round is in flight.
ExpiredUnlocking(c) ==
    /\ pc[c] = "check"
    /\ age >= TTL
    /\ probe' = [b \in Backends |-> "spawned"]
    /\ sinceRound' = 0
    /\ mu' = NoCaller
    /\ Goto(c, "wait")
    /\ UNCHANGED <<age, ok, elapsed, sinceOk, healthy, waited>>

\* The last round has expired: wg.Go starts a goroutine for each backend.
Expired(c) ==
    /\ pc[c] = "check"
    /\ age >= TTL
    /\ probe' = [b \in Backends |-> "spawned"]
    /\ sinceRound' = 0
    /\ Goto(c, "wait")
    /\ UNCHANGED <<proberVars, elapsed, sinceOk, healthy, waited>>

Through == \A b \in Backends : probe[b] \in {"ready", "failed"}

\* Fault: prober.at is the time the round began.
RoundEndsBackdated(c) ==
    /\ pc[c] = "wait"
    /\ Through
    /\ ok' = (\A b \in Backends : probe[b] = "ready")
    /\ age' = sinceRound
    /\ probe' = [b \in Backends |-> "none"]
    /\ Goto(c, "unlock")
    /\ UNCHANGED <<mu, elapsed, sinceOk, healthy, sinceRound, waited>>

\* wg.Wait returns, and the round is stamped with the time it ended.
RoundEnds(c) ==
    /\ pc[c] = "wait"
    /\ Through
    /\ ok' = (\A b \in Backends : probe[b] = "ready")
    /\ age' = 0
    /\ probe' = [b \in Backends |-> "none"]
    /\ Goto(c, "unlock")
    /\ UNCHANGED <<mu, elapsed, sinceOk, healthy, sinceRound, waited>>

\* The deferred Unlock, and the answer to the caller.
Unlock(c) ==
    /\ pc[c] = "unlock"
    /\ mu' = NoCaller
    /\ Goto(c, "idle")
    /\ waited' = [waited EXCEPT ![c] = 0]
    /\ UNCHANGED <<age, ok, probeVars, healthy, sinceRound>>

-----------------------------------------------------------------------------
(* backend.probe and Upstream.Probe, one goroutine per backend.            *)

InFlight(b) == probe[b] \in {"running", "draining"}

\* Fault: the request of a probe has no deadline.
ExpiringNever(b) == FALSE

\* The deadline of the context of a probe has come.
Expiring(b) == InFlight(b) /\ elapsed[b] = ProbeTimeout

\* The context with its deadline is made, and the request sent.
ProbeStarts(b) ==
    /\ probe[b] = "spawned"
    /\ probe' = [probe EXCEPT ![b] = "running"]
    /\ elapsed' = [elapsed EXCEPT ![b] = 0]
    /\ UNCHANGED <<proberVars, pc, sinceOk, healthy, sinceRound, waited>>

\* The backend answers with a 2xx.
ProbeAnswered(b) ==
    /\ probe[b] = "running"
    /\ healthy[b]
    /\ probe' = [probe EXCEPT ![b] = "draining"]
    /\ sinceOk' = [sinceOk EXCEPT ![b] = 0]
    /\ UNCHANGED <<proberVars, pc, elapsed, healthy, sinceRound, waited>>

\* The body has been drained, or the deadline cut it off: its error is ignored.
ProbeDrained(b) ==
    /\ probe[b] = "draining"
    /\ probe' = [probe EXCEPT ![b] = "ready"]
    /\ UNCHANGED <<proberVars, pc, elapsed, sinceOk, healthy, sinceRound, waited>>

\* The backend refuses or answers with another status.
ProbeRefused(b) ==
    /\ probe[b] = "running"
    /\ ~healthy[b]
    /\ probe' = [probe EXCEPT ![b] = "failed"]
    /\ UNCHANGED <<proberVars, pc, elapsed, sinceOk, healthy, sinceRound, waited>>

ProbeTimesOut(b) ==
    /\ probe[b] = "running" /\ Expiring(b)
    /\ probe' = [probe EXCEPT ![b] = "failed"]
    /\ UNCHANGED <<proberVars, pc, elapsed, sinceOk, healthy, sinceRound, waited>>

-----------------------------------------------------------------------------
(* The environment.                                                        *)

\* A backend comes up or goes down.
Flip(b) ==
    /\ healthy' = [healthy EXCEPT ![b] = ~@]
    /\ UNCHANGED <<proberVars, pc, probeVars, sinceRound, waited>>

\* A step of the program that needs no waiting is pending.
Busy ==
    \/ \E c \in Callers :
         \/ pc[c] \in {"check", "unlock"}
         \/ pc[c] = "lock" /\ mu = NoCaller
         \/ pc[c] = "wait" /\ Through
    \/ \E b \in Backends :
         \/ probe[b] = "spawned"
         \/ Expiring(b)

Later(d, cap) == IF d < cap THEN d + 1 ELSE cap

Tick ==
    /\ ~Busy
    /\ age' = Later(age, TTL)
    /\ sinceRound' = Later(sinceRound, TTL)
    /\ elapsed' = [b \in Backends |->
                      IF InFlight(b) THEN elapsed[b] + 1 ELSE 0]
    /\ sinceOk' = [b \in Backends |-> Later(sinceOk[b], MaxStale)]
    /\ waited' = [c \in Callers |->
                     IF pc[c] = "idle" THEN 0 ELSE Later(waited[c], MaxWait)]
    /\ UNCHANGED <<mu, pc, ok, probe, healthy>>

Result(c) == Lock(c) \/ Fresh(c) \/ Expired(c) \/ RoundEnds(c) \/ Unlock(c)

Probe(b) ==
    \/ ProbeStarts(b) \/ ProbeAnswered(b) \/ ProbeDrained(b)
    \/ ProbeRefused(b) \/ ProbeTimesOut(b)

Next ==
    \/ \E c \in Callers : Call(c) \/ Result(c)
    \/ \E b \in Backends : Probe(b) \/ Flip(b)
    \/ Tick

Spec == Init /\ [][Next]_vars

-----------------------------------------------------------------------------
(* Properties.                                                             *)

\* The comment of readinessTTL: frequent or concurrent callers cost at most one
\* round of backend requests per interval.  No round begins while another is in
\* flight, nor less than readinessTTL after the last one began.
RoundsSpaced ==
    [][\A c \in Callers : pc[c] = "check" /\ pc'[c] = "wait"
         => /\ sinceRound = TTL
            /\ \A b \in Backends : probe[b] = "none"
            /\ \A d \in Callers \ {c} : pc[d] # "wait"]_vars

\* An answer 200 means that every backend with a health path has answered a probe
\* with a 2xx, less than readinessTTL + probeTimeout ago.
OkIsRecent ==
    \A c \in Callers : pc[c] = "unlock" /\ ok
        => \A b \in Backends : sinceOk[b] < TTL + ProbeTimeout

\* "Callers arriving during a round wait for it instead of starting their own": no
\* caller waits longer than one round, however many are queued for the mutex.
WaitIsOneRound == \A c \in Callers : waited[c] <= ProbeTimeout

\* The program's goroutines run and time passes.  A backend may never answer, and
\* its body may never end before the deadline.
FairSpec ==
    /\ Spec
    /\ \A c \in Callers : WF_vars(Result(c)) /\ SF_vars(Lock(c))
    /\ \A b \in Backends :
         /\ WF_vars(ProbeStarts(b))
         /\ WF_vars(ProbeTimesOut(b))
         /\ WF_vars(Expiring(b) /\ ProbeDrained(b))
    /\ WF_vars(Tick)

\* Every caller is answered, whatever the backends do.
EveryCallerAnswered == \A c \in Callers : pc[c] = "lock" ~> pc[c] = "idle"

=============================================================================
