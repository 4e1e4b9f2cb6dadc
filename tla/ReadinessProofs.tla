--------------------------- MODULE ReadinessProofs ---------------------------
(***************************************************************************)
(* Proofs about Readiness, for any callers, backends and durations.        *)
(***************************************************************************)
EXTENDS Readiness, TLAPS

\* Between Lock and Unlock a caller is the holder of the mutex.
Exclusive == \A c \in Callers : pc[c] \in {"check", "wait", "unlock"} => mu = c

\* Outside of rounds no probe is in flight, and the last round ended after it began.
Settled ==
    (\A c \in Callers : pc[c] # "wait") =>
        age <= sinceRound /\ \A b \in Backends : probe[b] = "none"

Inv == TypeOK /\ Exclusive /\ Settled

LEMMA Bounds ==
    /\ {0, TTL} \subseteq 0..TTL
    /\ {0, MaxStale} \subseteq 0..MaxStale
    /\ 0 \in 0..ProbeTimeout
    /\ 0 \in 0..MaxWait
BY ReadinessAssumption DEF MaxStale, MaxWait

LEMMA InvInit == Init => Inv
<1> SUFFICES ASSUME Init PROVE Inv
  OBVIOUS
<1>1. TypeOK
  BY Bounds DEF Init, TypeOK
<1>2. Exclusive /\ Settled
  BY ReadinessAssumption DEF Init, Exclusive, Settled
<1> QED
  BY <1>1, <1>2 DEF Inv

LEMMA TypeNext == TypeOK /\ [Next]_vars => TypeOK'
<1> SUFFICES ASSUME TypeOK, [Next]_vars PROVE TypeOK'
  OBVIOUS
<1>1. ASSUME NEW c \in Callers, Call(c) \/ Result(c) PROVE TypeOK'
  <2>1. CASE Call(c) \/ Lock(c) \/ Fresh(c)
    BY <1>1, <2>1, ReadinessAssumption
    DEF TypeOK, Call, Lock, Fresh, Goto, proberVars, probeVars, MaxWait
  <2>2. CASE Expired(c)
    BY <2>2, Bounds DEF TypeOK, Expired, Goto, proberVars
  <2>3. CASE RoundEnds(c)
    <3>1. ok' \in BOOLEAN
      BY <2>3, Zenon DEF RoundEnds
    <3>2. age' = 0 /\ UNCHANGED <<mu, elapsed, sinceOk, healthy, sinceRound, waited>>
      BY <2>3 DEF RoundEnds
    <3>3. /\ pc' = [pc EXCEPT ![c] = "unlock"]
          /\ probe' = [b \in Backends |-> "none"]
      BY <2>3 DEF RoundEnds, Goto
    <3> QED
      BY <3>1, <3>2, <3>3, Bounds DEF TypeOK
  <2>4. CASE Unlock(c)
    BY <2>4, Bounds DEF TypeOK, Unlock, Goto, probeVars
  <2> QED
    BY <1>1, <2>1, <2>2, <2>3, <2>4 DEF Result
<1>2. ASSUME NEW b \in Backends, Probe(b) \/ Flip(b) PROVE TypeOK'
  <2>1. CASE Flip(b)
    <3>1. healthy' \in [Backends -> BOOLEAN]
      BY <2>1, Zenon DEF TypeOK, Flip
    <3> QED
      BY <2>1, <3>1 DEF TypeOK, Flip, proberVars, probeVars
  <2>2. CASE ProbeStarts(b) \/ ProbeAnswered(b)
    BY <2>2, Bounds DEF TypeOK, ProbeStarts, ProbeAnswered, proberVars
  <2>3. CASE ProbeDrained(b) \/ ProbeRefused(b) \/ ProbeTimesOut(b)
    BY <2>3 DEF TypeOK, ProbeDrained, ProbeRefused, ProbeTimesOut, proberVars
  <2> QED
    BY <1>2, <2>1, <2>2, <2>3 DEF Probe
<1>3. CASE Tick
  <2>1. /\ age' \in 0..TTL /\ sinceRound' \in 0..TTL
        /\ sinceOk' \in [Backends -> 0..MaxStale]
        /\ waited' \in [Callers -> 0..MaxWait]
    BY <1>3, ReadinessAssumption DEF TypeOK, Tick, Later, MaxStale, MaxWait
  <2>2. elapsed' \in [Backends -> 0..ProbeTimeout]
    <3>1. ASSUME NEW b \in Backends, InFlight(b) PROVE elapsed[b] + 1 \in 0..ProbeTimeout
      BY <1>3, <3>1, ReadinessAssumption DEF TypeOK, Tick, Busy, Expiring
    <3> QED
      BY <1>3, <3>1, ReadinessAssumption DEF Tick
  <2> QED
    BY <1>3, <2>1, <2>2 DEF TypeOK, Tick
<1>4. CASE UNCHANGED vars
  BY <1>4 DEF TypeOK, vars
<1> QED
  BY <1>1, <1>2, <1>3, <1>4 DEF Next

LEMMA InvNext == Inv /\ [Next]_vars => Inv'
<1> SUFFICES ASSUME Inv, [Next]_vars PROVE Inv'
  OBVIOUS
<1>1. TypeOK /\ TypeOK'
  BY TypeNext DEF Inv
<1>2. ASSUME NEW c \in Callers, Call(c) \/ Result(c) PROVE Exclusive' /\ Settled'
  <2>1. CASE Call(c) \/ Lock(c) \/ Fresh(c)
    BY <1>1, <1>2, <2>1, ReadinessAssumption
    DEF Inv, TypeOK, Exclusive, Settled, Call, Lock, Fresh, Goto, proberVars, probeVars
  <2>2. CASE Expired(c)
    BY <1>1, <1>2, <2>2, ReadinessAssumption
    DEF Inv, TypeOK, Exclusive, Settled, Expired, Goto, proberVars
  <2>3. CASE RoundEnds(c)
    BY <1>1, <1>2, <2>3, ReadinessAssumption
    DEF Inv, TypeOK, Exclusive, Settled, RoundEnds, Goto
  <2>4. CASE Unlock(c)
    BY <1>1, <1>2, <2>4, ReadinessAssumption
    DEF Inv, TypeOK, Exclusive, Settled, Unlock, Goto, probeVars
  <2> QED
    BY <1>2, <2>1, <2>2, <2>3, <2>4 DEF Result
<1>3. ASSUME NEW b \in Backends, Probe(b) \/ Flip(b) PROVE Exclusive' /\ Settled'
  BY <1>1, <1>3
  DEF Inv, TypeOK, Exclusive, Settled, Probe, ProbeStarts, ProbeAnswered, ProbeDrained,
      ProbeRefused, ProbeTimesOut, Flip, proberVars, probeVars
<1>4. CASE Tick
  BY <1>1, <1>4, ReadinessAssumption
  DEF Inv, TypeOK, Exclusive, Settled, Tick, Later
<1>5. CASE UNCHANGED vars
  BY <1>1, <1>5 DEF Inv, Exclusive, Settled, vars
<1> QED
  BY <1>1, <1>2, <1>3, <1>4, <1>5 DEF Inv, Next

\* Every variable of the prober has its type; in particular no probe outlives its
\* deadline.
THEOREM TypeCorrect == Spec => []TypeOK
<1>1. Inv => TypeOK
  BY DEF Inv
<1> QED
  BY <1>1, InvInit, InvNext, PTL DEF Spec

\* Rounds of probes never overlap, and begin at least readinessTTL apart.
THEOREM RoundsAreSpaced == Spec => RoundsSpaced
<1> DEFINE Spaced == \A c \in Callers : pc[c] = "check" /\ pc'[c] = "wait"
             => /\ sinceRound = TTL
                /\ \A b \in Backends : probe[b] = "none"
                /\ \A d \in Callers \ {c} : pc[d] # "wait"
<1>1. Inv /\ [Next]_vars => [Spaced]_vars
  <2> SUFFICES ASSUME Inv, Next, NEW c \in Callers, pc[c] = "check", pc'[c] = "wait"
               PROVE  /\ sinceRound = TTL
                      /\ \A b \in Backends : probe[b] = "none"
                      /\ \A d \in Callers \ {c} : pc[d] # "wait"
    OBVIOUS
  <2>1. Expired(c)
    BY DEF Inv, TypeOK, Next, Call, Result, Lock, Fresh, Expired, RoundEnds, Unlock, Goto,
       Probe, ProbeStarts, ProbeAnswered, ProbeDrained, ProbeRefused, ProbeTimesOut,
       Flip, Tick
  <2>2. \A d \in Callers : pc[d] # "wait"
    BY DEF Inv, Exclusive
  <2> QED
    BY <2>1, <2>2, ReadinessAssumption DEF Inv, TypeOK, Settled, Expired
<1> QED
  BY <1>1, InvInit, InvNext, PTL DEF Spec, RoundsSpaced

-----------------------------------------------------------------------------
(* The timing of a round.  Its probes start at one instant, so whatever has  *)
(* happened since then is no older than any of them that is still in flight, *)
(* and no probe is older than its deadline.                                  *)

Seen(b) == probe[b] \in {"draining", "ready"}

\* The holder of the mutex is between Lock and Unlock, and in a round every backend is probed.
Held ==
    /\ mu # NoCaller => pc[mu] \in {"check", "wait", "unlock"}
    /\ \A c \in Callers : pc[c] = "wait" => \A b \in Backends : probe[b] # "none"

\* No caller has waited, and no answer has been seen, for longer than a probe in flight.
Paced ==
    \A b \in Backends :
        /\ probe[b] = "spawned" =>
               /\ \A c \in Callers : waited[c] = 0
               /\ \A e \in Backends : Seen(e) => sinceOk[e] = 0
        /\ InFlight(b) =>
               /\ \A c \in Callers : waited[c] <= elapsed[b]
               /\ \A e \in Backends : Seen(e) => sinceOk[e] <= elapsed[b]

\* An answer of the round, and a result that has not expired, are recent.
Recent ==
    /\ \A b \in Backends : Seen(b) => sinceOk[b] <= ProbeTimeout
    /\ ok /\ age < TTL => \A b \in Backends : sinceOk[b] <= age + ProbeTimeout
    /\ \A c \in Callers : pc[c] = "unlock" => age < TTL

\* Between rounds only the callers of a fresh result have waited.
Served ==
    /\ \A c \in Callers : waited[c] <= ProbeTimeout /\ (pc[c] = "idle" => waited[c] = 0)
    /\ (\A c \in Callers : pc[c] # "wait") => \A c \in Callers : waited[c] > 0 => age < TTL

Timed == Held /\ Paced /\ Recent /\ Served

LEMMA TimedInit == Init => Timed
BY ReadinessAssumption
DEF Init, Timed, Held, Paced, Recent, Served, Seen, InFlight, MaxStale

LEMMA HeldNext == Inv /\ Timed /\ [Next]_vars => Held'
<1> SUFFICES ASSUME Inv, Timed, [Next]_vars PROVE Held'
  OBVIOUS
<1>1. TypeOK /\ TypeOK' /\ Exclusive /\ Held
  BY TypeNext DEF Inv, Timed
<1>2. ASSUME NEW c \in Callers, Call(c) \/ Result(c) PROVE Held'
  <2>1. CASE Call(c)
    BY <1>1, <2>1 DEF TypeOK, Held, Call, Goto, proberVars, probeVars
  <2>2. CASE Lock(c)
    BY <1>1, <2>2 DEF TypeOK, Held, Lock, Goto, probeVars
  <2>3. CASE Fresh(c) \/ Expired(c)
    BY <1>1, <2>3 DEF TypeOK, Held, Fresh, Expired, Goto, proberVars, probeVars
  <2>4. CASE RoundEnds(c)
    <3>1. \A d \in Callers : pc[d] = "wait" => d = c
      BY <1>1, <2>4 DEF Exclusive, RoundEnds
    <3> QED
      BY <1>1, <2>4, <3>1 DEF TypeOK, Held, RoundEnds, Goto
  <2>5. CASE Unlock(c)
    BY <1>1, <2>5 DEF TypeOK, Held, Unlock, Goto, probeVars
  <2> QED
    BY <1>2, <2>1, <2>2, <2>3, <2>4, <2>5 DEF Result
<1>3. ASSUME NEW b \in Backends, Probe(b) \/ Flip(b) PROVE Held'
  BY <1>1, <1>3
  DEF TypeOK, Held, Probe, ProbeStarts, ProbeAnswered, ProbeDrained,
      ProbeRefused, ProbeTimesOut, Flip, proberVars, probeVars
<1>4. CASE Tick
  BY <1>1, <1>4 DEF Held, Tick
<1>5. CASE UNCHANGED vars
  BY <1>1, <1>5 DEF Held, vars
<1> QED
  BY <1>2, <1>3, <1>4, <1>5 DEF Next

\* Time passes in a round only while a probe is in flight, and between rounds
\* only while nobody has asked.
LEMMA WhenTick ==
    ASSUME Inv, Timed, Tick
    PROVE  /\ \A b \in Backends : probe[b] # "spawned" /\ (InFlight(b) => elapsed[b] < ProbeTimeout)
           /\ \/ \E b \in Backends : InFlight(b)
              \/ /\ \A c \in Callers : pc[c] = "idle"
                 /\ \A b \in Backends : probe[b] = "none"
<1>1. \A b \in Backends : probe[b] # "spawned" /\ (InFlight(b) => elapsed[b] < ProbeTimeout)
  BY ReadinessAssumption DEF Tick, Busy, Expiring, Inv, TypeOK
<1>2. CASE \E c \in Callers : pc[c] = "wait"
  <2>1. PICK b \in Backends : probe[b] \notin {"ready", "failed", "none"}
    BY <1>2 DEF Tick, Busy, Through, Timed, Held
  <2>2. InFlight(b)
    BY <1>1, <2>1 DEF InFlight, Inv, TypeOK
  <2> QED
    BY <1>1, <2>2
<1>3. CASE \A c \in Callers : pc[c] # "wait"
  <2>1. mu = NoCaller
    BY <1>3 DEF Tick, Busy, Timed, Held, Inv, TypeOK
  <2>2. \A c \in Callers : pc[c] = "idle"
    BY <1>3, <2>1 DEF Tick, Busy, Inv, TypeOK
  <2> QED
    BY <1>1, <1>3, <2>2 DEF Inv, Settled
<1> QED
  BY <1>2, <1>3

LEMMA TickTimed == Inv /\ Timed /\ Tick => (Paced /\ Recent /\ Served)'
<1> SUFFICES ASSUME Inv, Timed, Tick PROVE (Paced /\ Recent /\ Served)'
  OBVIOUS
<1> USE ReadinessAssumption
<1>1. TypeOK /\ UNCHANGED <<mu, pc, ok, probe, healthy>>
  BY DEF Inv, Tick
<1>2. \A b \in Backends : probe[b] # "spawned" /\ (InFlight(b) => elapsed[b] < ProbeTimeout)
  BY WhenTick
<1>3. \/ \E b \in Backends : InFlight(b)
      \/ (\A c \in Callers : pc[c] = "idle") /\ \A b \in Backends : probe[b] = "none"
  BY WhenTick
<1>4. \A b \in Backends : InFlight(b) => elapsed'[b] = elapsed[b] + 1
  BY DEF Tick
<1>5. \A b \in Backends : sinceOk'[b] <= sinceOk[b] + 1
  BY <1>1 DEF Tick, Later, TypeOK, MaxStale
<1>6. \A c \in Callers : waited'[c] <= waited[c] + 1 /\ (pc[c] = "idle" => waited'[c] = 0)
  BY <1>1 DEF Tick, Later, TypeOK, MaxWait
<1>7. age' \in 0..TTL /\ (age' < TTL => age < TTL /\ age' = age + 1)
  BY <1>1 DEF Tick, Later, TypeOK
<1>8. /\ elapsed \in [Backends -> 0..ProbeTimeout] /\ sinceOk \in [Backends -> 0..MaxStale]
      /\ sinceOk' \in [Backends -> 0..MaxStale]
      /\ waited \in [Callers -> 0..MaxWait] /\ waited' \in [Callers -> 0..MaxWait]
      /\ age \in 0..TTL
  BY TypeNext DEF Inv, TypeOK, Next
<1>9. \A b \in Backends : (InFlight(b)' <=> InFlight(b)) /\ (Seen(b)' <=> Seen(b))
  BY <1>1 DEF InFlight, Seen
<1>10. Paced'
  BY <1>1, <1>2, <1>4, <1>5, <1>6, <1>8, <1>9 DEF Paced, Timed, MaxStale, MaxWait
<1>11. Recent'
  <2>1. \A b \in Backends : Seen(b) => sinceOk[b] < ProbeTimeout
    BY <1>2, <1>3, <1>8 DEF Timed, Paced, Seen, MaxStale
  <2>2. \A c \in Callers : pc[c] # "unlock"
    BY DEF Tick, Busy
  <2> QED
    BY <1>1, <1>5, <1>7, <1>8, <1>9, <2>1, <2>2 DEF Timed, Recent, MaxStale
<1>12. Served'
  <2>1. \A c \in Callers : waited'[c] <= ProbeTimeout
    BY <1>2, <1>3, <1>6, <1>8 DEF Timed, Paced, MaxWait
  <2>2. (\A c \in Callers : pc[c] # "wait") => \A c \in Callers : waited'[c] = 0
    BY <1>3, <1>6 DEF Inv, Settled, InFlight
  <2> QED
    BY <1>1, <1>6, <1>8, <2>1, <2>2 DEF Served
<1> QED
  BY <1>10, <1>11, <1>12

LEMMA TimedNext == Inv /\ Timed /\ [Next]_vars => Timed'
<1> SUFFICES ASSUME Inv, Timed, [Next]_vars PROVE Timed'
  OBVIOUS
<1> USE ReadinessAssumption
<1>1. TypeOK /\ TypeOK' /\ Exclusive /\ Settled /\ Paced /\ Recent /\ Served
  BY TypeNext DEF Inv, Timed
<1>2. ASSUME NEW c \in Callers, Call(c) \/ Result(c) PROVE (Paced /\ Recent /\ Served)'
  <2>1. CASE Call(c) \/ Lock(c) \/ Fresh(c)
    <3>1. UNCHANGED <<probeVars, age, ok>> /\ waited' \in [Callers -> 0..MaxWait]
      BY <1>1, <2>1 DEF Call, Lock, Fresh, proberVars, TypeOK
    <3>2. \A d \in Callers : waited'[d] <= waited[d] /\ (waited'[d] > 0 => waited[d] > 0)
      BY <1>1, <2>1 DEF Call, Lock, Fresh, TypeOK, MaxWait
    <3>3. \A d \in Callers : /\ pc'[d] = "idle" => waited'[d] = 0
                             /\ pc'[d] = "wait" <=> pc[d] = "wait"
                             /\ pc'[d] = "unlock" => pc[d] = "unlock" \/ age < TTL
      BY <1>1, <2>1 DEF Call, Lock, Fresh, Goto, TypeOK, Served
    <3>4. Paced'
      BY <1>1, <3>1, <3>2 DEF Paced, probeVars, Seen, InFlight, TypeOK, MaxWait
    <3>5. Recent' /\ Served'
      BY <1>1, <3>1, <3>2, <3>3 DEF Recent, Served, probeVars, Seen, TypeOK, MaxWait
    <3> QED
      BY <3>4, <3>5
  <2>2. CASE Expired(c)
    <3>1. \A d \in Callers : waited[d] = 0
      BY <1>1, <2>2 DEF Expired, Exclusive, Served, TypeOK, MaxWait
    <3>2. \A b \in Backends : probe'[b] = "spawned"
      BY <2>2 DEF Expired
    <3>3. Paced' /\ Recent'
      BY <1>1, <2>2, <3>1, <3>2 DEF Expired, Goto, proberVars, Paced, Recent, Seen, InFlight, TypeOK
    <3>4. Served'
      BY <1>1, <2>2, <3>1 DEF Expired, Goto, proberVars, Served, TypeOK
    <3> QED
      BY <3>3, <3>4
  <2>3. CASE RoundEnds(c)
    <3>1. \A b \in Backends : probe'[b] = "none"
      BY <2>3 DEF RoundEnds
    <3>2. ok' => \A b \in Backends : sinceOk[b] <= ProbeTimeout
      BY <1>1, <2>3 DEF RoundEnds, Recent, Seen
    <3>3. age' = 0 /\ UNCHANGED <<mu, elapsed, sinceOk, waited>> /\ Goto(c, "unlock")
      BY <2>3 DEF RoundEnds
    <3>4. Paced' /\ Recent'
      BY <1>1, <3>1, <3>2, <3>3 DEF Paced, Recent, Seen, InFlight, TypeOK, MaxStale
    <3>5. Served'
      BY <1>1, <3>3 DEF Goto, Served, TypeOK, MaxWait
    <3> QED
      BY <3>4, <3>5
  <2>4. CASE Unlock(c)
    <3>1. \A d \in Callers : waited'[d] <= waited[d] /\ (waited'[d] > 0 => waited[d] > 0)
      BY <1>1, <2>4 DEF Unlock, TypeOK, MaxWait
    <3>2. \A d \in Callers : /\ pc'[d] = "idle" => waited'[d] = 0
                             /\ pc'[d] = "wait" <=> pc[d] = "wait"
                             /\ pc'[d] = "unlock" => pc[d] = "unlock"
      BY <1>1, <2>4 DEF Unlock, Goto, TypeOK, Served
    <3>3. Paced'
      BY <1>1, <2>4, <3>1 DEF Unlock, Paced, probeVars, Seen, InFlight, TypeOK, MaxWait
    <3>4. Recent' /\ Served'
      BY <1>1, <2>4, <3>1, <3>2 DEF Unlock, Recent, Served, probeVars, Seen, TypeOK, MaxWait
    <3> QED
      BY <3>3, <3>4
  <2> QED
    BY <1>2, <2>1, <2>2, <2>3, <2>4 DEF Result
<1>3. ASSUME NEW b \in Backends, Probe(b) \/ Flip(b) PROVE (Paced /\ Recent /\ Served)'
  <2>1. UNCHANGED <<mu, pc, age, ok, waited>>
    BY <1>3 DEF Probe, ProbeStarts, ProbeAnswered, ProbeDrained, ProbeRefused, ProbeTimesOut,
                Flip, proberVars
  <2>2. Served'
    BY <1>1, <2>1 DEF Served
  <2>3. CASE Flip(b)
    BY <1>1, <2>1, <2>2, <2>3 DEF Flip, probeVars, Paced, Recent, Seen, InFlight
  <2>4. CASE ProbeStarts(b)
    <3>1. Paced'
      BY <1>1, <2>1, <2>4 DEF ProbeStarts, Paced, Seen, InFlight, TypeOK
    <3>2. Recent'
      BY <1>1, <2>1, <2>4 DEF ProbeStarts, Recent, Seen, TypeOK
    <3> QED
      BY <2>2, <3>1, <3>2
  <2>5. CASE ProbeAnswered(b)
    <3>1. Paced'
      BY <1>1, <2>1, <2>5 DEF ProbeAnswered, Paced, Seen, InFlight, TypeOK
    <3>2. Recent'
      BY <1>1, <2>1, <2>5 DEF ProbeAnswered, Recent, Seen, TypeOK, MaxStale
    <3> QED
      BY <2>2, <3>1, <3>2
  <2>6. CASE ProbeDrained(b) \/ ProbeRefused(b) \/ ProbeTimesOut(b)
    <3>1. Paced'
      BY <1>1, <2>1, <2>6
      DEF ProbeDrained, ProbeRefused, ProbeTimesOut, Paced, Seen, InFlight, TypeOK
    <3>2. Recent'
      BY <1>1, <2>1, <2>6 DEF ProbeDrained, ProbeRefused, ProbeTimesOut, Recent, Seen, TypeOK
    <3> QED
      BY <2>2, <3>1, <3>2
  <2> QED
    BY <1>3, <2>3, <2>4, <2>5, <2>6 DEF Probe
<1>4. ASSUME Tick PROVE (Paced /\ Recent /\ Served)'
  BY <1>4, TickTimed
<1>5. ASSUME UNCHANGED vars PROVE (Paced /\ Recent /\ Served)'
  BY <1>1, <1>5 DEF Paced, Recent, Served, Seen, InFlight, vars
<1>6. Held'
  BY HeldNext
<1> QED
  BY <1>2, <1>3, <1>4, <1>5, <1>6 DEF Next, Timed

LEMMA TimedAlways == Spec => [](Inv /\ Timed)
<1>1. Init => Inv /\ Timed
  BY InvInit, TimedInit
<1>2. Inv /\ Timed /\ [Next]_vars => Inv' /\ Timed'
  BY InvNext, TimedNext
<1> QED
  BY <1>1, <1>2, PTL DEF Spec

\* An answer 200 rests on a 2xx of every backend, seen less than
\* readinessTTL + probeTimeout ago.
THEOREM AnswersAreRecent == Spec => []OkIsRecent
<1>1. Inv /\ Timed => OkIsRecent
  BY ReadinessAssumption DEF Inv, TypeOK, Timed, Recent, OkIsRecent, MaxStale
<1> QED
  BY <1>1, TimedAlways, PTL

\* No caller waits for longer than probeTimeout, however many are queued.
THEOREM WaitsAreOneRound == Spec => []WaitIsOneRound
<1>1. Inv /\ Timed => WaitIsOneRound
  BY DEF Timed, Served, WaitIsOneRound
<1> QED
  BY <1>1, TimedAlways, PTL

=============================================================================
