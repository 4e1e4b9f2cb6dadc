--------------------------- MODULE BackendsProofs ---------------------------
(***************************************************************************)
(* Proofs about Backends, for any number of models, start limit and number *)
(* of events, with and without a startup order, strangers and faults.      *)
(***************************************************************************)
EXTENDS Backends, TLAPS

Active(m) == refresh[m] \in {"pruning", "resetting", "restarting"}

\* A queued refresh has its fetch before it, and an active one has it done.
Refreshes ==
    \A m \in Models :
        /\ m \in queuedR => m \in queuedF \/ fetch[m] \in {"running", "done"}
        /\ RefreshBusy(m) /\ fetch[m] = "done" /\ m \notin queuedF => m \in newer

\* Only a server that is down or waits to be started again is queued.
Queues == \A m \in Models : m \in queuedS => server[m] \in {"down", "backoff"}

\* The server of m has not been started since boot.
Unstarted(m) == m \in boot /\ m \in queuedS /\ server[m] = "down"

\* At boot every server has a job, and those after one that has not started
\* have not either.
Chained ==
    StartupOrdering /\ ~byHand =>
        \A m \in boot :
            /\ (m \in queuedS /\ server[m] = "down") \/ server[m] = "starting"
            /\ \A n \in Models : m < n => Unstarted(n)

Inv == TypeOK /\ Refreshes /\ Queues /\ Chained

LEMMA InvInit == Init => Inv
<1> SUFFICES ASSUME Init PROVE Inv
  OBVIOUS
<1>1. TypeOK
  <2>1. 0 \in 0..Burst /\ 0 \in 0..N /\ 0 \in 0..MaxEvents
    BY BackendsAssumption
  <2> QED
    BY <2>1 DEF Init, TypeOK
<1>2. Refreshes /\ Queues /\ Chained
  BY DEF Init, Refreshes, Queues, Chained, Unstarted, RefreshBusy
<1> QED
  BY <1>1, <1>2 DEF Inv

LEMMA JobType ==
    ASSUME Inv, NEW m \in Models, Job(m)
    PROVE  TypeOK'
<1> USE BackendsAssumption
<1>1. TypeOK /\ Refreshes /\ Queues
  BY DEF Inv
<1>2. CASE FetchStarts(m)
  BY <1>1, <1>2 DEF TypeOK, FetchStarts, run, counts
<1>3. CASE RefreshStarts(m)
  BY <1>1, <1>3 DEF TypeOK, Refreshes, RefreshStarts, FetchBusy, run, counts
<1>4. CASE Pruned(m)
  BY <1>1, <1>4 DEF TypeOK, Pruned, queues, run, counts
<1>5. CASE ResetFailed(m)
  BY <1>1, <1>5 DEF TypeOK, ResetFailed, queues, counts
<1>6. CASE TryRestart(m)
  BY <1>1, <1>6 DEF TypeOK, TryRestart, StopServer, counts
<1>7. CASE ServerStarts(m)
  BY <1>1, <1>7 DEF TypeOK, ServerStarts, StopServer, counts
<1>8. CASE Exited(m)
  BY <1>1, <1>8 DEF TypeOK, Exited, Failed, queues, counts
<1>9. CASE StartsAgain(m)
  BY <1>1, <1>9 DEF TypeOK, StartsAgain, QueueServer, units, run, counts
<1> QED
  BY <1>2, <1>3, <1>4, <1>5, <1>6, <1>7, <1>8, <1>9 DEF Job

LEMMA OtherType ==
    ASSUME Inv, NEW m \in Models, WaitHealthy(m) \/ Environment(m)
    PROVE  TypeOK'
<1> USE BackendsAssumption
<1>1. TypeOK
  BY DEF Inv
<1>2. CASE Check(m)
  BY <1>1, <1>2 DEF TypeOK, Check, Failed, units, queues, counts
<1>3. CASE ProbeAnswered(m)
  BY <1>1, <1>3 DEF TypeOK, ProbeAnswered, queues, counts
<1>4. CASE ProbeFails(m)
  BY <1>1, <1>4 DEF TypeOK, ProbeFails, units, queues, counts
<1>5. CASE FetchSucceeds(m)
  BY <1>1, <1>5 DEF TypeOK, FetchSucceeds, queues, run, counts
<1>6. CASE FetchFails(m)
  BY <1>1, <1>6 DEF TypeOK, FetchFails, run, counts
<1>7. CASE Serves(m)
  BY <1>1, <1>7 DEF TypeOK, Serves, units, queues, counts
<1>8. CASE Crash(m)
  BY <1>1, <1>8 DEF TypeOK, Crash, units, queues
<1>9. CASE StartTimesOut(m)
  BY <1>1, <1>9 DEF TypeOK, StartTimesOut, Failed, queues, counts
<1>10. CASE Start(m)
  BY <1>1, <1>10 DEF TypeOK, Start, Administers, QueueServer, units, run
<1>11. CASE Stop(m)
  BY <1>1, <1>11 DEF TypeOK, Stop, Administers, StopServer
<1>12. CASE Fetch(m)
  BY <1>1, <1>12 DEF TypeOK, Fetch, Administers, RestartFetcher, run
<1> QED
  BY <1>2, <1>3, <1>4, <1>5, <1>6, <1>7, <1>8, <1>9, <1>10, <1>11, <1>12
  DEF WaitHealthy, Environment

LEMMA TypeNext == Inv /\ [Next]_vars => TypeOK'
<1> SUFFICES ASSUME Inv, [Next]_vars PROVE TypeOK'
  OBVIOUS
<1> USE BackendsAssumption
<1>1. TypeOK
  BY DEF Inv
<1>2. CASE UpdateBegins
  BY <1>1, <1>2 DEF TypeOK, UpdateBegins, RestartFetcher, Models, run
<1>3. CASE UpdateProceeds
  <2>1. CASE update = N
    BY <1>1, <1>3, <2>1 DEF TypeOK, UpdateProceeds, run, counts
  <2>2. CASE update # N
    <3>1. update + 1 \in 0..N /\ update + 1 \in Models
      BY <1>1, <1>3, <2>2 DEF TypeOK, UpdateProceeds, Models
    <3> QED
      BY <1>1, <1>3, <2>2, <3>1 DEF TypeOK, UpdateProceeds, RestartFetcher, run, counts
  <2> QED
    BY <2>1, <2>2
<1>4. CASE UNCHANGED vars
  BY <1>1, <1>4 DEF TypeOK, vars, units, queues, run, counts
<1> QED
  BY <1>2, <1>3, <1>4, JobType, OtherType DEF Next

\* The steps that leave the jobs of fetchers and refreshes and what is newer alone.
LEMMA RefreshesKept ==
    ASSUME Refreshes, UNCHANGED <<fetch, refresh, queuedF, queuedR, newer>>
    PROVE  Refreshes'
BY DEF Refreshes, RefreshBusy

LEMMA RefreshesNext == Inv /\ [Next]_vars => Refreshes'
<1> SUFFICES ASSUME Inv, [Next]_vars PROVE Refreshes'
  OBVIOUS
<1>1. TypeOK /\ Refreshes
  BY DEF Inv
<1>2. ASSUME NEW m \in Models, Job(m) PROVE Refreshes'
  <2>1. CASE FetchStarts(m)
    BY <1>1, <2>1 DEF TypeOK, Refreshes, RefreshBusy, FetchStarts
  <2>2. CASE RefreshStarts(m) \/ Pruned(m) \/ ResetFailed(m) \/ TryRestart(m)
    <3>1. RefreshBusy(m) /\ queuedR' \in {queuedR, queuedR \ {m}} /\ UNCHANGED <<fetch, queuedF, newer>>
      BY <2>2
      DEF RefreshBusy, RefreshStarts, Pruned, ResetFailed, TryRestart, queues, run
    <3>2. \A n \in Models \ {m} : refresh'[n] = refresh[n]
      BY <1>1, <2>2 DEF TypeOK, RefreshStarts, Pruned, ResetFailed, TryRestart
    <3> QED
      BY <1>1, <3>1, <3>2 DEF Refreshes, RefreshBusy
  <2>3. CASE ServerStarts(m)
    <3>1. ~RefreshBusy(m) /\ newer' \in {newer, newer \ {m}}
          /\ UNCHANGED <<fetch, refresh, queuedF, queuedR>>
      BY <2>3 DEF ServerStarts, Before
    <3> QED
      BY <1>1, <3>1 DEF Refreshes, RefreshBusy
  <2>4. CASE StartsAgain(m)
    BY <1>1, <2>4 DEF TypeOK, Refreshes, RefreshBusy, StartsAgain, QueueServer, units
  <2>5. CASE Exited(m)
    BY <1>1, <2>5, RefreshesKept DEF Exited, Failed, queues
  <2> QED
    BY <1>2, <2>1, <2>2, <2>3, <2>4, <2>5 DEF Job
<1>3. ASSUME NEW m \in Models, WaitHealthy(m) \/ Environment(m) PROVE Refreshes'
  <2>1. CASE FetchSucceeds(m)
    BY <1>1, <2>1 DEF TypeOK, Refreshes, RefreshBusy, FetchSucceeds, queues
  <2>2. CASE FetchFails(m)
    BY <1>1, <2>2 DEF TypeOK, Refreshes, RefreshBusy, FetchFails
  <2>3. CASE Start(m)
    BY <1>1, <2>3 DEF TypeOK, Refreshes, RefreshBusy, Start, QueueServer, units
  <2>4. CASE Fetch(m)
    BY <1>1, <2>4 DEF TypeOK, Refreshes, RefreshBusy, Fetch, RestartFetcher
  <2>5. CASE Check(m) \/ ProbeAnswered(m) \/ ProbeFails(m) \/ Serves(m) \/ Crash(m)
             \/ StartTimesOut(m) \/ Stop(m)
    BY <1>1, <2>5, RefreshesKept
    DEF Check, ProbeAnswered, ProbeFails, Serves, Crash, StartTimesOut, Stop, Failed, units, queues
  <2> QED
    BY <1>3, <2>1, <2>2, <2>3, <2>4, <2>5 DEF WaitHealthy, Environment
<1>4. CASE UpdateBegins
  BY <1>1, <1>4 DEF TypeOK, Refreshes, RefreshBusy, UpdateBegins, RestartFetcher
<1>5. CASE UpdateProceeds
  BY <1>1, <1>5 DEF TypeOK, Refreshes, RefreshBusy, UpdateProceeds, RestartFetcher
<1>6. CASE UNCHANGED vars
  BY <1>1, <1>6, RefreshesKept DEF vars, units, queues
<1> QED
  BY <1>2, <1>3, <1>4, <1>5, <1>6 DEF Next

LEMMA QueuesNext == Inv /\ [Next]_vars => Queues'
<1> SUFFICES ASSUME Inv, [Next]_vars PROVE Queues'
  OBVIOUS
<1>1. TypeOK /\ Queues
  BY DEF Inv
<1>2. ASSUME NEW m \in Models, Job(m) PROVE Queues'
  <2>1. CASE FetchStarts(m) \/ RefreshStarts(m) \/ Pruned(m) \/ ResetFailed(m)
    BY <1>1, <2>1 DEF Queues, FetchStarts, RefreshStarts, Pruned, ResetFailed, queues
  <2>2. CASE TryRestart(m)
    BY <1>1, <2>2 DEF TypeOK, Queues, TryRestart, StopServer
  <2>3. CASE ServerStarts(m)
    BY <1>1, <2>3 DEF TypeOK, Queues, ServerStarts, StopServer
  <2>4. CASE StartsAgain(m)
    BY <1>1, <2>4 DEF Queues, StartsAgain, QueueServer, units
  <2>5. CASE Exited(m)
    BY <1>1, <2>5 DEF TypeOK, Queues, Exited, Failed, queues
  <2> QED
    BY <1>2, <2>1, <2>2, <2>3, <2>4, <2>5 DEF Job
<1>3. ASSUME NEW m \in Models, WaitHealthy(m) \/ Environment(m) PROVE Queues'
  <2>1. CASE Check(m) \/ StartTimesOut(m)
    BY <1>1, <2>1 DEF TypeOK, Queues, Check, StartTimesOut, Failed, units, queues
  <2>2. CASE ProbeAnswered(m)
    BY <1>1, <2>2 DEF TypeOK, Queues, ProbeAnswered, queues
  <2>3. CASE Start(m) \/ Fetch(m)
    BY <1>1, <2>3 DEF Queues, Start, QueueServer, Fetch, units
  <2>4. CASE Stop(m)
    BY <1>1, <2>4 DEF TypeOK, Queues, Stop, StopServer
  <2>5. CASE ProbeFails(m) \/ FetchSucceeds(m) \/ FetchFails(m) \/ Serves(m) \/ Crash(m)
    BY <1>1, <2>5 DEF Queues, ProbeFails, FetchSucceeds, FetchFails, Serves, Crash, units, queues
  <2> QED
    BY <1>3, <2>1, <2>2, <2>3, <2>4, <2>5 DEF WaitHealthy, Environment
<1>4. CASE UpdateBegins \/ UpdateProceeds \/ UNCHANGED vars
  BY <1>1, <1>4 DEF Queues, UpdateBegins, UpdateProceeds, vars, units, queues
<1> QED
  BY <1>2, <1>3, <1>4 DEF Next

\* A server that is started or leaves its start comes after all that are in boot.
LEMMA ChainedFirst ==
    ASSUME Inv, StartupOrdering, ~byHand, NEW m \in boot,
           server[m] = "starting" \/ (m \in queuedS /\ ~Before(m))
    PROVE  \A k \in boot : ~(k < m)
<1> SUFFICES ASSUME NEW k \in boot, k < m PROVE FALSE
  OBVIOUS
<1>1. TypeOK /\ Chained
  BY DEF Inv
<1>2. m \in Models /\ k \in Models /\ m \in Int /\ k \in Int
  BY <1>1, BackendsAssumption DEF TypeOK, Models
<1>3. Unstarted(m)
  BY <1>1, <1>2 DEF Chained
<1>4. m > 1 /\ ~ServerBusy(m - 1)
  BY <1>2, <1>3, BackendsAssumption DEF Unstarted, Before, Models
<1>5. CASE k = m - 1
  BY <1>1, <1>4, <1>5 DEF Chained, ServerBusy
<1>6. CASE k # m - 1
  <2>1. m - 1 \in Models /\ k < m - 1
    BY <1>2, <1>6, BackendsAssumption DEF Models
  <2> QED
    BY <1>1, <1>4, <2>1 DEF Chained, Unstarted, ServerBusy
<1> QED
  BY <1>5, <1>6

\* A step that leaves boot, the queue and the unstarted servers alone, or takes
\* the first server of boot, keeps the chain.
LEMMA ChainedKept ==
    ASSUME Inv, NEW m \in Models, byHand' = byHand, boot' \in {boot, boot \ {m}},
           \A n \in Models \ {m} : server'[n] = server[n] /\ (n \in queuedS => n \in queuedS'),
           StartupOrdering /\ ~byHand /\ m \in boot =>
               \/ server'[m] = server[m] /\ (m \in queuedS => m \in queuedS') /\ boot' = boot
               \/ /\ \A k \in boot : ~(k < m)
                  /\ m \in boot' => server'[m] = "starting"
    PROVE  Chained'
<1> SUFFICES ASSUME StartupOrdering, ~byHand, NEW k \in boot'
             PROVE  /\ ((k \in queuedS /\ server[k] = "down") \/ server[k] = "starting")'
                    /\ \A n \in Models : k < n => Unstarted(n)'
  BY DEF Chained, Unstarted
<1>1. TypeOK /\ Chained
  BY DEF Inv
<1>2. k \in boot /\ k \in Models /\ k \in Int /\ Models \subseteq Int
  BY <1>1, BackendsAssumption DEF TypeOK, Models
<1>3. ((k \in queuedS /\ server[k] = "down") \/ server[k] = "starting")'
  BY <1>1, <1>2 DEF Chained
<1>4. ASSUME NEW n \in Models, k < n PROVE Unstarted(n)'
  <2>1. Unstarted(n)
    BY <1>1, <1>2, <1>4 DEF Chained
  <2> QED
    BY <1>2, <1>4, <2>1 DEF Unstarted
<1> QED
  BY <1>3, <1>4

LEMMA ChainedNext == Inv /\ [Next]_vars => Chained'
<1> SUFFICES ASSUME Inv, [Next]_vars PROVE Chained'
  OBVIOUS
<1>1. TypeOK /\ Queues
  BY DEF Inv
<1>2. ASSUME NEW m \in Models, Job(m) PROVE Chained'
  <2>1. CASE FetchStarts(m) \/ RefreshStarts(m) \/ Pruned(m) \/ ResetFailed(m)
    BY <2>1, ChainedKept
    DEF FetchStarts, RefreshStarts, Pruned, ResetFailed, queues, run, counts
  <2>2. CASE TryRestart(m)
    <3>1. CASE server[m] = "down"
      BY <2>2, <3>1, ChainedKept DEF TryRestart, counts
    <3>2. CASE server[m] # "down"
      <4>1. StopServer(m) /\ queuedS' = queuedS \union {m} /\ byHand' = byHand
        BY <2>2, <3>2 DEF TryRestart, counts
      <4>2. StartupOrdering /\ ~byHand /\ m \in boot => \A k \in boot : ~(k < m)
        BY <3>2, ChainedFirst DEF Inv, Chained
      <4> QED
        BY <1>1, <4>1, <4>2, ChainedKept DEF StopServer, TypeOK
    <3> QED
      BY <3>1, <3>2
  <2>3. CASE ServerStarts(m)
    <3>1. StartupOrdering /\ ~byHand /\ m \in boot => \A k \in boot : ~(k < m)
      BY <2>3, ChainedFirst DEF ServerStarts
    <3>2. /\ byHand' = byHand /\ queuedS' = queuedS \ {m}
          /\ StopServer(m) \/ (boot' = boot /\ server' = [server EXCEPT ![m] = "starting"])
      BY <2>3 DEF ServerStarts, counts
    <3> QED
      BY <1>1, <3>1, <3>2, ChainedKept DEF StopServer, TypeOK
  <2>4. CASE StartsAgain(m)
    BY <2>4, ChainedKept DEF StartsAgain, QueueServer, units, run, counts
  <2>5. CASE Exited(m)
    <3>1. StartupOrdering /\ ~byHand /\ m \in boot => \A k \in boot : ~(k < m)
      BY <2>5 DEF Exited, Inv, Chained
    <3> QED
      BY <1>1, <2>5, <3>1, ChainedKept DEF Exited, Failed, TypeOK, queues, counts
  <2> QED
    BY <1>2, <2>1, <2>2, <2>3, <2>4, <2>5 DEF Job
<1>3. ASSUME NEW m \in Models, WaitHealthy(m) \/ Environment(m) PROVE Chained'
  <2>1. CASE server[m] = "starting" /\ UNCHANGED <<queuedS, byHand>> /\ boot' = boot \ {m}
             /\ \E s \in {"up", "backoff"} : server' = [server EXCEPT ![m] = s]
    <3>1. StartupOrdering /\ ~byHand /\ m \in boot => \A k \in boot : ~(k < m)
      BY <2>1, ChainedFirst
    <3> QED
      BY <1>1, <2>1, <3>1, ChainedKept DEF TypeOK
  <2>2. CASE (Check(m) /\ process[m] = "none") \/ ProbeAnswered(m) \/ StartTimesOut(m)
    BY <1>1, <2>1, <2>2
    DEF Check, ProbeAnswered, StartTimesOut, Failed, TypeOK, queues, counts
  <2>3. CASE (Check(m) /\ process[m] # "none") \/ ProbeFails(m) \/ FetchSucceeds(m)
             \/ FetchFails(m) \/ Serves(m) \/ Crash(m) \/ Fetch(m)
    BY <2>3, ChainedKept
    DEF Check, ProbeFails, FetchSucceeds, FetchFails, Serves, Crash, Fetch, units, queues, run, counts
  <2>4. CASE Start(m) \/ Stop(m)
    BY <2>4 DEF Start, Stop, Administers, Chained
  <2> QED
    BY <1>3, <2>2, <2>3, <2>4 DEF WaitHealthy, Environment
<1>4. CASE UpdateBegins \/ UpdateProceeds
  <2>1. 1 \in Models /\ UNCHANGED <<server, queuedS, boot, byHand>>
    BY <1>4, BackendsAssumption DEF UpdateBegins, UpdateProceeds, run, counts, Models
  <2> QED
    BY <2>1, ChainedKept
<1>5. CASE UNCHANGED vars
  <2>1. 1 \in Models /\ UNCHANGED <<server, queuedS, boot, byHand>>
    BY <1>5, BackendsAssumption DEF vars, units, queues, run, counts, Models
  <2> QED
    BY <2>1, ChainedKept
<1> QED
  BY <1>2, <1>3, <1>4, <1>5 DEF Next

LEMMA InvNext == Inv /\ [Next]_vars => Inv'
BY TypeNext, RefreshesNext, QueuesNext, ChainedNext DEF Inv

LEMMA InvAlways == Spec => []Inv
BY InvInit, InvNext, PTL DEF Spec

\* Every variable of the units keeps its type: a refresh only runs over a
\* download that is complete, and no server exceeds its start limit.
THEOREM TypeCorrect == Spec => []TypeOK
<1>1. Inv => TypeOK
  BY DEF Inv
<1> QED
  BY <1>1, InvAlways, PTL

\* At boot no server has a process before the first start of every one before
\* it has ended, for any number of models and whatever fails, as long as no
\* server is stopped or started by hand.
THEOREM BootIsInOrder == Spec => []BootLoadsInOrder
<1>1. Inv => BootLoadsInOrder
  <2> SUFFICES ASSUME Inv, StartupOrdering, ~byHand, NEW m \in boot, NEW n \in Models, m < n
               PROVE  process[n] = "none"
    BY DEF BootLoadsInOrder
  <2>1. server[n] = "down"
    BY DEF Inv, Chained, Unstarted
  <2> QED
    BY <2>1 DEF Inv, TypeOK
<1> QED
  BY <1>1, InvAlways, PTL

\* A refresh only ever restarts a server for a complete and newer download.
THEOREM RestartsAreForNewer == Spec => RestartMeansNewer
<1> DEFINE Newer == \A m \in Models :
        refresh[m] = "restarting" /\ server[m] # server'[m] /\ events' = events
        /\ m \in queuedS' => fetch[m] = "done" /\ m \in newer
<1>1. Inv /\ [Next]_vars => [Newer]_vars
  <2> SUFFICES ASSUME Inv, NEW m \in Models, refresh[m] = "restarting"
               PROVE  fetch[m] = "done" /\ m \in newer
    OBVIOUS
  <2> QED
    BY DEF Inv, TypeOK, Refreshes, RefreshBusy
<1> QED
  BY <1>1, InvAlways, PTL DEF Spec, RestartMeansNewer

\* A server that is down and has no job is only started by hand.
THEOREM StopsAreKept == Spec => StoppedStaysDown
<1> DEFINE Down == \A m \in Models :
        server[m] = "down" /\ m \notin queuedS /\ (server'[m] # "down" \/ m \in queuedS') =>
            Start(m)
<1>1. Inv /\ [Next]_vars => [Down]_vars
  <2> SUFFICES ASSUME Inv, Next, NEW m \in Models,
                      server[m] = "down", m \notin queuedS, server'[m] # "down" \/ m \in queuedS'
               PROVE  Start(m)
    OBVIOUS
  <2>1. TypeOK
    BY DEF Inv
  <2>2. ~UpdateBegins /\ ~UpdateProceeds
    BY DEF UpdateBegins, UpdateProceeds
  <2>3. ASSUME NEW n \in Models, Job(n) PROVE FALSE
    BY <2>1, <2>3
    DEF Job, FetchStarts, RefreshStarts, Pruned, ResetFailed, TryRestart, ServerStarts, Exited,
        StartsAgain, StopServer, QueueServer, Failed, queues, units, TypeOK
  <2>4. ASSUME NEW n \in Models, WaitHealthy(n) PROVE FALSE
    BY <2>1, <2>4
    DEF WaitHealthy, Check, ProbeAnswered, ProbeFails, Failed, queues, units, TypeOK
  <2>5. ASSUME NEW n \in Models, Environment(n), ~Start(n) PROVE FALSE
    BY <2>1, <2>5
    DEF Environment, FetchSucceeds, FetchFails, Serves, Crash, StartTimesOut, Stop, Fetch,
        StopServer, Failed, queues, units, TypeOK
  <2>6. PICK n \in Models : Start(n)
    BY <2>2, <2>3, <2>4, <2>5 DEF Next
  <2>7. m = n
    BY <2>6 DEF Start, QueueServer, units
  <2> QED
    BY <2>6, <2>7
<1> QED
  BY <1>1, InvAlways, PTL DEF Spec, StoppedStaysDown

=============================================================================
