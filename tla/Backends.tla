------------------------------ MODULE Backends ------------------------------
(***************************************************************************)
(* The units of a backend with N models on one machine, numbered in        *)
(* startup order (src/nix/modules/backends/common.nix and native.nix):     *)
(* for each model a fetcher, a refresh and a server, and one unit that     *)
(* updates them all; and `llmhop internal wait-healthy', which holds a     *)
(* server in `activating' (src/cmd/llmhop/worker.go, waitHealthy).         *)
(*                                                                         *)
(* systemd is external, and modelled as these units use it.  A unit waits  *)
(* with its job for every job, queued or running, of the units it is       *)
(* `After='.  `Wants=' and `Requires=' queue the jobs of other units, a    *)
(* failed start cancels the jobs that require it, and restarting a unit    *)
(* also stops those that require it.  A unit that is restarted stops at    *)
(* once and is then queued like one that is started.                       *)
(***************************************************************************)
EXTENDS Integers

CONSTANTS
    N,                  \* the models, in startup order
    StartupOrdering,    \* a server starts after the one before it
    Burst,              \* how many starts an hour allows
    Strangers,          \* another process may answer on the address of a server
    Faults,             \* something may fail, or be stopped or started by hand
    MaxEvents           \* bounds the crashes, the updates and what an administrator does

Models == 1 .. N

ASSUME BackendsAssumption ==
    /\ N \in Nat \ {0}
    /\ StartupOrdering \in BOOLEAN /\ Strangers \in BOOLEAN /\ Faults \in BOOLEAN
    /\ Burst \in Nat \ {0}
    /\ MaxEvents \in Nat

VARIABLES
    fetch,      \* the fetcher, which stays `done' once it has succeeded
    refresh,    \* the refresh and the command it is at
    server,     \* the server; "backoff" while it waits to be started again
    queuedF, queuedR, queuedS,  \* the units with a queued start
    process,    \* the main process of the server
    waiter,     \* where its wait-healthy is
    newer,      \* the models downloaded again since their server has started
    starts,     \* the starts within an hour, that count towards the limit
    boot,       \* the servers whose start at boot has not ended
    update,     \* the model whose fetcher the update waits for, or 0
    events,     \* how many crashes, updates and commands of an administrator there were
    byHand      \* whether an administrator has stopped or started a server

units == <<fetch, refresh, server>>
queues == <<queuedF, queuedR, queuedS>>
run == <<process, waiter, starts, boot>>
counts == <<events, byHand>>
vars == <<units, queues, run, newer, update, counts>>

TypeOK ==
    /\ fetch \in [Models -> {"inactive", "running", "done", "failed"}]
    /\ refresh \in [Models -> {"inactive", "pruning", "resetting", "restarting", "failed"}]
    /\ server \in [Models -> {"down", "starting", "up", "backoff"}]
    /\ queuedF \subseteq Models /\ queuedR \subseteq Models /\ queuedS \subseteq Models
    /\ process \in [Models -> {"none", "loading", "serving"}]
    /\ waiter \in [Models -> {"none", "check", "probe"}]
    /\ newer \subseteq Models
    /\ starts \in [Models -> 0 .. Burst]
    /\ boot \subseteq Models
    /\ update \in 0 .. N
    /\ events \in 0 .. MaxEvents /\ byHand \in BOOLEAN
    /\ \A m \in Models :
           /\ server[m] = "starting" <=> waiter[m] # "none"
           /\ server[m] \in {"down", "backoff"} => process[m] = "none"
           /\ refresh[m] \in {"pruning", "resetting", "restarting"} => fetch[m] = "done" /\ m \notin queuedF

-----------------------------------------------------------------------------
(* Jobs. *)

\* At boot every server is wanted, and wants its fetcher, which wants its refresh.
Init ==
    /\ fetch = [m \in Models |-> "inactive"]
    /\ refresh = [m \in Models |-> "inactive"]
    /\ server = [m \in Models |-> "down"]
    /\ queuedF = Models /\ queuedR = Models /\ queuedS = Models
    /\ process = [m \in Models |-> "none"]
    /\ waiter = [m \in Models |-> "none"]
    /\ newer = {}
    /\ starts = [m \in Models |-> 0]
    /\ boot = Models /\ update = 0
    /\ events = 0 /\ byHand = FALSE

FetchBusy(m) == m \in queuedF \/ fetch[m] = "running"
RefreshBusy(m) == m \in queuedR \/ refresh[m] \in {"pruning", "resetting", "restarting"}

\* Fault: without wait-healthy, a server has started as soon as its process runs.
ServerBusyFault(m) == m \in queuedS

ServerBusy(m) == m \in queuedS \/ server[m] = "starting"

\* Fault: the server is not ordered after the refresh.
BeforeFault(m) ==
    FetchBusy(m) \/ (StartupOrdering /\ m > 1 /\ ServerBusy(m - 1))

\* The units before the server of m in fetchOrder and the chain have no jobs.
Before(m) ==
    FetchBusy(m) \/ RefreshBusy(m) \/ (StartupOrdering /\ m > 1 /\ ServerBusy(m - 1))

\* A start of the server of m is queued, and of the fetcher it wants unless that is active.
QueueServer(m) ==
    /\ queuedS' = queuedS \union {m}
    /\ IF fetch[m] \in {"inactive", "failed"} /\ m \notin queuedF
       THEN queuedF' = queuedF \union {m} /\ queuedR' = queuedR \union {m}
       ELSE UNCHANGED <<queuedF, queuedR>>

-----------------------------------------------------------------------------
(* The fetcher and the refresh. *)

FetchStarts(m) ==
    /\ m \in queuedF
    /\ queuedF' = queuedF \ {m}
    /\ fetch' = [fetch EXCEPT ![m] = "running"]
    /\ UNCHANGED <<refresh, server, queuedR, queuedS, run, newer, update, counts>>

FetchSucceeds(m) ==
    /\ fetch[m] = "running"
    /\ fetch' = [fetch EXCEPT ![m] = "done"]
    /\ newer' = newer \union {m}
    /\ UNCHANGED <<refresh, server, queues, run, update, counts>>

\* Fault: the refresh only follows the fetcher and does not require it.
FetchFailsFault(m) ==
    /\ Faults /\ fetch[m] = "running"
    /\ fetch' = [fetch EXCEPT ![m] = "failed"]
    /\ UNCHANGED <<refresh, server, queues, run, newer, update, counts>>

\* The refresh requires the fetcher; the server does not.
FetchFails(m) ==
    /\ Faults /\ fetch[m] = "running"
    /\ fetch' = [fetch EXCEPT ![m] = "failed"]
    /\ queuedR' = queuedR \ {m}
    /\ UNCHANGED <<refresh, server, queuedF, queuedS, run, newer, update, counts>>

\* `systemctl restart' of the fetcher, which stops and queues the refresh.
RestartFetcher(m) ==
    /\ fetch' = [fetch EXCEPT ![m] = "inactive"]
    /\ refresh' = [refresh EXCEPT ![m] = "inactive"]
    /\ queuedF' = queuedF \union {m} /\ queuedR' = queuedR \union {m}

RefreshStarts(m) ==
    /\ m \in queuedR /\ ~FetchBusy(m)
    /\ queuedR' = queuedR \ {m}
    /\ refresh' = [refresh EXCEPT ![m] = "pruning"]
    /\ UNCHANGED <<fetch, server, queuedF, queuedS, run, newer, update, counts>>

\* Without a prune the server is not restarted.
Pruned(m) ==
    /\ refresh[m] = "pruning"
    /\ \E s \in {"resetting"} \union (IF Faults THEN {"failed"} ELSE {}) :
           refresh' = [refresh EXCEPT ![m] = s]
    /\ UNCHANGED <<fetch, server, queues, run, newer, update, counts>>

ResetFailed(m) ==
    /\ refresh[m] = "resetting"
    /\ refresh' = [refresh EXCEPT ![m] = "restarting"]
    /\ starts' = [starts EXCEPT ![m] = 0]
    /\ UNCHANGED <<fetch, server, queues, process, waiter, boot, newer, update, counts>>

\* The server of m is stopped, and with it wait-healthy.
StopServer(m) ==
    /\ server' = [server EXCEPT ![m] = "down"]
    /\ process' = [process EXCEPT ![m] = "none"]
    /\ waiter' = [waiter EXCEPT ![m] = "none"]
    /\ boot' = boot \ {m}

\* Fault: the server is restarted whether it runs or not.
TryRestartFault(m) ==
    /\ refresh[m] = "restarting"
    /\ refresh' = [refresh EXCEPT ![m] = "inactive"]
    /\ StopServer(m)
    /\ queuedS' = queuedS \union {m}
    /\ UNCHANGED <<fetch, queuedF, queuedR, starts, newer, update, counts>>

\* Fault: only a server that is up is restarted.
TryRestartUpFault(m) ==
    /\ refresh[m] = "restarting"
    /\ refresh' = [refresh EXCEPT ![m] = "inactive"]
    /\ IF server[m] # "up" THEN UNCHANGED <<server, queuedS, process, waiter, boot>>
       ELSE StopServer(m) /\ queuedS' = queuedS \union {m}
    /\ UNCHANGED <<fetch, queuedF, queuedR, starts, newer, update, counts>>

\* A server that is down stays down, one that is loading or waits to be is restarted.
TryRestart(m) ==
    /\ refresh[m] = "restarting"
    /\ refresh' = [refresh EXCEPT ![m] = "inactive"]
    /\ IF server[m] = "down" THEN UNCHANGED <<server, queuedS, process, waiter, boot>>
       ELSE StopServer(m) /\ queuedS' = queuedS \union {m}
    /\ UNCHANGED <<fetch, queuedF, queuedR, starts, newer, update, counts>>

-----------------------------------------------------------------------------
(* The server. *)

\* The queued start begins, or fails at the limit.
ServerStarts(m) ==
    /\ m \in queuedS /\ ~Before(m)
    /\ queuedS' = queuedS \ {m}
    /\ IF starts[m] = Burst
       THEN /\ StopServer(m)
            /\ UNCHANGED <<newer, starts>>
       ELSE /\ server' = [server EXCEPT ![m] = "starting"]
            /\ process' = [process EXCEPT ![m] = "loading"]
            /\ waiter' = [waiter EXCEPT ![m] = "check"]
            /\ newer' = newer \ {m}
            /\ starts' = [starts EXCEPT ![m] = @ + 1]
            /\ UNCHANGED boot
    /\ UNCHANGED <<fetch, refresh, queuedF, queuedR, update, counts>>

Serves(m) ==
    /\ process[m] = "loading"
    /\ process' = [process EXCEPT ![m] = "serving"]
    /\ UNCHANGED <<units, queues, waiter, starts, boot, newer, update, counts>>

Crash(m) ==
    /\ Faults /\ process[m] # "none" /\ events < MaxEvents
    /\ process' = [process EXCEPT ![m] = "none"]
    /\ events' = events + 1
    /\ UNCHANGED <<units, queues, waiter, starts, boot, newer, update, byHand>>

\* The start or the run of the server has failed; it is started again later.
Failed(m) ==
    /\ server' = [server EXCEPT ![m] = "backoff"]
    /\ process' = [process EXCEPT ![m] = "none"]
    /\ waiter' = [waiter EXCEPT ![m] = "none"]
    /\ boot' = boot \ {m}
    /\ UNCHANGED <<fetch, refresh, queues, starts, newer, update, counts>>

\* Fault: wait-healthy polls until the server answers.
CheckFault(m) ==
    /\ waiter[m] = "check"
    /\ waiter' = [waiter EXCEPT ![m] = "probe"]
    /\ UNCHANGED <<units, queues, process, starts, boot, newer, update, counts>>

\* The loop of wait-healthy sends a signal to the process, and probes it if it exists.
Check(m) ==
    /\ waiter[m] = "check"
    /\ \/ process[m] = "none" /\ Failed(m)
       \/ /\ process[m] # "none"
          /\ waiter' = [waiter EXCEPT ![m] = "probe"]
          /\ UNCHANGED <<units, queues, process, starts, boot, newer, update, counts>>

\* The probe is answered in time, perhaps by a stranger, and the start has ended.
ProbeAnswered(m) ==
    /\ waiter[m] = "probe"
    /\ process[m] = "serving" \/ Strangers
    /\ waiter' = [waiter EXCEPT ![m] = "none"]
    /\ server' = [server EXCEPT ![m] = "up"]
    /\ boot' = boot \ {m}
    /\ UNCHANGED <<fetch, refresh, queues, process, starts, newer, update, counts>>

\* The probe fails or takes more than ten seconds, and is repeated after one.
ProbeFails(m) ==
    /\ waiter[m] = "probe"
    /\ waiter' = [waiter EXCEPT ![m] = "check"]
    /\ UNCHANGED <<units, queues, process, starts, boot, newer, update, counts>>

StartTimesOut(m) == Faults /\ server[m] = "starting" /\ Failed(m)

Exited(m) == server[m] = "up" /\ process[m] = "none" /\ Failed(m)

\* `Restart=always', after RestartSec.
StartsAgain(m) ==
    /\ server[m] = "backoff" /\ m \notin queuedS
    /\ QueueServer(m)
    /\ UNCHANGED <<units, run, newer, update, counts>>

-----------------------------------------------------------------------------
(* The update and the administrator. *)

UpdateBegins ==
    /\ update = 0 /\ events < MaxEvents
    /\ events' = events + 1
    /\ update' = 1 /\ RestartFetcher(1)
    /\ UNCHANGED <<server, queuedS, run, newer, byHand>>

\* Whether the fetcher has succeeded or failed, the next one follows.
UpdateProceeds ==
    /\ update > 0 /\ ~FetchBusy(update)
    /\ IF update = N THEN update' = 0 /\ UNCHANGED <<fetch, refresh, queuedF, queuedR>>
       ELSE update' = update + 1 /\ RestartFetcher(update + 1)
    /\ UNCHANGED <<server, queuedS, run, newer, counts>>

Administers == Faults /\ events < MaxEvents /\ events' = events + 1

Start(m) ==
    /\ Administers /\ byHand' = TRUE
    /\ server[m] = "down" /\ m \notin queuedS
    /\ QueueServer(m)
    /\ UNCHANGED <<units, run, newer, update>>

Stop(m) ==
    /\ Administers /\ byHand' = TRUE
    /\ server[m] # "down" \/ m \in queuedS
    /\ StopServer(m) /\ queuedS' = queuedS \ {m}
    /\ UNCHANGED <<fetch, refresh, queuedF, queuedR, starts, newer, update>>

Fetch(m) ==
    /\ Administers /\ UNCHANGED byHand
    /\ RestartFetcher(m)
    /\ UNCHANGED <<server, queuedS, run, newer, update>>

Job(m) ==
    FetchStarts(m) \/ RefreshStarts(m) \/ Pruned(m) \/ ResetFailed(m) \/ TryRestart(m)
    \/ ServerStarts(m) \/ Exited(m) \/ StartsAgain(m)

WaitHealthy(m) == Check(m) \/ ProbeAnswered(m) \/ ProbeFails(m)

Environment(m) ==
    FetchSucceeds(m) \/ FetchFails(m) \/ Serves(m) \/ Crash(m) \/ StartTimesOut(m)
    \/ Start(m) \/ Stop(m) \/ Fetch(m)

Next ==
    \/ UpdateBegins \/ UpdateProceeds
    \/ \E m \in Models : Job(m) \/ WaitHealthy(m) \/ Environment(m)

Spec == Init /\ [][Next]_vars

\* systemd runs every job it can, and wait-healthy runs on; but a download or
\* a model may take for ever, and so may the wait for one.
FairSpec ==
    Spec /\ WF_vars(UpdateProceeds) /\ \A m \in Models : WF_vars(Job(m)) /\ WF_vars(WaitHealthy(m))

-----------------------------------------------------------------------------
(* Properties. *)

\* With startupOrdering (chain) the first starts at boot are in order, whatever
\* is fetched, crashes or times out meanwhile, as long as nobody stops or starts
\* a server by hand: no server has a process before the first start of every
\* one before it has ended.  One whose first start has failed has left the
\* order: `Restart=always' starts it again beside those that load by then, so
\* two may load at once, against the comment of chain.
BootLoadsInOrder ==
    StartupOrdering /\ ~byHand =>
        \A m \in boot, n \in Models : m < n => process[n] = "none"

\* An update without any failure has the servers that have started before load
\* one at a time: "the server restarts queue in that order too and keep to the
\* startup chain" (maintenanceServices).  A first start at boot may still run.
UpdateKeepsChain ==
    StartupOrdering =>
        \A m, n \in Models \ boot : process[m] = "loading" /\ process[n] = "loading" => m = n

\* A refresh takes a server down only for a complete download that is newer
\* than what it has loaded: a start that a fetch has preceded is never undone
\* by the refresh of that fetch.
RestartMeansNewer ==
    [][\A m \in Models :
        refresh[m] = "restarting" /\ server[m] # server'[m] /\ events' = events
        /\ m \in queuedS' =>
            fetch[m] = "done" /\ m \in newer]_vars

\* A server that was stopped, or has come to its start limit, is down until
\* somebody starts it, whatever is fetched and refreshed meanwhile.
StoppedStaysDown ==
    [][\A m \in Models :
        server[m] = "down" /\ m \notin queuedS /\ (server'[m] # "down" \/ m \in queuedS') =>
            Start(m)]_vars

\* What has been fetched is loaded by a server that is up, unless the prune
\* fails or the next fetch begins, or the server goes down or is held by the
\* one before it.
FetchedIsServed ==
    \A m \in Models :
        server[m] = "up" /\ fetch[m] = "done" /\ m \in newer ~>
            \/ m \notin newer
            \/ fetch[m] # "done" \/ refresh[m] = "failed"
            \/ server[m] = "down" /\ m \notin queuedS
            \/ m > 1 /\ ServerBusy(m - 1)

\* "A crashed server does not stay activating until the timeout": wait-healthy
\* ends once the process has, whoever answers in its place.
ExitEndsStart ==
    \A m \in Models : server[m] = "starting" /\ process[m] = "none" ~> server[m] # "starting"

=============================================================================
