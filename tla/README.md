# A verification of llmhop in TLA+

llmhop is a reverse proxy that puts many single-model inference servers (llama.cpp,
vLLM, SGLang, ...) behind one OpenAI-compatible endpoint, with NixOS modules that run
those servers and fetch their models. This directory holds a specification of the
parts of it that act concurrently or over several steps, the TLC runs that check small
instances, and proofs for every instance.

Contents: [inventory](#1-inventory), [modules](#2-modules),
[runs](#3-runs-bounds-and-what-they-show), [fairness](#4-fairness),
[proofs](#5-proofs), [findings](#6-where-code-and-documentation-disagree),
[not modelled](#7-what-is-not-modelled), [plan](#8-plan),
[how to run](#9-how-to-run).

## 1. Inventory

All paths are relative to the repository. `PROJECT.json` repeats the components under
`components`, and under `hazards` lists what is hard to test, each at its line.

### 1.1 Proxy handler — `internal/router/router.go`, `errors.go`

One goroutine per request, started by `net/http`.

| state | kind | shared by |
|---|---|---|
| `budget.free` | `atomic.Int64`, bytes of `maxBufferedBytes` left | all requests |
| `slots` of a model | buffered channel, one value per request being proxied | the requests to that model |
| `replayBody.buf` | `atomic.Pointer`, the buffered body | handler, transport's connection goroutine |
| `replayBody.drop` | `sync.OnceFunc` | the same two |
| `chargedReader.n` | bytes this request has taken | the handler alone |

Operations: authenticate (401); refuse a declared length over `maxBodyBytes` (413);
route by path (`/route/<model>/...`, body streamed) or by the `model` of a JSON body
(body buffered under a read deadline, charged chunk by chunk: 413, 503, 408, 400);
look the model up (404); take a slot without waiting (429); reverse-proxy it, resending
a buffered body on a fresh connection as long as no response byte has arrived (502 when
the round trip fails); release slot and bytes on every way out.

Interactions: `net/http`'s server calls the handler; `httputil.ReverseProxy` and
`http.Transport` call back `GetBody` (`replayBody.open`) and `GotFirstResponseByte`
(`replayBody.drop`) from goroutines of their own.

Hard: the compare-and-swap loop; the two callers of `drop`; failure at any chunk of a
body; a retry racing the first response byte; a body outliving its reservation; limits
of zero meaning "unlimited"; clients and backends that stall.

Correct when: no byte and no slot is lost or counted twice; what may be sent again is
reserved; a long response reserves nothing; nothing is sent again once it is being
answered; nobody is refused without cause and nobody waits for another request.

### 1.2 Readiness prober — `internal/router/readiness.go`, `internal/upstream/upstream.go`

State: the last result and the time it ended, under one mutex that is *held while the
backends are probed*; per round one goroutine and one deadline per backend.
Operations: answer from the last round if it is younger than `readinessTTL`; else probe
every backend with a health path, in parallel, each for at most `probeTimeout`.
Hard: many callers during a round, backends that change state, never answer, or answer
and never end the body. Correct when: rounds do not overlap and are a TTL apart; a 200
is backed by recent 2xx answers; a caller waits for one round at most.

### 1.3 Routing, catalog, health — `internal/router/router.go`, `models.go`

State: none after start; the table of backends and the catalog are built from the
configuration once. Operations: answer `/health`; authenticate; list and retrieve models
(`/v1/models`); find the backend of a request by its path (`routeModel`, the longest prefix
that names a model) or by the model of its body, and rewrite what it is sent.
Hard: one name is validated once and matched in three ways, in escaped and decoded form;
an escape in the prefix, an escaped slash, an empty segment or dots; the credential of
the client must not reach a backend. Correct when every configured model is reached by
its name and by nothing else, with the rest of the path as it was written.

### 1.4 Upstream — `internal/upstream/upstream.go`

Parses backend URLs (TCP, HTTP, Unix sockets) into a target and a transport. No state.

### 1.5 Serve lifecycle — `cmd/llmhop/main.go`, `internal/systemd/*.go`

State: sockets passed by systemd (`LISTEN_FDS`) or bound by the process, one `Serve`
goroutine per listener, an error channel, a signal context, the notification socket.
Operations: bind all or none (removing a stale socket file), notify `READY=1`, serve,
on SIGTERM or SIGINT drain; on an error of one listener exit.
Hard: partial bind, order of notification and serving, drain against requests that do
not end and connections that have been upgraded, failure of one of several listeners.

### 1.6 Configuration and secrets — `internal/config/config.go`, `internal/secrets/secrets.go`

No state of its own, but two programs over one file: `check` validates its text when a
machine is built, `serve` the text after `${NAME}` expansion when it runs, both going
through Go maps in random order. Hard: a value may become empty or invalid only by its
expansion; two spellings of a header; what one command accepts and the other refuses.
Correct when `serve` accepts nothing that `check` refuses (but for the bytes of a reference,
section 6), refuses what `check` accepts only for its secrets, and what is served does not
depend on the order of a map.

### 1.7 Hub cache pruning — `internal/hubcache/hubcache.go`

State: the files of a shared cache (references, snapshots with links to blobs, blobs, a
shared blob store that blob entries may point to, locks). Operation: walk it, delete the
references no revision names, the snapshots no remaining reference or revision pins,
stale repositories with their locks, dangling links, then the blobs no snapshot links to.
Hard: killed after any file and run again over the rest; blobs shared between snapshots
and repositories; directories that a user has replaced by symlinks; what is deleted first
decides what a later run can still read. Correct when no run, complete or not, breaks
what is configured, and a complete one leaves nothing else; a user who moves directories
elsewhere can move them out of its reach (section 6).

### 1.8 Worker commands — `cmd/llmhop/worker.go`

`wait-healthy` holds a server's start until it answers: in a loop it looks whether the
server's main process exists and probes its address. `hub-prune` runs 1.7 after a
download. Hard: the process exits while its address is polled, and another answers there.

### 1.9 Backend lifecycle — `nix/modules/backends/{common,native,container}.nix`, `nix/modules/lib.nix`

State: systemd units per model (fetch, refresh, server), ordered in a chain, and one that
updates all. Operations: fetch before the first start; after each complete fetch prune,
reset the start counter and `try-restart` the server; update one model after the other;
restart a crashed server, at most so many times an hour. Hard: failures and stops between
any two steps, jobs queued and cancelled by other jobs, which job waits for which. Correct
when the first starts at boot are one at a time and in order, a running server goes down
only for something newer, one that was stopped stays down, and what is fetched gets served.

### 1.10 Options, gateways, packaging — the rest of `nix/`

Evaluated at build time: translation of options, assertions about ports and GPUs,
package builds, VM tests. No state at run time.

## 2. Modules

```
Admission            abstract: a shared reservation of bytes, admission to models
   ^  A == INSTANCE Admission WITH ...
ProxyHandler         1.1, every atomic operation of the handler
   ^ EXTENDS                     ^ EXTENDS
MCProxyHandler (TLC)         ProxyHandlerProofs  <- AdmissionProofs
Readiness            1.2, 1.4
   ^ EXTENDS                     ^ EXTENDS
MCReadiness (TLC)            ReadinessProofs
Serve                1.5
   ^ EXTENDS                     ^ EXTENDS
MCServe (TLC)                ServeProofs
Config               1.4, 1.6: check and serve load a file
   ^ EXTENDS
Router               1.3: the handler built from it answers requests
   ^ EXTENDS                     ^ EXTENDS
MCRouter (TLC)               RouterProofs  -> SequenceLemmas (what FlattenSeq returns)
Collector            abstract: what pruning promises
   ^  C == INSTANCE Collector WITH ...
HubCache             1.7, 1.8: the prune, entry by entry, and its fetcher
   ^ EXTENDS                     ^ EXTENDS
MCHubCache (TLC)             HubCacheProofs
Backends             1.8, 1.9: units of a machine and wait-healthy
   ^ EXTENDS                     ^ EXTENDS
MCBackends (TLC)             BackendsProofs
```

`Router` is the composition of configuration and handler: the configuration that
`Config` loads is the one whose requests it answers. Otherwise the parts share no state:
`Serve` knows of a request only that its handler runs, the prober is a handler of its own
with a mutex of its own, `ProxyHandler` takes over where `Router` has found a backend,
and `Backends` knows of a prune only that it ends or fails, which is what `HubCache`
models of it.

### ProxyHandler

A request is one element of `Requests`, sent once; a client that tries again is another
element. One action is one atomic operation on shared state with the goroutine-local
computation around it, so `take`'s load and its compare-and-swap are two actions
(`TakeLoad`, `TakeSwap`/`TakeRetry`), and `drop` is two (`DropBegins` stores nil,
`DropEnds` gives the bytes back), each possible for both callers. `map` in
`PROJECT.json` gives the lines of every definition. In short:

| code | model |
|---|---|
| `budget.free`, `len(slots)` | `free`, `used[m]` |
| the handler's program counter and status | `pc[r]`, `status[r]` |
| `chargedReader.n` and its `Read` in progress | `charged[r]`, `chunk[r]`, `err[r]`, `seen[r]` |
| `replayBody.buf`, the `OnceFunc` | `buf[r]`, `once[r]` (who runs it) |
| readers returned by `open` | `attempts[r]`, `unread[r]` (those not at EOF) |
| `authMiddleware`, head of `proxyHandler` | `Arrive` |
| `readBody`, `chargedReader.Read`, `budget.take` | `ReadData`, `ReadEnd`, `ReadTimeout`, `ReadFails`, `Take*` |
| `bodyModel` after the read | `ParseFails`, `Parsed`, `Refund` |
| `acquire`, its release | `Saturated`, `Acquire`, `Unslot` |
| reverse proxy and transport (external) | `BodySent`, `Resend`, `RoundTripFails`, `StreamTooLarge`, `Response`, `StreamEnds` |
| `GotFirstResponseByte`, deferred release | `HookDrops/HookDropped`, `HandlerDrops/HandlerDropped` |

Data are reduced to what the handler tells requests apart by (`Shape`): authorised or
not, route, model, size, whether the length is declared, what the JSON parser makes of
the body. Sizes are small numbers of bytes and a `Read` returns any part of what is
left, so every split of a body into chunks occurs. The transport is external: it may
open the body again while it has no response, fail at any time, deliver a first
response byte even for a round trip already given up, and answer before the body is
read.

`chunk[r]` is set to zero once it is charged and not when the code's variable `n` goes
out of scope; the two are the same instant.

### Admission

What the handler promises: bytes are reserved within the budget and given back exactly
once, in one step; a request is admitted to a model below its limit, in one step. The
refinement maps a request's reservation to the bytes it owes (`Owes`): what it has taken
until its refund or its `drop`. `ImplementsAdmission` is the abstract specification as a
property of the detailed one.

### Readiness

Callers, the mutex, the round and one probe per backend. Time is discrete and kept as
durations, capped where more makes no difference. **Assumption:** steps of the program
take no time, i.e. `Tick` is enabled only while nobody can run (`Busy`); the real times
differ from the stated bounds by the time the program itself needs. The choice between
a deadline and an answer that become ready at the same instant is open.

### Serve

The process as the machine sees it, over several runs. The main goroutine is `pc`, from
`listeners()` (`Remove`, `Bind`, entry by entry) over `Catch` (`signal.NotifyContext`),
`Notify` and `Spawn` to `select`, and from there to the end by an error or through
`Stop`, `Shutdown` and `Drained`. `lis[i]` is the listener of entry `i`, `file[u]` whose
socket a path leads to: that of a listener, one left by an earlier run (`Stale`), or none.
Closing a listener unlinks its *path*, as Go's `UnixListener` does, whichever socket is
there. `conn[c]` is a connection with the states `http.Server` has for it: in the
backlog, idle (new or between requests), active, upgraded (hijacked, no longer
tracked), and how it ended. The environment signals, crashes the process, lets a listener
fail, and makes addresses unusable (`obstructed`). Every start may find another
configuration, so that files left by one configuration meet the next.

`http.Server`, the kernel and systemd are external: what their documentation promises
and `main.go` relies on.

### Config and Router

`Config` loads one file twice, with `check` and then with `serve`. The loops of
`Config.validate` and `router.New` are `phase`, the names a loop has not visited are
`todo` and `headers`, and a loop takes any of them next, as Go visits a map; it stops at
the first error (`Refuse`). `tokens`, `values` and `backends` are what it has built. The
text of a token or a header is the sequence of what `os.Expand` tells apart (text, `$$`,
a reference to a secret, a malformed or an unknown one, a control character); its value is
the sequence of the characters each stands for. `check` leaves a reference as it is written
(`Raw`), and the argument of one in `Unprintable` holds a byte that no header may contain.
So `ServedWasChecked` has an exception for files with such a reference (`SomeUnprintable`;
section 6). Addresses, URLs and health paths are
members of sets of the forms that their parsers tell apart. Decoding the JSON succeeds
or fails.

`Router` answers requests once the file is served. A path is the sequence of its segments as
they are written, a segment the sequence of its pieces between escaped slashes, and `Text`
says what a written piece stands for, so an escaped letter, an escaped slash, empty segments
and dots are all told apart. The plain spelling of a text, which is that of
`url.PathEscape`, goes by the name of the text; any other has a name of its own. What
`http.ServeMux` does (redirecting a path that is not clean, matching a pattern) and what
net/url unescapes is external. `Named`, `Lengths` and `RouteModel` are `routeModel`; `Sent`
is what `rewrite` and `authMiddleware` leave of the client's request. HEAD counts as GET,
CONNECT and redirects' encoding are left out, `GET /readiness` is in `Readiness`, and the
limits, slots and body in `ProxyHandler`.

`TextAssumption` says that texts and the contents of secrets are sequences of finite length,
as Go strings are, and `NamesAssumption` that the name of a model has at least one segment,
as `strings.Split` returns for any string, and that each has a plain spelling.

### HubCache and Collector

The cache is one relation per kind of file (`refs`, `snapshots`, `links`, `files`,
`pointers`), and `linked` has the directories replaced by symlinks, which a prune does not
enter, each with whether it leads elsewhere inside the hub, or outside, where `os.Root` does
not follow. `Target` is the file that a blob entry leads the operating system to, and thereby
the fetcher and a server; `Resolve` is what `resolve` makes of it, which finds none when a
directory on the way is outside (`Escapes`). Such an entry is deleted like a dangling one
(`RemoveDangling`). `phase`, `repo` and `todo` are the place of the prune in `Prune` and its walks;
`repos`, `commits`, `used` and `blobs` are what it remembers of what it has read. It
deletes one entry per step, in any order the walk may have, and `Kill` and `Restart` may
follow any of them. The fetcher (external) writes blobs, links and references in any order
and may be stopped anywhere; it never runs while a prune does, by the `Requires=` and
`After=` of the units. `os.RemoveAll` removes a stale repository directory by directory
and a snapshot link by link.

`Collector` is the promise: once a download is complete, what the configured revisions
lead to is neither deleted nor changed, and a prune that returns without an error has left
only that. The refinement maps `keep` to the part of the cache that the configuration
leads to without leaving the hub, computed from scratch in every state.

Assumed: the target of a symlinked directory lies in no other repository, and an entry
`models--*` that is not a directory is not downloaded through. `ServedStaysWhole` is
stated of repositories whose references and snapshots are real directories, since the
prune reads no others, and of a hub whose shared blobs are inside it, since the prune deletes
what points to any others (section 6). A repository whose own blobs
are outside is included: the prune enters neither them nor what they share.

### Backends

For each model the states of its three units and their queued jobs, the main process of
the server and its `wait-healthy`. systemd is external and modelled as these units use
it: a job waits for every job of the units its unit is `After=`; `Requires=` cancels the
refresh of a failed fetch; restarting a fetcher stops its refresh and queues it again;
`try-restart` leaves a server alone that is down; an automatic restart pulls a failed
fetcher in again. `Before` is `fetchOrder` and `chain` of `common.nix`. `newer` has the
models that were downloaded since their server has started. The loop of `wait-healthy` is
`Check` (signal 0) and `ProbeAnswered` or `ProbeFails`; `Strangers` lets another
process answer in the server's place.

`boot` has the servers whose first start has not ended. One that fails or times out leaves it,
and its automatic restart is an ordinary start beside those that load by then. Two
properties say what the chain is worth: `BootLoadsInOrder`, that no server has a process
while one before it is in `boot`, which holds; and `UpdateKeepsChain`, that in an update without
failures no two servers that have left `boot` load at once, which the overtaking of a refresh
refutes. That no two ever load at once is not promised: a failed start suffices (section 6).

Simplifications: stopping takes no time; the hour of the start limit does not pass within a
behaviour, apart from what `reset-failed` clears; process numbers are not used again. A
server stopped by hand while it is queued no longer holds the one after it (hence
`byHand`). Containers, whose `Notify=healthy` takes the place of `wait-healthy`, and
detectors, which have no chain, are left out.

### Operators named "Fault:"

Next to some actions stands a variant introduced by `Fault:`, a plausible mistake in
the code (a plain store for the compare-and-swap, a `drop` that keeps the pointer, a
round stamped with its beginning). No specification uses them. `mutants` in
`PROJECT.json` replaces the action by the variant to show that the property fails then.

## 3. Runs, bounds and what they show

| run | instance | shows |
|---|---|---|
| `budget` | 3 body-routed requests of up to 2 bytes, budget 2 (1.1 M states) | no byte lost, counted twice, or refused without need; a stream reserves nothing |
| `slots` | 3 requests, both routes, a model with 2 slots, byte limits off (58 k) | no slot leaks; 429 means all slots in use; zero means unlimited |
| `routes` | 2 requests of every shape, body limit 2, budget 3, one resend, fair (0.2 M) | only reserved bodies are resent, never after a response byte; refinement of `Admission`; a request never waits for another; with backends that answer everything is given back |
| `held` | as `routes`, safety only | violated: section 6 |
| `readiness` | 3 callers, 2 backends, TTL 1, deadline 2, fair (0.15 M) | rounds spaced; 200 is recent; a caller waits one round at most, and is answered whatever backends do |
| `serve` | 2 runs, 7 configurations of up to 2 entries, 2 connections, fair (0.6 M) | after `READY=1` every address is reachable; stale files never fail a start; a failed bind cleans up; a signal ends the process, a second one at once; a failed listener is not ignored |
| `serve_upgraded` | 1 connection | violated: section 6 |
| `router` | 245 files with their secrets, checked and served; 487 requests to each (38 k) | `check` and `serve` agree; only tokens authenticate; headers reach their backend; names are reachable, the longest wins, and they lead nowhere else; the catalog agrees with the routes |
| `hubcache` | 2 repositories, references, commits and blobs, 2 downloads, 6 sets of linked directories (0.26 M) | what is configured stays loadable under kills; refinement of `Collector` |
| `hubcache_locks` | the same | violated: section 6 |
| `backends` | 2 chained models, 2 starts an hour, 2 events, failures and strangers, fair (0.5 M) | first starts in order at boot; restarts only for something newer; stopped stays down; what is fetched is served; `wait-healthy` ends with its process |
| `backends_update` | the same, one update, without failures or strangers | violated: section 6 |

Why the bounds are enough. The interference in the handler is pairwise: one goroutine's load
and compare-and-swap against another's `give`; the third request makes the budget run out
through two others. Three requests and two slots include a full channel with one refused and
one released. `MaxAttempts = 2` has the first opening of a body and one resend; each further
one is the same step from the same state apart from the count. A budget of 2 with bodies of
up to 2 bytes has bodies that fit alone and not together, and those charged in two chunks of
which only the first fits. `MaxConcurrent` has a limited and an unlimited model,
`MaxBodyBytes` and `MaxBufferedBytes` both zero and positive values. In `readiness` the
deadline is longer than the TTL, the harder order, in which a result could expire during a
round; three callers queue behind one round. In `serve` two runs are enough for everything a
run leaves to the next, which is `file` alone; two entries give all orders of a unix and a
TCP socket and each listed twice, with a failure at the first or the second; with two
connections one may be idle, queued or upgraded while the other is in its handler. In
`router` the files have, one at a time, every mistake validation looks for, a reference that
no header may contain among them, names below one another, empty and dotted segments in
every place, and one or two tokens and headers, so that an error may come before or after
another value is read; the paths have up to three segments after the prefix in every
spelling. In `hubcache` the two commits share a blob, either may be in either repository,
and a second configuration drops, pins or follows what the first has left (`MaxFetches`),
after any interrupted prune. The blobs of a repository and of the hub are each real,
elsewhere inside and outside. In `backends` two models are a server and its predecessor, all
that the chain relates; two events (`MaxEvents`) are a crash during an update, or a stop
between a fetch and its restart; two starts reach the limit by one crash. What the runs
cannot show for larger instances, section 5 proves.

Symmetry is used in `budget` and `slots` only, over `Requests`, whose elements no
definition tells apart; runs with a liveness property use none.

The deadlock check is off in three modules, where the system may stop: in `router` a
configuration that is refused ends the process, in `hubcache` and `hubcache_locks` a
download into an entry that is not a directory is never complete and `MaxFetches` ends the
attempts, in `backends` and `backends_update` a machine may be at rest. Elsewhere it is on:
`ProxyHandler` may stutter only when every request is done (`Finished`), in `Readiness`
callers arrive for ever, and in `Serve` the environment can always act.

## 4. Fairness

`ProxyHandler!FairSpec` assumes that a goroutine that can run does (`GoroutinesRun`),
which the Go scheduler ensures, and that the read deadline of `readBody` fires
(`DeadlinesExpire`), which the runtime's poller does. It assumes nothing of clients,
backends or the network. The channel operations of slots never block, which the model
has as guards; were they to block, `NeverWaitsForOthers` would fail. The
compare-and-swap loop has weak fairness on `Taking` as a whole: a retry happens only
when another request has changed `free`, and `Requests` being finite each request
changes it finitely often, so the loop ends without strong fairness.
`EverythingGivenBack` has the premise `BackendsAnswer` — each round trip and each
stream ends — for which llmhop has no timeout by design.

`Readiness!FairSpec` has strong fairness for `Lock`: a Go mutex hands over to a waiter
that has starved for 1 ms. The other conditions are that goroutines run, deadlines fire
and time passes. There is none on answers: backends may hang.

`Serve!FairSpec` assumes that goroutines run and that `Shutdown`, which polls, closes idle
connections. Nothing is assumed of clients, signals, crashes or restarts. `SignalEnds` has
the premise that handlers return, since the drain is unbounded on purpose
(`main.go:204`); upgraded connections need not end. `SecondSignalEnds` has the premise of
an operator who goes on signalling, and none on requests.

`Backends!FairSpec` assumes that systemd runs the jobs it can, that the update goes on and
that `wait-healthy` does, which it bounds by a deadline per probe. It assumes nothing of
downloads, of models that load, or of administrators: `FetchedIsServed` therefore lets a
server be held by its predecessor, and a fetch begin anew.

`Collector`, `HubCache`, `Config` and `Router` state no fairness: what they promise is
safety, and a prune that never returns has promised nothing.

## 5. Proofs

All with TLAPS, from the named `ASSUME`s of the component's module only (finite set of
requests, limits in `Nat`, and so on), for any number of requests, models, bytes. TLC
evaluates every `ASSUME` in the component's runs.

`ProxyHandlerProofs`
- `TypeCorrect`, `BudgetIsConserved`, `SlotsAreConserved`, `ReplayableStaysReserved`,
  `StreamsReserveNothing`, `NeverResent`.
- The invariants the runs check are not inductive. That `free + owed = budget` survives a
  refund needs to know that a request being refunded still owes what it charged; that a
  response reserves nothing needs to know that `Response` comes after `drop`. `LInv`
  therefore adds to `TypeOK`, for each request, what its program counter says of its
  other variables: of its route (`Route`), of its body and charges
  (`Body`), of its replay (`Replay`). It is proved local, one step per
  action. `BInv` and `SInv` then add the sums.
- The sums are cardinalities of sets of pairs (one pair per byte) in place of a recursive
  sum, so that the counting lemmas are about finite sets: `PairsAdd` and `PairsClear` say how the
  cardinality changes when one request's number does.

`AdmissionProofs`
- `HandlerImplementsAdmission`: initial states map to initial states; every step maps to
  a step of `Admission` or to a stutter. `BudgetRefusals` and `SlotRefusals` follow from
  the same invariant.

`ReadinessProofs`
- `TypeCorrect`, `RoundsAreSpaced`, `AnswersAreRecent`, `WaitsAreOneRound`. The invariant
  says that only the holder of the mutex is between lock and unlock (`Exclusive`), that
  probes exist only while it waits, and that the last result is no older than the beginning
  of its round (`Settled`). The timed part (`Timed`) rests on the probes of a round starting
  at one instant: while any is in flight, no caller has waited and no answer is older than
  it has lasted (`Paced`), and it has lasted no longer than its deadline (`Served`, `Recent`).

`ServeProofs`
- `TypeCorrect`, `ReadyIsReachable`, `StaleFilesNeverFail`, `FailedStartsCleanUp`, for any
  list of entries, with any of them listed twice, and any number of runs.
- `ReadyMeansReachable` is not inductive: which paths lead to which listener is built up
  entry by entry, and the window between `Remove` and `Bind` of a path listed before has
  no file. `WhileBinding` says what holds at each entry and in that window, `WhenBound`
  what is left of it afterwards, `Owners` that no path leads to a listener that is not
  there, and `Capacity` that the errors sent and the goroutines yet to report fit into the
  channel. `CloseInv` and `EndsInv` are the two lemmas on closing listeners and on the end
  of the process, which many actions share.

`HubCacheProofs`
- `TypeCorrect`, `Served`, `Implementation`, for any repositories, references, commits and
  blobs, any linked directories, any number of downloads, and prunes killed anywhere.
  `Served` has the exceptions of `ServedStaysWhole` (references or snapshots that were moved,
  shared blobs outside the hub), and `Implementation` is of what is reached inside the hub. That
  what a repository keeps in the shared store stays reachable rests on two facts: no deletion
  makes a store escape (`EscapesIsLinked`, `StoresStay`), and a pointer is only written where the
  blobs are a real directory. The
  invariant says what a prune knows at each place: every entry is gone, to be visited or
  kept (`EntriesInv`), a visited repository has lost what is not kept and the commits read
  are those still named (`VisitedInv`), and what the sweep has collected is still so, however
  much it has deleted (`SweepInv`). The lemmas on each kind of deletion (`DeletesStable`)
  say that what the configuration leads to, computed anew, is the same after it.

`RouterProofs` and `SequenceLemmas`
- `TypeCorrect`, `ServedIsChecked`, `CheckIsComplete`, `HeadersArrive`, for any file,
  secrets, order of the maps and requests. `Acceptable` says in one formula what the loops
  look for, with secrets expanded or not; the invariant says that a verdict is `Acceptable`
  of its command (`Verdicts`), with what each loop has visited (`Visited`) and built
  (`Made`, `Credentials`). What is left are two facts about texts: where no reference holds
  a control byte, expansion only adds reasons to refuse (`ExpandedIsStricter`; `RawText`
  says that such a text is then its own value to `check`), and what it adds is the fault of
  a secret, or of dropped references (`TextIsComplete`).
- `TokensAuthenticate`, `NamesReach`, `PathsAreKept`, `CatalogAndRoute`, for paths, names,
  tokens and values of any length, in any spelling. None of the four properties says by itself
  how an answer came about, so the invariant adds `Answers`: what the answer in `last` was decided
  on (its path is clean, its client authorised, its model the one `RouteModel` finds, or
  the one the catalog looks up) still holds of the configuration in place. That a token is
  never empty (`TokenValue`) goes back to `TokenOK` of `serve`.
- That a request goes to a model that exists, and to the longest name, needs a greatest
  length (`Greatest`), by well-founded induction on the naturals.
- What a path decodes to is a concatenation of any number of sequences. `FlattenSeq` is
  defined by a recursive function, and the induction theorems of the library, which take an
  operator, cannot be applied; `SequenceLemmas` does the induction over a *set* of naturals
  (`SetInduction`, from the well-foundedness of `<`): the function exists and is unique
  (`FoldExists`, `FoldsAgree`), and one more sequence at the end, or at the beginning, adds
  its elements there (`FlattenLast`, `FlattenFirst`). From it follow the facts the theorems
  use: the text of a path begins with that of its first segment (`DecodedHead`), a name
  written raw and one written with `%2F` have the same text, and a segment of a name that is
  not empty keeps the prefix from being one that was escaped (`PathsAreKept`).
- The SMT backend does not translate the literal `""`; `Blank` names it, and
  `BlankFacts` restates the definitions with the name.

`BackendsProofs`
- `TypeCorrect`, `BootIsInOrder`, `RestartsAreForNewer`, `StopsAreKept`, for any number of
  models, start limit and events. That no server has a process before the first start of
  each one before it has ended is not inductive: `Chained` says of every server that has not
  ended its start at boot that it is queued or starting, and that none after it has been
  started; `Refreshes` that a queued refresh has its fetch before it, and that an active one
  has something newer to serve.

Model-checked only: the liveness properties `NeverWaitsForOthers`, `EverythingGivenBack`,
`EveryCallerAnswered`, `SignalEnds`, `SecondSignalEnds`, `FailureEnds`, `FetchedIsServed`
and `ExitEndsStart`: liveness under fairness rests on `ENABLED`, which is out of the prover's
reach. Every invariant and every action property that a passing run checks is a theorem.
The four properties that section 6 names with a run are false.

## 6. Where code and documentation disagree

**Memory held by bodies.** `budget` "bounds the bytes of buffered bodies held at once"
(`router.go:308-309`), and `config.go:41-43` says the same of `maxBufferedBytes`. The run
`held` states that of the bytes reachable from requests (`HeldWithinBudget`), and TLC
refutes it: `drop` stores nil in `replayBody.buf` and gives the bytes back, but a
`dropReader` returned before keeps its slice until it is read to EOF. When a backend
answers, or sends a 1xx, before it has read the body, the outgoing request still refers to
that reader while the response streams; another request takes the same bytes of the budget.
What does hold is `BudgetConserved` (of bytes charged) and `ReplayableIsReserved`.

**Draining.** The README says that llmhop "drains in-flight requests on `SIGTERM` or
`SIGINT`". `http.Server.Shutdown` does not track hijacked connections, so a request that a
backend answers with 101 Switching Protocols, whose handler still copies and still holds
its model's slot, is cut off (`serve_upgraded`, `DrainsInFlight`).

**Locks of stale repositories.** `hubcache.go:83` says that `removeStale` "deletes the stale
repo and its locks". It removes the repository first, and a prune finds stale locks by the
repository's entry alone: killed between the two, or failing at the second, it leaves locks
that no later prune removes (`hubcache_locks`, `NoStaleLocks`). What is served is not
affected.

**Updates and the startup chain.** `common.nix:223-225` says that "the fetchers run one at a
time in startup order, so the server restarts queue in that order too and keep to the startup
chain". The update waits for each fetcher and not for the refresh that follows it and
restarts the server; a refresh that prunes for long is overtaken by that of the next
model, and both servers load at once (`backends_update`, `UpdateKeepsChain`). The property leaves
out servers whose first start has not ended: the update may restart one beside the boot of another,
which the comment does not speak of. If `UpdateProceeds` waited for the refresh as well, it
would hold of the same instance.

Three more were met while modelling. No run of its own refutes them; the properties of the runs
leave out what they are about, each in so many words.

**Shared blobs outside the hub.** `hubcache.go:166-167` says that `pruneBlobs` "deletes every blob
of repos and of the shared blob store [...], unless a snapshot links to it". `resolve` fails for a
dangling name and for one that escapes the root alike, and both are removed. When the shared
store `blobs` is a symlink to another disk, each blob of a repository that points into it
escapes: the first prune deletes them all, those of configured snapshots included, and an
offline server no longer finds its files. The files in the store are left alone, and a store
moved within the hub is resolved. `ServedStaysWhole` exempts it (`Escapes(Hub)`), and
`ImplementsCollector` keeps what is reached inside the hub.

**Raw references.** `config.go:149-150` says that "raw references are valid header values, so the
same checks serve `llmhop check` and startup". The text that `check` validates holds the
arguments of its references, which may contain any byte: `${file:/run/a\nb}`, with a line
feed in the path, is well-formed, refused by `check` and accepted by `serve`, which looks at
the contents of the file alone. It is the only way in which `serve` accepts what `check`
refuses (`ServedWasChecked`, whose exception it is).

**The startup chain after a failed start.** `README.md:178` says of `startupOrdering` that
it "starts workers one at a time by `name`, so two never profile or size their GPU memory at
once", and `common.nix:182-183` says so too. The chain is an `After=`, which waits for jobs.
A server whose start times out has none until `Restart=always` starts it again half a minute
later; its successor starts meanwhile, and nothing orders the second start of the first
after it. What does hold is that first starts are in order (`BootLoadsInOrder`).

Not disagreements, but seen while modelling: a start whose `os.Remove` fails
(`main.go:138`) does not close the listeners bound before it, as one whose `net.Listen`
fails does (`main.go:144`). Their socket files are left to the next run, which removes
them.

A token of nothing but malformed references (`${}`) is text to `check`, which does not expand
it, and empty to `serve`, which refuses it (`secrets.go:19-24`, `config.go:177`). It is the
one configuration that `check` accepts, whose secrets are all there and usable, and that
does not start; `CheckedIsServed` states it that way.

A model name with a segment `.` or `..` is accepted, but http.ServeMux redirects its raw
spelling away, so only the spelling with `%2F` leads to it, and none does when the name is
that segment (`NamesReachable`).

## 7. What is not modelled

- Header rewriting, logging, wording of errors: no property depends on them.
- The window in `net/http`'s background reader between EOF of a body and the clearing of
  its deadline (`router.go:302-303`).
- Panics of handlers other than `http.ErrAbortHandler`, whose defers run as in `StreamEnds`.
- Overflow of `budget.free`: its range is `0..maxBufferedBytes`, proved by
  `BudgetIsConserved`, so 64 bits suffice for any configured value.
- In `Serve`: what makes `load` fail; the bytes of the notification; connections reset by
  the kernel before they reach a backlog; a socket file of a *living* process that
  `os.Remove` takes away.
- In `Config` and `Router`: JSON (decoding succeeds or fails, encoding is left out), tokens
  with spaces, the escapes a redirect writes.
- In `HubCache`: concurrent prunes and fetches, which the units exclude; disks that fill up.
- In `Backends`: containers, detectors, units of more than one machine, and the time a stop
  takes.
- 1.10: evaluated when a machine is built, without state or order.

## 8. Plan

All components with state at run time have a module. In the order of importance:

| | module | models | done | open |
|---|---|---|---|---|
| A | `ProxyHandler`, `Admission` | 1.1 | modelled, refined, proved | - |
| B | `Readiness` | 1.2 | modelled, proved | - |
| C | `Serve` | 1.5 | modelled, proved | - |
| D | `HubCache`, `Collector` | 1.7, 1.8 | modelled, refined, proved | - |
| E | `Backends` | 1.8, 1.9 | modelled, safety proved | containers with `Notify=healthy`; detectors |
| F | `Config` | 1.4, 1.6 | modelled, proved | - |
| G | `Router` | 1.3 | modelled, proved | - |
| H | composition | 1.1 + 1.5 | - | the drain waits for the handlers and everything is given back: today `Serve` has a handler as one step, and `EverythingGivenBack` is the handler's |

## 9. How to run

```
tlc -workers 2 -config ProxyHandlerBudget.cfg MCProxyHandler
tlapm ProxyHandlerProofs.tla
```

Each entry of `runs` in `PROJECT.json` names its module and configuration. The runs
`serve` and `backends` take two to three minutes each, the others about a minute at most; the
proofs take one to two minutes per module.
