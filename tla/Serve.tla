-------------------------------- MODULE Serve --------------------------------
(***************************************************************************)
(* The command "llmhop serve" of cmd/llmhop/main.go, with the socket       *)
(* activation and the readiness notification of internal/systemd: a        *)
(* process that binds its listeners, reports READY=1, serves until a       *)
(* signal or an error, drains and ends, and is started again over the      *)
(* socket files its predecessor left behind.                               *)
(*                                                                         *)
(* The main goroutine, one Serve goroutine per listener, the connections,  *)
(* the signals and the other processes of the machine act concurrently.    *)
(* http.Server is external: what it promises main.go of Serve, Shutdown    *)
(* and the states of connections.                                          *)
(***************************************************************************)
EXTENDS Integers, Sequences, FiniteSets

CONSTANTS
    Unix,        \* the paths of unix sockets
    Tcp,         \* the addresses of TCP sockets
    Configs,     \* what a start may find: the `listen' entries, sockets passed
    Conns,       \* the connections that clients ever make
    MaxEntries,  \* bound: listeners of a configuration
    MaxRuns      \* bound: times the process is started

Addresses == Unix \union Tcp

Entries == 1..MaxEntries

ASSUME AddressesAssumption == Unix \intersect Tcp = {}
ASSUME BoundsAssumption == MaxEntries \in Nat /\ MaxRuns \in Nat
ASSUME ConfigsAssumption ==
    \A c \in Configs :
        /\ c.listen \in Seq(Addresses) /\ Len(c.listen) <= MaxEntries
        /\ c.passed \in Seq(Addresses) /\ Len(c.passed) <= MaxEntries

VARIABLES
    runs,        \* starts so far
    cfg,         \* the configuration and sockets of the current run
    pc,          \* where the main goroutine is, "ended" without a process
    how,         \* how the last process ended
    entry,       \* the entry listeners() is at
    lis,         \* the state of each listener of the process
    file,        \* per path: no socket file, one left behind, or a listener's
    obstructed,  \* addresses no socket can be bound to now
    ready,       \* whether READY=1 was sent
    caught,      \* whether signals are caught, by signal.NotifyContext
    done,        \* whether ctx is done
    errs,        \* the errors in the channel errs
    conn,        \* the state of each connection
    via          \* the listener it came by

mainVars == <<entry, ready, caught, done, errs>>
connVars == <<conn, via>>
vars == <<runs, cfg, pc, how, entry, lis, file, obstructed, ready, caught, done,
          errs, conn, via>>

NoFile == 0
Stale == -1

Activated == cfg.passed # <<>>

Sources == IF Activated THEN cfg.passed ELSE cfg.listen

\* The only type invariant: every variable has its type, and the channel errs the
\* capacity len(lns), which no Serve goroutine ever finds full.
TypeOK ==
    /\ runs \in 0..MaxRuns
    /\ cfg \in Configs
    /\ pc \in {"remove", "bind", "catch", "notify", "spawn", "select", "stop",
               "shutdown", "drain", "ended"}
    /\ how \in {"never", "clean", "failed", "killed"}
    /\ entry \in 1..(MaxEntries + 1)
    /\ lis \in [Entries -> {"none", "bound", "serving", "closed"}]
    /\ file \in [Unix -> {NoFile, Stale} \union Entries]
    /\ obstructed \in SUBSET Addresses
    /\ ready \in BOOLEAN
    /\ caught \in BOOLEAN
    /\ done \in BOOLEAN
    /\ errs \in 0..Len(Sources)
    /\ conn \in [Conns -> {"none", "queued", "idle", "active", "upgraded",
                           "closed", "refused", "cut"}]
    /\ via \in [Conns -> {0} \union Entries]

Init ==
    /\ runs = 0
    /\ cfg \in Configs
    /\ pc = "ended"
    /\ how = "never"
    /\ entry = 1
    /\ lis = [i \in Entries |-> "none"]
    /\ file = [u \in Unix |-> NoFile]
    /\ obstructed = {}
    /\ ready = FALSE
    /\ caught = FALSE
    /\ done = FALSE
    /\ errs = 0
    /\ conn = [c \in Conns |-> "none"]
    /\ via = [c \in Conns |-> 0]

-----------------------------------------------------------------------------
(* Helpers.                                                                *)

Address(i) == Sources[i]

Open(i) == lis[i] \in {"bound", "serving"}

\* Closing a listener that the process bound unlinks its path, whatever socket
\* is there by then; one from net.FileListener does not.
FilesWithout(I) ==
    [u \in Unix |->
        IF ~Activated /\ u \notin obstructed /\ \E i \in I : Address(i) = u
        THEN NoFile ELSE file[u]]

\* What becomes of a connection whose listener closes before accepting it.  One
\* in the backlog of a socket of systemd waits there as if it had yet to come.
Unaccepted == IF Activated THEN "none" ELSE "refused"

\* Close the listeners I.
Close(I) ==
    /\ lis' = [i \in Entries |-> IF i \in I THEN "closed" ELSE lis[i]]
    /\ file' = FilesWithout(I)
    /\ conn' = [c \in Conns |->
                   IF conn[c] = "queued" /\ via[c] \in I THEN Unaccepted ELSE conn[c]]

\* The process is gone.  The kernel closes its sockets and leaves their paths.
\* files is `file' as the process leaves it.
Ends(h, files) ==
    /\ pc' = "ended"
    /\ how' = h
    /\ lis' = [i \in Entries |-> "none"]
    /\ file' = [u \in Unix |-> IF files[u] \in Entries THEN Stale ELSE files[u]]
    /\ conn' = [c \in Conns |->
                   CASE conn[c] = "queued" -> Unaccepted
                     [] conn[c] = "idle" -> "closed"
                     [] conn[c] \in {"active", "upgraded"} -> "cut"
                     [] OTHER -> conn[c]]
    /\ UNCHANGED <<runs, cfg, obstructed, via, mainVars>>

Goto(l) == pc' = l

-----------------------------------------------------------------------------
(* listeners().                                                            *)

\* The process starts.  It fails to load its configuration or to take over the
\* sockets passed, or listeners() finds both sources of sockets or neither; else
\* it has one source.
Start ==
    /\ pc = "ended"
    /\ runs < MaxRuns
    /\ runs' = runs + 1
    /\ cfg' \in Configs
    /\ entry' = 1
    /\ ready' = FALSE
    /\ caught' = FALSE
    /\ done' = FALSE
    /\ errs' = 0
    /\ via' = [c \in Conns |-> IF conn[c] = "none" THEN 0 ELSE via[c]]
    /\ \/ /\ how' = "failed"
          /\ UNCHANGED <<pc, lis>>
       \/ /\ cfg'.passed # <<>> /\ cfg'.listen = <<>>
          /\ lis' = [i \in Entries |-> IF i <= Len(cfg'.passed) THEN "bound" ELSE "none"]
          /\ Goto("catch")
          /\ UNCHANGED how
       \/ /\ cfg'.passed = <<>> /\ cfg'.listen # <<>>
          /\ lis' = [i \in Entries |-> "none"]
          /\ Goto("remove")
          /\ UNCHANGED how
    /\ UNCHANGED <<file, obstructed, conn>>

\* Fault: the socket of a previous run is left in place.
RemoveNothing ==
    /\ pc = "remove"
    /\ entry <= Len(cfg.listen)
    /\ Goto("bind")
    /\ UNCHANGED <<runs, cfg, how, mainVars, lis, file, obstructed, connVars>>

\* os.Remove of a unix socket's path, where there may be nothing.
Remove ==
    LET a == Address(entry) IN
    /\ pc = "remove"
    /\ entry <= Len(cfg.listen)
    /\ \/ a \notin Unix /\ UNCHANGED file
       \/ a \in Unix /\ file[a] = NoFile /\ UNCHANGED file
       \/ a \in Unix /\ a \notin obstructed /\ file' = [file EXCEPT ![a] = NoFile]
    /\ Goto("bind")
    /\ UNCHANGED <<runs, cfg, how, mainVars, lis, obstructed, connVars>>

\* The path cannot be removed.  The listeners bound before stay open to the end.
RemoveFails ==
    /\ pc = "remove"
    /\ entry <= Len(cfg.listen)
    /\ Address(entry) \in Unix \intersect obstructed
    /\ file[Address(entry)] # NoFile
    /\ Ends("failed", file)

\* What makes net.Listen fail.
InUse(a) ==
    \/ a \in obstructed
    \/ a \in Unix /\ file[a] # NoFile
    \/ a \in Tcp /\ \E i \in Entries : Open(i) /\ Address(i) = a

Bind ==
    LET a == Address(entry) IN
    /\ pc = "bind"
    /\ ~InUse(a)
    /\ lis' = [lis EXCEPT ![entry] = "bound"]
    /\ file' = IF a \in Unix THEN [file EXCEPT ![a] = entry] ELSE file
    /\ entry' = entry + 1
    /\ Goto("remove")
    /\ UNCHANGED <<runs, cfg, how, ready, caught, done, errs, obstructed, connVars>>

\* Fault: the listeners bound before are left to the end of the process.
BindFailsLeaking ==
    /\ pc = "bind"
    /\ InUse(Address(entry))
    /\ Ends("failed", file)

\* The listeners bound before are closed.
BindFails ==
    /\ pc = "bind"
    /\ InUse(Address(entry))
    /\ Ends("failed", FilesWithout(1..(entry - 1)))

\* Fault: the last entry is not bound.
BoundEarly ==
    /\ pc = "remove"
    /\ entry >= Len(cfg.listen)
    /\ Goto("catch")
    /\ UNCHANGED <<runs, cfg, how, mainVars, lis, file, obstructed, connVars>>

Bound ==
    /\ pc = "remove"
    /\ entry > Len(cfg.listen)
    /\ Goto("catch")
    /\ UNCHANGED <<runs, cfg, how, mainVars, lis, file, obstructed, connVars>>

-----------------------------------------------------------------------------
(* The rest of serve().                                                    *)

\* signal.NotifyContext.
Catch ==
    /\ pc = "catch"
    /\ caught' = TRUE
    /\ Goto("notify")
    /\ UNCHANGED <<runs, cfg, how, entry, ready, done, errs, lis, file, obstructed, connVars>>

\* systemd.Ready, where there is a notification socket or none.
Notify ==
    /\ pc = "notify"
    /\ ready' = TRUE
    /\ Goto("spawn")
    /\ UNCHANGED <<runs, cfg, how, entry, caught, done, errs, lis, file, obstructed, connVars>>

NotifyFails == pc = "notify" /\ Ends("failed", file)

\* The goroutines of the listeners are started.
Spawn ==
    /\ pc = "spawn"
    /\ Goto("select")
    /\ UNCHANGED <<runs, cfg, how, mainVars, lis, file, obstructed, connVars>>

\* Fault: an error of a listener is left in the channel.
ErrorIgnored == FALSE

\* select takes the error of a listener: main ends the process without a drain.
ErrorReturned == pc = "select" /\ errs > 0 /\ Ends("failed", file)

\* select takes the signal.
Signalled ==
    /\ pc = "select"
    /\ done
    /\ Goto("stop")
    /\ UNCHANGED <<runs, cfg, how, mainVars, lis, file, obstructed, connVars>>

\* Fault: signals stay caught during the drain.
StopNothing ==
    /\ pc = "stop"
    /\ Goto("shutdown")
    /\ UNCHANGED <<runs, cfg, how, mainVars, lis, file, obstructed, connVars>>

\* stop restores the default handling of signals.
Stop ==
    /\ pc = "stop"
    /\ caught' = FALSE
    /\ Goto("shutdown")
    /\ UNCHANGED <<runs, cfg, how, entry, ready, done, errs, lis, file, obstructed, connVars>>

\* Shutdown closes the listeners being served, and their Serve calls return
\* ErrServerClosed.
Shutdown ==
    LET I == {i \in Entries : lis[i] = "serving"} IN
    /\ pc = "shutdown"
    /\ Close(I)
    /\ errs' = errs + Cardinality(I)
    /\ Goto("drain")
    /\ UNCHANGED <<runs, cfg, how, entry, ready, caught, done, obstructed, via>>

\* Fault: Shutdown waits for upgraded connections as well.
DrainedOfUpgraded ==
    /\ pc = "drain"
    /\ \A c \in Conns : conn[c] \notin {"idle", "active", "upgraded"}
    /\ Ends("clean", file)

\* Shutdown returns when no connection that the server tracks is left.
Drained ==
    /\ pc = "drain"
    /\ \A c \in Conns : conn[c] \notin {"idle", "active"}
    /\ Ends("clean", file)

-----------------------------------------------------------------------------
(* http.Server: the goroutines of the listeners and of the connections.    *)

\* Serve tracks its listener, or closes it when Shutdown came first.
ServeStarts(i) ==
    /\ pc \in {"select", "stop", "shutdown", "drain"}
    /\ lis[i] = "bound"
    /\ \/ /\ pc # "drain"
          /\ lis' = [lis EXCEPT ![i] = "serving"]
          /\ UNCHANGED <<file, conn, errs>>
       \/ /\ pc = "drain"
          /\ Close({i})
          /\ errs' = errs + 1
    /\ UNCHANGED <<runs, cfg, pc, how, entry, ready, caught, done, obstructed, via>>

Accept(c) ==
    /\ conn[c] = "queued"
    /\ lis[via[c]] = "serving"
    /\ conn' = [conn EXCEPT ![c] = "idle"]
    /\ UNCHANGED <<runs, cfg, pc, how, mainVars, lis, file, obstructed, via>>

\* Fault: the goroutine calls Serve again, and reports every failure.
ServeFailsAgain(i) ==
    /\ lis[i] = "serving"
    /\ errs' = errs + 1
    /\ UNCHANGED <<runs, cfg, pc, how, entry, lis, file, obstructed, ready, caught,
                   done, connVars>>

\* Accept fails for good, and Serve returns its error.
ServeFails(i) ==
    /\ lis[i] = "serving"
    /\ Close({i})
    /\ errs' = errs + 1
    /\ UNCHANGED <<runs, cfg, pc, how, entry, ready, caught, done, obstructed, via>>

\* The head of a request has been read, and the handler runs.
Request(c) ==
    /\ conn[c] = "idle"
    /\ conn' = [conn EXCEPT ![c] = "active"]
    /\ UNCHANGED <<runs, cfg, pc, how, mainVars, lis, file, obstructed, via>>

\* The handler has answered.  No connection is kept alive during a drain.
Answered(c) ==
    /\ conn[c] = "active"
    /\ \/ conn' = [conn EXCEPT ![c] = "closed"]
       \/ pc # "drain" /\ conn' = [conn EXCEPT ![c] = "idle"]
    /\ UNCHANGED <<runs, cfg, pc, how, mainVars, lis, file, obstructed, via>>

\* The backend switches protocols, and the reverse proxy hijacks the connection to
\* copy both ways: the server no longer tracks it.
Upgraded(c) ==
    /\ conn[c] = "active"
    /\ conn' = [conn EXCEPT ![c] = "upgraded"]
    /\ UNCHANGED <<runs, cfg, pc, how, mainVars, lis, file, obstructed, via>>

\* Either end closes the upgraded connection.
UpgradedEnds(c) ==
    /\ conn[c] = "upgraded"
    /\ conn' = [conn EXCEPT ![c] = "closed"]
    /\ UNCHANGED <<runs, cfg, pc, how, mainVars, lis, file, obstructed, via>>

\* The client leaves, the idle timeout passes, or Shutdown closes the connection.
IdleCloses(c) ==
    /\ conn[c] = "idle"
    /\ conn' = [conn EXCEPT ![c] = "closed"]
    /\ UNCHANGED <<runs, cfg, pc, how, mainVars, lis, file, obstructed, via>>

-----------------------------------------------------------------------------
(* The environment.                                                        *)

\* The listener that a connection to the address of i reaches.
Reached(i) ==
    LET a == Address(i) IN IF a \in Unix /\ ~Activated THEN file[a] ELSE i

Connect(c, i) ==
    /\ conn[c] = "none"
    /\ pc # "ended"
    /\ lis[i] # "none"
    /\ Reached(i) \in Entries
    /\ Open(Reached(i))
    /\ conn' = [conn EXCEPT ![c] = "queued"]
    /\ via' = [via EXCEPT ![c] = Reached(i)]
    /\ UNCHANGED <<runs, cfg, pc, how, mainVars, lis, file, obstructed>>

\* SIGTERM or an interrupt: caught, or the end of the process.
Signal ==
    /\ pc # "ended"
    /\ \/ ~caught /\ Ends("killed", file)
       \/ /\ caught
          /\ done' = TRUE
          /\ UNCHANGED <<runs, cfg, pc, how, entry, ready, caught, errs, lis, file,
                         obstructed, connVars>>

\* The process crashes or is killed by SIGKILL.
Crash == pc # "ended" /\ Ends("killed", file)

\* Another process takes or frees a TCP address, or the directory of a unix socket
\* becomes one that cannot be written to, or one that can again.
Obstruct(a) ==
    /\ a \in Unix \union obstructed \/ \A i \in Entries : Open(i) => Address(i) # a
    /\ obstructed' = (obstructed \ {a}) \union ({a} \ obstructed)
    /\ UNCHANGED <<runs, cfg, pc, how, mainVars, lis, file, connVars>>

Binding == Remove \/ RemoveFails \/ Bind \/ BindFails \/ Bound

Main ==
    \/ Binding \/ Catch \/ Notify \/ NotifyFails \/ Spawn
    \/ ErrorReturned \/ Signalled \/ Stop \/ Shutdown \/ Drained

Connection(c) ==
    \/ Accept(c) \/ Request(c) \/ Answered(c) \/ Upgraded(c) \/ UpgradedEnds(c)
    \/ IdleCloses(c)

Next ==
    \/ Start \/ Main
    \/ \E i \in Entries : ServeStarts(i) \/ ServeFails(i)
    \/ \E c \in Conns : Connection(c) \/ \E i \in Entries : Connect(c, i)
    \/ Signal \/ Crash
    \/ \E a \in Addresses : Obstruct(a)

Spec == Init /\ [][Next]_vars

-----------------------------------------------------------------------------
(* Safety.                                                                 *)

\* "READY=1 once its listeners are bound", and every one of them: from then on,
\* until the process ends or closes a listener, a client that connects to any
\* address of the configuration reaches an open listener of this process, even
\* when two entries share a socket path or an earlier run left its file.
ReadyMeansReachable ==
    ready /\ pc # "ended" /\ (\A i \in Entries : lis[i] # "closed") =>
        \A i \in 1..Len(Sources) : Reached(i) \in Entries /\ Open(Reached(i))

\* The start fails in net.Listen.
FailsToBind == pc = "bind" /\ pc' = "ended" /\ how' = "failed"

\* "A stale socket of a previous run would fail the bind": however the earlier runs
\* ended, a bind fails only on an address that something else makes unusable, or
\* on a TCP address that is listed twice.
StaleNeverFails ==
    [][FailsToBind =>
         \/ Address(entry) \in obstructed
         \/ \E i \in 1..(entry - 1) : Address(i) = Address(entry) /\ Address(i) \in Tcp]_vars

\* A start that fails in net.Listen leaves none of the socket files that it made.
FailedStartCleansUp ==
    [][FailsToBind =>
         \A i \in 1..(entry - 1) :
             Address(i) \in Unix \ obstructed => file'[Address(i)] = NoFile]_vars

EndsCleanly == pc # "ended" /\ pc' = "ended" /\ how' = "clean"

\* README.md: llmhop "drains in-flight requests on SIGTERM or SIGINT".  A request
\* whose connection was upgraded is still in its handler, and is cut off.
DrainsInFlight ==
    [][EndsCleanly => \A c \in Conns : conn[c] \notin {"active", "upgraded"}]_vars

-----------------------------------------------------------------------------
(* Liveness.                                                               *)

\* The goroutines of the process run, and Shutdown closes idle connections.
\* Clients, requests, signals and restarts may stay away for ever.
FairSpec ==
    /\ Spec
    /\ WF_vars(Main)
    /\ \A i \in Entries : WF_vars(ServeStarts(i))
    /\ \A c \in Conns : WF_vars(pc = "drain" /\ IdleCloses(c))

RequestsEnd == \A c \in Conns : WF_vars(Answered(c))

\* A signal that was caught ends the process once the requests have ended, whatever
\* upgraded connections do and whichever listeners have failed.
SignalEnds == RequestsEnd => (done ~> pc = "ended")

\* "a second signal aborts the drain": whoever goes on signalling sees the process
\* end, though its requests never do.
SecondSignalEnds == WF_vars(Signal) => (pc = "drain" ~> pc = "ended")

\* The process never goes on serving with a listener that has failed.
FailureEnds == errs > 0 ~> pc \in {"drain", "ended"}

=============================================================================
