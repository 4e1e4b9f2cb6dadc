----------------------------- MODULE Collector -----------------------------
(***************************************************************************)
(* What pruning a hub cache promises, whatever the order it deletes files  *)
(* in and wherever it is killed: once a download is complete, nothing the  *)
(* server needs is ever deleted and what it needs never changes, and a     *)
(* prune that returns without an error has left nothing else.              *)
(*                                                                         *)
(* Here `keep' is given.  HubCache computes it from the references, the    *)
(* snapshots and their links while it deletes some of them, and implements *)
(* this module.                                                            *)
(***************************************************************************)
VARIABLES
    cache,    \* everything in the hub cache
    keep,     \* the part of it the configured revisions lead to
    fetched,  \* whether the last download is complete
    clean     \* whether a prune has returned without an error since then

vars == <<cache, keep, fetched, clean>>

Init ==
    /\ keep \subseteq cache
    /\ fetched = FALSE
    /\ clean = FALSE

\* The fetcher is started, writes anything it likes, and is done.
Fetch ==
    /\ ~(fetched /\ fetched')
    /\ fetched' => cache' = cache /\ keep' = keep
    /\ clean' = FALSE

\* A prune deletes something that is not kept, or starts anew.
Collect ==
    /\ fetched /\ fetched'
    /\ keep \subseteq cache' /\ cache' \subseteq cache
    /\ keep' = keep
    /\ clean' = FALSE

\* A prune returns: only what is kept is left.
Finish ==
    /\ fetched
    /\ cache = keep
    /\ clean' = TRUE
    /\ UNCHANGED <<cache, keep, fetched>>

Next == Fetch \/ Collect \/ Finish

Spec == Init /\ [][Next]_vars

=============================================================================
