----------------------------- MODULE Admission -----------------------------
(***************************************************************************)
(* What the proxy promises about its two shared resources, whatever the    *)
(* interleaving of its request goroutines: the memory budget for buffered  *)
(* request bodies and the concurrency limit of every model.                *)
(*                                                                         *)
(* Here a request reserves bytes and is admitted to a model in single      *)
(* atomic steps.  ProxyHandler takes several steps for each (a load and a  *)
(* compare-and-swap, a sync.Once around a store and an add, a deferred     *)
(* channel receive) and implements this module.                            *)
(***************************************************************************)
EXTENDS Integers, FiniteSets

CONSTANTS
    Requests,          \* the requests that ever arrive
    Models,            \* the configured models
    NoModel,           \* the value of `serving' for a request not admitted
    MaxBufferedBytes,  \* the budget, 0 for unlimited
    MaxConcurrent,     \* the slots of each model, 0 for unlimited
    MaxSize            \* no client sends a longer body

VARIABLES
    reserved,  \* the bytes each request has reserved
    closed,    \* the requests that have given their reservation back
    serving    \* the model each request is admitted to, or NoModel

vars == <<reserved, closed, serving>>

\* The reserved bytes of all requests as a set: one pair for each byte.
ReservedBytes ==
    {p \in Requests \X (1..MaxBufferedBytes) : p[2] <= reserved[p[1]]}

Admitted(m) == {r \in Requests : serving[r] = m}

Init ==
    /\ reserved = [r \in Requests |-> 0]
    /\ closed = {}
    /\ serving = [r \in Requests |-> NoModel]

\* n more bytes of r's body have arrived and fit the budget.
Reserve(r, n) ==
    /\ r \notin closed
    /\ MaxBufferedBytes > 0 => Cardinality(ReservedBytes) + n <= MaxBufferedBytes
    /\ reserved' = [reserved EXCEPT ![r] = @ + n]
    /\ UNCHANGED <<closed, serving>>

\* r gives everything it reserved back, once: it reserves nothing afterwards.
Release(r) ==
    /\ r \notin closed
    /\ reserved' = [reserved EXCEPT ![r] = 0]
    /\ closed' = closed \union {r}
    /\ UNCHANGED serving

\* r is proxied to m while one of m's slots is free.
Admit(r, m) ==
    /\ r \notin closed
    /\ serving[r] = NoModel
    /\ MaxConcurrent[m] > 0 => Cardinality(Admitted(m)) < MaxConcurrent[m]
    /\ serving' = [serving EXCEPT ![r] = m]
    /\ UNCHANGED <<reserved, closed>>

\* The response of r has ended.
Leave(r) ==
    /\ serving[r] # NoModel
    /\ serving' = [serving EXCEPT ![r] = NoModel]
    /\ UNCHANGED <<reserved, closed>>

Next ==
    \E r \in Requests :
        \/ \E n \in 0..MaxSize : Reserve(r, n)
        \/ Release(r)
        \/ \E m \in Models : Admit(r, m)
        \/ Leave(r)

Spec == Init /\ [][Next]_vars

=============================================================================
