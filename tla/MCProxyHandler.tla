--------------------------- MODULE MCProxyHandler ---------------------------
(* Small instances of ProxyHandler for TLC. *)
EXTENDS ProxyHandler, TLC

\* "small" serves one request at a time, "large" is unlimited.
MCMaxConcurrent == [small |-> 1, large |-> 0]

\* With two slots, and three requests that want them.
TwoSlots == [small |-> 2, large |-> 0]

Base ==
    [authorized |-> TRUE, path |-> FALSE, model |-> "small", size |-> 1,
     declared |-> TRUE, json |-> "ok"]

\* Bodies of which two fit a budget of 2 together or not, for a limited and an
\* unlimited model, and one that is refunded.
BudgetShapes ==
    {Base,
     [Base EXCEPT !.size = 2, !.model = "large"],
     [Base EXCEPT !.json = "invalid"]}

\* Both routes to the limited model, and every way a request may be refused
\* before it reaches a backend, with maxBodyBytes = 2.
RouteShapes ==
    {Base,
     [Base EXCEPT !.size = 2],
     [Base EXCEPT !.path = TRUE],
     [Base EXCEPT !.authorized = FALSE],
     [Base EXCEPT !.size = 3],
     [Base EXCEPT !.size = 3, !.declared = FALSE],
     [Base EXCEPT !.size = 3, !.declared = FALSE, !.path = TRUE],
     [Base EXCEPT !.json = "missing"],
     [Base EXCEPT !.model = NoModel],
     [Base EXCEPT !.model = NoModel, !.path = TRUE]}

\* Both routes, with and without a slot to wait for.
SlotShapes ==
    {Base,
     [Base EXCEPT !.path = TRUE],
     [Base EXCEPT !.path = TRUE, !.model = "large"]}

LivenessShapes == {Base, [Base EXCEPT !.size = 2], [Base EXCEPT !.path = TRUE]}

Symmetry == Permutations(Requests)

=============================================================================
