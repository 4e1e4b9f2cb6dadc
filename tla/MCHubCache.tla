----------------------------- MODULE MCHubCache -----------------------------
(* Small instances of HubCache for TLC. *)
EXTENDS HubCache, TLC

CONSTANTS A, B, main, pr, c1, c2, b1, b2

\* The two commits share the blob b1.
MCContent == c1 :> {b1} @@ c2 :> {b1, b2}

Pinning(x, y) == [r \in Repos |-> IF r = A THEN x ELSE y]

\* A reference, with and without a commit pinned beside it, every reference,
\* and a repository that a later configuration drops.
MCSpecs == {Pinning({main}, {main}), Pinning({pr, c1}, {}), Pinning({Every}, {})}

Moved(c) == [r \in Repos |-> [v \in Revisions |-> IF v \in Commits THEN v ELSE c]]

\* Every reference is at c1, or has moved to c2.
MCUpstreams == {Moved(c1), Moved(c2)}

\* Blobs that are elsewhere in the hub or out of it, and the other directories.
MCLinkeds ==
    {{}, {<<A, "blobs", "inside">>}, {<<A, "blobs", "outside">>},
     {<<A, "refs", "outside">>, <<Hub, "blobs", "inside">>}, {<<Hub, "blobs", "outside">>},
     {<<A, "snapshots", "inside">>, <<Hub, ".locks", "outside">>}}

=============================================================================
