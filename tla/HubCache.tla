------------------------------ MODULE HubCache ------------------------------
(***************************************************************************)
(* The hub cache of one worker (src/internal/hubcache/hubcache.go) and the *)
(* prune of it that `llmhop internal hub-prune' runs after a download.     *)
(*                                                                         *)
(* The cache is modelled by its entries: the references, snapshots, links  *)
(* and blobs of each repository, and the shared blob store that the blob   *)
(* entries of a repository may point to.  A prune deletes one entry at a   *)
(* time and may be killed after any of them, by a restart of the fetcher   *)
(* or an error, and is then run again over what is left.  The fetcher, an  *)
(* external program, never runs at the same time (`Requires=', `After=').  *)
(***************************************************************************)
EXTENDS Integers

CONSTANTS
    Repos, Refs, Commits, Blobs,
    Hub,         \* the root of the cache, beside the repositories
    Every,       \* the empty revision, which stands for every reference
    Default,     \* the reference a download without a revision moves
    Content,     \* the blobs of a complete snapshot of each commit
    Specs,       \* the revisions of each repository a configuration keeps
    Upstreams,   \* the commits the revisions of each repository are at upstream
    Linkeds,     \* the sets of directories a user has replaced by symlinks
    NoRepo,
    MaxFetches   \* bounds the downloads

Revisions == Refs \union Commits \union {Every}
Stores == Repos \union {Hub}
Dirs == {"refs", "snapshots", "blobs"}

\* The directories that a user may replace by a symlink, and where that leads.
Symlinks == Stores \X (Dirs \union {".locks"}) \X {"inside", "outside"}

ASSUME HubCacheAssumption ==
    /\ Hub \notin Repos /\ NoRepo \notin Repos
    /\ Every \notin Refs \union Commits /\ Refs \intersect Commits = {}
    /\ Default \in Refs
    /\ Content \in [Commits -> SUBSET Blobs]
    /\ Specs \subseteq [Repos -> SUBSET Revisions]
    /\ Upstreams \subseteq [Repos -> [Revisions -> Commits]]
    /\ \A u \in Upstreams, r \in Repos :
           /\ \A c \in Commits : u[r][c] = c
           /\ u[r][Every] = u[r][Default]
    /\ Linkeds \subseteq SUBSET Symlinks
    /\ \A l \in Linkeds : \A t, u \in l : <<t[1], t[2]>> = <<u[1], u[2]>> => t = u
    /\ MaxFetches \in Nat

VARIABLES
    \* The files.
    entry,      \* what `models--<repo>' is: a directory, something else, or missing
    locks,      \* the repositories with a directory in `.locks'
    refs,       \* <<repo, ref, commit>>: the reference names the commit
    snapshots,  \* <<repo, commit>>: there is a directory for the commit
    links,      \* <<repo, commit, blob>>: a file of the snapshot, a symlink to a blob
    files,      \* <<store, blob>>: a blob
    pointers,   \* <<repo, blob>>: a symlink to a blob of the shared store
    linked,     \* <<store, dir, where>>: the directory is a symlink to another one,
                \* inside the hub, or outside or absolute
    \* The configuration and its fetcher.
    spec, upstream, fetched, fetches,
    \* The prune: its place in the code, and its local variables.
    phase, repo, todo, repos, commits, used, blobs

tree == <<refs, snapshots, links, files, pointers>>
fetchVars == <<spec, upstream, fetched, fetches>>
locals == <<repo, todo, repos, commits, used, blobs>>
vars == <<entry, locks, tree, linked, fetchVars, phase, locals>>

Running == {"entries", "locks", "refs", "snapshots", "collect", "sweep"}

TypeOK ==
    /\ entry \in [Repos -> {"none", "dir", "other"}]
    /\ locks \subseteq Repos
    /\ refs \subseteq Repos \X Refs \X Commits
    /\ snapshots \subseteq Repos \X Commits
    /\ links \subseteq Repos \X Commits \X Blobs
    /\ files \subseteq Stores \X Blobs
    /\ pointers \subseteq Repos \X Blobs
    /\ linked \subseteq Symlinks
    /\ spec \in Specs
    /\ upstream \in Upstreams
    /\ fetched \in BOOLEAN
    /\ fetches \in Nat
    /\ phase \in Running \union {"idle", "done"}
    /\ repo \in Repos \union {NoRepo}
    /\ phase \in {"locks", "refs", "snapshots"} => repo \in Repos
    /\ todo \subseteq Repos
    /\ repos \subseteq Repos
    /\ commits \subseteq Revisions
    /\ used \subseteq Stores \X Blobs
    /\ blobs \subseteq (Stores \X Blobs) \X (Stores \X Blobs)

-----------------------------------------------------------------------------
(* Reading the cache. *)

\* A directory that is not a symlink: the only kind that is entered.
IsDir(s, d) == \A t \in linked : <<t[1], t[2]>> # <<s, d>>

\* The blobs of s are outside the hub, where os.Root does not follow.
Escapes(s) == <<s, "blobs", "outside">> \in linked

\* The file that the entry e of a blob directory is or points to, if any.
Target(e) == {f \in files : f = e \/ (e \in pointers /\ f = <<Hub, e[2]>>)}

\* The one that a prune finds: none for an entry that escapes the hub.
Resolve(e) == {f \in Target(e) : ~Escapes(e[1]) /\ ~Escapes(f[1])}

\* Fault: the empty revision is taken for a reference like any other.
NamesFault(r, x) == x \in spec[r]

\* The revisions name the reference x of r.
Names(r, x) == x \in spec[r] \/ Every \in spec[r]

\* The commits that the references of r that a prune reads and the revisions name.
Named(r) ==
    spec[r] \union
    {t[3] : t \in {u \in refs : u[1] = r /\ IsDir(r, "refs") /\ Names(r, u[2])}}

\* Fault: a download without a revision records it as it is.
RefOfFault(v) == v

\* The reference a download of the revision v moves.
RefOf(v) == IF v = Every THEN Default ELSE v

\* The files the snapshots of the repositories rs link to.
LinkedTo(rs) ==
    UNION {Resolve(<<l[1], l[3]>>) : l \in {k \in links : k[1] \in rs /\ IsDir(k[1], "snapshots")}}

\* Fault: the shared store is not walked.
WalkedFault(rs) ==
    {e \in files \union pointers : e[1] \in rs /\ IsDir(e[1], "blobs")}

\* The entries of the blob directories of rs that a prune walks.
Walked(rs) ==
    {e \in files \union pointers : e[1] \in rs \union {Hub} /\ IsDir(e[1], "blobs")}

-----------------------------------------------------------------------------
(* The process and its fetcher. *)

Exit(p) ==
    /\ phase' = p
    /\ repo' = NoRepo
    /\ todo' = {} /\ repos' = {} /\ commits' = {} /\ used' = {} /\ blobs' = {}

Init ==
    /\ linked \in Linkeds
    /\ entry \in [Repos -> {"none", "dir", "other"}]
    /\ \A r \in Repos : entry[r] = "dir" <=> \E d \in Dirs : ~IsDir(r, d)
    /\ locks = {} /\ refs = {} /\ snapshots = {} /\ links = {} /\ files = {} /\ pointers = {}
    /\ spec \in Specs /\ upstream \in Upstreams
    /\ fetched = FALSE /\ fetches = 1
    /\ phase = "idle" /\ repo = NoRepo
    /\ todo = {} /\ repos = {} /\ commits = {} /\ used = {} /\ blobs = {}

\* The fetcher is started, perhaps for another configuration, and perhaps
\* while it is running or a prune is, which it stops.
Restart(s, u) ==
    /\ fetches < MaxFetches
    /\ fetches' = fetches + 1
    /\ spec' = s
    /\ upstream' = u
    /\ fetched' = FALSE
    /\ Exit("idle")
    /\ UNCHANGED <<entry, locks, tree, linked>>

\* It moves a reference to the commit c of the revision v, then downloads
\* some of its blobs into the store s and links to them.
Download(r, v, B, s) ==
    LET c == upstream[r][v]
        missing == {b \in B : Target(<<r, b>>) = {}}
        old == {t \in refs : t[1] = r /\ t[2] = RefOf(v)}
    IN
    /\ ~fetched
    /\ v \in spec[r]
    /\ entry[r] # "other"
    /\ B \subseteq Content[c]
    /\ s = Hub => IsDir(r, "blobs")
    /\ entry' = [entry EXCEPT ![r] = "dir"]
    /\ locks' = locks \union {r}
    /\ refs' = IF v \in Commits THEN refs ELSE (refs \ old) \union {<<r, RefOf(v), c>>}
    /\ snapshots' = snapshots \union {<<r, c>>}
    /\ links' = links \union ({r} \X {c} \X B)
    /\ files' = files \union ({s} \X missing)
    /\ pointers' = IF s = Hub THEN pointers \union ({r} \X missing)
                              ELSE pointers \ ({r} \X missing)
    /\ UNCHANGED <<linked, fetchVars, phase, locals>>

\* The commit c of r can be loaded.
Whole(r, c) ==
    /\ <<r, c>> \in snapshots
    /\ \A b \in Content[c] : <<r, c, b>> \in links /\ Target(<<r, b>>) # {}

\* The revision v of r leads an offline server to a commit it can load.
Loadable(r, v) ==
    /\ v \notin Commits => <<r, RefOf(v), upstream[r][v]>> \in refs
    /\ Whole(r, upstream[r][v])

Downloaded ==
    /\ ~fetched
    /\ \A r \in Repos : \A v \in spec[r] : Loadable(r, v)
    /\ fetched' = TRUE
    /\ UNCHANGED <<entry, locks, tree, linked, spec, upstream, fetches, phase, locals>>

-----------------------------------------------------------------------------
(* Prune, its entries one by one. *)

\* OpenRoot and the names of the entries.
Open ==
    /\ fetched
    /\ phase \notin Running
    /\ phase' = "entries"
    /\ todo' = {r \in Repos : entry[r] # "none"}
    /\ UNCHANGED <<entry, locks, tree, linked, fetchVars, repo, repos, commits, used, blobs>>

Stale(r) == spec[r] = {} \/ entry[r] # "dir"

\* RemoveAll of a stale entry, which goes last: some of its directories D, or
\* all of them and the entry.  A symlink is deleted, never what it leads to.
RemoveAll(r, D) ==
    /\ phase = "entries"
    /\ r \in todo
    /\ Stale(r)
    /\ refs' = {t \in refs : ~(t[1] = r /\ "refs" \in D)}
    /\ snapshots' = {t \in snapshots : ~(t[1] = r /\ "snapshots" \in D)}
    /\ links' = {t \in links : ~(t[1] = r /\ "snapshots" \in D)}
    /\ files' = {t \in files : ~(t[1] = r /\ "blobs" \in D)}
    /\ pointers' = {t \in pointers : ~(t[1] = r /\ "blobs" \in D)}
    /\ linked' = {t \in linked : ~(t[1] = r /\ t[2] \in D)}
    /\ \/ /\ D = Dirs
          /\ entry' = [entry EXCEPT ![r] = "none"]
          /\ todo' = todo \ {r}
          /\ phase' = "locks"
          /\ repo' = r
       \/ D # Dirs /\ UNCHANGED <<entry, todo, phase, repo>>
    /\ UNCHANGED <<locks, fetchVars, repos, commits, used, blobs>>

RemoveLocks ==
    /\ phase = "locks"
    /\ locks' = IF IsDir(Hub, ".locks") THEN locks \ {repo} ELSE locks
    /\ phase' = "entries"
    /\ repo' = NoRepo
    /\ UNCHANGED <<entry, tree, linked, fetchVars, todo, repos, commits, used, blobs>>

Enter(r) ==
    /\ phase = "entries"
    /\ r \in todo
    /\ ~Stale(r)
    /\ todo' = todo \ {r}
    /\ repos' = repos \union {r}
    /\ repo' = r
    /\ phase' = "refs"
    /\ UNCHANGED <<entry, locks, tree, linked, fetchVars, commits, used, blobs>>

\* The references a prune deletes.
Unnamed == {t \in refs : t[1] = repo /\ IsDir(repo, "refs") /\ ~Names(repo, t[2])}

RemoveRef(t) ==
    /\ phase = "refs"
    /\ t \in Unnamed
    /\ refs' = refs \ {t}
    /\ UNCHANGED <<entry, locks, snapshots, links, files, pointers, linked, fetchVars, phase, locals>>

\* The walk over the references has read the commits of the others.
ReadRefs ==
    /\ phase = "refs"
    /\ Unnamed = {}
    /\ commits' = Named(repo)
    /\ phase' = "snapshots"
    /\ UNCHANGED <<entry, locks, tree, linked, fetchVars, repo, todo, repos, used, blobs>>

\* The snapshots a prune deletes.
Unpinned == {s \in snapshots : s[1] = repo /\ IsDir(repo, "snapshots") /\ s[2] \notin commits}

\* RemoveAll of a snapshot: its links, then its directory.
RemoveSnapshot(s) ==
    LET own == {l \in links : l[1] = s[1] /\ l[2] = s[2]} IN
    /\ phase = "snapshots"
    /\ s \in Unpinned
    /\ \/ \E l \in own : links' = links \ {l} /\ UNCHANGED snapshots
       \/ own = {} /\ snapshots' = snapshots \ {s} /\ UNCHANGED links
    /\ UNCHANGED <<entry, locks, refs, files, pointers, linked, fetchVars, phase, locals>>

RepositoryDone ==
    /\ phase = "snapshots"
    /\ Unpinned = {}
    /\ phase' = "entries"
    /\ repo' = NoRepo
    /\ commits' = {}
    /\ UNCHANGED <<entry, locks, tree, linked, fetchVars, todo, repos, used, blobs>>

EntriesDone ==
    /\ phase = "entries"
    /\ todo = {}
    /\ phase' = "collect"
    /\ UNCHANGED <<entry, locks, tree, linked, fetchVars, locals>>

\* A blob that is a symlink, and dangling or out of the hub, is deleted while
\* the blobs are collected.
RemoveDangling(e) ==
    /\ phase = "collect"
    /\ e \in Walked(repos)
    /\ Resolve(e) = {}
    /\ pointers' = pointers \ {e}
    /\ UNCHANGED <<entry, locks, refs, snapshots, links, files, linked, fetchVars, phase, locals>>

\* The walks over the snapshots and the blobs are done.
Collected ==
    /\ phase = "collect"
    /\ \A e \in Walked(repos) : Resolve(e) # {}
    /\ used' = LinkedTo(repos)
    /\ blobs' = UNION {{e} \X Resolve(e) : e \in Walked(repos)}
    /\ phase' = "sweep"
    /\ UNCHANGED <<entry, locks, tree, linked, fetchVars, repo, todo, repos, commits>>

\* The next blob of the collected ones, in any order, is not used.
RemoveBlob(p) ==
    /\ phase = "sweep"
    /\ p \in blobs
    /\ p[2] \notin used
    /\ files' = files \ {p[1]}
    /\ pointers' = pointers \ {p[1]}
    /\ blobs' = blobs \ {p}
    /\ UNCHANGED <<entry, locks, refs, snapshots, links, linked, fetchVars, phase, repo, todo, repos, commits, used>>

Return ==
    /\ phase = "sweep"
    /\ \A p \in blobs : p[2] \in used
    /\ Exit("done")
    /\ UNCHANGED <<entry, locks, tree, linked, fetchVars>>

\* The prune is killed, or a call of it returns an error: it stops at once.
Kill ==
    /\ phase \in Running
    /\ Exit("idle")
    /\ UNCHANGED <<entry, locks, tree, linked, fetchVars>>

Prune ==
    \/ \E r \in Repos : Enter(r) \/ RemoveAll(r, Dirs)
    \/ RemoveLocks
    \/ \E t \in refs : RemoveRef(t)
    \/ ReadRefs
    \/ \E s \in snapshots : RemoveSnapshot(s)
    \/ RepositoryDone
    \/ EntriesDone
    \/ \E e \in pointers : RemoveDangling(e)
    \/ Collected
    \/ \E p \in blobs : RemoveBlob(p)
    \/ Return

Fetch ==
    \/ \E s \in Specs, u \in Upstreams : Restart(s, u)
    \/ \E r \in Repos : \E v \in spec[r], B \in SUBSET Blobs, s \in {r, Hub} : Download(r, v, B, s)
    \/ Downloaded

Next ==
    \/ Fetch
    \/ Open
    \/ Prune
    \/ \E r \in Repos, D \in {{"refs"}, {"snapshots"}, {"blobs"}} : RemoveAll(r, D)
    \/ Kill

Spec == Init /\ [][Next]_vars

-----------------------------------------------------------------------------
(* What the configuration leads to without leaving the hub. *)

Kept(r) == spec[r] # {} /\ entry[r] = "dir"

KeptRefs == {t \in refs : Kept(t[1]) /\ (IsDir(t[1], "refs") => Names(t[1], t[2]))}

KeptSnapshots ==
    {s \in snapshots : Kept(s[1]) /\ (IsDir(s[1], "snapshots") => s[2] \in Named(s[1]))}

KeptLinks == {l \in links : <<l[1], l[2]>> \in KeptSnapshots}

KeptFiles ==
    UNION {Resolve(<<l[1], l[3]>>) : l \in {k \in KeptLinks : IsDir(k[1], "snapshots")}}

KeptBlobs ==
    {e \in files \union pointers :
        /\ e[1] = Hub \/ Kept(e[1])
        /\ IsDir(e[1], "blobs") => Resolve(e) \intersect KeptFiles # {}}

\* The entries of the cache, each tagged with its kind.
Tree(rs, ss, ls, bs) ==
    ({"ref"} \X rs) \union ({"snapshot"} \X ss) \union ({"link"} \X ls) \union ({"blob"} \X bs)

C == INSTANCE Collector WITH
    cache <- Tree(refs, snapshots, links, files \union pointers),
    keep <- Tree(KeptRefs, KeptSnapshots, KeptLinks, KeptBlobs),
    clean <- phase = "done"

-----------------------------------------------------------------------------
(* Properties. *)

\* Once a download is complete, every configured revision leads an offline
\* server to a whole snapshot, before, during and after every prune and
\* wherever one is killed, unless a user has moved the references or the
\* snapshots of the repository elsewhere, or the shared blobs out of the hub:
\* the entries that point to those are deleted like dangling ones, whatever links
\* to them.
ServedStaysWhole ==
    fetched /\ ~Escapes(Hub) =>
        \A r \in Repos :
            IsDir(r, "refs") /\ IsDir(r, "snapshots") => \A v \in spec[r] : Loadable(r, v)

\* After a complete download a prune deletes only what the configuration does
\* not lead to without leaving the hub, which its own deletions never change,
\* enters no directory that is a symlink, and once it returns, also if earlier
\* ones were killed halfway, nothing else is left.
ImplementsCollector == C!Spec

\* A prune that has returned has left no locks of a repository it does not
\* keep ("removeStale deletes the stale repo and its locks").
NoStaleLocks ==
    phase = "done" /\ IsDir(Hub, ".locks") => \A r \in locks : spec[r] # {}

=============================================================================
