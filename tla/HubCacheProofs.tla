--------------------------- MODULE HubCacheProofs ---------------------------
(***************************************************************************)
(* Proofs about HubCache: a prune keeps what the configuration leads to,   *)
(* for every cache, configuration and instant at which it is killed.       *)
(***************************************************************************)
EXTENDS HubCache, TLAPS

-----------------------------------------------------------------------------
(* The inductive invariant. *)

\* Everything is in a directory that exists, a link is in a snapshot, an entry
\* of a blob directory is a file or a symlink, and a symlink is where its
\* repository is.
TreeInv ==
    /\ \A t \in refs : entry[t[1]] = "dir"
    /\ \A s \in snapshots : entry[s[1]] = "dir"
    /\ \A l \in links : <<l[1], l[2]>> \in snapshots
    /\ \A e \in files : e[1] # Hub => entry[e[1]] = "dir"
    /\ \A e \in pointers : entry[e[1]] = "dir" /\ IsDir(e[1], "blobs")
    /\ files \intersect pointers = {}

\* Every entry is gone, still to be visited, or one that is kept.
EntriesInv ==
    /\ phase \notin Running => repos = {} /\ repo = NoRepo
    /\ phase # "idle" => fetched
    /\ phase \in Running =>
        /\ \A r \in Repos : entry[r] = "none" \/ r \in todo \/ r \in repos
        /\ \A r \in repos : Kept(r)
        /\ phase \in {"refs", "snapshots"} => repo \in repos
        /\ phase = "locks" => repo \notin repos
        /\ phase \in {"entries", "collect", "sweep"} => repo = NoRepo
        /\ phase \in {"collect", "sweep"} => todo = {}

\* A repository that has been visited has lost what is not kept.
VisitedInv ==
    phase \in Running =>
        /\ \A t \in refs :
               /\ t[1] \in repos /\ IsDir(t[1], "refs")
               /\ t[1] = repo => phase # "refs"
               => Names(t[1], t[2])
        /\ phase = "snapshots" => commits = Named(repo)
        /\ \A s \in snapshots :
               s[1] \in repos /\ IsDir(s[1], "snapshots") /\ s[1] # repo => s[2] \in Named(s[1])

\* What a sweep has collected is still so.
SweepInv ==
    phase = "sweep" =>
        /\ used = LinkedTo(repos)
        /\ \A p \in blobs :
               /\ p[1] \in Walked(repos)
               /\ p[2] \in used => p[2] \in Resolve(p[1])
               /\ Resolve(p[1]) \subseteq {p[2]}
        /\ \A p, q \in blobs : p[1] = q[1] => p = q
        /\ \A e \in Walked(repos) : \E p \in blobs : p[1] = e

IInv == TypeOK /\ TreeInv /\ EntriesInv /\ VisitedInv /\ SweepInv

-----------------------------------------------------------------------------
(* Types. *)

LEMMA InitIInv == Init => IInv
  <1> SUFFICES ASSUME Init PROVE IInv
      OBVIOUS
  <1> USE HubCacheAssumption DEF Init
  <1>1. TypeOK
      BY DEF TypeOK, Running, Stores
  <1>2. TreeInv
      BY DEF TreeInv
  <1>3. EntriesInv /\ VisitedInv /\ SweepInv
      BY DEF EntriesInv, VisitedInv, SweepInv, Running
  <1> QED
      BY <1>1, <1>2, <1>3 DEF IInv

\* The steps of a prune that keep or delete entries.
Deletes ==
    \/ \E r \in Repos, D \in {{"refs"}, {"snapshots"}, {"blobs"}, Dirs} : RemoveAll(r, D)
    \/ \E t \in refs : RemoveRef(t)
    \/ \E s \in snapshots : RemoveSnapshot(s)
    \/ \E e \in pointers : RemoveDangling(e)
    \/ \E p \in blobs : RemoveBlob(p)

\* The steps of a prune that delete nothing of the tree.
Moves ==
    \/ Open \/ RemoveLocks \/ \E r \in Repos : Enter(r)
    \/ ReadRefs \/ RepositoryDone \/ EntriesDone \/ Collected \/ Return \/ Kill

LEMMA NextCases ==
    ASSUME [Next]_vars
    PROVE  Fetch \/ Deletes \/ Moves \/ UNCHANGED vars
  BY DEF Next, Prune, Deletes, Moves

LEMMA RemoveAllType ==
    ASSUME TypeOK, NEW r \in Repos, NEW D \in SUBSET Dirs, RemoveAll(r, D)
    PROVE  TypeOK'
  <1> USE DEF RemoveAll, fetchVars
  <1>1. /\ refs' \subseteq refs /\ snapshots' \subseteq snapshots /\ links' \subseteq links
        /\ files' \subseteq files /\ pointers' \subseteq pointers /\ linked' \subseteq linked
      OBVIOUS
  <1>2. /\ entry' \in [Repos -> {"none", "dir", "other"}]
        /\ phase' \in Running /\ repo' \in Repos \union {NoRepo}
        /\ phase' \in {"locks", "refs", "snapshots"} => repo' \in Repos
        /\ todo' \subseteq Repos
      BY DEF TypeOK, Running
  <1> QED
      BY <1>1, <1>2 DEF TypeOK

LEMMA DeletesType ==
    ASSUME TypeOK, Deletes
    PROVE  TypeOK'
  <1> USE DEF TypeOK, fetchVars, locals
  <1>1. CASE \E r \in Repos, D \in {{"refs"}, {"snapshots"}, {"blobs"}, Dirs} : RemoveAll(r, D)
      BY <1>1, RemoveAllType DEF Dirs
  <1>2. CASE \E t \in refs : RemoveRef(t)
      BY <1>2 DEF RemoveRef
  <1>3. CASE \E s \in snapshots : RemoveSnapshot(s)
      BY <1>3 DEF RemoveSnapshot
  <1>4. CASE \E e \in pointers : RemoveDangling(e)
      BY <1>4 DEF RemoveDangling
  <1>5. CASE \E p \in blobs : RemoveBlob(p)
      BY <1>5 DEF RemoveBlob
  <1> QED
      BY <1>1, <1>2, <1>3, <1>4, <1>5 DEF Deletes

LEMMA MovesType ==
    ASSUME TypeOK, Moves
    PROVE  TypeOK'
  <1> USE DEF TypeOK, tree, fetchVars, locals, Running
  <1>1. CASE Open
      BY <1>1 DEF Open
  <1>2. CASE RemoveLocks
      BY <1>2 DEF RemoveLocks
  <1>3. CASE \E r \in Repos : Enter(r)
      BY <1>3 DEF Enter
  <1>4. CASE ReadRefs
    <2>1. Named(repo) \subseteq Revisions
        BY <1>4, HubCacheAssumption DEF ReadRefs, Named, Revisions
    <2> QED
        BY <1>4, <2>1 DEF ReadRefs
  <1>5. CASE RepositoryDone
      BY <1>5 DEF RepositoryDone
  <1>6. CASE EntriesDone
      BY <1>6 DEF EntriesDone
  <1>7. CASE Collected
    <2>1. LinkedTo(repos) \subseteq files
        BY DEF LinkedTo, Resolve, Target
    <2>2. Walked(repos) \subseteq Stores \X Blobs
        BY DEF Walked, Stores
    <2>3. \A e : Resolve(e) \subseteq Stores \X Blobs
        BY DEF Resolve, Target
    <2>4. blobs' \subseteq (Stores \X Blobs) \X (Stores \X Blobs)
        BY <1>7, <2>2, <2>3 DEF Collected
    <2> QED
        BY <1>7, <2>1, <2>4 DEF Collected
  <1>8. CASE Return \/ Kill
      BY <1>8 DEF Return, Kill, Exit
  <1> QED
      BY <1>1, <1>2, <1>3, <1>4, <1>5, <1>6, <1>7, <1>8 DEF Moves

LEMMA FetchType ==
    ASSUME TypeOK, Fetch
    PROVE  TypeOK'
  <1>1. ASSUME NEW s \in Specs, NEW u \in Upstreams, Restart(s, u)
        PROVE  TypeOK'
    <2>1. /\ spec' \in Specs /\ upstream' \in Upstreams /\ fetched' = FALSE /\ fetches' = fetches + 1
          /\ UNCHANGED <<entry, locks, refs, snapshots, links, files, pointers, linked>>
        BY <1>1 DEF Restart, tree
    <2>2. /\ phase' = "idle" /\ repo' = NoRepo
          /\ todo' = {} /\ repos' = {} /\ commits' = {} /\ used' = {} /\ blobs' = {}
        BY <1>1 DEF Restart, Exit
    <2>3. fetches' \in Nat
        BY <2>1 DEF TypeOK
    <2>4. fetched' \in BOOLEAN
        BY <2>1
    <2>5. /\ entry' \in [Repos -> {"none", "dir", "other"}] /\ locks' \subseteq Repos
          /\ refs' \subseteq Repos \X Refs \X Commits /\ snapshots' \subseteq Repos \X Commits
          /\ links' \subseteq Repos \X Commits \X Blobs
          /\ files' \subseteq Stores \X Blobs /\ pointers' \subseteq Repos \X Blobs
          /\ linked' \subseteq Symlinks
        BY <2>1 DEF TypeOK
    <2> QED
        BY <2>1, <2>2, <2>3, <2>4, <2>5 DEF TypeOK
  <1>2. ASSUME NEW r \in Repos, NEW v \in spec[r], NEW B \in SUBSET Blobs, NEW s \in {r, Hub},
               Download(r, v, B, s)
        PROVE  TypeOK'
    <2> DEFINE c == upstream[r][v]
    <2>1. c \in Commits /\ v \in Revisions /\ s \in Stores
        BY HubCacheAssumption DEF TypeOK, Stores
    <2>2. v \notin Commits => RefOf(v) \in Refs
        BY <2>1, HubCacheAssumption DEF RefOf, Revisions
    <2>3. refs' \subseteq Repos \X Refs \X Commits
        BY <1>2, <2>1, <2>2 DEF Download, TypeOK
    <2>4. snapshots' \subseteq Repos \X Commits /\ links' \subseteq Repos \X Commits \X Blobs
        BY <1>2, <2>1 DEF Download, TypeOK
    <2>5. files' \subseteq Stores \X Blobs /\ pointers' \subseteq Repos \X Blobs
        BY <1>2, <2>1 DEF Download, TypeOK
    <2>6. entry' \in [Repos -> {"none", "dir", "other"}] /\ locks' \subseteq Repos
        BY <1>2 DEF Download, TypeOK
    <2> QED
        BY <1>2, <2>3, <2>4, <2>5, <2>6 DEF Download, TypeOK, fetchVars, locals
  <1>3. CASE Downloaded
      BY <1>3 DEF TypeOK, Downloaded, tree, locals
  <1> QED
      BY <1>1, <1>2, <1>3 DEF Fetch

-----------------------------------------------------------------------------
(* The tree stays well formed. *)

LEMMA FetchTree ==
    ASSUME TypeOK, TreeInv, Fetch
    PROVE  TreeInv'
  <1>1. CASE \E s \in Specs, u \in Upstreams : Restart(s, u)
      BY <1>1 DEF Restart, tree, TreeInv, IsDir
  <1>2. ASSUME NEW r \in Repos, NEW v \in spec[r], NEW B \in SUBSET Blobs, NEW s \in {r, Hub},
               Download(r, v, B, s)
        PROVE  TreeInv'
    <2> DEFINE c == upstream[r][v]
               missing == {b \in B : Target(<<r, b>>) = {}}
    <2>1. entry' = [entry EXCEPT ![r] = "dir"] /\ entry \in [Repos -> {"none", "dir", "other"}]
        BY <1>2 DEF Download, TypeOK
    <2>2. \A x \in Repos : (entry[x] = "dir" \/ x = r) => entry'[x] = "dir"
        BY <2>1
    <2>3. \A t \in refs' : entry'[t[1]] = "dir"
      <3>1. \A t \in refs' : t \in refs \/ t = <<r, RefOf(v), c>>
          BY <1>2 DEF Download
      <3>2. \A t \in refs : t[1] \in Repos
          BY DEF TypeOK
      <3> QED
          BY <2>2, <3>1, <3>2 DEF TreeInv
    <2>4. \A t \in snapshots' : entry'[t[1]] = "dir"
      <3>1. snapshots' = snapshots \union {<<r, c>>}
          BY <1>2 DEF Download
      <3>2. \A t \in snapshots : t[1] \in Repos
          BY DEF TypeOK
      <3> QED
          BY <2>2, <3>1, <3>2 DEF TreeInv
    <2>5. \A l \in links' : <<l[1], l[2]>> \in snapshots'
        BY <1>2 DEF Download, TreeInv
    <2>6. files' = files \union ({s} \X missing)
        BY <1>2 DEF Download
    <2>7. \A e \in files' : e[1] # Hub => entry'[e[1]] = "dir"
      <3>1. \A e \in files : e[1] # Hub => e[1] \in Repos
          BY DEF TypeOK, Stores
      <3> QED
          BY <2>2, <2>6, <3>1 DEF TreeInv
    <2>8. pointers' = IF s = Hub THEN pointers \union ({r} \X missing) ELSE pointers \ ({r} \X missing)
        BY <1>2 DEF Download
    <2>9. \A e \in pointers' : entry'[e[1]] = "dir" /\ IsDir(e[1], "blobs")'
      <3>1. \A e \in pointers : e[1] \in Repos
          BY DEF TypeOK
      <3>2. (s = Hub => IsDir(r, "blobs")) /\ linked' = linked
          BY <1>2 DEF Download
      <3>3. \A e \in pointers' : entry'[e[1]] = "dir"
          BY <2>2, <2>8, <3>1 DEF TreeInv
      <3>4. \A e \in pointers' : IsDir(e[1], "blobs")
          BY <2>8, <3>2 DEF TreeInv
      <3> QED
          BY <3>2, <3>3, <3>4 DEF IsDir
    <2>10. files' \intersect pointers' = {}
      <3>1. \A b \in missing : <<r, b>> \notin files
          BY DEF Target
      <3>2. \A e \in pointers : e[1] # Hub
          BY HubCacheAssumption DEF TypeOK
      <3>3. r # Hub
          BY HubCacheAssumption
      <3>4. CASE s = Hub
          BY <2>6, <2>8, <3>1, <3>2, <3>3, <3>4 DEF TreeInv
      <3>5. CASE s = r
          BY <2>6, <2>8, <3>3, <3>5 DEF TreeInv
      <3> QED
          BY <3>4, <3>5
    <2> QED
        BY <2>3, <2>4, <2>5, <2>7, <2>9, <2>10 DEF TreeInv
  <1>3. CASE Downloaded
      BY <1>3 DEF Downloaded, tree, TreeInv, IsDir
  <1> QED
      BY <1>1, <1>2, <1>3 DEF Fetch

LEMMA RemoveAllTree ==
    ASSUME TypeOK, TreeInv, NEW r \in Repos, NEW D \in SUBSET Dirs, RemoveAll(r, D)
    PROVE  TreeInv'
  <1>1. /\ refs' = {t \in refs : ~(t[1] = r /\ "refs" \in D)}
        /\ snapshots' = {t \in snapshots : ~(t[1] = r /\ "snapshots" \in D)}
        /\ links' = {t \in links : ~(t[1] = r /\ "snapshots" \in D)}
        /\ files' = {t \in files : ~(t[1] = r /\ "blobs" \in D)}
        /\ pointers' = {t \in pointers : ~(t[1] = r /\ "blobs" \in D)}
      BY DEF RemoveAll
  <1>2. (D = Dirs /\ entry' = [entry EXCEPT ![r] = "none"]) \/ entry' = entry
      BY DEF RemoveAll
  <1>3. \A x \in Repos : (entry[x] = "dir" /\ (x = r => D # Dirs)) => entry'[x] = "dir"
      BY <1>2 DEF TypeOK
  <1>4. "refs" \in Dirs /\ "snapshots" \in Dirs /\ "blobs" \in Dirs
      BY DEF Dirs
  <1>5. /\ \A t \in refs : t[1] \in Repos
        /\ \A t \in snapshots : t[1] \in Repos
        /\ \A t \in pointers : t[1] \in Repos
        /\ \A t \in files : t[1] # Hub => t[1] \in Repos
      BY DEF TypeOK, Stores
  <1>6. (\A t \in refs' : entry'[t[1]] = "dir") /\ (\A t \in snapshots' : entry'[t[1]] = "dir")
      BY <1>1, <1>3, <1>4, <1>5 DEF TreeInv
  <1>7. (\A t \in files' : t[1] # Hub => entry'[t[1]] = "dir") /\ (\A t \in pointers' : entry'[t[1]] = "dir")
      BY <1>1, <1>3, <1>4, <1>5 DEF TreeInv
  <1>8. \A l \in links' : <<l[1], l[2]>> \in snapshots'
      BY <1>1 DEF TreeInv
  <1>9. files' \intersect pointers' = {}
      BY <1>1 DEF TreeInv
  <1>10. \A t \in pointers' : IsDir(t[1], "blobs")'
    <2>1. linked' \subseteq linked
        BY DEF RemoveAll
    <2> QED
        BY <1>1, <2>1 DEF TreeInv, IsDir
  <1> QED
      BY <1>6, <1>7, <1>8, <1>9, <1>10 DEF TreeInv

LEMMA DeletesTree ==
    ASSUME TypeOK, TreeInv, Deletes
    PROVE  TreeInv'
  <1>1. CASE \E r \in Repos, D \in {{"refs"}, {"snapshots"}, {"blobs"}, Dirs} : RemoveAll(r, D)
      BY <1>1, RemoveAllTree DEF Dirs
  <1>2. CASE \E t \in refs : RemoveRef(t)
      BY <1>2 DEF RemoveRef, TreeInv, IsDir
  <1>3. ASSUME NEW s \in snapshots, RemoveSnapshot(s)
        PROVE  TreeInv'
    <2>2. links' \subseteq links /\ snapshots' \subseteq snapshots
        BY <1>3 DEF RemoveSnapshot
    <2>3. \A l \in links' : <<l[1], l[2]>> \in snapshots'
      <3> DEFINE own == {l \in links : l[1] = s[1] /\ l[2] = s[2]}
      <3>1. \A l \in links : <<l[1], l[2]>> = s => l \in own
          OBVIOUS
      <3>2. CASE snapshots' = snapshots
          BY <2>2, <3>2 DEF TreeInv
      <3>3. CASE own = {} /\ snapshots' = snapshots \ {s} /\ links' = links
          BY <3>1, <3>3 DEF TreeInv
      <3> QED
          BY <1>3, <3>2, <3>3 DEF RemoveSnapshot
    <2> QED
        BY <1>3, <2>2, <2>3 DEF RemoveSnapshot, TreeInv, IsDir
  <1>4. CASE \E e \in pointers : RemoveDangling(e)
      BY <1>4 DEF RemoveDangling, TreeInv, IsDir
  <1>5. CASE \E p \in blobs : RemoveBlob(p)
      BY <1>5 DEF RemoveBlob, TreeInv, IsDir
  <1> QED
      BY <1>1, <1>2, <1>3, <1>4, <1>5 DEF Deletes

LEMMA MovesTree ==
    ASSUME TreeInv, Moves
    PROVE  /\ TreeInv'
           /\ UNCHANGED <<entry, refs, snapshots, links, files, pointers, linked, fetchVars>>
  <1>1. UNCHANGED <<entry, refs, snapshots, links, files, pointers, linked, fetchVars>>
      BY DEF Moves, Open, RemoveLocks, Enter, ReadRefs, RepositoryDone, EntriesDone, Collected,
             Return, Kill, tree, fetchVars
  <1> QED
      BY <1>1 DEF TreeInv, IsDir

-----------------------------------------------------------------------------
(* What is kept never changes. *)

\* Every blob directory stays where it is, or loses all of its entries, X.
StoresStay(X) ==
    \A s : \/ Escapes(s)' = Escapes(s)
           \/ s # Hub /\ \A e \in files \union pointers : e[1] = s => e \in X

\* Deleting the entries X of the blob directories.
LEMMA ResolveMinus ==
    ASSUME NEW X, files' = files \ X, pointers' = pointers \ X, StoresStay(X), NEW e
    PROVE  Resolve(e)' = {f \in Resolve(e) : f \notin X /\ (f = e \/ e \notin X)}
  <1>1. Target(e)' = {f \in Target(e) : f \notin X /\ (f = e \/ e \notin X)}
      BY DEF Target
  <1>2. Resolve(e)' = {f \in Target(e)' : ~Escapes(e[1])' /\ ~Escapes(f[1])'}
      BY DEF Resolve
  <1>3. ASSUME NEW f \in Target(e), f \notin X, f = e \/ e \notin X
        PROVE  Escapes(e[1])' = Escapes(e[1]) /\ Escapes(f[1])' = Escapes(f[1])
    <2>1. f \in files /\ (f = e \/ (e \in pointers /\ f = <<Hub, e[2]>>))
        BY DEF Target
    <2>2. Escapes(e[1])' = Escapes(e[1])
        BY <1>3, <2>1 DEF StoresStay
    <2>3. Escapes(f[1])' = Escapes(f[1])
        BY <1>3, <2>1 DEF StoresStay
    <2> QED
        BY <2>2, <2>3
  <1> QED
      BY <1>1, <1>2, <1>3 DEF Resolve

\* A file that a kept link leads to is inside the hub.
LEMMA FileResolves ==
    ASSUME NEW f \in KeptFiles
    PROVE  f \in Resolve(f)
  <1>1. PICK l \in KeptLinks : f \in Resolve(<<l[1], l[3]>>)
      BY DEF KeptFiles
  <1> QED
      BY <1>1 DEF Resolve, Target

\* The entries X can go: they are not kept, and no kept link goes through them.
LEMMA BlobsStable ==
    ASSUME NEW X, files' = files \ X, pointers' = pointers \ X, StoresStay(X),
           KeptLinks' = KeptLinks,
           \A l \in KeptLinks : IsDir(l[1], "snapshots")' = IsDir(l[1], "snapshots"),
           \A e \in files \union pointers :
               /\ e[1] # Hub => Kept(e[1])' = Kept(e[1])
               /\ Kept(e[1]) \/ e[1] = Hub => IsDir(e[1], "blobs")' = IsDir(e[1], "blobs"),
           X \intersect KeptBlobs = {},
           X \intersect KeptFiles = {},
           \A l \in KeptLinks :
               IsDir(l[1], "snapshots") /\ <<l[1], l[3]>> \in X => Resolve(<<l[1], l[3]>>) = {}
    PROVE  /\ \A l \in KeptLinks :
                  IsDir(l[1], "snapshots") => Resolve(<<l[1], l[3]>>)' = Resolve(<<l[1], l[3]>>)
           /\ KeptFiles' = KeptFiles
           /\ KeptBlobs' = KeptBlobs
  <1>1. ASSUME NEW l \in KeptLinks, IsDir(l[1], "snapshots")
        PROVE  Resolve(<<l[1], l[3]>>)' = Resolve(<<l[1], l[3]>>)
    <2>1. Resolve(<<l[1], l[3]>>) \subseteq KeptFiles
        BY <1>1 DEF KeptFiles
    <2>2. <<l[1], l[3]>> \in X => Resolve(<<l[1], l[3]>>) = {}
        BY <1>1
    <2> DEFINE e == <<l[1], l[3]>>
    <2>3. Resolve(e)' = {f \in Resolve(e) : f \notin X /\ (f = e \/ e \notin X)}
        BY ResolveMinus
    <2> HIDE DEF e
    <2> QED
        BY <2>1, <2>2, <2>3 DEF e
  <1>2. KeptFiles' = KeptFiles
    <2>1. KeptFiles' = UNION {Resolve(<<l[1], l[3]>>)' : l \in {k \in KeptLinks : IsDir(k[1], "snapshots")}}
        BY DEF KeptFiles
    <2>2. {Resolve(<<l[1], l[3]>>)' : l \in {k \in KeptLinks : IsDir(k[1], "snapshots")}} =
          {Resolve(<<l[1], l[3]>>) : l \in {k \in KeptLinks : IsDir(k[1], "snapshots")}}
        BY <1>1
    <2> QED
        BY <2>1, <2>2 DEF KeptFiles
  <1>3. ASSUME NEW e, e \notin X
        PROVE  (Resolve(e) \intersect KeptFiles)' = Resolve(e) \intersect KeptFiles
      BY <1>2, <1>3, ResolveMinus
  <1>4. ASSUME NEW e, e \in KeptBlobs
        PROVE  e \in KeptBlobs'
    <2>1. e \in files \union pointers /\ e \notin X
        BY <1>4 DEF KeptBlobs
    <2>2. e \in files' \union pointers'
        BY <2>1
    <2> QED
        BY <1>3, <1>4, <2>1, <2>2 DEF KeptBlobs
  <1>5. ASSUME NEW e, e \in KeptBlobs'
        PROVE  e \in KeptBlobs
    <2>1. e \in files' \union pointers'
        BY <1>5 DEF KeptBlobs
    <2>2. e \in files \union pointers /\ e \notin X
        BY <2>1
    <2> QED
        BY <1>3, <1>5, <2>2 DEF KeptBlobs
  <1>6. KeptBlobs' = KeptBlobs
      BY <1>4, <1>5
  <1> QED
      BY <1>1, <1>2, <1>6

\* Everything a step of a prune leaves alone.
StableTree ==
    /\ KeptRefs' = KeptRefs
    /\ KeptSnapshots' = KeptSnapshots
    /\ KeptLinks' = KeptLinks
    /\ KeptFiles' = KeptFiles
    /\ KeptBlobs' = KeptBlobs
    /\ refs' \subseteq refs /\ snapshots' \subseteq snapshots /\ links' \subseteq links
    /\ (files \union pointers)' \subseteq files \union pointers
    /\ \A l \in KeptLinks :
           IsDir(l[1], "snapshots") => Resolve(<<l[1], l[3]>>)' = Resolve(<<l[1], l[3]>>)

StableRepos ==
    /\ \A r \in Repos :
           /\ Kept(r)' = Kept(r)
           /\ Kept(r) => /\ Named(r)' = Named(r) /\ Escapes(r)' = Escapes(r)
                         /\ \A d : IsDir(r, d)' = IsDir(r, d)
    /\ Escapes(Hub)' = Escapes(Hub) /\ \A d : IsDir(Hub, d)' = IsDir(Hub, d)

\* The kept references, snapshots and links depend on these alone.
LEMMA NamesStable ==
    ASSUME TypeOK, StableRepos,
           refs' \subseteq refs, snapshots' \subseteq snapshots, links' \subseteq links,
           KeptRefs \subseteq refs', KeptSnapshots \subseteq snapshots', KeptLinks \subseteq links',
           spec' = spec
    PROVE  KeptRefs' = KeptRefs /\ KeptSnapshots' = KeptSnapshots /\ KeptLinks' = KeptLinks
  <1>1. \A r, x : Names(r, x)' = Names(r, x)
      BY DEF Names
  <1>2. (\A t \in refs : t[1] \in Repos) /\ (\A s \in snapshots : s[1] \in Repos)
      BY DEF TypeOK
  <1>3. KeptRefs' = KeptRefs
      BY <1>1, <1>2 DEF KeptRefs, StableRepos
  <1>4. KeptSnapshots' = KeptSnapshots
      BY <1>2 DEF KeptSnapshots, StableRepos
  <1>5. KeptLinks' = KeptLinks
      BY <1>4 DEF KeptLinks
  <1> QED
      BY <1>3, <1>4, <1>5

LEMMA RemoveAllStable ==
    ASSUME TypeOK, TreeInv, NEW r \in Repos, NEW D \in SUBSET Dirs, RemoveAll(r, D)
    PROVE  StableTree /\ StableRepos
  <1>1. /\ refs' = {t \in refs : ~(t[1] = r /\ "refs" \in D)}
        /\ snapshots' = {t \in snapshots : ~(t[1] = r /\ "snapshots" \in D)}
        /\ links' = {t \in links : ~(t[1] = r /\ "snapshots" \in D)}
        /\ files' = {t \in files : ~(t[1] = r /\ "blobs" \in D)}
        /\ pointers' = {t \in pointers : ~(t[1] = r /\ "blobs" \in D)}
        /\ linked' = {t \in linked : ~(t[1] = r /\ t[2] \in D)}
        /\ spec' = spec
      BY DEF RemoveAll, fetchVars
  <1>2. \A x \in Repos : Kept(x)' = Kept(x)
      BY DEF RemoveAll, Kept, Stale, fetchVars, TypeOK
  <1>3. ~Kept(r)
      BY DEF RemoveAll, Kept, Stale
  <1>4. \A x, d : x # r => IsDir(x, d)' = IsDir(x, d) /\ Escapes(x)' = Escapes(x)
      BY <1>1 DEF IsDir, Escapes
  <1>5. \A x : x # r => Named(x)' = Named(x)
    <2>1. ASSUME NEW x, x # r
          PROVE  {t \in refs : t[1] = x /\ IsDir(x, "refs") /\ Names(x, t[2])}'
                 = {t \in refs : t[1] = x /\ IsDir(x, "refs") /\ Names(x, t[2])}
        BY <1>1, <1>4, <2>1 DEF Names
    <2> QED
        BY <1>1, <2>1 DEF Named
  <1>6. StableRepos
      BY <1>2, <1>3, <1>4, <1>5, HubCacheAssumption DEF StableRepos
  <1>7. /\ \A t \in refs : t[1] \in Repos
        /\ \A t \in snapshots : t[1] \in Repos
        /\ \A l \in links : l[1] \in Repos
      BY DEF TypeOK
  <1>8. KeptRefs' = KeptRefs /\ KeptSnapshots' = KeptSnapshots /\ KeptLinks' = KeptLinks
    <2>1. KeptRefs \subseteq refs' /\ KeptSnapshots \subseteq snapshots'
        BY <1>1, <1>3 DEF KeptRefs, KeptSnapshots
    <2>2. \A l \in KeptLinks : l \in links /\ l[1] # r
        BY <1>3 DEF KeptLinks, KeptSnapshots
    <2>3. KeptLinks \subseteq links'
        BY <1>1, <2>2
    <2>4. refs' \subseteq refs /\ snapshots' \subseteq snapshots /\ links' \subseteq links
        BY <1>1
    <2> QED
        BY <1>1, <1>6, <2>1, <2>3, <2>4, NamesStable
  <1> DEFINE X == {e \in files \union pointers : e[1] = r /\ "blobs" \in D}
  <1>9. files' = files \ X /\ pointers' = pointers \ X
      BY <1>1
  <1>10. \A l \in KeptLinks : l[1] \in Repos /\ l[1] # r
      BY <1>3, <1>7 DEF KeptLinks, KeptSnapshots
  <1>11. X \intersect KeptBlobs = {}
      BY <1>3, HubCacheAssumption DEF KeptBlobs
  <1>12. \A f \in KeptFiles : f[1] # r
    <2>1. ASSUME NEW l \in KeptLinks, NEW f \in Resolve(<<l[1], l[3]>>)
          PROVE  f[1] # r
        BY <1>10, <2>1, HubCacheAssumption DEF Resolve, Target
    <2> QED
        BY <2>1 DEF KeptFiles
  <1>13. /\ \A l \in KeptLinks : IsDir(l[1], "snapshots")' = IsDir(l[1], "snapshots")
         /\ \A e \in files \union pointers :
               /\ e[1] # Hub => Kept(e[1])' = Kept(e[1])
               /\ Kept(e[1]) \/ e[1] = Hub => IsDir(e[1], "blobs")' = IsDir(e[1], "blobs")
    <2>1. \A e \in files \union pointers : e[1] \in Repos \/ e[1] = Hub
        BY DEF TypeOK, Stores
    <2> QED
        BY <1>2, <1>3, <1>4, <1>10, <2>1, HubCacheAssumption
  <1>14. /\ \A l \in KeptLinks :
                IsDir(l[1], "snapshots") => Resolve(<<l[1], l[3]>>)' = Resolve(<<l[1], l[3]>>)
         /\ KeptFiles' = KeptFiles
         /\ KeptBlobs' = KeptBlobs
    <2>1. X \intersect KeptFiles = {}
        BY <1>12
    <2>2. \A l \in KeptLinks : <<l[1], l[3]>> \notin X
        BY <1>10
    <2>3. StoresStay(X)
      <3>1. "blobs" \notin D => Escapes(r)' = Escapes(r)
          BY <1>1 DEF Escapes
      <3> QED
          BY <1>4, <3>1, HubCacheAssumption DEF StoresStay
    <2> HIDE DEF X
    <2> QED
        BY <1>8, <1>9, <1>11, <1>13, <2>1, <2>2, <2>3, BlobsStable
  <1> QED
      BY <1>1, <1>6, <1>8, <1>9, <1>14 DEF StableTree

\* Neither the entries nor the symlinks nor the configuration change.
LEMMA SameRepos ==
    ASSUME UNCHANGED <<entry, linked, spec>>,
           \A r \in Repos : Kept(r) => Named(r)' = Named(r)
    PROVE  StableRepos
  BY DEF StableRepos, Kept, IsDir, Escapes

LEMMA RemoveRefStable ==
    ASSUME TypeOK, EntriesInv, NEW t \in refs, RemoveRef(t)
    PROVE  StableTree /\ StableRepos
  <1>1. /\ refs' = refs \ {t}
        /\ UNCHANGED <<entry, snapshots, links, files, pointers, linked, spec>>
      BY DEF RemoveRef, fetchVars
  <1>2. t[1] = repo /\ IsDir(repo, "refs") /\ ~Names(repo, t[2])
      BY DEF RemoveRef, Unnamed
  <1>3. \A r : Named(r)' = Named(r)
    <2>1. ASSUME NEW r
          PROVE  {u \in refs : u[1] = r /\ IsDir(r, "refs") /\ Names(r, u[2])}'
                 = {u \in refs : u[1] = r /\ IsDir(r, "refs") /\ Names(r, u[2])}
        BY <1>1, <1>2 DEF Names, IsDir
    <2> QED
        BY <1>1, <2>1 DEF Named
  <1>4. StableRepos
      BY <1>1, <1>3, SameRepos
  <1>5. KeptRefs' = KeptRefs /\ KeptSnapshots' = KeptSnapshots /\ KeptLinks' = KeptLinks
    <2>1. KeptRefs \subseteq refs'
        BY <1>1, <1>2 DEF KeptRefs
    <2>2. KeptSnapshots \subseteq snapshots' /\ KeptLinks \subseteq links'
        BY <1>1 DEF KeptSnapshots, KeptLinks
    <2> QED
        BY <1>1, <1>4, <2>1, <2>2, NamesStable
  <1>6. \A e : Resolve(e)' = Resolve(e)
      BY <1>1 DEF Resolve, Target, Escapes
  <1>7. KeptFiles' = KeptFiles
      BY <1>1, <1>5, <1>6 DEF KeptFiles, IsDir
  <1>8. KeptBlobs' = KeptBlobs
      BY <1>1, <1>6, <1>7 DEF KeptBlobs, Kept, IsDir
  <1> QED
      BY <1>1, <1>4, <1>5, <1>6, <1>7, <1>8 DEF StableTree

LEMMA RemoveSnapshotStable ==
    ASSUME TypeOK, EntriesInv, VisitedInv, NEW s \in snapshots, RemoveSnapshot(s)
    PROVE  StableTree /\ StableRepos
  <1>1. /\ snapshots' \subseteq snapshots /\ links' \subseteq links
        /\ snapshots \ {s} \subseteq snapshots'
        /\ \A l \in links : l \in links' \/ (l[1] = s[1] /\ l[2] = s[2])
        /\ UNCHANGED <<entry, refs, files, pointers, linked, spec>>
      BY DEF RemoveSnapshot, fetchVars
  <1>2. s[1] = repo /\ IsDir(repo, "snapshots") /\ s[2] \notin Named(repo)
      BY DEF RemoveSnapshot, Unpinned, VisitedInv, Running
  <1>3. s \notin KeptSnapshots
      BY <1>2 DEF KeptSnapshots
  <1>4. \A r : Named(r)' = Named(r)
      BY <1>1 DEF Named, Names, IsDir
  <1>5. StableRepos
      BY <1>1, <1>4, SameRepos
  <1>6. KeptRefs' = KeptRefs /\ KeptSnapshots' = KeptSnapshots /\ KeptLinks' = KeptLinks
    <2>1. KeptRefs \subseteq refs'
        BY <1>1 DEF KeptRefs
    <2>2. KeptSnapshots \subseteq snapshots'
        BY <1>1, <1>3 DEF KeptSnapshots
    <2>3. \A l \in links : l[1] = s[1] /\ l[2] = s[2] => <<l[1], l[2]>> = s
        BY DEF TypeOK
    <2>4. KeptLinks \subseteq links'
        BY <1>1, <1>3, <2>3 DEF KeptLinks
    <2> QED
        BY <1>1, <1>5, <2>1, <2>2, <2>4, NamesStable
  <1>7. \A e : Resolve(e)' = Resolve(e)
      BY <1>1 DEF Resolve, Target, Escapes
  <1>8. KeptFiles' = KeptFiles
      BY <1>1, <1>6, <1>7 DEF KeptFiles, IsDir
  <1>9. KeptBlobs' = KeptBlobs
      BY <1>1, <1>7, <1>8 DEF KeptBlobs, Kept, IsDir
  <1> QED
      BY <1>1, <1>5, <1>6, <1>7, <1>8, <1>9 DEF StableTree

\* Only blobs, and none that is kept or that a kept link goes through.
LEMMA BlobStepStable ==
    ASSUME TypeOK, NEW X, files' = files \ X, pointers' = pointers \ X,
           UNCHANGED <<entry, refs, snapshots, links, linked, spec>>,
           X \intersect KeptBlobs = {},
           X \intersect KeptFiles = {},
           \A l \in KeptLinks :
               IsDir(l[1], "snapshots") /\ <<l[1], l[3]>> \in X => Resolve(<<l[1], l[3]>>) = {}
    PROVE  StableTree /\ StableRepos
  <1>1. (\A r : Kept(r)' = Kept(r)) /\ \A r, d : IsDir(r, d)' = IsDir(r, d)
      BY DEF Kept, IsDir
  <1>2. \A r : Named(r)' = Named(r)
      BY DEF Named, Names, IsDir
  <1>3. StableRepos
      BY <1>2, SameRepos
  <1>4. KeptRefs' = KeptRefs /\ KeptSnapshots' = KeptSnapshots /\ KeptLinks' = KeptLinks
      BY <1>3, NamesStable DEF KeptRefs, KeptSnapshots, KeptLinks
  <1>5. /\ \A l \in KeptLinks :
               IsDir(l[1], "snapshots") => Resolve(<<l[1], l[3]>>)' = Resolve(<<l[1], l[3]>>)
        /\ KeptFiles' = KeptFiles
        /\ KeptBlobs' = KeptBlobs
    <2>1. StoresStay(X)
        BY DEF StoresStay, Escapes
    <2> QED
        BY <1>1, <1>4, <2>1, BlobsStable
  <1> QED
      BY <1>3, <1>4, <1>5 DEF StableTree

LEMMA RemoveDanglingStable ==
    ASSUME TypeOK, TreeInv, NEW e \in pointers, RemoveDangling(e)
    PROVE  StableTree /\ StableRepos
  <1>1. /\ pointers' = pointers \ {e} /\ files' = files
        /\ UNCHANGED <<entry, refs, snapshots, links, linked, spec>>
        /\ Resolve(e) = {}
        /\ IsDir(e[1], "blobs")
      BY DEF RemoveDangling, fetchVars, Walked
  <1>2. e \notin files
      BY DEF TreeInv
  <1>3. e \notin KeptFiles
      BY <1>2 DEF KeptFiles, Resolve, Target
  <1>4. e \notin KeptBlobs
      BY <1>1 DEF KeptBlobs
  <1>5. files' = files \ {e}
      BY <1>1, <1>2
  <1> QED
      BY <1>1, <1>3, <1>4, <1>5, BlobStepStable

\* Once every repository is visited, exactly the kept ones are left, and the
\* links of their snapshots are the kept ones.
LEMMA AllVisited ==
    ASSUME TypeOK, TreeInv, EntriesInv, VisitedInv, phase \in {"collect", "sweep"}
    PROVE  /\ repos = {r \in Repos : Kept(r)}
           /\ \A s \in snapshots : s \in KeptSnapshots
           /\ \A t \in refs : t \in KeptRefs
           /\ \A l \in links : l \in KeptLinks
           /\ LinkedTo(repos) = KeptFiles
  <1>1. phase \in Running /\ repo = NoRepo /\ todo = {}
      BY DEF EntriesInv, Running
  <1>2. repos = {r \in Repos : Kept(r)}
      BY <1>1 DEF EntriesInv, TypeOK, Kept
  <1>3. \A t \in refs : t \in KeptRefs
    <2>1. \A t \in refs : t[1] \in Repos /\ t[1] \in repos
        BY <1>1 DEF TypeOK, TreeInv, EntriesInv
    <2> QED
        BY <1>1, <1>2, <2>1 DEF VisitedInv, KeptRefs
  <1>4. \A s \in snapshots : s \in KeptSnapshots
    <2>1. \A s \in snapshots : s[1] \in Repos /\ s[1] \in repos /\ s[1] # repo
        BY <1>1, HubCacheAssumption DEF TypeOK, TreeInv, EntriesInv
    <2> QED
        BY <1>1, <1>2, <2>1 DEF VisitedInv, KeptSnapshots
  <1>5. \A l \in links : l \in KeptLinks
      BY <1>4 DEF KeptLinks, TreeInv
  <1>6. \A l \in KeptLinks : l \in links /\ l[1] \in repos
      BY <1>2 DEF KeptLinks, KeptSnapshots, TypeOK
  <1>7. {k \in links : k[1] \in repos /\ IsDir(k[1], "snapshots")} = {k \in KeptLinks : IsDir(k[1], "snapshots")}
      BY <1>5, <1>6
  <1>8. LinkedTo(repos) = KeptFiles
      BY <1>7 DEF LinkedTo, KeptFiles
  <1> QED
      BY <1>2, <1>3, <1>4, <1>5, <1>8

LEMMA RemoveBlobStable ==
    ASSUME IInv, NEW p \in blobs, RemoveBlob(p)
    PROVE  StableTree /\ StableRepos
  <1> DEFINE e == p[1]
  <1>1. /\ files' = files \ {e} /\ pointers' = pointers \ {e}
        /\ UNCHANGED <<entry, refs, snapshots, links, linked, spec>>
        /\ phase = "sweep" /\ p[2] \notin used
      BY DEF RemoveBlob, fetchVars
  <1>2. used = KeptFiles
      BY <1>1, AllVisited DEF IInv, SweepInv
  <1>3. e \in files \union pointers /\ IsDir(e[1], "blobs") /\ Resolve(e) \subseteq {p[2]}
      BY <1>1 DEF IInv, SweepInv, Walked
  <1>4. Resolve(e) \intersect KeptFiles = {}
      BY <1>1, <1>2, <1>3
  <1>5. e \notin KeptFiles
    <2>1. e \in KeptFiles => e \in Resolve(e)
        BY FileResolves
    <2> QED
        BY <1>4, <2>1
  <1>6. e \notin KeptBlobs
      BY <1>3, <1>4 DEF KeptBlobs
  <1>7. \A l \in KeptLinks :
            IsDir(l[1], "snapshots") /\ <<l[1], l[3]>> \in {e} => Resolve(<<l[1], l[3]>>) = {}
    <2>1. ASSUME NEW l \in KeptLinks, IsDir(l[1], "snapshots"), <<l[1], l[3]>> = e
          PROVE  Resolve(e) = {}
      <3>1. Resolve(e) \subseteq KeptFiles
          BY <2>1 DEF KeptFiles
      <3> QED
          BY <1>4, <3>1
    <2> QED
        BY <2>1
  <1> HIDE DEF e
  <1> QED
      BY <1>1, <1>5, <1>6, <1>7, BlobStepStable DEF IInv

LEMMA DeletesStable ==
    ASSUME IInv, Deletes
    PROVE  StableTree /\ StableRepos
  <1> USE DEF IInv
  <1>1. CASE \E r \in Repos, D \in {{"refs"}, {"snapshots"}, {"blobs"}, Dirs} : RemoveAll(r, D)
      BY <1>1, RemoveAllStable DEF Dirs
  <1>2. CASE \E t \in refs : RemoveRef(t)
      BY <1>2, RemoveRefStable
  <1>3. CASE \E s \in snapshots : RemoveSnapshot(s)
      BY <1>3, RemoveSnapshotStable
  <1>4. CASE \E e \in pointers : RemoveDangling(e)
      BY <1>4, RemoveDanglingStable
  <1>5. CASE \E p \in blobs : RemoveBlob(p)
      BY <1>5, RemoveBlobStable
  <1> QED
      BY <1>1, <1>2, <1>3, <1>4, <1>5 DEF Deletes

-----------------------------------------------------------------------------
(* The invariant of a running prune. *)

LEMMA FetchRun ==
    ASSUME IInv, Fetch
    PROVE  EntriesInv' /\ VisitedInv' /\ SweepInv'
  <1>1. phase' = "idle" /\ repos' = {} /\ repo' = NoRepo
    <2>1. CASE \E s \in Specs, u \in Upstreams : Restart(s, u)
        BY <2>1 DEF Restart, Exit
    <2>2. CASE ~fetched /\ UNCHANGED <<phase, repos, repo>>
        BY <2>2 DEF IInv, EntriesInv, Running
    <2> QED
        BY <2>1, <2>2 DEF Fetch, Download, Downloaded, locals
  <1> QED
      BY <1>1 DEF EntriesInv, VisitedInv, SweepInv, Running

LEMMA DeletesEntries ==
    ASSUME IInv, Deletes
    PROVE  EntriesInv'
  <1>1. phase \in Running /\ fetched' = fetched /\ repos' = repos
      BY DEF Deletes, RemoveAll, RemoveRef, RemoveSnapshot, RemoveDangling, RemoveBlob, Running,
             fetchVars, locals
  <1>2. \A r \in repos : Kept(r)'
      BY <1>1, DeletesStable DEF IInv, EntriesInv, StableRepos, TypeOK
  <1>3. \/ UNCHANGED <<entry, todo, phase, repo>>
        \/ \E r \in todo : /\ entry' = [entry EXCEPT ![r] = "none"]
                           /\ todo' = todo \ {r}
                           /\ phase' = "locks"
                           /\ repo' = r
                           /\ ~Kept(r)
      BY DEF Deletes, RemoveAll, RemoveRef, RemoveSnapshot, RemoveDangling, RemoveBlob, locals, Stale, Kept
  <1>4. CASE UNCHANGED <<entry, todo, phase, repo>>
      BY <1>1, <1>2, <1>4 DEF IInv, EntriesInv
  <1>5. ASSUME NEW r \in todo, entry' = [entry EXCEPT ![r] = "none"], todo' = todo \ {r},
               phase' = "locks", repo' = r, ~Kept(r)
        PROVE  EntriesInv'
    <2>1. r \notin repos
        BY <1>1, <1>5 DEF IInv, EntriesInv
    <2>2. \A x \in Repos : entry'[x] = "none" \/ x \in todo' \/ x \in repos'
        BY <1>1, <1>5 DEF IInv, EntriesInv, TypeOK
    <2> QED
        BY <1>1, <1>2, <1>5, <2>1, <2>2 DEF IInv, EntriesInv, Running
  <1> QED
      BY <1>3, <1>4, <1>5

LEMMA DeletesVisited ==
    ASSUME IInv, Deletes
    PROVE  VisitedInv'
  <1>1. phase \in Running /\ repos' = repos /\ commits' = commits /\ spec' = spec
      BY DEF Deletes, RemoveAll, RemoveRef, RemoveSnapshot, RemoveDangling, RemoveBlob, Running,
             fetchVars, locals
  <1>2. \/ phase' = phase /\ repo' = repo
        \/ phase = "entries" /\ phase' = "locks" /\ repo = NoRepo /\ repo' \notin repos
    <2>1. \/ UNCHANGED <<phase, repo>>
          \/ phase = "entries" /\ phase' = "locks" /\ ~Kept(repo')
        BY DEF Deletes, RemoveAll, RemoveRef, RemoveSnapshot, RemoveDangling, RemoveBlob, locals, Stale, Kept
    <2> QED
        BY <1>1, <2>1 DEF IInv, EntriesInv
  <1>3. /\ refs' \subseteq refs /\ snapshots' \subseteq snapshots
        /\ \A r \in repos : Named(r)' = Named(r) /\ \A d : IsDir(r, d)' = IsDir(r, d)
      BY <1>1, DeletesStable DEF IInv, EntriesInv, StableRepos, StableTree, TypeOK
  <1>4. \A r, x : Names(r, x)' = Names(r, x)
      BY <1>1 DEF Names
  <1>5. NoRepo \notin repos
      BY HubCacheAssumption DEF IInv, TypeOK
  <1>6. ASSUME NEW t \in refs', t[1] \in repos, IsDir(t[1], "refs"), t[1] = repo' => phase' # "refs"
        PROVE  Names(t[1], t[2])
      BY <1>1, <1>2, <1>3, <1>5, <1>6 DEF IInv, VisitedInv
  <1>7. phase' = "snapshots" => (commits = Named(repo))'
    <2>1. ASSUME phase' = "snapshots"
          PROVE  commits' = Named(repo)' /\ repo' = repo
      <3>1. phase = "snapshots" /\ repo' = repo
          BY <1>2, <2>1
      <3>2. repo \in repos /\ commits = Named(repo)
          BY <1>1, <3>1 DEF IInv, EntriesInv, VisitedInv
      <3>3. \A r \in repos : Named(r)' = Named(r)
          BY <1>3
      <3> QED
          BY <1>1, <3>1, <3>2, <3>3 DEF Named, IsDir, Names
    <2> QED
        BY <2>1
  <1>8. ASSUME NEW s \in snapshots', s[1] \in repos, IsDir(s[1], "snapshots"), s[1] # repo'
        PROVE  s[2] \in Named(s[1])
      BY <1>1, <1>2, <1>3, <1>5, <1>8 DEF IInv, VisitedInv
  <1> QED
      BY <1>1, <1>3, <1>4, <1>6, <1>7, <1>8 DEF VisitedInv

LEMMA DeletesSweep ==
    ASSUME IInv, Deletes
    PROVE  SweepInv'
  <1>1. CASE phase' # "sweep"
      BY <1>1 DEF SweepInv
  <1>2. ASSUME NEW p \in blobs, RemoveBlob(p)
        PROVE  SweepInv'
    <2> DEFINE e == p[1]
    <2>1. /\ files' = files \ {e} /\ pointers' = pointers \ {e}
          /\ blobs' = blobs \ {p} /\ used' = used /\ repos' = repos
          /\ UNCHANGED <<links, linked>>
          /\ phase = "sweep" /\ p[2] \notin used
        BY <1>2 DEF RemoveBlob
    <2>2. /\ StableTree
          /\ used = KeptFiles /\ \A l \in links : l \in KeptLinks
        BY <1>2, <2>1, AllVisited, RemoveBlobStable DEF IInv, SweepInv
    <2>3. \A x, d : IsDir(x, d)' = IsDir(x, d)
        BY <2>1 DEF IsDir
    <2>4. used' = LinkedTo(repos)'
      <3> DEFINE K == {k \in links : k[1] \in repos /\ IsDir(k[1], "snapshots")}
      <3>1. \A l \in K : Resolve(<<l[1], l[3]>>)' = Resolve(<<l[1], l[3]>>)
          BY <2>2 DEF StableTree
      <3>2. LinkedTo(repos)' = UNION {Resolve(<<l[1], l[3]>>)' : l \in K}
          BY <2>1, <2>3 DEF LinkedTo
      <3>3. {Resolve(<<l[1], l[3]>>)' : l \in K} = {Resolve(<<l[1], l[3]>>) : l \in K}
          BY <3>1
      <3>4. used = UNION {Resolve(<<l[1], l[3]>>) : l \in K}
          BY <2>1 DEF IInv, SweepInv, LinkedTo
      <3> QED
          BY <2>1, <3>2, <3>3, <3>4
    <2>5. /\ \A q \in blobs : /\ q[1] \in Walked(repos)
                              /\ q[2] \in used => q[2] \in Resolve(q[1])
                              /\ Resolve(q[1]) \subseteq {q[2]}
                              /\ q[1] = e => q = p
          /\ \A x \in Walked(repos) : \E q \in blobs : q[1] = x
        BY <2>1 DEF IInv, SweepInv
    <2>6. \A x : x \in Walked(repos)' <=> x \in Walked(repos) /\ x # e
        BY <2>1, <2>3 DEF Walked
    <2>7. \A x : Resolve(x)' = {f \in Resolve(x) : f # e /\ (f = x \/ x # e)}
      <3>1. \A s : Escapes(s)' = Escapes(s)
          BY <2>1 DEF Escapes
      <3>2. StoresStay({e})
          BY <3>1 DEF StoresStay
      <3> HIDE DEF e
      <3>3. ASSUME NEW x
            PROVE  Resolve(x)' = {f \in Resolve(x) : f \notin {e} /\ (f = x \/ x \notin {e})}
          BY <2>1, <3>2, ResolveMinus
      <3> QED
          BY <3>3
    <2>8. e \notin used
      <3>1. e \in used => e \in Resolve(e)
          BY <2>2, FileResolves
      <3> QED
          BY <2>1, <2>5, <3>1
    <2> HIDE DEF e
    <2>9. \A q \in blobs' : /\ q[1] \in Walked(repos)'
                            /\ q[2] \in used => q[2] \in Resolve(q[1])'
                            /\ Resolve(q[1])' \subseteq {q[2]}
        BY <2>1, <2>5, <2>6, <2>7, <2>8
    <2>10. \A q1, q2 \in blobs' : q1[1] = q2[1] => q1 = q2
        BY <2>1 DEF IInv, SweepInv
    <2>11. \A x \in Walked(repos)' : \E q \in blobs' : q[1] = x
        BY <2>1, <2>5, <2>6 DEF e
    <2> QED
        BY <2>1, <2>4, <2>9, <2>10, <2>11 DEF SweepInv
  <1>3. phase' = "sweep" => \E p \in blobs : RemoveBlob(p)
      BY DEF Deletes, RemoveAll, RemoveRef, RemoveSnapshot, RemoveDangling, locals
  <1> QED
      BY <1>1, <1>2, <1>3

LEMMA SameTree ==
    ASSUME UNCHANGED <<entry, refs, snapshots, links, files, pointers, linked, fetchVars>>
    PROVE  /\ \A r, d : IsDir(r, d)' = IsDir(r, d)
           /\ \A r : Kept(r)' = Kept(r) /\ Named(r)' = Named(r)
           /\ \A r, x : Names(r, x)' = Names(r, x)
           /\ \A e : Resolve(e)' = Resolve(e)
  BY DEF IsDir, Kept, Named, Names, Resolve, Target, Escapes, fetchVars

LEMMA MovesRun ==
    ASSUME IInv, Moves
    PROVE  EntriesInv' /\ VisitedInv' /\ SweepInv'
  <1> DEFINE Same == UNCHANGED <<entry, refs, snapshots, links, files, pointers, linked, fetchVars>>
  <1>1. Same
      BY MovesTree DEF IInv
  <1>2. /\ \A r, d : IsDir(r, d)' = IsDir(r, d)
        /\ \A r : Kept(r)' = Kept(r) /\ Named(r)' = Named(r)
        /\ \A r, x : Names(r, x)' = Names(r, x)
        /\ \A e : Resolve(e)' = Resolve(e)
      BY <1>1, SameTree
  <1>3. /\ UNCHANGED <<entry, refs, snapshots, links, files, pointers>>
        /\ fetched' = fetched
      BY <1>1 DEF fetchVars
  <1> HIDE DEF Same
  <1> USE DEF IInv
  <1>4. NoRepo \notin Repos /\ repos \subseteq Repos
      BY HubCacheAssumption DEF TypeOK
  <1>5. CASE Open
    <2>1. /\ fetched /\ phase \notin Running /\ phase' = "entries" /\ repo' = repo /\ repos' = repos
          /\ todo' = {r \in Repos : entry[r] # "none"}
        BY <1>5 DEF Open
    <2> QED
        BY <1>3, <2>1 DEF EntriesInv, VisitedInv, SweepInv, Running
  <1>6. CASE RemoveLocks
    <2>1. phase = "locks" /\ phase' = "entries" /\ repo' = NoRepo /\ repos' = repos /\ todo' = todo
        BY <1>6 DEF RemoveLocks
    <2> QED
        BY <1>2, <1>3, <1>4, <2>1 DEF EntriesInv, VisitedInv, SweepInv, Running
  <1>7. ASSUME NEW r \in Repos, Enter(r)
        PROVE  EntriesInv' /\ VisitedInv' /\ SweepInv'
    <2>1. /\ phase = "entries" /\ phase' = "refs" /\ repo' = r
          /\ repos' = repos \union {r} /\ todo' = todo \ {r} /\ Kept(r)
        BY <1>7 DEF Enter, Stale, Kept
    <2>2. repo = NoRepo /\ fetched
        BY <2>1 DEF EntriesInv, Running
    <2>3. EntriesInv'
        BY <1>2, <1>3, <2>1, <2>2 DEF EntriesInv, Running
    <2>4. VisitedInv'
        BY <1>2, <1>3, <1>4, <2>1, <2>2 DEF VisitedInv, Running
    <2> QED
        BY <2>1, <2>3, <2>4 DEF SweepInv
  <1>8. CASE ReadRefs
    <2>1. /\ phase = "refs" /\ phase' = "snapshots" /\ repo' = repo /\ repos' = repos /\ todo' = todo
          /\ commits' = Named(repo) /\ Unnamed = {}
        BY <1>8 DEF ReadRefs
    <2>2. EntriesInv'
        BY <1>2, <1>3, <2>1 DEF EntriesInv, Running
    <2>3. (commits = Named(repo))'
        BY <1>1, <2>1 DEF Named, Names, IsDir, Same, fetchVars
    <2>4. \A t \in refs : t[1] = repo /\ IsDir(t[1], "refs") => Names(t[1], t[2])
        BY <2>1 DEF Unnamed
    <2>5. VisitedInv'
        BY <1>2, <1>3, <2>1, <2>3, <2>4 DEF VisitedInv, Running
    <2> QED
        BY <2>1, <2>2, <2>5 DEF SweepInv
  <1>9. CASE RepositoryDone
    <2>1. /\ phase = "snapshots" /\ phase' = "entries" /\ repo' = NoRepo /\ repos' = repos /\ todo' = todo
          /\ Unpinned = {}
        BY <1>9 DEF RepositoryDone
    <2>2. EntriesInv'
        BY <1>2, <1>3, <2>1 DEF EntriesInv, Running
    <2>3. commits = Named(repo)
        BY <2>1 DEF VisitedInv, Running
    <2>4. \A s \in snapshots : s[1] = repo /\ IsDir(s[1], "snapshots") => s[2] \in Named(s[1])
        BY <2>1, <2>3 DEF Unpinned
    <2>5. VisitedInv'
        BY <1>2, <1>3, <2>1, <2>4 DEF VisitedInv, Running
    <2> QED
        BY <2>1, <2>2, <2>5 DEF SweepInv
  <1>10. CASE EntriesDone
    <2>1. phase = "entries" /\ phase' = "collect" /\ todo = {} /\ UNCHANGED <<repo, todo, repos, commits>>
        BY <1>10 DEF EntriesDone, locals
    <2>2. EntriesInv'
        BY <1>2, <1>3, <2>1 DEF EntriesInv, Running
    <2>3. VisitedInv'
        BY <1>2, <1>3, <2>1 DEF VisitedInv, Running
    <2> QED
        BY <2>1, <2>2, <2>3 DEF SweepInv
  <1>11. CASE Collected
    <2>1. /\ phase = "collect" /\ phase' = "sweep" /\ UNCHANGED <<repo, todo, repos, commits>>
          /\ used' = LinkedTo(repos)
          /\ blobs' = UNION {{e} \X Resolve(e) : e \in Walked(repos)}
          /\ \A e \in Walked(repos) : Resolve(e) # {}
        BY <1>11 DEF Collected
    <2>2. EntriesInv'
        BY <1>2, <1>3, <2>1 DEF EntriesInv, Running
    <2>3. VisitedInv'
        BY <1>2, <1>3, <2>1 DEF VisitedInv, Running
    <2>4. LinkedTo(repos)' = LinkedTo(repos) /\ Walked(repos)' = Walked(repos)
        BY <1>2, <1>3, <2>1 DEF LinkedTo, Walked
    <2>5. \A e, f, g : f \in Resolve(e) /\ g \in Resolve(e) => f = g
        BY DEF Resolve, Target, TreeInv
    <2>6. \A p \in blobs' : p[1] \in Walked(repos) /\ p[2] \in Resolve(p[1]) /\ p = <<p[1], p[2]>>
        BY <2>1
    <2>7. \A e \in Walked(repos) : \E f \in Resolve(e) : <<e, f>> \in blobs'
        BY <2>1
    <2>8. \A p, q \in blobs' : p[1] = q[1] => p = q
      <3>1. ASSUME NEW p \in blobs', NEW q \in blobs', p[1] = q[1]
            PROVE  p = q
        <4>1. p[2] = q[2]
            BY <2>5, <2>6, <3>1
        <4> QED
            BY <2>6, <3>1, <4>1
      <3> QED
          BY <3>1
    <2>9. \A e \in Walked(repos) : \E p \in blobs' : p[1] = e
        BY <2>7
    <2> QED
        BY <1>2, <2>1, <2>2, <2>3, <2>4, <2>5, <2>6, <2>8, <2>9 DEF SweepInv
  <1>12. CASE Return \/ Kill
    <2>1. phase' \notin Running /\ repos' = {} /\ repo' = NoRepo
        BY <1>12 DEF Return, Kill, Exit, Running
    <2>2. fetched
        BY <1>12 DEF Return, Kill, EntriesInv, Running
    <2> QED
        BY <1>3, <2>1, <2>2 DEF EntriesInv, VisitedInv, SweepInv, Running
  <1> QED
      BY <1>5, <1>6, <1>7, <1>8, <1>9, <1>10, <1>11, <1>12 DEF Moves

-----------------------------------------------------------------------------
(* Theorems. *)

LEMMA NextIInv ==
    ASSUME IInv, [Next]_vars
    PROVE  IInv'
  <1>1. CASE Fetch
      BY <1>1, FetchType, FetchTree, FetchRun DEF IInv
  <1>2. CASE Deletes
      BY <1>2, DeletesType, DeletesTree, DeletesEntries, DeletesVisited, DeletesSweep DEF IInv
  <1>3. CASE Moves
      BY <1>3, MovesType, MovesTree, MovesRun DEF IInv
  <1>4. CASE UNCHANGED vars
    <2>1. TypeOK' /\ TreeInv'
        BY <1>4 DEF IInv, vars, tree, fetchVars, locals, TypeOK, TreeInv, IsDir
    <2>2. EntriesInv' = EntriesInv
        BY <1>4 DEF vars, tree, fetchVars, locals, EntriesInv, Kept
    <2>3. VisitedInv' = VisitedInv
        BY <1>4 DEF vars, tree, fetchVars, locals, VisitedInv, Named, Names, IsDir
    <2>4. SweepInv' = SweepInv
        BY <1>4 DEF vars, tree, fetchVars, locals, SweepInv, LinkedTo, Walked, Resolve, Target, Escapes, IsDir
    <2> QED
        BY <2>1, <2>2, <2>3, <2>4 DEF IInv
  <1> QED
      BY <1>1, <1>2, <1>3, <1>4, NextCases

THEOREM Invariance == Spec => []IInv
  <1>1. Init => IInv
      BY InitIInv
  <1>2. IInv /\ [Next]_vars => IInv'
      BY NextIInv
  <1> QED
      BY <1>1, <1>2, PTL DEF Spec

\* The abstract state of a cache: what it holds and what is kept of it.
Cache == Tree(refs, snapshots, links, files \union pointers)
Keep == Tree(KeptRefs, KeptSnapshots, KeptLinks, KeptBlobs)

LEMMA KeepInCache == Keep \subseteq Cache
  <1>1. /\ KeptRefs \subseteq refs /\ KeptSnapshots \subseteq snapshots
        /\ KeptLinks \subseteq links /\ KeptBlobs \subseteq files \union pointers
      BY DEF KeptRefs, KeptSnapshots, KeptLinks, KeptBlobs
  <1> QED
      BY <1>1 DEF Keep, Cache, Tree

LEMMA StableKeep ==
    ASSUME StableTree
    PROVE  Keep' = Keep /\ Cache' \subseteq Cache /\ Keep \subseteq Cache'
  <1>1. Keep' = Keep
      BY DEF StableTree, Keep, Tree
  <1>2. Cache' \subseteq Cache
      BY DEF StableTree, Cache, Tree
  <1>3. Keep' \subseteq Cache'
    <2>1. /\ KeptRefs' \subseteq refs' /\ KeptSnapshots' \subseteq snapshots'
          /\ KeptLinks' \subseteq links' /\ KeptBlobs' \subseteq (files \union pointers)'
        BY DEF KeptRefs, KeptSnapshots, KeptLinks, KeptBlobs
    <2> QED
        BY <2>1 DEF Keep, Cache, Tree
  <1> QED
      BY <1>1, <1>2, <1>3

LEMMA SameKeep ==
    ASSUME UNCHANGED <<entry, refs, snapshots, links, files, pointers, linked, spec>>
    PROVE  Keep' = Keep /\ Cache' = Cache
  <1>1. KeptRefs' = KeptRefs /\ KeptSnapshots' = KeptSnapshots
      BY DEF KeptRefs, KeptSnapshots, Kept, Named, Names, IsDir
  <1>2. KeptLinks' = KeptLinks
      BY <1>1 DEF KeptLinks
  <1>3. \A e : Resolve(e)' = Resolve(e)
      BY DEF Resolve, Target, Escapes
  <1>4. KeptFiles' = KeptFiles
      BY <1>2, <1>3 DEF KeptFiles, IsDir
  <1>5. KeptBlobs' = KeptBlobs
      BY <1>3, <1>4 DEF KeptBlobs, Kept, IsDir
  <1> QED
      BY <1>1, <1>2, <1>5 DEF Keep, Cache, Tree

\* A prune that has collected everything and deleted what is not used leaves
\* exactly what is kept.
LEMMA ReturnIsClean ==
    ASSUME IInv, Return
    PROVE  Cache = Keep
  <1>1. phase = "sweep" /\ \A p \in blobs : p[2] \in used
      BY DEF Return
  <1>2. /\ repos = {r \in Repos : Kept(r)}
        /\ snapshots \subseteq KeptSnapshots /\ refs \subseteq KeptRefs /\ links \subseteq KeptLinks
        /\ used = KeptFiles
      BY <1>1, AllVisited DEF IInv, SweepInv
  <1>3. ASSUME NEW e \in files \union pointers
        PROVE  e \in KeptBlobs
    <2>1. e[1] = Hub \/ (e[1] \in Repos /\ Kept(e[1]))
      <3>1. e[1] \in Repos \/ e[1] = Hub
          BY DEF IInv, TypeOK, Stores
      <3>2. e[1] \in Repos => entry[e[1]] = "dir"
          BY HubCacheAssumption DEF IInv, TreeInv
      <3>3. e[1] \in Repos => e[1] \in repos
          BY <1>1, <3>2 DEF IInv, EntriesInv, Running
      <3> QED
          BY <1>2, <3>1, <3>3
    <2>2. ASSUME IsDir(e[1], "blobs")
          PROVE  Resolve(e) \intersect KeptFiles # {}
      <3>1. e \in Walked(repos)
          BY <1>2, <2>1, <2>2 DEF Walked
      <3>2. PICK p \in blobs : p[1] = e
          BY <1>1, <3>1 DEF IInv, SweepInv
      <3>3. p[2] \in used /\ p[2] \in Resolve(e)
          BY <1>1, <3>2 DEF IInv, SweepInv
      <3> QED
          BY <1>2, <3>3
    <2> QED
        BY <2>1, <2>2 DEF KeptBlobs
  <1>4. files \union pointers \subseteq KeptBlobs
      BY <1>3
  <1>5. Cache \subseteq Keep
      BY <1>2, <1>4 DEF Cache, Keep, Tree
  <1> QED
      BY <1>5, KeepInCache

\* Every step of a prune deletes only what is not kept, a prune that returns
\* has deleted all of it, and the rest is the fetcher's.
LEMMA StepImplements ==
    ASSUME IInv, [Next]_vars
    PROVE  [C!Next]_(C!vars)
  <1>1. CASE Fetch
    <2>1. /\ ~(fetched /\ fetched') /\ phase' # "done"
          /\ fetched' => UNCHANGED <<entry, refs, snapshots, links, files, pointers, linked, spec>>
      <3>1. CASE \E s \in Specs, u \in Upstreams : Restart(s, u)
          BY <3>1 DEF Restart, Exit
      <3>2. CASE \E r \in Repos : \E v \in spec[r], B \in SUBSET Blobs, s \in {r, Hub} : Download(r, v, B, s)
          BY <3>2 DEF Download, IInv, EntriesInv, fetchVars
      <3>3. CASE Downloaded
          BY <3>3 DEF Downloaded, IInv, EntriesInv, tree
      <3> QED
          BY <1>1, <3>1, <3>2, <3>3 DEF Fetch
    <2>2. fetched' => Keep' = Keep /\ Cache' = Cache
        BY <2>1, SameKeep
    <2> QED
        BY <2>1, <2>2 DEF C!Next, C!Fetch, Keep, Cache
  <1>2. CASE Deletes
    <2>1. /\ phase \in Running /\ fetched' = fetched /\ phase' # "done"
        BY <1>2 DEF Deletes, RemoveAll, RemoveRef, RemoveSnapshot, RemoveDangling, RemoveBlob, Running,
               fetchVars, locals
    <2>2. fetched
        BY <2>1 DEF IInv, EntriesInv, Running
    <2>3. Keep' = Keep /\ Cache' \subseteq Cache /\ Keep \subseteq Cache'
        BY <1>2, DeletesStable, StableKeep
    <2> QED
        BY <2>1, <2>2, <2>3 DEF C!Next, C!Collect, Keep, Cache
  <1>3. CASE Moves
    <2>1. UNCHANGED <<entry, refs, snapshots, links, files, pointers, linked, fetchVars>>
        BY <1>3, MovesTree DEF IInv
    <2>2. UNCHANGED <<entry, refs, snapshots, links, files, pointers, linked, spec>> /\ fetched' = fetched
        BY <2>1 DEF fetchVars
    <2>3. Keep' = Keep /\ Cache' = Cache /\ Keep \subseteq Cache
        BY <2>2, SameKeep, KeepInCache
    <2>4. fetched
        BY <1>3 DEF Moves, Open, RemoveLocks, Enter, ReadRefs, RepositoryDone, EntriesDone, Collected,
                    Return, Kill, IInv, EntriesInv, Running
    <2>5. CASE Return
      <3>1. Cache = Keep /\ phase' = "done"
          BY <2>5, ReturnIsClean DEF Return, Exit
      <3> QED
          BY <2>2, <2>3, <2>4, <3>1 DEF C!Next, C!Finish, Keep, Cache
    <2>6. CASE ~Return
      <3>1. phase' # "done"
          BY <1>3, <2>6 DEF Moves, Open, RemoveLocks, Enter, ReadRefs, RepositoryDone, EntriesDone,
                            Collected, Kill, Exit
      <3> QED
          BY <2>2, <2>3, <2>4, <3>1 DEF C!Next, C!Collect, Keep, Cache
    <2> QED
        BY <2>5, <2>6
  <1>4. CASE UNCHANGED vars
    <2>1. UNCHANGED <<entry, refs, snapshots, links, files, pointers, linked, spec, fetched, phase>>
        BY <1>4 DEF vars, tree, fetchVars
    <2>2. Keep' = Keep /\ Cache' = Cache
        BY <2>1, SameKeep
    <2> QED
        BY <2>1, <2>2 DEF C!vars, Keep, Cache
  <1> QED
      BY <1>1, <1>2, <1>3, <1>4, NextCases

\* HubCache implements Collector: whatever the cache, the configuration, the
\* linked directories and the download were, and wherever prunes are killed,
\* they never delete or change what the configuration leads to without leaving
\* the hub, and one that returns leaves nothing else.
THEOREM Implementation == Spec => ImplementsCollector
  <1>1. Init => C!Init
    <2>1. Keep \subseteq Cache
        BY KeepInCache
    <2> QED
        BY <2>1 DEF Init, C!Init, Keep, Cache
  <1>2. IInv /\ [Next]_vars => [C!Next]_(C!vars)
      BY StepImplements
  <1> QED
      BY <1>1, <1>2, Invariance, PTL DEF Spec, ImplementsCollector, C!Spec

\* Every variable of the cache and the prune keeps its type.
THEOREM TypeCorrect == Spec => []TypeOK
  <1>1. IInv => TypeOK
      BY DEF IInv
  <1> QED
      BY <1>1, Invariance, PTL

\* What is configured is kept once it is downloaded.
ServedInv == ServedStaysWhole /\ (fetched => \A r \in Repos : spec[r] # {} => Kept(r))

\* Blobs outside the hub are reached through a symlink.
LEMMA EscapesIsLinked == \A s : Escapes(s) => ~IsDir(s, "blobs")
  BY DEF Escapes, IsDir

LEMMA StableServed ==
    ASSUME IInv, TreeInv', ServedInv, fetched, StableTree, StableRepos,
           spec' = spec, upstream' = upstream
    PROVE  ServedInv'
  <1>1. \A r \in Repos : spec[r] # {} => Kept(r) /\ Kept(r)'
      BY DEF ServedInv, StableRepos
  <1>2. ASSUME ~Escapes(Hub)', NEW r \in Repos, IsDir(r, "refs")', IsDir(r, "snapshots")', NEW v \in spec[r]
        PROVE  Loadable(r, v)'
    <2> DEFINE c == upstream[r][v]
    <2>1. Kept(r) /\ IsDir(r, "refs") /\ IsDir(r, "snapshots")
        BY <1>1, <1>2 DEF StableRepos
    <2>2. Loadable(r, v)
        BY <1>2, <2>1 DEF ServedInv, ServedStaysWhole, StableRepos
    <2>3. v \in Revisions /\ c \in Commits /\ (v \in Commits => c = v)
        BY HubCacheAssumption DEF IInv, TypeOK
    <2>4. v \notin Commits => <<r, RefOf(v), c>> \in KeptRefs
      <3>1. v \notin Commits => Names(r, RefOf(v))
          BY DEF Names, RefOf
      <3> QED
          BY <2>1, <2>2, <3>1 DEF Loadable, KeptRefs
    <2>5. c \in Named(r)
      <3>1. CASE v \in Commits
          BY <2>3, <3>1 DEF Named
      <3>2. CASE v \notin Commits
        <4>1. <<r, RefOf(v), c>> \in {u \in refs : u[1] = r /\ IsDir(r, "refs") /\ Names(r, u[2])}
            BY <2>1, <2>4, <3>2 DEF KeptRefs
        <4> QED
            BY <4>1 DEF Named
      <3> QED
          BY <3>1, <3>2
    <2>6. <<r, c>> \in KeptSnapshots
        BY <2>1, <2>2, <2>5 DEF Loadable, Whole, KeptSnapshots
    <2>7. \A b \in Content[c] : <<r, c, b>> \in KeptLinks /\ Target(<<r, b>>) # {}
        BY <2>2, <2>6 DEF Loadable, Whole, KeptLinks
    <2>8. \A b \in Content[c] : Target(<<r, b>>)' # {}
      <3>1. ASSUME NEW b \in Content[c]
            PROVE  Target(<<r, b>>)' # {}
        <4>1. CASE ~Escapes(r)
          <5> DEFINE l == <<r, c, b>>
          <5>1. l \in KeptLinks /\ l[1] = r /\ l[3] = b
              BY <2>7
          <5> HIDE DEF l
          <5>2. Resolve(<<r, b>>)' = Resolve(<<r, b>>)
              BY <2>1, <5>1 DEF StableTree
          <5>3. Resolve(<<r, b>>) = Target(<<r, b>>)
              BY <1>2, <4>1 DEF Resolve, Target, StableRepos
          <5>4. Resolve(<<r, b>>)' \subseteq Target(<<r, b>>)'
              BY DEF Resolve
          <5> QED
              BY <2>7, <5>2, <5>3, <5>4
        <4>2. CASE Escapes(r)
          <5> DEFINE e == <<r, b>>
          <5>1. ~IsDir(r, "blobs") /\ ~IsDir(r, "blobs")'
              BY <2>1, <4>2, EscapesIsLinked DEF StableRepos
          <5>2. e \in files \union pointers
              BY <2>7 DEF Target
          <5>3. e \in KeptBlobs
              BY <2>1, <5>1, <5>2 DEF KeptBlobs
          <5>4. e \in files' \union pointers'
              BY <5>3 DEF StableTree, KeptBlobs
          <5>5. e \in files'
              BY <5>1, <5>4 DEF TreeInv
          <5> QED
              BY <5>5 DEF Target
        <4> QED
            BY <4>1, <4>2
      <3> QED
          BY <3>1
    <2>9. /\ KeptRefs \subseteq refs' /\ KeptSnapshots \subseteq snapshots' /\ KeptLinks \subseteq links'
      <3>1. KeptRefs' \subseteq refs' /\ KeptSnapshots' \subseteq snapshots' /\ KeptLinks' \subseteq links'
          BY DEF KeptRefs, KeptSnapshots, KeptLinks
      <3> QED
          BY <3>1 DEF StableTree
    <2>10. v \notin Commits => <<r, RefOf(v), c>> \in refs'
        BY <2>4, <2>9
    <2>11. <<r, c>> \in snapshots' /\ \A b \in Content[c] : <<r, c, b>> \in links' /\ Target(<<r, b>>)' # {}
        BY <2>6, <2>7, <2>8, <2>9
    <2>12. upstream'[r][v] = c
        OBVIOUS
    <2> QED
        BY <2>10, <2>11, <2>12 DEF Loadable, Whole
  <1>3. ServedStaysWhole'
      BY <1>2 DEF ServedStaysWhole
  <1> QED
      BY <1>1, <1>3 DEF ServedInv

LEMMA SameServed ==
    ASSUME ServedInv, UNCHANGED <<entry, refs, snapshots, links, files, pointers, linked, spec, upstream, fetched>>
    PROVE  ServedInv'
  BY DEF ServedInv, ServedStaysWhole, Loadable, Whole, Kept, Target, Escapes, IsDir

LEMMA NextServed ==
    ASSUME IInv, ServedInv, [Next]_vars
    PROVE  ServedInv'
  <1>1. CASE Fetch
    <2>1. CASE fetched' = FALSE
        BY <2>1 DEF ServedInv, ServedStaysWhole
    <2>2. CASE Downloaded
      <3>1. /\ \A r \in Repos : \A v \in spec[r] : Loadable(r, v)
            /\ UNCHANGED <<entry, refs, snapshots, links, files, pointers, linked, spec, upstream>>
          BY <2>2 DEF Downloaded, tree
      <3>2. \A r \in Repos : spec[r] # {} => Kept(r)
          BY <3>1 DEF Loadable, Whole, Kept, IInv, TreeInv
      <3>3. \A r \in Repos : \A v \in spec[r] : Loadable(r, v)'
          BY <3>1 DEF Loadable, Whole, Target
      <3>4. \A r \in Repos : spec'[r] # {} => Kept(r)'
          BY <3>1, <3>2 DEF Kept
      <3>5. ServedStaysWhole'
          BY <3>1, <3>3 DEF ServedStaysWhole
      <3> QED
          BY <3>4, <3>5 DEF ServedInv
    <2>3. ASSUME ~Downloaded
          PROVE  fetched' = FALSE
        BY <1>1, <2>3 DEF Fetch, Restart, Download, fetchVars, IInv, TypeOK
    <2> QED
        BY <2>1, <2>2, <2>3
  <1>2. CASE Deletes
    <2>1. phase \in Running /\ spec' = spec /\ upstream' = upstream
        BY <1>2 DEF Deletes, RemoveAll, RemoveRef, RemoveSnapshot, RemoveDangling, RemoveBlob, Running,
               fetchVars, locals
    <2>2. fetched
        BY <2>1 DEF IInv, EntriesInv, Running
    <2> QED
        BY <1>2, <2>1, <2>2, DeletesStable, DeletesTree, StableServed DEF IInv
  <1>3. CASE Moves
    <2>1. UNCHANGED <<entry, refs, snapshots, links, files, pointers, linked, fetchVars>>
        BY <1>3, MovesTree DEF IInv
    <2> QED
        BY <2>1, SameServed DEF fetchVars
  <1>4. CASE UNCHANGED vars
      BY <1>4, SameServed DEF vars, tree, fetchVars
  <1> QED
      BY <1>1, <1>2, <1>3, <1>4, NextCases

\* Once a download is complete, what the configuration names stays loadable,
\* unless the references or snapshots of a repository have been moved, or the
\* shared blobs out of the hub.
THEOREM Served == Spec => []ServedStaysWhole
  <1>1. Init => ServedInv
      BY DEF Init, ServedInv, ServedStaysWhole
  <1>2. IInv /\ ServedInv /\ [Next]_vars => ServedInv'
      BY NextServed
  <1>3. ServedInv => ServedStaysWhole
      BY DEF ServedInv
  <1> QED
      BY <1>1, <1>2, <1>3, Invariance, PTL DEF Spec

=============================================================================
