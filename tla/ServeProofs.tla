----------------------------- MODULE ServeProofs -----------------------------
(***************************************************************************)
(* Proofs about Serve, for any configurations, sockets and connections.    *)
(***************************************************************************)
EXTENDS Serve, FiniteSetTheorems, TLAPS

OpenSet == {i \in Entries : Open(i)}

\* While it binds, the process has a listener for every entry before the one it is
\* at, and the files of their sockets.
WhileBinding ==
    pc \in {"remove", "bind"} =>
        /\ ~Activated /\ ~ready /\ errs = 0
        /\ entry <= Len(Sources) + 1
        /\ \A i \in Entries : lis[i] = IF i < entry THEN "bound" ELSE "none"
        /\ pc = "bind" =>
             /\ entry <= Len(Sources)
             /\ Address(entry) \in Unix => file[Address(entry)] = NoFile
        /\ \A i \in 1..(entry - 1) :
             Address(i) \in Unix /\ (pc = "bind" => Address(i) # Address(entry))
               => file[Address(i)] \in Entries

\* From then on it has one for every entry of its source.
WhenBound ==
    pc \notin {"remove", "bind", "ended"} =>
        /\ \A i \in Entries : i <= Len(Sources) <=> lis[i] # "none"
        /\ ~Activated /\ (\A i \in Entries : lis[i] # "closed") =>
             \A i \in 1..Len(Sources) : Address(i) \in Unix => file[Address(i)] \in Entries

\* A process that has ended has no listeners, and no path leads to one.
Owners ==
    /\ pc = "ended" => \A i \in Entries : lis[i] = "none"
    /\ \A u \in Unix : file[u] \in Entries => lis[file[u]] # "none"

\* The goroutines that have not reported yet still fit into the channel.
Capacity == errs + Cardinality(OpenSet) <= Len(Sources)

Inv == TypeOK /\ WhileBinding /\ WhenBound /\ Owners /\ Capacity

-----------------------------------------------------------------------------

LEMMA SourceFacts ==
    ASSUME cfg \in Configs
    PROVE  /\ Sources \in Seq(Addresses)
           /\ Len(Sources) \in Nat
           /\ Len(Sources) <= MaxEntries
           /\ \A i \in 1..Len(Sources) : i \in Entries /\ Address(i) \in Addresses
BY ConfigsAssumption, BoundsAssumption DEF Sources, Activated, Entries, Address

LEMMA OpenSetFinite == IsFiniteSet(OpenSet) /\ Cardinality(OpenSet) \in Nat
<1>1. IsFiniteSet(Entries)
  BY FS_Interval, BoundsAssumption DEF Entries
<1>2. OpenSet \subseteq Entries
  BY DEF OpenSet
<1> QED BY <1>1, <1>2, FS_Subset, FS_CardinalityType

LEMMA InitInv == Init => Inv
<1> SUFFICES ASSUME Init PROVE Inv
  OBVIOUS
<1> USE DEF Init
<1>1. OpenSet = {}
  BY DEF OpenSet, Open
<1>2. TypeOK
  <2>1. errs \in 0..Len(Sources)
    BY SourceFacts
  <2>2. entry \in 1..(MaxEntries + 1) /\ runs \in 0..MaxRuns
    BY BoundsAssumption
  <2> QED BY <2>1, <2>2 DEF TypeOK
<1>3. WhileBinding /\ WhenBound /\ Owners
  BY DEF WhileBinding, WhenBound, Owners, NoFile, Entries
<1>4. Capacity
  BY <1>1, FS_EmptySet, SourceFacts DEF Capacity
<1> QED BY <1>2, <1>3, <1>4 DEF Inv

FileType == [Unix -> {NoFile, Stale} \union Entries]

LEMMA FilesType ==
    ASSUME TypeOK, NEW I
    PROVE  FilesWithout(I) \in FileType
BY DEF TypeOK, FilesWithout, FileType, NoFile

\* A process may end anywhere.
LEMMA EndsInv ==
    ASSUME Inv, NEW h \in {"clean", "failed", "killed"}, NEW files \in FileType,
           Ends(h, files)
    PROVE  Inv'
<1> USE DEF Inv, Ends, mainVars
<1>1. Sources' = Sources
  BY DEF Sources, Activated
<1>2. OpenSet' = {}
  BY DEF OpenSet, Open
<1>3. errs \in Nat /\ errs <= Len(Sources)
  BY SourceFacts DEF TypeOK
<1>4. TypeOK'
  <2>1. conn' \in [Conns -> {"none", "queued", "idle", "active", "upgraded",
                             "closed", "refused", "cut"}]
    BY DEF TypeOK, Unaccepted
  <2>2. file' \in [Unix -> {NoFile, Stale} \union Entries]
    BY DEF FileType
  <2>3. lis' \in [Entries -> {"none", "bound", "serving", "closed"}]
    OBVIOUS
  <2> QED BY <1>1, <2>1, <2>2, <2>3 DEF TypeOK
<1>5. WhileBinding' /\ WhenBound'
  BY DEF WhileBinding, WhenBound
<1>6. Owners'
  BY DEF Owners, Stale, Entries
<1>7. Capacity'
  BY <1>1, <1>2, <1>3, FS_EmptySet DEF Capacity
<1> QED BY <1>4, <1>5, <1>6, <1>7

\* Steps that leave the listeners and their files alone.
LEMMA QuietInv ==
    ASSUME Inv, TypeOK',
           UNCHANGED <<cfg, lis, file, errs>>,
           \/ UNCHANGED <<pc, entry, ready>>
           \/ {pc, pc'} \intersect {"remove", "bind", "ended"} = {}
    PROVE  Inv'
<1>1. Sources' = Sources /\ OpenSet' = OpenSet
  BY DEF Sources, Activated, OpenSet, Open
<1>2. \A i : Address(i)' = Address(i)
  BY <1>1 DEF Address
<1>3. WhileBinding'
  BY <1>1, <1>2 DEF Inv, WhileBinding, Activated
<1>4. WhenBound'
  BY <1>1, <1>2 DEF Inv, WhenBound, Activated
<1>5. Owners' /\ Capacity'
  BY <1>1 DEF Inv, Owners, Capacity
<1> QED BY <1>3, <1>4, <1>5 DEF Inv

\* Listeners close one by one or together, each with an error in the channel.
LEMMA CloseInv ==
    ASSUME Inv, NEW I \in SUBSET OpenSet, Close(I),
           errs' = errs + Cardinality(I), UNCHANGED <<runs, cfg, how, entry, obstructed,
           ready, caught, done, via>>,
           pc \notin {"remove", "bind", "ended"},
           pc' = pc \/ pc' = "drain"
    PROVE  Inv'
<1> USE DEF Inv, Close
<1>1. Sources' = Sources
  BY DEF Sources, Activated
<1>2. OpenSet' = OpenSet \ I
  BY DEF OpenSet, Open, TypeOK
<1>3. /\ Cardinality(OpenSet') = Cardinality(OpenSet) - Cardinality(I)
      /\ Cardinality(OpenSet') \in Nat /\ Cardinality(I) \in Nat
  <2>1. OpenSet \cap I = I
    OBVIOUS
  <2>2. /\ IsFiniteSet(OpenSet \ I)
        /\ Cardinality(OpenSet \ I) = Cardinality(OpenSet) - Cardinality(OpenSet \cap I)
    BY OpenSetFinite, FS_Difference
  <2>3. IsFiniteSet(I)
    BY OpenSetFinite, FS_Subset
  <2> QED BY <1>2, <2>1, <2>2, <2>3, FS_CardinalityType
<1>4. Capacity'
  BY <1>1, <1>3, OpenSetFinite, SourceFacts DEF Capacity, TypeOK
<1>5. TypeOK'
  <2>1. errs' \in 0..Len(Sources)
    BY <1>1, <1>3, <1>4, SourceFacts DEF Capacity, TypeOK
  <2>2. file' \in [Unix -> {NoFile, Stale} \union Entries]
    BY FilesType DEF FileType
  <2>3. conn' \in [Conns -> {"none", "queued", "idle", "active", "upgraded",
                             "closed", "refused", "cut"}]
    BY DEF TypeOK, Unaccepted
  <2>4. lis' \in [Entries -> {"none", "bound", "serving", "closed"}]
    BY DEF TypeOK
  <2> QED BY <1>1, <2>1, <2>2, <2>3, <2>4 DEF TypeOK
<1>6. \A i \in Entries : lis'[i] # "none" <=> lis[i] # "none"
  BY DEF OpenSet, Open, TypeOK
<1>7. WhileBinding'
  BY DEF WhileBinding
<1>8. WhenBound'
  <2>1. CASE I = {}
    <3>1. file' = file
      BY <2>1 DEF FilesWithout, TypeOK
    <3>2. lis' = lis
      BY <2>1 DEF TypeOK
    <3> QED BY <1>1, <3>1, <3>2 DEF WhenBound, Activated, Address
  <2>2. CASE I # {}
    <3>1. \E i \in Entries : lis'[i] = "closed"
      BY <2>2 DEF OpenSet
    <3> QED BY <1>1, <1>6, <3>1 DEF WhenBound
  <2> QED BY <2>1, <2>2
<1>9. Owners'
  <2>1. \A u \in Unix : file'[u] \in Entries => file'[u] = file[u]
    BY DEF FilesWithout, NoFile, Entries
  <2> QED BY <1>6, <2>1 DEF Owners
<1> QED BY <1>4, <1>5, <1>7, <1>8, <1>9

-----------------------------------------------------------------------------

LEMMA StartInv == ASSUME Inv, Start PROVE Inv'
<1> USE DEF Inv, Start, Goto
<1>1. cfg' \in Configs /\ \A i \in Entries : lis[i] = "none"
  BY DEF Owners
<1>2. \A u \in Unix : file[u] \notin Entries
  BY <1>1 DEF Owners
<1>3. /\ Len(Sources') \in Nat /\ Len(Sources') <= MaxEntries
      /\ cfg'.passed # <<>> => Sources' = cfg'.passed
      /\ cfg'.passed = <<>> => Sources' = cfg'.listen
  BY <1>1, ConfigsAssumption, BoundsAssumption DEF Sources, Activated
<1>4. TypeOK'
  <2>1. errs' \in 0..Len(Sources')
    BY <1>3
  <2>2. runs' \in 0..MaxRuns /\ entry' \in 1..(MaxEntries + 1)
    BY BoundsAssumption DEF TypeOK
  <2>3. lis' \in [Entries -> {"none", "bound", "serving", "closed"}]
    BY DEF TypeOK
  <2>4. /\ via' \in [Conns -> {0} \union Entries]
        /\ how' \in {"never", "clean", "failed", "killed"}
        /\ pc' \in {"remove", "catch", "ended"}
    BY DEF TypeOK
  <2> QED BY <1>1, <2>1, <2>2, <2>3, <2>4 DEF TypeOK
<1>5. CASE pc' = "ended"
  <2>1. lis' = lis
    BY <1>5
  <2>2. OpenSet' = {}
    BY <1>1, <2>1 DEF OpenSet, Open
  <2>3. WhileBinding' /\ WhenBound'
    BY <1>5 DEF WhileBinding, WhenBound
  <2>4. Owners'
    BY <1>1, <1>2, <2>1 DEF Owners
  <2>5. Capacity'
    BY <1>3, <2>2, FS_EmptySet DEF Capacity
  <2> QED BY <1>4, <2>3, <2>4, <2>5
<1>6. CASE pc' = "catch"
  <2>1. /\ Sources' = cfg'.passed /\ Activated'
        /\ \A i \in Entries : lis'[i] = IF i <= Len(Sources') THEN "bound" ELSE "none"
    BY <1>3, <1>6 DEF Activated
  <2>2. OpenSet' = 1..Len(Sources')
    BY <1>3, <2>1, BoundsAssumption DEF OpenSet, Open, Entries
  <2>3. WhileBinding' /\ WhenBound'
    BY <1>6, <2>1 DEF WhileBinding, WhenBound
  <2>4. Owners'
    BY <1>2, <1>6 DEF Owners
  <2>5. Cardinality(OpenSet') = Len(Sources')
    <3>1. PICK n \in Nat : n = Len(Sources')
      BY <1>3
    <3>2. Cardinality(1..n) = n
      BY FS_Interval
    <3> QED BY <2>2, <3>1, <3>2
  <2>6. Capacity'
    BY <1>3, <2>5 DEF Capacity
  <2> QED BY <1>4, <2>3, <2>4, <2>6
<1>7. CASE pc' = "remove"
  <2>1. /\ Sources' = cfg'.listen /\ ~Activated'
        /\ \A i \in Entries : lis'[i] = "none"
    BY <1>3, <1>7 DEF Activated
  <2>2. OpenSet' = {}
    BY <2>1 DEF OpenSet, Open
  <2>3. WhileBinding'
    BY <1>3, <1>7, <2>1 DEF WhileBinding, Entries
  <2>4. WhenBound' /\ Owners'
    BY <1>2, <1>7 DEF WhenBound, Owners
  <2>5. Capacity'
    BY <1>3, <2>2, FS_EmptySet DEF Capacity
  <2> QED BY <1>4, <2>3, <2>4, <2>5
<1> QED BY <1>5, <1>6, <1>7, <1>1

LEMMA RemoveInv == ASSUME Inv, Remove PROVE Inv'
<1> USE DEF Inv, Remove, Goto, mainVars, connVars
<1>1. Sources' = Sources /\ Activated' = Activated /\ OpenSet' = OpenSet
  BY DEF Sources, Activated, OpenSet, Open
<1>2. \A i : Address(i)' = Address(i)
  BY <1>1 DEF Address
<1>3. cfg.listen = Sources
  BY DEF WhileBinding, Sources
<1>4. \A u \in Unix : file'[u] = file[u] \/ (u = Address(entry) /\ file'[u] = NoFile)
  BY DEF TypeOK
<1>5. Address(entry) \in Unix => file'[Address(entry)] = NoFile
  BY DEF TypeOK
<1>6. TypeOK'
  BY <1>1 DEF TypeOK
<1>7. WhileBinding'
  BY <1>1, <1>2, <1>3, <1>4, <1>5 DEF WhileBinding
<1>8. WhenBound' /\ Owners' /\ Capacity'
  BY <1>1, <1>4 DEF WhenBound, Owners, Capacity, NoFile, Entries
<1> QED BY <1>6, <1>7, <1>8

LEMMA BindInv == ASSUME Inv, Bind PROVE Inv'
<1> USE DEF Inv, Bind, Goto, connVars
<1>1. Sources' = Sources /\ Activated' = Activated
  BY DEF Sources, Activated
<1>2. \A i : Address(i)' = Address(i)
  BY <1>1 DEF Address
<1>3. /\ entry \in Nat /\ entry >= 1 /\ entry <= Len(Sources) /\ entry \in Entries
      /\ Len(Sources) \in Nat /\ entry + 1 <= MaxEntries + 1
  BY SourceFacts, BoundsAssumption DEF TypeOK, WhileBinding, Entries
<1>4. \A i \in Entries : lis'[i] = IF i < entry + 1 THEN "bound" ELSE "none"
  BY <1>3 DEF WhileBinding, TypeOK, Entries
<1>5. \A u \in Unix : file'[u] = IF u = Address(entry) THEN entry ELSE file[u]
  BY DEF TypeOK
<1>6. TypeOK'
  <2>1. file' \in [Unix -> {NoFile, Stale} \union Entries]
    BY <1>3 DEF TypeOK
  <2>2. lis' \in [Entries -> {"none", "bound", "serving", "closed"}]
    BY DEF TypeOK
  <2>3. entry' \in 1..(MaxEntries + 1)
    BY <1>3, BoundsAssumption
  <2> QED BY <1>1, <2>1, <2>2, <2>3 DEF TypeOK
<1>7. WhileBinding'
  <2>1. \A i \in 1..entry : Address(i) \in Unix => file'[Address(i)] \in Entries
    BY <1>3, <1>5 DEF WhileBinding
  <2> QED BY <1>1, <1>2, <1>3, <1>4, <2>1 DEF WhileBinding
<1>8. WhenBound'
  BY DEF WhenBound
<1>9. Owners'
  BY <1>3, <1>4, <1>5 DEF Owners, WhileBinding, Entries
<1>10. Capacity'
  <2>1. OpenSet' = 1..entry
    BY <1>3, <1>4, SourceFacts, BoundsAssumption DEF OpenSet, Open, Entries, TypeOK
  <2>2. Cardinality(OpenSet') = entry
    BY <1>3, <2>1, FS_Interval
  <2> QED BY <1>1, <1>3, <2>2 DEF Capacity, WhileBinding
<1> QED BY <1>6, <1>7, <1>8, <1>9, <1>10

LEMMA BoundInv == ASSUME Inv, Bound PROVE Inv'
<1> USE DEF Inv, Bound, Goto, mainVars, connVars
<1>1. Sources' = Sources /\ Activated' = Activated /\ OpenSet' = OpenSet
  BY DEF Sources, Activated, OpenSet, Open
<1>2. \A i : Address(i)' = Address(i)
  BY <1>1 DEF Address
<1>3. entry = Len(Sources) + 1 /\ Len(Sources) \in Nat
  BY SourceFacts DEF WhileBinding, Sources, TypeOK
<1>4. TypeOK' /\ WhileBinding' /\ Owners' /\ Capacity'
  BY <1>1 DEF TypeOK, WhileBinding, Owners, Capacity
<1>5. WhenBound'
  BY <1>1, <1>2, <1>3 DEF WhenBound, WhileBinding, Entries
<1> QED BY <1>4, <1>5

-----------------------------------------------------------------------------

LEMMA MainInv == ASSUME Inv, Main PROVE Inv'
<1> USE DEF Main, Goto, mainVars, connVars
<1>1. CASE Binding
  <2>1. CASE RemoveFails
    BY <2>1, EndsInv DEF Inv, TypeOK, RemoveFails, FileType
  <2>2. CASE BindFails
    BY <2>2, EndsInv, FilesType DEF Inv, BindFails
  <2> QED BY <1>1, <2>1, <2>2, RemoveInv, BindInv, BoundInv DEF Binding
<1>2. CASE Catch \/ Notify \/ Spawn \/ Signalled \/ Stop
  <2>1. TypeOK'
    BY <1>2 DEF Inv, TypeOK, Catch, Notify, Spawn, Signalled, Stop, Sources, Activated
  <2>2. /\ UNCHANGED <<cfg, lis, file, errs>>
        /\ {pc, pc'} \intersect {"remove", "bind", "ended"} = {}
    BY <1>2 DEF Catch, Notify, Spawn, Signalled, Stop
  <2> QED BY <2>1, <2>2, QuietInv
<1>3. CASE NotifyFails
  BY <1>3, EndsInv DEF Inv, TypeOK, NotifyFails, FileType
<1>4. CASE ErrorReturned
  BY <1>4, EndsInv DEF Inv, TypeOK, ErrorReturned, FileType
<1>5. CASE Shutdown
  <2> DEFINE I == {i \in Entries : lis[i] = "serving"}
  <2>1. I \in SUBSET OpenSet
    BY DEF OpenSet, Open
  <2>2. /\ Close(I) /\ errs' = errs + Cardinality(I) /\ pc = "shutdown" /\ pc' = "drain"
        /\ UNCHANGED <<runs, cfg, how, entry, obstructed, ready, caught, done, via>>
    BY <1>5 DEF Shutdown
  <2> HIDE DEF I
  <2> QED BY <2>1, <2>2, CloseInv
<1>6. CASE Drained
  BY <1>6, EndsInv DEF Inv, TypeOK, Drained, FileType
<1> QED BY <1>1, <1>2, <1>3, <1>4, <1>5, <1>6

\* The goroutine of one listener closes it.
LEMMA CloseOneInv ==
    ASSUME Inv, NEW i \in Entries, Open(i), Close({i}), errs' = errs + 1,
           UNCHANGED <<runs, cfg, pc, how, entry, obstructed, ready, caught, done, via>>,
           pc \notin {"remove", "bind", "ended"}
    PROVE  Inv'
<1>1. {i} \in SUBSET OpenSet
  BY DEF OpenSet
<1>2. Cardinality({i}) = 1
  BY FS_Singleton
<1> QED BY <1>1, <1>2, CloseInv

LEMMA ListenerInv ==
    ASSUME Inv, NEW i \in Entries, ServeStarts(i) \/ ServeFails(i) PROVE Inv'
<1>1. CASE ServeFails(i)
  <2>1. pc \notin {"remove", "bind", "ended"}
    BY <1>1 DEF Inv, WhileBinding, Owners, ServeFails
  <2> QED BY <1>1, <2>1, CloseOneInv DEF ServeFails, Open
<1>2. CASE ServeStarts(i) /\ pc = "drain"
  BY <1>2, CloseOneInv DEF ServeStarts, Open
<1>3. CASE ServeStarts(i) /\ pc # "drain"
  <2> USE <1>3 DEF Inv, ServeStarts
  <2>1. Sources' = Sources /\ Activated' = Activated
    BY DEF Sources, Activated
  <2>2. \A j : Address(j)' = Address(j)
    BY <2>1 DEF Address
  <2>3. \A j \in Entries : lis'[j] = IF j = i THEN "serving" ELSE lis[j]
    BY DEF TypeOK
  <2>4. OpenSet' = OpenSet
    BY <2>3 DEF OpenSet, Open
  <2>5. TypeOK'
    BY <2>1 DEF TypeOK
  <2>6. WhileBinding' /\ Owners' /\ Capacity'
    BY <2>1, <2>3, <2>4 DEF WhileBinding, Owners, Capacity
  <2>7. WhenBound'
    BY <2>1, <2>2, <2>3 DEF WhenBound
  <2> QED BY <2>5, <2>6, <2>7
<1> QED BY <1>1, <1>2, <1>3

LEMMA OthersInv ==
    ASSUME Inv,
           \/ \E c \in Conns : Connection(c) \/ \E i \in Entries : Connect(c, i)
           \/ Signal \/ Crash
           \/ \E a \in Addresses : Obstruct(a)
    PROVE  Inv'
<1> USE DEF mainVars, connVars
<1>1. CASE \E c \in Conns : Connection(c) \/ \E i \in Entries : Connect(c, i)
  <2>1. UNCHANGED <<cfg, lis, file, errs, pc, entry, ready>>
    BY <1>1 DEF Connection, Accept, Request, Answered, Upgraded, UpgradedEnds,
       IdleCloses, Connect
  <2>2. TypeOK'
    BY <1>1 DEF Inv, TypeOK, Connection, Accept, Request, Answered, Upgraded,
       UpgradedEnds, IdleCloses, Connect, Sources, Activated
  <2> QED BY <2>1, <2>2, QuietInv
<1>2. CASE Signal
  <2>1. CASE ~caught /\ Ends("killed", file)
    BY <2>1, EndsInv DEF Inv, TypeOK, FileType
  <2>2. CASE UNCHANGED <<runs, cfg, pc, how, entry, ready, caught, errs, lis, file,
                         obstructed, connVars>> /\ done' = TRUE
    <3>1. TypeOK'
      BY <2>2 DEF Inv, TypeOK, Sources, Activated
    <3> QED BY <2>2, <3>1, QuietInv
  <2> QED BY <1>2, <2>1, <2>2 DEF Signal
<1>3. CASE Crash
  BY <1>3, EndsInv DEF Inv, TypeOK, Crash, FileType
<1>4. CASE \E a \in Addresses : Obstruct(a)
  <2>1. UNCHANGED <<cfg, lis, file, errs, pc, entry, ready>>
    BY <1>4 DEF Obstruct
  <2>2. TypeOK'
    BY <1>4 DEF Inv, TypeOK, Obstruct, Sources, Activated
  <2> QED BY <2>1, <2>2, QuietInv
<1> QED BY <1>1, <1>2, <1>3, <1>4

LEMMA NextInv == Inv /\ [Next]_vars => Inv'
<1> SUFFICES ASSUME Inv, [Next]_vars PROVE Inv'
  OBVIOUS
<1>1. CASE UNCHANGED vars
  BY <1>1, QuietInv DEF vars, Inv, TypeOK, Sources, Activated
<1> QED BY <1>1, StartInv, MainInv, ListenerInv, OthersInv DEF Next

THEOREM InvAlways == Spec => []Inv
BY InitInv, NextInv, PTL DEF Spec

-----------------------------------------------------------------------------

\* Every variable keeps its type, and the channel of errors never overflows.
THEOREM TypeCorrect == Spec => []TypeOK
BY InvAlways, PTL DEF Inv

\* After READY=1 a client that connects to any address of the configuration
\* reaches an open listener of the process, for any list of entries.
THEOREM ReadyIsReachable == Spec => []ReadyMeansReachable
<1>1. Inv => ReadyMeansReachable
  <2> SUFFICES ASSUME Inv, ready, pc # "ended", \A i \in Entries : lis[i] # "closed",
                      NEW i \in 1..Len(Sources)
               PROVE  Reached(i) \in Entries /\ Open(Reached(i))
    BY DEF ReadyMeansReachable
  <2>1. i \in Entries /\ i <= Len(Sources) /\ pc \notin {"remove", "bind", "ended"}
    BY SourceFacts DEF Inv, TypeOK, WhileBinding
  <2>2. \A j \in Entries : lis[j] # "none" => Open(j)
    BY DEF Inv, TypeOK, Open
  <2>3. CASE Address(i) \in Unix /\ ~Activated
    BY <2>1, <2>2, <2>3 DEF Inv, WhenBound, Owners, Reached
  <2>4. CASE ~(Address(i) \in Unix /\ ~Activated)
    BY <2>1, <2>2, <2>4 DEF Inv, WhenBound, Reached
  <2> QED BY <2>3, <2>4
<1> QED BY <1>1, InvAlways, PTL

LEMMA FailingToBind == ASSUME Next, FailsToBind PROVE BindFails
BY DEF FailsToBind, Next, Start, Main, Binding, Remove, RemoveFails, Bind, Bound,
   Catch, Notify, NotifyFails, Spawn, ErrorReturned, Signalled, Stop, Shutdown,
   Drained, ServeStarts, ServeFails, Connection, Accept, Request, Answered, Upgraded,
   UpgradedEnds, IdleCloses, Connect, Signal, Crash, Obstruct, Ends, Goto

\* No socket file of an earlier run, however it ended, makes a bind fail.
THEOREM StaleFilesNeverFail == Spec => StaleNeverFails
<1> DEFINE P == FailsToBind =>
         \/ Address(entry) \in obstructed
         \/ \E i \in 1..(entry - 1) : Address(i) = Address(entry) /\ Address(i) \in Tcp
<1>1. Inv /\ [Next]_vars => [P]_vars
  <2> SUFFICES ASSUME Inv, Next, FailsToBind
               PROVE  \/ Address(entry) \in obstructed
                      \/ \E i \in 1..(entry - 1) :
                           Address(i) = Address(entry) /\ Address(i) \in Tcp
    OBVIOUS
  <2>1. pc = "bind" /\ InUse(Address(entry))
    BY FailingToBind DEF BindFails
  <2>2. \A i \in Entries : Open(i) => i \in 1..(entry - 1)
    BY <2>1 DEF Inv, WhileBinding, Open, Entries, TypeOK
  <2> QED BY <2>1, <2>2 DEF InUse, Inv, WhileBinding
<1> QED BY <1>1, InvAlways, PTL DEF Spec, StaleNeverFails

\* A failed bind unlinks the sockets bound before it, for any list of entries.
THEOREM FailedStartsCleanUp == Spec => FailedStartCleansUp
<1> DEFINE P == FailsToBind =>
         \A i \in 1..(entry - 1) :
             Address(i) \in Unix \ obstructed => file'[Address(i)] = NoFile
<1>1. Inv /\ [Next]_vars => [P]_vars
  <2> SUFFICES ASSUME Inv, Next, FailsToBind, NEW i \in 1..(entry - 1),
                      Address(i) \in Unix \ obstructed
               PROVE  file'[Address(i)] = NoFile
    OBVIOUS
  <2>1. BindFails /\ ~Activated
    BY FailingToBind DEF FailsToBind, Inv, WhileBinding
  <2>2. FilesWithout(1..(entry - 1))[Address(i)] = NoFile
    BY <2>1 DEF FilesWithout
  <2> QED BY <2>1, <2>2 DEF BindFails, Ends, NoFile, Entries
<1> QED BY <1>1, InvAlways, PTL DEF Spec, FailedStartCleansUp

=============================================================================
