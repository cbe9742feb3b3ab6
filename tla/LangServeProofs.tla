--------------------------- MODULE LangServeProofs ---------------------------
(***************************************************************************)
(* Proofs about LangServe, for any number of tasks, files and messages.    *)
(*                                                                         *)
(* What the editor shows is right because of what holds between two        *)
(* wake-ups of the loop too: of every file that is not dirty, the editor   *)
(* has what there is to show (Drawn).  Every operation on the files        *)
(* either leaves what there is to show of a file or marks it (Noticed);    *)
(* only add() may make a stale diagnostic fresh unnoticed.                 *)
(***************************************************************************)
EXTENDS LangServe, SequenceLemmas, TLAPS

EntryType == [refcount : Nat \ {0}, stale : BOOLEAN, notes : Seq(Diagnostics)]

\* The types of what TypeOK leaves open.
ServerTypes ==
    /\ entries \in [DOMAIN entries -> EntryType]
    /\ diagnostics \in [Tasks -> Seq(Diagnostics)]
    /\ emitted \in [Tasks -> Seq(Diagnostics)]
    /\ leftoverLog \in [Tasks -> {<<>>} \cup {<<p>> : p \in Pieces}]
    /\ spoiled \in [Tasks -> BOOLEAN]
    /\ revived \in SUBSET Paths

\* A diagnostic is of a file that there is.
FilesAreThere ==
    /\ \A d \in DOMAIN entries : Path(d) \in Paths
    /\ \A p \in Paths : \A x \in published[p] : Path(x.diagnostic) = p

\* A note that is taken has a diagnostic before it; the log of a task that was
\* there when the server connected is counted from its first line.
TasksFollow ==
    \A t \in Tasks :
        /\ addNotesToBack[t] => diagnostics[t] # <<>>
        /\ sent[t] = "attaching" => ~spoiled[t]

\* The editor shows of a file that is not dirty what there is to show.
Drawn ==
    \A p \in Paths \ dirty :
        /\ p \notin revived => published[p] = Export(p)
        /\ \A x \in published[p] : x.diagnostic \in DOMAIN entries /\ ~entries[x.diagnostic].stale

\* The loop sleeps, or has ended, only with nothing to do, and runs as long as
\* there is a connection that is not yet wound up.
LoopIsRight ==
    /\ loop \in {"waiting", "ended"} => dirty = {}
    /\ isShutdown <=> connection = "closing"
    /\ connection \in {"down", "header"} => loop = "ended"
    /\ connection = "up" => loop # "ended"
    /\ connection # "up" => \A t \in Tasks : diagnostics[t] = <<>>

Counted == RefcountsAreRight

SInv ==
    /\ TypeOK
    /\ ServerTypes
    /\ FilesAreThere
    /\ TasksFollow
    /\ Counted
    /\ ReportsAreOfTheLastRun
    /\ Drawn
    /\ LoopIsRight

----------------------------------------------------------------------------
(* Pointers at diagnostics.                                                *)

\* The pointers at d among the diagnostics D of the tasks ts.
PointersAt(D, ts, d) == {x \in UNION {{t} \X (DOMAIN D[t]) : t \in ts} : D[x[1]][x[2]] = d}

\* D when the tasks ts have taken theirs back.
Emptied(D, ts) == [t \in Tasks |-> IF t \in ts THEN <<>> ELSE D[t]]

LEMMA PointersAre ==
  ASSUME NEW D, NEW ts, NEW d
  PROVE  \A x : x \in PointersAt(D, ts, d) <=>
             \E t \in ts : \E i \in DOMAIN D[t] : x = <<t, i>> /\ D[t][i] = d
BY DEF PointersAt

LEMMA CountIsOfPointers ==
  ASSUME NEW ts, NEW d
  PROVE  /\ Count(ts, d) = Cardinality(PointersAt(diagnostics, ts, d))
         /\ Count(ts, d)' = Cardinality(PointersAt(diagnostics', ts, d))
<1>1. {x \in Pointers(ts) : At(x) = d} = PointersAt(diagnostics, ts, d)
  BY DEF Pointers, At, PointersAt
<1>2. {x \in Pointers(ts)' : At(x)' = d} = PointersAt(diagnostics', ts, d)
  BY DEF Pointers, At, PointersAt
<1> QED BY <1>1, <1>2 DEF Count

LEMMA PointersAreFinite ==
  ASSUME NEW D \in [Tasks -> Seq(Diagnostics)], NEW ts \in SUBSET Tasks, NEW d
  PROVE  /\ IsFiniteSet(PointersAt(D, ts, d))
         /\ Cardinality(PointersAt(D, ts, d)) \in Nat
<1> DEFINE f == [t \in ts |-> {t} \X (DOMAIN D[t])]
           T == {{t} \X (DOMAIN D[t]) : t \in ts}
<1>1. IsFiniteSet(ts)
  BY LangServeAssumption, FS_Subset
<1>2. f \in Surjection(ts, T)
  BY DEF Surjection
<1>3. IsFiniteSet(T)
  <2> HIDE DEF f, T
  <2> QED BY <1>1, <1>2, FS_Surjection
<1>4. ASSUME NEW t \in ts PROVE IsFiniteSet({t} \X (DOMAIN D[t]))
  <2>1. D[t] \in Seq(Diagnostics)
    OBVIOUS
  <2>2. DOMAIN D[t] = 1 .. Len(D[t]) /\ Len(D[t]) \in Nat
    BY <2>1
  <2>3. IsFiniteSet(1 .. Len(D[t]))
    BY <2>2, FS_Interval
  <2>4. IsFiniteSet({t})
    BY FS_Singleton
  <2> QED BY <2>2, <2>3, <2>4, FS_Product
<1>5. IsFiniteSet(UNION T)
  <2>1. \A S \in T : IsFiniteSet(S)
    BY <1>4
  <2> HIDE DEF T
  <2> QED BY <1>3, <2>1, FS_UNION
<1>6. PointersAt(D, ts, d) \in SUBSET (UNION T)
  BY DEF PointersAt
<1>7. IsFiniteSet(PointersAt(D, ts, d))
  <2> HIDE DEF T
  <2> QED BY <1>5, <1>6, FS_Subset
<1> QED BY <1>7, FS_CardinalityType

\* What the tasks take back is no longer counted.
LEMMA EmptiedCount ==
  ASSUME NEW D \in [Tasks -> Seq(Diagnostics)], NEW ts \in SUBSET Tasks, NEW d
  PROVE  /\ Emptied(D, ts) \in [Tasks -> Seq(Diagnostics)]
         /\ Cardinality(PointersAt(Emptied(D, ts), Tasks, d)) =
              Cardinality(PointersAt(D, Tasks, d)) - Cardinality(PointersAt(D, ts, d))
<1> DEFINE A == PointersAt(D, Tasks, d)
           B == PointersAt(D, ts, d)
           C == PointersAt(Emptied(D, ts), Tasks, d)
<1>1. Emptied(D, ts) \in [Tasks -> Seq(Diagnostics)]
  <2>1. <<>> \in Seq(Diagnostics)
    OBVIOUS
  <2> QED BY <2>1 DEF Emptied
<1>2. DOMAIN <<>> = {}
  OBVIOUS
<1>3. \A t \in Tasks : Emptied(D, ts)[t] = IF t \in ts THEN <<>> ELSE D[t]
  BY DEF Emptied
<1>4. C = A \ B
  <2>1. ASSUME NEW x \in C PROVE x \in A \ B
    <3>1. PICK t \in Tasks : \E i \in DOMAIN Emptied(D, ts)[t] :
                              x = <<t, i>> /\ Emptied(D, ts)[t][i] = d
      BY <2>1, PointersAre
    <3>2. t \notin ts
      BY <3>1, <1>2, <1>3
    <3>3. \E i \in DOMAIN D[t] : x = <<t, i>> /\ D[t][i] = d
      BY <3>1, <3>2, <1>3
    <3>4. x \in A
      BY <3>3, PointersAre
    <3>5. x \notin B
      <4>1. \A u \in ts : \A i \in DOMAIN D[u] : x # <<u, i>>
        BY <3>2, <3>3
      <4> QED BY <4>1, PointersAre
    <3> QED BY <3>4, <3>5
  <2>2. ASSUME NEW x \in A \ B PROVE x \in C
    <3>1. PICK t \in Tasks : \E i \in DOMAIN D[t] : x = <<t, i>> /\ D[t][i] = d
      BY <2>2, PointersAre
    <3>2. t \notin ts
      BY <3>1, <2>2, PointersAre
    <3>3. \E i \in DOMAIN Emptied(D, ts)[t] : x = <<t, i>> /\ Emptied(D, ts)[t][i] = d
      BY <3>1, <3>2, <1>3
    <3> QED BY <3>3, PointersAre
  <2> QED BY <2>1, <2>2
<1>5. A \cap B = B
  <2>1. \A x : x \in B => x \in A
    BY PointersAre
  <2> QED BY <2>1
<1>6. IsFiniteSet(A)
  BY PointersAreFinite
<1> HIDE DEF A, B, C
<1>7. Cardinality(A \ B) = Cardinality(A) - Cardinality(A \cap B)
  BY <1>6, FS_Difference
<1> QED BY <1>1, <1>4, <1>5, <1>7 DEF A, B, C

Appended(D, E, t, e) == E[t] = Append(D[t], e) /\ \A u \in Tasks : u # t => E[u] = D[u]

\* One more diagnostic of one task is counted once.
LEMMA AppendedCount ==
  ASSUME NEW D \in [Tasks -> Seq(Diagnostics)], NEW t \in Tasks, NEW e \in Diagnostics,
         NEW d \in Diagnostics,
         NEW E \in [Tasks -> Seq(Diagnostics)], Appended(D, E, t, e)
  PROVE  Cardinality(PointersAt(E, Tasks, d)) =
           Cardinality(PointersAt(D, Tasks, d)) + (IF d = e THEN 1 ELSE 0)
<1> DEFINE A == PointersAt(D, Tasks, d)
           B == PointersAt(E, Tasks, d)
           n == Len(D[t]) + 1
           y == <<t, n>>
<1>1. D[t] \in Seq(Diagnostics) /\ Len(D[t]) \in Nat /\ DOMAIN D[t] = 1 .. Len(D[t])
  OBVIOUS
<1>2. /\ E[t] = Append(D[t], e) /\ E[t] \in Seq(Diagnostics)
      /\ \A u \in Tasks : u # t => E[u] = D[u]
      /\ E \in [Tasks -> Seq(Diagnostics)]
  BY <1>1 DEF Appended
<1>3. /\ DOMAIN E[t] = (DOMAIN D[t]) \cup {n} /\ n \notin DOMAIN D[t]
      /\ E[t][n] = e
      /\ \A i \in DOMAIN D[t] : E[t][i] = D[t][i]
  BY <1>1, <1>2
<1> HIDE DEF n
<1>4. y \notin A
  BY <1>3, PointersAre
<1>5. \A x \in A : x \in B
  <2> SUFFICES ASSUME NEW x \in A PROVE x \in B
    OBVIOUS
  <2>1. PICK u \in Tasks : \E i \in DOMAIN D[u] : x = <<u, i>> /\ D[u][i] = d
    BY PointersAre
  <2>2. \E i \in DOMAIN E[u] : x = <<u, i>> /\ E[u][i] = d
    BY <2>1, <1>2, <1>3
  <2> QED BY <2>2, PointersAre
<1>6. \A x \in B : x \in A \/ (x = y /\ d = e)
  <2> SUFFICES ASSUME NEW x \in B PROVE x \in A \/ (x = y /\ d = e)
    OBVIOUS
  <2>0. x \in PointersAt(E, Tasks, d)
    OBVIOUS
  <2>1. PICK u \in Tasks : \E i \in DOMAIN E[u] : x = <<u, i>> /\ E[u][i] = d
    BY ONLY <2>0, PointersAre
  <2>2. CASE \E i \in DOMAIN D[u] : x = <<u, i>> /\ D[u][i] = d
    BY <2>2, PointersAre
  <2>3. CASE ~ \E i \in DOMAIN D[u] : x = <<u, i>> /\ D[u][i] = d
    <3>1. u = t
      BY <2>1, <2>3, <1>2
    <3>2. x = <<t, n>> /\ E[t][n] = d
      BY <2>1, <2>3, <3>1, <1>3
    <3> QED BY <3>2, <1>3
  <2> QED BY <2>2, <2>3
<1>7. d = e => y \in B
  <2> SUFFICES ASSUME d = e PROVE y \in B
    OBVIOUS
  <2>1. \E i \in DOMAIN E[t] : y = <<t, i>> /\ E[t][i] = d
    BY <1>3
  <2> QED BY <2>1, PointersAre
<1>8. IsFiniteSet(A) /\ Cardinality(A) \in Nat
  BY PointersAreFinite
<1> HIDE DEF A, B, y
<1>9. CASE d = e
  <2>1. B = A \cup {y}
    BY <1>5, <1>6, <1>7, <1>9
  <2>2. Cardinality(A \cup {y}) = Cardinality(A) + 1
    BY <1>4, <1>8, FS_AddElement
  <2> QED BY <1>2, <1>9, <2>1, <2>2 DEF A, B
<1>10. CASE d # e
  <2>1. B = A
    BY <1>5, <1>6, <1>10
  <2> QED BY <1>2, <1>8, <1>10, <2>1 DEF A, B
<1> QED BY <1>9, <1>10

\* What a task points at is counted.
LEMMA PointedIsCounted ==
  ASSUME NEW D \in [Tasks -> Seq(Diagnostics)], NEW t \in Tasks, NEW i \in DOMAIN D[t]
  PROVE  Cardinality(PointersAt(D, Tasks, D[t][i])) # 0
<1>1. <<t, i>> \in PointersAt(D, Tasks, D[t][i])
  BY PointersAre
<1>2. IsFiniteSet(PointersAt(D, Tasks, D[t][i]))
  BY PointersAreFinite
<1> QED BY <1>1, <1>2, FS_EmptySet

----------------------------------------------------------------------------
(* The operations on the files.                                            *)

\* What there is to show of a file, among the entries E.
Fresh(E, p) == {d \in DOMAIN E : Path(d) = p /\ ~E[d].stale}

\* An operation leaves the entries in order.
EntriesKept ==
    /\ entries' \in [DOMAIN entries' -> EntryType]
    /\ DOMAIN entries' \in SUBSET Diagnostics
    /\ \A d \in DOMAIN entries' : Path(d) \in Paths
    /\ dirty' \in SUBSET Paths
    /\ revived' \in SUBSET Paths

\* What there is to show of a file only changes with the file marked as dirty,
\* but that what was stale may become fresh, of a file in revived.
Noticed ==
    /\ dirty \in SUBSET dirty'
    /\ \A p \in Paths \ dirty' :
        /\ Fresh(entries, p) \in SUBSET Fresh(entries', p)
        /\ p \notin revived' =>
              /\ p \notin revived
              /\ Fresh(entries', p) = Fresh(entries, p)
              /\ \A d \in Fresh(entries, p) : entries'[d].notes = entries[d].notes

LEMMA DrawnKept ==
  ASSUME SInv, Noticed, published' = published
  PROVE  Drawn'
<1> SUFFICES ASSUME NEW p \in Paths \ dirty'
             PROVE  /\ p \notin revived' => published[p] = Export(p)'
                    /\ \A x \in published[p] :
                          x.diagnostic \in DOMAIN entries' /\ ~entries'[x.diagnostic].stale
  BY DEF Drawn
<1>1. p \in Paths \ dirty /\ Fresh(entries, p) \in SUBSET Fresh(entries', p)
  BY DEF Noticed
<1>2. ASSUME NEW x \in published[p]
      PROVE  x.diagnostic \in DOMAIN entries' /\ ~entries'[x.diagnostic].stale
  <2>1. x.diagnostic \in DOMAIN entries /\ ~entries[x.diagnostic].stale /\ Path(x.diagnostic) = p
    BY <1>1 DEF SInv, Drawn, FilesAreThere
  <2>2. x.diagnostic \in Fresh(entries, p)
    BY <2>1 DEF Fresh
  <2>3. x.diagnostic \in Fresh(entries', p)
    BY <1>1, <2>2
  <2> QED BY <2>3 DEF Fresh
<1>3. ASSUME p \notin revived' PROVE published[p] = Export(p)'
  <2>1. /\ p \notin revived /\ Fresh(entries', p) = Fresh(entries, p)
        /\ \A d \in Fresh(entries, p) : entries'[d].notes = entries[d].notes
    BY <1>3 DEF Noticed
  <2>2. published[p] = Export(p)
    BY <1>1, <2>1 DEF SInv, Drawn
  <2>3. Export(p) = {[diagnostic |-> d, notes |-> entries[d].notes] : d \in Fresh(entries, p)}
    BY DEF Export, Fresh
  <2>4. Export(p)' = {[diagnostic |-> d, notes |-> entries'[d].notes] : d \in Fresh(entries', p)}
    BY DEF Export, Fresh
  <2> QED BY <2>1, <2>2, <2>3, <2>4
<1> QED BY <1>2, <1>3

\* An entry, by its parts.
LEMMA EntryIs ==
  ASSUME SInv, NEW d \in DOMAIN entries
  PROVE  /\ entries[d] = [refcount |-> entries[d].refcount, stale |-> entries[d].stale,
                          notes |-> entries[d].notes]
         /\ entries[d].refcount \in Nat \ {0}
         /\ entries[d].stale \in BOOLEAN
         /\ entries[d].notes \in Seq(Diagnostics)
<1>1. entries[d] \in EntryType
  BY DEF SInv, ServerTypes
<1> QED BY <1>1 DEF EntryType

\* What is left of the references to a diagnostic without those of some tasks.
Left(ts, d) == entries[d].refcount - Count(ts, d)
Gone(ts) == {d \in DOMAIN entries : Left(ts, d) = 0}

LEMMA ReleaseIs ==
  ASSUME NEW ts
  PROVE  /\ Release(World, ts).entries =
              [d \in (DOMAIN entries) \ Gone(ts) |-> [entries[d] EXCEPT !.refcount = Left(ts, d)]]
         /\ Release(World, ts).dirty = dirty \cup {Path(d) : d \in Gone(ts)}
         /\ Release(World, ts).revived = revived
BY DEF Release, World, Left, Gone

\* The counts stay right when tasks take their diagnostics back.
LEMMA ReleaseKeeps ==
  ASSUME SInv, NEW ts \in SUBSET Tasks,
         diagnostics' = Emptied(diagnostics, ts),
         entries' = Release(World, ts).entries,
         dirty' = Release(World, ts).dirty,
         revived' = Release(World, ts).revived
  PROVE  EntriesKept /\ Noticed /\ RefcountsAreRight'
<1>0. /\ diagnostics \in [Tasks -> Seq(Diagnostics)] /\ entries \in [DOMAIN entries -> EntryType]
      /\ DOMAIN entries \in SUBSET Diagnostics /\ dirty \in SUBSET Paths /\ revived \in SUBSET Paths
      /\ \A d \in DOMAIN entries : Path(d) \in Paths
  BY DEF SInv, TypeOK, ServerTypes, FilesAreThere
<1>1. /\ entries' = [d \in (DOMAIN entries) \ Gone(ts) |->
                        [entries[d] EXCEPT !.refcount = Left(ts, d)]]
      /\ dirty' = dirty \cup {Path(d) : d \in Gone(ts)}
      /\ revived' = revived
  BY ReleaseIs
<1>2. ASSUME NEW d \in Diagnostics
      PROVE  /\ Count(Tasks, d) \in Nat /\ Count(ts, d) \in Nat /\ Count(Tasks, d)' \in Nat
             /\ Count(Tasks, d)' = Count(Tasks, d) - Count(ts, d)
  <2>1. /\ Count(Tasks, d) = Cardinality(PointersAt(diagnostics, Tasks, d))
        /\ Count(ts, d) = Cardinality(PointersAt(diagnostics, ts, d))
        /\ Count(Tasks, d)' = Cardinality(PointersAt(diagnostics', Tasks, d))
    BY CountIsOfPointers
  <2>2. PICK D : D = diagnostics
    OBVIOUS
  <2>3. /\ Cardinality(PointersAt(D, Tasks, d)) \in Nat
        /\ Cardinality(PointersAt(D, ts, d)) \in Nat
    BY <1>0, <2>2, PointersAreFinite
  <2>4. /\ Emptied(D, ts) \in [Tasks -> Seq(Diagnostics)]
        /\ Cardinality(PointersAt(Emptied(D, ts), Tasks, d)) =
              Cardinality(PointersAt(D, Tasks, d)) - Cardinality(PointersAt(D, ts, d))
    BY <1>0, <2>2, EmptiedCount
  <2>5. Cardinality(PointersAt(Emptied(D, ts), Tasks, d)) \in Nat
    BY <2>4, PointersAreFinite
  <2> QED BY <2>1, <2>2, <2>3, <2>4, <2>5
<1>3. ASSUME NEW d \in DOMAIN entries
      PROVE  Left(ts, d) = Count(Tasks, d)' /\ Left(ts, d) \in Nat
  <2>1. d \in Diagnostics
    BY <1>0
  <2>2. entries[d].refcount = Count(Tasks, d)
    BY <2>1 DEF SInv, Counted, RefcountsAreRight
  <2> QED BY <1>2, <2>1, <2>2 DEF Left
<1>4. DOMAIN entries' = (DOMAIN entries) \ Gone(ts)
  BY <1>1
<1>5. ASSUME NEW d \in DOMAIN entries'
      PROVE  /\ d \in DOMAIN entries
             /\ entries'[d] = [refcount |-> Left(ts, d), stale |-> entries[d].stale,
                               notes |-> entries[d].notes]
             /\ entries'[d] \in EntryType
             /\ entries'[d].refcount = Left(ts, d)
             /\ entries'[d].stale = entries[d].stale
             /\ entries'[d].notes = entries[d].notes
  <2>1. d \in DOMAIN entries /\ d \notin Gone(ts)
    BY <1>4
  <2>2. entries'[d] = [entries[d] EXCEPT !.refcount = Left(ts, d)]
    BY <1>1, <1>4
  <2>3. Left(ts, d) \in Nat \ {0}
    BY <2>1, <1>3 DEF Gone
  <2>4. entries'[d] = [refcount |-> Left(ts, d), stale |-> entries[d].stale,
                       notes |-> entries[d].notes]
    BY <2>1, <2>2, EntryIs
  <2>5. entries'[d] \in EntryType
    BY <2>1, <2>3, <2>4, EntryIs DEF EntryType
  <2> QED BY <2>1, <2>4, <2>5
<1>6. EntriesKept
  <2>1. entries' = [d \in DOMAIN entries' |-> entries'[d]]
    BY <1>1, <1>4
  <2>2. \A d \in DOMAIN entries' : entries'[d] \in EntryType
    BY <1>5
  <2>3. dirty' \in SUBSET Paths
    BY <1>0, <1>1 DEF Gone
  <2> QED BY <1>0, <1>1, <1>4, <2>1, <2>2, <2>3 DEF EntriesKept
<1>7. RefcountsAreRight'
  <2> SUFFICES ASSUME NEW d \in Diagnostics
               PROVE  Count(Tasks, d)' = IF d \in DOMAIN entries' THEN entries'[d].refcount ELSE 0
    BY DEF RefcountsAreRight
  <2>1. CASE d \in DOMAIN entries'
    <3>1. entries'[d].refcount = Left(ts, d) /\ d \in DOMAIN entries
      BY <1>5, <2>1
    <3> QED BY <1>3, <2>1, <3>1
  <2>2. CASE d \notin DOMAIN entries' /\ d \in DOMAIN entries
    <3>1. Left(ts, d) = 0
      BY <1>4, <2>2 DEF Gone
    <3> QED BY <1>3, <2>2, <3>1
  <2>3. CASE d \notin DOMAIN entries' /\ d \notin DOMAIN entries
    <3>1. Count(Tasks, d) = 0
      BY <2>3 DEF SInv, Counted, RefcountsAreRight
    <3> QED BY <1>2, <2>3, <3>1
  <2> QED BY <2>1, <2>2, <2>3
<1>8. Noticed
  <2> SUFFICES ASSUME NEW p \in Paths \ dirty'
               PROVE  /\ Fresh(entries', p) = Fresh(entries, p)
                      /\ \A d \in Fresh(entries, p) : entries'[d].notes = entries[d].notes
    BY <1>1 DEF Noticed
  <2>1. ASSUME NEW d \in Fresh(entries, p) PROVE d \in DOMAIN entries'
    <3>1. d \in DOMAIN entries /\ Path(d) = p
      BY DEF Fresh
    <3>2. d \notin Gone(ts)
      BY <1>1, <3>1
    <3> QED BY <1>4, <3>1, <3>2
  <2>2. \A d \in DOMAIN entries' : entries'[d].stale = entries[d].stale
                                   /\ entries'[d].notes = entries[d].notes /\ d \in DOMAIN entries
    BY <1>5
  <2> QED BY <2>1, <2>2 DEF Fresh
<1> QED BY <1>6, <1>7, <1>8

LEMMA AddOfNew ==
  ASSUME NEW d, d \notin DOMAIN entries
  PROVE  /\ Add(World, d).entries =
              [e \in (DOMAIN entries) \cup {d} |->
                  IF e = d THEN [refcount |-> 1, stale |-> FALSE, notes |-> <<>>] ELSE entries[e]]
         /\ Add(World, d).dirty = dirty \cup {Path(d)}
         /\ Add(World, d).revived = revived
BY DEF Add, MarkDirty, World

LEMMA AddOfKnown ==
  ASSUME NEW d \in DOMAIN entries
  PROVE  /\ Add(World, d).entries =
              [entries EXCEPT ![d] = [refcount |-> entries[d].refcount + 1, stale |-> FALSE,
                                      notes |-> entries[d].notes]]
         /\ Add(World, d).dirty = dirty
         /\ Add(World, d).revived =
              IF entries[d].stale THEN revived \cup {Path(d)} ELSE revived
BY DEF Add, World

\* The counts stay right when a task reports a diagnostic.
LEMMA AddKeeps ==
  ASSUME SInv, NEW t \in Tasks, NEW line \in Diagnostics, Path(line) \in Paths,
         diagnostics' = [diagnostics EXCEPT ![t] = Append(@, line)],
         entries' = Add(World, line).entries,
         dirty' = Add(World, line).dirty,
         revived' = Add(World, line).revived
  PROVE  EntriesKept /\ Noticed /\ RefcountsAreRight'
<1>0. /\ diagnostics \in [Tasks -> Seq(Diagnostics)] /\ entries \in [DOMAIN entries -> EntryType]
      /\ DOMAIN entries \in SUBSET Diagnostics /\ dirty \in SUBSET Paths /\ revived \in SUBSET Paths
      /\ \A d \in DOMAIN entries : Path(d) \in Paths
  BY DEF SInv, TypeOK, ServerTypes, FilesAreThere
<1>1. ASSUME NEW d \in Diagnostics
      PROVE  /\ Count(Tasks, d) \in Nat
             /\ Count(Tasks, d)' = Count(Tasks, d) + (IF d = line THEN 1 ELSE 0)
  <2>1. /\ Count(Tasks, d) = Cardinality(PointersAt(diagnostics, Tasks, d))
        /\ Count(Tasks, d)' = Cardinality(PointersAt(diagnostics', Tasks, d))
    BY CountIsOfPointers
  <2>2. PICK D : D = diagnostics
    OBVIOUS
  <2>3. PICK E : E = diagnostics'
    OBVIOUS
  <2>4. E = [D EXCEPT ![t] = Append(@, line)]
    BY <2>2, <2>3
  <2>5. Cardinality(PointersAt(D, Tasks, d)) \in Nat
    BY <1>0, <2>2, PointersAreFinite
  <2>6. Cardinality(PointersAt(E, Tasks, d)) =
              Cardinality(PointersAt(D, Tasks, d)) + (IF d = line THEN 1 ELSE 0)
    <3>1. D \in [Tasks -> Seq(Diagnostics)]
      BY <1>0, <2>2
    <3>2. Append(D[t], line) \in Seq(Diagnostics)
      BY <3>1
    <3>3. E \in [Tasks -> Seq(Diagnostics)]
      BY <2>4, <3>1, <3>2
    <3>4. line \in Diagnostics /\ d \in Diagnostics /\ t \in Tasks
      OBVIOUS
    <3>5. Appended(D, E, t, line)
      BY <2>4, <3>1 DEF Appended
    <3> QED BY ONLY <3>1, <3>3, <3>4, <3>5, AppendedCount
  <2> QED BY <2>1, <2>2, <2>3, <2>5, <2>6
<1>2. ASSUME NEW d \in Diagnostics
      PROVE  Count(Tasks, d) = IF d \in DOMAIN entries THEN entries[d].refcount ELSE 0
  BY DEF SInv, Counted, RefcountsAreRight
<1>3. CASE line \notin DOMAIN entries
  <2>1. /\ entries' = [e \in (DOMAIN entries) \cup {line} |->
                          IF e = line THEN [refcount |-> 1, stale |-> FALSE, notes |-> <<>>]
                          ELSE entries[e]]
        /\ dirty' = dirty \cup {Path(line)}
        /\ revived' = revived
    BY <1>3, AddOfNew
  <2>2. DOMAIN entries' = (DOMAIN entries) \cup {line}
    BY <2>1
  <2>3. /\ entries'[line] = [refcount |-> 1, stale |-> FALSE, notes |-> <<>>]
        /\ entries'[line].refcount = 1
        /\ \A d \in DOMAIN entries : entries'[d] = entries[d]
    BY <1>3, <2>1
  <2>4. entries'[line] \in EntryType
    <3>1. <<>> \in Seq(Diagnostics)
      OBVIOUS
    <3> QED BY <2>3, <3>1 DEF EntryType
  <2>5. EntriesKept
    <3>1. entries' = [d \in DOMAIN entries' |-> entries'[d]]
      BY <2>1, <2>2
    <3>2. \A d \in DOMAIN entries' : entries'[d] \in EntryType
      BY <1>0, <2>2, <2>3, <2>4
    <3> QED BY <1>0, <2>1, <2>2, <3>1, <3>2 DEF EntriesKept
  <2>6. RefcountsAreRight'
    <3> SUFFICES ASSUME NEW d \in Diagnostics
                 PROVE  Count(Tasks, d)' = IF d \in DOMAIN entries' THEN entries'[d].refcount ELSE 0
      BY DEF RefcountsAreRight
    <3>1. CASE d = line
      BY <1>1, <1>2, <1>3, <2>2, <2>3, <3>1
    <3>2. CASE d # line
      BY <1>1, <1>2, <2>2, <2>3, <3>2
    <3> QED BY <3>1, <3>2
  <2>7. Noticed
    BY <2>1, <2>2, <2>3 DEF Noticed, Fresh
  <2> QED BY <2>5, <2>6, <2>7
<1>4. CASE line \in DOMAIN entries
  <2>1. /\ entries' = [entries EXCEPT ![line] =
                          [refcount |-> entries[line].refcount + 1, stale |-> FALSE,
                           notes |-> entries[line].notes]]
        /\ dirty' = dirty
        /\ revived' = IF entries[line].stale THEN revived \cup {Path(line)} ELSE revived
    BY <1>4, AddOfKnown
  <2>2. /\ DOMAIN entries' = DOMAIN entries
        /\ entries' = [d \in DOMAIN entries' |-> entries'[d]]
        /\ \A d \in DOMAIN entries : d # line => entries'[d] = entries[d]
    BY <2>1
  <2>3. /\ entries'[line] = [refcount |-> entries[line].refcount + 1, stale |-> FALSE,
                             notes |-> entries[line].notes]
        /\ entries[line].refcount \in Nat
        /\ entries[line].notes \in Seq(Diagnostics)
    BY <1>4, <2>1, EntryIs
  <2>4. /\ entries'[line].refcount = entries[line].refcount + 1
        /\ entries'[line].stale = FALSE
        /\ entries'[line].notes = entries[line].notes
    BY <2>3
  <2>5. entries'[line] \in EntryType
    BY <2>3 DEF EntryType
  <2>6. EntriesKept
    <3>1. \A d \in DOMAIN entries' : entries'[d] \in EntryType
      BY <1>0, <2>2, <2>5
    <3> QED BY <1>0, <1>4, <2>1, <2>2, <3>1 DEF EntriesKept
  <2>7. RefcountsAreRight'
    <3> SUFFICES ASSUME NEW d \in Diagnostics
                 PROVE  Count(Tasks, d)' = IF d \in DOMAIN entries' THEN entries'[d].refcount ELSE 0
      BY DEF RefcountsAreRight
    <3>1. CASE d = line
      BY <1>1, <1>2, <1>4, <2>2, <2>4, <3>1
    <3>2. CASE d # line
      BY <1>1, <1>2, <2>2, <3>2
    <3> QED BY <3>1, <3>2
  <2>8. Noticed
    <3> SUFFICES ASSUME NEW p \in Paths \ dirty'
                 PROVE  /\ Fresh(entries, p) \in SUBSET Fresh(entries', p)
                        /\ p \notin revived' =>
                              /\ p \notin revived
                              /\ Fresh(entries', p) = Fresh(entries, p)
                              /\ \A d \in Fresh(entries, p) : entries'[d].notes = entries[d].notes
      BY <2>1 DEF Noticed
    <3>1. \A d \in DOMAIN entries : entries'[d].notes = entries[d].notes
      BY <2>2, <2>4
    <3>2. Fresh(entries, p) \in SUBSET Fresh(entries', p)
      BY <2>2, <2>4 DEF Fresh
    <3>3. ASSUME p \notin revived', NEW d \in Fresh(entries', p) PROVE d \in Fresh(entries, p)
      <4>1. d = line => ~entries[line].stale
        BY <2>1, <3>3 DEF Fresh
      <4> QED BY <2>2, <4>1 DEF Fresh
    <3>4. p \notin revived' => p \notin revived
      BY <2>1
    <3> QED BY <3>1, <3>2, <3>3, <3>4 DEF Fresh
  <2> QED BY <2>6, <2>7, <2>8
<1> QED BY <1>3, <1>4

\* A note goes to a diagnostic of a file that is marked.
LEMMA AddNoteKeeps ==
  ASSUME SInv, NEW d \in DOMAIN entries, NEW line \in Diagnostics,
         diagnostics' = diagnostics,
         entries' = [entries EXCEPT ![d].notes = Append(@, line)],
         dirty' = dirty \cup {Path(d)},
         revived' = revived
  PROVE  EntriesKept /\ Noticed /\ RefcountsAreRight'
<1>0. /\ entries \in [DOMAIN entries -> EntryType]
      /\ DOMAIN entries \in SUBSET Diagnostics /\ dirty \in SUBSET Paths /\ revived \in SUBSET Paths
      /\ \A e \in DOMAIN entries : Path(e) \in Paths
  BY DEF SInv, TypeOK, ServerTypes, FilesAreThere
<1>1. /\ DOMAIN entries' = DOMAIN entries
      /\ entries' = [e \in DOMAIN entries' |-> entries'[e]]
      /\ \A e \in DOMAIN entries : e # d => entries'[e] = entries[e]
  OBVIOUS
<1>2. /\ entries'[d] = [refcount |-> entries[d].refcount, stale |-> entries[d].stale,
                        notes |-> Append(entries[d].notes, line)]
      /\ entries[d].refcount \in Nat \ {0}
      /\ entries[d].stale \in BOOLEAN
      /\ entries[d].notes \in Seq(Diagnostics)
  <2>1. entries'[d] = [entries[d] EXCEPT !.notes = Append(@, line)]
    OBVIOUS
  <2>2. /\ entries[d] = [refcount |-> entries[d].refcount, stale |-> entries[d].stale,
                         notes |-> entries[d].notes]
        /\ entries[d].refcount \in Nat \ {0}
        /\ entries[d].stale \in BOOLEAN
        /\ entries[d].notes \in Seq(Diagnostics)
    BY EntryIs
  <2> QED BY <2>1, <2>2
<1>3. /\ entries'[d].refcount = entries[d].refcount
      /\ entries'[d].stale = entries[d].stale
  BY <1>2
<1>4. entries'[d] \in EntryType
  <2>1. Append(entries[d].notes, line) \in Seq(Diagnostics)
    BY <1>2
  <2> QED BY <1>2, <2>1 DEF EntryType
<1>5. EntriesKept
  <2>1. \A e \in DOMAIN entries' : entries'[e] \in EntryType
    BY <1>0, <1>1, <1>4
  <2> QED BY <1>0, <1>1, <2>1 DEF EntriesKept
<1>6. RefcountsAreRight'
  <2> SUFFICES ASSUME NEW e \in Diagnostics
               PROVE  Count(Tasks, e)' = IF e \in DOMAIN entries' THEN entries'[e].refcount ELSE 0
    BY DEF RefcountsAreRight
  <2>1. Count(Tasks, e)' = Count(Tasks, e)
    BY CountIsOfPointers
  <2>2. Count(Tasks, e) = IF e \in DOMAIN entries THEN entries[e].refcount ELSE 0
    BY DEF SInv, Counted, RefcountsAreRight
  <2> QED BY <1>1, <1>3, <2>1, <2>2
<1>7. Noticed
  <2> SUFFICES ASSUME NEW p \in Paths \ dirty'
               PROVE  /\ Fresh(entries', p) = Fresh(entries, p)
                      /\ \A e \in Fresh(entries, p) : entries'[e].notes = entries[e].notes
    BY DEF Noticed
  <2>1. Path(d) # p
    OBVIOUS
  <2> QED BY <1>1, <2>1 DEF Fresh
<1> QED BY <1>5, <1>6, <1>7

LEMMA MarkStaleIs ==
  ASSUME NEW path
  PROVE  /\ MarkStale(World, path).entries =
              [d \in DOMAIN entries |->
                  IF d \in Fresh(entries, path) THEN [entries[d] EXCEPT !.stale = TRUE]
                  ELSE entries[d]]
         /\ MarkStale(World, path).dirty =
              IF Fresh(entries, path) # {} THEN dirty \cup {path} ELSE dirty
         /\ MarkStale(World, path).revived = revived
BY DEF MarkStale, MarkDirty, World, Fresh

\* An edit marks the file, unless there was nothing to show of it.
LEMMA MarkStaleKeeps ==
  ASSUME SInv, NEW path \in Paths,
         diagnostics' = diagnostics,
         entries' = MarkStale(World, path).entries,
         dirty' = MarkStale(World, path).dirty,
         revived' = MarkStale(World, path).revived
  PROVE  EntriesKept /\ Noticed /\ RefcountsAreRight' /\ (entries = <<>> => dirty' = dirty)
<1>0. /\ entries \in [DOMAIN entries -> EntryType]
      /\ DOMAIN entries \in SUBSET Diagnostics /\ dirty \in SUBSET Paths /\ revived \in SUBSET Paths
      /\ \A e \in DOMAIN entries : Path(e) \in Paths
  BY DEF SInv, TypeOK, ServerTypes, FilesAreThere
<1>1. /\ entries' = [d \in DOMAIN entries |->
                        IF d \in Fresh(entries, path) THEN [entries[d] EXCEPT !.stale = TRUE]
                        ELSE entries[d]]
      /\ dirty' = IF Fresh(entries, path) # {} THEN dirty \cup {path} ELSE dirty
      /\ revived' = revived
  BY MarkStaleIs
<1>2. DOMAIN entries' = DOMAIN entries /\ entries' = [d \in DOMAIN entries' |-> entries'[d]]
  BY <1>1
<1>3. ASSUME NEW d \in DOMAIN entries, d \in Fresh(entries, path)
      PROVE  /\ entries'[d] \in EntryType
             /\ entries'[d].refcount = entries[d].refcount
             /\ entries'[d].notes = entries[d].notes
  <2>1. entries'[d] = [entries[d] EXCEPT !.stale = TRUE]
    BY <1>1, <1>3
  <2>2. /\ entries'[d] = [refcount |-> entries[d].refcount, stale |-> TRUE,
                          notes |-> entries[d].notes]
        /\ entries[d].refcount \in Nat \ {0}
        /\ entries[d].notes \in Seq(Diagnostics)
    BY <2>1, EntryIs
  <2> QED BY <2>2 DEF EntryType
<1>4. ASSUME NEW d \in DOMAIN entries, d \notin Fresh(entries, path)
      PROVE  entries'[d] = entries[d]
  BY <1>1, <1>4
<1>5. EntriesKept
  <2>1. \A d \in DOMAIN entries' : entries'[d] \in EntryType
    BY <1>0, <1>2, <1>3, <1>4
  <2> QED BY <1>0, <1>1, <1>2, <2>1 DEF EntriesKept
<1>6. RefcountsAreRight'
  <2> SUFFICES ASSUME NEW e \in Diagnostics
               PROVE  Count(Tasks, e)' = IF e \in DOMAIN entries' THEN entries'[e].refcount ELSE 0
    BY DEF RefcountsAreRight
  <2>1. Count(Tasks, e)' = Count(Tasks, e)
    BY CountIsOfPointers
  <2>2. Count(Tasks, e) = IF e \in DOMAIN entries THEN entries[e].refcount ELSE 0
    BY DEF SInv, Counted, RefcountsAreRight
  <2> QED BY <1>2, <1>3, <1>4, <2>1, <2>2
<1>7. Noticed
  <2> SUFFICES ASSUME NEW p \in Paths \ dirty'
               PROVE  /\ Fresh(entries', p) = Fresh(entries, p)
                      /\ \A e \in Fresh(entries, p) : entries'[e].notes = entries[e].notes
    BY <1>1 DEF Noticed
  <2>1. \A e \in DOMAIN entries : Path(e) = p => e \notin Fresh(entries, path)
    BY <1>1 DEF Fresh
  <2> QED BY <1>2, <1>4, <2>1 DEF Fresh
<1>8. entries = <<>> => dirty' = dirty
  BY <1>1 DEF Fresh
<1> QED BY <1>5, <1>6, <1>7, <1>8

----------------------------------------------------------------------------
(* The parts of the invariant that a step keeps.                           *)

\* Of the files, the loop and the connection.
FilesKept ==
    /\ EntriesKept
    /\ RefcountsAreRight'
    /\ diagnostics' \in [Tasks -> Seq(Diagnostics)]
    /\ addNotesToBack' \in [Tasks -> BOOLEAN]
    /\ \A t \in Tasks : addNotesToBack'[t] => diagnostics'[t] # <<>>
    /\ files' \in SUBSET DOMAIN RealPath
    /\ isShutdown' \in BOOLEAN
    /\ loop' \in {"waiting", "ready", "sending", "ended"}
    /\ connection' \in {"down", "header", "up", "closing"}
    /\ died' \in BOOLEAN
    /\ DOMAIN published' = Paths
    /\ \A p \in Paths : \A x \in published'[p] : Path(x.diagnostic) = p
    /\ Drawn'
    /\ LoopIsRight'

\* Of what Ekam says of its tasks.
MessagesKept ==
    /\ sent' \in [Tasks -> {"none", "pending", "attaching", "running", "done"}]
    /\ emitted' \in [Tasks -> Seq(Diagnostics)]
    /\ leftoverLog' \in [Tasks -> {<<>>} \cup {<<p>> : p \in Pieces}]
    /\ spoiled' \in [Tasks -> BOOLEAN]
    /\ \A t \in Tasks : sent'[t] = "attaching" => ~spoiled'[t]
    /\ ReportsAreOfTheLastRun'

LEMMA Together ==
  ASSUME FilesKept, MessagesKept
  PROVE  SInv'
<1>1. TypeOK'
  BY DEF FilesKept, MessagesKept, EntriesKept, TypeOK
<1>2. ServerTypes'
  BY DEF FilesKept, MessagesKept, EntriesKept, ServerTypes
<1>3. FilesAreThere' /\ TasksFollow'
  BY DEF FilesKept, MessagesKept, EntriesKept, FilesAreThere, TasksFollow
<1> QED BY <1>1, <1>2, <1>3 DEF FilesKept, MessagesKept, SInv, Counted

LEMMA Typed ==
  ASSUME SInv
  PROVE  /\ diagnostics \in [Tasks -> Seq(Diagnostics)]
         /\ entries \in [DOMAIN entries -> EntryType]
         /\ DOMAIN entries \in SUBSET Diagnostics
         /\ dirty \in SUBSET Paths
         /\ revived \in SUBSET Paths
         /\ addNotesToBack \in [Tasks -> BOOLEAN]
         /\ sent \in [Tasks -> {"none", "pending", "attaching", "running", "done"}]
         /\ emitted \in [Tasks -> Seq(Diagnostics)]
         /\ leftoverLog \in [Tasks -> {<<>>} \cup {<<p>> : p \in Pieces}]
         /\ spoiled \in [Tasks -> BOOLEAN]
         /\ files \in SUBSET DOMAIN RealPath
         /\ isShutdown \in BOOLEAN
         /\ loop \in {"waiting", "ready", "sending", "ended"}
         /\ connection \in {"down", "header", "up", "closing"}
         /\ died \in BOOLEAN
         /\ DOMAIN published = Paths
         /\ \A d \in DOMAIN entries : Path(d) \in Paths
         /\ \A p \in Paths : \A x \in published[p] : Path(x.diagnostic) = p
         /\ \A t \in Tasks : addNotesToBack[t] => diagnostics[t] # <<>>
         /\ \A t \in Tasks : sent[t] = "attaching" => ~spoiled[t]
BY DEF SInv, TypeOK, ServerTypes, FilesAreThere, TasksFollow

\* A step that leaves the files alone.
LEMMA FilesUntouched ==
  ASSUME SInv,
         UNCHANGED <<diagnostics, entries, dirty, revived, published>>
  PROVE  EntriesKept /\ RefcountsAreRight' /\ Drawn'
<1>1. EntriesKept
  BY Typed DEF EntriesKept
<1>2. RefcountsAreRight'
  <2>1. \A d : Count(Tasks, d)' = Count(Tasks, d)
    BY CountIsOfPointers
  <2> QED BY <2>1 DEF SInv, Counted, RefcountsAreRight
<1>3. Drawn'
  BY DEF SInv, Drawn, Export
<1> QED BY <1>1, <1>2, <1>3

\* A change of the files wakes a loop that waits.
LEMMA WakeKeeps ==
  ASSUME SInv, Wake, dirty \in SUBSET dirty', loop = "ended" => dirty' = dirty,
         UNCHANGED <<connection, isShutdown>>,
         connection # "up" => diagnostics' = diagnostics
  PROVE  /\ loop' \in {"waiting", "ready", "sending", "ended"}
         /\ LoopIsRight'
  BY Typed DEF Wake, SInv, LoopIsRight

\* Without diagnostics of tasks there are no entries.
LEMMA NoEntries ==
  ASSUME SInv, \A t \in Tasks : diagnostics[t] = <<>>
  PROVE  entries = <<>>
<1>1. ASSUME NEW d \in DOMAIN entries PROVE FALSE
  <2>1. d \in Diagnostics /\ entries[d].refcount # 0
    BY Typed, EntryIs
  <2>2. Count(Tasks, d) # 0
    BY <2>1 DEF SInv, Counted, RefcountsAreRight
  <2>3. DOMAIN <<>> = {}
    OBVIOUS
  <2>4. PointersAt(diagnostics, Tasks, d) = {}
    BY <2>3 DEF PointersAt
  <2> QED BY <2>2, <2>4, CountIsOfPointers, FS_EmptySet
<1>2. entries \in [{} -> EntryType]
  BY <1>1, Typed
<1>3. <<>> \in [{} -> EntryType]
  OBVIOUS
<1> QED BY <1>2, <1>3

----------------------------------------------------------------------------
(* The lines of a log.                                                     *)

Reports(s) == Sublist(s, {i \in DOMAIN s : ~IsNote(s[i]) /\ Path(s[i]) # None})

LEMMA ReportsOfNothing == Reports(<<>>) = <<>>
<1>1. <<>> \in Seq(Diagnostics) /\ DOMAIN <<>> = {}
  OBVIOUS
<1>2. Reports(<<>>) = Sublist(<<>>, {})
  BY <1>1 DEF Reports
<1>3. Sublist(<<>>, {}) \in Seq(Diagnostics) /\ Len(Sublist(<<>>, {})) = Cardinality({})
  BY <1>1, SublistIsTyped
<1>4. Cardinality({}) = 0
  BY FS_EmptySet
<1> QED BY <1>2, <1>3, <1>4

LEMMA ReportsGrow ==
  ASSUME NEW s \in Seq(Diagnostics), NEW x \in Diagnostics
  PROVE  Reports(Append(s, x)) =
           IF ~IsNote(x) /\ Path(x) # None THEN Append(Reports(s), x) ELSE Reports(s)
<1> DEFINE K == {i \in DOMAIN s : ~IsNote(s[i]) /\ Path(s[i]) # None}
           y == Append(s, x)
           L == {i \in DOMAIN y : ~IsNote(y[i]) /\ Path(y[i]) # None}
<1>1. DOMAIN y = (DOMAIN s) \cup {Len(s) + 1} /\ Len(s) + 1 \notin DOMAIN s
  OBVIOUS
<1>2. y[Len(s) + 1] = x /\ \A i \in DOMAIN s : y[i] = s[i]
  OBVIOUS
<1>3. Reports(s) = Sublist(s, K) /\ Reports(y) = Sublist(y, L)
  BY DEF Reports
<1>4. K \in SUBSET DOMAIN s
  OBVIOUS
<1>5. L = IF ~IsNote(x) /\ Path(x) # None THEN K \cup {Len(s) + 1} ELSE K
  <2> HIDE DEF y
  <2> QED BY <1>1, <1>2
<1> HIDE DEF K, L
<1>6. /\ Sublist(y, K \cup {Len(s) + 1}) = Append(Sublist(s, K), x)
      /\ Sublist(y, K) = Sublist(s, K)
  BY <1>4, SublistOfAppended
<1> HIDE DEF y
<1> QED BY <1>3, <1>5, <1>6 DEF y

\* A line is one that a diagnostic is made of, and names a file or none.
LEMMA LinesAre ==
  ASSUME NEW left \in {<<>>} \cup {<<p>> : p \in Pieces}, NEW piece \in Pieces
  PROVE  /\ Append(left, piece) \in Diagnostics
         /\ NameOf[Append(left, piece)[1]] \in DOMAIN RealPath
         /\ Path(Append(left, piece)) \in Paths \cup {None}
<1>1. Append(left, piece) \in Diagnostics /\ Append(left, piece)[1] \in Pieces
  <2>1. CASE left = <<>>
    <3>1. Append(left, piece) = <<piece>>
      BY <2>1
    <3> QED BY <3>1 DEF Diagnostics
  <2>2. ASSUME NEW p \in Pieces, left = <<p>>
        PROVE  Append(left, piece) \in Diagnostics /\ Append(left, piece)[1] \in Pieces
    <3>a. <<p>> \in Seq(Pieces) /\ Len(<<p>>) = 1 /\ <<p>>[1] = p
      OBVIOUS
    <3>b. PICK s \in Seq(Pieces) : s = <<p>> /\ Len(s) = 1 /\ s[1] = p
      BY <3>a
    <3>c. /\ Append(s, piece) \in Seq(Pieces) /\ Len(Append(s, piece)) = 2
          /\ Append(s, piece)[1] = p /\ Append(s, piece)[2] = piece
      BY <3>b
    <3>d. PICK q \in Seq(Pieces) : q = <<p, piece>> /\ Len(q) = 2 /\ q[1] = p /\ q[2] = piece
      <4>1. <<p, piece>> \in Seq(Pieces)
        OBVIOUS
      <4>2. Len(<<p, piece>>) = 2 /\ <<p, piece>>[1] = p /\ <<p, piece>>[2] = piece
        OBVIOUS
      <4> QED BY <4>1, <4>2
    <3>e. PICK r \in Seq(Pieces) : r = Append(s, piece)
      BY <3>c
    <3>f. r = q
      <4>1. Len(r) = 2 /\ r[1] = p /\ r[2] = piece
        BY <3>c, <3>e
      <4>2. r = [i \in 1 .. 2 |-> r[i]] /\ q = [i \in 1 .. 2 |-> q[i]]
        BY <3>d, <4>1
      <4>3. \A i \in 1 .. 2 : r[i] = q[i]
        BY ONLY <3>d, <4>1
      <4> QED BY ONLY <4>2, <4>3
    <3>1. Append(left, piece) = <<p, piece>>
      BY <2>2, <3>b, <3>d, <3>e, <3>f
    <3> QED BY <3>1 DEF Diagnostics
  <2> QED BY <2>1, <2>2
<1>2. NameOf[Append(left, piece)[1]] \in DOMAIN RealPath
  BY <1>1, LangServeAssumption
<1> QED BY <1>1, <1>2 DEF Path, Paths

----------------------------------------------------------------------------
(* Messages of Ekam.                                                       *)

\* What the actions that receive a message have in common.
Receiving ==
    /\ Running
    /\ connection = "up"
    /\ UNCHANGED <<isShutdown, published, connection>>

LEMMA UpdateKeeps ==
  ASSUME SInv, Receiving, NEW t \in Tasks, NEW state, Update(t, state)
  PROVE  /\ FilesKept
         /\ diagnostics' = IF state \in Clears THEN [diagnostics EXCEPT ![t] = <<>>] ELSE diagnostics
         /\ died' = died
<1>1. CASE state \in Clears
  <2>1. /\ diagnostics' = [diagnostics EXCEPT ![t] = <<>>]
        /\ addNotesToBack' = [addNotesToBack EXCEPT ![t] = FALSE]
        /\ entries' = Release(World, {t}).entries
        /\ dirty' = Release(World, {t}).dirty
        /\ revived' = Release(World, {t}).revived
        /\ Wake
        /\ UNCHANGED <<files, died>>
    BY <1>1 DEF Update, TakeOver
  <2>2. diagnostics' = Emptied(diagnostics, {t})
    BY <2>1, Typed DEF Emptied
  <2>3. EntriesKept /\ Noticed /\ RefcountsAreRight'
    BY <2>1, <2>2, ReleaseKeeps
  <2>4. Drawn'
    BY <2>3, DrawnKept DEF Receiving
  <2>5. loop' \in {"waiting", "ready", "sending", "ended"} /\ LoopIsRight'
    <3>1. loop # "ended"
      BY DEF SInv, LoopIsRight, Receiving
    <3>2. dirty \in SUBSET dirty'
      BY <2>3 DEF Noticed
    <3> QED BY <2>1, <3>1, <3>2, WakeKeeps DEF Receiving
  <2>6. diagnostics' \in [Tasks -> Seq(Diagnostics)]
    <3>1. <<>> \in Seq(Diagnostics)
      OBVIOUS
    <3> QED BY <2>1, <3>1, Typed
  <2>7. \A u \in Tasks : addNotesToBack'[u] => diagnostics'[u] # <<>>
    BY <2>1, Typed
  <2> QED BY <1>1, <2>1, <2>3, <2>4, <2>5, <2>6, <2>7, Typed DEF FilesKept, Receiving
<1>2. CASE state \notin Clears
  <2>1. UNCHANGED <<diagnostics, addNotesToBack, entries, dirty, revived, loop, files, died>>
    BY <1>2 DEF Update
  <2>2. EntriesKept /\ RefcountsAreRight' /\ Drawn'
    BY <2>1, FilesUntouched DEF Receiving
  <2>3. LoopIsRight'
    BY <2>1 DEF SInv, LoopIsRight, Receiving
  <2> QED BY <1>2, <2>1, <2>2, <2>3, Typed DEF FilesKept, Receiving
<1> QED BY <1>1, <1>2

\* What is known of the reports before a message.
LEMMA ReportsBefore ==
  ASSUME SInv, Receiving
  PROVE  \A t \in Tasks : ~spoiled[t] => diagnostics[t] = Reports(emitted[t])
BY DEF SInv, ReportsAreOfTheLastRun, Receiving, Reports

\* The reports of a task after a message to it; those of the others are as they were.
LEMMA ReportsAfter ==
  ASSUME SInv, Receiving, NEW t \in Tasks,
         \A u \in Tasks : u # t =>
             diagnostics'[u] = diagnostics[u] /\ emitted'[u] = emitted[u] /\ spoiled'[u] = spoiled[u],
         ~spoiled'[t] => diagnostics'[t] = Reports(emitted'[t])
  PROVE  ReportsAreOfTheLastRun'
<1>1. \A u \in Tasks : ~spoiled'[u] => diagnostics'[u] = Reports(emitted'[u])
  BY ReportsBefore
<1> QED BY <1>1 DEF ReportsAreOfTheLastRun, Reports

LEMMA BeginKeeps ==
  ASSUME SInv, NEW t \in Tasks, NEW as \in {"pending", "attaching"}, Begin(t, as)
  PROVE  SInv'
<1>1. Receiving /\ Update(t, "PENDING") /\ sent' = [sent EXCEPT ![t] = as]
  BY DEF Begin, Received, Receiving
<1>2. /\ emitted' = [emitted EXCEPT ![t] = <<>>]
      /\ spoiled' = [spoiled EXCEPT ![t] = FALSE]
      /\ leftoverLog' = leftoverLog
  BY DEF Begin
<1>3. FilesKept /\ diagnostics' = [diagnostics EXCEPT ![t] = <<>>]
  BY <1>1, UpdateKeeps DEF Clears
<1>4. MessagesKept
  <2>1. <<>> \in Seq(Diagnostics)
    OBVIOUS
  <2>2. emitted' \in [Tasks -> Seq(Diagnostics)]
    BY <1>2, <2>1, Typed
  <2>3. ReportsAreOfTheLastRun'
    BY <1>1, <1>2, <1>3, ReportsAfter, ReportsOfNothing, Typed
  <2>4. \A u \in Tasks : sent'[u] = "attaching" => ~spoiled'[u]
    BY <1>1, <1>2, Typed
  <2> QED BY <1>1, <1>2, <2>2, <2>3, <2>4, Typed DEF MessagesKept
<1> QED BY <1>3, <1>4, Together

LEMMA StartKeeps ==
  ASSUME SInv, NEW t \in Tasks, Start(t)
  PROVE  SInv'
<1>1. Receiving /\ Update(t, "RUNNING") /\ sent' = [sent EXCEPT ![t] = "running"]
  BY DEF Start, Received, Receiving
<1>2. /\ emitted' = [emitted EXCEPT ![t] = <<>>]
      /\ spoiled' = [spoiled EXCEPT ![t] = leftoverLog[t] # <<>>]
      /\ leftoverLog' = leftoverLog
  BY DEF Start
<1>3. FilesKept /\ diagnostics' = [diagnostics EXCEPT ![t] = <<>>]
  BY <1>1, UpdateKeeps DEF Clears
<1>4. MessagesKept
  <2>1. <<>> \in Seq(Diagnostics)
    OBVIOUS
  <2>2. emitted' \in [Tasks -> Seq(Diagnostics)]
    BY <1>2, <2>1, Typed
  <2>3. ReportsAreOfTheLastRun'
    BY <1>1, <1>2, <1>3, ReportsAfter, ReportsOfNothing, Typed
  <2>4. \A u \in Tasks : sent'[u] = "attaching" => ~spoiled'[u]
    BY <1>1, <1>2, Typed
  <2> QED BY <1>1, <1>2, <2>2, <2>3, <2>4, Typed DEF MessagesKept
<1> QED BY <1>3, <1>4, Together

LEMMA AttachedKeeps ==
  ASSUME SInv, NEW t \in Tasks, NEW state \in {"RUNNING", "DONE"}, Attached(t, state)
  PROVE  SInv'
<1>1. /\ Receiving /\ Update(t, state) /\ sent[t] = "attaching"
      /\ sent' = [sent EXCEPT ![t] = IF state = "RUNNING" THEN "running" ELSE "done"]
  BY DEF Attached, Received, Receiving
<1>2. /\ spoiled' = [spoiled EXCEPT ![t] = state = "RUNNING" /\ emitted[t] # <<>>]
      /\ leftoverLog' = leftoverLog /\ emitted' = emitted
  BY DEF Attached
<1>3. /\ FilesKept
      /\ diagnostics' = IF state = "RUNNING" THEN [diagnostics EXCEPT ![t] = <<>>] ELSE diagnostics
  BY <1>1, UpdateKeeps DEF Clears
<1>4. MessagesKept
  <2>1. ~spoiled'[t] => diagnostics'[t] = Reports(emitted'[t])
    <3>1. CASE state = "RUNNING"
      BY <1>2, <1>3, <3>1, ReportsOfNothing, Typed
    <3>2. CASE state = "DONE"
      <4>1. ~spoiled[t]
        BY <1>1, Typed
      <4> QED BY <1>1, <1>2, <1>3, <3>2, <4>1, ReportsBefore, Typed
    <3> QED BY <3>1, <3>2
  <2>2. \A u \in Tasks : u # t =>
             diagnostics'[u] = diagnostics[u] /\ emitted'[u] = emitted[u] /\ spoiled'[u] = spoiled[u]
    BY <1>2, <1>3, Typed
  <2>3. ReportsAreOfTheLastRun'
    BY <1>1, <2>1, <2>2, ReportsAfter
  <2>4. \A u \in Tasks : sent'[u] = "attaching" => ~spoiled'[u]
    BY <1>1, <1>2, Typed
  <2>5. spoiled' \in [Tasks -> BOOLEAN]
    BY <1>2, Typed
  <2> QED BY <1>1, <1>2, <2>3, <2>4, <2>5, Typed DEF MessagesKept
<1> QED BY <1>3, <1>4, Together

LEMMA EndKeeps ==
  ASSUME SInv, NEW t \in Tasks, End(t)
  PROVE  SInv'
<1>1. Receiving /\ Update(t, "DONE") /\ sent' = [sent EXCEPT ![t] = "done"]
  BY DEF End, Received, Receiving
<1>2. emitted' = emitted /\ spoiled' = spoiled /\ leftoverLog' = leftoverLog
  BY DEF End
<1>3. FilesKept /\ diagnostics' = diagnostics
  BY <1>1, UpdateKeeps DEF Clears
<1>4. MessagesKept
  <2>1. ReportsAreOfTheLastRun'
    BY <1>1, <1>2, <1>3, ReportsAfter, ReportsBefore
  <2>2. \A u \in Tasks : sent'[u] = "attaching" => ~spoiled'[u]
    BY <1>1, <1>2, Typed
  <2> QED BY <1>1, <1>2, <2>1, <2>2, Typed DEF MessagesKept
<1> QED BY <1>3, <1>4, Together

LEMMA DeleteKeeps ==
  ASSUME SInv, NEW t \in Tasks, Delete(t)
  PROVE  SInv'
<1>1. Receiving /\ Update(t, "DELETED") /\ sent' = [sent EXCEPT ![t] = "none"]
  BY DEF Delete, Received, Receiving
<1>2. /\ emitted' = [emitted EXCEPT ![t] = <<>>]
      /\ spoiled' = [spoiled EXCEPT ![t] = FALSE]
      /\ leftoverLog' = [leftoverLog EXCEPT ![t] = <<>>]
  BY DEF Delete
<1>3. FilesKept /\ diagnostics' = [diagnostics EXCEPT ![t] = <<>>]
  BY <1>1, UpdateKeeps DEF Clears
<1>4. MessagesKept
  <2>1. <<>> \in Seq(Diagnostics)
    OBVIOUS
  <2>2. emitted' \in [Tasks -> Seq(Diagnostics)]
    BY <1>2, <2>1, Typed
  <2>3. ReportsAreOfTheLastRun'
    BY <1>1, <1>2, <1>3, ReportsAfter, ReportsOfNothing, Typed
  <2>4. \A u \in Tasks : sent'[u] = "attaching" => ~spoiled'[u]
    BY <1>1, <1>2, Typed
  <2>5. leftoverLog' \in [Tasks -> {<<>>} \cup {<<p>> : p \in Pieces}]
    BY <1>2, Typed
  <2> QED BY <1>1, <1>2, <2>2, <2>3, <2>4, <2>5, Typed DEF MessagesKept
<1> QED BY <1>3, <1>4, Together

LEMMA LogPartKeeps ==
  ASSUME SInv, NEW t \in Tasks, NEW piece \in Pieces, LogPart(t, piece)
  PROVE  SInv'
<1>1. /\ Receiving /\ sent' = [sent EXCEPT ![t] = sent[t]]
      /\ leftoverLog' = [leftoverLog EXCEPT ![t] = <<piece>>]
      /\ UNCHANGED <<emitted, spoiled, diagnostics, addNotesToBack, files, entries, revived,
                     dirty, loop, died>>
  BY DEF LogPart, Received, Receiving, fileVars
<1>2. sent' = sent
  BY <1>1, Typed
<1>3. FilesKept
  <2>1. EntriesKept /\ RefcountsAreRight' /\ Drawn'
    BY <1>1, FilesUntouched DEF Receiving
  <2>2. LoopIsRight'
    BY <1>1 DEF SInv, LoopIsRight, Receiving
  <2> QED BY <1>1, <2>1, <2>2, Typed DEF FilesKept, Receiving
<1>4. MessagesKept
  <2>1. ReportsAreOfTheLastRun'
    BY <1>1, ReportsAfter, ReportsBefore
  <2>2. leftoverLog' \in [Tasks -> {<<>>} \cup {<<p>> : p \in Pieces}]
    BY <1>1, Typed
  <2> QED BY <1>1, <1>2, <2>1, <2>2, Typed DEF MessagesKept
<1> QED BY <1>3, <1>4, Together

LEMMA LogLineKeeps ==
  ASSUME SInv, NEW t \in Tasks, NEW piece \in Pieces, LogLine(t, piece)
  PROVE  SInv'
<1> DEFINE line == Append(leftoverLog[t], piece)
           name == NameOf[line[1]]
           taken == ~Collides(name) /\ ~Skipped(t, line)
<1>1. /\ Receiving /\ sent' = [sent EXCEPT ![t] = sent[t]]
      /\ leftoverLog' = [leftoverLog EXCEPT ![t] = <<>>]
      /\ emitted' = [emitted EXCEPT ![t] = Append(@, line)]
      /\ spoiled' = spoiled
      /\ died' = Collides(name)
  BY DEF LogLine, Received, Receiving
<1>2. sent' = sent
  BY <1>1, Typed
<1>3. line \in Diagnostics /\ name \in DOMAIN RealPath /\ Path(line) \in Paths \cup {None}
  <2>1. leftoverLog[t] \in {<<>>} \cup {<<p>> : p \in Pieces}
    BY Typed
  <2> QED BY <2>1, LinesAre
<1>4. /\ Collides(name) => UNCHANGED <<diagnostics, addNotesToBack, files, entries, revived, dirty, loop>>
      /\ ~Collides(name) => files' = files \cup {name}
      /\ ~Collides(name) /\ Skipped(t, line) =>
            UNCHANGED <<diagnostics, addNotesToBack, entries, revived, dirty, loop>>
      /\ taken /\ IsNote(line) =>
            /\ TakeOver(AddNote(World, t, line))
            /\ UNCHANGED <<diagnostics, addNotesToBack>>
      /\ taken /\ ~IsNote(line) =>
            /\ diagnostics' = [diagnostics EXCEPT ![t] = Append(@, line)]
            /\ TakeOver(Add(World, line))
            /\ addNotesToBack' = [addNotesToBack EXCEPT ![t] = entries'[line].notes = <<>>]
  BY DEF LogLine, fileVars
<1> HIDE DEF line, name
<1>5. files' \in SUBSET DOMAIN RealPath /\ died' \in BOOLEAN
  BY <1>1, <1>3, <1>4, Typed DEF Collides
<1>6. /\ connection' = "up" /\ isShutdown' \in BOOLEAN /\ loop # "ended"
      /\ DOMAIN published' = Paths
      /\ \A p \in Paths : \A x \in published'[p] : Path(x.diagnostic) = p
  BY <1>1, Typed DEF Receiving, SInv, LoopIsRight
\* Nothing is taken from the line.
<1>7. ASSUME ~taken PROVE FilesKept
  <2>1. UNCHANGED <<diagnostics, addNotesToBack, entries, revived, dirty, loop>>
    BY <1>4, <1>7
  <2>2. EntriesKept /\ RefcountsAreRight' /\ Drawn'
    BY <1>1, <2>1, FilesUntouched DEF Receiving
  <2>3. LoopIsRight'
    BY <1>1, <2>1 DEF SInv, LoopIsRight, Receiving
  <2> QED BY <1>5, <1>6, <2>1, <2>2, <2>3, Typed DEF FilesKept
\* A note goes to the last diagnostic.
<1>8. ASSUME taken, IsNote(line) PROVE FilesKept
  <2>1. UNCHANGED <<diagnostics, addNotesToBack>> /\ TakeOver(AddNote(World, t, line))
    BY <1>4, <1>8
  <2>2. PICK d : d = Last(diagnostics[t])
    OBVIOUS
  <2>3. d \in DOMAIN entries
    <3>1. addNotesToBack[t]
      BY <1>8 DEF Skipped
    <3>2. diagnostics[t] \in Seq(Diagnostics) /\ diagnostics[t] # <<>>
      BY <3>1, Typed
    <3>3. PICK i \in DOMAIN diagnostics[t] : d = diagnostics[t][i]
      <4>1. Len(diagnostics[t]) \in DOMAIN diagnostics[t]
        BY <3>2
      <4> QED BY <4>1, <2>2 DEF Last
    <3>4. d \in Diagnostics
      BY <3>2, <3>3
    <3>5. Count(Tasks, d) # 0
      <4>1. PICK D : D = diagnostics
        OBVIOUS
      <4>2. Cardinality(PointersAt(D, Tasks, D[t][i])) # 0
        BY <3>3, <4>1, Typed, PointedIsCounted
      <4> QED BY <3>3, <4>1, <4>2, CountIsOfPointers
    <3> QED BY <3>4, <3>5 DEF SInv, Counted, RefcountsAreRight
  <2>4. /\ entries' = [entries EXCEPT ![d].notes = Append(@, line)]
        /\ dirty' = dirty \cup {Path(d)}
        /\ revived' = revived
        /\ Wake
    BY <2>1, <2>2 DEF TakeOver, AddNote, MarkDirty, World
  <2>5. EntriesKept /\ Noticed /\ RefcountsAreRight'
    BY <1>3, <2>1, <2>3, <2>4, AddNoteKeeps
  <2>6. Drawn'
    BY <1>1, <2>5, DrawnKept DEF Receiving
  <2>7. loop' \in {"waiting", "ready", "sending", "ended"} /\ LoopIsRight'
    BY <1>1, <1>6, <2>1, <2>4, WakeKeeps DEF Receiving
  <2> QED BY <1>5, <1>6, <2>1, <2>5, <2>6, <2>7, Typed DEF FilesKept
\* A diagnostic is added.
<1>9. ASSUME taken, ~IsNote(line) PROVE FilesKept
  <2>1. /\ diagnostics' = [diagnostics EXCEPT ![t] = Append(@, line)]
        /\ TakeOver(Add(World, line))
        /\ addNotesToBack' = [addNotesToBack EXCEPT ![t] = entries'[line].notes = <<>>]
    BY <1>4, <1>9
  <2>2. /\ entries' = Add(World, line).entries
        /\ dirty' = Add(World, line).dirty
        /\ revived' = Add(World, line).revived
        /\ Wake
    BY <2>1 DEF TakeOver
  <2>3. Path(line) \in Paths
    BY <1>3, <1>9 DEF Skipped
  <2>4. EntriesKept /\ Noticed /\ RefcountsAreRight'
    BY <1>3, <2>1, <2>2, <2>3, AddKeeps
  <2>5. Drawn'
    BY <1>1, <2>4, DrawnKept DEF Receiving
  <2>6. dirty \in SUBSET dirty'
    BY <2>4 DEF Noticed
  <2>7. loop' \in {"waiting", "ready", "sending", "ended"} /\ LoopIsRight'
    BY <1>1, <1>6, <2>2, <2>6, WakeKeeps DEF Receiving, SInv, LoopIsRight
  <2>8. Append(diagnostics[t], line) \in Seq(Diagnostics) /\ Append(diagnostics[t], line) # <<>>
    BY <1>3, Typed
  <2>9. diagnostics' \in [Tasks -> Seq(Diagnostics)]
    BY <2>1, <2>8, Typed
  <2>10. \A u \in Tasks : addNotesToBack'[u] => diagnostics'[u] # <<>>
    BY <2>1, <2>8, Typed
  <2>11. addNotesToBack' \in [Tasks -> BOOLEAN]
    BY <2>1, Typed
  <2> QED BY <1>5, <1>6, <2>4, <2>5, <2>7, <2>9, <2>10, <2>11, Typed DEF FilesKept
<1>10. FilesKept
  <2> HIDE DEF taken
  <2> QED BY <1>7, <1>8, <1>9
<1>11. MessagesKept
  <2>1. emitted[t] \in Seq(Diagnostics) /\ Append(emitted[t], line) \in Seq(Diagnostics)
    BY <1>3, Typed
  <2>2. emitted' \in [Tasks -> Seq(Diagnostics)] /\ emitted'[t] = Append(emitted[t], line)
    BY <1>1, <2>1, Typed
  <2>3. ReportsAreOfTheLastRun'
    <3>1. CASE Collides(name)
      BY <1>1, <3>1 DEF ReportsAreOfTheLastRun, Running
    <3>2. CASE ~Collides(name)
      <4>1. Reports(emitted'[t]) = IF ~IsNote(line) /\ Path(line) # None
                                   THEN Append(Reports(emitted[t]), line) ELSE Reports(emitted[t])
        BY <1>3, <2>1, <2>2, ReportsGrow
      <4>2. diagnostics' = IF ~IsNote(line) /\ Path(line) # None
                           THEN [diagnostics EXCEPT ![t] = Append(@, line)] ELSE diagnostics
        BY <1>4, <3>2 DEF Skipped
      <4>3. ~spoiled[t] => diagnostics[t] = Reports(emitted[t])
        BY <1>1, ReportsBefore
      <4>4. diagnostics'[t] = IF ~IsNote(line) /\ Path(line) # None
                              THEN Append(diagnostics[t], line) ELSE diagnostics[t]
        BY <4>2, Typed
      <4>5. ~spoiled'[t] => diagnostics'[t] = Reports(emitted'[t])
        BY <1>1, <4>1, <4>3, <4>4
      <4>6. \A u \in Tasks : u # t =>
               diagnostics'[u] = diagnostics[u] /\ emitted'[u] = emitted[u] /\ spoiled'[u] = spoiled[u]
        BY <1>1, <4>2, Typed
      <4> QED BY <1>1, <4>5, <4>6, ReportsAfter
    <3> QED BY <3>1, <3>2
  <2>4. leftoverLog' \in [Tasks -> {<<>>} \cup {<<p>> : p \in Pieces}]
    BY <1>1, Typed
  <2> QED BY <1>1, <1>2, <2>2, <2>3, <2>4, Typed DEF MessagesKept
<1> QED BY <1>10, <1>11, Together

----------------------------------------------------------------------------
(* The editor, the loop and the connection.                                *)

\* Steps that do not touch the messages.
LEMMA MessagesUntouched ==
  ASSUME SInv, Running, UNCHANGED <<sent, emitted, leftoverLog, spoiled, diagnostics>>
  PROVE  MessagesKept
<1>1. ReportsAreOfTheLastRun'
  BY DEF SInv, ReportsAreOfTheLastRun
<1> QED BY <1>1, Typed DEF MessagesKept

LEMMA DidChangeKeeps ==
  ASSUME SInv, NEW path \in Paths, DidChange(path)
  PROVE  SInv'
<1>1. /\ Running
      /\ UNCHANGED <<diagnostics, leftoverLog, addNotesToBack, files, isShutdown, sent, emitted,
                     spoiled, published, connection, died>>
  BY DEF DidChange, taskVars, ekamVars
<1>2. MessagesKept
  BY <1>1, MessagesUntouched
<1>3. CASE connection \in {"up", "closing"} /\ \E n \in files : RealPath[n] = path
  <2>1. /\ entries' = MarkStale(World, path).entries
        /\ dirty' = MarkStale(World, path).dirty
        /\ revived' = MarkStale(World, path).revived
        /\ Wake
    BY <1>3 DEF DidChange, TakeOver
  <2>2. EntriesKept /\ Noticed /\ RefcountsAreRight' /\ (entries = <<>> => dirty' = dirty)
    BY <1>1, <2>1, MarkStaleKeeps
  <2>3. Drawn'
    BY <1>1, <2>2, DrawnKept
  <2>4. loop = "ended" => dirty' = dirty
    <3>1. loop = "ended" => \A t \in Tasks : diagnostics[t] = <<>>
      BY DEF SInv, LoopIsRight
    <3> QED BY <2>2, <3>1, NoEntries
  <2>5. loop' \in {"waiting", "ready", "sending", "ended"} /\ LoopIsRight'
    <3>1. dirty \in SUBSET dirty'
      BY <2>2 DEF Noticed
    <3> QED BY <1>1, <2>1, <2>4, <3>1, WakeKeeps
  <2>6. FilesKept
    BY <1>1, <2>2, <2>3, <2>5, Typed DEF FilesKept
  <2> QED BY <1>2, <2>6, Together
<1>4. CASE ~(connection \in {"up", "closing"} /\ \E n \in files : RealPath[n] = path)
  <2>1. UNCHANGED <<entries, dirty, revived, loop>>
    BY <1>4 DEF DidChange
  <2>2. EntriesKept /\ RefcountsAreRight' /\ Drawn'
    BY <1>1, <2>1, FilesUntouched
  <2>3. LoopIsRight'
    BY <1>1, <2>1 DEF SInv, LoopIsRight
  <2>4. FilesKept
    BY <1>1, <2>1, <2>2, <2>3, Typed DEF FilesKept
  <2> QED BY <1>2, <2>4, Together
<1> QED BY <1>3, <1>4

LEMMA PublishKeeps ==
  ASSUME SInv, Publish
  PROVE  SInv'
<1>1. /\ Running /\ loop = "ready" /\ loop' = "sending"
      /\ published' = [p \in Paths |-> IF p \in dirty THEN Export(p) ELSE published[p]]
      /\ dirty' = {} /\ revived' = revived \ dirty
      /\ UNCHANGED <<diagnostics, leftoverLog, addNotesToBack, files, entries, isShutdown,
                     sent, emitted, spoiled, connection, died>>
  BY DEF Publish, taskVars, ekamVars
<1>2. MessagesKept
  BY <1>1, MessagesUntouched
<1>3. EntriesKept
  BY <1>1, Typed DEF EntriesKept
<1>4. RefcountsAreRight'
  <2>1. \A d : Count(Tasks, d)' = Count(Tasks, d)
    BY <1>1, CountIsOfPointers
  <2> QED BY <1>1, <2>1 DEF SInv, Counted, RefcountsAreRight
<1>5. ASSUME NEW p \in Paths, NEW x \in Export(p)
      PROVE  /\ x.diagnostic \in DOMAIN entries /\ ~entries[x.diagnostic].stale
             /\ Path(x.diagnostic) = p
  BY <1>5 DEF Export
<1>6. ASSUME NEW p \in Paths
      PROVE  /\ p \notin revived' => published'[p] = Export(p)'
             /\ \A x \in published'[p] :
                   /\ x.diagnostic \in DOMAIN entries' /\ ~entries'[x.diagnostic].stale
                   /\ Path(x.diagnostic) = p
  <2>1. Export(p)' = Export(p)
    BY <1>1 DEF Export
  <2>2. CASE p \in dirty
    BY <1>1, <1>5, <2>1, <2>2
  <2>3. CASE p \notin dirty
    <3>1. published'[p] = published[p]
      BY <1>1, <2>3
    <3>2. /\ p \notin revived => published[p] = Export(p)
          /\ \A x \in published[p] : x.diagnostic \in DOMAIN entries /\ ~entries[x.diagnostic].stale
      BY <2>3 DEF SInv, Drawn
    <3> QED BY <1>1, <2>1, <2>3, <3>1, <3>2, Typed
  <2> QED BY <2>2, <2>3
<1>7. Drawn'
  BY <1>6 DEF Drawn
<1>8. LoopIsRight'
  BY <1>1 DEF SInv, LoopIsRight
<1>9. FilesKept
  <2>1. DOMAIN published' = Paths
    BY <1>1
  <2> QED BY <1>1, <1>3, <1>4, <1>6, <1>7, <1>8, <2>1, Typed DEF FilesKept
<1> QED BY <1>2, <1>9, Together

\* Again, Connect and ReadHeader, which move the loop and the connection.
LEMMA LoopKeeps ==
  ASSUME SInv, Running,
         UNCHANGED <<diagnostics, leftoverLog, addNotesToBack, files, entries, revived, dirty,
                     isShutdown, sent, emitted, spoiled, published>>,
         loop' \in {"waiting", "ready", "sending", "ended"},
         connection' \in {"down", "header", "up", "closing"},
         died' \in BOOLEAN,
         LoopIsRight'
  PROVE  SInv'
<1>1. MessagesKept
  BY MessagesUntouched
<1>2. EntriesKept /\ RefcountsAreRight' /\ Drawn'
  BY FilesUntouched
<1>3. FilesKept
  BY <1>2, Typed DEF FilesKept
<1> QED BY <1>1, <1>3, Together

LEMMA AgainKeeps ==
  ASSUME SInv, Again
  PROVE  SInv'
<1>1. /\ Running /\ loop = "sending" /\ loop' = WhenNonEmpty
      /\ UNCHANGED <<diagnostics, leftoverLog, addNotesToBack, files, entries, revived, dirty,
                     isShutdown, sent, emitted, spoiled, published, connection, died>>
  BY DEF Again, taskVars, fileVars, ekamVars, otherVars
<1>2. loop' \in {"waiting", "ready", "sending", "ended"}
  BY <1>1 DEF WhenNonEmpty
<1>3. LoopIsRight'
  BY <1>1 DEF SInv, LoopIsRight, WhenNonEmpty
<1> QED BY <1>1, <1>2, <1>3, LoopKeeps, Typed

LEMMA ConnectKeeps ==
  ASSUME SInv, Connect
  PROVE  SInv'
<1>1. /\ Running /\ connection = "down" /\ connection' = "header"
      /\ UNCHANGED <<diagnostics, leftoverLog, addNotesToBack, files, entries, revived, dirty,
                     isShutdown, loop, sent, emitted, spoiled, published, died>>
  BY DEF Connect, taskVars, fileVars, ekamVars, loopVars
<1>2. LoopIsRight'
  BY <1>1 DEF SInv, LoopIsRight
<1> QED BY <1>1, <1>2, LoopKeeps, Typed

LEMMA ReadHeaderKeeps ==
  ASSUME SInv, ReadHeader
  PROVE  SInv'
<1>1. /\ Running /\ connection = "header"
      /\ UNCHANGED <<diagnostics, leftoverLog, addNotesToBack, files, entries, revived, dirty,
                     isShutdown, sent, emitted, spoiled, published>>
      /\ \/ connection' = "up" /\ loop' = "waiting" /\ died' = died
         \/ died' = TRUE /\ UNCHANGED <<connection, loop>>
  BY DEF ReadHeader, taskVars, fileVars, ekamVars
<1>2. LoopIsRight'
  BY <1>1 DEF SInv, LoopIsRight
<1>3. /\ loop' \in {"waiting", "ready", "sending", "ended"}
      /\ connection' \in {"down", "header", "up", "closing"}
      /\ died' \in BOOLEAN
  BY <1>1, Typed
<1> QED BY <1>1, <1>2, <1>3, LoopKeeps

LEMMA DisconnectKeeps ==
  ASSUME SInv, Disconnect
  PROVE  SInv'
<1>1. /\ Running /\ connection = "up" /\ connection' = "closing"
      /\ diagnostics' = [t \in Tasks |-> <<>>]
      /\ addNotesToBack' = [t \in Tasks |-> FALSE]
      /\ leftoverLog' = [t \in Tasks |-> <<>>]
      /\ sent' = [t \in Tasks |-> "none"]
      /\ emitted' = [t \in Tasks |-> <<>>]
      /\ spoiled' = [t \in Tasks |-> FALSE]
      /\ entries' = Release(World, Tasks).entries
      /\ dirty' = Release(World, Tasks).dirty
      /\ revived' = Release(World, Tasks).revived
      /\ isShutdown' = TRUE
      /\ loop' = IF loop = "waiting" THEN "ready" ELSE loop
      /\ UNCHANGED <<files, published, died>>
  BY DEF Disconnect
<1>2. <<>> \in Seq(Diagnostics)
  OBVIOUS
<1>3. diagnostics' = Emptied(diagnostics, Tasks)
  BY <1>1 DEF Emptied
<1>4. EntriesKept /\ Noticed /\ RefcountsAreRight'
  BY <1>1, <1>3, ReleaseKeeps
<1>5. Drawn'
  BY <1>1, <1>4, DrawnKept
<1>6. LoopIsRight'
  BY <1>1, Typed DEF SInv, LoopIsRight
<1>7. FilesKept
  <2>1. diagnostics' \in [Tasks -> Seq(Diagnostics)]
    BY <1>1, <1>2
  <2>2. /\ addNotesToBack' \in [Tasks -> BOOLEAN]
        /\ \A t \in Tasks : addNotesToBack'[t] => diagnostics'[t] # <<>>
    BY <1>1
  <2>3. loop' \in {"waiting", "ready", "sending", "ended"}
    BY <1>1, Typed
  <2> QED BY <1>1, <1>4, <1>5, <1>6, <2>1, <2>2, <2>3, Typed DEF FilesKept
<1>8. MessagesKept
  <2>1. emitted' \in [Tasks -> Seq(Diagnostics)]
    BY <1>1, <1>2
  <2>2. \A t \in Tasks : ~spoiled'[t] => diagnostics'[t] = Reports(emitted'[t])
    BY <1>1, ReportsOfNothing
  <2>3. ReportsAreOfTheLastRun'
    BY <2>2 DEF ReportsAreOfTheLastRun, Reports
  <2> QED BY <1>1, <2>1, <2>3 DEF MessagesKept
<1> QED BY <1>7, <1>8, Together

LEMMA ClosedKeeps ==
  ASSUME SInv, Closed
  PROVE  SInv'
<1>1. /\ Running /\ connection = "closing" /\ loop = "ended" /\ connection' = "down"
      /\ files' = {} /\ isShutdown' = FALSE
      /\ UNCHANGED <<diagnostics, leftoverLog, addNotesToBack, entries, revived, dirty, loop,
                     sent, emitted, spoiled, published, died>>
  BY DEF Closed, taskVars, ekamVars
<1>2. MessagesKept
  BY <1>1, MessagesUntouched
<1>3. EntriesKept /\ RefcountsAreRight' /\ Drawn'
  BY <1>1, FilesUntouched
<1>4. LoopIsRight'
  BY <1>1 DEF SInv, LoopIsRight
<1>5. FilesKept
  BY <1>1, <1>3, <1>4, Typed DEF FilesKept
<1> QED BY <1>2, <1>5, Together

----------------------------------------------------------------------------
(* The theorems.                                                           *)

LEMMA InitInvariant ==
  ASSUME Init
  PROVE  SInv
<1>1. <<>> \in Seq(Diagnostics) /\ DOMAIN <<>> = {}
  OBVIOUS
<1>2. DOMAIN entries = {} /\ entries \in [DOMAIN entries -> EntryType]
  <2>1. entries = <<>>
    BY DEF Init
  <2>2. <<>> \in [{} -> EntryType]
    OBVIOUS
  <2> QED BY <1>1, <2>1, <2>2
<1>3. TypeOK
  <2>1. \A t \in Tasks : diagnostics[t] \in Seq(Diagnostics)
    BY <1>1 DEF Init
  <2> QED BY <1>2, <2>1 DEF Init, TypeOK
<1>4. ServerTypes
  <2>1. diagnostics \in [Tasks -> Seq(Diagnostics)] /\ emitted \in [Tasks -> Seq(Diagnostics)]
    BY <1>1 DEF Init
  <2> QED BY <1>2, <2>1 DEF Init, ServerTypes
<1>5. FilesAreThere /\ TasksFollow
  BY <1>2 DEF Init, FilesAreThere, TasksFollow
<1>6. Counted
  <2>1. ASSUME NEW d \in Diagnostics PROVE Count(Tasks, d) = 0
    <3>1. \A t \in Tasks : DOMAIN diagnostics[t] = {}
      BY <1>1 DEF Init
    <3>2. PointersAt(diagnostics, Tasks, d) = {}
      BY <3>1 DEF PointersAt
    <3> QED BY <3>2, CountIsOfPointers, FS_EmptySet
  <2> QED BY <1>2, <2>1 DEF Counted, RefcountsAreRight
<1>7. ReportsAreOfTheLastRun
  <2>1. \A t \in Tasks : diagnostics[t] = Reports(emitted[t])
    BY ReportsOfNothing DEF Init
  <2> QED BY <2>1 DEF ReportsAreOfTheLastRun, Reports
<1>8. Drawn
  <2>1. \A p \in Paths : Export(p) = {} /\ published[p] = {}
    BY <1>2 DEF Init, Export
  <2> QED BY <2>1 DEF Drawn
<1>9. LoopIsRight
  BY DEF Init, LoopIsRight
<1> QED BY <1>3, <1>4, <1>5, <1>6, <1>7, <1>8, <1>9 DEF SInv

LEMMA StepInvariant ==
  ASSUME SInv, [Next]_vars
  PROVE  SInv'
<1>1. CASE UNCHANGED vars
  <2>1. UNCHANGED <<diagnostics, leftoverLog, addNotesToBack, files, entries, revived, dirty,
                    isShutdown, loop, sent, emitted, spoiled, published, connection, died>>
    BY <1>1 DEF vars, taskVars, fileVars, loopVars, ekamVars, otherVars
  <2>2. EntriesKept /\ RefcountsAreRight' /\ Drawn'
    BY <2>1, FilesUntouched
  <2>3. LoopIsRight' /\ ReportsAreOfTheLastRun'
    BY <2>1 DEF SInv, LoopIsRight, ReportsAreOfTheLastRun, Running
  <2>4. FilesKept
    BY <2>1, <2>2, <2>3, Typed DEF FilesKept
  <2>5. MessagesKept
    BY <2>1, <2>3, Typed DEF MessagesKept
  <2> QED BY <2>4, <2>5, Together
<1>2. CASE Receive
  BY <1>2, BeginKeeps, StartKeeps, AttachedKeeps, EndKeeps, DeleteKeeps, LogPartKeeps, LogLineKeeps
     DEF Receive
<1>3. CASE \E path \in Paths : DidChange(path)
  BY <1>3, DidChangeKeeps
<1>4. CASE Publish
  BY <1>4, PublishKeeps
<1>5. CASE Again
  BY <1>5, AgainKeeps
<1>6. CASE Connect \/ ReadHeader
  BY <1>6, ConnectKeeps, ReadHeaderKeeps
<1>7. CASE Disconnect \/ Closed
  BY <1>7, DisconnectKeeps, ClosedKeeps
<1> QED BY <1>1, <1>2, <1>3, <1>4, <1>5, <1>6, <1>7 DEF Next

\* In every reachable state the counts are right, the reports are of the last
\* runs, and the editor has what there is to show of every file that is not dirty.
THEOREM ServerInvariant == Spec => []SInv
<1>1. Init => SInv
  BY InitInvariant
<1>2. SInv /\ [Next]_vars => SInv'
  BY StepInvariant
<1> QED BY <1>1, <1>2, PTL DEF Spec

\* A diagnostic is kept exactly as long as tasks point at it, and those of a task
\* are what its last run has logged (Task::update(), SourceFile::add() and
\* remove()), for any number of tasks, names and messages.
THEOREM DiagnosticsStayRight == Spec => []DiagnosticsAreRight
<1>1. SInv => DiagnosticsAreRight
  BY DEF SInv, Counted, DiagnosticsAreRight
<1> QED BY <1>1, ServerInvariant, PTL

\* Whenever updateLoop() waits, the editor has been shown every change, but that
\* of a stale diagnostic that was reported again.
THEOREM EditorStaysCurrent == Spec => []EditorIsCurrent
<1>1. SInv => EditorIsCurrent
  <2> SUFFICES ASSUME SInv PROVE EditorIsCurrent
    OBVIOUS
  <2>1. loop = "waiting" => dirty = {}
    BY DEF SInv, LoopIsRight
  <2>2. loop = "waiting" => ShownIsReported /\ NothingStaleIsShown
    BY <2>1 DEF SInv, Drawn, ShownIsReported, NothingStaleIsShown
  <2> QED BY <2>2 DEF EditorIsCurrent, ShownIsReported, NothingStaleIsShown
<1> QED BY <1>1, ServerInvariant, PTL

\* When a connection is wound up, nothing of it is left in the editor.
THEOREM NothingStaysBehind == Spec => []NothingIsLeftBehind
<1>1. SInv => NothingIsLeftBehind
  <2> SUFFICES ASSUME SInv, connection = "down"
               PROVE  entries = <<>> /\ \A p \in Paths : published[p] = {}
    BY DEF NothingIsLeftBehind
  <2>1. dirty = {} /\ \A t \in Tasks : diagnostics[t] = <<>>
    BY DEF SInv, LoopIsRight
  <2>2. entries = <<>>
    BY <2>1, NoEntries
  <2>3. DOMAIN <<>> = {}
    OBVIOUS
  <2>4. \A p \in Paths : \A x \in published[p] : x.diagnostic \in DOMAIN entries
    BY <2>1 DEF SInv, Drawn
  <2> QED BY <2>2, <2>3, <2>4
<1> QED BY <1>1, ServerInvariant, PTL

=============================================================================
