---------------------------- MODULE WatcherProofs ----------------------------
(***************************************************************************)
(* Proofs about SourceWatcher: for any tree of paths, whatever happens to  *)
(* the files and however often, callbacks are queued once each and only    *)
(* for watchers that are there, and no descriptor is left unused; and      *)
(* while directories last, the driver's sources are the files.             *)
(*                                                                         *)
(* And about Table, the class in which a WatchedDirectory has its          *)
(* watchers: searches of a table of any size, with any columns, find the   *)
(* rows they should, and the table implements RowList.                     *)
(***************************************************************************)
EXTENDS SourceWatcher, Table, SequenceLemmas, TLAPS

CONSTANT Lasting  \* paths at which a directory that is there stays; any paths will do

-----------------------------------------------------------------------------
(***************************************************************************)
(* The tree of paths.                                                      *)
(***************************************************************************)

LEMMA ClosedSetsHaveDescendants ==
  ASSUME NEW p \in Paths, NEW S \in SUBSET Paths, p \in S, Closed(S)
  PROVE  Descendants(p) \subseteq S
BY DEF Descendants, DescendantsOf

LEMMA DescendantsAreClosed ==
  ASSUME NEW p \in Paths
  PROVE  Descendants(p) \in SUBSET Paths /\ p \in Descendants(p) /\ Closed(Descendants(p))
<1>1. Descendants(p) = {q \in Paths : \A S \in SUBSET Paths : p \in S /\ Closed(S) => q \in S}
  BY DEF Descendants, DescendantsOf
<1>2. ASSUME NEW q \in Descendants(p), NEW r \in Children(q)  PROVE r \in Descendants(p)
  <2>1. r \in Paths
    BY DEF Children
  <2>2. ASSUME NEW S \in SUBSET Paths, p \in S, Closed(S)  PROVE r \in S
    <3>1. q \in S
      BY <1>1, <2>2
    <3> QED BY <2>2, <3>1 DEF Closed
  <2> QED BY <1>1, <2>1, <2>2
<1> QED BY <1>1, <1>2 DEF Closed

LEMMA DescendantsOfDescendants ==
  ASSUME NEW p \in Paths, NEW q \in Descendants(p)
  PROVE  q \in Paths /\ Descendants(q) \subseteq Descendants(p)
<1>1. Descendants(p) \in SUBSET Paths /\ Closed(Descendants(p))
  BY DescendantsAreClosed
<1> QED BY <1>1, ClosedSetsHaveDescendants

\* But for p, what is under p is in a directory that is.
LEMMA ParentsOfDescendants ==
  ASSUME NEW p \in Paths, NEW q \in Descendants(p), q # p
  PROVE  q # Root /\ Parent[q] \in Descendants(p)
<1> DEFINE D == Descendants(p)
           S == {x \in D : x = p \/ (x # Root /\ Parent[x] \in D)}
<1>1. D \in SUBSET Paths /\ p \in D /\ Closed(D)
  BY DescendantsAreClosed
<1>2. ASSUME NEW x \in S, NEW y \in Children(x)  PROVE y \in S
  <2>1. y \in D
    BY <1>1 DEF Closed
  <2> QED BY <2>1 DEF Children
<1>3. p \in S /\ S \in SUBSET Paths
  BY <1>1
<1>4. D \subseteq S
  BY <1>2, <1>3, ClosedSetsHaveDescendants DEF Closed
<1> QED BY <1>4

\* No path is under another that is under it.
LEMMA DescendantsOfEachOther ==
  ASSUME NEW p \in Paths, NEW q \in Descendants(p), p \in Descendants(q)
  PROVE  p = q
<1> SUFFICES ASSUME p # q PROVE FALSE
  OBVIOUS
<1> DEFINE S == {x \in Descendants(p) : p \in Descendants(x)}
<1>1. Descendants(p) \in SUBSET Paths /\ p \in Descendants(p)
  BY DescendantsAreClosed
<1>2. S \in SUBSET Paths /\ S # {}
  BY <1>1
<1>3. PICK x \in S : x = Root \/ Parent[x] \notin S
  BY <1>2, InotifyAssumption
<1>4. x \in Paths /\ x \in Descendants(p) /\ p \in Descendants(x)
  BY <1>1, <1>3
\* The parent of x is above p too.
<1>5. ASSUME x # Root, Parent[x] \in Descendants(p)  PROVE FALSE
  <2>1. Parent[x] \in Paths
    BY <1>1, <1>5
  <2>2. x \in Children(Parent[x])
    BY <1>4, <1>5 DEF Children
  <2>3. x \in Descendants(Parent[x])
    BY <2>1, <2>2, DescendantsAreClosed DEF Closed
  <2>4. p \in Descendants(Parent[x])
    BY <1>4, <2>1, <2>3, DescendantsOfDescendants
  <2> QED BY <1>3, <1>5, <2>4
<1>6. CASE x # p
  BY <1>4, <1>5, <1>6, ParentsOfDescendants
<1>7. CASE x = p
  <2>1. p # Root /\ Parent[p] \in Descendants(q)
    BY ParentsOfDescendants, <1>1
  <2>2. Descendants(q) \subseteq Descendants(p)
    BY DescendantsOfDescendants
  <2> QED BY <1>5, <1>7, <2>1, <2>2
<1> QED BY <1>6, <1>7

LEMMA ChildrenAreBelow ==
  ASSUME NEW p \in Paths, NEW q \in Children(p)
  PROVE  /\ q \in Paths /\ q # p /\ q # Root /\ Parent[q] = p
         /\ q \in Descendants(p) /\ Descendants(q) \subseteq Descendants(p) \ {p}
<1>1. q \in Paths /\ q # Root /\ Parent[q] = p
  BY DEF Children
<1>2. q \in Descendants(p)
  BY DescendantsAreClosed DEF Closed
<1>3. q # p
  <2> SUFFICES ASSUME q = p PROVE FALSE
    OBVIOUS
  <2>1. {p} \in SUBSET Paths /\ {p} # {}
    OBVIOUS
  <2> QED BY <1>1, <2>1, InotifyAssumption
<1>4. Descendants(q) \subseteq Descendants(p)
  BY <1>2, DescendantsOfDescendants
<1>5. p \notin Descendants(q)
  BY <1>1, <1>2, <1>3, DescendantsOfEachOther
<1> QED BY <1>1, <1>2, <1>3, <1>4, <1>5

LEMMA RootIsUnderNone ==
  ASSUME NEW p \in Paths, p # Root
  PROVE  Root \notin Descendants(p)
BY ParentsOfDescendants

-----------------------------------------------------------------------------
(***************************************************************************)
(* The stack.                                                              *)
(***************************************************************************)

\* f may call g: a callback what the change asks for, and modified() of a directory
\* what there is to do for a child, which is among the new children by then.
Calls(f, g) ==
  \/ /\ f.do = "wait" /\ g.at = f.at
     /\ g.do \in {"deleted", "resetWatch", "modified", "children"}
  \/ /\ f.do = "children" /\ g.at \in f.kept
     /\ g.do \in {"new file", "new directory", "modified", "children"}

\* The lists of a DirectoryWatcher are of its children.
ListsItsChildren(f) == f.do = "children" => f.left \cup f.kept \subseteq Children(f.at)

\* The event loop calls callbacks, main() scans the source directory.
IsBottom(f) == f.do = "wait" \/ (f.do \in {"modified", "children"} /\ f.at = Root)

InOrder(s) ==
  /\ \A i \in DOMAIN s : ListsItsChildren(s[i])
  /\ \A i \in DOMAIN s : i # Len(s) => Calls(s[i + 1], s[i])
  /\ \A i \in DOMAIN s : i = Len(s) => IsBottom(s[i])
  /\ \A i, j \in DOMAIN s : i <= j => s[i].at \in Descendants(s[j].at)

LEMMA FramesAreTyped ==
  ASSUME NEW f \in Frames
  PROVE  /\ f.at \in Paths
         /\ f.do = "children" => f.left \in SUBSET Paths /\ f.kept \in SUBSET Paths
         /\ f.do # "children" => f \in [do : Functions, at : Paths]
BY DEF Frames, Functions

LEMMA StackTop ==
  ASSUME NEW s \in Seq(Frames), s # <<>>
  PROVE  /\ Len(s) \in Nat \ {0} /\ DOMAIN s = 1 .. Len(s)
         /\ 1 \in DOMAIN s /\ Len(s) \in DOMAIN s
         /\ Head(s) = s[1] /\ Head(s) \in Frames /\ s[1] \in Frames
         /\ Tail(s) \in Seq(Frames) /\ Len(Tail(s)) = Len(s) - 1
         /\ DOMAIN Tail(s) = 1 .. Len(s) - 1
         /\ \A i \in 1 .. Len(s) - 1 : i + 1 \in DOMAIN s /\ Tail(s)[i] = s[i + 1]
OBVIOUS

LEMMA StackWithCall ==
  ASSUME NEW s \in Seq(Frames), NEW g \in Frames
  PROVE  LET t == <<g>> \o s IN
         /\ t \in Seq(Frames) /\ Len(t) = Len(s) + 1 /\ DOMAIN t = 1 .. Len(s) + 1
         /\ Len(s) \in Nat /\ DOMAIN s = 1 .. Len(s)
         /\ t[1] = g /\ \A i \in DOMAIN s : i + 1 \in DOMAIN t /\ t[i + 1] = s[i]
         /\ \A i \in DOMAIN t : i = 1 \/ (i - 1 \in DOMAIN s /\ t[i] = s[i - 1])
OBVIOUS

LEMMA TailInOrder ==
  ASSUME NEW s \in Seq(Frames), s # <<>>, InOrder(s)
  PROVE  InOrder(Tail(s))
<1> DEFINE t == Tail(s)
<1>1. /\ t \in Seq(Frames) /\ Len(t) = Len(s) - 1 /\ DOMAIN t = 1 .. Len(s) - 1
      /\ Len(s) \in Nat \ {0} /\ DOMAIN s = 1 .. Len(s)
      /\ \A i \in DOMAIN t : i + 1 \in DOMAIN s /\ t[i] = s[i + 1]
  BY StackTop
<1> HIDE DEF t
<1>2. \A i \in DOMAIN t : ListsItsChildren(t[i])
  BY <1>1 DEF InOrder
<1>3. ASSUME NEW i \in DOMAIN t, i # Len(t)  PROVE Calls(t[i + 1], t[i])
  <2>1. i + 1 \in DOMAIN t /\ i + 1 # Len(s) /\ i + 1 \in DOMAIN s
    BY <1>1, <1>3
  <2>2. t[i] = s[i + 1] /\ t[i + 1] = s[(i + 1) + 1]
    BY <1>1, <2>1
  <2> QED BY <2>1, <2>2 DEF InOrder
<1>4. ASSUME NEW i \in DOMAIN t, i = Len(t)  PROVE IsBottom(t[i])
  <2>1. i + 1 \in DOMAIN s /\ i + 1 = Len(s) /\ t[i] = s[i + 1]
    BY <1>1, <1>4
  <2> QED BY <2>1 DEF InOrder
<1>5. ASSUME NEW i \in DOMAIN t, NEW j \in DOMAIN t, i <= j
      PROVE  t[i].at \in Descendants(t[j].at)
  <2>1. i + 1 \in DOMAIN s /\ j + 1 \in DOMAIN s /\ i + 1 <= j + 1
    BY <1>1, <1>5
  <2> QED BY <1>1, <2>1 DEF InOrder
<1>6. InOrder(t)
  BY <1>2, <1>3, <1>4, <1>5 DEF InOrder
<1> QED BY <1>6 DEF t

LEMMA CallInOrder ==
  ASSUME NEW s \in Seq(Frames), InOrder(s), NEW g \in Frames, ListsItsChildren(g),
         s # <<>> => Calls(s[1], g),
         s = <<>> => IsBottom(g)
  PROVE  <<g>> \o s \in Seq(Frames) /\ InOrder(<<g>> \o s)
<1> DEFINE t == <<g>> \o s
<1>1. /\ t \in Seq(Frames) /\ Len(t) = Len(s) + 1 /\ DOMAIN t = 1 .. Len(s) + 1
      /\ Len(s) \in Nat /\ DOMAIN s = 1 .. Len(s)
      /\ t[1] = g /\ \A i \in DOMAIN s : i + 1 \in DOMAIN t /\ t[i + 1] = s[i]
      /\ \A i \in DOMAIN t : i = 1 \/ (i - 1 \in DOMAIN s /\ t[i] = s[i - 1])
  BY StackWithCall
<1> HIDE DEF t
<1>2. \A i \in DOMAIN t : ListsItsChildren(t[i])
  BY <1>1 DEF InOrder
<1>3. ASSUME NEW i \in DOMAIN t, i # Len(t)  PROVE Calls(t[i + 1], t[i])
  <2>1. CASE i = 1
    <3>1. 1 \in DOMAIN s /\ s # <<>>
      BY <1>1, <1>3, <2>1
    <3>2. t[1 + 1] = s[1]
      BY <1>1, <3>1
    <3> QED BY <1>1, <2>1, <3>1, <3>2
  <2>2. CASE i # 1
    <3>1. i - 1 \in DOMAIN s /\ t[i] = s[i - 1] /\ i - 1 # Len(s)
      BY <1>1, <1>3, <2>2
    <3>2. i \in DOMAIN s /\ (i - 1) + 1 = i
      BY <1>1, <3>1
    <3>3. t[i + 1] = s[(i - 1) + 1]
      BY <1>1, <3>2
    <3> QED BY <3>1, <3>3 DEF InOrder
  <2> QED BY <2>1, <2>2
<1>4. ASSUME NEW i \in DOMAIN t, i = Len(t)  PROVE IsBottom(t[i])
  <2>1. CASE s = <<>>
    BY <1>1, <1>4, <2>1
  <2>2. CASE s # <<>>
    <3>1. i - 1 \in DOMAIN s /\ i - 1 = Len(s) /\ t[i] = s[i - 1]
      BY <1>1, <1>4, <2>2
    <3> QED BY <3>1 DEF InOrder
  <2> QED BY <2>1, <2>2
\* What is called is under what calls it.
<1>5. g.at \in Paths /\ \A j \in DOMAIN s : s[j].at \in Paths
  BY FramesAreTyped
<1>6. ASSUME NEW j \in DOMAIN s  PROVE g.at \in Descendants(s[j].at)
  <2>1. 1 \in DOMAIN s /\ 1 <= j /\ s # <<>> /\ s[1] \in Frames
    BY <1>1
  <2>2. s[1].at \in Paths /\ s[j].at \in Paths /\ s[1].at \in Descendants(s[j].at)
    BY <1>5, <2>1 DEF InOrder
  <2>3. g.at \in Descendants(s[1].at)
    <3>1. CASE g.at = s[1].at
      BY <2>2, <3>1, DescendantsAreClosed
    <3>2. CASE s[1].do = "children" /\ g.at \in s[1].kept
      <4>1. g.at \in Children(s[1].at)
        BY <2>1, <3>2 DEF InOrder, ListsItsChildren
      <4> QED BY <2>2, <4>1, ChildrenAreBelow
    <3> QED BY <2>1, <3>1, <3>2 DEF Calls
  <2> QED BY <2>2, <2>3, DescendantsOfDescendants
<1>7. ASSUME NEW i \in DOMAIN t, NEW j \in DOMAIN t, i <= j
      PROVE  t[i].at \in Descendants(t[j].at)
  <2>1. CASE j = 1
    <3>1. i = 1
      BY <1>1, <1>7, <2>1
    <3> QED BY <1>1, <1>5, <2>1, <3>1, DescendantsAreClosed
  <2>2. CASE j # 1 /\ i = 1
    BY <1>1, <1>6, <2>2
  <2>3. CASE j # 1 /\ i # 1
    <3>1. /\ i - 1 \in DOMAIN s /\ t[i] = s[i - 1] /\ j - 1 \in DOMAIN s /\ t[j] = s[j - 1]
          /\ i - 1 <= j - 1
      BY <1>1, <1>7, <2>3
    <3> QED BY <3>1 DEF InOrder
  <2> QED BY <2>1, <2>2, <2>3
<1>8. InOrder(t)
  BY <1>2, <1>3, <1>4, <1>7 DEF InOrder
<1> QED BY <1>1, <1>8 DEF t

\* The function on top goes on as g.
LEMMA GoOnInOrder ==
  ASSUME NEW s \in Seq(Frames), s # <<>>, InOrder(s), NEW g \in Frames, ListsItsChildren(g),
         Len(s) > 1 => Calls(s[2], g),
         Len(s) = 1 => IsBottom(g)
  PROVE  <<g>> \o Tail(s) \in Seq(Frames) /\ InOrder(<<g>> \o Tail(s))
<1> DEFINE t == Tail(s)
<1>1. InOrder(t)
  BY TailInOrder
<1>2. t \in Seq(Frames) /\ Len(t) = Len(s) - 1 /\ Len(s) \in Nat \ {0}
  BY StackTop
<1>3. t # <<>> => Len(s) > 1 /\ t[1] = s[2]
  BY <1>2, StackTop
<1>4. t = <<>> => Len(s) = 1
  BY <1>2
<1> HIDE DEF t
<1>5. <<g>> \o t \in Seq(Frames) /\ InOrder(<<g>> \o t)
  BY <1>1, <1>2, <1>3, <1>4, CallInOrder
<1> QED BY <1>5 DEF t

\* What is below the function on top is not under it.
LEMMA CallersStay ==
  ASSUME NEW s \in Seq(Frames), s # <<>>, InOrder(s), NEW i \in DOMAIN s,
         s[i].at \in Descendants(s[1].at)
  PROVE  s[i].at = s[1].at
<1>1. 1 \in DOMAIN s /\ 1 <= i /\ s[1] \in Frames /\ s[i] \in Frames
  BY StackTop
<1>2. s[1].at \in Paths /\ s[i].at \in Paths /\ s[1].at \in Descendants(s[i].at)
  BY <1>1, FramesAreTyped DEF InOrder
<1> QED BY <1>2, DescendantsOfEachOther

-----------------------------------------------------------------------------
(***************************************************************************)
(* The queue of callbacks.                                                 *)
(***************************************************************************)

InQueue(q) == {q[i] : i \in DOMAIN q}
OnceEach(q) == \A i, j \in DOMAIN q : q[i] = q[j] => i = j

LEMMA QueueIsTyped ==
  ASSUME NEW S, NEW q \in Seq(S)
  PROVE  Len(q) \in Nat /\ DOMAIN q = 1 .. Len(q) /\ InQueue(q) \in SUBSET S
BY DEF InQueue

LEMMA QueueOfSublist ==
  ASSUME NEW S, NEW q \in Seq(S), NEW K \in SUBSET (DOMAIN q)
  PROVE  /\ Sublist(q, K) \in Seq(S)
         /\ InQueue(Sublist(q, K)) = {q[i] : i \in K}
         /\ OnceEach(q) => OnceEach(Sublist(q, K))
<1> DEFINE t == Sublist(q, K)
<1>1. t \in Seq(S) /\ DOMAIN t = 1 .. Cardinality(K)
  BY SublistIsTyped
<1>2. Len(q) \in Nat /\ DOMAIN q = 1 .. Len(q) /\ K \in SUBSET (1 .. Len(q))
  BY QueueIsTyped
<1>3. \A i \in K : Place(K, i) \in DOMAIN t /\ t[Place(K, i)] = q[i]
  BY <1>1, <1>2, SublistAt
<1>4. \A n \in DOMAIN t : \E i \in K : Place(K, i) = n /\ t[n] = q[i]
  <2>1. \A n \in 1 .. Cardinality(K) : \E i \in K : Place(K, i) = n
    BY <1>2, PlacesAreTaken
  <2> HIDE DEF t
  <2> QED BY <1>1, <1>3, <2>1
<1> HIDE DEF t
<1>5. InQueue(t) = {q[i] : i \in K}
  BY <1>3, <1>4 DEF InQueue
<1>6. ASSUME OnceEach(q), NEW m \in DOMAIN t, NEW n \in DOMAIN t, t[m] = t[n]
      PROVE  m = n
  <2>1. PICK i \in K : Place(K, i) = m /\ t[m] = q[i]
    BY <1>4
  <2>2. PICK j \in K : Place(K, j) = n /\ t[n] = q[j]
    BY <1>4
  <2>3. i = j
    BY <1>6, <2>1, <2>2 DEF OnceEach
  <2> QED BY <2>1, <2>2, <2>3
<1>7. OnceEach(q) => OnceEach(t)
  BY <1>6 DEF OnceEach
<1> QED BY <1>1, <1>5, <1>7 DEF t

LEMMA QueueOfSet ==
  ASSUME NEW S, NEW T \in SUBSET S, IsFiniteSet(T)
  PROVE  SetToSeq(T) \in Seq(S) /\ InQueue(SetToSeq(T)) = T /\ OnceEach(SetToSeq(T))
<1> DEFINE n == Cardinality(T)
           q == SetToSeq(T)
<1>1. n \in Nat /\ ExistsBijection(1 .. n, T)
  BY FS_CardinalityType
<1>2. PICK b \in Bijection(1 .. n, T) : TRUE
  BY <1>1 DEF ExistsBijection
<1>3. b \in [1 .. n -> T] /\ IsInjective(b)
  BY <1>2 DEF Bijection, Injection, IsInjective
<1>4. q \in [1 .. n -> T] /\ IsInjective(q)
  BY <1>3 DEF SetToSeq
<1>5. q \in Seq(T) /\ q \in Seq(S) /\ DOMAIN q = 1 .. n
  BY <1>1, <1>4
<1>6. OnceEach(q)
  BY <1>4 DEF OnceEach, IsInjective
<1>7. q \in Injection(1 .. n, T)
  BY <1>4 DEF Injection
<1>8. \A t \in T : \E i \in 1 .. n : q[i] = t
  <2>1. IsFiniteSet(1 .. n) /\ Cardinality(1 .. n) = n
    BY <1>1, FS_Interval
  <2>2. q \in Surjection(1 .. n, T)
    BY <1>7, <2>1, FS_Injection
  <2> QED BY <2>2 DEF Surjection
<1>9. InQueue(q) = T
  BY <1>4, <1>5, <1>8 DEF InQueue
<1> QED BY <1>5, <1>6, <1>9

LEMMA QueueOfBoth ==
  ASSUME NEW S, NEW q \in Seq(S), NEW r \in Seq(S)
  PROVE  /\ q \o r \in Seq(S)
         /\ InQueue(q \o r) = InQueue(q) \cup InQueue(r)
         /\ OnceEach(q) /\ OnceEach(r) /\ InQueue(q) \cap InQueue(r) = {} => OnceEach(q \o r)
<1> DEFINE t == q \o r
<1>1. /\ t \in Seq(S) /\ DOMAIN t = 1 .. Len(q) + Len(r)
      /\ Len(q) \in Nat /\ Len(r) \in Nat /\ DOMAIN q = 1 .. Len(q) /\ DOMAIN r = 1 .. Len(r)
      /\ \A i \in DOMAIN q : i \in DOMAIN t /\ t[i] = q[i]
      /\ \A i \in DOMAIN r : Len(q) + i \in DOMAIN t /\ t[Len(q) + i] = r[i]
      /\ \A i \in DOMAIN t : \/ i \in DOMAIN q
                             \/ i > Len(q) /\ i - Len(q) \in DOMAIN r /\ t[i] = r[i - Len(q)]
  OBVIOUS
<1> HIDE DEF t
<1>2. InQueue(t) = InQueue(q) \cup InQueue(r)
  BY <1>1 DEF InQueue
<1>3. ASSUME OnceEach(q), OnceEach(r), InQueue(q) \cap InQueue(r) = {},
             NEW i \in DOMAIN t, NEW j \in DOMAIN t, t[i] = t[j]
      PROVE  i = j
  <2>1. CASE i \in DOMAIN q /\ j \in DOMAIN q
    BY <1>1, <1>3, <2>1 DEF OnceEach
  <2>2. CASE i \notin DOMAIN q /\ j \notin DOMAIN q
    <3>1. i - Len(q) = j - Len(q)
      BY <1>1, <1>3, <2>2 DEF OnceEach
    <3> QED BY <1>1, <3>1
  <2>3. CASE i \in DOMAIN q /\ j \notin DOMAIN q
    BY <1>1, <1>3, <2>3 DEF InQueue
  <2>4. CASE i \notin DOMAIN q /\ j \in DOMAIN q
    BY <1>1, <1>3, <2>4 DEF InQueue
  <2> QED BY <2>1, <2>2, <2>3, <2>4
<1>4. OnceEach(q) /\ OnceEach(r) /\ InQueue(q) \cap InQueue(r) = {} => OnceEach(t)
  BY <1>3 DEF OnceEach
<1> QED BY <1>1, <1>2, <1>4 DEF t

LEMMA QueueOfOneMore ==
  ASSUME NEW S, NEW q \in Seq(S), NEW x \in S
  PROVE  /\ Append(q, x) \in Seq(S)
         /\ InQueue(Append(q, x)) = InQueue(q) \cup {x}
         /\ OnceEach(q) /\ x \notin InQueue(q) => OnceEach(Append(q, x))
<1> DEFINE t == Append(q, x)
<1>1. /\ t \in Seq(S) /\ DOMAIN t = 1 .. Len(q) + 1 /\ Len(q) \in Nat /\ DOMAIN q = 1 .. Len(q)
      /\ t[Len(q) + 1] = x /\ \A i \in DOMAIN q : i \in DOMAIN t /\ t[i] = q[i]
      /\ Len(q) + 1 \in DOMAIN t /\ \A i \in DOMAIN t : i \in DOMAIN q \/ i = Len(q) + 1
  OBVIOUS
<1> HIDE DEF t
<1>2. InQueue(t) = InQueue(q) \cup {x}
  BY <1>1 DEF InQueue
<1>3. OnceEach(q) /\ x \notin InQueue(q) => OnceEach(t)
  BY <1>1 DEF OnceEach, InQueue
<1> QED BY <1>1, <1>2, <1>3 DEF t

LEMMA QueueOfOneLess ==
  ASSUME NEW S, NEW q \in Seq(S), q # <<>>, OnceEach(q)
  PROVE  /\ Head(q) \in InQueue(q) /\ Head(q) \in S
         /\ Tail(q) \in Seq(S) /\ InQueue(Tail(q)) = InQueue(q) \ {Head(q)} /\ OnceEach(Tail(q))
<1> DEFINE t == Tail(q)
<1>1. /\ t \in Seq(S) /\ DOMAIN t = 1 .. Len(q) - 1 /\ Len(q) \in Nat \ {0}
      /\ DOMAIN q = 1 .. Len(q) /\ 1 \in DOMAIN q /\ Head(q) = q[1]
      /\ \A i \in DOMAIN t : i + 1 \in DOMAIN q /\ t[i] = q[i + 1]
      /\ \A i \in DOMAIN q : i = 1 \/ (i - 1 \in DOMAIN t /\ t[i - 1] = q[i])
  OBVIOUS
<1> HIDE DEF t
<1>2. Head(q) \in InQueue(q) /\ Head(q) \in S
  BY <1>1 DEF InQueue
<1>3. OnceEach(t)
  <2> SUFFICES ASSUME NEW i \in DOMAIN t, NEW j \in DOMAIN t, t[i] = t[j] PROVE i = j
    BY DEF OnceEach
  <2>1. i + 1 = j + 1
    BY <1>1 DEF OnceEach
  <2> QED BY <1>1, <2>1
<1>4. InQueue(t) = InQueue(q) \ {Head(q)}
  <2>1. ASSUME NEW i \in DOMAIN t  PROVE t[i] \in InQueue(q) /\ t[i] # Head(q)
    <3>1. i + 1 # 1
      BY <1>1
    <3> QED BY <1>1, <3>1 DEF InQueue, OnceEach
  <2>2. ASSUME NEW i \in DOMAIN q, q[i] # Head(q)  PROVE q[i] \in InQueue(t)
    BY <1>1, <2>2 DEF InQueue
  <2> QED BY <2>1, <2>2 DEF InQueue
<1> QED BY <1>1, <1>2, <1>3, <1>4 DEF t

-----------------------------------------------------------------------------
(***************************************************************************)
(* The inductive invariant.                                                *)
(***************************************************************************)

Descriptors == Paths \X (1 .. MaxChanges + 1)

\* The descriptor of a watcher is of the directory that it watches or is in.
Named(w, p, d) ==
  \/ w.name = None /\ d[w.wd][1] = p
  \/ p # Root /\ w.name = p /\ d[w.wd][1] = Parent[p]
Known(w, d) ==
  /\ w \in [Paths -> Watchers \cup {None}]
  /\ \A p \in Paths : w[p] # None => w[p].wd \in DOMAIN d /\ Named(w[p], p, d)

\* A watcher that is told is told of something.
ChangesAreSaid ==
  \A p \in Paths : IsQueued(watcher, p) => watcher[p].change \in {"modified", "deleted"}

FilesAreRight ==
  /\ type \in [Paths -> Types] /\ IsDirectory(Root)
  /\ stamp \in [Paths -> 1 .. MaxChanges + 1]
  /\ changes \in 1 .. MaxChanges + 1
  /\ unread \in Seq(Events) /\ batch \in Seq(Events)

WatchesAreRight ==
  /\ wds \in Seq(Descriptors)
  /\ watched \in SUBSET DOMAIN wds
  /\ watchByName \in [Paths -> DOMAIN wds \cup {None}]
  /\ terminated \in BOOLEAN
  /\ callbacks \in Seq(Paths)
  /\ Known(watcher, wds)
  /\ CallbacksAreOwed /\ DescriptorsAreUsed /\ ChangesAreSaid

\* What runs is about watchers that are there, but for those to be made; and the
\* watcher whose callback runs has not been told again.
Alive(s, w) ==
  \A i \in DOMAIN s :
    /\ s[i].do \notin {"new file", "new directory"} => w[s[i].at] # None
    /\ s[i].do = "wait" => ~IsQueued(w, s[i].at)

StackIsRight == stack \in Seq(Frames) /\ InOrder(stack) /\ Alive(stack, watcher)

SourceIsTyped == source \in [Paths -> (0 .. MaxChanges + 1) \cup {None}]

WatcherInv == FilesAreRight /\ WatchesAreRight /\ StackIsRight /\ SourceIsTyped

LEMMA WatcherInvIsEnough ==
  ASSUME WatcherInv
  PROVE  WatchersAreTold
BY DEF WatcherInv, FilesAreRight, WatchesAreRight, StackIsRight, SourceIsTyped, Known, Named,
       Descriptors, WatchersAreTold, WatcherTypes, DescriptorsAreUsed

LEMMA WatcherParts ==
  ASSUME WatchesAreRight
  PROVE  /\ Len(wds) \in Nat /\ DOMAIN wds = 1 .. Len(wds)
         /\ \A p \in Paths : watcher[p] # None => watcher[p] \in Watchers
         /\ InQueue(callbacks) = {p \in Paths : IsQueued(watcher, p)}
         /\ OnceEach(callbacks)
BY DEF WatchesAreRight, Known, CallbacksAreOwed, InQueue, OnceEach

\* Keep makes the maps and the queue right for the watchers that stay.
LEMMA KeepWatches ==
  ASSUME WatchesAreRight, wds' \in Seq(Descriptors),
         NEW w, NEW names, NEW descriptors, NEW may,
         Known(w, wds'),
         \A p \in Paths : IsQueued(w, p) =>
           IsQueued(watcher, p) /\ w[p].change = watcher[p].change,
         names \in [Paths -> DOMAIN wds' \cup {None}],
         \A p \in Paths : names[p] # None => wds'[names[p]][1] = p,
         descriptors \in SUBSET DOMAIN wds', may \in SUBSET BOOLEAN,
         Keep(w, names, descriptors, may)
  PROVE  watcher' = w /\ WatchesAreRight'
<1> DEFINE used == {w[p].wd : p \in {q \in Paths : w[q] # None}}
           unused == {names[p] : p \in Paths} \ ({None} \cup used)
<1>1. /\ watcher' = w
      /\ watchByName' = [p \in Paths |-> IF names[p] \in unused THEN None ELSE names[p]]
      /\ watched' = descriptors \ unused
      /\ terminated' \in IF unused \subseteq descriptors THEN may ELSE {TRUE}
      /\ callbacks' = Sublist(callbacks, StillOwed(w))
  BY DEF Keep
<1>2. watched' \in SUBSET DOMAIN wds' /\ terminated' \in BOOLEAN
  BY <1>1
<1>3. watchByName' \in [Paths -> DOMAIN wds' \cup {None}]
  BY <1>1
<1>4. /\ StillOwed(w) \in SUBSET DOMAIN callbacks /\ callbacks \in Seq(Paths)
      /\ OnceEach(callbacks) /\ InQueue(callbacks) = {p \in Paths : IsQueued(watcher, p)}
  BY WatcherParts DEF StillOwed, WatchesAreRight
<1>5. /\ callbacks' \in Seq(Paths) /\ OnceEach(callbacks')
      /\ InQueue(callbacks') = {callbacks[i] : i \in StillOwed(w)}
  BY <1>1, <1>4, QueueOfSublist
<1>6. InQueue(callbacks') = {p \in Paths : IsQueued(w, p)}
  <2>1. ASSUME NEW i \in StillOwed(w)
        PROVE  callbacks[i] \in Paths /\ IsQueued(w, callbacks[i])
    BY <1>4, <2>1 DEF StillOwed, InQueue
  <2>2. ASSUME NEW p \in Paths, IsQueued(w, p)  PROVE \E i \in StillOwed(w) : callbacks[i] = p
    <3>1. p \in InQueue(callbacks)
      BY <1>4, <2>2
    <3> QED BY <2>2, <3>1 DEF InQueue, StillOwed
  <2> QED BY <1>5, <2>1, <2>2
<1>7. CallbacksAreOwed'
  BY <1>1, <1>5, <1>6 DEF CallbacksAreOwed, InQueue, OnceEach, IsQueued
<1>8. DescriptorsAreUsed'
  <2>1. ASSUME NEW p \in Paths, watchByName'[p] # None
        PROVE  /\ wds'[watchByName'[p]][1] = p
               /\ \E q \in Paths : w[q] # None /\ w[q].wd = watchByName'[p]
    <3>1. watchByName'[p] = names[p] /\ names[p] \notin unused
      BY <1>1, <2>1
    <3>2. names[p] \in used
      BY <2>1, <3>1
    <3> QED BY <2>1, <3>1, <3>2
  <2>2. \A p \in Paths : w[p] # None => Named(w[p], p, wds')
    BY DEF Known
  <2> QED BY <1>1, <2>1, <2>2 DEF DescriptorsAreUsed, Named
<1>9. ChangesAreSaid'
  BY <1>1 DEF ChangesAreSaid, WatchesAreRight, IsQueued
<1> QED BY <1>1, <1>2, <1>3, <1>5, <1>7, <1>8, <1>9 DEF WatchesAreRight

-----------------------------------------------------------------------------
(***************************************************************************)
(* Watchers that go, and watchers that are made.                           *)
(***************************************************************************)

LEMMA WatchersWithout ==
  ASSUME WatchesAreRight, NEW gone
  PROVE  /\ Known(Without(gone), wds)
         /\ \A p \in Paths : Without(gone)[p] = IF p \in gone THEN None ELSE watcher[p]
         /\ \A p \in Paths : IsQueued(Without(gone), p) =>
              IsQueued(watcher, p) /\ Without(gone)[p].change = watcher[p].change
<1>1. \A p \in Paths : Without(gone)[p] = IF p \in gone THEN None ELSE watcher[p]
  BY DEF Without
<1>2. Without(gone) \in [Paths -> Watchers \cup {None}]
  BY DEF Without, WatchesAreRight, Known
<1>3. Known(Without(gone), wds)
  BY <1>1, <1>2 DEF WatchesAreRight, Known
<1> QED BY <1>1, <1>3 DEF IsQueued

LEMMA WatcherRecords ==
  ASSUME NEW w \in Watchers
  PROVE  /\ w # None /\ w.wd \in Nat /\ w.promise \in Promises
         /\ \A x \in Promises :
              /\ [w EXCEPT !.promise = x] \in Watchers
              /\ [w EXCEPT !.promise = x] # None
              /\ [w EXCEPT !.promise = x].promise = x
              /\ [w EXCEPT !.promise = x].wd = w.wd
              /\ [w EXCEPT !.promise = x].name = w.name
              /\ [w EXCEPT !.promise = x].change = w.change
<1>1. \A x \in Promises : [w EXCEPT !.promise = x] \in Watchers
  BY DEF Watchers
<1>2. None \notin Watchers
  BY InotifyAssumption
<1> QED BY <1>1, <1>2 DEF Watchers

\* The promise of a watcher is released, or fails.
LEMMA WatchersWithPromise ==
  ASSUME NEW v, NEW d, Known(v, d), NEW p \in Paths, v[p] # None, NEW x \in Promises
  PROVE  /\ Known([v EXCEPT ![p].promise = x], d)
         /\ \A q \in Paths : q # p => [v EXCEPT ![p].promise = x][q] = v[q]
         /\ [v EXCEPT ![p].promise = x][p] # None
         /\ IsQueued([v EXCEPT ![p].promise = x], p) <=> x = "queued"
         /\ [v EXCEPT ![p].promise = x][p].change = v[p].change
         /\ [v EXCEPT ![p].promise = x][p].wd = v[p].wd
<1> DEFINE u == [v EXCEPT ![p].promise = x]
           r == [v[p] EXCEPT !.promise = x]
<1>1. v \in [Paths -> Watchers \cup {None}] /\ v[p] \in Watchers
  BY DEF Known
<1>2. u[p] = r /\ \A q \in Paths : q # p => u[q] = v[q]
  BY <1>1
<1>3. /\ r \in Watchers /\ r # None /\ r.promise = x
      /\ r.wd = v[p].wd /\ r.name = v[p].name /\ r.change = v[p].change
  BY <1>1, WatcherRecords
<1> HIDE DEF r
<1>4. u \in [Paths -> Watchers \cup {None}]
  <2>1. u = [q \in Paths |-> IF q = p THEN r ELSE v[q]]
    BY <1>1 DEF r
  <2> QED BY <1>1, <1>3, <2>1
<1> HIDE DEF u
<1>5. ASSUME NEW q \in Paths, u[q] # None  PROVE u[q].wd \in DOMAIN d /\ Named(u[q], q, d)
  BY <1>2, <1>3, <1>5 DEF Known, Named
<1>6. Known(u, d)
  BY <1>4, <1>5 DEF Known
<1>7. /\ u[p] # None /\ (IsQueued(u, p) <=> x = "queued")
      /\ u[p].change = v[p].change /\ u[p].wd = v[p].wd
  BY <1>2, <1>3 DEF IsQueued
<1> QED BY <1>2, <1>6, <1>7 DEF u

LEMMA KeepFewer ==
  ASSUME WatchesAreRight, wds' = wds, NEW w, NEW may \in SUBSET BOOLEAN,
         Known(w, wds),
         \A p \in Paths : IsQueued(w, p) =>
           IsQueued(watcher, p) /\ w[p].change = watcher[p].change,
         Keep(w, watchByName, watched, may)
  PROVE  watcher' = w /\ WatchesAreRight'
<1>1. /\ wds' \in Seq(Descriptors) /\ Known(w, wds')
      /\ watchByName \in [Paths -> DOMAIN wds' \cup {None}]
      /\ \A p \in Paths : watchByName[p] # None => wds'[watchByName[p]][1] = p
      /\ watched \in SUBSET DOMAIN wds'
  BY DEF WatchesAreRight, DescriptorsAreUsed
<1> QED BY <1>1, KeepWatches

LEMMA WatchedPaths ==
  ASSUME FilesAreRight, NEW p \in Paths
  PROVE  /\ WatchedPath(p) \in Paths
         /\ IsDirectory(p) => WatchedPath(p) = p
         /\ ~IsDirectory(p) => p # Root /\ WatchedPath(p) = Parent[p]
BY InotifyAssumption DEF FilesAreRight, WatchedPath

LEMMA WatchFileKeeps ==
  ASSUME FilesAreRight, WatchesAreRight, NEW p \in Paths, NEW isDirectory \in BOOLEAN, NEW gone,
         WatchFile(p, isDirectory, gone)
  PROVE  /\ watcher' = [Without(gone) EXCEPT ![p] = NewWatcher(p, isDirectory)]
         /\ watcher'[p] # None /\ ~IsQueued(watcher', p)
         /\ \A q \in Paths : q # p => watcher'[q] = Without(gone)[q]
         /\ WatchesAreRight'
<1> DEFINE wp == WatchedPath(p)
           wd == WdFor(p)
           new == NewWatcher(p, isDirectory)
           w == [Without(gone) EXCEPT ![p] = new]
           names == [watchByName EXCEPT ![wp] = wd]
           descriptors == IF wd > Len(wds) THEN watched \cup {wd} ELSE watched
<1>1. /\ wds' = IF wd > Len(wds) THEN Append(wds, <<wp, stamp[wp]>>) ELSE wds
      /\ Keep(w, names, descriptors, {FALSE})
  BY DEF WatchFile
<1>2. /\ wp \in Paths
      /\ IsDirectory(p) => wp = p
      /\ ~IsDirectory(p) => p # Root /\ wp = Parent[p]
  BY WatchedPaths
<1>3. /\ wds \in Seq(Descriptors) /\ Len(wds) \in Nat /\ DOMAIN wds = 1 .. Len(wds)
      /\ watched \in SUBSET DOMAIN wds /\ watchByName \in [Paths -> DOMAIN wds \cup {None}]
      /\ \A q \in Paths : watchByName[q] # None => wds[watchByName[q]][1] = q
  BY WatcherParts DEF WatchesAreRight, DescriptorsAreUsed
<1>4. \/ wd = Len(wds) + 1
      \/ wd \in DOMAIN wds /\ wd = watchByName[wp] /\ watchByName[wp] # None
  BY <1>2, <1>3 DEF WdFor
<1>5. <<wp, stamp[wp]>> \in Descriptors
  BY <1>2 DEF Descriptors, FilesAreRight
<1> HIDE DEF wp, wd
<1>6. /\ wds' \in Seq(Descriptors) /\ wd \in DOMAIN wds' /\ wd \in Nat /\ wds'[wd][1] = wp
      /\ DOMAIN wds \subseteq DOMAIN wds' /\ \A i \in DOMAIN wds : wds'[i] = wds[i]
  <2>1. CASE wd = Len(wds) + 1
    <3>1. wds' = Append(wds, <<wp, stamp[wp]>>)
      BY <1>1, <1>3, <2>1
    <3> QED BY <1>3, <1>5, <2>1, <3>1
  <2>2. CASE wd \in DOMAIN wds /\ wd = watchByName[wp] /\ watchByName[wp] # None
    <3>1. ~(wd > Len(wds))
      BY <1>3, <2>2
    <3>2. wds' = wds
      BY <1>1, <3>1
    <3> QED BY <1>2, <1>3, <2>2, <3>2
  <2> QED BY <1>4, <2>1, <2>2
<1>7. /\ new \in Watchers /\ new # None /\ new.promise = "waiting" /\ new.wd = wd
      /\ new.name = IF IsDirectory(p) THEN None ELSE p
  <2>1. new \in Watchers
    BY <1>6 DEF NewWatcher, Watcher, Watchers, Promises, wd
  <2> QED BY <2>1, InotifyAssumption DEF NewWatcher, Watcher, wd
<1> HIDE DEF new
<1>8. Known(w, wds')
  <2>1. /\ Known(Without(gone), wds)
        /\ Without(gone) \in [Paths -> Watchers \cup {None}]
    BY WatchersWithout DEF Known
  <2>2. w \in [Paths -> Watchers \cup {None}] /\ w[p] = new
        /\ \A q \in Paths : q # p => w[q] = Without(gone)[q]
    BY <1>7, <2>1
  <2>3. Named(new, p, wds')
    BY <1>2, <1>6, <1>7 DEF Named
  <2>4. ASSUME NEW q \in Paths, w[q] # None, q # p
        PROVE  w[q].wd \in DOMAIN wds' /\ Named(w[q], q, wds')
    <3>1. w[q].wd \in DOMAIN wds /\ Named(w[q], q, wds)
      BY <2>1, <2>2, <2>4 DEF Known
    <3> QED BY <1>6, <3>1 DEF Named
  <2> QED BY <1>6, <1>7, <2>2, <2>3, <2>4 DEF Known
<1>9. /\ w[p] = new /\ \A q \in Paths : q # p => w[q] = Without(gone)[q]
      /\ ~IsQueued(w, p)
  BY <1>7, WatchersWithout DEF Known, IsQueued
<1>10. \A q \in Paths : IsQueued(w, q) =>
         IsQueued(watcher, q) /\ w[q].change = watcher[q].change
  BY <1>9, WatchersWithout DEF IsQueued
<1>11. /\ names \in [Paths -> DOMAIN wds' \cup {None}]
       /\ \A q \in Paths : names[q] # None => wds'[names[q]][1] = q
  BY <1>2, <1>3, <1>6
<1>12. descriptors \in SUBSET DOMAIN wds'
  BY <1>3, <1>6
<1> DEFINE may == {FALSE}
<1>13. may \in SUBSET BOOLEAN
  OBVIOUS
<1>14. Keep(w, names, descriptors, may)
  BY <1>1
<1> HIDE DEF w, names, descriptors, may
<1>15. watcher' = w /\ WatchesAreRight'
  BY <1>6, <1>8, <1>10, <1>11, <1>12, <1>13, <1>14, KeepWatches
<1> QED BY <1>7, <1>9, <1>15 DEF w, new

-----------------------------------------------------------------------------
(***************************************************************************)
(* Functions that return, go on and call others.                           *)
(***************************************************************************)

LEMMA StackParts ==
  ASSUME StackIsRight, stack # <<>>
  PROVE  /\ stack \in Seq(Frames) /\ Len(stack) \in Nat \ {0} /\ DOMAIN stack = 1 .. Len(stack)
         /\ Top = stack[1] /\ Top \in Frames /\ Top.at \in Paths
         /\ ListsItsChildren(Top)
         /\ Top.do # "children" => Top \in [do : Functions, at : Paths]
         /\ Top.do \notin {"new file", "new directory"} => watcher[Top.at] # None
         /\ Top.do = "wait" => ~IsQueued(watcher, Top.at)
         /\ Len(stack) > 1 => Calls(stack[2], Top)
         /\ Len(stack) = 1 => IsBottom(Top)
         /\ Tail(stack) \in Seq(Frames) /\ InOrder(Tail(stack))
<1>1. /\ stack \in Seq(Frames) /\ Len(stack) \in Nat \ {0} /\ DOMAIN stack = 1 .. Len(stack)
      /\ 1 \in DOMAIN stack /\ Top = stack[1] /\ Top \in Frames
  BY StackTop DEF StackIsRight, Top
<1>2. ListsItsChildren(Top) /\ (Len(stack) = 1 => IsBottom(Top))
  BY <1>1 DEF StackIsRight, InOrder
<1>3. Len(stack) > 1 => Calls(stack[2], Top)
  <2>1. Len(stack) > 1 => 1 # Len(stack) /\ Calls(stack[1 + 1], stack[1])
    BY <1>1 DEF StackIsRight, InOrder
  <2> QED BY <1>1, <2>1
<1>4. /\ Top.do \notin {"new file", "new directory"} => watcher[Top.at] # None
      /\ Top.do = "wait" => ~IsQueued(watcher, Top.at)
  BY <1>1 DEF StackIsRight, Alive
<1>5. Tail(stack) \in Seq(Frames) /\ InOrder(Tail(stack))
  BY <1>1, TailInOrder, StackTop DEF StackIsRight
<1> QED BY <1>1, <1>2, <1>3, <1>4, <1>5, FramesAreTyped

LEMMA AliveCall ==
  ASSUME NEW s \in Seq(Frames), NEW w, Alive(s, w), NEW g \in Frames,
         g.do \notin {"new file", "new directory"} => w[g.at] # None,
         g.do = "wait" => ~IsQueued(w, g.at)
  PROVE  Alive(<<g>> \o s, w)
<1> DEFINE t == <<g>> \o s
<1>1. t[1] = g /\ \A i \in DOMAIN t : i = 1 \/ (i - 1 \in DOMAIN s /\ t[i] = s[i - 1])
  BY StackWithCall
<1> HIDE DEF t
<1>2. Alive(t, w)
  BY <1>1 DEF Alive
<1> QED BY <1>2 DEF t

\* The callers are alive, though watchers under that of the function on top have gone.
LEMMA CallersAreAlive ==
  ASSUME StackIsRight, stack # <<>>, NEW w,
         \A q \in Paths : IsQueued(w, q) => IsQueued(watcher, q),
         \A q \in Paths : watcher[q] # None /\ (q \in Descendants(Top.at) => q = Top.at) =>
           w[q] # None
  PROVE  Alive(Tail(stack), w)
<1> DEFINE t == Tail(stack)
<1>1. /\ stack \in Seq(Frames) /\ DOMAIN t = 1 .. Len(stack) - 1 /\ Top = stack[1]
      /\ Len(stack) \in Nat \ {0} /\ DOMAIN stack = 1 .. Len(stack)
      /\ \A i \in DOMAIN t : i + 1 \in DOMAIN stack /\ t[i] = stack[i + 1]
  BY StackTop DEF StackIsRight, Top
<1> HIDE DEF t
<1>2. ASSUME NEW i \in DOMAIN stack
      PROVE  /\ stack[i].do \notin {"new file", "new directory"} => w[stack[i].at] # None
             /\ stack[i].do = "wait" => ~IsQueued(w, stack[i].at)
  <2>1. stack[i].at \in Paths
    BY <1>1, FramesAreTyped
  <2>2. stack[i].at \in Descendants(Top.at) => stack[i].at = Top.at
    BY <1>1, CallersStay DEF StackIsRight
  <2>3. /\ stack[i].do \notin {"new file", "new directory"} => watcher[stack[i].at] # None
        /\ stack[i].do = "wait" => ~IsQueued(watcher, stack[i].at)
    BY DEF StackIsRight, Alive
  <2> QED BY <2>1, <2>2, <2>3
<1>3. Alive(t, w)
  BY <1>1, <1>2 DEF Alive
<1> QED BY <1>3 DEF t

LEMMA NothingHasGone ==
  ASSUME StackIsRight, stack # <<>>
  PROVE  Alive(Tail(stack), watcher)
BY CallersAreAlive

LEMMA ReturnIsRight ==
  ASSUME StackIsRight, stack # <<>>, Return, Alive(Tail(stack), watcher')
  PROVE  StackIsRight'
<1>1. stack' \in Seq(Frames) /\ InOrder(stack')
  BY StackParts DEF Return
<1>2. Alive(stack', watcher')
  BY DEF Return
<1> QED BY <1>1, <1>2 DEF StackIsRight

LEMMA GoingOnIsRight ==
  ASSUME StackIsRight, stack # <<>>, Alive(Tail(stack), watcher'),
         NEW g \in Frames, ListsItsChildren(g),
         Len(stack) > 1 => Calls(stack[2], g),
         Len(stack) = 1 => IsBottom(g),
         g.do # "wait",
         g.do \notin {"new file", "new directory"} => watcher'[g.at] # None,
         stack' = <<g>> \o Tail(stack)
  PROVE  StackIsRight'
<1>1. stack \in Seq(Frames) /\ InOrder(stack) /\ Tail(stack) \in Seq(Frames)
  BY StackParts DEF StackIsRight
<1>2. stack' \in Seq(Frames) /\ InOrder(stack')
  BY <1>1, GoOnInOrder
<1>3. Alive(<<g>> \o Tail(stack), watcher')
  BY <1>1, AliveCall
<1> QED BY <1>2, <1>3 DEF StackIsRight

\* A function other than those that go through children becomes another.
LEMMA GotoIsRight ==
  ASSUME StackIsRight, stack # <<>>, Alive(Tail(stack), watcher'),
         NEW what \in {"modified", "resetWatch"}, Goto(what),
         what = "resetWatch" => Top.do = "deleted",
         Top.do # "children", Top.do # "wait", watcher'[Top.at] # None
  PROVE  StackIsRight'
<1> DEFINE g == [Top EXCEPT !.do = what]
<1>1. /\ Top \in [do : Functions, at : Paths]
      /\ Len(stack) > 1 => Calls(stack[2], Top)
      /\ Len(stack) = 1 => IsBottom(Top)
  BY StackParts
<1>2. g \in [do : Functions, at : Paths] /\ g.do = what /\ g.at = Top.at
  BY <1>1 DEF Functions
<1>3. g \in Frames
  BY <1>2 DEF Frames
<1>4. stack' = <<g>> \o Tail(stack)
  BY DEF Goto
<1> HIDE DEF g
<1>5. ListsItsChildren(g)
  BY <1>2 DEF ListsItsChildren
<1>6. Len(stack) > 1 => Calls(stack[2], g)
  BY <1>1, <1>2 DEF Calls
<1>7. Len(stack) = 1 => IsBottom(g)
  BY <1>1, <1>2 DEF IsBottom
<1> QED BY <1>2, <1>3, <1>4, <1>5, <1>6, <1>7, GoingOnIsRight

-----------------------------------------------------------------------------
(***************************************************************************)
(* Files change, and events are read and handled.                          *)
(***************************************************************************)

LEMMA ListedEvents ==
  ASSUME NEW W \in SUBSET Nat, NEW f \in [W -> Events]
  PROVE  Listed(f) \in Seq(Events)
<1>1. CASE W = {}
  BY <1>1 DEF Listed
<1>2. CASE W # {}
  <2>1. \E w \in W : TRUE
    BY <1>2
  <2>2. (CHOOSE w \in W : TRUE) \in W
    BY <2>1
  <2>3. f[CHOOSE w \in W : TRUE] \in Events
    BY <2>2
  <2> QED BY <1>2, <2>3 DEF Listed
<1> QED BY <1>1, <1>2

LEMMA WatchedAreNumbers ==
  ASSUME WatchesAreRight
  PROVE  watched \in SUBSET Nat
<1>1. watched \in SUBSET DOMAIN wds
  BY DEF WatchesAreRight
<1>2. Len(wds) \in Nat /\ DOMAIN wds = 1 .. Len(wds)
  BY WatcherParts
<1> QED BY <1>1, <1>2

LEMMA EventsOfChanges ==
  ASSUME WatchesAreRight, NEW p \in Paths \ {Root},
         NEW what \in {"create", "modify", "delete", "delete self", "move self"}
  PROVE  Listed(In(p, what)) \in Seq(Events) /\ Listed(On(p, what)) \in Seq(Events)
<1>1. watched \in SUBSET Nat
  BY WatchedAreNumbers
<1>2. Watching(Parent[p]) \in SUBSET Nat /\ Watching(p) \in SUBSET Nat
  BY <1>1 DEF Watching
<1>3. In(p, what) \in [Watching(Parent[p]) -> Events]
  BY <1>2 DEF In, Events
<1>4. On(p, what) \in [Watching(p) -> Events]
  BY <1>2 DEF On, Events
<1> QED BY <1>2, <1>3, <1>4, ListedEvents

\* Only the kernel's watches may be fewer.
LEMMA FewerAreWatched ==
  ASSUME WatchesAreRight, watched' \in SUBSET watched,
         UNCHANGED <<wds, watchByName, watcher, callbacks, terminated>>
  PROVE  WatchesAreRight'
BY DEF WatchesAreRight, Known, Named, CallbacksAreOwed, DescriptorsAreUsed, ChangesAreSaid,
       IsQueued

LEMMA ChangeIsRight ==
  ASSUME FilesAreRight, NEW p \in Paths \ {Root}, NEW to \in Types,
         Change(p, to), unread' \in Seq(Events)
  PROVE  FilesAreRight'
<1>1. type' \in [Paths -> Types]
  BY DEF Change, FilesAreRight, Types
<1>2. type'[Root] = type[Root]
  BY RootIsUnderNone, InotifyAssumption DEF Change, FilesAreRight
<1>3. changes' \in 1 .. MaxChanges + 1 /\ stamp' \in [Paths -> 1 .. MaxChanges + 1]
  <2>1. changes <= MaxChanges /\ changes' = changes + 1 /\ stamp' = [stamp EXCEPT ![p] = changes + 1]
    BY DEF Change
  <2>2. changes + 1 \in 1 .. MaxChanges + 1
    BY <2>1, InotifyAssumption DEF FilesAreRight
  <2> QED BY <2>1, <2>2 DEF FilesAreRight
<1> QED BY <1>1, <1>2, <1>3 DEF FilesAreRight, IsDirectory, Change

LEMMA FileStepKeeps ==
  ASSUME WatcherInv, FileStep
  PROVE  WatcherInv'
<1>1. FilesAreRight /\ WatchesAreRight /\ unread \in Seq(Events)
  BY DEF WatcherInv, FilesAreRight
<1>2. PICK p \in Paths \ {Root} :
        \/ Create(p) \/ Write(p) \/ MakeDirectory(p)
        \/ Unlink(p) \/ RemoveDirectory(p) \/ MoveAway(p)
  BY DEF FileStep, FileChange
<1>3. /\ \E to \in Types : Change(p, to)
      /\ unread' \in Seq(Events)
      /\ watched' \in SUBSET watched
  <2> DEFINE I(what) == Listed(In(p, what))
             O(what) == Listed(On(p, what))
  <2>1. /\ I("create") \in Seq(Events) /\ I("modify") \in Seq(Events) /\ I("delete") \in Seq(Events)
        /\ O("delete self") \in Seq(Events) /\ O("move self") \in Seq(Events)
    BY <1>1, EventsOfChanges
  <2>2. \/ unread' = unread \o I("create")
        \/ unread' = unread \o I("modify")
        \/ unread' = unread \o I("delete")
        \/ unread' = (unread \o O("delete self")) \o I("delete")
        \/ unread' = (unread \o I("delete")) \o O("delete self")
        \/ unread' = (unread \o I("delete")) \o O("move self")
    BY <1>2 DEF Create, Write, MakeDirectory, Unlink, RemoveDirectory, MoveAway
  <2> HIDE DEF I, O
  <2>3. unread' \in Seq(Events)
    <3>1. PICK a \in Seq(Events), b \in Seq(Events) :
            unread' = unread \o a \/ unread' = (unread \o a) \o b
      BY <2>1, <2>2
    <3>2. unread \o a \in Seq(Events)
      BY <1>1
    <3>3. (unread \o a) \o b \in Seq(Events)
      BY <3>2
    <3> QED BY <3>1, <3>2, <3>3
  <2>4. \E to \in Types : Change(p, to)
    BY <1>2 DEF Create, Write, MakeDirectory, Unlink, RemoveDirectory, MoveAway, Types
  <2>5. watched' \in SUBSET watched
    BY <1>2 DEF Create, Write, MakeDirectory, Unlink, RemoveDirectory, MoveAway
  <2> QED BY <2>3, <2>4, <2>5
<1>4. PICK to \in Types : Change(p, to)
  BY <1>3
<1>5. FilesAreRight'
  BY <1>1, <1>3, <1>4, ChangeIsRight
<1>6. WatchesAreRight'
  BY <1>1, <1>3, <1>4, FewerAreWatched DEF Change
<1>7. UNCHANGED <<watcher, stack, source>>
  BY <1>4 DEF FileStep, Change
<1>8. StackIsRight' /\ SourceIsTyped'
  BY <1>7 DEF WatcherInv, StackIsRight, SourceIsTyped, Alive, IsQueued
<1> QED BY <1>5, <1>6, <1>8 DEF WatcherInv

LEMMA FlaggedWatchers ==
  ASSUME NEW w \in Watchers, NEW change \in {"modified", "deleted"}
  PROVE  /\ Flag(w, change) \in Watchers /\ Flag(w, change) # None
         /\ Flag(w, change).wd = w.wd /\ Flag(w, change).name = w.name
         /\ w.promise = "waiting" =>
              Flag(w, change).promise = "queued" /\ Flag(w, change).change = change
         /\ w.promise # "waiting" =>
              Flag(w, change).promise = w.promise /\ Flag(w, change).change = w.change
<1>1. Flag(w, change) \in Watchers
  BY DEF Flag, Watchers, Promises
<1> QED BY <1>1, InotifyAssumption DEF Flag, Watchers

LEMMA HandleEventKeepsWatches ==
  ASSUME WatchesAreRight, FilesAreRight, HandleEvent
  PROVE  WatchesAreRight' /\ \A p \in Paths : watcher[p] # None => watcher'[p] # None
<1> DEFINE e == Head(batch)
           known == \E p \in Paths : watchByName[p] = e.wd
           change == IF e.what \in {"delete", "delete self", "move self"}
                     THEN "deleted" ELSE "modified"
           named == IF known THEN Flagged(e) ELSE {}
           directory == IF known THEN FlaggedDirectory(e) ELSE {}
           ready(s) == {p \in s : watcher[p].promise = "waiting"}
           one == SetToSeq(ready(named))
           other == SetToSeq(ready(directory))
<1>1. /\ watcher' = [p \in Paths |->
                       IF p \in named THEN Flag(watcher[p], change)
                       ELSE IF p \in directory THEN Flag(watcher[p], "modified")
                       ELSE watcher[p]]
      /\ callbacks' = (callbacks \o one) \o other
      /\ watchByName' = [p \in Paths |->
                           IF e.what \in {"delete self", "move self"} /\ watchByName[p] = e.wd
                           THEN None ELSE watchByName[p]]
      /\ UNCHANGED <<wds, watched, terminated>>
  BY DEF HandleEvent
<1>2. /\ named \in SUBSET Paths /\ directory \in SUBSET Paths /\ named \cap directory = {}
      /\ \A p \in named \cup directory : watcher[p] # None
  BY DEF Flagged, FlaggedDirectory
<1>3. change \in {"modified", "deleted"}
  OBVIOUS
<1> HIDE DEF e, known, change, named, directory
\* Each watcher stays as it was, or is told.
<1>4. /\ watcher \in [Paths -> Watchers \cup {None}] /\ callbacks \in Seq(Paths)
      /\ InQueue(callbacks) = {p \in Paths : IsQueued(watcher, p)} /\ OnceEach(callbacks)
      /\ \A p \in Paths : watcher[p] # None => watcher[p] \in Watchers
  BY WatcherParts DEF WatchesAreRight, Known
<1>5. ASSUME NEW p \in Paths
      PROVE  /\ watcher'[p] \in Watchers \cup {None}
             /\ watcher[p] # None <=> watcher'[p] # None
             /\ watcher'[p] # None =>
                  watcher'[p].wd = watcher[p].wd /\ watcher'[p].name = watcher[p].name
             /\ IsQueued(watcher', p) <=>
                  IsQueued(watcher, p) \/ p \in ready(named) \cup ready(directory)
             /\ p \in ready(named) \cup ready(directory) =>
                  ~IsQueued(watcher, p) /\ watcher'[p].change \in {"modified", "deleted"}
             /\ p \notin ready(named) \cup ready(directory) /\ watcher'[p] # None =>
                  watcher'[p].change = watcher[p].change
  <2>1. CASE p \in named \cup directory
    <3>1. PICK c \in {"modified", "deleted"} : watcher'[p] = Flag(watcher[p], c)
      BY <1>1, <1>2, <1>3, <2>1
    <3>2. watcher[p] \in Watchers /\ watcher[p] # None
      BY <1>2, <1>4, <2>1
    <3>3. p \in ready(named) \cup ready(directory) <=> watcher[p].promise = "waiting"
      BY <2>1
    <3> QED BY <3>1, <3>2, <3>3, FlaggedWatchers DEF IsQueued
  <2>2. CASE p \notin named \cup directory
    <3>1. watcher'[p] = watcher[p] /\ p \notin ready(named) \cup ready(directory)
      BY <1>1, <2>2
    <3> QED BY <1>4, <3>1 DEF IsQueued
  <2> QED BY <2>1, <2>2
<1>6. /\ ready(named) \in SUBSET Paths /\ ready(directory) \in SUBSET Paths
      /\ ready(named) \cap ready(directory) = {}
      /\ IsFiniteSet(ready(named)) /\ IsFiniteSet(ready(directory))
  <2>1. /\ ready(named) \in SUBSET Paths /\ ready(directory) \in SUBSET Paths
        /\ ready(named) \cap ready(directory) = {}
    BY <1>2
  <2>2. IsFiniteSet(Paths)
    BY InotifyAssumption
  <2> HIDE DEF ready
  <2> QED BY <2>1, <2>2, FS_Subset
<1> HIDE DEF ready
<1>7. /\ one \in Seq(Paths) /\ InQueue(one) = ready(named) /\ OnceEach(one)
      /\ other \in Seq(Paths) /\ InQueue(other) = ready(directory) /\ OnceEach(other)
  BY <1>6, QueueOfSet
<1> HIDE DEF one, other
<1> DEFINE most == callbacks \o one
<1>8. /\ most \in Seq(Paths) /\ OnceEach(most)
      /\ InQueue(most) = InQueue(callbacks) \cup ready(named)
      /\ callbacks' = most \o other
  <2>1. InQueue(callbacks) \cap InQueue(one) = {}
    BY <1>4, <1>5, <1>6, <1>7
  <2>2. callbacks' = most \o other
    BY <1>1
  <2>3. callbacks \in Seq(Paths) /\ one \in Seq(Paths) /\ OnceEach(callbacks) /\ OnceEach(one)
    BY <1>4, <1>7
  <2>4. most \in Seq(Paths) /\ OnceEach(most) /\ InQueue(most) = InQueue(callbacks) \cup InQueue(one)
    BY <2>1, <2>3, QueueOfBoth
  <2> QED BY <1>7, <2>2, <2>4
<1> HIDE DEF most
<1>9. /\ callbacks' \in Seq(Paths) /\ OnceEach(callbacks')
      /\ InQueue(callbacks') = (InQueue(callbacks) \cup ready(named)) \cup ready(directory)
  <2>1. InQueue(most) \cap InQueue(other) = {}
    BY <1>4, <1>5, <1>6, <1>7, <1>8
  <2> QED BY <1>7, <1>8, <2>1, QueueOfBoth
<1>10. InQueue(callbacks') = {p \in Paths : IsQueued(watcher', p)}
  BY <1>4, <1>5, <1>6, <1>9
<1>11. CallbacksAreOwed'
  BY <1>9, <1>10 DEF CallbacksAreOwed, InQueue, OnceEach, IsQueued
<1>12. Known(watcher', wds')
  <2>1. watcher' \in [Paths -> Watchers \cup {None}]
    BY <1>1, <1>5
  <2> QED BY <1>1, <1>5, <2>1 DEF WatchesAreRight, Known, Named
<1>13. ChangesAreSaid'
  <2> SUFFICES ASSUME NEW p \in Paths, IsQueued(watcher', p)
               PROVE  watcher'[p].change \in {"modified", "deleted"}
    BY DEF ChangesAreSaid, IsQueued
  <2>1. watcher'[p] # None
    BY DEF IsQueued
  <2> QED BY <1>5, <2>1 DEF WatchesAreRight, ChangesAreSaid
<1>14. watchByName' \in [Paths -> DOMAIN wds' \cup {None}]
  BY <1>1 DEF WatchesAreRight
<1>15. DescriptorsAreUsed'
  <2>1. ASSUME NEW p \in Paths, watchByName'[p] # None
        PROVE  /\ wds'[watchByName'[p]][1] = p
               /\ \E q \in Paths : watcher'[q] # None /\ watcher'[q].wd = watchByName'[p]
    <3>1. watchByName'[p] = watchByName[p]
      BY <1>1, <2>1
    <3>2. /\ wds[watchByName[p]][1] = p
          /\ \E q \in Paths : watcher[q] # None /\ watcher[q].wd = watchByName[p]
      BY <2>1, <3>1 DEF WatchesAreRight, DescriptorsAreUsed
    <3> QED BY <1>1, <1>5, <3>1, <3>2
  <2>2. \A p \in Paths : watcher'[p] # None => Named(watcher'[p], p, wds')
    BY <1>12 DEF Known
  <2> QED BY <2>1, <2>2 DEF DescriptorsAreUsed, Named
<1> QED BY <1>1, <1>5, <1>9, <1>11, <1>12, <1>13, <1>14, <1>15 DEF WatchesAreRight

LEMMA EventStepKeeps ==
  ASSUME WatcherInv, EventStep
  PROVE  WatcherInv'
<1>1. stack = <<>> /\ UNCHANGED <<stack, source>> /\ (Read \/ HandleEvent)
  BY DEF EventStep
<1>2. StackIsRight' /\ SourceIsTyped'
  BY <1>1 DEF WatcherInv, StackIsRight, SourceIsTyped, Alive, InOrder
<1>3. CASE Read
  <2>1. FilesAreRight'
    BY <1>3 DEF Read, WatcherInv, FilesAreRight, IsDirectory, files
  <2>2. WatchesAreRight'
    BY <1>3, FewerAreWatched DEF Read, inotify, WatcherInv
  <2> QED BY <1>2, <2>1, <2>2 DEF WatcherInv
<1>4. CASE HandleEvent
  <2>1. FilesAreRight'
    <3>1. batch # <<>> /\ batch' = Tail(batch) /\ UNCHANGED <<type, stamp, changes, unread>>
      BY <1>4 DEF HandleEvent, files
    <3>2. batch \in Seq(Events) => Tail(batch) \in Seq(Events)
      BY <3>1
    <3> QED BY <3>1, <3>2 DEF WatcherInv, FilesAreRight, IsDirectory
  <2>2. WatchesAreRight'
    BY <1>4, HandleEventKeepsWatches DEF WatcherInv
  <2> QED BY <1>2, <2>1, <2>2 DEF WatcherInv
<1> QED BY <1>1, <1>3, <1>4

-----------------------------------------------------------------------------
(***************************************************************************)
(* The steps of callbacks.                                                 *)
(***************************************************************************)

LEMMA FilesStay ==
  ASSUME FilesAreRight, UnchangedFiles
  PROVE  FilesAreRight'
BY DEF FilesAreRight, UnchangedFiles, files, IsDirectory

LEMMA WatchesStay ==
  ASSUME WatchesAreRight, UNCHANGED <<inotify, watcher, callbacks, terminated>>
  PROVE  WatchesAreRight'
BY FewerAreWatched DEF inotify

LEMMA SameDescriptors ==
  ASSUME WatchesAreRight, UNCHANGED <<inotify, terminated>>, Known(watcher', wds),
         \A q \in Paths : watcher[q] # None =>
           watcher'[q] # None /\ watcher'[q].wd = watcher[q].wd,
         callbacks' \in Seq(Paths), OnceEach(callbacks'),
         InQueue(callbacks') = {q \in Paths : IsQueued(watcher', q)},
         \A q \in Paths : IsQueued(watcher', q) =>
           watcher'[q].change \in {"modified", "deleted"}
  PROVE  WatchesAreRight'
<1>1. UNCHANGED <<wds, watched, watchByName, terminated>>
  BY DEF inotify
<1>2. CallbacksAreOwed' /\ ChangesAreSaid'
  BY DEF CallbacksAreOwed, ChangesAreSaid, InQueue, OnceEach, IsQueued
<1>3. DescriptorsAreUsed'
  BY <1>1 DEF WatchesAreRight, DescriptorsAreUsed, Known, Named
<1> QED BY <1>1, <1>2, <1>3 DEF WatchesAreRight, Known, Named

LEMMA ContentIsTyped ==
  ASSUME FilesAreRight, NEW p \in Paths
  PROVE  Content(p) \in 0 .. MaxChanges + 1
BY InotifyAssumption DEF FilesAreRight, Content

\* The driver forgets sources.
LEMMA ForgettingSources ==
  ASSUME SourceIsTyped, NEW gone,
         source' = [q \in Paths |-> IF q \in gone /\ watcher[q] # None THEN None ELSE source[q]]
  PROVE  SourceIsTyped'
BY DEF SourceIsTyped

\* An exception leaves no lists, but the watcher whose callback it left.
LEMMA ThrowKeeps ==
  ASSUME WatcherInv, stack # <<>>, Throw
  PROVE  WatcherInv'
<1> DEFINE n == Len(stack)
           p == stack[n].at
           running == watcher[p].promise = "running"
           may == IF stack[n].do # "wait" THEN {TRUE} ELSE IF running THEN {FALSE} ELSE BOOLEAN
           x == IF running THEN "failed" ELSE Without(Destroyed)[p].promise
           w == [Without(Destroyed) EXCEPT ![p].promise = x]
<1>1. /\ Keep(w, watchByName, watched, may)
      /\ stack' = <<>> /\ UNCHANGED <<wds, source>> /\ UnchangedFiles
  BY DEF Throw, Last
<1>2. /\ FilesAreRight /\ WatchesAreRight /\ SourceIsTyped /\ InOrder(stack)
      /\ stack \in Seq(Frames) /\ n \in Nat \ {0} /\ DOMAIN stack = 1 .. n /\ n \in DOMAIN stack
  BY StackTop DEF WatcherInv, StackIsRight
<1> HIDE DEF n
<1>3. \A i \in DOMAIN stack : stack[i] \in Frames /\ stack[i].at \in Paths
  BY <1>2, FramesAreTyped
<1>4. p \in Paths /\ watcher[p] # None
  <2>1. IsBottom(stack[n])
    BY <1>2 DEF InOrder, n
  <2> QED BY <1>2, <1>3, <2>1 DEF WatcherInv, StackIsRight, Alive, IsBottom
<1>5. p \notin Destroyed
  <2> SUFFICES ASSUME NEW i \in DOMAIN stack, stack[i].do = "children",
                      NEW q \in stack[i].kept, p \in Descendants(q)
               PROVE  FALSE
    BY DEF Destroyed
  <2>1. q \in Children(stack[i].at) /\ stack[i].at \in Paths
    BY <1>2, <1>3 DEF InOrder, ListsItsChildren
  <2>2. q \in Paths /\ stack[i].at \notin Descendants(q)
    BY <2>1, ChildrenAreBelow
  <2>3. stack[i].at \in Descendants(p)
    <3>1. i <= n
      BY <1>2
    <3> QED BY <1>2, <3>1 DEF InOrder
  <2> QED BY <2>2, <2>3, DescendantsOfDescendants
<1>6. /\ Known(Without(Destroyed), wds) /\ Without(Destroyed)[p] = watcher[p]
      /\ \A q \in Paths : IsQueued(Without(Destroyed), q) =>
           IsQueued(watcher, q) /\ Without(Destroyed)[q].change = watcher[q].change
  BY <1>2, <1>4, <1>5, WatchersWithout
<1>7. x \in Promises
  <2>1. watcher[p] \in Watchers
    BY <1>2, <1>4, WatcherParts
  <2> QED BY <1>6, <2>1, WatcherRecords DEF Promises
<1>8. x = "queued" => IsQueued(watcher, p)
  BY <1>4, <1>6 DEF IsQueued
<1> HIDE DEF p, x
<1>9. /\ Known(w, wds) /\ \A q \in Paths : q # p => w[q] = Without(Destroyed)[q]
      /\ IsQueued(w, p) <=> x = "queued"
      /\ w[p].change = watcher[p].change
  BY <1>4, <1>6, <1>7, WatchersWithPromise
<1>10. \A q \in Paths : IsQueued(w, q) =>
         IsQueued(watcher, q) /\ w[q].change = watcher[q].change
  BY <1>6, <1>8, <1>9 DEF IsQueued
<1>11. may \in SUBSET BOOLEAN /\ wds' = wds
  BY <1>1
<1>12. Keep(w, watchByName, watched, may)
  BY <1>1
<1> HIDE DEF w, may
<1>13. WatchesAreRight'
  BY <1>2, <1>9, <1>10, <1>11, <1>12, KeepFewer
<1>14. FilesAreRight' /\ SourceIsTyped'
  BY <1>1, <1>2, FilesStay DEF SourceIsTyped
<1>15. StackIsRight'
  BY <1>1 DEF StackIsRight, InOrder, Alive
<1> QED BY <1>13, <1>14, <1>15 DEF WatcherInv

LEMMA RunCallbackKeeps ==
  ASSUME WatcherInv, NEW p \in Paths, RunCallback(p)
  PROVE  WatcherInv'
<1> DEFINE w == [watcher EXCEPT ![p].promise = "running"]
           g == [do |-> watcher[p].change, at |-> p]
           f == [do |-> "wait", at |-> p]
<1>1. /\ stack = <<>> /\ callbacks # <<>> /\ p = Head(callbacks)
      /\ callbacks' = Tail(callbacks) /\ watcher' = w /\ stack' = <<g, f>>
      /\ UNCHANGED <<inotify, terminated, source>> /\ UnchangedFiles
  BY DEF RunCallback
<1>2. /\ WatchesAreRight /\ Known(watcher, wds) /\ callbacks \in Seq(Paths)
      /\ OnceEach(callbacks) /\ InQueue(callbacks) = {q \in Paths : IsQueued(watcher, q)}
  BY WatcherParts DEF WatcherInv, WatchesAreRight
<1>3. /\ callbacks' \in Seq(Paths) /\ OnceEach(callbacks')
      /\ InQueue(callbacks') = InQueue(callbacks) \ {p} /\ p \in InQueue(callbacks)
  BY <1>1, <1>2, QueueOfOneLess
<1>4. IsQueued(watcher, p) /\ watcher[p] # None
  BY <1>2, <1>3 DEF IsQueued
<1>5. "running" \in Promises
  BY DEF Promises
<1>6. /\ Known(w, wds) /\ \A q \in Paths : q # p => w[q] = watcher[q]
      /\ w[p] # None /\ ~IsQueued(w, p) /\ w[p].wd = watcher[p].wd
  BY <1>2, <1>4, <1>5, WatchersWithPromise
<1> HIDE DEF w
<1>7. InQueue(callbacks') = {q \in Paths : IsQueued(w, q)}
  BY <1>2, <1>3, <1>6 DEF IsQueued
<1>8. \A q \in Paths : IsQueued(w, q) => w[q].change \in {"modified", "deleted"}
  BY <1>2, <1>6 DEF WatchesAreRight, ChangesAreSaid, IsQueued
<1>9. WatchesAreRight'
  BY <1>1, <1>2, <1>3, <1>6, <1>7, <1>8, SameDescriptors
<1>10. FilesAreRight' /\ SourceIsTyped'
  BY <1>1, FilesStay DEF WatcherInv, SourceIsTyped
<1>11. StackIsRight'
  <2>1. watcher[p].change \in {"modified", "deleted"}
    BY <1>2, <1>4 DEF WatchesAreRight, ChangesAreSaid
  <2>2. g \in Frames /\ f \in Frames /\ g.at = p /\ f.at = p /\ f.do = "wait"
        /\ g.do \in {"modified", "deleted"}
    BY <2>1 DEF Frames, Functions
  <2> HIDE DEF g, f
  <2> DEFINE s == <<g, f>>
  <2>3. /\ s \in Seq(Frames) /\ Len(s) = 2 /\ DOMAIN s = 1 .. 2 /\ s[1] = g /\ s[2] = f
        /\ \A i \in DOMAIN s : i = 1 \/ i = 2
    BY <2>2
  <2>4. ListsItsChildren(f) /\ ListsItsChildren(g)
    BY <2>2 DEF ListsItsChildren
  <2>5. Calls(f, g) /\ IsBottom(f)
    BY <2>2 DEF Calls, IsBottom
  <2>6. p \in Descendants(p)
    BY DescendantsAreClosed
  <2>7. stack' = s
    BY <1>1
  <2> HIDE DEF s
  <2>8. InOrder(s)
    BY <2>2, <2>3, <2>4, <2>5, <2>6 DEF InOrder
  <2>9. Alive(s, w)
    BY <1>6, <2>2, <2>3 DEF Alive
  <2> QED BY <1>1, <2>3, <2>7, <2>8, <2>9 DEF StackIsRight
<1> QED BY <1>9, <1>10, <1>11 DEF WatcherInv

LEMMA WatchersOnChange ==
  ASSUME NEW w \in Watchers
  PROVE  /\ OnChange(w) \in Watchers /\ OnChange(w) # None
         /\ OnChange(w).wd = w.wd /\ OnChange(w).name = w.name
         /\ OnChange(w).promise = "queued" => OnChange(w).change \in {"modified", "deleted"}
<1>1. OnChange(w) \in Watchers
  BY DEF OnChange, Watchers, Promises
<1> QED BY <1>1, InotifyAssumption DEF OnChange, Watchers

LEMMA WaitForEventKeeps ==
  ASSUME WatcherInv, NEW p \in Paths, WaitForEvent(p)
  PROVE  WatcherInv'
<1> DEFINE r == OnChange(watcher[p])
<1>1. /\ stack # <<>> /\ Top.do = "wait" /\ Top.at = p
      /\ watcher' = [watcher EXCEPT ![p] = r]
      /\ callbacks' = IF watcher'[p].promise = "queued" THEN Append(callbacks, p) ELSE callbacks
      /\ Return /\ UNCHANGED <<inotify, terminated, source>> /\ UnchangedFiles
  BY DEF WaitForEvent, Doing
<1>2. /\ WatchesAreRight /\ Known(watcher, wds) /\ callbacks \in Seq(Paths) /\ StackIsRight
      /\ OnceEach(callbacks) /\ InQueue(callbacks) = {q \in Paths : IsQueued(watcher, q)}
      /\ watcher \in [Paths -> Watchers \cup {None}]
  BY WatcherParts DEF WatcherInv, WatchesAreRight, Known
<1>3. watcher[p] # None /\ ~IsQueued(watcher, p) /\ watcher[p] \in Watchers
  BY <1>1, <1>2, StackParts
<1>4. /\ r \in Watchers /\ r # None /\ r.wd = watcher[p].wd /\ r.name = watcher[p].name
      /\ r.promise = "queued" => r.change \in {"modified", "deleted"}
  BY <1>3, WatchersOnChange
<1> HIDE DEF r
<1>5. /\ watcher' \in [Paths -> Watchers \cup {None}] /\ watcher'[p] = r
      /\ \A q \in Paths : q # p => watcher'[q] = watcher[q]
  BY <1>1, <1>2, <1>4
<1>6. Known(watcher', wds)
  BY <1>2, <1>4, <1>5, <1>3 DEF Known, Named
<1>7. /\ callbacks' \in Seq(Paths) /\ OnceEach(callbacks')
      /\ InQueue(callbacks') = {q \in Paths : IsQueued(watcher', q)}
  <2>1. IsQueued(watcher', p) <=> r.promise = "queued"
    BY <1>4, <1>5 DEF IsQueued
  <2>2. \A q \in Paths : q # p => (IsQueued(watcher', q) <=> IsQueued(watcher, q))
    BY <1>5 DEF IsQueued
  <2>3. CASE r.promise = "queued"
    <3>1. callbacks' = Append(callbacks, p) /\ p \notin InQueue(callbacks)
      BY <1>1, <1>2, <1>3, <1>5, <2>3
    <3>2. /\ callbacks' \in Seq(Paths) /\ OnceEach(callbacks')
          /\ InQueue(callbacks') = InQueue(callbacks) \cup {p}
      BY <1>2, <3>1, QueueOfOneMore
    <3> QED BY <1>2, <2>1, <2>2, <2>3, <3>2
  <2>4. CASE r.promise # "queued"
    <3>1. callbacks' = callbacks
      BY <1>1, <1>5, <2>4
    <3> QED BY <1>2, <1>3, <2>1, <2>2, <2>4, <3>1
  <2> QED BY <2>3, <2>4
<1>8. \A q \in Paths : IsQueued(watcher', q) => watcher'[q].change \in {"modified", "deleted"}
  BY <1>2, <1>4, <1>5 DEF WatchesAreRight, ChangesAreSaid, IsQueued
<1>9. WatchesAreRight'
  BY <1>1, <1>2, <1>4, <1>5, <1>6, <1>7, <1>8, SameDescriptors
<1>10. FilesAreRight' /\ SourceIsTyped'
  BY <1>1, FilesStay DEF WatcherInv, SourceIsTyped
\* This is the last function on the stack.
<1>11. StackIsRight'
  <2>1. Len(stack) = 1
    BY <1>1, <1>2, StackParts DEF Calls
  <2>2. DOMAIN Tail(stack) = 1 .. Len(stack) - 1
    BY <1>1, <1>2, StackTop DEF StackIsRight
  <2>3. \A i \in DOMAIN Tail(stack) : FALSE
    BY <2>1, <2>2
  <2>4. Alive(Tail(stack), watcher')
    BY <2>3 DEF Alive
  <2> QED BY <1>1, <1>2, <2>4, ReturnIsRight
<1> QED BY <1>9, <1>10, <1>11 DEF WatcherInv

LEMMA ModifiedFileKeeps ==
  ASSUME WatcherInv, NEW p \in Paths, ModifiedFile(p)
  PROVE  WatcherInv'
<1>1. /\ stack # <<>> /\ Return /\ source' = [source EXCEPT ![p] = Content(p)]
      /\ UNCHANGED <<inotify, watcher, callbacks, terminated>> /\ UnchangedFiles
  BY DEF ModifiedFile, Doing
<1>2. FilesAreRight' /\ WatchesAreRight'
  BY <1>1, FilesStay, WatchesStay DEF WatcherInv
<1>3. StackIsRight'
  BY <1>1, NothingHasGone, ReturnIsRight DEF WatcherInv
<1>4. SourceIsTyped'
  BY <1>1, ContentIsTyped DEF WatcherInv, SourceIsTyped
<1> QED BY <1>2, <1>3, <1>4 DEF WatcherInv

LEMMA ModifiedDirectoryKeeps ==
  ASSUME WatcherInv, NEW p \in Paths, ModifiedDirectory(p)
  PROVE  WatcherInv'
<1> DEFINE g == [do |-> "children", at |-> p,
                 left |-> {q \in Children(p) : type[q] # "none"}, kept |-> {}]
<1>1. /\ stack # <<>> /\ Top.do = "modified" /\ Top.at = p
      /\ stack' = <<g>> \o Tail(stack)
      /\ UNCHANGED <<inotify, watcher, callbacks, terminated, source>> /\ UnchangedFiles
  BY DEF ModifiedDirectory, Doing
<1>2. FilesAreRight' /\ WatchesAreRight' /\ SourceIsTyped'
  BY <1>1, FilesStay, WatchesStay DEF WatcherInv, SourceIsTyped
<1>3. /\ StackIsRight /\ watcher[p] # None
      /\ Len(stack) > 1 => Calls(stack[2], Top)
      /\ Len(stack) = 1 => IsBottom(Top)
  BY <1>1, StackParts DEF WatcherInv
<1>4. /\ g \in Frames /\ g.do = "children" /\ g.at = p /\ ListsItsChildren(g)
  BY DEF Frames, Children, ListsItsChildren
<1> HIDE DEF g
<1>5. /\ Len(stack) > 1 => Calls(stack[2], g)
      /\ Len(stack) = 1 => IsBottom(g)
  BY <1>1, <1>3, <1>4 DEF Calls, IsBottom
<1>6. Alive(Tail(stack), watcher') /\ watcher'[g.at] # None
  BY <1>1, <1>3, <1>4, NothingHasGone
<1>7. StackIsRight'
  BY <1>1, <1>3, <1>4, <1>5, <1>6, GoingOnIsRight
<1> QED BY <1>2, <1>7 DEF WatcherInv

LEMMA ReallyDeletedKeeps ==
  ASSUME WatcherInv, stack # <<>>, watcher[Top.at] # None, ReallyDeleted(Top.at), Return,
         UnchangedFiles
  PROVE  WatcherInv'
<1> DEFINE p == Top.at
           gone == Descendants(p) \ {p}
           w == [Without(gone) EXCEPT ![p].promise = "none"]
           may == {FALSE}
<1>1. /\ source' = [q \in Paths |->
                      IF q \in Descendants(p) /\ watcher[q] # None THEN None ELSE source[q]]
      /\ Keep(w, watchByName, watched, may) /\ wds' = wds
  BY DEF ReallyDeleted
<1>2. /\ WatchesAreRight /\ StackIsRight /\ p \in Paths
  BY StackParts DEF WatcherInv
<1>3. /\ Known(Without(gone), wds)
      /\ \A q \in Paths : Without(gone)[q] = IF q \in gone THEN None ELSE watcher[q]
      /\ \A q \in Paths : IsQueued(Without(gone), q) =>
           IsQueued(watcher, q) /\ Without(gone)[q].change = watcher[q].change
  BY <1>2, WatchersWithout
<1>4. Without(gone)[p] # None /\ "none" \in Promises /\ "none" # "queued"
  BY <1>2, <1>3 DEF Promises
<1>5. may \in SUBSET BOOLEAN
  OBVIOUS
<1> HIDE DEF p, gone, may
<1>6. /\ Known(w, wds) /\ \A q \in Paths : q # p => w[q] = Without(gone)[q]
      /\ w[p] # None /\ ~IsQueued(w, p)
  BY <1>2, <1>3, <1>4, WatchersWithPromise
<1> HIDE DEF w
<1>7. \A q \in Paths : IsQueued(w, q) => IsQueued(watcher, q) /\ w[q].change = watcher[q].change
  BY <1>3, <1>6 DEF IsQueued
<1>8. watcher' = w /\ WatchesAreRight'
  BY <1>1, <1>2, <1>5, <1>6, <1>7, KeepFewer
<1>9. \A q \in Paths : watcher[q] # None /\ (q \in Descendants(p) => q = p) => w[q] # None
  BY <1>3, <1>6 DEF gone
<1>10. StackIsRight'
  BY <1>2, <1>7, <1>8, <1>9, CallersAreAlive, ReturnIsRight DEF p
<1>11. FilesAreRight' /\ SourceIsTyped'
  BY <1>1, FilesStay, ForgettingSources DEF WatcherInv
<1> QED BY <1>8, <1>10, <1>11 DEF WatcherInv

LEMMA ListFailsKeeps ==
  ASSUME WatcherInv, NEW p \in Paths, ListFails(p)
  PROVE  WatcherInv'
<1>1. stack # <<>> /\ Top.do = "modified" /\ Top.at = p
  BY DEF ListFails, Doing
<1>2. watcher[Top.at] # None
  BY <1>1, StackParts DEF WatcherInv
<1> QED BY <1>1, <1>2, ReallyDeletedKeeps DEF ListFails

\* Two calls put on a stack in one step.
LEMMA CallOnCall ==
  ASSUME NEW S, NEW g \in S, NEW f \in S, NEW rest \in Seq(S)
  PROVE  <<g>> \o <<f>> \o rest = <<g>> \o (<<f>> \o rest)
OBVIOUS

LEMMA ChildKeeps ==
  ASSUME WatcherInv, NEW p \in Paths, NEW q \in Paths, Child(p, q)
  PROVE  WatcherInv'
<1>1. stack # <<>> /\ Top.do = "children" /\ Top.at = p /\ q \in Top.left
  BY DEF Child, Doing
<1>2. CASE StatThrows(q)
  BY <1>1, <1>2, ThrowKeeps DEF Child
<1>3. CASE ~StatThrows(q)
  <2> DEFINE f == [Top EXCEPT !.left = @ \ {q}, !.kept = @ \cup {q}]
             g == [do |-> IF IsDirectory(q) THEN "new directory" ELSE "new file", at |-> q]
             rest == Tail(stack)
  <2>1. /\ stack' = (IF Retained(q) THEN <<>> ELSE <<g>>) \o <<f>> \o rest
        /\ UNCHANGED <<inotify, watcher, callbacks, terminated, source>> /\ UnchangedFiles
    BY <1>3 DEF Child
  <2>2. FilesAreRight' /\ WatchesAreRight' /\ SourceIsTyped'
    BY <2>1, FilesStay, WatchesStay DEF WatcherInv, SourceIsTyped
  <2>3. /\ StackIsRight /\ Top \in Frames /\ ListsItsChildren(Top) /\ watcher[p] # None
        /\ Len(stack) > 1 => Calls(stack[2], Top)
        /\ Len(stack) = 1 => IsBottom(Top)
        /\ stack \in Seq(Frames) /\ InOrder(stack) /\ rest \in Seq(Frames)
        /\ Alive(rest, watcher)
    BY <1>1, StackParts, NothingHasGone DEF WatcherInv, StackIsRight
  <2>4. /\ Top \in [do : {"children"}, at : Paths, left : SUBSET Paths, kept : SUBSET Paths]
        /\ Top.left \cup Top.kept \subseteq Children(p)
    BY <1>1, <2>3 DEF Frames, Functions, ListsItsChildren
  <2>5. /\ f \in [do : {"children"}, at : Paths, left : SUBSET Paths, kept : SUBSET Paths]
        /\ f.do = "children" /\ f.at = p
        /\ f.left = Top.left \ {q} /\ f.kept = Top.kept \cup {q}
    BY <1>1, <2>4
  <2>6. g \in Frames /\ g.do \in {"new directory", "new file"} /\ g.at = q
    BY DEF Frames, Functions
  <2> HIDE DEF f, g, rest
  <2>7. f \in Frames /\ ListsItsChildren(f)
    BY <1>1, <2>4, <2>5 DEF Frames, ListsItsChildren
  <2>8. /\ Len(stack) > 1 => Calls(stack[2], f)
        /\ Len(stack) = 1 => IsBottom(f)
    BY <1>1, <2>3, <2>5 DEF Calls, IsBottom
  <2> DEFINE t == <<f>> \o rest
  <2>9. t \in Seq(Frames) /\ InOrder(t)
    BY <1>1, <2>3, <2>7, <2>8, GoOnInOrder DEF rest
  <2>10. Alive(t, watcher)
    BY <2>3, <2>5, <2>7, AliveCall
  <2>11. t[1] = f /\ t # <<>>
    <3>1. t[1] = f /\ Len(t) = Len(rest) + 1 /\ Len(rest) \in Nat
      BY <2>3, <2>7, StackWithCall
    <3> QED BY <2>9, <3>1
  <2>12. \/ stack' = t
         \/ stack' = <<g>> \o t
    <3>1. CASE Retained(q)
      <4>1. stack' = <<>> \o <<f>> \o rest
        BY <2>1, <3>1
      <4>2. <<>> \o <<f>> = <<f>>
        BY <2>7
      <4> QED BY <4>1, <4>2
    <3>2. CASE ~Retained(q)
      <4>1. stack' = <<g>> \o <<f>> \o rest
        BY <2>1, <3>2
      <4>2. g \in Frames /\ f \in Frames /\ rest \in Seq(Frames)
        BY <2>3, <2>6, <2>7
      <4>3. <<g>> \o <<f>> \o rest = <<g>> \o (<<f>> \o rest)
        BY <4>2, CallOnCall
      <4> QED BY <4>1, <4>3
    <3> QED BY <3>1, <3>2
  <2> HIDE DEF t
  <2>13. CASE stack' = t
    BY <2>1, <2>2, <2>9, <2>10, <2>13 DEF WatcherInv, StackIsRight, Alive, IsQueued
  <2>14. CASE stack' = <<g>> \o t
    <3>1. ListsItsChildren(g) /\ Calls(f, g)
      BY <2>5, <2>6 DEF ListsItsChildren, Calls
    <3>2. <<g>> \o t \in Seq(Frames) /\ InOrder(<<g>> \o t)
      BY <2>6, <2>9, <2>11, <3>1, CallInOrder
    <3>3. Alive(<<g>> \o t, watcher)
      BY <2>6, <2>9, <2>10, AliveCall
    <3>4. StackIsRight'
      BY <2>1, <2>14, <3>2, <3>3 DEF StackIsRight, Alive, IsQueued
    <3> QED BY <2>2, <3>4 DEF WatcherInv
  <2> QED BY <2>12, <2>13, <2>14
<1> QED BY <1>2, <1>3

\* A watcher is made for the path of the function on top, which goes on with modified().
LEMMA WatchingAgainKeeps ==
  ASSUME WatcherInv, stack # <<>>, Top.do # "children", Top.do # "wait",
         NEW isDirectory \in BOOLEAN, NEW gone \in SUBSET Descendants(Top.at),
         WatchFile(Top.at, isDirectory, gone), Goto("modified")
  PROVE  WatchesAreRight' /\ StackIsRight'
<1> DEFINE p == Top.at
<1>1. /\ WatchesAreRight /\ FilesAreRight /\ StackIsRight /\ p \in Paths
  BY StackParts DEF WatcherInv
<1>2. /\ watcher'[p] # None /\ ~IsQueued(watcher', p)
      /\ \A q \in Paths : q # p => watcher'[q] = Without(gone)[q]
      /\ WatchesAreRight'
  BY <1>1, WatchFileKeeps
<1> HIDE DEF p
<1>3. /\ \A q \in Paths : Without(gone)[q] = IF q \in gone THEN None ELSE watcher[q]
      /\ \A q \in Paths : IsQueued(Without(gone), q) => IsQueued(watcher, q)
  BY <1>1, WatchersWithout
<1>4. \A q \in Paths : IsQueued(watcher', q) => IsQueued(watcher, q)
  BY <1>2, <1>3 DEF IsQueued
<1>5. \A q \in Paths : watcher[q] # None /\ (q \in Descendants(p) => q = p) => watcher'[q] # None
  BY <1>2, <1>3 DEF p
<1>6. Alive(Tail(stack), watcher')
  BY <1>1, <1>4, <1>5, CallersAreAlive DEF p
<1>7. StackIsRight'
  BY <1>1, <1>2, <1>6, GotoIsRight DEF p
<1> QED BY <1>2, <1>7

LEMMA NewChildKeeps ==
  ASSUME WatcherInv, NEW p \in Paths, NewChild(p)
  PROVE  WatcherInv'
<1>1. stack # <<>> /\ Top.at = p /\ Top.do \in {"new file", "new directory"}
  BY DEF NewChild
<1>2. CASE ~CanWatch(p)
  BY <1>1, <1>2, ThrowKeeps DEF NewChild
<1>3. CASE CanWatch(p)
  <2> DEFINE isDirectory == Top.do = "new directory"
  <2>1. /\ WatchFile(p, isDirectory, Descendants(p)) /\ Goto("modified") /\ UnchangedFiles
        /\ source' = IF isDirectory THEN [source EXCEPT ![p] = Content(p)] ELSE source
    BY <1>3 DEF NewChild
  <2>2. isDirectory \in BOOLEAN /\ Descendants(p) \in SUBSET Descendants(Top.at)
    BY <1>1
  <2> HIDE DEF isDirectory
  <2>3. WatchesAreRight' /\ StackIsRight'
    BY <1>1, <2>1, <2>2, WatchingAgainKeeps
  <2>4. FilesAreRight' /\ SourceIsTyped'
    BY <2>1, FilesStay, ContentIsTyped DEF WatcherInv, SourceIsTyped
  <2> QED BY <2>3, <2>4 DEF WatcherInv
<1> QED BY <1>2, <1>3

LEMMA ResetWatchKeeps ==
  ASSUME WatcherInv, NEW p \in Paths, ResetWatch(p)
  PROVE  WatcherInv'
<1>1. stack # <<>> /\ Top.at = p /\ Top.do = "resetWatch"
  BY DEF ResetWatch, Doing
<1>2. CASE ~CanWatch(p)
  BY <1>1, <1>2, ThrowKeeps DEF ResetWatch
<1>3. CASE CanWatch(p)
  <2> DEFINE isDirectory == watcher[p].isDirectory
  <2>1. /\ WatchFile(p, isDirectory, {}) /\ Goto("modified") /\ UnchangedFiles
        /\ UNCHANGED source
    BY <1>3 DEF ResetWatch
  <2>2. watcher[p] \in Watchers
    BY <1>1, StackParts, WatcherParts DEF WatcherInv
  <2>3. isDirectory \in BOOLEAN /\ {} \in SUBSET Descendants(Top.at)
    BY <2>2 DEF Watchers
  <2> HIDE DEF isDirectory
  <2>4. WatchesAreRight' /\ StackIsRight'
    BY <1>1, <2>1, <2>3, WatchingAgainKeeps
  <2>5. FilesAreRight' /\ SourceIsTyped'
    BY <2>1, FilesStay DEF WatcherInv, SourceIsTyped
  <2> QED BY <2>4, <2>5 DEF WatcherInv
<1> QED BY <1>2, <1>3

LEMMA SwapChildrenKeeps ==
  ASSUME WatcherInv, NEW p \in Paths, SwapChildren(p)
  PROVE  WatcherInv'
<1> DEFINE gone == UNION {Descendants(q) : q \in Children(p) \ Top.kept}
           w == Without(gone)
           may == {FALSE}
<1>1. /\ stack # <<>> /\ Top.at = p /\ Return /\ UnchangedFiles /\ wds' = wds
      /\ source' = [q \in Paths |-> IF q \in gone /\ watcher[q] # None THEN None ELSE source[q]]
      /\ Keep(w, watchByName, watched, may)
  BY DEF SwapChildren, Doing
<1>2. WatchesAreRight /\ StackIsRight
  BY DEF WatcherInv
<1>3. gone \subseteq Descendants(p) \ {p}
  BY ChildrenAreBelow
<1>4. may \in SUBSET BOOLEAN
  OBVIOUS
<1> HIDE DEF gone, may
<1>5. /\ Known(w, wds)
      /\ \A q \in Paths : w[q] = IF q \in gone THEN None ELSE watcher[q]
      /\ \A q \in Paths : IsQueued(w, q) =>
           IsQueued(watcher, q) /\ w[q].change = watcher[q].change
  BY <1>2, WatchersWithout
<1> HIDE DEF w
<1>6. watcher' = w /\ WatchesAreRight'
  BY <1>1, <1>2, <1>4, <1>5, KeepFewer
<1>7. \A q \in Paths : watcher[q] # None /\ (q \in Descendants(Top.at) => q = Top.at) => w[q] # None
  BY <1>1, <1>3, <1>5
<1>8. StackIsRight'
  BY <1>1, <1>2, <1>5, <1>6, <1>7, CallersAreAlive, ReturnIsRight
<1>9. FilesAreRight' /\ SourceIsTyped'
  BY <1>1, FilesStay, ForgettingSources DEF WatcherInv
<1> QED BY <1>6, <1>8, <1>9 DEF WatcherInv

LEMMA DeletedKeeps ==
  ASSUME WatcherInv, NEW p \in Paths, Deleted(p)
  PROVE  WatcherInv'
<1>1. stack # <<>> /\ Top.at = p /\ Top.do = "deleted"
  BY DEF Deleted, Doing
<1>2. watcher[p] # None /\ StackIsRight
  BY <1>1, StackParts DEF WatcherInv
<1>3. CASE StatThrows(p)
  BY <1>1, <1>3, ThrowKeeps DEF Deleted
<1>4. CASE ReallyDeleted(p) /\ Return /\ UnchangedFiles
  BY <1>1, <1>2, <1>4, ReallyDeletedKeeps
<1>5. CASE /\ Goto("resetWatch")
           /\ watcher' = [watcher EXCEPT ![p].promise = "none"]
           /\ UNCHANGED <<inotify, callbacks, terminated, source>>
           /\ UnchangedFiles
  <2> DEFINE w == [watcher EXCEPT ![p].promise = "none"]
  <2>1. /\ WatchesAreRight /\ Known(watcher, wds) /\ callbacks \in Seq(Paths)
        /\ OnceEach(callbacks) /\ InQueue(callbacks) = {q \in Paths : IsQueued(watcher, q)}
    BY WatcherParts DEF WatcherInv, WatchesAreRight
  <2>2. "none" \in Promises
    BY DEF Promises
  <2>3. /\ Known(w, wds) /\ \A q \in Paths : q # p => w[q] = watcher[q]
        /\ w[p] # None /\ ~IsQueued(w, p) /\ w[p].wd = watcher[p].wd
    <3>1. Known(watcher, wds) /\ watcher[p] # None
      BY <1>2, <2>1
    <3> QED BY <2>2, <3>1, WatchersWithPromise
  <2> HIDE DEF w
\* The callback of p is running.
  <2>4. ~IsQueued(watcher, p)
    <3>1. /\ Len(stack) \in Nat \ {0} /\ DOMAIN stack = 1 .. Len(stack)
          /\ Len(stack) > 1 => Calls(stack[2], Top)
          /\ Len(stack) = 1 => IsBottom(Top)
      BY <1>1, <1>2, StackParts
    <3>2. 2 \in DOMAIN stack /\ stack[2].do = "wait" /\ stack[2].at = p
      BY <1>1, <3>1 DEF Calls, IsBottom
    <3> QED BY <1>2, <3>2 DEF StackIsRight, Alive
  <2>5. InQueue(callbacks) = {q \in Paths : IsQueued(w, q)}
    BY <2>1, <2>3, <2>4 DEF IsQueued
  <2>6. \A q \in Paths : IsQueued(w, q) => w[q].change \in {"modified", "deleted"}
    BY <2>1, <2>3 DEF WatchesAreRight, ChangesAreSaid, IsQueued
  <2>7. watcher' = w /\ callbacks' = callbacks
    BY <1>5 DEF w
  <2>8. WatchesAreRight'
    BY <1>5, <2>1, <2>3, <2>5, <2>6, <2>7, SameDescriptors
  <2>9. FilesAreRight' /\ SourceIsTyped'
    BY <1>5, FilesStay DEF WatcherInv, SourceIsTyped
  <2>10. \A q \in Paths : /\ IsQueued(w, q) => IsQueued(watcher, q)
                          /\ watcher[q] # None => w[q] # None
    BY <2>3 DEF IsQueued
  <2>11. Alive(Tail(stack), watcher')
    BY <1>1, <1>2, <2>7, <2>10, CallersAreAlive
  <2>12. StackIsRight'
    BY <1>1, <1>2, <1>5, <2>3, <2>7, <2>11, GotoIsRight
  <2> QED BY <2>8, <2>9, <2>12 DEF WatcherInv
<1> QED BY <1>3, <1>4, <1>5 DEF Deleted

-----------------------------------------------------------------------------
(***************************************************************************)
(* The theorem.                                                            *)
(***************************************************************************)

LEMMA WatcherInitHasInv ==
  ASSUME WatcherInit
  PROVE  WatcherInv
<1> DEFINE r == Watcher(TRUE, 1, None)
           g == [do |-> "modified", at |-> Root]
<1>1. Root \in Paths /\ MaxChanges \in Nat
  BY InotifyAssumption
<1>2. FilesAreRight
  BY <1>1 DEF WatcherInit, FilesAreRight, IsDirectory
<1>3. r \in Watchers /\ r # None /\ r.wd = 1 /\ r.name = None /\ r.promise = "waiting"
  <2>1. r \in Watchers
    BY DEF Watcher, Watchers, Promises
  <2> QED BY <2>1, InotifyAssumption DEF Watcher
<1>4. watcher = [p \in Paths |-> IF p = Root THEN r ELSE None]
  BY DEF WatcherInit
<1> HIDE DEF r
<1>5. wds \in Seq(Descriptors) /\ DOMAIN wds = {1} /\ wds[1][1] = Root
  BY <1>1 DEF WatcherInit, Descriptors
<1>6. Known(watcher, wds)
  BY <1>1, <1>3, <1>4, <1>5 DEF Known, Named
<1>7. \A p \in Paths : ~IsQueued(watcher, p)
  BY <1>3, <1>4 DEF IsQueued
<1>8. callbacks = <<>> /\ callbacks \in Seq(Paths)
  BY DEF WatcherInit
<1>9. CallbacksAreOwed /\ ChangesAreSaid
  BY <1>7, <1>8 DEF CallbacksAreOwed, ChangesAreSaid
<1>10. /\ watchByName \in [Paths -> DOMAIN wds \cup {None}]
       /\ \A p \in Paths : watchByName[p] # None => p = Root /\ watchByName[p] = 1
  BY <1>5 DEF WatcherInit
<1>11. DescriptorsAreUsed
  BY <1>1, <1>3, <1>4, <1>5, <1>6, <1>10 DEF DescriptorsAreUsed, Known, Named
<1>12. WatchesAreRight
  BY <1>5, <1>6, <1>8, <1>9, <1>10, <1>11 DEF WatcherInit, WatchesAreRight
<1>13. SourceIsTyped
  BY DEF WatcherInit, SourceIsTyped
<1>14. StackIsRight
  <2>1. g \in Frames /\ g.do = "modified" /\ g.at = Root
    BY <1>1 DEF Frames, Functions
  <2>2. stack = <<g>>
    BY DEF WatcherInit
  <2> HIDE DEF g
  <2>3. /\ stack \in Seq(Frames) /\ Len(stack) = 1 /\ stack[1] = g
        /\ \A i \in DOMAIN stack : i = 1
    BY <2>1, <2>2
  <2>4. ListsItsChildren(g) /\ IsBottom(g) /\ Root \in Descendants(Root)
    BY <1>1, <2>1, DescendantsAreClosed DEF ListsItsChildren, IsBottom
  <2>5. InOrder(stack)
    BY <2>1, <2>3, <2>4 DEF InOrder
  <2>6. Alive(stack, watcher)
    BY <1>1, <1>3, <1>4, <2>1, <2>3 DEF Alive
  <2> QED BY <2>3, <2>5, <2>6 DEF StackIsRight
<1> QED BY <1>2, <1>12, <1>13, <1>14 DEF WatcherInv

LEMMA WatcherNextKeepsInv ==
  ASSUME WatcherInv, [WatcherNext]_watcherVars
  PROVE  WatcherInv'
<1>1. CASE UNCHANGED watcherVars
  <2>1. /\ UnchangedFiles /\ UNCHANGED <<inotify, watcher, callbacks, terminated, stack, source>>
    BY <1>1 DEF watcherVars, UnchangedFiles
  <2>2. FilesAreRight' /\ WatchesAreRight' /\ SourceIsTyped'
    BY <2>1, FilesStay, WatchesStay DEF WatcherInv, SourceIsTyped
  <2>3. StackIsRight'
    BY <2>1 DEF WatcherInv, StackIsRight, Alive, IsQueued
  <2> QED BY <2>2, <2>3 DEF WatcherInv
<1>2. CASE FileStep
  BY <1>2, FileStepKeeps
<1>3. CASE EventStep
  BY <1>3, EventStepKeeps
<1>4. ASSUME NEW p \in Paths,
             \/ RunCallback(p) \/ WaitForEvent(p)
             \/ Deleted(p) \/ ResetWatch(p)
             \/ ModifiedFile(p) \/ ModifiedDirectory(p) \/ ListFails(p)
             \/ (\E q \in Paths : Child(p, q)) \/ NewChild(p) \/ SwapChildren(p)
      PROVE  WatcherInv'
  BY <1>4, RunCallbackKeeps, WaitForEventKeeps, DeletedKeeps, ResetWatchKeeps, ModifiedFileKeeps,
     ModifiedDirectoryKeeps, ListFailsKeeps, ChildKeeps, NewChildKeeps, SwapChildrenKeeps
<1> QED BY <1>1, <1>2, <1>3, <1>4 DEF WatcherNext, Ekam, CallbackStep

\* Whatever happens to files, in any tree: what Ekam runs is about watchers that are
\* there, each watcher that was told has its callback in the queue once, no other has,
\* and each descriptor is that of its path and used.
THEOREM SourceWatcherInvariant == WatcherSpec => []WatcherInv
<1>1. WatcherInit => WatcherInv
  BY WatcherInitHasInv
<1>2. WatcherInv /\ [WatcherNext]_watcherVars => WatcherInv'
  BY WatcherNextKeepsInv
<1> QED BY <1>1, <1>2, PTL DEF WatcherSpec

\* However files change while callbacks wait or run: the queue has the callback of each
\* watcher whose promise is fulfilled, once, and of none that has been destroyed or
\* whose promise was released; and a descriptor is kept as long as a watcher uses it.
THEOREM WatchersStayTold == WatcherSpec => []WatchersAreTold
<1>1. WatcherInv => WatchersAreTold
  BY WatcherInvIsEnough
<1> QED BY <1>1, SourceWatcherInvariant, PTL

-----------------------------------------------------------------------------
(***************************************************************************)
(* What the driver knows.                                                  *)
(*                                                                         *)
(* SourcesAreFiles does not hold if a directory that Ekam has known comes  *)
(* back under its name, nor if one goes that came while Ekam looked on.    *)
(* So each path is in Lasting, and a directory that is or comes there      *)
(* stays, or it is not, and no directory is made there, though one that    *)
(* was there from the start may go.  Files do what they like.              *)
(*                                                                         *)
(* The invariant says for all that is wrong why it will be put right: an   *)
(* event is on its way, a callback is queued or runs, or a function on the *)
(* stack has yet to come to it.                                            *)
(***************************************************************************)

\* Directories are not removed that are in Lasting, and others are not made.
DirectoriesLast ==
  \A p \in Paths : IF p \in Lasting THEN IsDirectory(p) => IsDirectory(p)'
                                    ELSE IsDirectory(p)' => IsDirectory(p)

\* Events that Ekam has not handled, and functions that run.
Ahead == InQueue(batch) \cup InQueue(unread)
OnStack == InQueue(stack)
InCallback == stack # <<>> /\ Last(stack).do = "wait"
AtBottom(p) == InCallback /\ Last(stack).at = p

\* A DirectoryWatcher is there; the directory of a descriptor.
IsUp(p) == watcher[p] # None /\ watcher[p].isDirectory
Dir(w) == wds[w][1]

\* A directory that was there from the start.
Old(p) == IsDirectory(p) /\ stamp[p] = 1

\* What is there is in a directory.  A directory that was there from the start was in
\* one that was, and it is the only kind that may be outside of Lasting.
TreeIsRight ==
  /\ \A p \in Paths \ {Root} : type[p] # "none" => IsDirectory(Parent[p])
  /\ stamp[Root] = 1
  /\ \A p \in Paths \ Lasting : IsDirectory(p) => stamp[p] = 1
  /\ \A p \in Paths \ {Root} : type[p] # "none" /\ stamp[p] = 1 => stamp[Parent[p]] = 1

\* The descriptors for a directory that is there are for this one, not for one before
\* it of its name; the maps and the watchers have the one that the kernel watches; and
\* an event of a directory that is gone is of one that is.
KernelIsRight ==
  /\ \A w \in DOMAIN wds : IsDirectory(Dir(w)) => wds[w][2] = stamp[Dir(w)]
  /\ \A w \in DOMAIN wds : Dir(w) \in Lasting => IsDirectory(Dir(w))
  /\ \A w \in watched : IsDirectory(Dir(w)) => watchByName[Dir(w)] = w
  /\ \A p \in Paths : watcher[p] # None /\ IsDirectory(Dir(watcher[p].wd)) =>
       watchByName[Dir(watcher[p].wd)] = watcher[p].wd
  /\ \A p \in Paths : IsDirectory(p) /\ watchByName[p] # None => watchByName[p] \in watched
  /\ \A e \in Ahead : e.what \in {"delete self", "move self"} =>
       e.wd \in DOMAIN wds /\ ~IsDirectory(Dir(e.wd))

\* A watcher is in a DirectoryWatcher.  Where directories last, a DirectoryWatcher is of
\* a directory; where they do not, a FileWatcher is of none.
KindsAreRight ==
  /\ IsUp(Root)
  /\ \A p \in Paths \ {Root} : watcher[p] # None => IsUp(Parent[p])
  /\ \A p \in Paths : IsUp(p) /\ p \in Lasting => IsDirectory(p)
  /\ \A p \in Paths : IsUp(p) /\ IsDirectory(p) => watcher[p].name = None
  /\ \A p \in Paths \ Lasting : watcher[p] # None /\ ~IsUp(p) =>
       ~IsDirectory(p) /\ watcher[p].name = p

\* The directory that it was in will not be there again.
Forsaken(p) == p # Root /\ Parent[p] \notin Lasting /\ ~IsDirectory(Parent[p])
\* Nobody will ask for its watcher any more.
Gone(p) == (IsUp(p) /\ ~IsDirectory(p)) \/ Forsaken(p)
\* Only what is gone has a promise that was released or has failed.
PromisesAreRight ==
  \A p \in Paths : watcher[p] # None =>
    /\ watcher[p].promise = "running" => AtBottom(p)
    /\ watcher[p].promise = "none" => AtBottom(p) \/ Gone(p)
    /\ watcher[p].promise = "failed" => Gone(p)

\* A watcher that is being made is of the kind that it should be, as far as directories
\* last, and takes no right one's place; a list has all directories that were there
\* from the start.  A callback lists new directories only, but for its own.
FrameIsRight(f) ==
  /\ f.do = "new directory" /\ f.at \in Lasting => IsDirectory(f.at)
  /\ f.do = "new file" /\ (f.at \notin Lasting \/ Old(f.at)) => ~IsDirectory(f.at)
  /\ f.do \in {"new file", "new directory"} => ~(IsUp(f.at) /\ IsDirectory(f.at))
  /\ f.do = "children" => /\ IsUp(f.at)
                          /\ \A q \in Children(f.at) : Old(q) => q \in f.left \cup f.kept
FramesAreRight ==
  /\ \A f \in OnStack : FrameIsRight(f)
  /\ InCallback => \A f \in OnStack :
       f.at # Last(stack).at /\ f.do # "new file" /\ (f.do = "modified" => IsUp(f.at)) => f.at \in Lasting

\* The initial scan comes to each directory that was there from the start.
Scanned(q) ==
  /\ stack # <<>> /\ ~InCallback
  /\ \/ Doing("modified", Parent[q])
     \/ \E f \in OnStack : /\ f.do = "children" /\ f.at = Parent[q]
                           /\ q \in f.left \/ (q \in f.kept /\ Doing("new directory", q))
OldAreUp == \A q \in Paths \ {Root} : Old(q) => IsUp(q) \/ ~IsUp(Parent[q]) \/ Scanned(q)

\* Its watcher is the one it should have; a function is about it.
Right(p) == watcher[p] # None /\ (IsUp(p) <=> IsDirectory(p))
InHand(p) == \E what \in {"modified", "deleted", "resetWatch"} : Doing(what, p)
\* The directory that it is in will be listed.
ToList(p) ==
  \/ watcher[Parent[p]].promise = "queued"
  \/ InHand(Parent[p])
  \/ \E e \in Ahead : e.wd = watcher[Parent[p]].wd /\ e.name = p /\ e.what \in {"create", "delete"}
\* Its watcher is being made, and is of the kind that it should be.
IsNew(p) == Doing("new file", p) \/ Doing("new directory", p)
MadeRight(p) == IF IsDirectory(p) THEN Doing("new directory", p) ELSE Doing("new file", p)
\* The functions that list the directory that it is in have it on the list, if it is
\* there, and have made the right watcher for it if they have made one.
Listing(p) == {f \in OnStack : f.do = "children" /\ f.at = Parent[p]}
Lists(f, p) ==
  /\ type[p] # "none" <=> p \in f.left \cup f.kept
  /\ p \in f.kept => IF IsNew(p) THEN MadeRight(p) ELSE Right(p)
\* It has the watcher it should have, or none if it is not there, or is about to.
ListIsRight(p) ==
  \/ ToList(p)
  \/ Listing(p) # {} /\ \A f \in Listing(p) : Lists(f, p)
  \/ Listing(p) = {} /\ IF type[p] = "none" THEN watcher[p] = None ELSE Right(p)
ListsAreRight ==
  \A p \in Paths \ {Root} : IsDirectory(Parent[p]) /\ IsUp(Parent[p]) => ListIsRight(p)

\* The driver knows the content of a file, or is about to be told.
ContentIsRight(p) ==
  \/ source[p] = stamp[p]
  \/ watcher[p].promise = "queued"
  \/ InHand(p)
  \/ \E e \in Ahead : e.wd = watcher[p].wd /\ e.name = p
SourcesAreRight ==
  /\ \A p \in Paths \ {Root} : IsDirectory(Parent[p]) /\ IsFile(p) /\ watcher[p] # None /\ ~IsUp(p) =>
       ContentIsRight(p)
  /\ \A p \in Paths \ {Root} : IsDirectory(p) /\ IsUp(p) => source[p] = 0
  /\ \A p \in Paths \ {Root} : source[p] # None /\ (IsDirectory(Parent[p]) \/ Parent[p] \in Lasting) => watcher[p] # None

\* The invariant; files change when the program is gone, too.
SourceParts ==
  /\ TreeIsRight /\ KernelIsRight /\ KindsAreRight /\ PromisesAreRight /\ FramesAreRight
  /\ OldAreUp /\ ListsAreRight /\ SourcesAreRight
SourceInv == terminated \/ SourceParts

\* What is under a path that is no directory is not there.
LEMMA UnderNoDirectory ==
  ASSUME TreeIsRight, NEW p \in Paths, ~IsDirectory(p), NEW q \in Descendants(p)
  PROVE  ~IsDirectory(q) /\ (q # p => type[q] = "none")
<1> DEFINE S == {r \in Descendants(p) : ~IsDirectory(r)}
<1>1. Descendants(p) \in SUBSET Paths /\ p \in Descendants(p) /\ Closed(Descendants(p))
  BY DescendantsAreClosed
<1>2. ASSUME NEW r \in S, NEW c \in Children(r)  PROVE c \in S
  BY <1>1 DEF Closed, Children, TreeIsRight, IsDirectory
<1>3. Closed(S) /\ p \in S /\ S \in SUBSET Paths
  BY <1>1, <1>2 DEF Closed
<1> HIDE DEF S
<1>4. Descendants(p) \subseteq S
  BY <1>3, ClosedSetsHaveDescendants
<1>5. ~IsDirectory(q)
  BY <1>4 DEF S
<1>6. CASE q # p
  <2>1. q # Root /\ Parent[q] \in S /\ q \in Paths
    BY <1>1, <1>4, <1>6, ParentsOfDescendants
  <2> QED BY <1>5, <2>1 DEF S, TreeIsRight
<1> QED BY <1>5, <1>6

\* What is under a path that no DirectoryWatcher watches has no watcher.
LEMMA UnderNoWatcher ==
  ASSUME KindsAreRight, NEW p \in Paths, ~IsUp(p), NEW q \in Descendants(p), q # p
  PROVE  watcher[q] = None
<1> DEFINE S == {r \in Descendants(p) : r = p \/ watcher[r] = None}
<1>1. Descendants(p) \in SUBSET Paths /\ p \in Descendants(p) /\ Closed(Descendants(p))
  BY DescendantsAreClosed
<1>2. ASSUME NEW r \in S, NEW c \in Children(r)  PROVE c \in S
  <2>1. c \in Paths \ {Root} /\ Parent[c] = r /\ c \in Descendants(p) /\ ~IsUp(r)
    BY <1>1 DEF Closed, Children, IsUp
  <2> QED BY <2>1 DEF KindsAreRight
<1>3. Closed(S) /\ p \in S /\ S \in SUBSET Paths
  BY <1>1, <1>2 DEF Closed
<1> HIDE DEF S
<1>4. Descendants(p) \subseteq S
  BY <1>3, ClosedSetsHaveDescendants
<1> QED BY <1>4 DEF S

\* Directories are above each other: what is true of the source directory, and of each
\* directory whose parent it is true of, is true of all.
LEMMA AllOldAreUp ==
  ASSUME TreeIsRight, KindsAreRight, OldAreUp, NEW p \in Paths, Old(p),
         stack = <<>> \/ InCallback
  PROVE  IsUp(p)
<1> DEFINE S == {q \in Paths : Old(q) /\ ~IsUp(q)}
<1>1. SUFFICES ASSUME p \in S  PROVE FALSE
  OBVIOUS
<1>2. S \in SUBSET Paths /\ S # {}
  BY <1>1
<1>3. PICK q \in S : q = Root \/ Parent[q] \notin S
  BY <1>2, InotifyAssumption
<1>4. q # Root
  BY <1>3 DEF KindsAreRight
<1>5. Old(Parent[q]) /\ Parent[q] \in Paths
  BY <1>3, <1>4, InotifyAssumption DEF Old, TreeIsRight, IsDirectory
<1>6. IsUp(Parent[q])
  BY <1>3, <1>4, <1>5
<1>7. ~Scanned(q)
  BY DEF Scanned
<1> QED BY <1>3, <1>4, <1>6, <1>7 DEF OldAreUp

\* The kernel's descriptor for a directory that is watched is the one of its watcher.
LEMMA DirectoryIsWatched ==
  ASSUME WatcherInv, KernelIsRight, KindsAreRight, NEW p \in Paths, IsUp(p), IsDirectory(p)
  PROVE  Watching(p) = {watcher[p].wd} /\ watchByName[p] = watcher[p].wd
<1>1. /\ watcher[p].wd \in DOMAIN wds /\ Named(watcher[p], p, wds) /\ watcher[p].name = None
      /\ watched \in SUBSET DOMAIN wds /\ wds \in Seq(Descriptors)
      /\ None \notin Paths /\ None \notin DOMAIN wds
  <2>1. Len(wds) \in Nat /\ DOMAIN wds = 1 .. Len(wds)
    BY WatcherParts DEF WatcherInv
  <2> QED BY <2>1, InotifyAssumption DEF WatcherInv, WatchesAreRight, Known, IsUp, KindsAreRight
<1>2. Dir(watcher[p].wd) = p
  BY <1>1 DEF Named, Dir
<1>3. watchByName[p] = watcher[p].wd /\ watcher[p].wd \in watched
  BY <1>1, <1>2 DEF KernelIsRight, IsUp
<1>4. wds[watcher[p].wd] = <<p, stamp[p]>>
  <2>1. wds[watcher[p].wd] \in Descriptors
    BY <1>1
  <2>2. wds[watcher[p].wd] = <<wds[watcher[p].wd][1], wds[watcher[p].wd][2]>>
    BY <2>1 DEF Descriptors
  <2>3. wds[watcher[p].wd][2] = stamp[p]
    BY <1>1, <1>2 DEF KernelIsRight, IsDirectory
  <2> QED BY <1>2, <2>2, <2>3 DEF Dir
<1>5. ASSUME NEW w \in Watching(p)  PROVE w = watcher[p].wd
  <2>1. w \in watched /\ wds[w] = <<p, stamp[p]>>
    BY DEF Watching
  <2>2. Dir(w) = p
    BY <2>1 DEF Dir
  <2> QED BY <1>3, <2>1, <2>2 DEF KernelIsRight
<1> QED BY <1>3, <1>4, <1>5 DEF Watching

\* A file is watched by its name in the directory that it is in.
LEMMA FileIsWatched ==
  ASSUME WatcherInv, KernelIsRight, KindsAreRight, NEW p \in Paths \ {Root},
         watcher[p] # None, ~IsUp(p), ~IsDirectory(p), IsDirectory(Parent[p])
  PROVE  /\ watcher[p].name = p /\ p # None
         /\ watchByName[Parent[p]] = watcher[p].wd /\ Watching(Parent[p]) = {watcher[p].wd}
<1>1. IsUp(Parent[p]) /\ Parent[p] \in Paths
  BY InotifyAssumption DEF KindsAreRight
<1>2. Watching(Parent[p]) = {watcher[Parent[p]].wd} /\ watchByName[Parent[p]] = watcher[Parent[p]].wd
  BY <1>1, DirectoryIsWatched
<1>3. watcher[p].wd \in DOMAIN wds /\ Named(watcher[p], p, wds)
  BY DEF WatcherInv, WatchesAreRight, Known
<1>4. watcher[p].name = p
  <2>1. CASE p \in Lasting /\ watcher[p].name = None
    <3>1. Dir(watcher[p].wd) = p
      BY <1>3, <2>1, InotifyAssumption DEF Named, Dir
    <3> QED BY <1>3, <2>1, <3>1 DEF KernelIsRight, IsDirectory
  <2>2. CASE p \in Lasting /\ watcher[p].name # None
    BY <1>3, <2>2 DEF Named
  <2>3. CASE p \notin Lasting
    BY <2>3 DEF KindsAreRight
  <2> QED BY <2>1, <2>2, <2>3
<1>5. p # None
  BY InotifyAssumption
<1>6. Dir(watcher[p].wd) = Parent[p]
  BY <1>3, <1>4, <1>5 DEF Named, Dir
<1>7. watchByName[Parent[p]] = watcher[p].wd
  BY <1>6 DEF KernelIsRight
<1> QED BY <1>2, <1>4, <1>5, <1>7

-----------------------------------------------------------------------------
(***************************************************************************)
(* At rest nothing is ahead, so that nothing is wrong.                     *)
(***************************************************************************)

\* Nothing runs at rest, nothing waits to run, and no event is on its way.
LEMMA AtRestIsQuiet ==
  ASSUME WatcherInv, AtRest
  PROVE  /\ Ahead = {} /\ OnStack = {} /\ \A p : ~InHand(p) /\ ~IsNew(p) /\ ~AtBottom(p)
         /\ \A p \in Paths : watcher[p] # None => watcher[p].promise # "queued"
         /\ \A p \in Paths \ {Root} : Parent[p] \in Paths
<1>1. batch = <<>> /\ unread = <<>> /\ stack = <<>> /\ callbacks = <<>>
  BY DEF AtRest
<1>2. Ahead = {} /\ OnStack = {} /\ InQueue(callbacks) = {}
  BY <1>1 DEF Ahead, OnStack, InQueue
<1>3. \A p \in Paths : ~IsQueued(watcher, p)
  BY <1>2, WatcherParts DEF WatcherInv
<1> QED BY <1>1, <1>2, <1>3, InotifyAssumption DEF InHand, IsNew, AtBottom, InCallback, Doing, IsQueued

\* At rest there is nothing on the way, so that everything is as it was heard of.
LEMMA DirectoriesAreUp ==
  ASSUME WatcherInv, TreeIsRight, KindsAreRight, ListsAreRight, AtRest,
         NEW p \in Paths, IsDirectory(p)
  PROVE  IsUp(p)
<1> DEFINE S == {q \in Paths : IsDirectory(q) /\ ~IsUp(q)}
<1>1. SUFFICES ASSUME p \in S  PROVE FALSE
  OBVIOUS
<1>2. S \in SUBSET Paths /\ S # {}
  BY <1>1
<1>3. PICK q \in S : q = Root \/ Parent[q] \notin S
  BY <1>2, InotifyAssumption
<1>4. q # Root
  BY <1>3 DEF KindsAreRight
<1>5. IsDirectory(Parent[q]) /\ Parent[q] \in Paths
  BY <1>3, <1>4, InotifyAssumption DEF TreeIsRight, IsDirectory
<1>6. ListIsRight(q)
  BY <1>3, <1>4, <1>5 DEF ListsAreRight
<1>7. ~ToList(q) /\ Listing(q) = {}
  BY <1>3, <1>4, <1>5, AtRestIsQuiet DEF ToList, Listing, IsUp
<1>8. Right(q)
  BY <1>3, <1>6, <1>7 DEF ListIsRight, IsDirectory
<1> QED BY <1>3, <1>8 DEF Right, IsUp

\* With all right and nothing on its way, the driver's sources are the files.
LEMMA SourceInvIsEnough ==
  ASSUME WatcherInv, SourceInv
  PROVE  SourcesAreFiles
<1> SUFFICES ASSUME AtRest  PROVE EverythingIsKnown /\ EverythingIsWatched
  BY DEF SourcesAreFiles
<1>1. /\ TreeIsRight /\ KernelIsRight /\ KindsAreRight /\ PromisesAreRight
      /\ ListsAreRight /\ SourcesAreRight
  BY DEF SourceInv, SourceParts, AtRest
<1>2. \A p \in Paths : IsDirectory(p) => IsUp(p)
  BY <1>1, DirectoriesAreUp
<1>3. ASSUME NEW p \in Paths \ {Root}, IsDirectory(Parent[p])
      PROVE  IF type[p] = "none" THEN watcher[p] = None ELSE Right(p)
  <2>1. Parent[p] \in Paths /\ ListIsRight(p)
    BY <1>1, <1>2, <1>3, InotifyAssumption DEF ListsAreRight
  <2>2. ~ToList(p) /\ Listing(p) = {}
    BY <1>2, <1>3, <2>1, AtRestIsQuiet DEF ToList, Listing, IsUp
  <2> QED BY <2>1, <2>2 DEF ListIsRight
<1>4. ASSUME NEW p \in Paths \ {Root}, IsDirectory(Parent[p])
      PROVE  source[p] = IF type[p] = "none" THEN None ELSE Content(p)
  <2>1. CASE type[p] = "none"
    BY <1>1, <1>3, <1>4, <2>1 DEF SourcesAreRight
  <2>2. CASE IsFile(p)
    <3>1. watcher[p] # None /\ ~IsUp(p) /\ ~IsDirectory(p)
      BY <1>3, <1>4, <2>2 DEF Right, IsFile, IsDirectory
    <3>2. ContentIsRight(p)
      BY <1>1, <1>4, <2>2, <3>1 DEF SourcesAreRight
    <3>3. source[p] = stamp[p]
      BY <3>1, <3>2, AtRestIsQuiet DEF ContentIsRight
    <3> QED BY <2>2, <3>3 DEF Content, IsFile
  <2>3. CASE IsDirectory(p)
    BY <1>1, <1>2, <2>3 DEF SourcesAreRight, Content, IsFile, IsDirectory
  <2>4. type[p] \in Types
    BY DEF WatcherInv, FilesAreRight
  <2> QED BY <2>1, <2>2, <2>3, <2>4 DEF Types, IsFile, IsDirectory
<1>5. ASSUME NEW p \in Paths, type[p] # "none"
      PROVE  /\ watcher[p] # None /\ watcher[p].promise = "waiting"
             /\ watcher[p].wd \in Watching(WatchedPath(p))
  <2>1. p # Root => IsDirectory(Parent[p])
    BY <1>1, <1>5 DEF TreeIsRight
  <2>2. watcher[p] # None /\ (IsUp(p) <=> IsDirectory(p))
    <3>1. CASE p = Root
      BY <1>1, <3>1 DEF WatcherInv, FilesAreRight, KindsAreRight, IsUp
    <3>2. CASE p # Root
      BY <1>3, <1>5, <2>1, <3>2 DEF Right
    <3> QED BY <3>1, <3>2
  <2>3. watcher[p].promise = "waiting"
    <3>1. watcher[p].promise \in Promises
      BY <2>2, WatcherParts, WatcherRecords DEF WatcherInv
    <3>2. ~AtBottom(p) /\ watcher[p].promise # "queued"
      BY <2>2, AtRestIsQuiet
    <3>3. ~Gone(p)
      BY <2>1, <2>2 DEF Gone, Forsaken
    <3> QED BY <1>1, <2>2, <3>1, <3>2, <3>3 DEF PromisesAreRight, Promises
  <2>4. watcher[p].wd \in Watching(WatchedPath(p))
    <3>1. CASE IsDirectory(p)
      BY <1>1, <2>2, <3>1, DirectoryIsWatched DEF WatchedPath
    <3>2. CASE ~IsDirectory(p)
      <4>1. p # Root
        BY <3>2 DEF WatcherInv, FilesAreRight
      <4> QED BY <1>1, <2>1, <2>2, <3>2, <4>1, FileIsWatched DEF WatchedPath
    <3> QED BY <3>1, <3>2
  <2> QED BY <2>2, <2>3, <2>4
<1> QED BY <1>4, <1>5 DEF EverythingIsKnown, EverythingIsWatched

-----------------------------------------------------------------------------
(***************************************************************************)
(* The stack, and what a step does to it.                                  *)
(***************************************************************************)

\* What called the function on top.
Callers == InQueue(Tail(stack))

\* The stack is the function on top and those that called it.
LEMMA CallersOfTop ==
  ASSUME StackIsRight, stack # <<>>
  PROVE  /\ OnStack = {Top} \cup Callers
         /\ \A f \in Callers : \E i \in DOMAIN stack : i # 1 /\ f = stack[i]
         /\ Len(stack) > 1 => stack[2] \in Callers
         /\ Len(stack) = 1 => Callers = {}
<1>1. /\ stack \in Seq(Frames) /\ Len(stack) \in Nat \ {0} /\ DOMAIN stack = 1 .. Len(stack)
      /\ Top = stack[1] /\ 1 \in DOMAIN stack
      /\ DOMAIN Tail(stack) = 1 .. Len(stack) - 1
      /\ \A i \in 1 .. Len(stack) - 1 : i + 1 \in DOMAIN stack /\ Tail(stack)[i] = stack[i + 1]
  BY StackTop DEF StackIsRight, Top
<1>2. ASSUME NEW i \in DOMAIN stack, i # 1  PROVE stack[i] \in Callers
  <2>1. i - 1 \in DOMAIN Tail(stack) /\ Tail(stack)[i - 1] = stack[(i - 1) + 1] /\ (i - 1) + 1 = i
    BY <1>1, <1>2
  <2> QED BY <2>1 DEF Callers, InQueue
<1>3. ASSUME NEW f \in Callers  PROVE \E i \in DOMAIN stack : i # 1 /\ f = stack[i]
  <2>1. PICK j \in DOMAIN Tail(stack) : f = Tail(stack)[j]
    BY DEF Callers, InQueue
  <2>2. j + 1 \in DOMAIN stack /\ j + 1 # 1 /\ f = stack[j + 1]
    BY <1>1, <2>1
  <2> QED BY <2>2
<1>4. OnStack = {Top} \cup Callers
  BY <1>1, <1>2, <1>3 DEF OnStack, InQueue
<1>5. Len(stack) > 1 => stack[2] \in Callers
  BY <1>1, <1>2
<1>6. Len(stack) = 1 => Callers = {}
  BY <1>1 DEF Callers, InQueue
<1> QED BY <1>3, <1>4, <1>5, <1>6

\* The callback is at the bottom, and above it is what lists directories.
LEMMA WaitingIsBelow ==
  ASSUME StackIsRight, stack # <<>>, NEW i \in DOMAIN stack, stack[i].do = "wait"
  PROVE  InCallback /\ Last(stack).at = stack[i].at /\ i = Len(stack)
<1>1. Len(stack) \in Nat \ {0} /\ DOMAIN stack = 1 .. Len(stack)
  BY StackParts
<1>2. i = Len(stack)
  <2> SUFFICES ASSUME i # Len(stack)  PROVE FALSE
    OBVIOUS
  <2> QED BY DEF StackIsRight, InOrder, Calls
<1> QED BY <1>2 DEF InCallback, Last

\* Those are callbacks and lists of directories above the path of the function on top.
LEMMA CallersAre ==
  ASSUME StackIsRight, stack # <<>>, NEW f \in Callers
  PROVE  /\ f \in Frames /\ f.at \in Paths /\ f.do \in {"wait", "children"}
         /\ ListsItsChildren(f)
         /\ Top.at \in Descendants(f.at)
         /\ f.at \in Descendants(Top.at) => f.at = Top.at
         /\ f.at = Top.at => f.do = "wait"
         /\ f.do = "wait" => InCallback /\ Last(stack).at = f.at
         /\ watcher[f.at] # None
<1>1. PICK i \in DOMAIN stack : i # 1 /\ f = stack[i]
  BY CallersOfTop
<1>2. /\ stack \in Seq(Frames) /\ Len(stack) \in Nat \ {0} /\ DOMAIN stack = 1 .. Len(stack)
      /\ Top = stack[1] /\ 1 \in DOMAIN stack /\ InOrder(stack)
  BY StackTop DEF StackIsRight, Top
<1>3. f \in Frames /\ f.at \in Paths
  BY <1>1, <1>2, FramesAreTyped
<1>4. /\ i - 1 \in DOMAIN stack /\ i - 1 # Len(stack) /\ (i - 1) + 1 = i
      /\ 1 <= i - 1 /\ 1 <= i
  BY <1>1, <1>2
<1>5. Calls(f, stack[i - 1])
  <2>1. Calls(stack[(i - 1) + 1], stack[i - 1])
    BY <1>2, <1>4 DEF InOrder
  <2> QED BY <1>1, <1>4, <2>1
<1>6. f.do \in {"wait", "children"}
  BY <1>5 DEF Calls
<1>7. ListsItsChildren(f) /\ Top.at \in Descendants(f.at)
  BY <1>1, <1>2, <1>4 DEF InOrder
<1>8. f.at \in Descendants(Top.at) => f.at = Top.at
  BY <1>1, <1>2, CallersStay
<1>9. ASSUME f.at = Top.at, f.do = "children"  PROVE FALSE
  <2>1. stack[i - 1].at \in Children(f.at)
    BY <1>5, <1>7, <1>9 DEF Calls, ListsItsChildren
  <2>2. Top.at \in Descendants(stack[i - 1].at)
    BY <1>2, <1>4 DEF InOrder
  <2> QED BY <1>3, <1>9, <2>1, <2>2, ChildrenAreBelow
<1>10. f.do = "wait" => InCallback /\ Last(stack).at = f.at
  BY <1>1, WaitingIsBelow
<1>11. watcher[f.at] # None
  BY <1>1, <1>6 DEF StackIsRight, Alive
<1> QED BY <1>3, <1>6, <1>7, <1>8, <1>9, <1>10, <1>11

\* In a callback, all that runs is under the path whose callback it is.
LEMMA BottomIs ==
  ASSUME StackIsRight, InCallback
  PROVE  /\ Last(stack).at \in Paths /\ Top.at \in Descendants(Last(stack).at)
         /\ watcher[Last(stack).at] # None /\ ~IsQueued(watcher, Last(stack).at)
         /\ Top.do # "wait" => Last(stack) \in Callers
<1>1. stack # <<>> /\ Last(stack).do = "wait"
  BY DEF InCallback
<1>2. /\ stack \in Seq(Frames) /\ Len(stack) \in Nat \ {0} /\ DOMAIN stack = 1 .. Len(stack)
      /\ Top = stack[1] /\ 1 \in DOMAIN stack /\ InOrder(stack)
  BY <1>1, StackTop DEF StackIsRight, Top
<1>3. Last(stack) = stack[Len(stack)] /\ Len(stack) \in DOMAIN stack /\ 1 <= Len(stack)
  BY <1>2 DEF Last
<1>4. Last(stack).at \in Paths /\ Top.at \in Descendants(Last(stack).at)
  BY <1>2, <1>3, FramesAreTyped DEF InOrder
<1>5. watcher[Last(stack).at] # None /\ ~IsQueued(watcher, Last(stack).at)
  BY <1>1, <1>3 DEF StackIsRight, Alive
<1>6. Top.do # "wait" => Last(stack) \in Callers
  BY <1>1, <1>2, <1>3, CallersOfTop DEF OnStack, InQueue
<1> QED BY <1>4, <1>5, <1>6

\* What the function on top is about, by what it is.
LEMMA TopIs ==
  ASSUME StackIsRight, stack # <<>>
  PROVE  /\ Top \in Frames /\ Top.at \in Paths /\ Top \in OnStack
         /\ Top.do = "wait" => Callers = {} /\ AtBottom(Top.at)
         /\ Top.do \in {"deleted", "resetWatch"} => AtBottom(Top.at)
         /\ Top.do \in {"new file", "new directory"} =>
              /\ Top.at \in Paths \ {Root} /\ Parent[Top.at] \in Paths
              /\ \E f \in Callers : /\ f.do = "children" /\ f.at = Parent[Top.at]
                                    /\ Top.at \in f.kept
         /\ Top.do \notin {"new file", "new directory"} => watcher[Top.at] # None
<1>1. /\ Len(stack) \in Nat \ {0} /\ DOMAIN stack = 1 .. Len(stack)
      /\ Top = stack[1] /\ Top \in Frames /\ Top.at \in Paths
      /\ Len(stack) > 1 => Calls(stack[2], Top)
      /\ Len(stack) = 1 => IsBottom(Top)
      /\ Top.do \notin {"new file", "new directory"} => watcher[Top.at] # None
  BY StackParts
<1>2. 1 \in DOMAIN stack /\ (Len(stack) > 1 => 2 \in DOMAIN stack) /\ (Len(stack) > 1 \/ Len(stack) = 1)
  <2>1. Len(stack) \in Nat \ {0} /\ DOMAIN stack = 1 .. Len(stack)
    BY <1>1
  <2> QED BY <2>1
<1>3. Top.do = "wait" => Callers = {} /\ AtBottom(Top.at)
  BY <1>1, <1>2, WaitingIsBelow, CallersOfTop DEF AtBottom
<1>4. ASSUME Top.do \in {"deleted", "resetWatch"}  PROVE AtBottom(Top.at)
  <2>1. stack[2].do = "wait" /\ stack[2].at = Top.at /\ 2 \in DOMAIN stack
    <3>1. Len(stack) > 1
      BY <1>1, <1>2, <1>4 DEF IsBottom
    <3> QED BY <1>1, <1>2, <1>4, <3>1 DEF Calls
  <2> QED BY <2>1, WaitingIsBelow DEF AtBottom
<1>5. ASSUME Top.do \in {"new file", "new directory"}
      PROVE  /\ Top.at \in Paths \ {Root} /\ Parent[Top.at] \in Paths
             /\ \E f \in Callers : /\ f.do = "children" /\ f.at = Parent[Top.at]
                                   /\ Top.at \in f.kept
  <2>1. stack[2] \in Callers /\ stack[2].do = "children" /\ Top.at \in stack[2].kept
    <3>1. Len(stack) > 1
      BY <1>1, <1>2, <1>5 DEF IsBottom
    <3>2. stack[2] \in Callers
      BY <3>1, CallersOfTop
    <3> QED BY <1>1, <1>5, <3>1, <3>2 DEF Calls
  <2>2. Top.at \in Children(stack[2].at) /\ stack[2].at \in Paths
    BY <2>1, CallersAre DEF ListsItsChildren
  <2> QED BY <2>1, <2>2 DEF Children
<1>6. Top \in OnStack
  BY CallersOfTop
<1> QED BY <1>1, <1>3, <1>4, <1>5, <1>6

\* What is at the bottom stays there.
SameBottom ==
  /\ InCallback' <=> InCallback
  /\ InCallback => Last(stack') = Last(stack)

\* A call puts one function on the stack.
LEMMA QueueOfCall ==
  ASSUME NEW S, NEW s \in Seq(S), NEW g \in S
  PROVE  InQueue(<<g>> \o s) = {g} \cup InQueue(s)
<1> DEFINE q == <<g>>
<1>1. q \in Seq(S) /\ DOMAIN q = {1} /\ q[1] = g
  OBVIOUS
<1>2. InQueue(q) = {g}
  BY <1>1 DEF InQueue
<1> HIDE DEF q
<1>3. InQueue(q \o s) = InQueue(q) \cup InQueue(s)
  BY <1>1, QueueOfBoth
<1> QED BY <1>2, <1>3 DEF q

\* The function on top returns to those that called it.
LEMMA Returned ==
  ASSUME StackIsRight, stack # <<>>, Return
  PROVE  /\ OnStack' = Callers
         /\ stack' # <<>> => Top' \in Callers
         /\ Top.do # "wait" => SameBottom
         /\ Top.do = "wait" => stack' = <<>>
<1> DEFINE t == Tail(stack)
<1>1. /\ stack \in Seq(Frames) /\ Len(stack) \in Nat \ {0} /\ DOMAIN stack = 1 .. Len(stack)
      /\ Top = stack[1] /\ 1 \in DOMAIN stack
      /\ t \in Seq(Frames) /\ Len(t) = Len(stack) - 1 /\ DOMAIN t = 1 .. Len(stack) - 1
      /\ \A i \in 1 .. Len(stack) - 1 : i + 1 \in DOMAIN stack /\ t[i] = stack[i + 1]
  BY StackTop DEF StackIsRight, Top
<1>2. stack' = t /\ Callers = InQueue(t)
  BY DEF Return, Callers
<1> HIDE DEF t
<1>3. OnStack' = Callers
  BY <1>2 DEF OnStack
<1>4. ASSUME stack' # <<>>  PROVE Top' \in Callers /\ Last(stack') = Last(stack)
  <2>1. t # <<>> /\ Len(t) \in DOMAIN t /\ 1 \in DOMAIN t
    BY <1>1, <1>2, <1>4
  <2>2. Head(t) = t[1] /\ t[1] \in Callers
    BY <1>1, <1>2, <2>1 DEF InQueue
  <2>3. t[Len(t)] = stack[Len(t) + 1] /\ Len(t) + 1 = Len(stack)
    BY <1>1, <2>1
  <2> QED BY <1>2, <2>2, <2>3 DEF Top, Last
<1>5. ASSUME stack' = <<>>  PROVE Last(stack) = Top
  <2>1. Len(stack) = 1
    <3>1. Len(t) = 0
      BY <1>2, <1>5
    <3>2. Len(t) = Len(stack) - 1 /\ Len(stack) \in Nat
      BY <1>1
    <3> QED BY <3>1, <3>2
  <2> QED BY <1>1, <2>1 DEF Last
<1>6. Top.do # "wait" => SameBottom
  BY <1>4, <1>5 DEF SameBottom, InCallback
<1>7. Top.do = "wait" => stack' = <<>>
  <2>1. ASSUME Top.do = "wait"  PROVE 1 = Len(stack)
    BY <1>1, <2>1, WaitingIsBelow
  <2> QED BY <1>1, <1>2, <2>1
<1> QED BY <1>3, <1>4, <1>6, <1>7

\* The function on top goes on as g.
LEMMA WentOn ==
  ASSUME StackIsRight, stack # <<>>, NEW g \in Frames, stack' = <<g>> \o Tail(stack),
         Top.do # "wait", g.do # "wait"
  PROVE  OnStack' = {g} \cup Callers /\ stack' # <<>> /\ Top' = g /\ SameBottom
<1> DEFINE t == Tail(stack)
<1>1. /\ stack \in Seq(Frames) /\ Len(stack) \in Nat \ {0} /\ DOMAIN stack = 1 .. Len(stack)
      /\ Top = stack[1] /\ 1 \in DOMAIN stack
      /\ t \in Seq(Frames) /\ Len(t) = Len(stack) - 1 /\ DOMAIN t = 1 .. Len(stack) - 1
      /\ \A i \in 1 .. Len(stack) - 1 : i + 1 \in DOMAIN stack /\ t[i] = stack[i + 1]
  BY StackTop DEF StackIsRight, Top
<1>2. stack' = <<g>> \o t /\ Callers = InQueue(t)
  BY DEF Callers
<1> HIDE DEF t
<1>3. /\ stack' \in Seq(Frames) /\ Len(stack') = Len(t) + 1 /\ DOMAIN stack' = 1 .. Len(t) + 1
      /\ stack'[1] = g /\ \A i \in DOMAIN t : i + 1 \in DOMAIN stack' /\ stack'[i + 1] = t[i]
      /\ \A i \in DOMAIN stack' : i = 1 \/ (i - 1 \in DOMAIN t /\ stack'[i] = t[i - 1])
  BY <1>1, <1>2, StackWithCall
<1>4. OnStack' = {g} \cup Callers
  BY <1>1, <1>2, QueueOfCall DEF OnStack
<1>5. stack' # <<>> /\ Top' = g
  <2>1. stack' # <<>>
    BY <1>1, <1>3
  <2> QED BY <1>3, <2>1 DEF Top
<1>6. CASE Len(stack) = 1
  <2>1. Last(stack) = Top /\ Last(stack') = g
    BY <1>1, <1>3, <1>6 DEF Last
  <2> QED BY <1>4, <1>5, <2>1 DEF SameBottom, InCallback
<1>7. CASE Len(stack) # 1
  <2>1. Len(t) \in DOMAIN t /\ Len(stack') = Len(t) + 1 /\ Len(t) + 1 = Len(stack)
    BY <1>1, <1>3, <1>7
  <2>2. stack'[Len(t) + 1] = t[Len(t)] /\ t[Len(t)] = stack[Len(t) + 1]
    BY <1>1, <1>3, <2>1
  <2>3. Last(stack') = Last(stack)
    BY <2>1, <2>2 DEF Last
  <2> QED BY <1>4, <1>5, <2>3 DEF SameBottom, InCallback
<1> QED BY <1>4, <1>5, <1>6, <1>7

\* The function on top goes on as f, and calls g.
LEMMA WentOnAndCalled ==
  ASSUME StackIsRight, stack # <<>>, NEW f \in Frames, NEW g \in Frames,
         stack' = <<g>> \o (<<f>> \o Tail(stack)), Top.do # "wait", f.do # "wait"
  PROVE  OnStack' = {g, f} \cup Callers /\ stack' # <<>> /\ Top' = g /\ SameBottom
<1> DEFINE t == Tail(stack)
           s == <<f>> \o t
<1>1. /\ stack \in Seq(Frames) /\ Len(stack) \in Nat \ {0} /\ DOMAIN stack = 1 .. Len(stack)
      /\ Top = stack[1] /\ 1 \in DOMAIN stack
      /\ t \in Seq(Frames) /\ Len(t) = Len(stack) - 1 /\ DOMAIN t = 1 .. Len(stack) - 1
      /\ \A i \in 1 .. Len(stack) - 1 : i + 1 \in DOMAIN stack /\ t[i] = stack[i + 1]
  BY StackTop DEF StackIsRight, Top
<1>2. stack' = <<g>> \o s /\ Callers = InQueue(t)
  BY DEF Callers
<1> HIDE DEF t
<1>3. /\ s \in Seq(Frames) /\ Len(s) = Len(t) + 1 /\ DOMAIN s = 1 .. Len(t) + 1
      /\ s[1] = f /\ \A i \in DOMAIN t : i + 1 \in DOMAIN s /\ s[i + 1] = t[i]
      /\ \A i \in DOMAIN s : i = 1 \/ (i - 1 \in DOMAIN t /\ s[i] = t[i - 1])
  BY <1>1, StackWithCall
<1> HIDE DEF s
<1>4. /\ stack' \in Seq(Frames) /\ Len(stack') = Len(s) + 1 /\ DOMAIN stack' = 1 .. Len(s) + 1
      /\ stack'[1] = g /\ \A i \in DOMAIN s : i + 1 \in DOMAIN stack' /\ stack'[i + 1] = s[i]
      /\ \A i \in DOMAIN stack' : i = 1 \/ (i - 1 \in DOMAIN s /\ stack'[i] = s[i - 1])
  <2> DEFINE u == <<g>> \o s
  <2>1. s \in Seq(Frames)
    BY <1>3
  <2>2. /\ u \in Seq(Frames) /\ Len(u) = Len(s) + 1 /\ DOMAIN u = 1 .. Len(s) + 1
        /\ u[1] = g /\ \A i \in DOMAIN s : i + 1 \in DOMAIN u /\ u[i + 1] = s[i]
        /\ \A i \in DOMAIN u : i = 1 \/ (i - 1 \in DOMAIN s /\ u[i] = s[i - 1])
    BY <2>1, StackWithCall
  <2>3. stack' = u
    BY <1>2
  <2> HIDE DEF u
  <2> QED BY <2>2, <2>3
<1>5. OnStack' = {g, f} \cup Callers
  <2>1. InQueue(s) = {f} \cup Callers
    BY <1>1, <1>2, QueueOfCall DEF s
  <2>2. InQueue(stack') = {g} \cup InQueue(s)
    BY <1>2, <1>3, QueueOfCall
  <2>3. OnStack' = InQueue(stack')
    BY DEF OnStack
  <2> QED BY <2>1, <2>2, <2>3
<1>6. stack' # <<>> /\ Top' = g
  <2>1. stack' # <<>>
    BY <1>1, <1>3, <1>4
  <2> QED BY <1>4, <2>1 DEF Top
<1>7. Last(stack') = s[Len(s)] /\ Len(s) \in DOMAIN s
  <2>1. Len(s) \in DOMAIN s
    BY <1>1, <1>3
  <2> QED BY <1>4, <2>1 DEF Last
<1>8. CASE Len(stack) = 1
  <2>1. Last(stack) = Top /\ Last(stack') = f
    <3>1. Len(s) = 1
      BY <1>1, <1>3, <1>8
    <3> QED BY <1>1, <1>3, <1>7, <1>8, <3>1 DEF Last
  <2> QED BY <1>5, <1>6, <2>1 DEF SameBottom, InCallback
<1>9. CASE Len(stack) # 1
  <2>1. Len(t) \in DOMAIN t /\ Len(s) = Len(t) + 1 /\ Len(t) + 1 = Len(stack)
    BY <1>1, <1>3, <1>9
  <2>2. s[Len(t) + 1] = t[Len(t)] /\ t[Len(t)] = stack[Len(t) + 1]
    BY <1>1, <1>3, <2>1
  <2>3. Last(stack') = Last(stack)
    BY <1>7, <2>1, <2>2 DEF Last
  <2> QED BY <1>5, <1>6, <2>3 DEF SameBottom, InCallback
<1> QED BY <1>5, <1>6, <1>8, <1>9

-----------------------------------------------------------------------------
(***************************************************************************)
(* What a step leaves as it is.                                            *)
(***************************************************************************)

\* A step in which the watchers in G go, and others stay but for their promises.
SameWatch(q) ==
  /\ watcher'[q] = None <=> watcher[q] = None
  /\ watcher[q] # None => /\ watcher'[q].isDirectory = watcher[q].isDirectory
                          /\ watcher'[q].wd = watcher[q].wd
                          /\ watcher'[q].name = watcher[q].name
Loses(G) == \A q \in Paths : IF q \in G THEN watcher'[q] = None ELSE SameWatch(q)

\* A watcher that stays is of the kind that it was.
LEMMA UpInBoth ==
  ASSUME NEW q, SameWatch(q)
  PROVE  IsUp(q)' <=> IsUp(q)
BY DEF SameWatch, IsUp

\* Of DirectoryWatchers, those stay that do not go.
LEMMA LosesUp ==
  ASSUME NEW G, Loses(G), NEW q \in Paths
  PROVE  IsUp(q)' <=> IsUp(q) /\ q \notin G
BY UpInBoth DEF Loses, IsUp

\* Watches go that no watcher uses.
LEMMA KernelWithFewer ==
  ASSUME WatcherInv, KernelIsRight, UNCHANGED <<type, stamp, wds>>, NEW U,
         watched' = watched \ U,
         watchByName' = [p \in Paths |-> IF watchByName[p] \in U THEN None ELSE watchByName[p]],
         \A p \in Paths : watcher'[p] # None =>
           /\ watcher[p] # None /\ watcher'[p].wd = watcher[p].wd
           /\ watcher[p].wd \notin U,
         Ahead' \subseteq Ahead
  PROVE  KernelIsRight'
<1>1. /\ \A p : IsDirectory(p)' <=> IsDirectory(p)
      /\ \A w : Dir(w)' = Dir(w)
      /\ \A w \in DOMAIN wds : Dir(w) \in Paths
      /\ watched \in SUBSET DOMAIN wds /\ None \notin DOMAIN wds
      /\ \A p \in Paths : watcher[p] # None => watcher[p].wd \in DOMAIN wds
  <2>1. wds \in Seq(Descriptors) /\ watched \in SUBSET DOMAIN wds
        /\ \A p \in Paths : watcher[p] # None => watcher[p].wd \in DOMAIN wds
    BY DEF WatcherInv, WatchesAreRight, Known
  <2>2. Len(wds) \in Nat /\ DOMAIN wds = 1 .. Len(wds)
    BY WatcherParts DEF WatcherInv
  <2>3. \A w \in DOMAIN wds : wds[w] \in Descriptors
    BY <2>1
  <2>4. \A w \in DOMAIN wds : Dir(w) \in Paths
    BY <2>3 DEF Dir, Descriptors
  <2>5. None \notin DOMAIN wds
    BY <2>2, InotifyAssumption
  <2> QED BY <2>1, <2>4, <2>5 DEF IsDirectory, Dir
<1>2. ASSUME NEW w \in watched', IsDirectory(Dir(w))  PROVE watchByName'[Dir(w)] = w
  BY <1>1, <1>2 DEF KernelIsRight
<1>3. ASSUME NEW p \in Paths, watcher'[p] # None, IsDirectory(Dir(watcher[p].wd))
      PROVE  watchByName'[Dir(watcher[p].wd)] = watcher[p].wd
  <2>1. watcher[p] # None /\ watcher[p].wd \notin U /\ Dir(watcher[p].wd) \in Paths
    BY <1>1, <1>3
  <2>2. watchByName[Dir(watcher[p].wd)] = watcher[p].wd
    BY <1>3, <2>1 DEF KernelIsRight
  <2> QED BY <2>1, <2>2
<1>4. ASSUME NEW p \in Paths, IsDirectory(p), watchByName'[p] # None
      PROVE  watchByName'[p] \in watched'
  BY <1>4 DEF KernelIsRight
<1>5. /\ \A w \in DOMAIN wds : IsDirectory(Dir(w)) => wds[w][2] = stamp[Dir(w)]
      /\ \A w \in DOMAIN wds : Dir(w) \in Lasting => IsDirectory(Dir(w))
      /\ \A e \in Ahead' : e.what \in {"delete self", "move self"} =>
           e.wd \in DOMAIN wds /\ ~IsDirectory(Dir(e.wd))
  BY DEF KernelIsRight
<1>6. \A w \in DOMAIN wds' : type'[wds'[w][1]] = "directory" => wds'[w][2] = stamp'[wds'[w][1]]
  BY <1>5 DEF IsDirectory, Dir
<1>7. \A w \in DOMAIN wds' : wds'[w][1] \in Lasting => type'[wds'[w][1]] = "directory"
  BY <1>5 DEF IsDirectory, Dir
<1>8. \A e \in Ahead' : e.what \in {"delete self", "move self"} =>
        e.wd \in DOMAIN wds' /\ type'[wds'[e.wd][1]] # "directory"
  BY <1>5 DEF IsDirectory, Dir
<1>9. \A w \in watched' : type'[wds'[w][1]] = "directory" => watchByName'[wds'[w][1]] = w
  BY <1>2 DEF IsDirectory, Dir
<1>10. \A p \in Paths : watcher'[p] # None /\ type'[wds'[watcher'[p].wd][1]] = "directory" =>
         watchByName'[wds'[watcher'[p].wd][1]] = watcher'[p].wd
  <2> SUFFICES ASSUME NEW p \in Paths, watcher'[p] # None,
                      type[wds[watcher'[p].wd][1]] = "directory"
               PROVE  watchByName'[wds[watcher'[p].wd][1]] = watcher'[p].wd
    OBVIOUS
  <2>1. watcher'[p].wd = watcher[p].wd
    OBVIOUS
  <2> QED BY <1>3, <2>1 DEF IsDirectory, Dir
<1>11. \A p \in Paths : type'[p] = "directory" /\ watchByName'[p] # None => watchByName'[p] \in watched'
  BY <1>4 DEF IsDirectory
<1> QED BY <1>6, <1>7, <1>8, <1>9, <1>10, <1>11 DEF KernelIsRight, IsDirectory, Dir

\* So they do when Keep() has fewer watchers, with their descriptors.
LEMMA KernelWithKeep ==
  ASSUME WatcherInv, KernelIsRight, UNCHANGED <<type, stamp, wds, unread, batch>>, NEW w, NEW may,
         Keep(w, watchByName, watched, may),
         \A p \in Paths : w[p] # None => watcher[p] # None /\ w[p].wd = watcher[p].wd
  PROVE  KernelIsRight'
<1> DEFINE used == {w[p].wd : p \in {q \in Paths : w[q] # None}}
           U == {watchByName[p] : p \in Paths} \ ({None} \cup used)
<1>1. /\ watched' = watched \ U /\ watcher' = w
      /\ watchByName' = [p \in Paths |-> IF watchByName[p] \in U THEN None ELSE watchByName[p]]
  BY DEF Keep
<1>2. \A p \in Paths : watcher'[p] # None =>
        watcher[p] # None /\ watcher'[p].wd = watcher[p].wd /\ watcher[p].wd \notin U
  BY <1>1
<1> HIDE DEF U
<1>3. Ahead' \subseteq Ahead
  BY DEF Ahead
<1> QED BY <1>1, <1>2, <1>3, KernelWithFewer

\* And when no watcher changes but for its promise.
LEMMA KernelStays ==
  ASSUME WatcherInv, KernelIsRight, UNCHANGED <<type, stamp, inotify, unread, batch>>,
         \A p \in Paths : SameWatch(p)
  PROVE  KernelIsRight'
<1> DEFINE U == {}
<1>1. /\ watched' = watched \ U /\ wds' = wds
      /\ watchByName' = [p \in Paths |-> IF watchByName[p] \in U THEN None ELSE watchByName[p]]
  BY DEF inotify, WatcherInv, WatchesAreRight
<1>2. \A p \in Paths : watcher'[p] # None =>
        watcher[p] # None /\ watcher'[p].wd = watcher[p].wd /\ watcher[p].wd \notin U
  BY DEF SameWatch
<1> HIDE DEF U
<1>3. Ahead' \subseteq Ahead
  BY DEF Ahead
<1> QED BY <1>1, <1>2, <1>3, KernelWithFewer

\* What is under a directory that is gone, and has a watcher still.
LEMMA ForsakenBelow ==
  ASSUME TreeIsRight, KindsAreRight, NEW p \in Paths, ~IsDirectory(p),
         NEW q \in Descendants(p), q # p, watcher[q] # None
  PROVE  Forsaken(q) /\ IsUp(p)
<1>1. q \in Paths /\ Parent[q] \in Descendants(p) /\ q # Root
  BY ParentsOfDescendants, DescendantsOfDescendants
<1>2. ~IsDirectory(Parent[q]) /\ Parent[q] \in Paths
  BY <1>1, UnderNoDirectory, DescendantsOfDescendants
<1>3. IsUp(Parent[q])
  BY <1>1 DEF KindsAreRight
<1>4. IsUp(p)
  BY UnderNoWatcher
<1> QED BY <1>1, <1>2, <1>3, <1>4 DEF Forsaken, KindsAreRight

\* A step that makes no watcher, and with each that goes loses what is under it.
LEMMA KindsWithFewer ==
  ASSUME KindsAreRight, UNCHANGED type, NEW G, Loses(G), Root \notin G,
         \A q \in Paths \ {Root} : Parent[q] \in G => q \in G
  PROVE  KindsAreRight'
<1>1. \A q \in Paths : IsUp(q)' <=> IsUp(q) /\ q \notin G
  BY LosesUp
<1>2. \A q : IsDirectory(q)' <=> IsDirectory(q)
  BY DEF IsDirectory
<1>3. \A q \in Paths : watcher'[q] # None =>
        q \notin G /\ watcher[q] # None /\ watcher'[q].name = watcher[q].name
  BY DEF Loses, SameWatch
<1>4. IsUp(Root)'
  BY <1>1, InotifyAssumption DEF KindsAreRight
<1>5. ASSUME NEW p \in Paths \ {Root}, watcher'[p] # None  PROVE IsUp(Parent[p])'
  <2>1. Parent[p] \in Paths /\ Parent[p] \notin G
    BY <1>3, <1>5, InotifyAssumption
  <2> QED BY <1>1, <1>3, <1>5, <2>1 DEF KindsAreRight
<1>6. ASSUME NEW p \in Paths, IsUp(p)', p \in Lasting  PROVE IsDirectory(p)'
  BY <1>1, <1>2, <1>6 DEF KindsAreRight
<1>7. ASSUME NEW p \in Paths, IsUp(p)', IsDirectory(p)'  PROVE watcher'[p].name = None
  <2>1. watcher'[p] # None
    BY <1>7 DEF IsUp
  <2> QED BY <1>1, <1>2, <1>3, <1>7, <2>1 DEF KindsAreRight
<1>8. ASSUME NEW p \in Paths \ Lasting, watcher'[p] # None, ~IsUp(p)'
      PROVE  ~IsDirectory(p)' /\ watcher'[p].name = p
  BY <1>1, <1>2, <1>3, <1>8 DEF KindsAreRight
<1> QED BY <1>4, <1>5, <1>6, <1>7, <1>8 DEF KindsAreRight

\* The functions that called the one on top, and those in N, are right.
LEMMA FramesWith ==
  ASSUME StackIsRight, stack # <<>>, FramesAreRight, UNCHANGED <<type, stamp>>, NEW N,
         OnStack' \subseteq Callers \cup N, SameBottom,
         \A f \in Callers : f.do = "children" => SameWatch(f.at),
         \A f \in N : FrameIsRight(f)',
         InCallback => \A f \in N :
           f.at # Last(stack).at /\ f.do # "new file" /\ (f.do = "modified" => IsUp(f.at)') =>
             f.at \in Lasting
  PROVE  FramesAreRight'
<1>1. \A f \in Callers : f \in OnStack /\ f.do \in {"wait", "children"}
  BY CallersOfTop, CallersAre
<1>2. ASSUME NEW f \in Callers  PROVE FrameIsRight(f)'
  <2>1. FrameIsRight(f)
    BY <1>1 DEF FramesAreRight
  <2>2. CASE f.do = "wait"
    BY <2>2 DEF FrameIsRight
  <2>3. CASE f.do = "children"
    <3>1. IsUp(f.at)' <=> IsUp(f.at)
      BY <2>3, UpInBoth
    <3>2. \A q : Old(q)' <=> Old(q)
      BY DEF Old, IsDirectory
    <3> QED BY <2>1, <2>3, <3>1, <3>2 DEF FrameIsRight
  <2> QED BY <1>1, <2>2, <2>3
<1>3. \A f \in OnStack' : FrameIsRight(f)'
  BY <1>2
<1>4. ASSUME InCallback', NEW f \in OnStack', f.at # Last(stack').at, f.do # "new file",
             f.do = "modified" => IsUp(f.at)'
      PROVE  f.at \in Lasting
  <2>1. InCallback /\ Last(stack') = Last(stack)
    BY <1>4 DEF SameBottom
  <2>2. CASE f \in N
    BY <1>4, <2>1, <2>2
  <2>3. CASE f \in Callers
    <3>1. f \in OnStack /\ f.do # "modified"
      BY <1>1, <2>3
    <3> QED BY <1>4, <2>1, <3>1 DEF FramesAreRight
  <2> QED BY <2>2, <2>3
<1> QED BY <1>3, <1>4 DEF FramesAreRight

\* A DirectoryWatcher of a directory that was there from the start stays, or the initial
\* scan comes to it.
LEMMA OldStayUp ==
  ASSUME UNCHANGED <<type, stamp>>, OldAreUp,
         \A q \in Paths \ {Root} : Old(q) /\ IsUp(Parent[q])' =>
           /\ IsUp(Parent[q]) \/ Scanned(q)' \/ IsUp(q)'
           /\ IsUp(q) => IsUp(q)'
           /\ Scanned(q) => Scanned(q)' \/ IsUp(q)'
  PROVE  OldAreUp'
<1>1. \A q : Old(q)' <=> Old(q)
  BY DEF Old, IsDirectory
<1> QED BY <1>1 DEF OldAreUp

\* What is to be listed again will be, and what is listed stays right.
LEMMA ListStays ==
  ASSUME UNCHANGED type, NEW p \in Paths \ {Root}, ListIsRight(p),
         watcher[Parent[p]] # None, SameWatch(Parent[p]), SameWatch(p),
         watcher[Parent[p]].promise = "queued" => ToList(p)',
         InHand(Parent[p]) => ToList(p)',
         Ahead \subseteq Ahead',
         Listing(p)' = Listing(p),
         Doing("new file", p)' <=> Doing("new file", p),
         Doing("new directory", p)' <=> Doing("new directory", p)
  PROVE  ListIsRight(p)'
<1>1. CASE ToList(p)
  <2>1. ASSUME NEW e \in Ahead, e.wd = watcher[Parent[p]].wd, e.name = p, e.what \in {"create", "delete"}
        PROVE  ToList(p)'
    <3>1. e \in Ahead' /\ e.wd = watcher'[Parent[p]].wd
      BY <2>1 DEF SameWatch
    <3> QED BY <2>1, <3>1 DEF ToList
  <2>2. ToList(p)'
    <3>1. \/ watcher[Parent[p]].promise = "queued"
          \/ InHand(Parent[p])
          \/ \E e \in Ahead : e.wd = watcher[Parent[p]].wd /\ e.name = p /\ e.what \in {"create", "delete"}
      BY <1>1 DEF ToList
    <3> QED BY <2>1, <3>1
  <2> QED BY <2>2 DEF ListIsRight
<1>2. CASE ~ToList(p)
  <2>1. IsDirectory(p)' <=> IsDirectory(p)
    BY DEF IsDirectory
  <2>2. Right(p)' <=> Right(p)
    BY <2>1, UpInBoth DEF Right, SameWatch
  <2>3. IsNew(p)' <=> IsNew(p)
    BY DEF IsNew
  <2>4. MadeRight(p)' <=> MadeRight(p)
    BY <2>1 DEF MadeRight
  <2>5. ASSUME NEW f  PROVE Lists(f, p)' <=> Lists(f, p)
    BY <2>2, <2>3, <2>4 DEF Lists
  <2>6. CASE Listing(p) # {} /\ \A f \in Listing(p) : Lists(f, p)
    <3>1. Listing(p)' # {} /\ \A f \in Listing(p)' : Lists(f, p)'
      BY <2>5, <2>6
    <3> QED BY <3>1 DEF ListIsRight
  <2>7. CASE Listing(p) = {} /\ IF type[p] = "none" THEN watcher[p] = None ELSE Right(p)
    <3>1. Listing(p)' = {} /\ IF type'[p] = "none" THEN watcher'[p] = None ELSE Right(p)'
      BY <2>2, <2>7 DEF SameWatch
    <3> QED BY <3>1 DEF ListIsRight
  <2> QED BY <1>2, <2>6, <2>7 DEF ListIsRight
<1> QED BY <1>1, <1>2

\* The function on top, which does not list p's directory, becomes others that do not.
LEMMA ListersStay ==
  ASSUME StackIsRight, stack # <<>>, NEW p, NEW N, OnStack' = Callers \cup N,
         Top.do # "children" \/ Top.at # Parent[p],
         \A f \in N : f.do # "children" \/ f.at # Parent[p]
  PROVE  Listing(p)' = Listing(p)
<1>1. OnStack = {Top} \cup Callers
  BY CallersOfTop
<1> QED BY <1>1 DEF Listing

\* What the driver knows of a file stays right, or it will be told.
LEMMA ContentStays ==
  ASSUME NEW q \in Paths, ContentIsRight(q), watcher[q] # None, SameWatch(q),
         source'[q] = source[q], stamp'[q] = stamp[q], Ahead \subseteq Ahead',
         watcher[q].promise = "queued" => ContentIsRight(q)',
         InHand(q) => ContentIsRight(q)'
  PROVE  ContentIsRight(q)'
<1>1. CASE source[q] = stamp[q]
  BY <1>1 DEF ContentIsRight
<1>2. CASE \E e \in Ahead : e.wd = watcher[q].wd /\ e.name = q
  BY <1>2 DEF ContentIsRight, SameWatch
<1> QED BY <1>1, <1>2 DEF ContentIsRight

\* The driver forgets F, all that go among them, but for those that are forsaken.
LEMMA SourcesWith ==
  ASSUME KindsAreRight, UNCHANGED <<type, stamp>>, SourcesAreRight, NEW F,
         \A q \in Paths : source'[q] = IF q \in F THEN None ELSE source[q],
         \A q \in Paths : watcher'[q] # None => SameWatch(q),
         \A q \in Paths : q \in F /\ watcher'[q] # None => type[q] = "none" \/ (IsUp(q) <=> ~IsDirectory(q)),
         \A q \in Paths \ {Root} : watcher[q] # None /\ watcher'[q] = None => q \in F \/ Forsaken(q),
         \A q \in Paths \ {Root} :
           /\ IsDirectory(Parent[q]) /\ IsFile(q) /\ watcher'[q] # None /\ watcher[q] # None
           /\ ~IsUp(q) /\ q \notin F
           /\ ContentIsRight(q)
           => ContentIsRight(q)'
  PROVE  SourcesAreRight'
<1>1. \A q : (IsDirectory(q)' <=> IsDirectory(q)) /\ (IsFile(q)' <=> IsFile(q))
  BY DEF IsDirectory, IsFile
<1>2. ASSUME NEW q \in Paths, watcher'[q] # None
      PROVE  watcher[q] # None /\ (IsUp(q)' <=> IsUp(q))
  BY <1>2, UpInBoth DEF SameWatch
<1>3. ASSUME NEW p \in Paths \ {Root}, IsDirectory(Parent[p]), IsFile(p), watcher'[p] # None, ~IsUp(p)'
      PROVE  ContentIsRight(p)'
  <2>1. watcher[p] # None /\ ~IsUp(p)
    BY <1>2, <1>3
  <2>2. ContentIsRight(p)
    BY <1>3, <2>1 DEF SourcesAreRight
  <2>3. p \notin F
    BY <1>3, <2>1 DEF IsFile, IsDirectory
  <2> QED BY <1>3, <2>1, <2>2, <2>3
<1>4. ASSUME NEW p \in Paths \ {Root}, IsDirectory(p), IsUp(p)'  PROVE source'[p] = 0
  <2>1. IsUp(p) /\ watcher'[p] # None
    BY <1>2, <1>4 DEF IsUp
  <2>2. p \notin F
    BY <1>4, <2>1 DEF IsDirectory
  <2> QED BY <1>4, <2>1, <2>2 DEF SourcesAreRight
<1>5. ASSUME NEW p \in Paths \ {Root}, source'[p] # None,
             IsDirectory(Parent[p]) \/ Parent[p] \in Lasting
      PROVE  watcher'[p] # None
  <2>1. source[p] # None /\ p \notin F
    BY <1>5
  <2>2. watcher[p] # None
    BY <1>5, <2>1 DEF SourcesAreRight
  <2> QED BY <1>5, <2>1, <2>2 DEF Forsaken
<1> QED BY <1>1, <1>3, <1>4, <1>5 DEF SourcesAreRight

\* In a step of Ekam files stay as they are.
LEMMA TreeStays ==
  ASSUME TreeIsRight, UNCHANGED <<type, stamp>>
  PROVE  TreeIsRight'
BY DEF TreeIsRight, IsDirectory

\* No promise is released or fails, but of what is gone or runs.
LEMMA PromisesStay ==
  ASSUME PromisesAreRight, UNCHANGED type,
         \A q \in Paths : watcher'[q] # None => SameWatch(q),
         \A q : AtBottom(q) => AtBottom(q)',
         \A q \in Paths : watcher'[q] # None =>
           \/ watcher'[q].promise \in {watcher[q].promise, "waiting", "queued"}
           \/ watcher'[q].promise = "running" /\ AtBottom(q)'
           \/ watcher'[q].promise = "none" /\ (AtBottom(q)' \/ Gone(q)')
           \/ watcher'[q].promise = "failed" /\ Gone(q)'
  PROVE  PromisesAreRight'
<1>1. ASSUME NEW q \in Paths, watcher'[q] # None, Gone(q)  PROVE Gone(q)'
  BY <1>1, UpInBoth DEF Gone, Forsaken, IsDirectory
<1> SUFFICES ASSUME NEW q \in Paths, watcher'[q] # None
             PROVE  /\ watcher'[q].promise = "running" => AtBottom(q)'
                    /\ watcher'[q].promise = "none" => AtBottom(q)' \/ Gone(q)'
                    /\ watcher'[q].promise = "failed" => Gone(q)'
  BY DEF PromisesAreRight
<1>2. watcher[q] # None
  BY DEF SameWatch
<1> QED BY <1>1, <1>2 DEF PromisesAreRight

\* A callback goes on when the functions that it called change.
LEMMA BottomStays ==
  ASSUME SameBottom
  PROVE  \A q : AtBottom(q) => AtBottom(q)'
BY DEF SameBottom, AtBottom

\* What a function returns to makes no watcher, and is about no change.
LEMMA ReturnedQuietly ==
  ASSUME StackIsRight, stack # <<>>, Return, NEW q
  PROVE  /\ ~Doing("new file", q)' /\ ~Doing("new directory", q)' /\ ~InHand(q)'
         /\ ~Doing("modified", q)'
<1>1. stack' # <<>> => Top'.do \in {"wait", "children"}
  BY Returned, CallersAre
<1> QED BY <1>1 DEF InHand, Doing

\* A list that is on the stack in the initial scan is part of it.
LEMMA ListedBelow ==
  ASSUME NEW f \in OnStack', NEW q, f.do = "children", f.at = Parent[q], q \in f.left,
         SameBottom, ~InCallback
  PROVE  Scanned(q)'
<1>1. stack' # <<>>
  BY DEF OnStack, InQueue
<1> QED BY <1>1 DEF Scanned, SameBottom

\* A function other than those that make watchers and list directories is on top.
LEMMA ScannedBelow ==
  ASSUME StackIsRight, NEW q, Scanned(q), SameBottom, Callers \subseteq OnStack',
         Top.do # "new directory", Top.do = "children" => q \notin Top.left,
         ~Doing("modified", Parent[q])
  PROVE  Scanned(q)'
<1>1. stack # <<>> /\ ~InCallback
  BY DEF Scanned
<1>2. PICK f \in OnStack : f.do = "children" /\ f.at = Parent[q] /\ q \in f.left
  BY DEF Scanned, Doing
<1>3. f \in Callers
  BY <1>1, <1>2, CallersOfTop
<1> QED BY <1>1, <1>2, <1>3, ListedBelow

\* When only promises change, all watchers stay what they are.
LEMMA AllStayUp ==
  ASSUME \A q \in Paths : SameWatch(q)
  PROVE  /\ Loses({}) /\ \A q \in Paths : watcher'[q] # None => SameWatch(q)
         /\ \A q \in Paths : IsUp(q)' <=> IsUp(q)
BY UpInBoth DEF Loses

\* And where they should be.
LEMMA KindsStay ==
  ASSUME KindsAreRight, UNCHANGED type, \A q \in Paths : SameWatch(q)
  PROVE  KindsAreRight'
<1> DEFINE G == {}
<1>1. Loses(G) /\ Root \notin G /\ \A q \in Paths \ {Root} : Parent[q] \in G => q \in G
  BY AllStayUp
<1> HIDE DEF G
<1> QED BY <1>1, KindsWithFewer

-----------------------------------------------------------------------------
(***************************************************************************)
(* The steps of callbacks put right what they are about.                   *)
(***************************************************************************)

\* FileWatcher::modified() tells the driver the content that there is now.
LEMMA ModifiedFileKeepsSources ==
  ASSUME WatcherInv, SourceParts, NEW p \in Paths, ModifiedFile(p)
  PROVE  SourceParts'
<1>1. /\ stack # <<>> /\ Top.do = "modified" /\ Top.at = p /\ ~watcher[p].isDirectory
      /\ source' = [source EXCEPT ![p] = Content(p)] /\ Return
      /\ UNCHANGED <<wds, watched, watchByName, watcher>>
      /\ UNCHANGED inotify
      /\ UNCHANGED <<type, stamp, unread, batch>>
  BY DEF ModifiedFile, Doing, UnchangedFiles, files, inotify
<1>2. StackIsRight /\ \A q \in Paths : SameWatch(q)
  BY <1>1 DEF WatcherInv, SameWatch
<1>3. OnStack' = Callers /\ SameBottom /\ Ahead' = Ahead
  BY <1>1, <1>2, Returned DEF Ahead
<1>4. watcher[p] # None /\ ~IsUp(p)
  BY <1>1, <1>2, TopIs DEF IsUp
<1>5. TreeIsRight' /\ KernelIsRight' /\ KindsAreRight'
  BY <1>1, <1>2, TreeStays, KernelStays, KindsStay DEF SourceParts
<1>6. PromisesAreRight'
  BY <1>1, <1>2, <1>3, BottomStays, PromisesStay DEF SourceParts
<1>7. FramesAreRight'
  <2> DEFINE N == {}
  <2>1. OnStack' \subseteq Callers \cup N /\ \A f \in N : FALSE
    BY <1>3
  <2>2. \A f \in Callers : f.do = "children" => SameWatch(f.at)
    BY <1>1, <1>2, CallersAre
  <2> HIDE DEF N
  <2> QED BY <1>1, <1>2, <1>3, <2>1, <2>2, FramesWith DEF SourceParts
<1>8. \A q \in Paths : IsUp(q)' <=> IsUp(q)
  BY <1>2, AllStayUp
<1>9. OldAreUp'
  <2>1. ASSUME NEW q \in Paths \ {Root}, IsUp(Parent[q]), Scanned(q)  PROVE Scanned(q)'
    BY <1>1, <1>2, <1>3, <1>4, <2>1, ScannedBelow DEF Doing
  <2>2. \A q \in Paths \ {Root} : Parent[q] \in Paths
    BY InotifyAssumption
  <2> QED BY <1>1, <1>8, <2>1, <2>2, OldStayUp DEF SourceParts
<1>10. ListsAreRight'
  <2> SUFFICES ASSUME NEW q \in Paths \ {Root}, IsDirectory(Parent[q])', IsUp(Parent[q])'
               PROVE  ListIsRight(q)'
    BY DEF ListsAreRight
  <2>1. IsDirectory(Parent[q]) /\ IsUp(Parent[q]) /\ Parent[q] \in Paths
    BY <1>1, <1>8, InotifyAssumption DEF IsDirectory
  <2>2. ListIsRight(q)
    BY <2>1 DEF SourceParts, ListsAreRight
  <2>3. watcher[Parent[q]] # None /\ ~InHand(Parent[q])
    BY <1>1, <1>4, <2>1 DEF InHand, Doing, IsUp
  <2>4. watcher[Parent[q]].promise = "queued" => ToList(q)'
    BY <1>1 DEF ToList
  <2>5. Listing(q)' = Listing(q)
    <3> DEFINE N == {}
    <3>1. OnStack' = Callers \cup N /\ \A f \in N : FALSE
      BY <1>3
    <3> HIDE DEF N
    <3> QED BY <1>1, <1>2, <3>1, ListersStay
  <2>6. ~Doing("new file", q) /\ ~Doing("new directory", q)
    BY <1>1 DEF Doing
  <2>7. ~Doing("new file", q)' /\ ~Doing("new directory", q)'
    BY <1>1, <1>2, ReturnedQuietly
  <2> QED BY <1>1, <1>2, <1>3, <2>1, <2>2, <2>3, <2>4, <2>5, <2>6, <2>7, ListStays
<1>11. SourcesAreRight'
  <2>1. ASSUME NEW q \in Paths \ {Root}, IsDirectory(Parent[q]), IsFile(q), watcher[q] # None, ~IsUp(q)
        PROVE  ContentIsRight(q)'
    <3>1. CASE q = p
      <4>1. source \in [Paths -> (0 .. MaxChanges + 1) \cup {None}]
        BY DEF WatcherInv, SourceIsTyped
      <4>2. source'[q] = stamp'[q]
        BY <1>1, <2>1, <3>1, <4>1 DEF Content
      <4> QED BY <4>2 DEF ContentIsRight
    <3>2. CASE q # p
      <4>1. ContentIsRight(q) /\ source'[q] = source[q]
        BY <1>1, <2>1, <3>2 DEF SourceParts, SourcesAreRight, WatcherInv, SourceIsTyped
      <4>2. ~InHand(q)
        BY <1>1, <3>2 DEF InHand, Doing
      <4>3. watcher[q].promise = "queued" => ContentIsRight(q)'
        BY <1>1 DEF ContentIsRight
      <4> QED BY <1>1, <1>2, <1>3, <2>1, <4>1, <4>2, <4>3, ContentStays
    <3> QED BY <3>1, <3>2
  <2>2. ASSUME NEW q \in Paths \ {Root}
        PROVE  /\ IsDirectory(q) /\ IsUp(q) => source'[q] = 0
               /\ source'[q] # None /\ (IsDirectory(Parent[q]) \/ Parent[q] \in Lasting) => watcher[q] # None
    <3>1. q # p => source'[q] = source[q]
      BY <1>1 DEF WatcherInv, SourceIsTyped
    <3> QED BY <1>4, <3>1 DEF SourceParts, SourcesAreRight
  <2> QED BY <1>1, <1>8, <2>1, <2>2 DEF SourcesAreRight, IsDirectory, IsFile
<1> QED BY <1>5, <1>6, <1>7, <1>9, <1>10, <1>11 DEF SourceParts

\* DirectoryWatcher::modified() begins with the list of what there is now.
LEMMA ModifiedDirectoryKeepsSources ==
  ASSUME WatcherInv, SourceParts, NEW p \in Paths, ModifiedDirectory(p)
  PROVE  SourceParts'
<1> PICK g : g = [do |-> "children", at |-> p,
                  left |-> {q \in Children(p) : type[q] # "none"}, kept |-> {}]
  OBVIOUS
<1>1. /\ stack # <<>> /\ Top.do = "modified" /\ Top.at = p /\ watcher[p].isDirectory
      /\ IsDirectory(p)
      /\ UNCHANGED <<wds, watched, watchByName, watcher, source>>
      /\ UNCHANGED inotify
      /\ UNCHANGED <<type, stamp, unread, batch>>
      /\ stack' = <<g>> \o Tail(stack)
  BY DEF ModifiedDirectory, Doing, UnchangedFiles, files, inotify
<1>2. /\ g \in Frames /\ g.do = "children" /\ g.at = p /\ g.kept = {}
      /\ \A q : q \in g.left <=> q \in Paths \ {Root} /\ Parent[q] = p /\ type[q] # "none"
  BY DEF Frames, Children
<1>3. StackIsRight /\ \A q \in Paths : SameWatch(q)
  BY <1>1 DEF WatcherInv, SameWatch
<1>4. OnStack' = {g} \cup Callers /\ SameBottom /\ Ahead' = Ahead /\ stack' # <<>> /\ Top' = g
  BY <1>1, <1>2, <1>3, WentOn DEF Ahead
<1>5. watcher[p] # None /\ IsUp(p)
  BY <1>1, <1>3, TopIs DEF IsUp
<1>6. TreeIsRight' /\ KernelIsRight' /\ KindsAreRight'
  BY <1>1, <1>3, TreeStays, KernelStays, KindsStay DEF SourceParts
<1>7. PromisesAreRight'
  BY <1>1, <1>3, <1>4, BottomStays, PromisesStay DEF SourceParts
<1>8. \A q \in Paths : IsUp(q)' <=> IsUp(q)
  BY <1>3, AllStayUp
<1>9. FramesAreRight'
  <2> DEFINE N == {g}
  <2>1. OnStack' \subseteq Callers \cup N /\ \A f \in N : f = g
    BY <1>4
  <2>2. \A f \in Callers : f.do = "children" => SameWatch(f.at)
    BY <1>1, <1>3, CallersAre
  <2>3. FrameIsRight(g)'
    <3>1. \A q \in Children(p) : Old(q)' => q \in g.left
      BY <1>1, <1>2 DEF Old, Children, IsDirectory
    <3> QED BY <1>2, <1>5, <1>8, <3>1 DEF FrameIsRight
  <2>4. InCallback /\ g.at # Last(stack).at => g.at \in Lasting
    BY <1>1, <1>2, <1>3, <1>5, TopIs DEF SourceParts, FramesAreRight
  <2> HIDE DEF N
  <2>5. \A f \in N : FrameIsRight(f)'
    BY <2>1, <2>3
  <2> QED BY <1>1, <1>3, <1>4, <2>1, <2>2, <2>4, <2>5, FramesWith DEF SourceParts
<1>10. OldAreUp'
  <2>1. ASSUME NEW q \in Paths \ {Root}, Old(q), Scanned(q)  PROVE Scanned(q)'
    <3>1. ~InCallback
      BY <2>1 DEF Scanned
    <3>2. CASE Parent[q] = p
      <4>1. q \in g.left
        BY <1>2, <2>1, <3>2 DEF Old, IsDirectory
      <4> QED BY <1>2, <1>4, <3>1, <3>2, <4>1, ListedBelow
    <3>3. CASE Parent[q] # p
      <4>1. ~Doing("modified", Parent[q]) /\ Callers \subseteq OnStack'
        BY <1>1, <1>4, <3>3 DEF Doing
      <4> QED BY <1>1, <1>3, <1>4, <2>1, <4>1, ScannedBelow
    <3> QED BY <3>2, <3>3
  <2>2. \A q \in Paths \ {Root} : Parent[q] \in Paths
    BY InotifyAssumption
  <2> QED BY <1>1, <1>8, <2>1, <2>2, OldStayUp DEF SourceParts
<1>11. ListsAreRight'
  <2> SUFFICES ASSUME NEW q \in Paths \ {Root}, IsDirectory(Parent[q])', IsUp(Parent[q])'
               PROVE  ListIsRight(q)'
    BY DEF ListsAreRight
  <2>1. IsDirectory(Parent[q]) /\ IsUp(Parent[q]) /\ Parent[q] \in Paths
    BY <1>1, <1>8, InotifyAssumption DEF IsDirectory
\* p is listed by what goes on now, and by nothing else.
  <2>2. CASE Parent[q] = p
    <3>1. \A f \in Callers : f.do # "children" \/ f.at # p
      BY <1>1, <1>3, CallersAre
    <3>2. Listing(q)' = {g}
      BY <1>2, <1>4, <2>2, <3>1 DEF Listing
    <3>3. Lists(g, q)'
      BY <1>1, <1>2, <2>2 DEF Lists
    <3> QED BY <3>2, <3>3 DEF ListIsRight
  <2>3. CASE Parent[q] # p
    <3>1. ListIsRight(q)
      BY <2>1 DEF SourceParts, ListsAreRight
    <3>2. watcher[Parent[q]] # None /\ ~InHand(Parent[q])
      BY <1>1, <2>1, <2>3 DEF InHand, Doing, IsUp
    <3>3. watcher[Parent[q]].promise = "queued" => ToList(q)'
      BY <1>1 DEF ToList
    <3>4. Listing(q)' = Listing(q)
      <4> DEFINE N == {g}
      <4>1. OnStack' = Callers \cup N /\ \A f \in N : f.at # Parent[q]
        BY <1>2, <1>4, <2>3
      <4> HIDE DEF N
      <4> QED BY <1>1, <1>3, <4>1, ListersStay
    <3>5. ~Doing("new file", q) /\ ~Doing("new directory", q)
      BY <1>1 DEF Doing
    <3>6. ~Doing("new file", q)' /\ ~Doing("new directory", q)'
      BY <1>2, <1>4 DEF Doing
    <3> QED BY <1>1, <1>3, <1>4, <2>1, <3>1, <3>2, <3>3, <3>4, <3>5, <3>6, ListStays
  <2> QED BY <2>2, <2>3
<1>12. SourcesAreRight'
  <2> DEFINE F == {}
  <2>1. \A q \in Paths : /\ source'[q] = IF q \in F THEN None ELSE source[q]
                         /\ q \notin F
                         /\ watcher'[q] # None <=> watcher[q] # None
    BY <1>1
  <2> HIDE DEF F
  <2>2. ASSUME NEW q \in Paths \ {Root}, watcher[q] # None, ~IsUp(q), ContentIsRight(q)
        PROVE  ContentIsRight(q)'
    <3>1. ~InHand(q)
      BY <1>1, <1>5, <2>2 DEF InHand, Doing
    <3>2. watcher[q].promise = "queued" => ContentIsRight(q)'
      BY <1>1 DEF ContentIsRight
    <3> QED BY <1>1, <1>3, <1>4, <2>2, <3>1, <3>2, ContentStays
  <2> QED BY <1>1, <1>3, <2>1, <2>2, SourcesWith DEF SourceParts
<1> QED BY <1>6, <1>7, <1>9, <1>10, <1>11, <1>12 DEF SourceParts

\* A child that is not retained is no directory that was watched as one.
LEMMA NotRetained ==
  ASSUME WatcherInv, TreeIsRight, PromisesAreRight, stack # <<>>, Top.do = "children",
         NEW q \in Children(Top.at), ~Retained(q)
  PROVE  ~(IsUp(q) /\ IsDirectory(q)) /\ q # Root /\ q \in Paths /\ Parent[q] = Top.at
         /\ (InCallback => q # Last(stack).at)
<1>1. StackIsRight /\ Top.at \in Paths
  BY TopIs DEF WatcherInv
<1>2. q \in Paths \ {Root} /\ Parent[q] = Top.at /\ Top.at \notin Descendants(q)
  BY <1>1, ChildrenAreBelow
<1>3. InCallback => q # Last(stack).at
  BY <1>1, <1>2, BottomIs
<1>4. ASSUME IsUp(q), IsDirectory(q)  PROVE FALSE
  <2>1. watcher[q] # None /\ watcher[q] \in Watchers /\ watcher[q].isDirectory = TRUE
    BY <1>2, <1>4, WatcherParts DEF WatcherInv, IsUp, Watchers
  <2>2. watcher[q].promise = "none"
    BY <1>4, <2>1 DEF Retained, IsDeleted
  <2>3. Gone(q)
    BY <1>2, <1>3, <2>1, <2>2 DEF PromisesAreRight, AtBottom
  <2>4. IsDirectory(Parent[q])
    BY <1>2, <1>4 DEF TreeIsRight, IsDirectory
  <2> QED BY <1>4, <2>3, <2>4 DEF Gone, Forsaken
<1> QED BY <1>2, <1>3, <1>4

\* A child goes to the new children, with the watcher it had, or one to be made as what
\* stat() has just said.
LEMMA ChildKeepsSources ==
  ASSUME WatcherInv, SourceParts, NEW p \in Paths, NEW q \in Paths, Child(p, q), ~StatThrows(q)
  PROVE  SourceParts'
<1>a. PICK f : f = [Top EXCEPT !.left = @ \ {q}, !.kept = @ \cup {q}]
  OBVIOUS
<1>b. PICK g : g = [do |-> IF IsDirectory(q) THEN "new directory" ELSE "new file", at |-> q]
  OBVIOUS
<1>c. PICK old : old = Top
  OBVIOUS
<1>1. /\ stack # <<>> /\ Top.do = "children" /\ Top.at = p /\ q \in Top.left
      /\ UNCHANGED <<wds, watched, watchByName, watcher, source>>
      /\ UNCHANGED inotify
      /\ UNCHANGED <<type, stamp, unread, batch>>
      /\ stack' = (IF Retained(q) THEN <<>> ELSE <<g>>) \o <<f>> \o Tail(stack)
  BY <1>a, <1>b DEF Child, Doing, UnchangedFiles, files, inotify
<1>2. StackIsRight /\ \A r \in Paths : SameWatch(r)
  BY <1>1 DEF WatcherInv, SameWatch
<1>3. /\ Top \in [do : {"children"}, at : Paths, left : SUBSET Paths, kept : SUBSET Paths]
      /\ Top.left \cup Top.kept \subseteq Children(p)
  <2>1. Top \in Frames /\ ListsItsChildren(Top)
    BY <1>1, <1>2, StackParts
  <2> QED BY <1>1, <2>1 DEF Frames, Functions, ListsItsChildren
<1>4. /\ f \in [do : {"children"}, at : Paths, left : SUBSET Paths, kept : SUBSET Paths]
      /\ f.do = "children" /\ f.at = p
      /\ f.left = Top.left \ {q} /\ f.kept = Top.kept \cup {q}
  BY <1>1, <1>3, <1>a
<1>5. /\ g \in Frames /\ g.at = q /\ g.do = IF IsDirectory(q) THEN "new directory" ELSE "new file"
      /\ f \in Frames
  BY <1>4, <1>b DEF Frames, Functions
<1>6. /\ q \in Children(p) /\ q \in Paths \ {Root} /\ Parent[q] = p /\ q # p
  BY <1>1, <1>3, ChildrenAreBelow
<1>7. \/ Retained(q) /\ stack' = <<f>> \o Tail(stack)
      \/ ~Retained(q) /\ stack' = <<g>> \o (<<f>> \o Tail(stack))
  <2>1. Tail(stack) \in Seq(Frames)
    BY <1>1, <1>2, StackParts
  <2>2. CASE Retained(q)
    <3>1. stack' = <<>> \o <<f>> \o Tail(stack)
      BY <1>1, <2>2
    <3>2. f \in Frames
      BY <1>5
    <3>3. <<>> \o <<f>> = <<f>>
      BY <3>2
    <3> QED BY <2>2, <3>1, <3>3
  <2>3. CASE ~Retained(q)
    <3>1. stack' = <<g>> \o <<f>> \o Tail(stack)
      BY <1>1, <2>3
    <3>2. g \in Frames /\ f \in Frames
      BY <1>5
    <3>3. <<g>> \o <<f>> \o Tail(stack) = <<g>> \o (<<f>> \o Tail(stack))
      BY <2>1, <3>2, CallOnCall
    <3> QED BY <2>3, <3>1, <3>3
  <2> QED BY <2>2, <2>3
<1>8. /\ SameBottom /\ stack' # <<>>
      /\ \/ Retained(q) /\ OnStack' = {f} \cup Callers /\ Top' = f
         \/ ~Retained(q) /\ OnStack' = {g, f} \cup Callers /\ Top' = g
  BY <1>1, <1>2, <1>4, <1>5, <1>7, WentOn, WentOnAndCalled
<1>9. /\ Ahead' = Ahead /\ f \in OnStack' /\ Callers \subseteq OnStack'
      /\ OnStack' \subseteq {g, f} \cup Callers
  BY <1>1, <1>8 DEF Ahead
<1>10. TreeIsRight' /\ KernelIsRight' /\ KindsAreRight'
  BY <1>1, <1>2, TreeStays, KernelStays, KindsStay DEF SourceParts
<1>11. PromisesAreRight'
  BY <1>1, <1>2, <1>8, BottomStays, PromisesStay DEF SourceParts
<1>12. /\ \A r \in Paths : IsUp(r)' <=> IsUp(r)
       /\ \A r : (IsDirectory(r)' <=> IsDirectory(r)) /\ (Old(r)' <=> Old(r))
  BY <1>1, <1>2, AllStayUp DEF IsDirectory, Old
<1>13. FrameIsRight(Top) /\ (InCallback /\ p # Last(stack).at => p \in Lasting)
  BY <1>1, <1>2, TopIs DEF SourceParts, FramesAreRight
<1>14. ~Retained(q) => ~(IsUp(q) /\ IsDirectory(q)) /\ (InCallback => q # Last(stack).at)
  BY <1>1, <1>6, NotRetained DEF SourceParts
<1>15. FramesAreRight'
  <2> DEFINE N == IF Retained(q) THEN {f} ELSE {g, f}
  <2>1. /\ OnStack' \subseteq Callers \cup N
        /\ \A h \in N : h = f \/ (h = g /\ ~Retained(q))
    BY <1>8
  <2> HIDE DEF N
  <2>2. \A h \in Callers : h.do = "children" => SameWatch(h.at)
    BY <1>1, <1>2, CallersAre
  <2>3. FrameIsRight(f)'
    <3>1. IsUp(p)' /\ \A r \in Children(p) : Old(r)' => r \in f.left \cup f.kept
      BY <1>1, <1>4, <1>12, <1>13 DEF FrameIsRight, Children
    <3> QED BY <1>4, <3>1 DEF FrameIsRight
  <2>4. ASSUME ~Retained(q)  PROVE FrameIsRight(g)'
    <3>1. ~IsDirectory(q) => ~Old(q)
      BY DEF Old
    <3>2. ~(IsUp(q)' /\ IsDirectory(q)')
      BY <1>6, <1>12, <1>14, <2>4
    <3> QED BY <1>5, <1>12, <3>1, <3>2 DEF FrameIsRight
  <2>5. ASSUME ~Retained(q), InCallback, g.do # "new file"  PROVE q \in Lasting
    <3>1. SUFFICES ASSUME q \notin Lasting  PROVE FALSE
      OBVIOUS
    <3>2. IsDirectory(q)
      BY <1>5, <2>5
    <3>3. Old(q)
      BY <3>1, <3>2 DEF SourceParts, TreeIsRight, Old
    <3>4. IsUp(q)
      BY <2>5, <3>3, AllOldAreUp DEF SourceParts
    <3> QED BY <1>14, <2>5, <3>2, <3>4
  <2>6. \A h \in N : FrameIsRight(h)'
    BY <2>1, <2>3, <2>4
  <2>7. InCallback => \A h \in N :
          h.at # Last(stack).at /\ h.do # "new file" /\ (h.do = "modified" => IsUp(h.at)') =>
            h.at \in Lasting
    BY <1>4, <1>5, <1>13, <2>1, <2>5
  <2> QED BY <1>1, <1>2, <1>8, <2>1, <2>2, <2>6, <2>7, FramesWith DEF SourceParts
<1>16. OldAreUp'
  <2>1. ASSUME NEW r \in Paths \ {Root}, Old(r), Scanned(r)  PROVE Scanned(r)' \/ IsUp(r)'
    <3>1. ~InCallback
      BY <2>1 DEF Scanned
    <3>2. CASE r = q
      <4>1. CASE Retained(q)
        <5>1. IsUp(q)
          BY <2>1, <3>2, <4>1 DEF Retained, Old, IsUp
        <5> QED BY <1>12, <3>2, <5>1
      <4>2. CASE ~Retained(q)
        <5>1. g.do = "new directory"
          BY <1>5, <2>1, <3>2 DEF Old
        <5>2. Doing("new directory", q)'
          BY <1>5, <1>8, <4>2, <5>1 DEF Doing
        <5>3. ~InCallback'
          BY <1>8, <3>1 DEF SameBottom
        <5>4. f \in OnStack' /\ f.do = "children" /\ f.at = Parent[q] /\ q \in f.kept
          BY <1>4, <1>6, <1>9
        <5> QED BY <1>8, <3>2, <5>2, <5>3, <5>4 DEF Scanned
      <4> QED BY <4>1, <4>2
    <3>3. CASE r # q /\ Parent[r] = p /\ r \in Top.left
      BY <1>4, <1>8, <1>9, <3>1, <3>3, ListedBelow
    <3>4. CASE ~(Parent[r] = p /\ r \in Top.left)
      <4>1. ~Doing("modified", Parent[r])
        BY <1>1 DEF Doing
      <4>2. PICK h \in OnStack : h.do = "children" /\ h.at = Parent[r] /\ r \in h.left
        BY <1>1, <2>1, <4>1 DEF Scanned, Doing
      <4>3. h \in Callers
        BY <1>1, <1>2, <3>4, <4>2, CallersOfTop
      <4> QED BY <1>8, <1>9, <3>1, <4>2, <4>3, ListedBelow
    <3> QED BY <3>2, <3>3, <3>4
  <2>2. \A r \in Paths \ {Root} : Parent[r] \in Paths
    BY InotifyAssumption
  <2> QED BY <1>1, <1>12, <2>1, <2>2, OldStayUp DEF SourceParts
<1>17. \A r : ~Doing("new file", r) /\ ~Doing("new directory", r) /\ ~InHand(r)
  BY <1>1 DEF Doing, InHand
<1>18. ListsAreRight'
  <2> SUFFICES ASSUME NEW r \in Paths \ {Root}, IsDirectory(Parent[r])', IsUp(Parent[r])'
               PROVE  ListIsRight(r)'
    BY DEF ListsAreRight
  <2>1. IsDirectory(Parent[r]) /\ IsUp(Parent[r]) /\ Parent[r] \in Paths
    BY <1>12, InotifyAssumption
  <2>2. ListIsRight(r)
    BY <2>1 DEF SourceParts, ListsAreRight
  <2>3. watcher[Parent[r]] # None
    BY <2>1 DEF IsUp
  <2>4. CASE Parent[r] = p
    <3>1. \A h \in Callers : h.do # "children" \/ h.at # p
      BY <1>1, <1>2, CallersAre
    <3>2. Listing(r) = {old} /\ Listing(r)' = {f}
      <4>1. OnStack = {old} \cup Callers
        BY <1>c, <1>1, <1>2, CallersOfTop
      <4>2. Listing(r) = {old}
        BY <1>1, <1>c, <2>4, <3>1, <4>1 DEF Listing
      <4>3. g.do # "children"
        BY <1>5
      <4>4. f \in OnStack' /\ f.do = "children" /\ f.at = Parent[r]
        BY <1>4, <1>9, <2>4
      <4>5. \A h \in OnStack' : h = f \/ h = g \/ h \in Callers
        BY <1>9
      <4>6. Listing(r)' = {f}
        BY <2>4, <3>1, <4>3, <4>4, <4>5 DEF Listing
      <4> QED BY <4>2, <4>6
    <3>3. CASE ToList(r)
      <4>1. ToList(r)'
        BY <1>1, <1>9, <1>17, <3>3 DEF ToList
      <4> QED BY <4>1 DEF ListIsRight
    <3>4. CASE Lists(old, r)
      <4>1. type[r] # "none" <=> r \in f.left \cup f.kept
        BY <1>1, <1>4, <1>c, <3>4 DEF Lists
      <4>2. CASE r # q
        <5>1. r \in f.kept => Right(r)
          BY <1>4, <1>17, <1>c, <3>4, <4>2 DEF Lists, IsNew
        <5>2. ~IsNew(r)'
          BY <1>4, <1>5, <1>8, <4>2 DEF IsNew, Doing
        <5>3. r \in f.kept => Right(r)'
          BY <1>1, <1>12, <5>1 DEF Right
        <5> QED BY <1>1, <3>2, <4>1, <5>2, <5>3 DEF ListIsRight, Lists
      <4>3. CASE r = q /\ Retained(q)
        <5>1. ~IsNew(r)'
          BY <1>4, <1>8, <4>3 DEF IsNew, Doing
        <5>2. Right(r)'
          <6>1. Right(r)
            BY <4>3 DEF Retained, Right, IsUp
          <6> QED BY <1>1, <1>12, <6>1 DEF Right
        <5> QED BY <1>1, <3>2, <4>1, <5>1, <5>2 DEF ListIsRight, Lists
      <4>4. CASE r = q /\ ~Retained(q)
        <5>1. IsNew(r)' /\ MadeRight(r)'
          BY <1>5, <1>8, <1>12, <4>4 DEF IsNew, Doing, MadeRight
        <5> QED BY <1>1, <3>2, <4>1, <5>1 DEF ListIsRight, Lists
      <4> QED BY <4>2, <4>3, <4>4
    <3> QED BY <2>2, <3>2, <3>3, <3>4 DEF ListIsRight
  <2>5. CASE Parent[r] # p
    <3>1. ~InHand(Parent[r]) /\ ~Doing("new file", r) /\ ~Doing("new directory", r)
      BY <1>17
    <3>2. watcher[Parent[r]].promise = "queued" => ToList(r)'
      BY <1>1 DEF ToList
    <3>3. Listing(r)' = Listing(r)
      <4> DEFINE N == IF Retained(q) THEN {f} ELSE {g, f}
      <4>1. g.do # "children"
        BY <1>5
      <4>2. OnStack' = Callers \cup N /\ \A h \in N : h.do # "children" \/ h.at # Parent[r]
        BY <1>4, <1>8, <2>5, <4>1
      <4> HIDE DEF N
      <4> QED BY <1>1, <1>2, <2>5, <4>2, ListersStay
    <3>4. ~Doing("new file", r)' /\ ~Doing("new directory", r)'
      <4>1. r # q
        BY <1>6, <2>5
      <4> QED BY <1>4, <1>5, <1>8, <4>1 DEF Doing
    <3> QED BY <1>1, <1>2, <1>9, <2>1, <2>2, <2>3, <3>1, <3>2, <3>3, <3>4, ListStays
  <2> QED BY <2>4, <2>5
<1>19. SourcesAreRight'
  <2> DEFINE F == {}
  <2>1. \A r \in Paths : /\ source'[r] = IF r \in F THEN None ELSE source[r]
                         /\ r \notin F
                         /\ watcher'[r] # None <=> watcher[r] # None
    BY <1>1
  <2> HIDE DEF F
  <2>2. ASSUME NEW r \in Paths \ {Root}, watcher[r] # None, ~IsUp(r), ContentIsRight(r)
        PROVE  ContentIsRight(r)'
    <3>1. watcher[r].promise = "queued" => ContentIsRight(r)'
      BY <1>1 DEF ContentIsRight
    <3> QED BY <1>1, <1>2, <1>9, <1>17, <2>2, <3>1, ContentStays
  <2> QED BY <1>1, <1>2, <2>1, <2>2, SourcesWith DEF SourceParts
<1> QED BY <1>10, <1>11, <1>15, <1>16, <1>18, <1>19 DEF SourceParts

\* The children that are not kept, and what is under them.
LEMMA LeftOver ==
  ASSUME NEW p \in Paths, NEW kept, NEW gone,
         \A r : r \in gone <=> \E c \in Children(p) \ kept : r \in Descendants(c)
  PROVE  /\ gone \in SUBSET (Descendants(p) \ {p}) /\ Root \notin gone
         /\ \A r \in Paths \ {Root} : Parent[r] \in gone => r \in gone
         /\ \A r \in Children(p) : r \in gone <=> r \notin kept
         /\ \A r \in gone : r # Root /\ (Parent[r] = p \/ Parent[r] \in gone)
<1>1. \A c \in Children(p) : /\ c \in Paths /\ c # p /\ c # Root /\ Parent[c] = p
                             /\ Descendants(c) \subseteq Descendants(p) \ {p}
                             /\ c \in Descendants(c) /\ Closed(Descendants(c))
                             /\ Descendants(c) \in SUBSET Paths
  BY ChildrenAreBelow, DescendantsAreClosed
<1>2. \A r \in gone : \E c \in Children(p) \ kept : r \in Descendants(c)
  OBVIOUS
<1>3. \A r \in gone : r # Root /\ (Parent[r] = p \/ Parent[r] \in gone)
  <2> SUFFICES ASSUME NEW c \in Children(p) \ kept, NEW r \in Descendants(c)
               PROVE  r # Root /\ (Parent[r] = p \/ Parent[r] \in gone)
    BY <1>2
  <2> QED BY <1>1, ParentsOfDescendants
<1>4. ASSUME NEW r \in Paths \ {Root}, Parent[r] \in gone  PROVE r \in gone
  <2>1. PICK c \in Children(p) \ kept : Parent[r] \in Descendants(c)
    BY <1>2, <1>4
  <2>2. r \in Descendants(c)
    BY <1>1, <2>1 DEF Closed, Children
  <2> QED BY <2>2
<1>5. ASSUME NEW r \in Children(p), r \in gone, r \in kept  PROVE FALSE
  <2>1. PICK c \in Children(p) \ kept : r \in Descendants(c)
    BY <1>2, <1>5
  <2>2. Parent[r] \in Descendants(c)
    BY <1>1, <1>5, <2>1, ParentsOfDescendants
  <2> QED BY <1>1, <2>1, <2>2
<1>6. gone \in SUBSET (Descendants(p) \ {p})
  BY <1>1
<1>7. \A r \in Children(p) : r \notin kept => r \in gone
  BY <1>1
<1> QED BY <1>3, <1>4, <1>5, <1>6, <1>7

\* Those that are not on the list are forgotten with all that is under them.
LEMMA SwapChildrenKeepsSources ==
  ASSUME WatcherInv, SourceParts, NEW p \in Paths, SwapChildren(p)
  PROVE  SourceParts'
<1>a. PICK gone : gone = UNION {Descendants(q) : q \in Children(p) \ Top.kept}
  OBVIOUS
<1>b. PICK old : old = Top
  OBVIOUS
<1>1. /\ stack # <<>> /\ Top.do = "children" /\ Top.at = p /\ Top.left = {}
      /\ source' = [q \in Paths |-> IF q \in gone /\ watcher[q] # None THEN None ELSE source[q]]
      /\ Keep(Without(gone), watchByName, watched, {FALSE})
      /\ Return /\ wds' = wds
      /\ UNCHANGED <<type, stamp, unread, batch>>
  BY <1>a DEF SwapChildren, Doing, UnchangedFiles, files
<1>2. /\ gone \in SUBSET (Descendants(p) \ {p}) /\ Root \notin gone
      /\ \A r \in Paths \ {Root} : Parent[r] \in gone => r \in gone
      /\ \A r \in Children(p) : r \in gone <=> r \notin Top.kept
      /\ \A r \in gone : r # Root /\ (Parent[r] = p \/ Parent[r] \in gone)
  <2>1. PICK kept : kept = Top.kept
    OBVIOUS
  <2>2. \A r : r \in gone <=> \E c \in Children(p) \ kept : r \in Descendants(c)
    BY <1>a, <2>1
  <2>3. /\ gone \in SUBSET (Descendants(p) \ {p}) /\ Root \notin gone
        /\ \A r \in Paths \ {Root} : Parent[r] \in gone => r \in gone
        /\ \A r \in Children(p) : r \in gone <=> r \notin kept
        /\ \A r \in gone : r # Root /\ (Parent[r] = p \/ Parent[r] \in gone)
    BY <2>2, LeftOver
  <2> QED BY <2>1, <2>3
<1>3. StackIsRight /\ ListsItsChildren(Top)
  BY <1>1, StackParts DEF WatcherInv
<1>4. \A r \in Paths : watcher'[r] = IF r \in gone THEN None ELSE watcher[r]
  <2>1. watcher' = Without(gone)
    BY <1>1 DEF Keep
  <2> QED BY <2>1 DEF Without
<1>5. Loses(gone) /\ \A r \in Paths : watcher'[r] # None => SameWatch(r)
  BY <1>4 DEF Loses, SameWatch
<1>6. OnStack' = Callers /\ SameBottom /\ Ahead' = Ahead
  BY <1>1, <1>3, Returned DEF Ahead
<1>7. KernelIsRight'
  <2> DEFINE w == Without(gone)
             may == {FALSE}
  <2>1. Keep(w, watchByName, watched, may)
    BY <1>1
  <2>2. \A r \in Paths : w[r] # None => watcher[r] # None /\ w[r].wd = watcher[r].wd
    BY DEF Without
  <2> HIDE DEF w, may
  <2> QED BY <1>1, <2>1, <2>2, KernelWithKeep DEF SourceParts
<1>8. TreeIsRight' /\ KindsAreRight'
  BY <1>1, <1>2, <1>5, TreeStays, KindsWithFewer DEF SourceParts
<1>9. PromisesAreRight'
  BY <1>1, <1>4, <1>5, <1>6, BottomStays, PromisesStay DEF SourceParts
<1>10. /\ \A r \in Paths : IsUp(r)' <=> IsUp(r) /\ r \notin gone
       /\ \A r : (IsDirectory(r)' <=> IsDirectory(r)) /\ (Old(r)' <=> Old(r))
  BY <1>1, <1>5, LosesUp DEF IsDirectory, Old
<1>11. FramesAreRight'
  <2> DEFINE N == {}
  <2>1. OnStack' \subseteq Callers \cup N /\ \A f \in N : FALSE
    BY <1>6
  <2>2. \A f \in Callers : f.do = "children" => SameWatch(f.at)
    <3>1. \A f \in Callers : f.at \in Paths /\ f.at \notin gone
      BY <1>1, <1>2, <1>3, CallersAre
    <3> QED BY <1>4, <3>1 DEF SameWatch
  <2> HIDE DEF N
  <2> QED BY <1>1, <1>3, <1>6, <2>1, <2>2, FramesWith DEF SourceParts
<1>12. OldAreUp'
  <2>1. ASSUME NEW q \in Paths \ {Root}, Scanned(q)  PROVE Scanned(q)'
    <3>1. ~Doing("modified", Parent[q])
      BY <1>1 DEF Doing
    <3> QED BY <1>1, <1>3, <1>6, <2>1, <3>1, ScannedBelow
  <2>2. ASSUME NEW q \in Paths \ {Root}, Old(q), IsUp(Parent[q])', IsUp(q)  PROVE IsUp(q)'
    <3>1. Parent[q] \notin gone
      BY <1>10, <2>2, InotifyAssumption
    <3>2. Parent[q] = p => q \in Top.kept
      BY <1>1, <1>3, <2>2, TopIs DEF SourceParts, FramesAreRight, FrameIsRight, Children
    <3>3. q \notin gone
      BY <1>2, <2>2, <3>1, <3>2 DEF Children
    <3> QED BY <1>10, <2>2, <3>3
  <2>3. \A q \in Paths \ {Root} : Parent[q] \in Paths
    BY InotifyAssumption
  <2> QED BY <1>1, <1>10, <2>1, <2>2, <2>3, OldStayUp DEF SourceParts
<1>13. \A r : ~Doing("new file", r) /\ ~Doing("new directory", r) /\ ~InHand(r)
  BY <1>1 DEF Doing, InHand
<1>14. \A r : ~Doing("new file", r)' /\ ~Doing("new directory", r)'
  BY <1>1, <1>3, ReturnedQuietly
<1>15. ListsAreRight'
  <2> SUFFICES ASSUME NEW r \in Paths \ {Root}, IsDirectory(Parent[r])', IsUp(Parent[r])'
               PROVE  ListIsRight(r)'
    BY DEF ListsAreRight
  <2>1. /\ IsDirectory(Parent[r]) /\ IsUp(Parent[r]) /\ Parent[r] \in Paths
        /\ Parent[r] \notin gone /\ watcher'[Parent[r]] = watcher[Parent[r]]
    BY <1>4, <1>10, InotifyAssumption
  <2>2. ListIsRight(r) /\ watcher[Parent[r]] # None
    BY <2>1 DEF SourceParts, ListsAreRight, IsUp
  <2>3. CASE Parent[r] = p
    <3>1. \A h \in Callers : h.do # "children" \/ h.at # p
      BY <1>1, <1>3, CallersAre
    <3>2. Listing(r) = {old} /\ Listing(r)' = {}
      <4>1. OnStack = {old} \cup Callers
        BY <1>b, <1>1, <1>3, CallersOfTop
      <4>2. Listing(r) = {old}
        BY <1>b, <1>1, <2>3, <3>1, <4>1 DEF Listing
      <4>3. Listing(r)' = {}
        BY <1>6, <2>3, <3>1 DEF Listing
      <4> QED BY <4>2, <4>3
    <3>3. CASE ToList(r)
      <4>1. ToList(r)'
        BY <1>6, <1>13, <2>1, <3>3 DEF ToList
      <4> QED BY <4>1 DEF ListIsRight
    <3>4. CASE Lists(old, r)
      <4>1. r \in Children(p) /\ (r \in gone <=> r \notin Top.kept)
        BY <1>2, <2>3 DEF Children
      <4>2. type[r] # "none" <=> r \in Top.kept
        BY <1>b, <1>1, <3>4 DEF Lists
      <4>3. CASE type[r] = "none"
        <5>1. watcher'[r] = None /\ type'[r] = "none"
          BY <1>1, <1>4, <4>1, <4>2, <4>3
        <5> QED BY <3>2, <5>1 DEF ListIsRight
      <4>4. CASE type[r] # "none"
        <5>1. Right(r) /\ r \notin gone
          BY <1>b, <1>13, <3>4, <4>1, <4>2, <4>4 DEF Lists, IsNew
        <5>2. Right(r)'
          BY <1>4, <1>10, <5>1 DEF Right
        <5> QED BY <1>1, <3>2, <4>4, <5>2 DEF ListIsRight
      <4> QED BY <4>3, <4>4
    <3> QED BY <2>2, <3>2, <3>3, <3>4 DEF ListIsRight
  <2>4. CASE Parent[r] # p
    <3>1. r \notin gone /\ SameWatch(r) /\ SameWatch(Parent[r])
      BY <1>2, <1>4, <2>1, <2>4 DEF SameWatch
    <3>2. watcher[Parent[r]].promise = "queued" => ToList(r)'
      BY <2>1 DEF ToList
    <3>3. Listing(r)' = Listing(r)
      <4> DEFINE N == {}
      <4>1. OnStack' = Callers \cup N /\ \A h \in N : FALSE
        BY <1>6
      <4> HIDE DEF N
      <4> QED BY <1>1, <1>3, <2>4, <4>1, ListersStay
    <3> QED BY <1>1, <1>6, <1>13, <1>14, <2>2, <3>1, <3>2, <3>3, ListStays
  <2> QED BY <2>3, <2>4
<1>16. SourcesAreRight'
  <2> DEFINE F == {q \in gone : watcher[q] # None}
  <2>1. \A r \in Paths : source'[r] = IF r \in F THEN None ELSE source[r]
    BY <1>1
  <2>2. \A r \in Paths : r \in F => watcher'[r] = None
    BY <1>4
  <2>3. \A r \in Paths : watcher[r] # None /\ watcher'[r] = None => r \in F
    BY <1>4
  <2> HIDE DEF F
  <2>4. ASSUME NEW r \in Paths \ {Root}, watcher[r] # None, watcher'[r] # None, r \notin F, ContentIsRight(r)
        PROVE  ContentIsRight(r)'
    <3>1. watcher[r].promise = "queued" => ContentIsRight(r)'
      BY <1>4, <2>4 DEF ContentIsRight
    <3> QED BY <1>1, <1>5, <1>6, <1>13, <2>1, <2>4, <3>1, ContentStays
  <2> QED BY <1>1, <1>5, <2>1, <2>2, <2>3, <2>4, SourcesWith DEF SourceParts
<1> QED BY <1>7, <1>8, <1>9, <1>11, <1>12, <1>15, <1>16 DEF SourceParts

\* What is under a path, without it.
LEMMA BelowIs ==
  ASSUME NEW p \in Paths, NEW G, G = Descendants(p) \ {p}
  PROVE  /\ G \in SUBSET Paths /\ p \notin G /\ Root \notin G
         /\ \A q \in Paths \ {Root} : Parent[q] \in G => q \in G
<1>1. Descendants(p) \in SUBSET Paths /\ Closed(Descendants(p))
  BY DescendantsAreClosed
<1>2. Root \notin G
  BY RootIsUnderNone
<1>3. ASSUME NEW q \in Paths \ {Root}, Parent[q] \in G  PROVE q \in G
  <2>1. Parent[q] \in Paths /\ q \in Children(Parent[q])
    BY <1>1, <1>3 DEF Children
  <2>2. q \in Descendants(p)
    BY <1>1, <1>3, <2>1 DEF Closed
  <2>3. q # p
    BY <1>3, <2>1, ChildrenAreBelow, DescendantsOfEachOther
  <2> QED BY <2>2, <2>3
<1> QED BY <1>1, <1>2, <1>3

\* reallyDeleted() forgets what is gone, or in hand no more.
LEMMA ReallyDeletedKeepsSources ==
  ASSUME WatcherInv, SourceParts, stack # <<>>, NEW p \in Paths,
         Top.at = p, Top.do \in {"modified", "deleted"},
         IsUp(p) => ~IsDirectory(p),
         ~IsUp(p) => Top.do = "deleted" /\ ~IsFile(p),
         ReallyDeleted(p), Return, UnchangedFiles
  PROVE  SourceParts'
<1>a. PICK G : G = Descendants(p) \ {p}
  OBVIOUS
<1>1. /\ source' = [q \in Paths |-> IF q \in Descendants(p) /\ watcher[q] # None THEN None ELSE source[q]]
      /\ Keep([Without(G) EXCEPT ![p].promise = "none"], watchByName, watched, {FALSE})
      /\ wds' = wds
      /\ UNCHANGED <<type, stamp, unread, batch>>
  BY <1>a DEF ReallyDeleted, UnchangedFiles, files
<1>2. /\ StackIsRight /\ FilesAreRight
      /\ watcher[p] # None /\ p \in Descendants(p) /\ Descendants(p) \in SUBSET Paths
      /\ G \in SUBSET Paths /\ p \notin G /\ Root \notin G
      /\ \A q \in Paths \ {Root} : Parent[q] \in G => q \in G
  <2>1. StackIsRight /\ FilesAreRight
    BY DEF WatcherInv
  <2>2. watcher[p] # None
    BY <2>1, TopIs
  <2>3. p \in Descendants(p) /\ Descendants(p) \in SUBSET Paths
    BY DescendantsAreClosed
  <2> QED BY <1>a, <2>1, <2>2, <2>3, BelowIs
<1>3. /\ \A r \in Paths \ {p} : watcher'[r] = IF r \in G THEN None ELSE watcher[r]
      /\ SameWatch(p) /\ watcher'[p] # None /\ watcher'[p].promise = "none"
  <2> DEFINE v == Without(G)
             w == [v EXCEPT ![p].promise = "none"]
  <2>1. watcher' = w
    BY <1>1 DEF Keep
  <2>2. v = [q \in Paths |-> IF q \in G THEN None ELSE watcher[q]]
    BY DEF Without
  <2>3. v[p] = watcher[p] /\ watcher[p] \in Watchers
    BY <1>2, <2>2, WatcherParts DEF WatcherInv
  <2>4. w = [q \in Paths |-> IF q = p THEN [watcher[p] EXCEPT !.promise = "none"] ELSE v[q]]
    BY <2>2, <2>3
  <2> HIDE DEF v, w
  <2>5. watcher'[p] = [watcher[p] EXCEPT !.promise = "none"]
    BY <2>1, <2>4
  <2>6. /\ watcher'[p] # None /\ watcher'[p].promise = "none"
        /\ watcher'[p].isDirectory = watcher[p].isDirectory
        /\ watcher'[p].wd = watcher[p].wd /\ watcher'[p].name = watcher[p].name
    <3>1. "none" \in Promises
      BY DEF Promises
    <3>2. /\ [watcher[p] EXCEPT !.promise = "none"] # None
          /\ [watcher[p] EXCEPT !.promise = "none"].promise = "none"
      BY <2>3, <3>1, WatcherRecords
    <3> QED BY <2>3, <2>5, <3>2 DEF Watchers
  <2> QED BY <1>2, <2>1, <2>2, <2>4, <2>6 DEF SameWatch
<1>4. Loses(G) /\ \A r \in Paths : watcher'[r] # None => SameWatch(r)
  BY <1>2, <1>3 DEF Loses, SameWatch
<1>5. OnStack' = Callers /\ SameBottom /\ Ahead' = Ahead
  BY <1>1, <1>2, Returned DEF Ahead
\* What is lost is forsaken.
<1>6. \A r \in G : watcher[r] # None => IsUp(p) /\ Forsaken(r)
  <2> SUFFICES ASSUME NEW r \in G, watcher[r] # None  PROVE IsUp(p) /\ Forsaken(r)
    OBVIOUS
  <2>1. IsUp(p)
    BY <1>a, UnderNoWatcher DEF SourceParts
  <2>2. r \in Descendants(p) /\ r # p /\ ~IsDirectory(p)
    BY <1>a, <2>1
  <2> QED BY <2>1, <2>2, ForsakenBelow DEF SourceParts
<1>7. KernelIsRight'
  <2> PICK w : w = [Without(G) EXCEPT ![p].promise = "none"]
    OBVIOUS
  <2> DEFINE may == {FALSE}
  <2>1. Keep(w, watchByName, watched, may) /\ watcher' = w
    BY <1>1 DEF Keep
  <2>2. \A r \in Paths : w[r] # None => watcher[r] # None /\ w[r].wd = watcher[r].wd
    BY <1>4, <2>1 DEF SameWatch
  <2> HIDE DEF may
  <2> QED BY <1>1, <2>1, <2>2, KernelWithKeep DEF SourceParts
<1>8. TreeIsRight' /\ KindsAreRight'
  BY <1>1, <1>2, <1>4, TreeStays, KindsWithFewer DEF SourceParts
<1>9. /\ \A r \in Paths : IsUp(r)' <=> IsUp(r) /\ r \notin G
      /\ \A r : (IsDirectory(r)' <=> IsDirectory(r)) /\ (Old(r)' <=> Old(r))
  BY <1>1, <1>4, LosesUp DEF IsDirectory, Old
<1>10. PromisesAreRight'
  <2>1. AtBottom(p)' \/ Gone(p)'
    <3>1. CASE IsUp(p)
      BY <1>2, <1>9, <3>1 DEF Gone
    <3>2. CASE ~IsUp(p)
      BY <1>2, <1>5, <3>2, TopIs, BottomStays
    <3> QED BY <3>1, <3>2
  <2>2. \A q \in Paths : watcher'[q] # None =>
          \/ watcher'[q].promise = watcher[q].promise
          \/ watcher'[q].promise = "none" /\ (AtBottom(q)' \/ Gone(q)')
    <3> SUFFICES ASSUME NEW q \in Paths, watcher'[q] # None
                 PROVE  \/ watcher'[q].promise = watcher[q].promise
                        \/ watcher'[q].promise = "none" /\ (AtBottom(q)' \/ Gone(q)')
      OBVIOUS
    <3> QED BY <1>3, <2>1
  <2> QED BY <1>1, <1>4, <1>5, <2>2, BottomStays, PromisesStay DEF SourceParts
<1>11. FramesAreRight'
  <2> DEFINE N == {}
  <2>1. OnStack' \subseteq Callers \cup N /\ \A f \in N : FALSE
    BY <1>5
  <2>2. \A f \in Callers : f.do = "children" => SameWatch(f.at)
    <3>1. \A f \in Callers : f.at \in Paths /\ f.at \notin G
      BY <1>a, <1>2, CallersAre
    <3> QED BY <1>4, <3>1 DEF Loses
  <2> HIDE DEF N
  <2> QED BY <1>1, <1>2, <1>5, <2>1, <2>2, FramesWith DEF SourceParts
<1>12. OldAreUp'
  <2>1. \A q \in Paths \ {Root} : Parent[q] \in Paths
    BY InotifyAssumption
  <2>2. ASSUME NEW q \in Paths \ {Root}, Old(q), IsUp(Parent[q])'
        PROVE  IsDirectory(Parent[q]) /\ Parent[q] # p
    <3>1. IsDirectory(Parent[q])
      BY <2>2 DEF SourceParts, TreeIsRight, Old, IsDirectory
    <3> QED BY <1>9, <2>1, <2>2, <3>1
  <2>3. ASSUME NEW q \in Paths \ {Root}, Old(q), IsUp(Parent[q])', Scanned(q)  PROVE Scanned(q)'
    <3>1. ~Doing("modified", Parent[q])
      BY <2>2, <2>3 DEF Doing
    <3> QED BY <1>2, <1>5, <2>3, <3>1, ScannedBelow
  <2>4. ASSUME NEW q \in Paths \ {Root}, Old(q), IsUp(Parent[q])', IsUp(q)  PROVE IsUp(q)'
    <3>1. q \notin G
      BY <1>6, <2>2, <2>4 DEF IsUp, Forsaken
    <3> QED BY <1>9, <2>4, <3>1
  <2> QED BY <1>1, <1>9, <2>1, <2>3, <2>4, OldStayUp DEF SourceParts
<1>13. \A r : ~Doing("new file", r) /\ ~Doing("new directory", r) /\ (r # p => ~InHand(r))
  BY DEF Doing, InHand
<1>14. \A r : ~Doing("new file", r)' /\ ~Doing("new directory", r)'
  BY <1>2, ReturnedQuietly
<1>15. ListsAreRight'
  <2> SUFFICES ASSUME NEW r \in Paths \ {Root}, IsDirectory(Parent[r])', IsUp(Parent[r])'
               PROVE  ListIsRight(r)'
    BY DEF ListsAreRight
  <2>1. /\ IsDirectory(Parent[r]) /\ IsUp(Parent[r]) /\ Parent[r] \in Paths
        /\ Parent[r] \notin G
    BY <1>9, InotifyAssumption
  <2>2. Parent[r] # p /\ watcher'[Parent[r]] = watcher[Parent[r]]
    BY <1>3, <2>1
  <2>3. ListIsRight(r) /\ watcher[Parent[r]] # None
    BY <2>1 DEF SourceParts, ListsAreRight, IsUp
  <2>4. SameWatch(r) /\ SameWatch(Parent[r])
    <3>1. r \in G => watcher[r] = None
      BY <1>6, <2>1 DEF Forsaken
    <3> QED BY <1>4, <2>1, <3>1 DEF Loses, SameWatch
  <2>5. watcher[Parent[r]].promise = "queued" => ToList(r)'
    BY <2>2 DEF ToList
  <2>6. Listing(r)' = Listing(r)
    <3> DEFINE N == {}
    <3>1. OnStack' = Callers \cup N /\ \A h \in N : FALSE
      BY <1>5
    <3> HIDE DEF N
    <3> QED BY <1>2, <2>2, <3>1, ListersStay
  <2> QED BY <1>1, <1>5, <1>13, <1>14, <2>2, <2>3, <2>4, <2>5, <2>6, ListStays
<1>16. SourcesAreRight'
  <2> DEFINE F == {q \in Descendants(p) : watcher[q] # None}
  <2>1. \A r \in Paths : source'[r] = IF r \in F THEN None ELSE source[r]
    BY <1>1
  <2>2. \A r \in Paths : r \in F /\ watcher'[r] # None => r = p
    BY <1>a, <1>3
  <2>3. \A r \in Paths : watcher[r] # None /\ watcher'[r] = None => r \in F
    BY <1>a, <1>3
  <2>4. p \in F
    BY <1>2
  <2>5. type[p] = "none" \/ (IsUp(p) <=> ~IsDirectory(p))
    <3>1. type[p] \in Types
      BY <1>2 DEF FilesAreRight
    <3> QED BY <3>1 DEF Types, IsFile, IsDirectory
  <2> HIDE DEF F
  <2>6. ASSUME NEW r \in Paths \ {Root}, watcher[r] # None, watcher'[r] # None, r \notin F, ContentIsRight(r)
        PROVE  ContentIsRight(r)'
    <3>1. r # p /\ watcher'[r] = watcher[r]
      BY <1>3, <2>4, <2>6
    <3>2. watcher[r].promise = "queued" => ContentIsRight(r)'
      BY <3>1 DEF ContentIsRight
    <3> QED BY <1>1, <1>4, <1>5, <1>13, <2>1, <2>6, <3>1, <3>2, ContentStays
  <2> QED BY <1>1, <1>4, <2>1, <2>2, <2>3, <2>5, <2>6, SourcesWith DEF SourceParts
<1> QED BY <1>7, <1>8, <1>10, <1>11, <1>12, <1>15, <1>16 DEF SourceParts

\* A directory that cannot be listed is gone for good.
LEMMA ListFailsKeepsSources ==
  ASSUME WatcherInv, SourceParts, NEW p \in Paths, ListFails(p)
  PROVE  SourceParts'
<1>1. /\ stack # <<>> /\ Top.do = "modified" /\ Top.at = p
      /\ watcher[p].isDirectory /\ ~IsDirectory(p) /\ ReallyDeleted(p) /\ Return /\ UnchangedFiles
  BY DEF ListFails, Doing
<1>2. StackIsRight
  BY DEF WatcherInv
<1>3. IsUp(p)
  BY <1>1, <1>2, TopIs DEF IsUp
<1> QED BY <1>1, <1>3, ReallyDeletedKeepsSources

\* deleted() goes on with what is new in its place, or forgets what was there.
LEMMA DeletedKeepsSources ==
  ASSUME WatcherInv, SourceParts, NEW p \in Paths, Deleted(p), ~StatThrows(p)
  PROVE  SourceParts'
<1>1. /\ stack # <<>> /\ Top.do = "deleted" /\ Top.at = p
  BY DEF Deleted, Doing
<1>2. StackIsRight
  BY DEF WatcherInv
<1>3. watcher[p] # None /\ AtBottom(p)
  BY <1>1, <1>2, TopIs
<1>4. CASE type[p] = (IF watcher[p].isDirectory THEN "directory" ELSE "file")
  <2>a. PICK g : g = [Top EXCEPT !.do = "resetWatch"]
    OBVIOUS
  <2>1. /\ UNCHANGED inotify
        /\ UNCHANGED <<wds, watchByName, watched, type, stamp, unread, batch, source>>
        /\ watcher' = [watcher EXCEPT ![p].promise = "none"]
        /\ stack' = <<g>> \o Tail(stack)
    BY <1>4, <2>a DEF Deleted, inotify, files, UnchangedFiles, Goto
  <2>2. g \in Frames /\ g.at = p /\ g.do = "resetWatch"
    <3>1. Top \in [do : Functions, at : Paths]
      BY <1>1, <1>2, StackParts
    <3> QED BY <1>1, <2>a, <3>1 DEF Frames, Functions
  <2>3. /\ OnStack' = {g} \cup Callers /\ stack' # <<>> /\ Top' = g /\ SameBottom
    BY <1>1, <1>2, <2>1, <2>2, WentOn
  <2>4. /\ \A r \in Paths \ {p} : watcher'[r] = watcher[r]
        /\ watcher'[p].promise = "none" /\ watcher'[p] # None
        /\ \A r \in Paths : SameWatch(r)
    <3>1. WatchesAreRight
      BY DEF WatcherInv
    <3>2. watcher \in [Paths -> Watchers \cup {None}] /\ watcher[p] \in Watchers
      BY <1>3, <3>1 DEF WatchesAreRight, Known
    <3>3. watcher'[p] = [watcher[p] EXCEPT !.promise = "none"] /\ \A r \in Paths \ {p} : watcher'[r] = watcher[r]
      BY <2>1, <3>2
    <3>4. "none" \in Promises
      BY DEF Promises
    <3>5. /\ [watcher[p] EXCEPT !.promise = "none"] # None
          /\ [watcher[p] EXCEPT !.promise = "none"].promise = "none"
      BY <3>2, <3>4, WatcherRecords
    <3>6. watcher'[p].promise = "none" /\ watcher'[p] # None /\ SameWatch(p)
      BY <1>3, <3>2, <3>3, <3>5 DEF SameWatch, Watchers
    <3>7. \A r \in Paths \ {p} : SameWatch(r)
      BY <3>3 DEF SameWatch
    <3> QED BY <3>3, <3>6, <3>7
  <2>5. Ahead' = Ahead
    BY <2>1 DEF Ahead
  <2>6. KernelIsRight' /\ TreeIsRight' /\ KindsAreRight'
    BY <2>1, <2>4, KernelStays, TreeStays, KindsStay DEF SourceParts
  <2>7. \A q : AtBottom(q) => AtBottom(q)'
    BY <2>3, BottomStays
  <2>8. PromisesAreRight'
    <3>1. \A q \in Paths : watcher'[q] # None =>
             \/ watcher'[q].promise = watcher[q].promise
             \/ watcher'[q].promise = "none" /\ AtBottom(q)'
      BY <1>3, <2>4, <2>7
    <3>2. \A q \in Paths : watcher'[q] # None => SameWatch(q)
      BY <2>4
    <3> QED BY <2>1, <2>7, <3>1, <3>2, PromisesStay DEF SourceParts
  <2>9. FramesAreRight'
    <3> DEFINE N == {g}
    <3>1. OnStack' \subseteq Callers \cup N
      BY <2>3
    <3>2. \A f \in Callers : f.do = "children" => SameWatch(f.at)
      BY <1>1, <1>2, <2>4, CallersAre
    <3>3. \A f \in N : FrameIsRight(f)'
      BY <2>2 DEF FrameIsRight
    <3>4. \A f \in N : f.at = Last(stack).at
      BY <1>3, <2>2 DEF AtBottom
    <3> HIDE DEF N
    <3> QED BY <1>1, <1>2, <2>1, <2>3, <3>1, <3>2, <3>3, <3>4, FramesWith DEF SourceParts
  <2>10. OldAreUp'
    <3>1. ASSUME NEW q \in Paths \ {Root}, Scanned(q)  PROVE Scanned(q)'
      BY <1>3, <3>1 DEF Scanned, AtBottom
    <3>2. \A q \in Paths : IsUp(q)' <=> IsUp(q)
      BY <2>4, AllStayUp
    <3>3. \A q \in Paths \ {Root} : Parent[q] \in Paths
      BY InotifyAssumption
    <3> QED BY <2>1, <3>1, <3>2, <3>3, OldStayUp DEF SourceParts
  <2>11. /\ \A r : ~Doing("new file", r) /\ ~Doing("new directory", r)
         /\ \A r : ~Doing("new file", r)' /\ ~Doing("new directory", r)'
         /\ \A r : InHand(r) => InHand(r)'
         /\ InHand(p)'
    BY <1>1, <2>2, <2>3 DEF Doing, InHand
  <2>12. ListsAreRight'
    <3> SUFFICES ASSUME NEW r \in Paths \ {Root}, IsDirectory(Parent[r])', IsUp(Parent[r])'
                 PROVE  ListIsRight(r)'
      BY DEF ListsAreRight
    <3>1. /\ Parent[r] \in Paths /\ IsDirectory(Parent[r]) /\ IsUp(Parent[r])
          /\ SameWatch(r) /\ SameWatch(Parent[r])
      BY <2>1, <2>4, AllStayUp, InotifyAssumption DEF IsDirectory
    <3>2. ListIsRight(r) /\ watcher[Parent[r]] # None
      BY <3>1 DEF SourceParts, ListsAreRight, IsUp
    <3>3. watcher[Parent[r]].promise = "queued" => ToList(r)'
      BY <2>4, <2>11, <3>1 DEF ToList
    <3>4. InHand(Parent[r]) => ToList(r)'
      BY <2>11 DEF ToList
    <3>5. Listing(r)' = Listing(r)
      <4> DEFINE N == {g}
      <4>1. OnStack' = Callers \cup N /\ \A h \in N : h.do # "children"
        BY <2>2, <2>3
      <4> HIDE DEF N
      <4> QED BY <1>1, <1>2, <4>1, ListersStay
    <3> QED BY <2>1, <2>5, <2>11, <3>1, <3>2, <3>3, <3>4, <3>5, ListStays
  <2>13. SourcesAreRight'
    <3> DEFINE F == {}
    <3>1. \A q \in Paths : source'[q] = IF q \in F THEN None ELSE source[q]
      BY <2>1
    <3>2. /\ \A q \in Paths : watcher'[q] # None => SameWatch(q)
          /\ \A q \in Paths : watcher'[q] # None <=> watcher[q] # None
      BY <2>4 DEF SameWatch
    <3>3. ASSUME NEW q \in Paths \ {Root}, watcher[q] # None, ContentIsRight(q)  PROVE ContentIsRight(q)'
      <4>1. watcher[q].promise = "queued" => ContentIsRight(q)'
        BY <2>4, <2>11 DEF ContentIsRight
      <4>2. InHand(q) => ContentIsRight(q)'
        BY <2>11 DEF ContentIsRight
      <4> QED BY <2>1, <2>4, <2>5, <3>3, <4>1, <4>2, ContentStays
    <3>4. \A q \in F : FALSE
      OBVIOUS
    <3> HIDE DEF F
    <3> QED BY <2>1, <3>1, <3>2, <3>3, <3>4, SourcesWith DEF SourceParts
  <2> QED BY <2>6, <2>8, <2>9, <2>10, <2>12, <2>13 DEF SourceParts
<1>5. CASE type[p] # (IF watcher[p].isDirectory THEN "directory" ELSE "file")
  <2>1. ReallyDeleted(p) /\ Return /\ UnchangedFiles
    BY <1>5 DEF Deleted
  <2>2. (IsUp(p) => ~IsDirectory(p)) /\ (~IsUp(p) => ~IsFile(p))
    BY <1>3, <1>5 DEF IsUp, IsDirectory, IsFile
  <2> QED BY <1>1, <2>1, <2>2, ReallyDeletedKeepsSources
<1> QED BY <1>4, <1>5

-----------------------------------------------------------------------------
(***************************************************************************)
(* New watchers.                                                           *)
(***************************************************************************)

\* watchFile() makes the watcher of one path.
LEMMA WatchFileMakes ==
  ASSUME WatcherInv, NEW p \in Paths, NEW d \in BOOLEAN, NEW gone, WatchFile(p, d, gone)
  PROVE  /\ watcher'[p] # None /\ watcher'[p].isDirectory = d /\ watcher'[p].promise = "waiting"
         /\ watcher'[p].name = IF IsDirectory(p) THEN None ELSE p
         /\ watcher'[p].wd = WdFor(p)
         /\ \A q \in Paths \ {p} : watcher'[q] = IF q \in gone THEN None ELSE watcher[q]
<1>1. FilesAreRight /\ WatchesAreRight
  BY DEF WatcherInv
<1>2. /\ watcher' = [Without(gone) EXCEPT ![p] = NewWatcher(p, d)]
      /\ watcher'[p] # None
      /\ \A q \in Paths : q # p => watcher'[q] = Without(gone)[q]
  BY <1>1, WatchFileKeeps
<1>3. watcher'[p] = NewWatcher(p, d)
  BY <1>2 DEF Without
<1>4. \A q \in Paths : Without(gone)[q] = IF q \in gone THEN None ELSE watcher[q]
  BY DEF Without
<1> QED BY <1>2, <1>3, <1>4 DEF NewWatcher, Watcher

\* The kernel watches what the new watcher needs.
LEMMA KernelWithNew ==
  ASSUME WatcherInv, KernelIsRight, UNCHANGED <<type, stamp, unread, batch>>,
         NEW p \in Paths, NEW d \in BOOLEAN, NEW gone, WatchFile(p, d, gone)
  PROVE  KernelIsRight'
<1>a. PICK wp : wp = WatchedPath(p)
  OBVIOUS
<1>b. PICK wd : wd = WdFor(p)
  OBVIOUS
<1>c. PICK names : names = [watchByName EXCEPT ![wp] = wd]
  OBVIOUS
<1>1. /\ FilesAreRight /\ WatchesAreRight
      /\ wp \in Paths
      /\ IsDirectory(wp) \/ watchByName[wp] # None
  BY <1>a, WatchedPaths DEF WatcherInv, WatchFile, CanWatch
<1>2. /\ wds \in Seq(Descriptors) /\ Len(wds) \in Nat /\ DOMAIN wds = 1 .. Len(wds)
      /\ watched \in SUBSET DOMAIN wds /\ watchByName \in [Paths -> DOMAIN wds \cup {None}]
      /\ \A q \in Paths : watchByName[q] # None => wds[watchByName[q]][1] = q
      /\ \A q \in Paths : watcher[q] # None => watcher[q].wd \in DOMAIN wds
  BY <1>1, WatcherParts DEF WatchesAreRight, DescriptorsAreUsed, Known
<1>3. None \notin DOMAIN wds /\ None \notin Nat
  BY <1>2, InotifyAssumption
<1>4. \/ wd = Len(wds) + 1 /\ watchByName[wp] = None
      \/ wd \in DOMAIN wds /\ wd = watchByName[wp] /\ watchByName[wp] # None
  BY <1>a, <1>b, <1>1, <1>2 DEF WdFor
<1>5. /\ DOMAIN wds \subseteq DOMAIN wds' /\ \A w \in DOMAIN wds : wds'[w] = wds[w]
      /\ wd \in DOMAIN wds' /\ wds'[wd][1] = wp
      /\ \A w \in DOMAIN wds' : w \in DOMAIN wds \/ (w = wd /\ watchByName[wp] = None /\ wds'[w] = <<wp, stamp[wp]>>)
  <2>1. <<wp, stamp[wp]>> \in Descriptors
    BY <1>1 DEF Descriptors, FilesAreRight
  <2>2. wds' = IF wd > Len(wds) THEN Append(wds, <<wp, stamp[wp]>>) ELSE wds
    BY <1>a, <1>b DEF WatchFile
  <2>3. CASE wd = Len(wds) + 1 /\ watchByName[wp] = None
    <3>1. wds' = Append(wds, <<wp, stamp[wp]>>)
      BY <1>2, <2>2, <2>3
    <3> QED BY <1>2, <2>1, <2>3, <3>1
  <2>4. CASE wd \in DOMAIN wds /\ wd = watchByName[wp] /\ watchByName[wp] # None
    <3>0. ~(wd > Len(wds))
      BY <1>2, <2>4
    <3>1. wds' = wds
      BY <2>2, <3>0
    <3> QED BY <1>1, <1>2, <2>4, <3>1
  <2> QED BY <1>4, <2>3, <2>4
<1>6. \A q \in Paths : names[q] = IF q = wp THEN wd ELSE watchByName[q]
  BY <1>c, <1>2
<1>7. /\ watcher'[p] # None /\ watcher'[p].wd = wd
      /\ \A q \in Paths \ {p} : watcher'[q] # None => watcher[q] # None /\ watcher'[q] = watcher[q]
  BY <1>b, WatchFileMakes
<1>8. PICK unused :
        /\ watchByName' = [q \in Paths |-> IF names[q] \in unused THEN None ELSE names[q]]
        /\ watched' = (IF wd > Len(wds) THEN watched \cup {wd} ELSE watched) \ unused
        /\ \A q \in Paths : watcher'[q] # None => watcher'[q].wd \notin unused
  <2> DEFINE v == [Without(gone) EXCEPT ![p] = NewWatcher(p, d)]
             descriptors == IF wd > Len(wds) THEN watched \cup {wd} ELSE watched
             used == {v[q].wd : q \in {r \in Paths : v[r] # None}}
             unused == {names[q] : q \in Paths} \ ({None} \cup used)
             may == {FALSE}
  <2>1. Keep(v, names, descriptors, may)
    BY <1>a, <1>b, <1>c DEF WatchFile
  <2> HIDE DEF v, descriptors, may
  <2>2. /\ watcher' = v /\ watchByName' = [q \in Paths |-> IF names[q] \in unused THEN None ELSE names[q]]
        /\ watched' = descriptors \ unused
    BY <2>1 DEF Keep
  <2>3. \A q \in Paths : v[q] # None => v[q].wd \notin unused
    OBVIOUS
  <2> HIDE DEF unused
  <2> QED BY <2>2, <2>3 DEF descriptors
<1>9. /\ wd \notin unused
      /\ \A q \in Paths : watchByName'[q] = IF names[q] \in unused THEN None ELSE names[q]
      /\ \A w : w \in watched' <=> w \notin unused /\ (w \in watched \/ (w = wd /\ watchByName[wp] = None))
  <2>1. wd > Len(wds) <=> watchByName[wp] = None
    BY <1>2, <1>4
  <2>2. wd \notin unused
    BY <1>7, <1>8
  <2>3. CASE watchByName[wp] = None
    BY <1>8, <2>1, <2>2, <2>3
  <2>4. CASE watchByName[wp] # None
    BY <1>8, <2>1, <2>2, <2>4
  <2> QED BY <2>3, <2>4
<1>10. ASSUME NEW w \in DOMAIN wds  PROVE Dir(w) \in Paths /\ wds'[w] = wds[w] /\ wds'[w][1] = Dir(w)
  BY <1>2, <1>5 DEF Descriptors, Dir
<1>11. \A w \in DOMAIN wds' : type'[wds'[w][1]] = "directory" => wds'[w][2] = stamp'[wds'[w][1]]
  <2> SUFFICES ASSUME NEW w \in DOMAIN wds', type'[wds'[w][1]] = "directory"
               PROVE  wds'[w][2] = stamp'[wds'[w][1]]
    OBVIOUS
  <2>1. CASE w \in DOMAIN wds
    BY <1>10, <2>1 DEF KernelIsRight, IsDirectory, Dir
  <2>2. CASE wds'[w] = <<wp, stamp[wp]>>
    BY <2>2
  <2> QED BY <1>5, <2>1, <2>2
<1>12. \A w \in DOMAIN wds' : wds'[w][1] \in Lasting => type'[wds'[w][1]] = "directory"
  <2> SUFFICES ASSUME NEW w \in DOMAIN wds', wds'[w][1] \in Lasting
               PROVE  type'[wds'[w][1]] = "directory"
    OBVIOUS
  <2>1. CASE w \in DOMAIN wds
    BY <1>10, <2>1 DEF KernelIsRight, IsDirectory, Dir
  <2>2. CASE w = wd /\ watchByName[wp] = None
    BY <1>1, <1>5, <2>2 DEF IsDirectory
  <2> QED BY <1>5, <2>1, <2>2
\* A descriptor that a directory had is the one it has.
<1>13. ASSUME NEW w \in DOMAIN wds, type[Dir(w)] = "directory", w \notin unused, watchByName[Dir(w)] = w
       PROVE  watchByName'[Dir(w)] = w
  <2>1. Dir(w) \in Paths
    BY <1>10
  <2>2. names[Dir(w)] = w
    <3>1. CASE Dir(w) = wp
      BY <1>3, <1>4, <1>6, <1>13, <2>1, <3>1
    <3>2. CASE Dir(w) # wp
      BY <1>6, <1>13, <2>1, <3>2
    <3> QED BY <3>1, <3>2
  <2> QED BY <1>9, <1>13, <2>1, <2>2
<1>14. watchByName'[wp] = wd
  BY <1>1, <1>6, <1>9
<1>15. \A w \in watched' : type'[wds'[w][1]] = "directory" => watchByName'[wds'[w][1]] = w
  <2> SUFFICES ASSUME NEW w \in watched', type'[wds'[w][1]] = "directory"
               PROVE  watchByName'[wds'[w][1]] = w
    OBVIOUS
  <2>1. CASE w \in watched
    <3>1. w \in DOMAIN wds /\ w \notin unused
      BY <1>2, <1>9, <2>1
    <3>2. type[Dir(w)] = "directory" /\ watchByName[Dir(w)] = w
      BY <1>10, <2>1, <3>1 DEF KernelIsRight, IsDirectory
    <3> QED BY <1>10, <1>13, <3>1, <3>2
  <2>2. CASE w = wd /\ watchByName[wp] = None
    BY <1>5, <1>14, <2>2
  <2> QED BY <1>9, <2>1, <2>2
<1>16. \A q \in Paths : watcher'[q] # None /\ type'[wds'[watcher'[q].wd][1]] = "directory" =>
         watchByName'[wds'[watcher'[q].wd][1]] = watcher'[q].wd
  <2> SUFFICES ASSUME NEW q \in Paths, watcher'[q] # None, type'[wds'[watcher'[q].wd][1]] = "directory"
               PROVE  watchByName'[wds'[watcher'[q].wd][1]] = watcher'[q].wd
    OBVIOUS
  <2>1. CASE q = p
    BY <1>5, <1>7, <1>14, <2>1
  <2>2. CASE q # p
    <3>1. PICK w : w = watcher[q].wd
      OBVIOUS
    <3>2. w = watcher'[q].wd /\ w \in DOMAIN wds /\ watcher[q] # None /\ w \notin unused
      BY <1>2, <1>7, <1>8, <2>2, <3>1
    <3>3. type[Dir(w)] = "directory"
      BY <1>10, <3>2
    <3>4. watchByName[Dir(w)] = w
      BY <3>1, <3>2, <3>3 DEF KernelIsRight, IsDirectory
    <3> QED BY <1>10, <1>13, <3>2, <3>3, <3>4
  <2> QED BY <2>1, <2>2
<1>17. \A q \in Paths : type'[q] = "directory" /\ watchByName'[q] # None => watchByName'[q] \in watched'
  <2> SUFFICES ASSUME NEW q \in Paths, type'[q] = "directory", watchByName'[q] # None
               PROVE  watchByName'[q] \in watched'
    OBVIOUS
  <2>1. watchByName'[q] = names[q] /\ names[q] \notin unused
    BY <1>9
  <2>2. watchByName[q] # None => watchByName[q] \in watched
    BY DEF KernelIsRight, IsDirectory
  <2>3. CASE q = wp
    BY <1>4, <1>6, <1>9, <2>1, <2>2, <2>3
  <2>4. CASE q # wp
    BY <1>6, <1>9, <2>1, <2>2, <2>4
  <2> QED BY <2>3, <2>4
<1>18. \A e \in Ahead' : e.what \in {"delete self", "move self"} =>
         e.wd \in DOMAIN wds' /\ type'[wds'[e.wd][1]] # "directory"
  <2>1. Ahead' = Ahead
    BY DEF Ahead
  <2> QED BY <1>5, <1>10, <2>1 DEF KernelIsRight, IsDirectory
<1> QED BY <1>11, <1>12, <1>15, <1>16, <1>17, <1>18 DEF KernelIsRight, IsDirectory, Dir

\* The new watcher is of the kind that it should be, and others lose no DirectoryWatcher
\* that they are in.
LEMMA KindsWithNew ==
  ASSUME WatcherInv, KindsAreRight, UNCHANGED type,
         NEW p \in Paths, NEW d \in BOOLEAN, NEW gone, WatchFile(p, d, gone),
         p = Root => d,
         p # Root => IsUp(Parent[p]) /\ Parent[p] \notin gone /\ Parent[p] # p,
         Root # p => Root \notin gone,
         \A q \in Paths \ {Root} : q # p /\ q \notin gone =>
           Parent[q] \notin gone /\ (Parent[q] = p => d \/ watcher[q] = None),
         d /\ p \in Lasting => IsDirectory(p),
         ~d /\ p \notin Lasting => ~IsDirectory(p)
  PROVE  KindsAreRight' /\ (IsUp(p)' <=> d)
      /\ \A q \in Paths \ {p} : IsUp(q)' <=> IsUp(q) /\ q \notin gone
<1>1. /\ watcher'[p] # None /\ watcher'[p].isDirectory = d
      /\ watcher'[p].name = IF IsDirectory(p) THEN None ELSE p
      /\ \A q \in Paths \ {p} : watcher'[q] = IF q \in gone THEN None ELSE watcher[q]
  BY WatchFileMakes
<1>2. /\ IsUp(p)' <=> d
      /\ \A q \in Paths \ {p} : IsUp(q)' <=> IsUp(q) /\ q \notin gone
  BY <1>1 DEF IsUp
<1>3. \A q : IsDirectory(q)' <=> IsDirectory(q)
  BY DEF IsDirectory
<1>4. Root \in Paths /\ \A q \in Paths \ {Root} : Parent[q] \in Paths
  BY InotifyAssumption
<1>5. IsUp(Root)'
  BY <1>2, <1>4 DEF KindsAreRight
<1>6. ASSUME NEW q \in Paths \ {Root}, watcher'[q] # None  PROVE IsUp(Parent[q])'
  <2>1. CASE q = p
    BY <1>2, <1>4, <2>1
  <2>2. CASE q # p
    <3>1. q \notin gone /\ watcher[q] # None
      BY <1>1, <1>6, <2>2
    <3>2. IsUp(Parent[q]) /\ Parent[q] \notin gone /\ (Parent[q] = p => d)
      BY <2>2, <3>1 DEF KindsAreRight
    <3> QED BY <1>2, <1>4, <3>2
  <2> QED BY <2>1, <2>2
<1>7. ASSUME NEW q \in Paths
      PROVE  /\ IsUp(q)' /\ q \in Lasting => IsDirectory(q)
             /\ IsUp(q)' /\ IsDirectory(q) => watcher'[q].name = None
             /\ q \notin Lasting /\ watcher'[q] # None /\ ~IsUp(q)' => ~IsDirectory(q) /\ watcher'[q].name = q
  <2>1. CASE q = p
    BY <1>1, <1>2, <2>1
  <2>2. CASE q # p
    <3>1. IsUp(q)' => IsUp(q)
      BY <1>2, <2>2
    <3>2. watcher'[q] # None => watcher'[q] = watcher[q] /\ (IsUp(q)' <=> IsUp(q))
      BY <1>1, <1>2, <2>2
    <3>3. IsUp(q)' => watcher'[q] # None
      BY DEF IsUp
    <3> QED BY <3>1, <3>2, <3>3 DEF KindsAreRight
  <2> QED BY <2>1, <2>2
<1> QED BY <1>2, <1>3, <1>5, <1>6, <1>7 DEF KindsAreRight

\* resetWatch() watches what is there now in place of what was deleted.
LEMMA ResetWatchKeepsSources ==
  ASSUME WatcherInv, SourceParts, NEW p \in Paths, ResetWatch(p), CanWatch(p)
  PROVE  SourceParts'
<1>a. PICK g : g = [Top EXCEPT !.do = "modified"]
  OBVIOUS
<1>b. PICK d : d = watcher[p].isDirectory
  OBVIOUS
<1>1. /\ stack # <<>> /\ Top.do = "resetWatch" /\ Top.at = p
      /\ WatchFile(p, d, {})
      /\ stack' = <<g>> \o Tail(stack)
      /\ UNCHANGED <<type, stamp, unread, batch, source>>
  BY <1>a, <1>b DEF ResetWatch, Doing, Goto, UnchangedFiles, files
<1>2. StackIsRight /\ WatchesAreRight
  BY DEF WatcherInv
<1>3. watcher[p] # None /\ AtBottom(p) /\ InCallback
  BY <1>1, <1>2, TopIs DEF AtBottom
<1>4. d \in BOOLEAN /\ (IsUp(p) <=> d)
  BY <1>b, <1>2, <1>3, WatcherParts DEF Watchers, IsUp
<1>5. /\ watcher'[p] # None /\ watcher'[p].isDirectory = d /\ watcher'[p].promise = "waiting"
      /\ \A q \in Paths \ {p} : watcher'[q] = watcher[q]
  <2> DEFINE gone == {}
  <2>1. WatchFile(p, d, gone) /\ \A q : q \notin gone
    BY <1>1
  <2> HIDE DEF gone
  <2> QED BY <1>4, <2>1, WatchFileMakes
<1>6. g \in Frames /\ g.at = p /\ g.do = "modified"
  <2>1. Top \in [do : Functions, at : Paths]
    BY <1>1, <1>2, StackParts
  <2> QED BY <1>1, <1>a, <2>1 DEF Frames, Functions
<1>7. /\ OnStack' = {g} \cup Callers /\ stack' # <<>> /\ Top' = g /\ SameBottom
  BY <1>1, <1>2, <1>6, WentOn
<1>8. Ahead' = Ahead
  BY <1>1 DEF Ahead
<1>9. KindsAreRight' /\ \A q \in Paths : IsUp(q)' <=> IsUp(q)
  <2> DEFINE gone == {}
  <2>1. WatchFile(p, d, gone) /\ \A q : q \notin gone
    BY <1>1
  <2>2. p = Root => d
    BY <1>4 DEF SourceParts, KindsAreRight
  <2>3. p # Root => IsUp(Parent[p]) /\ Parent[p] # p
    <3>1. p # Root => p \in Children(Parent[p]) /\ Parent[p] \in Paths
      BY InotifyAssumption DEF Children
    <3>2. p # Root => Parent[p] # p
      BY <3>1, ChildrenAreBelow
    <3> QED BY <1>3, <3>2 DEF SourceParts, KindsAreRight
  <2>4. \A q \in Paths \ {Root} : Parent[q] = p => d \/ watcher[q] = None
    BY <1>4 DEF SourceParts, KindsAreRight
  <2>5. /\ d /\ p \in Lasting => IsDirectory(p)
        /\ ~d /\ p \notin Lasting => ~IsDirectory(p)
    BY <1>3, <1>4 DEF SourceParts, KindsAreRight
  <2> HIDE DEF gone
  <2> QED BY <1>1, <1>4, <2>1, <2>2, <2>3, <2>4, <2>5, KindsWithNew DEF SourceParts
<1>10. KernelIsRight' /\ TreeIsRight'
  BY <1>1, <1>4, KernelWithNew, TreeStays DEF SourceParts
<1>11. /\ \A r : (IsDirectory(r)' <=> IsDirectory(r)) /\ (Old(r)' <=> Old(r))
       /\ \A r : Forsaken(r)' <=> Forsaken(r)
  BY <1>1 DEF IsDirectory, Old, Forsaken
<1>12. PromisesAreRight'
  <2> SUFFICES ASSUME NEW q \in Paths, watcher'[q] # None
               PROVE  /\ watcher'[q].promise = "running" => AtBottom(q)'
                      /\ watcher'[q].promise = "none" => AtBottom(q)' \/ Gone(q)'
                      /\ watcher'[q].promise = "failed" => Gone(q)'
    BY DEF PromisesAreRight
  <2>1. Gone(q)' <=> Gone(q)
    BY <1>9, <1>11 DEF Gone
  <2> QED BY <1>5, <1>7, <2>1, BottomStays DEF SourceParts, PromisesAreRight
<1>13. FramesAreRight'
  <2> DEFINE N == {g}
  <2>1. OnStack' \subseteq Callers \cup N
    BY <1>7
  <2>2. ASSUME NEW f \in Callers, f.do = "children"  PROVE SameWatch(f.at)
    <3>1. f.at \in Paths /\ f.at # p
      BY <1>1, <1>2, <2>2, CallersAre
    <3> QED BY <1>5, <3>1 DEF SameWatch
  <2>3. \A f \in N : FrameIsRight(f)'
    BY <1>6 DEF FrameIsRight
  <2>4. \A f \in N : f.at = Last(stack).at
    BY <1>3, <1>6 DEF AtBottom
  <2> HIDE DEF N
  <2> QED BY <1>1, <1>2, <1>7, <2>1, <2>2, <2>3, <2>4, FramesWith DEF SourceParts
<1>14. OldAreUp'
  <2>1. \A q : ~Scanned(q)
    BY <1>3 DEF Scanned
  <2>2. \A q \in Paths \ {Root} : Parent[q] \in Paths
    BY InotifyAssumption
  <2> QED BY <1>1, <1>9, <2>1, <2>2, OldStayUp DEF SourceParts
<1>15. /\ \A r : ~Doing("new file", r) /\ ~Doing("new directory", r)
       /\ \A r : ~Doing("new file", r)' /\ ~Doing("new directory", r)'
       /\ \A r : InHand(r) => InHand(r)'
       /\ InHand(p)'
  BY <1>1, <1>6, <1>7 DEF Doing, InHand
<1>16. ListsAreRight'
  <2> SUFFICES ASSUME NEW r \in Paths \ {Root}, IsDirectory(Parent[r])', IsUp(Parent[r])'
               PROVE  ListIsRight(r)'
    BY DEF ListsAreRight
  <2>1. Parent[r] \in Paths /\ IsDirectory(Parent[r]) /\ IsUp(Parent[r])
    BY <1>9, <1>11, InotifyAssumption
  <2>2. CASE Parent[r] = p
    BY <1>15, <2>2 DEF ListIsRight, ToList
  <2>3. CASE Parent[r] # p
    <3>1. ListIsRight(r) /\ watcher'[Parent[r]] = watcher[Parent[r]]
      BY <1>5, <2>1, <2>3 DEF SourceParts, ListsAreRight
    <3>2. Listing(r)' = Listing(r)
      <4> DEFINE N == {g}
      <4>1. OnStack' = Callers \cup N /\ \A h \in N : h.do # "children"
        BY <1>6, <1>7
      <4> HIDE DEF N
      <4> QED BY <1>1, <1>2, <4>1, ListersStay
    <3>3. ToList(r) => ToList(r)'
      BY <1>8, <1>15, <3>1 DEF ToList
    <3>4. ~IsNew(r) /\ ~IsNew(r)'
      BY <1>15 DEF IsNew
    <3>5. /\ Right(r)' <=> Right(r)
          /\ watcher'[r] = None <=> watcher[r] = None
      <4>1. watcher'[r] = None <=> watcher[r] = None
        BY <1>3, <1>5
      <4> QED BY <1>9, <1>11, <4>1 DEF Right
    <3>6. \A f : Lists(f, r) => Lists(f, r)'
      BY <1>1, <3>4, <3>5 DEF Lists
    <3> QED BY <1>1, <3>1, <3>2, <3>3, <3>5, <3>6 DEF ListIsRight
  <2> QED BY <2>2, <2>3
<1>17. SourcesAreRight'
  <2>1. ASSUME NEW q \in Paths \ {Root}, IsDirectory(Parent[q]), IsFile(q), watcher'[q] # None, ~IsUp(q)
        PROVE  ContentIsRight(q)'
    <3>1. CASE q = p
      BY <1>15, <3>1 DEF ContentIsRight
    <3>2. CASE q # p
      <4>1. watcher'[q] = watcher[q] /\ watcher[q] # None /\ SameWatch(q)
        BY <1>5, <2>1, <3>2 DEF SameWatch
      <4>2. ContentIsRight(q)
        BY <2>1, <4>1 DEF SourceParts, SourcesAreRight
      <4>3. watcher[q].promise = "queued" => ContentIsRight(q)'
        BY <4>1 DEF ContentIsRight
      <4>4. InHand(q) => ContentIsRight(q)'
        BY <1>15 DEF ContentIsRight
      <4> QED BY <1>1, <1>8, <4>1, <4>2, <4>3, <4>4, ContentStays
    <3> QED BY <3>1, <3>2
  <2>2. \A q \in Paths : watcher'[q] = None <=> watcher[q] = None
    BY <1>3, <1>5
  <2> QED BY <1>1, <1>9, <1>11, <2>1, <2>2 DEF SourceParts, SourcesAreRight, IsFile, IsDirectory
<1> QED BY <1>9, <1>10, <1>12, <1>13, <1>14, <1>16, <1>17 DEF SourceParts

\* A new child's watcher takes the place of an old one, with all that was under it.
LEMMA NewChildKeepsSources ==
  ASSUME WatcherInv, SourceParts, NEW p \in Paths, NewChild(p), CanWatch(p)
  PROVE  SourceParts'
<1>a. PICK g : g = [Top EXCEPT !.do = "modified"]
  OBVIOUS
<1>b. PICK d : d = (Top.do = "new directory")
  OBVIOUS
<1>c. PICK old : old = Top
  OBVIOUS
<1>d. PICK D : D = Descendants(p)
  OBVIOUS
<1>1. /\ stack # <<>> /\ Top.do \in {"new file", "new directory"} /\ Top.at = p
      /\ WatchFile(p, d, D)
      /\ source' = IF d THEN [source EXCEPT ![p] = Content(p)] ELSE source
      /\ stack' = <<g>> \o Tail(stack)
      /\ UNCHANGED <<type, stamp, unread, batch>>
  BY <1>a, <1>b, <1>d DEF NewChild, Goto, UnchangedFiles, files
<1>2. StackIsRight /\ WatchesAreRight /\ SourceIsTyped /\ FilesAreRight
  BY DEF WatcherInv
<1>3. /\ p # Root /\ Parent[p] \in Paths
      /\ \E f \in Callers : f.do = "children" /\ f.at = Parent[p] /\ p \in f.kept
  BY <1>1, <1>2, TopIs
<1>4. d \in BOOLEAN /\ (~d => Top.do = "new file")
  BY <1>1, <1>b
<1>g. d \in BOOLEAN
  BY <1>4
<1>e. WatchFile(p, d, D) /\ UNCHANGED <<type, stamp, unread, batch>>
  BY <1>1
<1>f. stack # <<>> /\ Top.at = p /\ Top.do \in {"new file", "new directory"}
  BY <1>1
<1>5. /\ watcher'[p] # None /\ watcher'[p].isDirectory = d /\ watcher'[p].promise = "waiting"
      /\ \A q \in Paths \ {p} : watcher'[q] = IF q \in D THEN None ELSE watcher[q]
  BY <1>g, <1>e, WatchFileMakes
<1>6. /\ D \in SUBSET Paths /\ p \in D /\ Root \notin D /\ Parent[p] \notin D
      /\ \A q \in Paths \ {Root} : Parent[q] \in D => q \in D
      /\ \A q \in Paths \ {Root} : q \in D /\ q # p => Parent[q] \in D
  <2>1. D \in SUBSET Paths /\ p \in D /\ Root \notin D /\ Closed(D)
    BY <1>3, <1>d, DescendantsAreClosed, RootIsUnderNone
  <2>2. Parent[p] \notin D
    <3>1. p \in Children(Parent[p])
      BY <1>3 DEF Children
    <3> QED BY <1>3, <1>d, <3>1, ChildrenAreBelow, DescendantsOfEachOther
  <2>3. ASSUME NEW q \in Paths \ {Root}, Parent[q] \in D  PROVE q \in D
    BY <2>1, <2>3 DEF Closed, Children
  <2> QED BY <1>d, <2>1, <2>2, <2>3, ParentsOfDescendants
<1>7. g \in Frames /\ g.at = p /\ g.do = "modified"
  <2>1. Top \in [do : Functions, at : Paths]
    BY <1>1, <1>2, StackParts
  <2> QED BY <1>1, <1>a, <2>1 DEF Frames, Functions
<1>8. /\ OnStack' = {g} \cup Callers /\ stack' # <<>> /\ Top' = g /\ SameBottom
  BY <1>1, <1>2, <1>7, WentOn
<1>9. Ahead' = Ahead
  BY <1>1 DEF Ahead
\* What is known of the function that runs, and of its caller.
<1>10. /\ d /\ p \in Lasting => IsDirectory(p)
       /\ ~d /\ (p \notin Lasting \/ Old(p)) => ~IsDirectory(p)
       /\ ~(IsUp(p) /\ IsDirectory(p))
       /\ InCallback /\ p # Last(stack).at /\ d => p \in Lasting
  <2>1. FrameIsRight(Top) /\ Top \in OnStack
    BY <1>1, <1>2, TopIs DEF SourceParts, FramesAreRight
  <2>2. Top.do = IF d THEN "new directory" ELSE "new file"
    BY <1>1, <1>4, <1>b
  <2> QED BY <1>1, <2>1, <2>2 DEF SourceParts, FramesAreRight, FrameIsRight
<1>11. IsUp(Parent[p])
  BY <1>1, <1>2, <1>3, CallersOfTop DEF SourceParts, FramesAreRight, FrameIsRight
<1>12. /\ KindsAreRight' /\ (IsUp(p)' <=> d)
       /\ \A q \in Paths \ {p} : IsUp(q)' <=> IsUp(q) /\ q \notin D
  <2>1. /\ p # Root /\ IsUp(Parent[p]) /\ Parent[p] \notin D /\ Parent[p] # p
        /\ \A q \in Paths \ {Root} : q # p /\ q \notin D => Parent[q] \notin D /\ Parent[q] # p
    BY <1>3, <1>6, <1>11
  <2> QED BY <1>e, <1>g, <1>6, <1>10, <2>1, KindsWithNew DEF SourceParts
<1>13. KernelIsRight' /\ TreeIsRight'
  BY <1>1, <1>4, KernelWithNew, TreeStays DEF SourceParts
<1>14. /\ \A r : (IsDirectory(r)' <=> IsDirectory(r)) /\ (Old(r)' <=> Old(r))
       /\ \A r : Forsaken(r)' <=> Forsaken(r)
  BY <1>1 DEF IsDirectory, Old, Forsaken
<1>15. PromisesAreRight'
  <2> SUFFICES ASSUME NEW q \in Paths, watcher'[q] # None
               PROVE  /\ watcher'[q].promise = "running" => AtBottom(q)'
                      /\ watcher'[q].promise = "none" => AtBottom(q)' \/ Gone(q)'
                      /\ watcher'[q].promise = "failed" => Gone(q)'
    BY DEF PromisesAreRight
  <2>1. CASE q = p
    BY <1>5, <2>1
  <2>2. CASE q # p
    <3>1. watcher'[q] = watcher[q] /\ q \notin D
      BY <1>5, <2>2
    <3>2. Gone(q)' <=> Gone(q)
      BY <1>12, <1>14, <2>2, <3>1 DEF Gone
    <3> QED BY <1>8, <3>1, <3>2, BottomStays DEF SourceParts, PromisesAreRight
  <2> QED BY <2>1, <2>2
<1>16. FramesAreRight'
  <2> DEFINE N == {g}
  <2>1. OnStack' \subseteq Callers \cup N
    BY <1>8
  <2>2. ASSUME NEW f \in Callers, f.do = "children"  PROVE SameWatch(f.at)
    <3>1. f.at \in Paths /\ f.at # p /\ f.at \notin D
      BY <1>1, <1>2, <1>d, <2>2, CallersAre
    <3> QED BY <1>5, <3>1 DEF SameWatch
  <2>3. \A f \in N : FrameIsRight(f)'
    BY <1>7 DEF FrameIsRight
  <2>4. \A f \in N : f.at = p
    BY <1>7
  <2>5. InCallback => \A f \in N :
          f.at # Last(stack).at /\ f.do # "new file" /\ (f.do = "modified" => IsUp(f.at)') =>
            f.at \in Lasting
    BY <1>7, <1>10, <1>12
  <2> HIDE DEF N
  <2> QED BY <1>e, <1>f, <1>2, <1>8, <2>1, <2>2, <2>3, <2>5, FramesWith DEF SourceParts
\* A directory that was there from the start has been up since the first scan.
<1>17. Old(p) => ~InCallback /\ d
  <2>1. Old(p) => IsDirectory(p)
    BY DEF Old
  <2>2. Old(p) /\ InCallback => IsUp(p)
    BY AllOldAreUp DEF SourceParts
  <2> QED BY <1>4, <1>10, <2>1, <2>2
<1>18. OldAreUp'
  <2> SUFFICES ASSUME NEW q \in Paths \ {Root}, Old(q), IsUp(Parent[q])'
               PROVE  IsUp(q)' \/ Scanned(q)'
    BY <1>14 DEF OldAreUp
  <2>1. Parent[q] \in Paths
    BY InotifyAssumption
  <2>2. CASE q = p
    BY <1>12, <1>17, <2>2
  <2>3. CASE q # p /\ Parent[q] = p
    <3>1. IsDirectory(Parent[q])
      BY DEF SourceParts, TreeIsRight, Old, IsDirectory
    <3>2. Old(p)
      BY <2>3, <3>1 DEF SourceParts, TreeIsRight, Old, IsDirectory
    <3>3. ~InCallback'
      BY <1>8, <1>17, <3>2 DEF SameBottom
    <3>4. Doing("modified", Parent[q])'
      BY <1>7, <1>8, <2>3 DEF Doing
    <3> QED BY <1>8, <3>3, <3>4 DEF Scanned
  <2>4. CASE q # p /\ Parent[q] # p
    <3>1. IsUp(Parent[q]) /\ Parent[q] \notin D /\ q \notin D
      BY <1>6, <1>12, <2>1, <2>4
    <3>2. IsUp(q) \/ Scanned(q)
      BY <3>1 DEF SourceParts, OldAreUp
    <3>3. ASSUME Scanned(q)  PROVE Scanned(q)'
      <4>1. PICK f \in OnStack : /\ f.do = "children" /\ f.at = Parent[q]
                                 /\ q \in f.left \/ (q \in f.kept /\ Doing("new directory", q))
        BY <1>1, <3>3 DEF Scanned, Doing
      <4>2. f \in Callers /\ q \in f.left
        BY <1>1, <1>2, <2>4, <4>1, CallersOfTop DEF Doing
      <4>3. f \in OnStack' /\ ~InCallback
        BY <1>8, <3>3, <4>2 DEF Scanned
      <4> QED BY <1>8, <4>1, <4>2, <4>3, ListedBelow
    <3> QED BY <1>12, <2>4, <3>1, <3>2, <3>3
  <2> QED BY <2>2, <2>3, <2>4
<1>19. /\ \A r : r # p => ~Doing("new file", r) /\ ~Doing("new directory", r)
       /\ \A r : ~Doing("new file", r)' /\ ~Doing("new directory", r)'
       /\ \A r : ~InHand(r)
       /\ InHand(p)'
  BY <1>1, <1>7, <1>8 DEF Doing, InHand
<1>20. \A q : Listing(q)' = Listing(q)
  <2> TAKE q
  <2> DEFINE N == {g}
  <2>1. OnStack' = Callers \cup N /\ \A h \in N : h.do # "children"
    BY <1>7, <1>8
  <2> HIDE DEF N
  <2> QED BY <1>1, <1>2, <2>1, ListersStay
<1>21. ListsAreRight'
  <2> SUFFICES ASSUME NEW r \in Paths \ {Root}, IsDirectory(Parent[r])', IsUp(Parent[r])'
               PROVE  ListIsRight(r)'
    BY DEF ListsAreRight
  <2>1. Parent[r] \in Paths /\ IsDirectory(Parent[r])
    BY <1>14, InotifyAssumption
  <2>2. CASE Parent[r] = p
    BY <1>19, <2>2 DEF ListIsRight, ToList
  <2>3. CASE Parent[r] # p
    <3>1. IsUp(Parent[r]) /\ Parent[r] \notin D
      BY <1>12, <2>1, <2>3
    <3>2. watcher'[Parent[r]] = watcher[Parent[r]] /\ watcher[Parent[r]] # None
      BY <1>5, <2>1, <2>3, <3>1 DEF IsUp
    <3>3. ListIsRight(r)
      BY <2>1, <3>1 DEF SourceParts, ListsAreRight
    <3>4. ToList(r) => ToList(r)'
      BY <1>9, <1>19, <3>2 DEF ToList
    <3>5. CASE r # p
      <4>1. r \notin D /\ watcher'[r] = watcher[r]
        BY <1>5, <1>6, <3>1, <3>5
      <4>2. SameWatch(r) /\ SameWatch(Parent[r])
        BY <3>2, <4>1 DEF SameWatch
      <4>3. watcher[Parent[r]].promise = "queued" => ToList(r)'
        BY <3>2 DEF ToList
      <4> QED BY <1>1, <1>9, <1>19, <1>20, <3>2, <3>3, <3>5, <4>2, <4>3, ListStays
    <3>6. CASE r = p
      <4>1. CASE ToList(p)
        BY <3>4, <3>6, <4>1 DEF ListIsRight
      <4>2. CASE ~ToList(p)
        <5>1. Listing(p) # {}
          <6>1. PICK f \in Callers : f.do = "children" /\ f.at = Parent[p] /\ p \in f.kept
            BY <1>3
          <6>2. f \in OnStack
            BY <1>1, <1>2, CallersOfTop
          <6> QED BY <6>1, <6>2 DEF Listing
        <5>2. \A f \in Listing(p) : Lists(f, p)
          BY <3>3, <3>6, <4>2, <5>1 DEF ListIsRight
        <5>3. IsNew(p) /\ ~IsNew(p)'
          BY <1>1, <1>19 DEF IsNew, Doing
        <5>4. \A f \in Listing(p) : p \in f.kept => MadeRight(p)
          BY <5>2, <5>3 DEF Lists
        <5>5. MadeRight(p) => (IsDirectory(p) <=> d)
          BY <1>4, <1>b DEF MadeRight, Doing
        <5>6. MadeRight(p) => Right(p)'
          BY <1>5, <1>12, <1>14, <5>5 DEF Right
        <5>7. \A f \in Listing(p) : Lists(f, p)'
          BY <1>1, <5>2, <5>3, <5>4, <5>6 DEF Lists
        <5> QED BY <1>20, <3>6, <5>1, <5>7 DEF ListIsRight
      <4> QED BY <4>1, <4>2
    <3> QED BY <3>5, <3>6
  <2> QED BY <2>2, <2>3
<1>22. SourcesAreRight'
  <2>1. \A q \in Paths \ {p} : source'[q] = source[q]
    BY <1>1, <1>2 DEF SourceIsTyped
  <2>2. ASSUME NEW q \in Paths \ {Root}, IsDirectory(Parent[q]), IsFile(q), watcher'[q] # None, ~IsUp(q)'
        PROVE  ContentIsRight(q)'
    <3>1. CASE q = p
      BY <1>19, <3>1 DEF ContentIsRight
    <3>2. CASE q # p
      <4>1. watcher'[q] = watcher[q] /\ watcher[q] # None /\ SameWatch(q) /\ ~IsUp(q)
        BY <1>5, <1>12, <2>2, <3>2 DEF SameWatch
      <4>2. ContentIsRight(q)
        BY <2>2, <4>1 DEF SourceParts, SourcesAreRight
      <4>3. watcher[q].promise = "queued" => ContentIsRight(q)'
        BY <4>1 DEF ContentIsRight
      <4> QED BY <1>1, <1>9, <1>19, <2>1, <3>2, <4>1, <4>2, <4>3, ContentStays
    <3> QED BY <3>1, <3>2
  <2>3. ASSUME NEW q \in Paths \ {Root}, IsDirectory(q), IsUp(q)'  PROVE source'[q] = 0
    <3>1. CASE q = p
      <4>1. d /\ Content(p) = 0
        BY <1>12, <2>3, <3>1 DEF Content, IsFile, IsDirectory
      <4> QED BY <1>1, <1>2, <3>1, <4>1 DEF SourceIsTyped
    <3>2. CASE q # p
      BY <1>12, <2>1, <2>3, <3>2 DEF SourceParts, SourcesAreRight
    <3> QED BY <3>1, <3>2
\* What was under it has been forsaken.
  <2>4. ASSUME NEW q \in Paths \ {Root}, source'[q] # None, IsDirectory(Parent[q]) \/ Parent[q] \in Lasting
        PROVE  watcher'[q] # None
    <3>1. CASE q = p
      BY <1>5, <3>1
    <3>2. CASE q # p
      <4>1. watcher[q] # None
        BY <2>1, <2>4, <3>2 DEF SourceParts, SourcesAreRight
      <4>2. q \notin D
        <5> SUFFICES ASSUME q \in D  PROVE FALSE
          OBVIOUS
        <5>1. IsUp(p)
          BY <1>d, <3>2, <4>1, UnderNoWatcher DEF SourceParts
        <5>2. Forsaken(q)
          BY <1>d, <1>10, <3>2, <4>1, <5>1, ForsakenBelow DEF SourceParts
        <5> QED BY <2>4, <5>2 DEF Forsaken
      <4> QED BY <1>5, <3>2, <4>1, <4>2
    <3> QED BY <3>1, <3>2
  <2> QED BY <1>14, <2>2, <2>3, <2>4, <1>1 DEF SourcesAreRight, IsFile, IsDirectory
<1> QED BY <1>12, <1>13, <1>15, <1>16, <1>18, <1>21, <1>22 DEF SourceParts

-----------------------------------------------------------------------------
(***************************************************************************)
(* Exceptions.                                                             *)
(***************************************************************************)

\* The path of a callback is above those of all functions that it called.
LEMMA BottomIsAbove ==
  ASSUME StackIsRight, InCallback, NEW f \in OnStack
  PROVE  f.at \in Descendants(Last(stack).at) /\ ListsItsChildren(f) /\ f \in Frames /\ f.at \in Paths
<1>1. stack # <<>>
  BY DEF InCallback
<1>2. /\ stack \in Seq(Frames) /\ Len(stack) \in Nat \ {0} /\ DOMAIN stack = 1 .. Len(stack)
      /\ Len(stack) \in DOMAIN stack /\ InOrder(stack)
  BY <1>1, StackTop DEF StackIsRight
<1>3. PICK i \in DOMAIN stack : f = stack[i]
  BY DEF OnStack, InQueue
<1>4. i <= Len(stack)
  BY <1>2
<1>5. stack[i].at \in Descendants(stack[Len(stack)].at) /\ ListsItsChildren(stack[i])
  BY <1>2, <1>4 DEF InOrder
<1> QED BY <1>2, <1>3, <1>5, FramesAreTyped DEF Last

\* What cannot be watched is in no directory.
LEMMA CannotWatch ==
  ASSUME FilesAreRight, TreeIsRight, NEW p \in Paths, ~CanWatch(p)
  PROVE  p # Root /\ ~IsDirectory(Parent[p])
<1>1. CASE StatThrows(p)
  BY <1>1 DEF StatThrows, IsDirectory
<1>2. CASE ~IsDirectory(WatchedPath(p))
  BY <1>2, WatchedPaths
<1> QED BY <1>1, <1>2 DEF CanWatch

\* In a callback only its own directory is one that cannot be listed.
LEMMA ThrowIs ==
  ASSUME WatcherInv, SourceParts, InCallback, NEW c \in Paths \ {Root}, ~IsDirectory(Parent[c]),
         \/ Top.do = "children" /\ Top.at = Parent[c]
         \/ Top.do \in {"new file", "new directory", "deleted", "resetWatch"} /\ Top.at = c,
         NEW b, b = Last(stack).at
  PROVE  /\ b \in Paths /\ watcher[b] # None /\ Gone(b)
         /\ \A f \in OnStack : f.do = "children" => f.at = b /\ ~IsDirectory(b)
         /\ \A r \in Paths \ {Root} : IsDirectory(Parent[r]) =>
              ~InHand(Parent[r]) /\ ~InHand(r) /\ ~Doing("new file", r) /\ ~Doing("new directory", r)
<1>1. stack # <<>> /\ StackIsRight
  BY DEF InCallback, WatcherInv
<1>2. b \in Paths /\ watcher[b] # None /\ Parent[c] \in Paths
  BY <1>1, BottomIs, InotifyAssumption
<1>3. CASE Top.do \in {"deleted", "resetWatch"}
  <2>1. c = b
    BY <1>1, <1>3, TopIs DEF AtBottom
  <2>2. Forsaken(b)
    <3>1. IsUp(Parent[c])
      BY <1>2, <2>1 DEF SourceParts, KindsAreRight
    <3>2. Parent[c] \notin Lasting
      BY <1>2, <3>1 DEF SourceParts, KindsAreRight
    <3> QED BY <2>1, <3>2 DEF Forsaken
  <2>3. ASSUME NEW f \in OnStack, f.do = "children"  PROVE FALSE
    <3>1. f \in Callers
      BY <1>1, <1>3, <2>3, CallersOfTop
    <3>2. f.at \in Descendants(b)
      BY <1>1, <2>3, BottomIsAbove
    <3> QED BY <1>1, <1>3, <2>1, <2>3, <3>1, <3>2, CallersAre
  <2>4. \A r : InHand(r) => r = b
    BY <1>3, <2>1 DEF InHand, Doing
  <2>5. ~IsDirectory(Parent[b]) /\ ~IsDirectory(b)
    BY <2>1 DEF SourceParts, TreeIsRight, IsDirectory
  <2>6. \A r : ~Doing("new file", r) /\ ~Doing("new directory", r)
    BY <1>3 DEF Doing
  <2> QED BY <1>2, <2>2, <2>3, <2>4, <2>5, <2>6 DEF Gone
<1>4. CASE Top.do \in {"children", "new file", "new directory"}
\* The directory is listed, and is none.
  <2>1. PICK f \in OnStack : f.do = "children" /\ f.at = Parent[c]
    <3>1. CASE Top.do = "children"
      BY <1>1, <3>1, TopIs
    <3>2. CASE Top.do # "children"
      <4>1. PICK f \in Callers : f.do = "children" /\ f.at = Parent[c]
        BY <1>1, <1>4, <3>2, TopIs
      <4>2. f \in OnStack
        BY <1>1, CallersOfTop
      <4> QED BY <4>1, <4>2
    <3> QED BY <3>1, <3>2
  <2>2. \A h \in OnStack : h.do = "children" => IsUp(h.at) /\ h.at \in Paths
    BY <1>1, BottomIsAbove DEF SourceParts, FramesAreRight, FrameIsRight
  <2>3. \A h \in OnStack : h.do = "children" /\ h.at # b => h.at \in Lasting
    BY DEF SourceParts, FramesAreRight
  <2>4. \A h \in OnStack : h.do = "children" /\ h.at # b => IsDirectory(h.at)
    BY <2>2, <2>3 DEF SourceParts, KindsAreRight
  <2>5. Parent[c] = b
    BY <2>1, <2>4
  <2>6. \A h \in OnStack : h.do = "children" => h.at = b
    <3> SUFFICES ASSUME NEW h \in OnStack, h.do = "children", h.at # b  PROVE FALSE
      OBVIOUS
    <3>1. h.at \in Descendants(b)
      BY <1>1, BottomIsAbove
    <3> QED BY <1>2, <2>4, <2>5, <3>1, UnderNoDirectory DEF SourceParts
  <2>7. Gone(b)
    BY <2>1, <2>2, <2>5 DEF Gone
  <2>8. \A r : ~InHand(r)
    BY <1>4 DEF InHand, Doing
  <2>9. \A r : Doing("new file", r) \/ Doing("new directory", r) => r = c
    BY DEF Doing
  <2> QED BY <1>2, <2>5, <2>6, <2>7, <2>8, <2>9
<1> QED BY <1>3, <1>4

\* An empty queue.
LEMMA NothingInQueue ==
  ASSUME NEW s, s = <<>>
  PROVE  InQueue(s) = {}
<1>1. DOMAIN <<>> = {}
  OBVIOUS
<1> QED BY <1>1 DEF InQueue

\* An exception destroys the new children of all lists on the stack.
LEMMA DestroyedAre ==
  ASSUME NEW r
  PROVE  r \in Destroyed <=>
           \E i \in DOMAIN stack : /\ stack[i].do = "children"
                                  /\ \E q \in stack[i].kept : r \in Descendants(q)
BY DEF Destroyed

\* An exception destroys what is under a directory that is gone, and the callback that
\* it leaves is that of this directory; out of the initial scan it ends the program.
LEMMA ThrowKeepsSources ==
  ASSUME WatcherInv, SourceParts, Throw, stack # <<>>, NEW c \in Paths \ {Root}, ~IsDirectory(Parent[c]),
         \/ Top.do = "children" /\ Top.at = Parent[c]
         \/ Top.do \in {"new file", "new directory", "deleted", "resetWatch"} /\ Top.at = c
  PROVE  SourceInv'
<1>a. PICK b : b = Last(stack).at
  OBVIOUS
<1>1. CASE ~InCallback
  <2>1. Last(stack).do # "wait"
    BY <1>1 DEF InCallback
  <2>2. terminated' \in {TRUE}
    BY <2>1 DEF Throw, Keep
  <2> QED BY <2>2 DEF SourceInv
<1>2. CASE InCallback
  <2>b. PICK G : G = Destroyed
    OBVIOUS
  <2>c. PICK v : v = [Without(Destroyed) EXCEPT ![b].promise =
                        IF watcher[b].promise = "running" THEN "failed" ELSE Without(Destroyed)[b].promise]
    OBVIOUS
  <2>d. PICK may : may = IF Last(stack).do # "wait" THEN {TRUE}
                         ELSE IF watcher[b].promise = "running" THEN {FALSE} ELSE BOOLEAN
    OBVIOUS
  <2>1. /\ Keep(v, watchByName, watched, may)
        /\ stack' = <<>>
        /\ UNCHANGED <<type, stamp, unread, batch, wds, source>>
    BY <1>a, <2>c, <2>d DEF Throw, UnchangedFiles, files
  <2>2. StackIsRight /\ WatchesAreRight
    BY DEF WatcherInv
  <2>3. /\ b \in Paths /\ watcher[b] # None /\ Gone(b)
        /\ \A f \in OnStack : f.do = "children" => f.at = b /\ ~IsDirectory(b)
    BY <1>2, <1>a, ThrowIs
  <2>4. \A r \in Paths \ {Root} : IsDirectory(Parent[r]) =>
          ~InHand(Parent[r]) /\ ~InHand(r) /\ ~Doing("new file", r) /\ ~Doing("new directory", r)
    BY <1>2, <1>a, ThrowIs
  <2>5. ASSUME NEW r \in G
        PROVE  \E q \in Children(b) : r \in Descendants(q) /\ Descendants(q) \subseteq G /\ ~IsDirectory(b)
    <3>0. PICK i \in DOMAIN stack : stack[i].do = "children" /\ \E q \in stack[i].kept : r \in Descendants(q)
      BY <2>b, <2>5, DestroyedAre
    <3>1. PICK q \in stack[i].kept : stack[i].do = "children" /\ r \in Descendants(q)
      BY <3>0
    <3>2. stack[i] \in OnStack
      BY DEF OnStack, InQueue
    <3>3. stack[i].at = b /\ ~IsDirectory(b)
      BY <2>3, <3>1, <3>2
    <3>4. q \in Children(b)
      BY <1>2, <2>2, <3>1, <3>2, <3>3, BottomIsAbove DEF ListsItsChildren
    <3>5. Descendants(q) \subseteq G
      BY <2>b, <3>1, DestroyedAre
    <3> QED BY <3>1, <3>3, <3>4, <3>5
  <2>6. /\ b \notin G /\ Root \notin G /\ \A r \in Paths \ {Root} : Parent[r] \in G => r \in G
    <3>1. ASSUME NEW r \in G  PROVE r # b /\ r # Root
      <4>1. PICK q \in Children(b) : r \in Descendants(q)
        BY <2>5, <3>1
      <4>2. q \in Paths /\ q # Root /\ Descendants(q) \subseteq Descendants(b) \ {b}
        BY <2>3, <4>1, ChildrenAreBelow
      <4>3. Root \notin Descendants(q)
        BY <4>2, RootIsUnderNone
      <4> QED BY <4>1, <4>2, <4>3
    <3>2. ASSUME NEW r \in Paths \ {Root}, Parent[r] \in G  PROVE r \in G
      <4>1. PICK q \in Children(b) : Parent[r] \in Descendants(q) /\ Descendants(q) \subseteq G
        BY <2>5, <3>2
      <4>2. Closed(Descendants(q)) /\ Descendants(q) \in SUBSET Paths
        BY <2>3, <4>1, ChildrenAreBelow, DescendantsAreClosed
      <4>3. r \in Children(Parent[r])
        BY <3>2 DEF Children
      <4> QED BY <4>1, <4>2, <4>3 DEF Closed
    <3> QED BY <3>1, <3>2
  <2>7. ASSUME NEW r \in G, watcher[r] # None  PROVE Forsaken(r)
    <3>1. ~IsDirectory(b) /\ r \in Descendants(b) /\ r # b
      <4>1. PICK q \in Children(b) : r \in Descendants(q) /\ ~IsDirectory(b)
        BY <2>5, <2>7
      <4> QED BY <2>3, <4>1, ChildrenAreBelow
    <3> QED BY <2>3, <2>7, <3>1, ForsakenBelow DEF SourceParts
  <2>8. /\ \A q \in Paths \ {b} : watcher'[q] = IF q \in G THEN None ELSE watcher[q]
        /\ SameWatch(b)
        /\ watcher'[b].promise = IF watcher[b].promise = "running" THEN "failed" ELSE watcher[b].promise
    <3> DEFINE u == Without(Destroyed)
               x == IF watcher[b].promise = "running" THEN "failed" ELSE u[b].promise
    <3>1. watcher' = v
      BY <2>1 DEF Keep
    <3>2. u = [q \in Paths |-> IF q \in G THEN None ELSE watcher[q]]
      BY <2>b DEF Without
    <3>3. u[b] = watcher[b] /\ watcher[b] \in Watchers
      BY <2>2, <2>3, <2>6, <3>2, WatcherParts
    <3>4. v = [q \in Paths |-> IF q = b THEN [u[b] EXCEPT !.promise = x] ELSE u[q]]
      BY <2>c, <2>3, <3>2
    <3> HIDE DEF u
    <3>5. x = IF watcher[b].promise = "running" THEN "failed" ELSE watcher[b].promise
      BY <3>3
    <3>6. x \in Promises
      BY <3>3, <3>5 DEF Watchers, Promises
    <3> HIDE DEF x
    <3>7. watcher'[b] = [watcher[b] EXCEPT !.promise = x]
      BY <2>3, <3>1, <3>3, <3>4
    <3>8. SameWatch(b) /\ watcher'[b].promise = x
      <4>1. [watcher[b] EXCEPT !.promise = x] # None /\ [watcher[b] EXCEPT !.promise = x].promise = x
        BY <3>3, <3>6, WatcherRecords
      <4> QED BY <2>3, <3>3, <3>7, <4>1 DEF SameWatch, Watchers
    <3>9. \A q \in Paths \ {b} : watcher'[q] = u[q]
      BY <3>1, <3>4
    <3>10. \A q \in Paths \ {b} : watcher'[q] = IF q \in G THEN None ELSE watcher[q]
      BY <3>2, <3>9
    <3> QED BY <3>5, <3>8, <3>10
  <2>9. Loses(G) /\ \A r \in Paths : watcher'[r] # None => SameWatch(r)
    BY <2>6, <2>8 DEF Loses, SameWatch
  <2>10. /\ \A q \in Paths : IsUp(q)' <=> IsUp(q) /\ q \notin G
         /\ \A q : (IsDirectory(q)' <=> IsDirectory(q)) /\ (Old(q)' <=> Old(q)) /\ (Forsaken(q)' <=> Forsaken(q))
    BY <2>1, <2>9, LosesUp DEF IsDirectory, Old, Forsaken
  <2>11. OnStack' = {} /\ ~InCallback' /\ Ahead' = Ahead
    <3>1. OnStack' = {}
      <4>1. stack' = <<>>
        BY <2>1
      <4>2. InQueue(stack') = {}
        BY <4>1, NothingInQueue
      <4> QED BY <4>2 DEF OnStack
    <3>2. ~InCallback' /\ Ahead' = Ahead
      BY <2>1 DEF InCallback, Ahead
    <3> QED BY <3>1, <3>2
  <2>12. TreeIsRight' /\ KindsAreRight'
    BY <2>1, <2>6, <2>9, TreeStays, KindsWithFewer DEF SourceParts
  <2>13. KernelIsRight'
    <3>1. watcher' = v
      BY <2>1 DEF Keep
    <3>2. \A r \in Paths : v[r] # None => watcher[r] # None /\ v[r].wd = watcher[r].wd
      BY <2>9, <3>1 DEF SameWatch
    <3> QED BY <2>1, <3>2, KernelWithKeep DEF SourceParts
  <2>14. PromisesAreRight'
    <3> SUFFICES ASSUME NEW q \in Paths, watcher'[q] # None
                 PROVE  watcher'[q].promise # "running" /\ (watcher'[q].promise \in {"none", "failed"} => Gone(q)')
      BY DEF PromisesAreRight
    <3>1. Gone(q)' <=> Gone(q)
      BY <2>9, <2>10, UpInBoth DEF Gone
    <3>2. CASE q = b
      BY <2>3, <2>8, <3>1, <3>2
    <3>3. CASE q # b
      <4>1. ~AtBottom(q)
        BY <1>a, <3>3 DEF AtBottom
      <4>2. watcher'[q] = watcher[q]
        BY <2>8, <3>3
      <4> QED BY <3>1, <4>1, <4>2 DEF SourceParts, PromisesAreRight
    <3> QED BY <3>2, <3>3
  <2>15. FramesAreRight'
    BY <2>11 DEF FramesAreRight
  <2>16. OldAreUp'
    <3> SUFFICES ASSUME NEW q \in Paths \ {Root}, Old(q), IsUp(Parent[q])'  PROVE IsUp(q)'
      BY <2>10 DEF OldAreUp
    <3>1. Parent[q] \in Paths
      BY InotifyAssumption
    <3>2. IsUp(q)
      BY <1>2, <2>10, <3>1 DEF SourceParts, OldAreUp, Scanned
    <3>3. ~Forsaken(q)
      BY DEF SourceParts, TreeIsRight, Old, IsDirectory, Forsaken
    <3>4. q \notin G
      BY <2>7, <3>2, <3>3 DEF IsUp
    <3> QED BY <2>10, <3>2, <3>4
  <2>17. \A r : ~Doing("new file", r)' /\ ~Doing("new directory", r)'
    BY <2>1 DEF Doing
  <2>18. ListsAreRight'
    <3> SUFFICES ASSUME NEW r \in Paths \ {Root}, IsDirectory(Parent[r])', IsUp(Parent[r])'
                 PROVE  ListIsRight(r)'
      BY DEF ListsAreRight
    <3>1. Parent[r] \in Paths /\ IsDirectory(Parent[r]) /\ IsUp(Parent[r]) /\ Parent[r] \notin G
      BY <2>10, InotifyAssumption
    <3>2. ListIsRight(r) /\ watcher[Parent[r]] # None
      BY <3>1 DEF SourceParts, ListsAreRight, IsUp
    <3>3. r \in G => watcher[r] = None
      BY <2>7, <3>1 DEF Forsaken
    <3>4. SameWatch(r) /\ SameWatch(Parent[r])
      BY <2>9, <3>1, <3>3 DEF Loses, SameWatch
    <3>5. watcher[Parent[r]].promise = "queued" => ToList(r)'
      BY <2>8, <3>1 DEF ToList
    <3>6. Listing(r)' = Listing(r)
      BY <2>3, <2>11, <3>1 DEF Listing
    <3> QED BY <2>1, <2>4, <2>11, <2>17, <3>1, <3>2, <3>4, <3>5, <3>6, ListStays
  <2>19. SourcesAreRight'
    <3> DEFINE F == {}
    <3>1. \A q \in Paths : source'[q] = IF q \in F THEN None ELSE source[q]
      BY <2>1
    <3>2. \A q \in F : FALSE
      OBVIOUS
    <3> HIDE DEF F
    <3>3. ASSUME NEW q \in Paths \ {Root}, IsDirectory(Parent[q]), watcher[q] # None, watcher'[q] # None, ContentIsRight(q)
          PROVE  ContentIsRight(q)'
      <4>1. watcher[q].promise = "queued" => ContentIsRight(q)'
        BY <2>8, <3>3 DEF ContentIsRight
      <4>2. ~InHand(q) /\ SameWatch(q) /\ Ahead \subseteq Ahead'
        BY <2>4, <2>9, <2>11, <3>3
      <4>3. source'[q] = source[q] /\ stamp'[q] = stamp[q]
        BY <2>1
      <4> QED BY <3>3, <4>1, <4>2, <4>3, ContentStays
    <3>4. \A q \in Paths \ {Root} : watcher[q] # None /\ watcher'[q] = None => q \in F \/ Forsaken(q)
      BY <2>7, <2>9 DEF Loses, SameWatch
    <3> QED BY <2>1, <2>9, <3>1, <3>2, <3>3, <3>4, SourcesWith DEF SourceParts
  <2> QED BY <2>12, <2>13, <2>14, <2>15, <2>16, <2>18, <2>19 DEF SourceInv, SourceParts
<1> QED BY <1>1, <1>2

\* stat() throws for a child of what is a file now ...
LEMMA ChildThrowsKeepsSources ==
  ASSUME WatcherInv, SourceParts, NEW p \in Paths, NEW q \in Paths, Child(p, q), StatThrows(q)
  PROVE  SourceInv'
<1>1. stack # <<>> /\ Top.do = "children" /\ Top.at = p /\ Throw
  BY DEF Child, Doing
<1>2. q \in Paths \ {Root} /\ Parent[q] = p
  <2>1. q \in Top.left /\ StackIsRight
    BY DEF Child, WatcherInv
  <2>2. ListsItsChildren(Top)
    BY <1>1, <2>1, StackParts
  <2> QED BY <1>1, <2>1, <2>2, ChildrenAreBelow DEF ListsItsChildren
<1>3. ~IsDirectory(Parent[q])
  BY DEF StatThrows, IsDirectory
<1> QED BY <1>1, <1>2, <1>3, ThrowKeepsSources

\* ... inotify_add_watch() fails for it ...
LEMMA NewChildThrowsKeepsSources ==
  ASSUME WatcherInv, SourceParts, NEW p \in Paths, NewChild(p), ~CanWatch(p)
  PROVE  SourceInv'
<1>1. stack # <<>> /\ Top.do \in {"new file", "new directory"} /\ Top.at = p /\ Throw
  BY DEF NewChild
<1>2. p \in Paths \ {Root} /\ ~IsDirectory(Parent[p])
  BY CannotWatch DEF WatcherInv, SourceParts
<1> QED BY <1>1, <1>2, ThrowKeepsSources

\* ... or in resetWatch() ...
LEMMA ResetWatchThrowsKeepsSources ==
  ASSUME WatcherInv, SourceParts, NEW p \in Paths, ResetWatch(p), ~CanWatch(p)
  PROVE  SourceInv'
<1>1. stack # <<>> /\ Top.do = "resetWatch" /\ Top.at = p /\ Throw
  BY DEF ResetWatch, Doing
<1>2. p \in Paths \ {Root} /\ ~IsDirectory(Parent[p])
  BY CannotWatch DEF WatcherInv, SourceParts
<1> QED BY <1>1, <1>2, ThrowKeepsSources

\* ... and so does stat() in deleted().
LEMMA DeletedThrowsKeepsSources ==
  ASSUME WatcherInv, SourceParts, NEW p \in Paths, Deleted(p), StatThrows(p)
  PROVE  SourceInv'
<1>1. stack # <<>> /\ Top.do = "deleted" /\ Top.at = p /\ Throw
  BY DEF Deleted, Doing
<1>2. p \in Paths \ {Root} /\ ~IsDirectory(Parent[p])
  BY DEF StatThrows, IsDirectory
<1> QED BY <1>1, <1>2, ThrowKeepsSources

-----------------------------------------------------------------------------
(***************************************************************************)
(* Callbacks and events.                                                   *)
(***************************************************************************)

\* A step that only calls a callback, or ends it.
LEMMA OutOfCallbacks ==
  ASSUME WatcherInv, SourceParts, UNCHANGED <<type, stamp, inotify, source>>, Ahead' = Ahead,
         \A q \in Paths : SameWatch(q),
         \A q : ~InHand(q) /\ ~IsNew(q) /\ ~IsNew(q)' /\ ~Scanned(q),
         \A q \in Paths : Listing(q) = {} /\ Listing(q)' = {},
         \A q \in Paths : watcher[q] # None /\ watcher[q].promise = "queued" =>
           watcher'[q].promise = "queued" \/ InHand(q)'
  PROVE  TreeIsRight' /\ KernelIsRight' /\ KindsAreRight' /\ OldAreUp' /\ ListsAreRight' /\ SourcesAreRight'
<1>1. UNCHANGED <<wds, watched, watchByName>> /\ UNCHANGED type /\ UNCHANGED stamp
  BY DEF inotify
<1>2. TreeIsRight' /\ KindsAreRight'
  BY TreeStays, KindsStay DEF SourceParts
<1>3. KernelIsRight'
  <2> DEFINE U == {}
  <2>1. /\ watched' = watched \ U
        /\ watchByName' = [p \in Paths |-> IF watchByName[p] \in U THEN None ELSE watchByName[p]]
    BY <1>1 DEF WatcherInv, WatchesAreRight
  <2>2. \A p \in Paths : watcher'[p] # None =>
          watcher[p] # None /\ watcher'[p].wd = watcher[p].wd /\ watcher[p].wd \notin U
    BY DEF SameWatch
  <2>3. Ahead' \subseteq Ahead
    OBVIOUS
  <2> HIDE DEF U
  <2> QED BY <1>1, <2>1, <2>2, <2>3, KernelWithFewer DEF SourceParts
<1>4. /\ \A q \in Paths : IsUp(q)' <=> IsUp(q)
      /\ \A q : IsDirectory(q)' <=> IsDirectory(q)
      /\ \A q \in Paths \ {Root} : Parent[q] \in Paths
  BY <1>1, AllStayUp, InotifyAssumption DEF IsDirectory
<1>5. OldAreUp'
  BY <1>1, <1>4, OldStayUp DEF SourceParts
<1>6. \A q : /\ ~Doing("new file", q) /\ ~Doing("new directory", q)
             /\ ~Doing("new file", q)' /\ ~Doing("new directory", q)'
  BY DEF IsNew
<1>7. ListsAreRight'
  <2> SUFFICES ASSUME NEW r \in Paths \ {Root}, IsDirectory(Parent[r])', IsUp(Parent[r])'
               PROVE  ListIsRight(r)'
    BY DEF ListsAreRight
  <2>1. /\ Parent[r] \in Paths /\ IsDirectory(Parent[r]) /\ IsUp(Parent[r])
        /\ SameWatch(r) /\ SameWatch(Parent[r])
    BY <1>4
  <2>2. ListIsRight(r) /\ watcher[Parent[r]] # None
    BY <2>1 DEF SourceParts, ListsAreRight, IsUp
  <2>3. watcher[Parent[r]].promise = "queued" => ToList(r)'
    BY <2>1, <2>2 DEF ToList
  <2>4. Listing(r)' = Listing(r) /\ Ahead \subseteq Ahead'
    OBVIOUS
  <2> QED BY <1>1, <1>6, <2>1, <2>2, <2>3, <2>4, ListStays
<1>8. SourcesAreRight'
  <2> DEFINE F == {}
  <2>1. \A q \in Paths : source'[q] = IF q \in F THEN None ELSE source[q]
    OBVIOUS
  <2>2. /\ \A q \in Paths : watcher'[q] # None => SameWatch(q)
        /\ \A q \in Paths : watcher'[q] # None <=> watcher[q] # None
    BY DEF SameWatch
  <2>3. ASSUME NEW q \in Paths \ {Root}, watcher[q] # None, ContentIsRight(q)  PROVE ContentIsRight(q)'
    <3>1. watcher[q].promise = "queued" => ContentIsRight(q)'
      BY <2>3 DEF ContentIsRight
    <3>2. source'[q] = source[q] /\ stamp'[q] = stamp[q] /\ Ahead \subseteq Ahead' /\ SameWatch(q)
      OBVIOUS
    <3> QED BY <2>3, <3>1, <3>2, ContentStays
  <2>4. \A q \in F : FALSE
    OBVIOUS
  <2> HIDE DEF F
  <2> QED BY <1>1, <2>1, <2>2, <2>3, <2>4, SourcesWith DEF SourceParts
<1> QED BY <1>2, <1>3, <1>5, <1>7, <1>8

\* What a callback was queued for is in hand while it runs.
LEMMA RunCallbackKeepsSources ==
  ASSUME WatcherInv, SourceParts, NEW p \in Paths, RunCallback(p)
  PROVE  SourceParts'
<1>a. PICK g : g = [do |-> watcher[p].change, at |-> p]
  OBVIOUS
<1>b. PICK f : f = [do |-> "wait", at |-> p]
  OBVIOUS
<1>1. /\ stack = <<>> /\ callbacks # <<>> /\ p = Head(callbacks)
      /\ watcher' = [watcher EXCEPT ![p].promise = "running"] /\ stack' = <<g, f>>
      /\ UNCHANGED <<inotify, type, stamp, unread, batch, source>>
  BY <1>a, <1>b DEF RunCallback, UnchangedFiles, files
<1>2. /\ WatchesAreRight /\ watcher \in [Paths -> Watchers \cup {None}]
      /\ watcher[p] # None /\ watcher[p] \in Watchers
      /\ watcher[p].change \in {"modified", "deleted"}
  <2>1. WatchesAreRight
    BY DEF WatcherInv
  <2>2. /\ Known(watcher, wds) /\ callbacks \in Seq(Paths)
        /\ OnceEach(callbacks) /\ InQueue(callbacks) = {q \in Paths : IsQueued(watcher, q)}
    BY <2>1, WatcherParts DEF WatchesAreRight
  <2>3. IsQueued(watcher, p)
    BY <1>1, <2>2, QueueOfOneLess
  <2> QED BY <2>1, <2>2, <2>3 DEF WatchesAreRight, Known, ChangesAreSaid, IsQueued
<1>3. /\ g \in Frames /\ f \in Frames /\ g.at = p /\ f.at = p /\ f.do = "wait"
      /\ g.do \in {"modified", "deleted"}
  BY <1>2, <1>a, <1>b DEF Frames, Functions
<1>4. /\ \A q \in Paths \ {p} : watcher'[q] = watcher[q]
      /\ watcher'[p].promise = "running"
      /\ \A q \in Paths : SameWatch(q)
  <2>1. /\ watcher'[p] = [watcher[p] EXCEPT !.promise = "running"]
        /\ \A q \in Paths \ {p} : watcher'[q] = watcher[q]
    BY <1>1, <1>2
  <2>2. "running" \in Promises
    BY DEF Promises
  <2>3. /\ [watcher[p] EXCEPT !.promise = "running"] # None
        /\ [watcher[p] EXCEPT !.promise = "running"].promise = "running"
    BY <1>2, <2>2, WatcherRecords
  <2>4. watcher'[p].promise = "running" /\ SameWatch(p)
    BY <1>2, <2>1, <2>3 DEF SameWatch, Watchers
  <2>5. \A q \in Paths \ {p} : SameWatch(q)
    BY <2>1 DEF SameWatch
  <2> QED BY <2>1, <2>4, <2>5
<1>5. /\ stack' # <<>> /\ Top' = g /\ Last(stack') = f /\ OnStack' = {g, f}
  <2>1. /\ <<g, f>> # <<>> /\ Head(<<g, f>>) = g
        /\ DOMAIN <<g, f>> = {1, 2} /\ <<g, f>>[1] = g /\ <<g, f>>[2] = f /\ Len(<<g, f>>) = 2
    BY <1>3
  <2>2. InQueue(<<g, f>>) = {g, f}
    BY <2>1 DEF InQueue
  <2>3. Last(<<g, f>>) = f
    BY <2>1 DEF Last
  <2> QED BY <1>1, <2>1, <2>2, <2>3 DEF Top, OnStack
<1>6. OnStack = {} /\ ~InCallback /\ Ahead' = Ahead
  BY <1>1, NothingInQueue DEF OnStack, InCallback, Ahead
<1>7. AtBottom(p)' /\ InHand(p)' /\ InCallback'
  BY <1>3, <1>5 DEF AtBottom, InHand, InCallback, Doing
<1>8. \A q : ~InHand(q) /\ ~IsNew(q) /\ ~IsNew(q)' /\ ~Scanned(q)
  BY <1>1, <1>3, <1>5 DEF InHand, IsNew, Doing, Scanned
<1>9. \A q \in Paths : Listing(q) = {} /\ Listing(q)' = {}
  BY <1>3, <1>5, <1>6 DEF Listing
<1>10. TreeIsRight' /\ KernelIsRight' /\ KindsAreRight' /\ OldAreUp' /\ ListsAreRight' /\ SourcesAreRight'
  BY <1>1, <1>4, <1>6, <1>7, <1>8, <1>9, OutOfCallbacks
<1>11. PromisesAreRight'
  <2>1. \A q : ~AtBottom(q)
    BY <1>6 DEF AtBottom
  <2>2. \A q \in Paths : watcher'[q] # None =>
          \/ watcher'[q].promise = watcher[q].promise
          \/ watcher'[q].promise = "running" /\ AtBottom(q)'
    BY <1>4, <1>7
  <2> QED BY <1>1, <1>4, <2>1, <2>2, PromisesStay DEF SourceParts
<1>12. FramesAreRight'
  <2>1. \A h \in OnStack' : h.at = p /\ h.do \in {"modified", "deleted", "wait"}
    BY <1>3, <1>5
  <2>2. \A h \in OnStack' : FrameIsRight(h)'
    BY <2>1 DEF FrameIsRight
  <2>3. Last(stack').at = p
    BY <1>3, <1>5
  <2> QED BY <2>1, <2>2, <2>3 DEF FramesAreRight
<1> QED BY <1>10, <1>11, <1>12 DEF SourceParts

\* A change that came meanwhile is told at the end of the callback.
LEMMA WaitForEventKeepsSources ==
  ASSUME WatcherInv, SourceParts, NEW p \in Paths, WaitForEvent(p)
  PROVE  SourceParts'
<1>1. /\ stack # <<>> /\ Top.do = "wait" /\ Top.at = p
      /\ watcher' = [watcher EXCEPT ![p] = OnChange(watcher[p])] /\ Return
      /\ UNCHANGED <<inotify, type, stamp, unread, batch, source>>
  BY DEF WaitForEvent, Doing, UnchangedFiles, files
<1>2. /\ StackIsRight /\ WatchesAreRight /\ watcher \in [Paths -> Watchers \cup {None}]
  BY DEF WatcherInv, WatchesAreRight, Known
<1>3. watcher[p] # None /\ watcher[p] \in Watchers /\ watcher[p].promise # "queued"
  BY <1>1, <1>2, StackParts DEF IsQueued
<1>4. stack' = <<>> /\ Callers = {} /\ AtBottom(p) /\ OnStack = {Top}
  BY <1>1, <1>2, Returned, TopIs, CallersOfTop
<1>5. /\ \A q \in Paths \ {p} : watcher'[q] = watcher[q]
      /\ watcher'[p].promise \in {"waiting", "queued"}
      /\ \A q \in Paths : SameWatch(q)
  <2>1. watcher'[p] = OnChange(watcher[p]) /\ \A q \in Paths \ {p} : watcher'[q] = watcher[q]
    BY <1>1, <1>2
  <2>2. OnChange(watcher[p]) # None
    BY <1>3, WatchersOnChange
  <2>3. watcher'[p].promise \in {"waiting", "queued"} /\ SameWatch(p)
    BY <1>3, <2>1, <2>2 DEF SameWatch, Watchers, OnChange
  <2>4. \A q \in Paths \ {p} : SameWatch(q)
    BY <2>1 DEF SameWatch
  <2> QED BY <2>1, <2>3, <2>4
<1>6. OnStack' = {} /\ ~InCallback' /\ Ahead' = Ahead
  BY <1>1, <1>4, NothingInQueue DEF OnStack, InCallback, Ahead
<1>7. \A q : ~InHand(q) /\ ~IsNew(q) /\ ~IsNew(q)' /\ ~Scanned(q)
  BY <1>1, <1>4 DEF InHand, IsNew, Doing, Scanned, AtBottom
<1>8. \A q \in Paths : Listing(q) = {} /\ Listing(q)' = {}
  BY <1>1, <1>4, <1>6 DEF Listing
<1>9. TreeIsRight' /\ KernelIsRight' /\ KindsAreRight' /\ OldAreUp' /\ ListsAreRight' /\ SourcesAreRight'
  <2>1. \A q \in Paths : watcher[q] # None /\ watcher[q].promise = "queued" => watcher'[q].promise = "queued"
    BY <1>3, <1>5
  <2> QED BY <1>1, <1>5, <1>6, <1>7, <1>8, <2>1, OutOfCallbacks
<1>10. PromisesAreRight'
  <2> SUFFICES ASSUME NEW q \in Paths, watcher'[q] # None
               PROVE  watcher'[q].promise # "running" /\ (watcher'[q].promise \in {"none", "failed"} => Gone(q)')
    BY DEF PromisesAreRight
  <2>1. CASE q = p
    BY <1>5, <2>1
  <2>2. CASE q # p
    <3>1. watcher'[q] = watcher[q] /\ ~AtBottom(q)
      BY <1>4, <1>5, <2>2 DEF AtBottom
    <3>2. Gone(q)' <=> Gone(q)
      BY <1>1, <1>5, UpInBoth DEF Gone, Forsaken, IsDirectory
    <3> QED BY <3>1, <3>2 DEF SourceParts, PromisesAreRight
  <2> QED BY <2>1, <2>2
<1>11. FramesAreRight'
  BY <1>6 DEF FramesAreRight
<1> QED BY <1>9, <1>10, <1>11 DEF SourceParts

\* Events that have been read are still to be handled.
LEMMA ReadKeepsSources ==
  ASSUME WatcherInv, SourceParts, stack = <<>>, Read, UNCHANGED <<stack, source>>
  PROVE  SourceParts'
<1>1. UNCHANGED <<type, stamp, inotify, watcher, source, stack>> /\ batch = <<>> /\ batch' = unread /\ unread' = <<>>
  BY DEF Read, files
<1>2. Ahead' = Ahead
  BY <1>1, NothingInQueue DEF Ahead
<1>3. OnStack = {} /\ OnStack' = {} /\ ~InCallback /\ ~InCallback'
  BY <1>1, NothingInQueue DEF OnStack, InCallback
<1>4. \A q \in Paths : SameWatch(q)
  BY <1>1 DEF SameWatch
<1>5. \A q : ~InHand(q) /\ ~IsNew(q) /\ ~IsNew(q)' /\ ~Scanned(q)
  BY <1>1 DEF InHand, IsNew, Doing, Scanned
<1>6. \A q \in Paths : Listing(q) = {} /\ Listing(q)' = {}
  BY <1>3 DEF Listing
<1>7. TreeIsRight' /\ KernelIsRight' /\ KindsAreRight' /\ OldAreUp' /\ ListsAreRight' /\ SourcesAreRight'
  BY <1>1, <1>2, <1>4, <1>5, <1>6, OutOfCallbacks
<1>8. PromisesAreRight'
  <2>1. \A q : ~AtBottom(q)
    BY <1>3 DEF AtBottom
  <2> QED BY <1>1, <1>4, <2>1, PromisesStay DEF SourceParts
<1>9. FramesAreRight'
  BY <1>3 DEF FramesAreRight
<1> QED BY <1>7, <1>8, <1>9 DEF SourceParts

\* Of the events in the batch, one is the next.
LEMMA QueueWithoutHead ==
  ASSUME NEW S, NEW q \in Seq(S), q # <<>>
  PROVE  /\ Head(q) \in InQueue(q) /\ InQueue(Tail(q)) \subseteq InQueue(q)
         /\ InQueue(q) \subseteq InQueue(Tail(q)) \cup {Head(q)}
<1>1. /\ Len(q) \in Nat \ {0} /\ DOMAIN q = 1 .. Len(q) /\ Head(q) = q[1]
      /\ DOMAIN Tail(q) = 1 .. Len(q) - 1
      /\ \A i \in 1 .. Len(q) - 1 : Tail(q)[i] = q[i + 1]
  OBVIOUS
<1>2. Head(q) \in InQueue(q)
  BY <1>1 DEF InQueue
<1>3. ASSUME NEW x \in InQueue(Tail(q))  PROVE x \in InQueue(q)
  <2>1. PICK i \in 1 .. Len(q) - 1 : x = q[i + 1]
    BY <1>1, <1>3 DEF InQueue
  <2>2. i + 1 \in DOMAIN q
    BY <1>1
  <2> QED BY <2>1, <2>2 DEF InQueue
<1>4. ASSUME NEW x \in InQueue(q), x # Head(q)  PROVE x \in InQueue(Tail(q))
  <2>1. PICK i \in DOMAIN q : x = q[i]
    BY <1>4 DEF InQueue
  <2>2. i # 1
    BY <1>1, <1>4, <2>1
  <2>3. i - 1 \in 1 .. Len(q) - 1 /\ (i - 1) + 1 = i
    BY <1>1, <2>2
  <2>4. i - 1 \in DOMAIN Tail(q) /\ Tail(q)[i - 1] = x
    BY <1>1, <2>1, <2>3
  <2> QED BY <2>4 DEF InQueue
<1> QED BY <1>2, <1>3, <1>4

\* What an event does that is the next.
LEMMA HandleEventDoes ==
  ASSUME WatcherInv, HandleEvent, NEW e, e = Head(batch)
  PROVE  /\ e \in Ahead /\ Ahead' \subseteq Ahead /\ Ahead \subseteq Ahead' \cup {e}
         /\ \A p \in Paths : SameWatch(p)
         /\ \A p \in Paths : watcher[p] # None =>
              \/ watcher'[p].promise = watcher[p].promise
              \/ watcher'[p].promise = "queued"
         /\ \A p \in Paths : /\ watcher[p] # None /\ watcher[p].wd = e.wd
                             /\ \E q \in Paths : watchByName[q] = e.wd
                             /\ \/ watcher[p].name = e.name
                                \/ watcher[p].name = None /\ e.name # None /\ e.what \in {"create", "delete"}
                             /\ watcher[p].promise \in {"waiting", "queued"}
                             => watcher'[p].promise = "queued"
         /\ \A p \in Paths : \/ watchByName'[p] = watchByName[p]
                             \/ /\ e.what \in {"delete self", "move self"} /\ watchByName[p] = e.wd
                                /\ watchByName'[p] = None
<1> DEFINE known == \E p \in Paths : watchByName[p] = e.wd
           change == IF e.what \in {"delete", "delete self", "move self"}
                     THEN "deleted" ELSE "modified"
           named == IF known THEN Flagged(e) ELSE {}
           directory == IF known THEN FlaggedDirectory(e) ELSE {}
           flagged == [p \in Paths |->
                         IF p \in named THEN Flag(watcher[p], change)
                         ELSE IF p \in directory THEN Flag(watcher[p], "modified")
                         ELSE watcher[p]]
<1>1. /\ batch # <<>> /\ batch' = Tail(batch) /\ unread' = unread
      /\ watcher' = flagged
      /\ watchByName' = [p \in Paths |->
                           IF e.what \in {"delete self", "move self"} /\ watchByName[p] = e.wd
                           THEN None ELSE watchByName[p]]
  BY DEF HandleEvent
<1>2. e \in Ahead /\ Ahead' \subseteq Ahead /\ Ahead \subseteq Ahead' \cup {e}
  <2>1. batch \in Seq(Events)
    BY DEF WatcherInv, FilesAreRight
  <2>3. /\ e \in InQueue(batch) /\ InQueue(Tail(batch)) \subseteq InQueue(batch)
        /\ InQueue(batch) \subseteq InQueue(Tail(batch)) \cup {e}
    BY <1>1, <2>1, QueueWithoutHead
  <2> QED BY <1>1, <2>3 DEF Ahead
<1>3. \A p \in Paths : watcher[p] # None => watcher[p] \in Watchers
  BY WatcherParts DEF WatcherInv
<1>4. change \in {"modified", "deleted"}
  OBVIOUS
<1>5. /\ \A p \in named : p \in Paths /\ watcher[p] # None
      /\ \A p \in directory : p \in Paths /\ watcher[p] # None
  BY DEF Flagged, FlaggedDirectory
<1>6. \A p \in Paths : /\ watcher[p] # None /\ watcher[p].wd = e.wd /\ known
                       /\ \/ watcher[p].name = e.name
                          \/ watcher[p].name = None /\ e.name # None /\ e.what \in {"create", "delete"}
                       => p \in named \/ p \in directory
  BY DEF Flagged, FlaggedDirectory
<1> HIDE DEF named, directory, change, known
<1>7. ASSUME NEW w \in Watchers, NEW c \in {"modified", "deleted"}
      PROVE  /\ Flag(w, c) # None
             /\ Flag(w, c).isDirectory = w.isDirectory /\ Flag(w, c).wd = w.wd /\ Flag(w, c).name = w.name
             /\ Flag(w, c).promise = IF w.promise = "waiting" THEN "queued" ELSE w.promise
  <2>1. Flag(w, c) # None
    BY <1>7, FlaggedWatchers
  <2> QED BY <1>7, <2>1 DEF Flag, Watchers
<1>8. ASSUME NEW p \in Paths
      PROVE  /\ SameWatch(p)
             /\ watcher[p] # None =>
                  \/ watcher'[p].promise = watcher[p].promise
                  \/ watcher'[p].promise = "queued"
             /\ p \in named \/ p \in directory =>
                  watcher'[p].promise = IF watcher[p].promise = "waiting" THEN "queued" ELSE watcher[p].promise
  <2>1. CASE p \in named \/ p \in directory
    <3>1. PICK c \in {"modified", "deleted"} : watcher'[p] = Flag(watcher[p], c)
      BY <1>1, <1>4, <2>1
    <3>2. watcher[p] \in Watchers /\ watcher[p] # None
      BY <1>3, <1>5, <2>1
    <3>3. /\ watcher'[p] # None
          /\ watcher'[p].isDirectory = watcher[p].isDirectory
          /\ watcher'[p].wd = watcher[p].wd /\ watcher'[p].name = watcher[p].name
          /\ watcher'[p].promise = IF watcher[p].promise = "waiting" THEN "queued" ELSE watcher[p].promise
      BY <1>7, <3>1, <3>2
    <3> QED BY <3>2, <3>3 DEF SameWatch
  <2>2. CASE p \notin named /\ p \notin directory
    <3>1. watcher'[p] = watcher[p]
      BY <1>1, <2>2
    <3> QED BY <2>2, <3>1 DEF SameWatch
  <2> QED BY <2>1, <2>2
<1>9. \A p \in Paths : /\ watcher[p] # None /\ watcher[p].wd = e.wd /\ known
                       /\ \/ watcher[p].name = e.name
                          \/ watcher[p].name = None /\ e.name # None /\ e.what \in {"create", "delete"}
                       /\ watcher[p].promise \in {"waiting", "queued"}
                       => watcher'[p].promise = "queued"
  BY <1>6, <1>8
<1>10. \A p \in Paths : \/ watchByName'[p] = watchByName[p]
                        \/ /\ e.what \in {"delete self", "move self"} /\ watchByName[p] = e.wd
                           /\ watchByName'[p] = None
  BY <1>1
<1> QED BY <1>2, <1>8, <1>9, <1>10 DEF known

\* The next event queues the callback that it was to be heard by.
LEMMA HandleEventKeepsSources ==
  ASSUME WatcherInv, SourceParts, stack = <<>>, HandleEvent, UNCHANGED <<stack, source>>
  PROVE  SourceParts'
<1>a. PICK e : e = Head(batch)
  OBVIOUS
<1>1. UNCHANGED <<type, stamp, wds, watched, source, stack>>
  BY DEF HandleEvent, files
<1>2. /\ e \in Ahead /\ Ahead' \subseteq Ahead /\ Ahead \subseteq Ahead' \cup {e}
      /\ \A p \in Paths : SameWatch(p)
      /\ \A p \in Paths : watcher[p] # None =>
           \/ watcher'[p].promise = watcher[p].promise
           \/ watcher'[p].promise = "queued"
      /\ \A p \in Paths : \/ watchByName'[p] = watchByName[p]
                          \/ /\ e.what \in {"delete self", "move self"} /\ watchByName[p] = e.wd
                             /\ watchByName'[p] = None
  BY <1>a, HandleEventDoes
<1>3. ASSUME NEW p \in Paths, watcher[p] # None, watcher[p].wd = e.wd,
             \E q \in Paths : watchByName[q] = e.wd,
             \/ watcher[p].name = e.name
             \/ watcher[p].name = None /\ e.name # None /\ e.what \in {"create", "delete"},
             watcher[p].promise \in {"waiting", "queued"}
      PROVE  watcher'[p].promise = "queued"
  BY <1>a, <1>3, HandleEventDoes
<1>4. OnStack = {} /\ OnStack' = {} /\ ~InCallback /\ ~InCallback'
  BY <1>1, NothingInQueue DEF OnStack, InCallback
<1>5. \A q : /\ ~InHand(q) /\ ~Scanned(q) /\ ~AtBottom(q)
             /\ ~Doing("new file", q) /\ ~Doing("new directory", q)
             /\ ~Doing("new file", q)' /\ ~Doing("new directory", q)'
  BY <1>1, <1>4 DEF InHand, Doing, Scanned, AtBottom
<1>6. /\ \A q \in Paths : IsUp(q)' <=> IsUp(q)
      /\ \A q : IsDirectory(q)' <=> IsDirectory(q)
      /\ \A q \in Paths \ {Root} : Parent[q] \in Paths
  BY <1>1, <1>2, AllStayUp, InotifyAssumption DEF IsDirectory
<1>7. TreeIsRight' /\ KindsAreRight'
  BY <1>1, <1>2, TreeStays, KindsStay DEF SourceParts
\* The descriptor that is forgotten is that of no directory.
<1>8. KernelIsRight'
  <2>1. /\ wds \in Seq(Descriptors) /\ watched \in SUBSET DOMAIN wds
        /\ \A p \in Paths : watcher[p] # None => watcher[p].wd \in DOMAIN wds
        /\ None \notin DOMAIN wds
    <3>1. WatchesAreRight
      BY DEF WatcherInv
    <3>2. DOMAIN wds \subseteq Nat
      BY <3>1, WatcherParts
    <3> QED BY <3>1, <3>2, InotifyAssumption DEF WatchesAreRight, Known
  <2>2. \A w \in DOMAIN wds : Dir(w) \in Paths
    BY <2>1 DEF Descriptors, Dir
  <2>3. ASSUME NEW w \in DOMAIN wds, type[Dir(w)] = "directory", watchByName[Dir(w)] = w
        PROVE  watchByName'[Dir(w)] = w
    <3>1. e.what \in {"delete self", "move self"} => e.wd # w
      BY <1>2, <2>3 DEF SourceParts, KernelIsRight, IsDirectory
    <3> QED BY <1>2, <2>2, <2>3, <3>1
  <2>4. \A w \in watched : type[Dir(w)] = "directory" => watchByName'[Dir(w)] = w
    BY <2>1, <2>3 DEF SourceParts, KernelIsRight, IsDirectory
  <2>5. \A p \in Paths : watcher'[p] # None /\ type[Dir(watcher'[p].wd)] = "directory" =>
          watchByName'[Dir(watcher'[p].wd)] = watcher'[p].wd
    <3> SUFFICES ASSUME NEW p \in Paths, watcher'[p] # None, type[Dir(watcher'[p].wd)] = "directory"
                 PROVE  watchByName'[Dir(watcher'[p].wd)] = watcher'[p].wd
      OBVIOUS
    <3>1. watcher[p] # None /\ watcher'[p].wd = watcher[p].wd
      BY <1>2 DEF SameWatch
    <3>2. watchByName[Dir(watcher[p].wd)] = watcher[p].wd
      BY <3>1 DEF SourceParts, KernelIsRight, IsDirectory
    <3> QED BY <2>1, <2>3, <3>1, <3>2
  <2>6. \A p \in Paths : type[p] = "directory" /\ watchByName'[p] # None => watchByName'[p] \in watched
    BY <1>2 DEF SourceParts, KernelIsRight, IsDirectory
  <2>7. /\ \A w \in DOMAIN wds : type[Dir(w)] = "directory" => wds[w][2] = stamp[Dir(w)]
        /\ \A w \in DOMAIN wds : Dir(w) \in Lasting => type[Dir(w)] = "directory"
        /\ \A x \in Ahead' : x.what \in {"delete self", "move self"} =>
             x.wd \in DOMAIN wds /\ type[Dir(x.wd)] # "directory"
    BY <1>2 DEF SourceParts, KernelIsRight, IsDirectory
  <2> QED BY <1>1, <2>4, <2>5, <2>6, <2>7 DEF KernelIsRight, IsDirectory, Dir
<1>9. PromisesAreRight'
  <2>1. \A q \in Paths : watcher'[q] # None =>
          \/ watcher'[q].promise = watcher[q].promise
          \/ watcher'[q].promise = "queued"
    BY <1>2 DEF SameWatch
  <2> QED BY <1>1, <1>2, <1>5, <2>1, PromisesStay DEF SourceParts
<1>10. FramesAreRight'
  BY <1>4 DEF FramesAreRight
<1>11. OldAreUp'
  BY <1>1, <1>5, <1>6, OldStayUp DEF SourceParts
\* Watchers of what is there can be told.
<1>12. ASSUME NEW q \in Paths, watcher[q] # None, q # Root => IsDirectory(Parent[q]), ~(IsUp(q) /\ ~IsDirectory(q))
       PROVE  watcher[q].promise \in {"waiting", "queued"}
  <2>1. watcher[q].promise \in Promises
    BY <1>12, WatcherParts DEF WatcherInv, Watchers
  <2>2. ~Gone(q)
    BY <1>12 DEF Gone, Forsaken
  <2> QED BY <1>5, <1>12, <2>1, <2>2 DEF SourceParts, PromisesAreRight, Promises
<1>13. ListsAreRight'
  <2> SUFFICES ASSUME NEW r \in Paths \ {Root}, IsDirectory(Parent[r])', IsUp(Parent[r])'
               PROVE  ListIsRight(r)'
    BY DEF ListsAreRight
  <2>1. PICK q \in Paths : q = Parent[r]
    BY <1>6
  <2>2. IsDirectory(q) /\ IsUp(q) /\ SameWatch(r) /\ SameWatch(q) /\ watcher[q] # None
    BY <1>2, <1>6, <2>1 DEF IsUp
  <2>3. ListIsRight(r)
    BY <2>1, <2>2 DEF SourceParts, ListsAreRight
  <2>4. ASSUME watcher[q].promise = "queued"  PROVE ToList(r)'
    BY <1>2, <2>1, <2>2, <2>4 DEF ToList
  <2>5. ASSUME e.wd = watcher[q].wd, e.name = r, e.what \in {"create", "delete"}  PROVE ToList(r)'
    <3>1. watchByName[q] = e.wd /\ watcher[q].name = None
      BY <2>2, <2>5, DirectoryIsWatched DEF SourceParts, KindsAreRight
    <3>2. q # Root => IsDirectory(Parent[q])
      BY <2>2 DEF SourceParts, TreeIsRight, IsDirectory
    <3>3. watcher[q].promise \in {"waiting", "queued"}
      BY <1>12, <2>2, <3>2
    <3>4. e.name # None
      BY <2>5, InotifyAssumption
    <3>5. watcher'[q].promise = "queued"
      BY <1>3, <2>2, <2>5, <3>1, <3>3, <3>4
    <3> QED BY <2>1, <3>5 DEF ToList
  <2>6. CASE ToList(r)
    <3>1. ToList(r)'
      <4>1. CASE watcher[q].promise = "queued"
        BY <2>4, <4>1
      <4>2. CASE \E x \in Ahead : x.wd = watcher[q].wd /\ x.name = r /\ x.what \in {"create", "delete"}
        <5>1. PICK x \in Ahead : x.wd = watcher[q].wd /\ x.name = r /\ x.what \in {"create", "delete"}
          BY <4>2
        <5>2. x \in Ahead' \/ x = e
          BY <1>2
        <5>3. CASE x \in Ahead'
          BY <2>1, <2>2, <5>1, <5>3 DEF ToList, SameWatch
        <5> QED BY <2>5, <5>1, <5>2, <5>3
      <4> QED BY <1>5, <2>1, <2>6, <4>1, <4>2 DEF ToList
    <3> QED BY <3>1 DEF ListIsRight
  <2>7. CASE ~ToList(r)
    <3>1. Listing(r) = {} /\ Listing(r)' = {}
      BY <1>4 DEF Listing
    <3>2. IF type[r] = "none" THEN watcher[r] = None ELSE Right(r)
      BY <2>3, <2>7, <3>1 DEF ListIsRight
    <3>3. /\ watcher'[r] = None <=> watcher[r] = None
          /\ Right(r)' <=> Right(r)
      BY <1>6, <2>2 DEF SameWatch, Right
    <3> QED BY <1>1, <3>1, <3>2, <3>3 DEF ListIsRight
  <2> QED BY <2>6, <2>7
<1>14. SourcesAreRight'
  <2> DEFINE F == {}
  <2>1. \A q \in Paths : source'[q] = IF q \in F THEN None ELSE source[q]
    BY <1>1
  <2>2. /\ \A q \in Paths : watcher'[q] # None => SameWatch(q)
        /\ \A q \in Paths : watcher'[q] # None <=> watcher[q] # None
    BY <1>2 DEF SameWatch
  <2>3. ASSUME NEW q \in Paths \ {Root}, IsDirectory(Parent[q]), IsFile(q), watcher[q] # None, ~IsUp(q), ContentIsRight(q)
        PROVE  ContentIsRight(q)'
    <3>1. SameWatch(q) /\ ~IsDirectory(q)
      BY <1>2, <2>3 DEF IsFile, IsDirectory
    <3>2. CASE source[q] = stamp[q]
      BY <1>1, <3>2 DEF ContentIsRight
    <3>3. CASE watcher[q].promise = "queued"
      BY <1>2, <2>3, <3>3 DEF ContentIsRight
    <3>4. CASE \E x \in Ahead : x.wd = watcher[q].wd /\ x.name = q
      <4>1. PICK x \in Ahead : x.wd = watcher[q].wd /\ x.name = q
        BY <3>4
      <4>2. CASE x \in Ahead'
        BY <2>3, <3>1, <4>1, <4>2 DEF ContentIsRight, SameWatch
      <4>3. CASE x = e
        <5>1. watcher[q].name = q /\ watchByName[Parent[q]] = watcher[q].wd
          BY <2>3, <3>1, FileIsWatched DEF SourceParts
        <5>2. watcher[q].promise \in {"waiting", "queued"}
          BY <1>12, <2>3
        <5>3. watcher'[q].promise = "queued"
          BY <1>3, <1>6, <2>3, <4>1, <4>3, <5>1, <5>2
        <5> QED BY <5>3 DEF ContentIsRight
      <4> QED BY <1>2, <4>2, <4>3
    <3> QED BY <1>5, <2>3, <3>2, <3>3, <3>4 DEF ContentIsRight
  <2>4. \A q \in F : FALSE
    OBVIOUS
  <2> HIDE DEF F
  <2> QED BY <1>1, <2>1, <2>2, <2>3, <2>4, SourcesWith DEF SourceParts
<1> QED BY <1>7, <1>8, <1>9, <1>10, <1>11, <1>13, <1>14 DEF SourceParts

-----------------------------------------------------------------------------
(***************************************************************************)
(* Changes of files.                                                       *)
(***************************************************************************)

\* One event, if there is a watch.
LEMMA ListedIs ==
  ASSUME NEW W, NEW f, DOMAIN f = W
  PROVE  /\ \A e \in InQueue(Listed(f)) : \E w \in W : e = f[w]
         /\ W # {} => InQueue(Listed(f)) # {}
<1>1. CASE W = {}
  BY <1>1, NothingInQueue DEF Listed
<1>2. CASE W # {}
  <2>1. PICK w \in W : Listed(f) = <<f[w]>>
    BY <1>2 DEF Listed
  <2>2. InQueue(<<f[w]>>) = {f[w]}
    <3>1. DOMAIN <<f[w]>> = {1} /\ <<f[w]>>[1] = f[w]
      OBVIOUS
    <3> QED BY <3>1 DEF InQueue
  <2> QED BY <2>1, <2>2
<1> QED BY <1>1, <1>2

\* The events of a change are heard where it is watched.
LEMMA HeardAre ==
  ASSUME NEW p, NEW what
  PROVE  /\ \A e \in InQueue(Listed(In(p, what))) : e.wd \in Watching(Parent[p]) /\ e.name = p /\ e.what = what
         /\ Watching(Parent[p]) # {} => InQueue(Listed(In(p, what))) # {}
         /\ \A e \in InQueue(Listed(On(p, what))) : e.wd \in Watching(p) /\ e.what = what
<1>1. /\ DOMAIN In(p, what) = Watching(Parent[p]) /\ DOMAIN On(p, what) = Watching(p)
      /\ \A w \in Watching(Parent[p]) : In(p, what)[w] = [wd |-> w, name |-> p, what |-> what]
      /\ \A w \in Watching(p) : On(p, what)[w] = [wd |-> w, name |-> None, what |-> what]
  BY DEF In, On
<1>2. /\ \A e \in InQueue(Listed(In(p, what))) : \E w \in Watching(Parent[p]) : e = In(p, what)[w]
      /\ Watching(Parent[p]) # {} => InQueue(Listed(In(p, what))) # {}
  BY <1>1, ListedIs
<1>3. \A e \in InQueue(Listed(On(p, what))) : \E w \in Watching(p) : e = On(p, what)[w]
  BY <1>1, ListedIs
<1> QED BY <1>1, <1>2, <1>3

\* The events of a change of the path p, which is of the type to then, are ahead.
Adds(p, to, what, other) ==
  /\ what \in {"create", "modify", "delete"}
  /\ Ahead' = Ahead \cup InQueue(Listed(In(p, what))) \cup other
  /\ type[p] # to => what \in {"create", "delete"}
  /\ \A e \in other : e.what \in {"delete self", "move self"} => e.wd \in Watching(p) /\ to = "none"
Hears(p, to) ==
  /\ Ahead \subseteq Ahead'
  /\ Watching(Parent[p]) # {} =>
       \E e \in Ahead' : /\ e.wd \in Watching(Parent[p]) /\ e.name = p
                         /\ type[p] # to => e.what \in {"create", "delete"}
  /\ \A e \in Ahead' \ Ahead :
       e.what \in {"delete self", "move self"} => e.wd \in Watching(p) /\ to = "none"

\* What such a change does.
IsHeard(p, to) ==
  /\ Change(p, to)
  /\ IsDirectory(Parent[p])
  /\ to = "directory" => type[p] = "none"
  /\ to = "file" => ~IsDirectory(p)
  /\ watched' \subseteq watched
  /\ \A w \in watched \ watched' : w \in Watching(p) /\ to = "none"
  /\ Hears(p, to)

\* Two events of one change.
LEMMA QueueOfThree ==
  ASSUME NEW S, NEW q \in Seq(S), NEW r \in Seq(S), NEW s \in Seq(S)
  PROVE  InQueue((q \o r) \o s) = InQueue(q) \cup InQueue(r) \cup InQueue(s)
<1>1. q \o r \in Seq(S)
  OBVIOUS
<1>2. InQueue(q \o r) = InQueue(q) \cup InQueue(r)
  BY QueueOfBoth
<1>3. ASSUME NEW a \in Seq(S) PROVE InQueue(a \o s) = InQueue(a) \cup InQueue(s)
  BY QueueOfBoth
<1>4. InQueue((q \o r) \o s) = InQueue(q \o r) \cup InQueue(s)
  BY <1>1, <1>3
<1> QED BY <1>2, <1>4

\* What is ahead of the program after something was appended.
LEMMA AheadIs ==
  ASSUME unread \in Seq(Events), NEW one \in Seq(Events), unread' = unread \o one, batch' = batch
  PROVE  Ahead' = Ahead \cup InQueue(one)
<1>1. InQueue(unread \o one) = InQueue(unread) \cup InQueue(one)
  BY QueueOfBoth
<1>2. InQueue(unread') = InQueue(unread \o one)
  <2>1. ASSUME NEW t, t = unread \o one PROVE InQueue(t) = InQueue(unread \o one)
    BY <2>1
  <2> QED BY <2>1 DEF InQueue
<1>3. InQueue(batch') = InQueue(batch)
  BY DEF InQueue
<1>4. InQueue(unread)' = InQueue(unread')
  BY DEF InQueue
<1> QED BY <1>1, <1>2, <1>3 DEF Ahead, InQueue

\* The same of two.
LEMMA AheadIsMore ==
  ASSUME unread \in Seq(Events), NEW one \in Seq(Events), NEW other \in Seq(Events),
         unread' = (unread \o one) \o other, batch' = batch
  PROVE  Ahead' = Ahead \cup InQueue(one) \cup InQueue(other)
<1>1. InQueue((unread \o one) \o other) = InQueue(unread) \cup InQueue(one) \cup InQueue(other)
  BY QueueOfThree
<1>2. InQueue(unread') = InQueue((unread \o one) \o other)
  BY DEF InQueue
<1>3. InQueue(batch') = InQueue(batch)
  BY DEF InQueue
<1> QED BY <1>1, <1>2, <1>3 DEF Ahead

\* What is heard of a change, when these are the new events.
LEMMA HearingIs ==
  ASSUME NEW p, NEW to, NEW what, NEW other, Adds(p, to, what, other)
  PROVE  Hears(p, to)
<1> DEFINE ours == InQueue(Listed(In(p, what)))
<1> USE DEF Adds
<1>1. /\ \A e \in ours : e.wd \in Watching(Parent[p]) /\ e.name = p /\ e.what = what
      /\ Watching(Parent[p]) # {} => ours # {}
  BY HeardAre
<1> HIDE DEF ours
<1>2. Ahead \subseteq Ahead' /\ ours \subseteq Ahead'
  BY DEF ours
<1>3. ASSUME Watching(Parent[p]) # {}
      PROVE  \E e \in Ahead' : /\ e.wd \in Watching(Parent[p]) /\ e.name = p
                               /\ type[p] # to => e.what \in {"create", "delete"}
  <2>1. PICK e \in ours : e.wd \in Watching(Parent[p]) /\ e.name = p /\ e.what = what
    BY <1>1, <1>3
  <2> QED BY <1>2, <2>1
<1>4. ASSUME NEW e \in Ahead' \ Ahead, e.what \in {"delete self", "move self"}
      PROVE  e.wd \in Watching(p) /\ to = "none"
  <2>1. e \in other
    BY <1>1, <1>4 DEF ours
  <2> QED BY <1>4, <2>1
<1> QED BY <1>2, <1>3, <1>4 DEF Hears

\* Each change of files is one that is heard.
LEMMA ChangeIsHeard ==
  ASSUME WatcherInv, TreeIsRight, NEW p \in Paths \ {Root},
         Create(p) \/ Write(p) \/ MakeDirectory(p) \/ Unlink(p) \/ RemoveDirectory(p) \/ MoveAway(p)
  PROVE  \E to \in Types : IsHeard(p, to)
<1> DEFINE I(what) == Listed(In(p, what))
           O(what) == Listed(On(p, what))
           Whats == {"create", "modify", "delete", "delete self", "move self"}
<1>1. WatchesAreRight /\ unread \in Seq(Events)
  BY DEF WatcherInv, FilesAreRight
<1>2. \A what \in Whats : I(what) \in Seq(Events) /\ O(what) \in Seq(Events)
  BY <1>1, EventsOfChanges
<1>3. \A what : \A e \in InQueue(O(what)) : e.wd \in Watching(p)
  BY HeardAre
<1>4. type[p] # "none" => IsDirectory(Parent[p])
  BY DEF TreeIsRight
<1>5. CASE Create(p)
  <2>1. /\ Change(p, "file") /\ type[p] = "none" /\ IsDirectory(Parent[p])
    BY <1>4, <1>5 DEF Create, MayMake
  <2>2. unread' = unread \o I("create") /\ batch' = batch /\ watched' = watched
    BY <1>5 DEF Create, Change
  <2> HIDE DEF I, O
  <2>3. Ahead' = Ahead \cup InQueue(I("create")) \cup {}
    BY <1>1, <1>2, <2>2, AheadIs
  <2>4. \A e \in {} : e.wd \in Watching(p)
    BY <1>3
  <2>5. Adds(p, "file", "create", {})
    BY <2>1, <2>3, <2>4 DEF Adds, I
  <2>6. Hears(p, "file")
    BY <2>5, HearingIs
  <2>7. watched' \subseteq watched /\ \A w \in watched \ watched' : w \in Watching(p) /\ "file" = "none"
    BY <2>2
  <2>8. IsHeard(p, "file")
    BY <2>1, <2>6, <2>7 DEF IsHeard, IsDirectory
  <2> QED BY <2>8 DEF Types
<1>6. CASE Write(p)
  <2>1. /\ Change(p, "file") /\ type[p] = "file" /\ IsDirectory(Parent[p])
    BY <1>4, <1>6 DEF Write, IsFile
  <2>2. unread' = unread \o I("modify") /\ batch' = batch /\ watched' = watched
    BY <1>6 DEF Write, Change
  <2> HIDE DEF I, O
  <2>3. Ahead' = Ahead \cup InQueue(I("modify")) \cup {}
    BY <1>1, <1>2, <2>2, AheadIs
  <2>4. \A e \in {} : e.wd \in Watching(p)
    BY <1>3
  <2>5. Adds(p, "file", "modify", {})
    BY <2>1, <2>3, <2>4 DEF Adds, I
  <2>6. Hears(p, "file")
    BY <2>5, HearingIs
  <2>7. watched' \subseteq watched /\ \A w \in watched \ watched' : w \in Watching(p) /\ "file" = "none"
    BY <2>2
  <2>8. IsHeard(p, "file")
    BY <2>1, <2>6, <2>7 DEF IsHeard, IsDirectory
  <2> QED BY <2>8 DEF Types
<1>7. CASE MakeDirectory(p)
  <2>1. /\ Change(p, "directory") /\ type[p] = "none" /\ IsDirectory(Parent[p])
    BY <1>4, <1>7 DEF MakeDirectory, MayMake
  <2>2. unread' = unread \o I("create") /\ batch' = batch /\ watched' = watched
    BY <1>7 DEF MakeDirectory, Change
  <2> HIDE DEF I, O
  <2>3. Ahead' = Ahead \cup InQueue(I("create")) \cup {}
    BY <1>1, <1>2, <2>2, AheadIs
  <2>4. \A e \in {} : e.wd \in Watching(p)
    BY <1>3
  <2>5. Adds(p, "directory", "create", {})
    BY <2>1, <2>3, <2>4 DEF Adds, I
  <2>6. Hears(p, "directory")
    BY <2>5, HearingIs
  <2>7. watched' \subseteq watched /\ \A w \in watched \ watched' : w \in Watching(p) /\ "directory" = "none"
    BY <2>2
  <2>8. IsHeard(p, "directory")
    BY <2>1, <2>6, <2>7 DEF IsHeard, IsDirectory
  <2> QED BY <2>8 DEF Types
<1>8. CASE Unlink(p)
  <2>1. /\ Change(p, "none") /\ type[p] = "file" /\ IsDirectory(Parent[p])
    BY <1>4, <1>8 DEF Unlink, IsFile
  <2>2. unread' = unread \o I("delete") /\ batch' = batch /\ watched' = watched
    BY <1>8 DEF Unlink, Change
  <2> HIDE DEF I, O
  <2>3. Ahead' = Ahead \cup InQueue(I("delete")) \cup {}
    BY <1>1, <1>2, <2>2, AheadIs
  <2>4. \A e \in {} : e.wd \in Watching(p)
    BY <1>3
  <2>5. Adds(p, "none", "delete", {})
    BY <2>1, <2>3, <2>4 DEF Adds, I
  <2>6. Hears(p, "none")
    BY <2>5, HearingIs
  <2>7. watched' \subseteq watched /\ \A w \in watched \ watched' : w \in Watching(p) /\ "none" = "none"
    BY <2>2
  <2>8. IsHeard(p, "none")
    BY <2>1, <2>6, <2>7 DEF IsHeard, IsDirectory
  <2> QED BY <2>8 DEF Types
<1>9. CASE RemoveDirectory(p)
  <2>1. /\ Change(p, "none") /\ type[p] = "directory" /\ IsDirectory(Parent[p])
    BY <1>4, <1>9 DEF RemoveDirectory, IsDirectory
  <2>2. /\ \/ unread' = (unread \o O("delete self")) \o I("delete")
           \/ unread' = (unread \o I("delete")) \o O("delete self")
        /\ batch' = batch /\ watched' = watched \ Watching(p)
    BY <1>9 DEF RemoveDirectory, Change
  <2> HIDE DEF I, O
  <2>3. Ahead' = Ahead \cup InQueue(I("delete")) \cup InQueue(O("delete self"))
    BY <1>1, <1>2, <2>2, AheadIsMore
  <2>4. \A e \in InQueue(O("delete self")) : e.wd \in Watching(p)
    BY <1>3
  <2>5. Adds(p, "none", "delete", InQueue(O("delete self")))
    BY <2>1, <2>3, <2>4 DEF Adds, I
  <2>6. Hears(p, "none")
    BY <2>5, HearingIs
  <2>7. watched' \subseteq watched /\ \A w \in watched \ watched' : w \in Watching(p) /\ "none" = "none"
    BY <2>2
  <2>8. IsHeard(p, "none")
    BY <2>1, <2>6, <2>7 DEF IsHeard, IsDirectory
  <2> QED BY <2>8 DEF Types
<1>10. CASE MoveAway(p)
  <2>1. /\ Change(p, "none") /\ type[p] # "none" /\ IsDirectory(Parent[p])
    BY <1>4, <1>10 DEF MoveAway
  <2>2. unread' = (unread \o I("delete")) \o O("move self") /\ batch' = batch /\ watched' = watched
    BY <1>10 DEF MoveAway, Change
  <2> HIDE DEF I, O
  <2>3. Ahead' = Ahead \cup InQueue(I("delete")) \cup InQueue(O("move self"))
    BY <1>1, <1>2, <2>2, AheadIsMore
  <2>4. \A e \in InQueue(O("move self")) : e.wd \in Watching(p)
    BY <1>3
  <2>5. Adds(p, "none", "delete", InQueue(O("move self")))
    BY <2>1, <2>3, <2>4 DEF Adds, I
  <2>6. Hears(p, "none")
    BY <2>5, HearingIs
  <2>7. watched' \subseteq watched /\ \A w \in watched \ watched' : w \in Watching(p) /\ "none" = "none"
    BY <2>2
  <2>8. IsHeard(p, "none")
    BY <2>1, <2>6, <2>7 DEF IsHeard, IsDirectory
  <2> QED BY <2>8 DEF Types
<1> QED BY <1>5, <1>6, <1>7, <1>8, <1>9, <1>10

\* What is where after a change.
LEMMA ChangeDoes ==
  ASSUME WatcherInv, TreeIsRight, NEW p \in Paths \ {Root}, NEW to \in Types, IsHeard(p, to), DirectoriesLast
  PROVE  /\ type'[p] = to /\ stamp'[p] # 1
         /\ \A q \in Paths \ {p} : stamp'[q] = stamp[q]
         /\ \A q \in Paths \ {p} : type'[q] = type[q] \/ (q \in Descendants(p) /\ type'[q] = "none")
         /\ IsDirectory(p)' => type[p] = "none" /\ p \in Lasting
         /\ \A q \in Paths : Old(q)' => q # p /\ Old(q)
         /\ \A q \in Lasting \cap Paths : IsDirectory(q) => IsDirectory(q)'
         /\ \A q \in Paths \ Lasting : IsDirectory(q)' => IsDirectory(q)
         /\ \A q \in Paths \ {Root, p} : IsDirectory(Parent[q])' => type'[q] = type[q]
         /\ Parent[p] \in Paths \ {p} /\ IsDirectory(Parent[p]) /\ IsDirectory(Parent[p])'
         /\ UNCHANGED <<wds, batch, watchByName, watcher>>
<1> PICK D : D = Descendants(p)
  OBVIOUS
<1>1. /\ type' = [q \in Paths |-> IF q = p THEN to ELSE IF q \in D THEN "none" ELSE type[q]]
      /\ stamp' = [stamp EXCEPT ![p] = changes + 1]
      /\ UNCHANGED <<wds, batch, watchByName, watcher>>
      /\ IsDirectory(Parent[p]) /\ (to = "directory" => type[p] = "none")
  BY DEF IsHeard, Change
<1>2. /\ D \in SUBSET Paths /\ p \in D
      /\ \A q \in D : q # p => q # Root /\ Parent[q] \in D
  BY DescendantsAreClosed, ParentsOfDescendants
<1>3. /\ type \in [Paths -> Types] /\ stamp \in [Paths -> 1 .. MaxChanges + 1] /\ changes \in 1 .. MaxChanges + 1
      /\ MaxChanges \in Nat
  BY InotifyAssumption DEF WatcherInv, FilesAreRight
<1>4. type'[p] = to /\ stamp'[p] # 1 /\ \A q \in Paths \ {p} : stamp'[q] = stamp[q]
  BY <1>1, <1>3
<1>5. \A q \in Paths \ {p} : type'[q] = IF q \in D THEN "none" ELSE type[q]
  BY <1>1
<1>6. \A q \in Paths : IF q \in Lasting THEN type[q] = "directory" => type'[q] = "directory"
                                        ELSE type'[q] = "directory" => type[q] = "directory"
  BY DEF DirectoriesLast, IsDirectory
<1>7. type'[p] = "directory" => type[p] = "none" /\ p \in Lasting
  BY <1>1, <1>4, <1>6
<1>8. Parent[p] \in Paths \ {p} /\ Parent[p] \notin D
  <2>1. p \in Children(Parent[p]) /\ Parent[p] \in Paths
    BY InotifyAssumption DEF Children
  <2>2. p # Parent[p] /\ p \in Descendants(Parent[p])
    BY <2>1, ChildrenAreBelow
  <2> QED BY <2>1, <2>2, DescendantsOfEachOther
<1>9. ASSUME NEW q \in Paths \ {Root, p}, type'[Parent[q]] = "directory"
      PROVE  type'[q] = type[q]
  <2>1. CASE q \notin D
    BY <1>5, <2>1
  <2>2. CASE q \in D
    <3>1. Parent[q] \in D /\ Parent[q] \in Paths
      BY <1>2, <2>2
    <3>2. Parent[q] = p
      BY <1>5, <1>9, <3>1
    <3>3. type[p] = "none"
      BY <1>7, <1>9, <3>2
    <3>4. type[q] = "none"
      BY <3>2, <3>3 DEF TreeIsRight, IsDirectory
    <3> QED BY <1>5, <2>2, <3>4
  <2> QED BY <2>1, <2>2
<1>10. \A q \in Paths : Old(q)' => q # p /\ Old(q)
  BY <1>4, <1>5 DEF Old, IsDirectory
<1>11. type'[Parent[p]] = "directory"
  BY <1>1, <1>5, <1>8 DEF IsDirectory
<1> QED BY <1>1, <1>4, <1>5, <1>6, <1>7, <1>8, <1>9, <1>10, <1>11 DEF IsDirectory

\* What is there is in a directory after a change, too.
LEMMA TreeAfterChange ==
  ASSUME WatcherInv, TreeIsRight, NEW p \in Paths \ {Root}, NEW to \in Types, IsHeard(p, to), DirectoriesLast
  PROVE  TreeIsRight'
<1>1. /\ type'[p] = to /\ stamp'[p] # 1
      /\ \A q \in Paths \ {p} : stamp'[q] = stamp[q]
      /\ \A q \in Paths \ {p} : type'[q] = type[q] \/ (q \in Descendants(p) /\ type'[q] = "none")
      /\ type'[p] = "directory" => type[p] = "none" /\ p \in Lasting
      /\ \A q \in Paths \ Lasting : type'[q] = "directory" => type[q] = "directory"
      /\ Parent[p] \in Paths \ {p} /\ type'[Parent[p]] = "directory"
  BY ChangeDoes DEF IsDirectory
<1>2. Root \in Paths /\ Parent \in [Paths \ {Root} -> Paths]
  BY InotifyAssumption
<1>3. ASSUME NEW q \in Paths \ {Root}, type'[q] # "none"
      PROVE  type'[Parent[q]] = "directory"
  <2>1. CASE q = p
    BY <1>1, <2>1
  <2>2. CASE q # p
    <3>1. type[q] # "none" /\ Parent[q] \in Paths
      BY <1>1, <1>2, <1>3, <2>2
    <3>2. type[Parent[q]] = "directory"
      BY <3>1 DEF TreeIsRight, IsDirectory
    <3>3. Parent[q] # p
      <4> SUFFICES ASSUME Parent[q] = p  PROVE FALSE
        OBVIOUS
      <4>1. q \in Descendants(p)
        BY ChildrenAreBelow DEF Children
      <4>2. type'[q] = "none"
        BY <2>2, <4>1 DEF IsHeard, Change
      <4> QED BY <1>3, <4>2
    <3>4. q \notin Descendants(p)
      BY <1>3, <2>2 DEF IsHeard, Change
    <3>5. Parent[q] \notin Descendants(p)
      BY <3>1, <3>4, DescendantsAreClosed DEF Closed, Children
    <3>6. type'[Parent[q]] = type[Parent[q]]
      BY <1>1, <3>1, <3>3, <3>5
    <3> QED BY <3>2, <3>6
  <2> QED BY <2>1, <2>2
<1>4. stamp'[Root] = 1
  BY <1>1, <1>2 DEF TreeIsRight
<1>5. ASSUME NEW q \in Paths \ Lasting, type'[q] = "directory"
      PROVE  stamp'[q] = 1
  <2>1. q # p /\ type[q] = "directory"
    BY <1>1, <1>5
  <2> QED BY <1>1, <2>1 DEF TreeIsRight, IsDirectory
<1>6. ASSUME NEW q \in Paths \ {Root}, type'[q] # "none", stamp'[q] = 1
      PROVE  stamp'[Parent[q]] = 1
  <2>1. q # p /\ type[q] # "none" /\ stamp[q] = 1
    BY <1>1, <1>6
  <2>2. stamp[Parent[q]] = 1 /\ Parent[q] \in Paths
    BY <1>2, <2>1 DEF TreeIsRight
  <2>3. Parent[q] # p
    <3> SUFFICES ASSUME Parent[q] = p  PROVE FALSE
      OBVIOUS
    <3>1. q \in Descendants(p)
      BY ChildrenAreBelow DEF Children
    <3>2. type'[q] = "none"
      BY <2>1, <3>1 DEF IsHeard, Change
    <3> QED BY <1>6, <3>2
  <2> QED BY <1>1, <2>2, <2>3
<1> QED BY <1>3, <1>4, <1>5, <1>6 DEF TreeIsRight, IsDirectory

\* Of a directory that has been watched, no other one takes the place.
LEMMA KernelAfterChange ==
  ASSUME WatcherInv, TreeIsRight, KernelIsRight, NEW p \in Paths \ {Root}, NEW to \in Types, IsHeard(p, to),
         DirectoriesLast
  PROVE  /\ KernelIsRight'
         /\ \A w \in DOMAIN wds : Dir(w) = p => type'[p] # "directory"
<1>1. /\ type'[p] = to
      /\ \A q \in Paths \ {p} : stamp'[q] = stamp[q]
      /\ \A q \in Paths \ {p} : type'[q] = "directory" => type[q] = "directory"
      /\ type'[p] = "directory" => type[p] = "none" /\ p \in Lasting
      /\ \A q \in Lasting \cap Paths : type[q] = "directory" => type'[q] = "directory"
      /\ UNCHANGED <<wds, batch, watchByName, watcher>>
  <2>1. \A q \in Paths \ {p} : type'[q] = type[q] \/ type'[q] = "none"
    BY ChangeDoes
  <2> QED BY <2>1, ChangeDoes DEF IsDirectory
<1>2. /\ \A w \in DOMAIN wds : wds[w][1] \in Paths
      /\ watched \in SUBSET DOMAIN wds /\ watchByName \in [Paths -> DOMAIN wds \cup {None}]
      /\ \A q \in Paths : watchByName[q] # None => wds[watchByName[q]][1] = q
      /\ \A q \in Paths : watcher[q] # None => watcher[q].wd \in DOMAIN wds
      /\ Ahead \subseteq Ahead'
  <2>1. wds \in Seq(Descriptors)
    BY DEF WatcherInv, WatchesAreRight
  <2>2. \A w \in DOMAIN wds : wds[w] \in Descriptors
    BY <2>1
  <2>3. \A w \in DOMAIN wds : wds[w][1] \in Paths
    BY <2>2 DEF Descriptors
  <2> QED BY <2>3 DEF WatcherInv, WatchesAreRight, Known, DescriptorsAreUsed, IsHeard, Hears
<1>3. /\ \A w \in DOMAIN wds : type[wds[w][1]] = "directory" => wds[w][2] = stamp[wds[w][1]]
      /\ \A w \in DOMAIN wds : wds[w][1] \in Lasting => type[wds[w][1]] = "directory"
      /\ \A w \in watched : type[wds[w][1]] = "directory" => watchByName[wds[w][1]] = w
      /\ \A q \in Paths : watcher[q] # None /\ type[wds[watcher[q].wd][1]] = "directory" =>
           watchByName[wds[watcher[q].wd][1]] = watcher[q].wd
      /\ \A q \in Paths : type[q] = "directory" /\ watchByName[q] # None => watchByName[q] \in watched
      /\ \A e \in Ahead : e.what \in {"delete self", "move self"} =>
           e.wd \in DOMAIN wds /\ type[wds[e.wd][1]] # "directory"
  BY DEF KernelIsRight, Dir, IsDirectory
<1>4. ASSUME NEW w \in DOMAIN wds, type'[wds[w][1]] = "directory"
      PROVE  wds[w][1] # p /\ type[wds[w][1]] = "directory"
  <2>1. wds[w][1] # p
    BY <1>1, <1>3, <1>4
  <2> QED BY <1>1, <1>2, <1>4, <2>1
<1>5. watched' \subseteq watched /\ \A w \in watched \ watched' : wds[w][1] = p
  BY DEF IsHeard, Watching
<1>6. \A w \in DOMAIN wds : type'[wds[w][1]] = "directory" => wds[w][2] = stamp'[wds[w][1]]
  BY <1>1, <1>2, <1>3, <1>4
<1>7. \A w \in DOMAIN wds : wds[w][1] \in Lasting => type'[wds[w][1]] = "directory"
  BY <1>1, <1>2, <1>3
<1>8. \A w \in watched' : type'[wds[w][1]] = "directory" => watchByName[wds[w][1]] = w
  BY <1>2, <1>3, <1>4, <1>5
<1>9. \A q \in Paths : watcher[q] # None /\ type'[wds[watcher[q].wd][1]] = "directory" =>
        watchByName[wds[watcher[q].wd][1]] = watcher[q].wd
  BY <1>2, <1>3, <1>4
<1>10. ASSUME NEW q \in Paths, type'[q] = "directory", watchByName[q] # None
       PROVE  watchByName[q] \in watched'
  <2>1. watchByName[q] \in DOMAIN wds /\ wds[watchByName[q]][1] = q
    BY <1>2, <1>10
  <2>2. q # p /\ type[q] = "directory"
    BY <1>4, <1>10, <2>1
  <2> QED BY <1>3, <1>5, <1>10, <2>1, <2>2
<1>11. ASSUME NEW e \in Ahead', e.what \in {"delete self", "move self"}
       PROVE  e.wd \in DOMAIN wds /\ type'[wds[e.wd][1]] # "directory"
  <2>1. CASE e \in Ahead
    BY <1>3, <1>4, <1>11, <2>1
  <2>2. CASE e \notin Ahead
    <3>1. e.wd \in Watching(p) /\ to = "none"
      BY <1>11, <2>2 DEF IsHeard, Hears
    <3>2. e.wd \in watched /\ wds[e.wd][1] = p
      BY <3>1 DEF Watching
    <3> QED BY <1>1, <1>2, <3>1, <3>2
  <2> QED BY <2>1, <2>2
<1>12. wds' = wds /\ watchByName' = watchByName /\ watcher' = watcher
  BY <1>1
<1>13. KernelIsRight'
  BY <1>6, <1>7, <1>8, <1>9, <1>10, <1>11, <1>12 DEF KernelIsRight, Dir, IsDirectory
<1>14. \A w \in DOMAIN wds : Dir(w) = p => type'[p] # "directory"
  BY <1>4 DEF Dir
<1> QED BY <1>13, <1>14

\* What does not depend on the contents of files and directories.
LEMMA RestAfterChange ==
  ASSUME WatcherInv, SourceParts, NEW p \in Paths \ {Root}, NEW to \in Types, IsHeard(p, to),
         DirectoriesLast, UNCHANGED <<stack, source>>
  PROVE  /\ KindsAreRight' /\ PromisesAreRight' /\ FramesAreRight' /\ OldAreUp'
         /\ \A q \in Paths : IsUp(q) /\ IsDirectory(q)' => q # p /\ IsDirectory(q)
         /\ \A q \in Paths : IsUp(q)' <=> IsUp(q)
<1>1. /\ \A q \in Paths \ {p} : type'[q] = "directory" => type[q] = "directory"
      /\ type'[p] = "directory" => type[p] = "none" /\ p \in Lasting
      /\ \A q \in Paths : Old(q)' => Old(q)
      /\ \A q \in Lasting \cap Paths : type[q] = "directory" => type'[q] = "directory"
      /\ \A q \in Paths \ Lasting : type'[q] = "directory" => type[q] = "directory"
      /\ watcher' = watcher
  <2>1. \A q \in Paths \ {p} : type'[q] = type[q] \/ type'[q] = "none"
    BY ChangeDoes DEF SourceParts
  <2> QED BY <2>1, ChangeDoes DEF IsDirectory, SourceParts
<1>2. Root \in Paths /\ Parent \in [Paths \ {Root} -> Paths]
  BY InotifyAssumption
<1>3. \A q \in Paths : IsUp(q)' <=> IsUp(q)
  BY <1>1 DEF IsUp
<1>4. \A q \in Paths : IsUp(q) /\ type'[q] = "directory" => q # p /\ type[q] = "directory"
  BY <1>1 DEF KindsAreRight, SourceParts, IsDirectory
<1>5. KindsAreRight'
  BY <1>1, <1>2, <1>3, <1>4 DEF KindsAreRight, SourceParts, IsDirectory
<1>6. \A q \in Paths : Gone(q) => Gone(q)'
  BY <1>1, <1>2, <1>3, <1>4 DEF Gone, Forsaken, IsDirectory
<1>7. \A q : /\ AtBottom(q)' <=> AtBottom(q)
             /\ Doing("modified", q)' <=> Doing("modified", q)
             /\ Doing("new directory", q)' <=> Doing("new directory", q)
  BY DEF AtBottom, InCallback, Doing, Top
<1>8. PromisesAreRight'
  BY <1>1, <1>6, <1>7 DEF PromisesAreRight, SourceParts
<1>9. OnStack' = OnStack /\ (InCallback' <=> InCallback) /\ Last(stack)' = Last(stack)
  BY DEF OnStack, InQueue, InCallback
<1>10. ASSUME NEW f \in OnStack  PROVE f.at \in Paths
  BY FramesAreTyped DEF WatcherInv, StackIsRight, OnStack, InQueue
<1>11. ASSUME NEW f \in OnStack  PROVE FrameIsRight(f)'
  <2>1. FrameIsRight(f) /\ f.at \in Paths
    BY <1>10 DEF FramesAreRight, SourceParts
  <2>2. f.do = "new directory" /\ f.at \in Lasting => type'[f.at] = "directory"
    BY <1>1, <2>1 DEF FrameIsRight, IsDirectory
  <2>3. f.do = "new file" /\ (f.at \notin Lasting \/ Old(f.at)') => type'[f.at] # "directory"
    <3>1. Old(f.at)' => Old(f.at)
      BY <1>1, <2>1
    <3>2. f.do = "new file" /\ Old(f.at) => FALSE
      BY <2>1 DEF FrameIsRight, Old
    <3>3. f.do = "new file" /\ f.at \notin Lasting => type[f.at] # "directory"
      BY <2>1 DEF FrameIsRight, IsDirectory
    <3> QED BY <1>1, <2>1, <3>1, <3>2, <3>3
  <2>4. f.do \in {"new file", "new directory"} => ~(IsUp(f.at)' /\ type'[f.at] = "directory")
    BY <1>3, <1>4, <2>1 DEF FrameIsRight, IsDirectory
  <2>5. f.do = "children" => IsUp(f.at)' /\ \A q \in Children(f.at) : Old(q)' => q \in f.left \cup f.kept
    BY <1>1, <1>3, <2>1 DEF FrameIsRight, Children
  <2> QED BY <2>2, <2>3, <2>4, <2>5 DEF FrameIsRight, IsDirectory
<1>12. FramesAreRight'
  <2>1. \A f \in OnStack' : FrameIsRight(f)'
    BY <1>9, <1>11
  <2>2. InCallback' => \A f \in OnStack' :
          f.at # Last(stack).at /\ f.do # "new file" /\ (f.do = "modified" => IsUp(f.at)') => f.at \in Lasting
    BY <1>3, <1>9, <1>10 DEF FramesAreRight, SourceParts
  <2> QED BY <1>9, <2>1, <2>2 DEF FramesAreRight
<1>13. \A q : Scanned(q)' <=> Scanned(q)
  BY <1>7, <1>9 DEF Scanned
<1>14. OldAreUp'
  BY <1>1, <1>2, <1>3, <1>13 DEF OldAreUp, SourceParts
<1> QED BY <1>3, <1>4, <1>5, <1>8, <1>12, <1>14 DEF IsDirectory

\* A list of children that becomes wrong is of a directory that hears of it.
LEMMA ListsAfterChange ==
  ASSUME WatcherInv, SourceParts, NEW p \in Paths \ {Root}, NEW to \in Types, IsHeard(p, to),
         DirectoriesLast, UNCHANGED <<stack, source>>
  PROVE  ListsAreRight'
<1>1. /\ type'[p] = to
      /\ \A q \in Paths \ {Root, p} : IsDirectory(Parent[q])' => type'[q] = type[q]
      /\ watcher' = watcher /\ stack' = stack /\ Ahead \subseteq Ahead'
  BY ChangeDoes DEF SourceParts, IsHeard, Hears
<1>2. /\ \A q \in Paths : IsUp(q) /\ IsDirectory(q)' => q # p /\ IsDirectory(q)
      /\ \A q \in Paths : IsUp(q)' <=> IsUp(q)
  BY RestAfterChange
<1>3. OnStack' = OnStack /\ \A what, q : Doing(what, q)' <=> Doing(what, q)
  BY <1>1 DEF OnStack, InQueue, Doing, Top
<1>4. \A q : (InHand(q)' <=> InHand(q)) /\ (IsNew(q)' <=> IsNew(q))
  BY <1>3 DEF InHand, IsNew
<1> SUFFICES ASSUME NEW r \in Paths \ {Root}, IsDirectory(Parent[r])', IsUp(Parent[r])'
             PROVE  ListIsRight(r)'
  BY DEF ListsAreRight
<1>5. Parent[r] \in Paths /\ IsUp(Parent[r]) /\ IsDirectory(Parent[r])
  BY <1>2, InotifyAssumption
<1>6. ListIsRight(r)
  BY <1>5 DEF ListsAreRight, SourceParts
<1>7. ToList(r) => ToList(r)'
  BY <1>1, <1>4 DEF ToList
<1>8. CASE type'[r] = type[r]
  <2>1. Listing(r)' = Listing(r)
    BY <1>3 DEF Listing
  <2>2. (IsDirectory(r)' <=> IsDirectory(r)) /\ (IsUp(r)' <=> IsUp(r))
    BY <1>2, <1>8 DEF IsDirectory
  <2>3. (Right(r)' <=> Right(r)) /\ (MadeRight(r)' <=> MadeRight(r))
    BY <1>1, <1>3, <2>2 DEF Right, MadeRight
  <2>4. \A f : Lists(f, r)' <=> Lists(f, r)
    BY <1>4, <1>8, <2>3 DEF Lists
  <2> QED BY <1>1, <1>6, <1>7, <1>8, <2>1, <2>3, <2>4 DEF ListIsRight
<1>9. CASE type'[r] # type[r]
  <2>1. r = p /\ to # type[p]
    BY <1>1, <1>9
  <2>2. Watching(Parent[p]) = {watcher[Parent[p]].wd}
    BY <1>5, <2>1, DirectoryIsWatched DEF SourceParts
  <2>3. PICK e \in Ahead' : e.wd \in Watching(Parent[p]) /\ e.name = p /\ e.what \in {"create", "delete"}
    BY <2>1, <2>2 DEF IsHeard, Hears
  <2>4. e.wd = watcher[Parent[p]].wd
    BY <2>2, <2>3
  <2>5. ToList(p)'
    BY <1>1, <2>3, <2>4 DEF ToList
  <2> QED BY <2>1, <2>5 DEF ListIsRight
<1> QED BY <1>8, <1>9

\* So is a file whose content becomes wrong.
LEMMA SourcesAfterChange ==
  ASSUME WatcherInv, SourceParts, NEW p \in Paths \ {Root}, NEW to \in Types, IsHeard(p, to),
         DirectoriesLast, UNCHANGED <<stack, source>>
  PROVE  SourcesAreRight'
<1>1. /\ type'[p] = to
      /\ \A q \in Paths \ {Root, p} : IsDirectory(Parent[q])' => type'[q] = type[q]
      /\ \A q \in Paths \ {p} : stamp'[q] = stamp[q]
      /\ IsDirectory(p)' => type[p] = "none" /\ p \in Lasting
      /\ watcher' = watcher /\ stack' = stack /\ source' = source /\ Ahead \subseteq Ahead'
  BY ChangeDoes DEF SourceParts, IsHeard, Hears
<1>2. /\ \A q \in Paths : IsUp(q) /\ IsDirectory(q)' => q # p /\ IsDirectory(q)
      /\ \A q \in Paths : IsUp(q)' <=> IsUp(q)
  BY RestAfterChange
<1>3. \A q \in Paths \ {p} : IsDirectory(q)' => IsDirectory(q)
  <2>1. \A q \in Paths \ {p} : type'[q] = type[q] \/ type'[q] = "none"
    BY ChangeDoes DEF SourceParts
  <2> QED BY <2>1 DEF IsDirectory
<1>4. Parent \in [Paths \ {Root} -> Paths]
  BY InotifyAssumption
<1>5. ASSUME NEW r \in Paths \ {Root}, IsDirectory(Parent[r])', IsFile(r)', watcher[r] # None, ~IsUp(r)
      PROVE  ContentIsRight(r)'
  <2>1. CASE r = p
    <3>1. ~IsDirectory(p) /\ IsDirectory(Parent[p])
      BY <1>1, <1>5, <2>1 DEF IsHeard, IsFile
    <3>2. Watching(Parent[p]) = {watcher[p].wd}
      BY <1>5, <2>1, <3>1, FileIsWatched DEF SourceParts
    <3>3. PICK e \in Ahead' : e.wd \in Watching(Parent[p]) /\ e.name = p
      BY <3>2 DEF IsHeard, Hears
    <3> QED BY <1>1, <2>1, <3>2, <3>3 DEF ContentIsRight
  <2>2. CASE r # p
    <3>1. type'[r] = type[r] /\ type[r] = "file" /\ stamp'[r] = stamp[r]
      BY <1>1, <1>5, <2>2 DEF IsFile
    <3>2. IsDirectory(Parent[r])
      BY <3>1 DEF TreeIsRight, SourceParts
    <3>3. ContentIsRight(r)
      BY <1>5, <3>1, <3>2 DEF SourcesAreRight, SourceParts, IsFile
    <3>4. InHand(r)' <=> InHand(r)
      BY <1>1 DEF InHand, Doing, Top
    <3> QED BY <1>1, <3>1, <3>3, <3>4 DEF ContentIsRight
  <2> QED BY <2>1, <2>2
<1>6. \A r \in Paths \ {Root} : IsDirectory(r)' /\ IsUp(r)' => source'[r] = 0
  BY <1>1, <1>2 DEF SourcesAreRight, SourceParts
<1>7. ASSUME NEW r \in Paths \ {Root}, source[r] # None, IsDirectory(Parent[r])' \/ Parent[r] \in Lasting
      PROVE  watcher[r] # None
  <2>1. Parent[r] \in Lasting \/ IsDirectory(Parent[r])
    BY <1>1, <1>3, <1>4, <1>7
  <2> QED BY <1>7, <2>1 DEF SourcesAreRight, SourceParts
<1>8. \A r \in Paths \ {Root} : IsDirectory(Parent[r])' /\ IsFile(r)' /\ watcher'[r] # None /\ ~IsUp(r)' =>
        ContentIsRight(r)'
  BY <1>1, <1>2, <1>5
<1>9. \A r \in Paths \ {Root} : source'[r] # None /\ (IsDirectory(Parent[r])' \/ Parent[r] \in Lasting) =>
        watcher'[r] # None
  BY <1>1, <1>7
<1> QED BY <1>6, <1>8, <1>9 DEF SourcesAreRight

\* Whatever happens to files is put right by what is ahead.
LEMMA FileStepKeepsSources ==
  ASSUME WatcherInv, SourceParts, FileStep, DirectoriesLast
  PROVE  SourceParts'
<1>1. PICK p \in Paths \ {Root} :
        Create(p) \/ Write(p) \/ MakeDirectory(p) \/ Unlink(p) \/ RemoveDirectory(p) \/ MoveAway(p)
  BY DEF FileStep, FileChange
<1>2. PICK to \in Types : IsHeard(p, to)
  BY <1>1, ChangeIsHeard DEF SourceParts
<1>3. UNCHANGED <<stack, source>>
  BY DEF FileStep
<1>4. TreeIsRight /\ KernelIsRight
  BY DEF SourceParts
<1>5. TreeIsRight'
  BY <1>2, <1>4, TreeAfterChange
<1>6. KernelIsRight'
  BY <1>2, <1>4, KernelAfterChange
<1>7. KindsAreRight' /\ PromisesAreRight' /\ FramesAreRight' /\ OldAreUp'
  BY <1>2, <1>3, RestAfterChange
<1>8. ListsAreRight' /\ SourcesAreRight'
  BY <1>2, <1>3, ListsAfterChange, SourcesAfterChange
<1> QED BY <1>5, <1>6, <1>7, <1>8 DEF SourceParts

-----------------------------------------------------------------------------
(***************************************************************************)
(* From the start on.                                                      *)
(***************************************************************************)

\* main() begins with the list of the source directory.
LEMMA WatcherInitHasSources ==
  ASSUME WatcherInit
  PROVE  SourceParts
<1> PICK g : g = [do |-> "modified", at |-> Root]
  OBVIOUS
<1> PICK d : d = <<Root, 1>>
  OBVIOUS
<1>1. /\ Root \in Paths /\ Parent \in [Paths \ {Root} -> Paths] /\ None \notin Paths \cup Nat /\ None \notin Watchers
  BY InotifyAssumption
<1>2. /\ type[Root] = "directory"
      /\ \A p \in Paths \ {Root} : type[p] # "none" => IsDirectory(Parent[p])
      /\ \A p \in Paths : stamp[p] = 1
      /\ wds = <<d>> /\ watched = {1} /\ unread = <<>> /\ batch = <<>>
      /\ \A p \in Paths : watchByName[p] = IF p = Root THEN 1 ELSE None
      /\ \A p \in Paths : watcher[p] = IF p = Root THEN Watcher(TRUE, 1, None) ELSE None
      /\ stack = <<g>>
      /\ \A p \in Paths : source[p] = None
  BY DEF WatcherInit
<1>3. Watcher(TRUE, 1, None) \in Watchers
  BY DEF Watcher, Watchers, Promises
<1>4. /\ watcher[Root] # None /\ watcher[Root].isDirectory /\ watcher[Root].wd = 1
      /\ watcher[Root].name = None /\ watcher[Root].promise = "waiting"
      /\ \A p \in Paths \ {Root} : watcher[p] = None
  <2>1. watcher[Root] = Watcher(TRUE, 1, None)
    BY <1>1, <1>2
  <2>2. Watcher(TRUE, 1, None) # None
    BY <1>1, <1>3
  <2> QED BY <1>2, <2>1, <2>2 DEF Watcher
<1>5. DOMAIN wds = {1} /\ wds[1] = d /\ d[1] = Root /\ d[2] = 1
  BY <1>2
<1>6. Ahead = {}
  BY <1>2, NothingInQueue DEF Ahead
<1>7. stack # <<>> /\ Top = g /\ Last(stack) = g /\ OnStack = {g}
  <2>1. DOMAIN stack = {1} /\ stack[1] = g /\ Len(stack) = 1 /\ stack # <<>>
    BY <1>2
  <2> QED BY <2>1 DEF Top, Last, OnStack, InQueue
<1>8. ~InCallback /\ Doing("modified", Root) /\ g.do = "modified" /\ g.at = Root
  BY <1>7 DEF InCallback, Doing
<1>9. \A p \in Paths : IsUp(p) <=> p = Root
  BY <1>1, <1>4 DEF IsUp
<1>10. TreeIsRight
  BY <1>1, <1>2 DEF TreeIsRight
<1>11. KernelIsRight
  <2>1. \A w \in DOMAIN wds : w = 1 /\ Dir(w) = Root /\ wds[w][2] = 1
    BY <1>5 DEF Dir
  <2>2. Dir(1) = Root
    BY <1>5 DEF Dir
  <2> QED BY <1>1, <1>2, <1>4, <1>6, <2>1, <2>2 DEF KernelIsRight, IsDirectory
<1>12. KindsAreRight
  BY <1>1, <1>2, <1>4, <1>9 DEF KindsAreRight, IsDirectory
<1>13. PromisesAreRight
  BY <1>1, <1>4 DEF PromisesAreRight
<1>14. FramesAreRight
  BY <1>7, <1>8 DEF FramesAreRight, FrameIsRight
<1>15. OldAreUp
  <2>1. ASSUME NEW q \in Paths \ {Root}, IsUp(Parent[q])  PROVE Scanned(q)
    <3>1. Parent[q] = Root
      BY <1>1, <1>9, <2>1
    <3> QED BY <1>7, <1>8, <3>1 DEF Scanned
  <2> QED BY <2>1 DEF OldAreUp
<1>16. ListsAreRight
  <2>1. ASSUME NEW p \in Paths \ {Root}, IsUp(Parent[p])  PROVE ListIsRight(p)
    <3>1. Parent[p] = Root
      BY <1>1, <1>9, <2>1
    <3>2. InHand(Parent[p])
      BY <1>8, <3>1 DEF InHand
    <3> QED BY <3>2 DEF ListIsRight, ToList
  <2> QED BY <2>1 DEF ListsAreRight
<1>17. SourcesAreRight
  BY <1>1, <1>2, <1>4, <1>9 DEF SourcesAreRight
<1> QED BY <1>10, <1>11, <1>12, <1>13, <1>14, <1>15, <1>16, <1>17 DEF SourceParts

\* Nothing changes.
LEMMA StutterKeepsSources ==
  ASSUME SourceParts, UNCHANGED watcherVars
  PROVE  SourceParts'
<1>1. /\ UNCHANGED <<type, stamp, wds, watched, watchByName, unread, batch, watcher, stack, source>>
  BY DEF watcherVars, files, inotify
<1>2. /\ \A q : (IsUp(q)' <=> IsUp(q)) /\ (IsDirectory(q)' <=> IsDirectory(q)) /\ (Old(q)' <=> Old(q))
      /\ \A w : Dir(w)' = Dir(w)
      /\ Ahead' = Ahead /\ OnStack' = OnStack
      /\ (InCallback' <=> InCallback) /\ Last(stack)' = Last(stack)
      /\ \A what, q : Doing(what, q)' <=> Doing(what, q)
  BY <1>1 DEF IsUp, IsDirectory, Old, Dir, Ahead, OnStack, InQueue, InCallback, Doing, Top
<1>3. TreeIsRight' /\ KernelIsRight' /\ KindsAreRight'
  BY <1>1, <1>2 DEF TreeIsRight, KernelIsRight, KindsAreRight, SourceParts
<1>4. \A q : (AtBottom(q)' <=> AtBottom(q)) /\ (Gone(q)' <=> Gone(q))
  BY <1>1, <1>2 DEF AtBottom, Gone, Forsaken
<1>5. PromisesAreRight'
  BY <1>1, <1>4 DEF PromisesAreRight, SourceParts
<1>6. \A f : FrameIsRight(f)' <=> FrameIsRight(f)
  BY <1>2 DEF FrameIsRight
<1>7. FramesAreRight'
  BY <1>1, <1>2, <1>6 DEF FramesAreRight, SourceParts
<1>8. \A q : Scanned(q)' <=> Scanned(q)
  BY <1>1, <1>2 DEF Scanned
<1>9. OldAreUp'
  BY <1>2, <1>8 DEF OldAreUp, SourceParts
<1>10. \A q : /\ ToList(q)' <=> ToList(q)
              /\ InHand(q)' <=> InHand(q)
              /\ Right(q)' <=> Right(q)
              /\ MadeRight(q)' <=> MadeRight(q)
              /\ IsNew(q)' <=> IsNew(q)
              /\ Listing(q)' = Listing(q)
  BY <1>1, <1>2 DEF ToList, InHand, Right, MadeRight, IsNew, Listing
<1>11. \A q : ListIsRight(q)' <=> ListIsRight(q)
  BY <1>1, <1>10 DEF ListIsRight, Lists
<1>12. ListsAreRight'
  BY <1>2, <1>11 DEF ListsAreRight, SourceParts
<1>13. \A q : ContentIsRight(q)' <=> ContentIsRight(q)
  BY <1>1, <1>2, <1>10 DEF ContentIsRight
<1>14. SourcesAreRight'
  BY <1>1, <1>2, <1>13 DEF SourcesAreRight, SourceParts, IsFile
<1> QED BY <1>3, <1>5, <1>7, <1>9, <1>12, <1>14 DEF SourceParts

\* The program goes on while it is not terminated, and files change after that too.
LEMMA WatcherNextKeepsSources ==
  ASSUME WatcherInv, SourceInv, [WatcherNext /\ DirectoriesLast]_watcherVars
  PROVE  SourceInv'
<1>1. CASE UNCHANGED watcherVars
  <2>1. terminated' = terminated
    BY <1>1 DEF watcherVars
  <2> QED BY <1>1, <2>1, StutterKeepsSources DEF SourceInv
<1>2. CASE FileStep /\ DirectoriesLast
  <2>1. terminated' = terminated
    BY <1>2 DEF FileStep, FileChange, Create, Write, MakeDirectory, Unlink, RemoveDirectory, MoveAway, Change
  <2> QED BY <1>2, <2>1, FileStepKeepsSources DEF SourceInv
<1>3. CASE Ekam
  <2>1. SourceParts
    BY <1>3 DEF SourceInv, Ekam
  <2>2. CASE EventStep
    BY <2>1, <2>2, ReadKeepsSources, HandleEventKeepsSources DEF EventStep, SourceInv
  <2>3. CASE CallbackStep
    <3>1. PICK p \in Paths :
            \/ RunCallback(p) \/ WaitForEvent(p)
            \/ Deleted(p) \/ ResetWatch(p)
            \/ ModifiedFile(p) \/ ModifiedDirectory(p) \/ ListFails(p)
            \/ (\E q \in Paths : Child(p, q)) \/ NewChild(p) \/ SwapChildren(p)
      BY <2>3 DEF CallbackStep
    <3>2. CASE RunCallback(p)
      BY <2>1, <3>2, RunCallbackKeepsSources DEF SourceInv
    <3>3. CASE WaitForEvent(p)
      BY <2>1, <3>3, WaitForEventKeepsSources DEF SourceInv
    <3>4. CASE Deleted(p)
      BY <2>1, <3>4, DeletedKeepsSources, DeletedThrowsKeepsSources DEF SourceInv
    <3>5. CASE ResetWatch(p)
      BY <2>1, <3>5, ResetWatchKeepsSources, ResetWatchThrowsKeepsSources DEF SourceInv
    <3>6. CASE ModifiedFile(p)
      BY <2>1, <3>6, ModifiedFileKeepsSources DEF SourceInv
    <3>7. CASE ModifiedDirectory(p)
      BY <2>1, <3>7, ModifiedDirectoryKeepsSources DEF SourceInv
    <3>8. CASE ListFails(p)
      BY <2>1, <3>8, ListFailsKeepsSources DEF SourceInv
    <3>9. CASE \E q \in Paths : Child(p, q)
      BY <2>1, <3>9, ChildKeepsSources, ChildThrowsKeepsSources DEF SourceInv
    <3>10. CASE NewChild(p)
      BY <2>1, <3>10, NewChildKeepsSources, NewChildThrowsKeepsSources DEF SourceInv
    <3>11. CASE SwapChildren(p)
      BY <2>1, <3>11, SwapChildrenKeepsSources DEF SourceInv
    <3> QED BY <3>1, <3>2, <3>3, <3>4, <3>5, <3>6, <3>7, <3>8, <3>9, <3>10, <3>11
  <2> QED BY <1>3, <2>2, <2>3 DEF Ekam
<1> QED BY <1>1, <1>2, <1>3 DEF WatcherNext

-----------------------------------------------------------------------------
\* The invariant of what the driver knows: for all that is wrong something is ahead, in
\* the queues of events and callbacks or on the stack, that puts it right.
THEOREM SourceWatcherPutsRight == WatcherSpec /\ [][DirectoriesLast]_watcherVars => []SourceInv
<1>1. WatcherInit => SourceInv
  BY WatcherInitHasSources DEF SourceInv
<1>2. WatcherInv /\ SourceInv /\ [WatcherNext]_watcherVars /\ [DirectoriesLast]_watcherVars => SourceInv'
  BY WatcherNextKeepsSources
<1> QED BY <1>1, <1>2, SourceWatcherInvariant, PTL DEF WatcherSpec

\* However files change, and their events and the callbacks overtake each other, while no
\* directory comes back and none goes that came while Ekam looked on: once everything has
\* been dealt with, the driver's sources are the files that are there, and will hear of
\* the next change.
THEOREM SourcesStayFiles == WatcherSpec /\ [][DirectoriesLast]_watcherVars => []SourcesAreFiles
<1>1. WatcherInv /\ SourceInv => SourcesAreFiles
  BY SourceInvIsEnough
<1> QED BY <1>1, SourceWatcherInvariant, SourceWatcherPutsRight, PTL

-----------------------------------------------------------------------------
(***************************************************************************)
(* The table.                                                              *)
(*                                                                         *)
(* The entries of erased rows, which add(), erase() by another column and  *)
(* refresh() leave, make SearchesAreRight rest on what the indexes hold:   *)
(* each entry is of a row with its value, each row that is not erased has  *)
(* its entries, and in a unique column a value has one entry, whether its  *)
(* row is erased or not.                                                   *)
(***************************************************************************)

\* An entry is of a row that has its value, though that may be erased.
EntriesAreTrue == \A c \in Columns : \A e \in index[c] : rows[e.at].cells[c] = e.value

\* A row that is not erased has an entry in each index.
LiveAreEntered ==
  \A c \in Columns : \A i \in Live(rows) :
    [value |-> rows[i].cells[c], at |-> i] \in index[c]

\* A value has one entry in the index of a unique column.
UniqueEntries ==
  \A c \in UniqueColumns : \A e, f \in index[c] : e.value = f.value => e = f

\* Rows that another row replaced are not counted as erased.
DeletedAreCounted == deletedCount <= Cardinality(DOMAIN rows \ Live(rows))

IInv == TypeOK /\ EntriesAreTrue /\ LiveAreEntered /\ UniqueEntries /\ DeletedAreCounted

-----------------------------------------------------------------------------
(***************************************************************************)
(* The indexes make the searches right.                                    *)
(***************************************************************************)

\* What is in the indexes has its types.
LEMMA EntriesAreTyped ==
  ASSUME TypeOK, NEW c \in Columns, NEW e \in index[c]
  PROVE  e \in Entry /\ e.at \in DOMAIN rows /\ e = [value |-> e.value, at |-> e.at]
<1>1. e \in Entry
  BY DEF TypeOK
<1>2. e = [value |-> e.value, at |-> e.at]
  BY <1>1 DEF Entry
<1> QED BY <1>1, <1>2 DEF TypeOK

\* The rows are records, at so many positions.
LEMMA RowsAreTyped ==
  ASSUME TypeOK
  PROVE  /\ Len(rows) \in Nat /\ DOMAIN rows = 1 .. Len(rows)
         /\ \A i \in DOMAIN rows : /\ rows[i] \in Row /\ rows[i].cells \in Cells
                                   /\ rows[i].deleted \in BOOLEAN
                                   /\ rows[i] = [cells |-> rows[i].cells, deleted |-> rows[i].deleted]
         /\ Live(rows) \in SUBSET (DOMAIN rows)
<1>1. rows \in Seq(Row)
  BY DEF TypeOK
<1>2. \A i \in DOMAIN rows : rows[i] \in Row
  BY <1>1
<1>3. \A i \in DOMAIN rows : /\ rows[i].cells \in Cells /\ rows[i].deleted \in BOOLEAN
                             /\ rows[i] = [cells |-> rows[i].cells, deleted |-> rows[i].deleted]
  BY <1>2 DEF Row
<1> QED BY <1>1, <1>2, <1>3 DEF Live

\* A search finds the rows of the value that are not erased.
LEMMA SearchIsRight ==
  ASSUME TypeOK, EntriesAreTrue, LiveAreEntered, NEW c \in Columns, NEW v
  PROVE  Search(c, v) = {i \in DOMAIN rows : ~rows[i].deleted /\ rows[i].cells[c] = v}
<1>1. ASSUME NEW i \in Search(c, v)
      PROVE  i \in DOMAIN rows /\ ~rows[i].deleted /\ rows[i].cells[c] = v
  <2>1. PICK e \in index[c] : e.value = v /\ ~rows[e.at].deleted /\ i = e.at
    BY DEF Search, EqualRange
  <2> QED BY <2>1, EntriesAreTyped DEF EntriesAreTrue
<1>2. ASSUME NEW i \in DOMAIN rows, ~rows[i].deleted, rows[i].cells[c] = v
      PROVE  i \in Search(c, v)
  <2>1. [value |-> v, at |-> i] \in index[c]
    BY <1>2 DEF LiveAreEntered, Live
  <2>2. PICK e \in index[c] : e.value = v /\ e.at = i
    BY <2>1
  <2> QED BY <1>2, <2>2 DEF Search, EqualRange
<1> QED BY <1>1, <1>2

\* A unique column has the one entry that find() looks at.
LEMMA FindIsRight ==
  ASSUME TypeOK, UniqueEntries, NEW c \in UniqueColumns, NEW v
  PROVE  Find(c, v) = IF Search(c, v) = {} THEN {0} ELSE Search(c, v)
<1>1. c \in Columns
  BY DEF Columns
<1>2. CASE EqualRange(c, v) = {}
  <2>1. Search(c, v) = {}
    BY <1>2 DEF Search
  <2> QED BY <1>2, <2>1 DEF Find
<1>3. CASE EqualRange(c, v) # {}
  <2>1. PICK e : EqualRange(c, v) = {e}
    <3>1. PICK e : e \in EqualRange(c, v)
      BY <1>3
    <3>2. \A f \in EqualRange(c, v) : f = e
      BY <3>1 DEF EqualRange, UniqueEntries
    <3> QED BY <3>1, <3>2
  <2>2. Find(c, v) = {IF rows[e.at].deleted THEN 0 ELSE e.at}
    BY <1>3, <2>1 DEF Find
  <2>3. Search(c, v) = IF rows[e.at].deleted THEN {} ELSE {e.at}
    BY <2>1 DEF Search
  <2> QED BY <2>2, <2>3
<1> QED BY <1>2, <1>3

LEMMA InvIsEnough ==
  ASSUME IInv
  PROVE  SearchesAreRight
BY SearchIsRight, FindIsRight DEF IInv, SearchesAreRight, SearchFindsLive, UniqueFinds

-----------------------------------------------------------------------------
(***************************************************************************)
(* What marking rows does.                                                 *)
(***************************************************************************)

\* Rows that are marked stay where they are, and are erased.
LEMMA MarkedRows ==
  ASSUME TypeOK, NEW hit \in SUBSET (DOMAIN rows)
  PROVE  /\ Marked(hit) \in Seq(Row) /\ Len(Marked(hit)) = Len(rows)
         /\ DOMAIN Marked(hit) = DOMAIN rows
         /\ \A i \in DOMAIN rows : Marked(hit)[i].cells = rows[i].cells
         /\ Live(Marked(hit)) = Live(rows) \ hit
<1>1. Len(rows) \in Nat /\ DOMAIN rows = 1 .. Len(rows)
  BY RowsAreTyped
<1>2. ASSUME NEW i \in DOMAIN rows
      PROVE  /\ Marked(hit)[i] \in Row
             /\ Marked(hit)[i].cells = rows[i].cells
             /\ Marked(hit)[i].deleted = (rows[i].deleted \/ i \in hit)
  <2>1. Marked(hit)[i] = [cells |-> rows[i].cells, deleted |-> rows[i].deleted \/ i \in hit]
    BY DEF Marked
  <2>2. rows[i].cells \in Cells /\ (rows[i].deleted \/ i \in hit) \in BOOLEAN
    BY RowsAreTyped
  <2> QED BY <2>1, <2>2 DEF Row
<1>3. Marked(hit) = [i \in 1 .. Len(rows) |-> Marked(hit)[i]]
  BY <1>1 DEF Marked
<1>4. Marked(hit) \in [1 .. Len(rows) -> Row]
  BY <1>1, <1>2, <1>3
<1>5. Marked(hit) \in Seq(Row) /\ Len(Marked(hit)) = Len(rows) /\ DOMAIN Marked(hit) = DOMAIN rows
  BY <1>1, <1>4
<1> QED BY <1>2, <1>5 DEF Live

\* There are so many more erased rows as there were others among the marked.
LEMMA MarkedAreErased ==
  ASSUME TypeOK, NEW hit \in SUBSET Live(rows)
  PROVE  /\ Cardinality(hit) \in 0 .. MaxRows
         /\ Cardinality(DOMAIN rows \ Live(rows)) + Cardinality(hit)
              = Cardinality(DOMAIN rows \ (Live(rows) \ hit))
         /\ Cardinality(DOMAIN rows \ (Live(rows) \ hit)) \in 0 .. Len(rows)
<1> DEFINE gone == DOMAIN rows \ Live(rows)
           all == DOMAIN rows \ (Live(rows) \ hit)
<1>1. Len(rows) \in Nat /\ Len(rows) <= MaxRows /\ MaxRows \in Nat /\ DOMAIN rows = 1 .. Len(rows)
      /\ hit \in SUBSET (1 .. Len(rows))
  BY RowsAreTyped, TableAssumption DEF TypeOK
<1>2. IsFiniteSet(hit) /\ Cardinality(hit) \in 0 .. Len(rows)
  BY <1>1, PositionsAreFinite
<1>3. gone \in SUBSET (1 .. Len(rows)) /\ all \in SUBSET (1 .. Len(rows))
  BY <1>1
<1>4. IsFiniteSet(gone) /\ Cardinality(gone) \in 0 .. Len(rows) /\ Cardinality(all) \in 0 .. Len(rows)
  <2> HIDE DEF gone, all
  <2> QED BY <1>1, <1>3, PositionsAreFinite
<1>5. all = gone \cup hit /\ gone \cap hit = {}
  BY <1>1
<1>6. Cardinality(gone \cup hit) = Cardinality(gone) + Cardinality(hit) - Cardinality(gone \cap hit)
  <2> HIDE DEF gone, all
  <2> QED BY <1>2, <1>4, FS_Union
<1>7. Cardinality(all) = Cardinality(gone) + Cardinality(hit)
  <2>1. Cardinality(gone \cap hit) = 0
    BY <1>5, FS_EmptySet
  <2>2. Cardinality(gone) \in Nat /\ Cardinality(hit) \in Nat
    BY <1>1, <1>2, <1>4
  <2> HIDE DEF gone, all
  <2> QED BY <1>5, <1>6, <2>1, <2>2
<1> QED BY <1>1, <1>2, <1>4, <1>7

-----------------------------------------------------------------------------
(***************************************************************************)
(* The operations keep the indexes true.                                   *)
(***************************************************************************)

\* The rows that a new one replaces.
LEMMA ReplacedRows ==
  ASSUME IInv, NEW cells \in Cells
  PROVE  /\ Replaced(cells) \in SUBSET (DOMAIN rows)
         /\ \A i \in Live(rows) :
              i \in Replaced(cells) <=> \E c \in UniqueColumns : rows[i].cells[c] = cells[c]
<1>1. ASSUME NEW i \in Replaced(cells)
      PROVE  i \in DOMAIN rows /\ \E c \in UniqueColumns : rows[i].cells[c] = cells[c]
  <2>0. PICK c \in UniqueColumns : \E e \in index[c] : e.value = cells[c] /\ i = e.at
    BY DEF Replaced, EqualRange
  <2>1. PICK e \in index[c] : e.value = cells[c] /\ i = e.at
    BY <2>0
  <2>2. c \in Columns
    BY DEF Columns
  <2>3. e.at \in DOMAIN rows /\ rows[e.at].cells[c] = e.value
    BY <2>1, <2>2, EntriesAreTyped DEF IInv, EntriesAreTrue
  <2> QED BY <2>1, <2>3
<1>2. ASSUME NEW i \in Live(rows), NEW c \in UniqueColumns, rows[i].cells[c] = cells[c]
      PROVE  i \in Replaced(cells)
  <2>1. [value |-> cells[c], at |-> i] \in index[c]
    BY <1>2 DEF IInv, LiveAreEntered, Columns
  <2>2. [value |-> cells[c], at |-> i] \in EqualRange(c, cells[c])
    BY <2>1 DEF EqualRange
  <2> QED BY <2>2 DEF Replaced
<1> QED BY <1>1, <1>2

\* What add() keeps of the indexes.
LEMMA KeptEntries ==
  ASSUME IInv, NEW cells \in Cells, NEW c \in Columns
  PROVE  /\ EntriesKept(cells)[c] \in SUBSET index[c]
         /\ c \in UniqueColumns => \A e \in EntriesKept(cells)[c] : e.value # cells[c]
         /\ \A e \in index[c] : e \notin EntriesKept(cells)[c] => e.at \in Replaced(cells)
<1>1. EntriesKept(cells)[c] = IF c \in UniqueColumns THEN index[c] \ EqualRange(c, cells[c])
                              ELSE index[c]
  BY DEF EntriesKept
<1>2. c \in UniqueColumns => \A e \in EqualRange(c, cells[c]) : e.at \in Replaced(cells)
  BY DEF Replaced
<1> QED BY <1>1, <1>2 DEF EqualRange

\* add(): the new row has its entries, which replace those of its values in the
\* unique columns.
LEMMA AddKeepsInv ==
  ASSUME IInv, NEW cells \in Cells, Add(cells)
  PROVE  IInv'
<1> DEFINE old == Marked(Replaced(cells))
           row == [cells |-> cells, deleted |-> FALSE]
           kept == EntriesKept(cells)
           at == Len(rows) + 1
<1>0. TypeOK
  BY DEF IInv
<1>1. /\ Len(rows) < MaxRows /\ rows' = Append(old, row)
      /\ index' = [c \in Columns |-> kept[c] \cup {[value |-> cells[c], at |-> at]}]
      /\ deletedCount' = deletedCount /\ count' = count
  BY DEF Add, AddRow
<1>2. /\ old \in Seq(Row) /\ Len(old) = Len(rows) /\ DOMAIN old = DOMAIN rows
      /\ \A i \in DOMAIN rows : old[i].cells = rows[i].cells
      /\ Live(old) = Live(rows) \ Replaced(cells)
  BY <1>0, ReplacedRows, MarkedRows
<1>3. row \in Row
  BY DEF Row
<1>4. /\ Len(rows) \in Nat /\ MaxRows \in Nat /\ DOMAIN rows = 1 .. Len(rows)
      /\ Live(rows) \in SUBSET (DOMAIN rows)
  BY <1>0, RowsAreTyped, TableAssumption
<1>5. /\ rows' \in Seq(Row) /\ Len(rows') = at
      /\ DOMAIN rows' = 1 .. at /\ at \in DOMAIN rows' /\ at \in 1 .. MaxRows
      /\ rows'[at] = row /\ \A i \in DOMAIN rows : rows'[i] = old[i] /\ i \in DOMAIN rows'
  <2> HIDE DEF old, row
  <2> QED BY <1>1, <1>2, <1>3, <1>4
<1>6. Live(rows') = (Live(rows) \ Replaced(cells)) \cup {at}
  <2>1. \A i \in DOMAIN rows' : i = at \/ (i \in DOMAIN rows /\ rows'[i] = old[i])
    <3> HIDE DEF old
    <3> QED BY <1>4, <1>5
  <2>2. \A i : i \in Live(rows') <=> i \in DOMAIN rows' /\ ~rows'[i].deleted
    BY DEF Live
  <2>3. \A i : i \in Live(old) <=> i \in DOMAIN rows /\ ~old[i].deleted
    BY <1>2 DEF Live
  <2>4. ~rows'[at].deleted
    BY <1>5
  <2>5. Live(rows') = Live(old) \cup {at}
    <3> HIDE DEF old, row, at
    <3> QED BY <1>5, <2>1, <2>2, <2>3, <2>4
  <2> QED BY <1>2, <2>5
<1>7. \A c \in Columns : index'[c] = kept[c] \cup {[value |-> cells[c], at |-> at]}
  BY <1>1
<1>8. \A c \in Columns : \A e \in index'[c] :
        \/ e \in kept[c] /\ e \in index[c]
        \/ e = [value |-> cells[c], at |-> at]
  BY <1>7, KeptEntries
<1>9. TypeOK'
  <2>1. \A c \in Columns : [value |-> cells[c], at |-> at] \in Entry
    BY <1>5 DEF Entry, Cells
  <2>2. ASSUME NEW c \in Columns, NEW e \in index'[c]
        PROVE  e \in Entry /\ e.at \in DOMAIN rows'
    <3>1. CASE e \in index[c]
      BY <1>0, <1>5, <3>1, EntriesAreTyped
    <3>2. CASE e = [value |-> cells[c], at |-> at]
      BY <1>5, <2>1, <3>2
    <3> QED BY <1>8, <2>2, <3>1, <3>2
  <2>3. index' \in [Columns -> SUBSET Entry]
    <3>1. index' = [c \in Columns |-> index'[c]]
      BY <1>1
    <3> QED BY <2>2, <3>1
  <2> HIDE DEF at
  <2> QED BY <1>0, <1>1, <1>4, <1>5, <2>2, <2>3 DEF TypeOK, at
<1>10. EntriesAreTrue'
  <2>1. ASSUME NEW c \in Columns, NEW e \in index'[c]
        PROVE  rows'[e.at].cells[c] = e.value
    <3>1. CASE e \in index[c]
      <4>1. e.at \in DOMAIN rows /\ rows[e.at].cells[c] = e.value
        BY <3>1, EntriesAreTyped DEF IInv, EntriesAreTrue
      <4> QED BY <1>2, <1>5, <4>1
    <3>2. CASE e = [value |-> cells[c], at |-> at]
      BY <1>5, <3>2
    <3> QED BY <1>8, <2>1, <3>1, <3>2
  <2> QED BY <2>1 DEF EntriesAreTrue
<1>11. LiveAreEntered'
  <2>1. ASSUME NEW c \in Columns, NEW i \in Live(rows')
        PROVE  [value |-> rows'[i].cells[c], at |-> i] \in index'[c]
    <3>1. CASE i = at
      BY <1>5, <1>7, <3>1
    <3>2. CASE i \in Live(rows) /\ i \notin Replaced(cells)
      <4>1. i \in DOMAIN rows /\ rows'[i].cells = rows[i].cells
        BY <1>2, <1>4, <1>5, <3>2
      <4> DEFINE e == [value |-> rows[i].cells[c], at |-> i]
      <4>2. e \in index[c] /\ e.at = i
        BY <3>2 DEF IInv, LiveAreEntered
      <4>3. e \in kept[c]
        BY <3>2, <4>2, KeptEntries
      <4> QED BY <1>7, <4>1, <4>3
    <3> QED BY <1>6, <2>1, <3>1, <3>2
  <2> QED BY <2>1 DEF LiveAreEntered
<1>12. UniqueEntries'
  <2>1. ASSUME NEW c \in UniqueColumns, NEW e \in index'[c], NEW f \in index'[c],
               e.value = f.value
        PROVE  e = f
    <3>1. c \in Columns
      BY DEF Columns
    <3>2. \A g \in kept[c] : g.value # cells[c]
      BY <3>1, KeptEntries
    <3>3. CASE e \in kept[c] /\ f \in kept[c]
      BY <2>1, <3>1, <3>3, KeptEntries DEF IInv, UniqueEntries
    <3>4. e \in kept[c] \/ e = [value |-> cells[c], at |-> at]
      BY <1>8, <3>1
    <3>5. f \in kept[c] \/ f = [value |-> cells[c], at |-> at]
      BY <1>8, <3>1
    <3> QED BY <2>1, <3>2, <3>3, <3>4, <3>5
  <2> QED BY <2>1 DEF UniqueEntries
<1>13. DeletedAreCounted'
  <2>1. DOMAIN rows \ Live(rows) \in SUBSET (DOMAIN rows' \ Live(rows'))
    BY <1>4, <1>5, <1>6
  <2>2. IsFiniteSet(DOMAIN rows' \ Live(rows'))
    <3>1. (DOMAIN rows' \ Live(rows')) \in SUBSET (1 .. at) /\ at \in Nat
      BY <1>4, <1>5
    <3> QED BY <3>1, PositionsAreFinite
  <2>3. /\ Cardinality(DOMAIN rows \ Live(rows)) <= Cardinality(DOMAIN rows' \ Live(rows'))
        /\ IsFiniteSet(DOMAIN rows \ Live(rows))
    BY <2>1, <2>2, FS_Subset
  <2>4. /\ Cardinality(DOMAIN rows \ Live(rows)) \in Nat
        /\ Cardinality(DOMAIN rows' \ Live(rows')) \in Nat
    BY <2>2, <2>3, FS_CardinalityType
  <2>5. deletedCount \in Nat /\ deletedCount <= Cardinality(DOMAIN rows \ Live(rows))
    BY DEF IInv, DeletedAreCounted, TypeOK
  <2>6. deletedCount <= Cardinality(DOMAIN rows' \ Live(rows'))
    BY <2>3, <2>4, <2>5
  <2> QED BY <1>1, <2>6 DEF DeletedAreCounted
<1> QED BY <1>9, <1>10, <1>11, <1>12, <1>13 DEF IInv

\* erase() marks the rows of the value, and no others; if that is all, those of
\* its entries that are of other rows go too, which were erased before.
LEMMA ErasedRows ==
  ASSUME IInv, NEW c \in Columns, NEW v
  PROVE  /\ Search(c, v) \in SUBSET Live(rows)
         /\ Search(c, v) \in SUBSET (DOMAIN rows)
         /\ \A i \in Live(rows) : i \in Search(c, v) <=> rows[i].cells[c] = v
BY SearchIsRight DEF IInv, Live

LEMMA ErasingInPlaceKeepsInv ==
  ASSUME IInv, NEW c \in Columns, NEW v, NEW deletedNow,
         deletedNow = deletedCount + Cardinality(Search(c, v)),
         rows' = Marked(Search(c, v)),
         deletedCount' = deletedNow,
         index' = [index EXCEPT ![c] = @ \ EqualRange(c, v)],
         count' = Cardinality(Search(c, v))
  PROVE  IInv'
<1> DEFINE hit == Search(c, v)
<1>0. TypeOK
  BY DEF IInv
<1>1. hit \in SUBSET Live(rows) /\ hit \in SUBSET (DOMAIN rows)
  BY ErasedRows
<1>2. /\ rows' \in Seq(Row) /\ Len(rows') = Len(rows) /\ DOMAIN rows' = DOMAIN rows
      /\ \A i \in DOMAIN rows : rows'[i].cells = rows[i].cells
      /\ Live(rows') = Live(rows) \ hit
  <2>1. PICK old : old = Marked(hit)
    OBVIOUS
  <2>2. /\ old \in Seq(Row) /\ Len(old) = Len(rows) /\ DOMAIN old = DOMAIN rows
        /\ \A i \in DOMAIN rows : old[i].cells = rows[i].cells
        /\ Live(old) = Live(rows) \ hit
    BY <1>0, <1>1, <2>1, MarkedRows
  <2>3. rows' = old
    BY <2>1
  <2> QED BY <2>2, <2>3
<1>3. index \in [Columns -> SUBSET Entry]
  BY DEF IInv, TypeOK
<1>4. \A d \in Columns : index'[d] = IF d = c THEN index[c] \ EqualRange(c, v) ELSE index[d]
  BY <1>3
<1>5. \A d \in Columns : index'[d] \in SUBSET index[d]
  BY <1>4
<1>6. deletedCount' <= Cardinality(DOMAIN rows \ (Live(rows) \ hit)) /\ deletedCount' \in 0 .. MaxRows
      /\ count' \in 0 .. MaxRows
  <2>1. /\ Cardinality(hit) \in 0 .. MaxRows
        /\ Cardinality(DOMAIN rows \ Live(rows)) + Cardinality(hit)
             = Cardinality(DOMAIN rows \ (Live(rows) \ hit))
        /\ Cardinality(DOMAIN rows \ (Live(rows) \ hit)) \in 0 .. Len(rows)
    BY <1>0, <1>1, MarkedAreErased
  <2>2. /\ Len(rows) \in Nat /\ MaxRows \in Nat /\ Len(rows) <= MaxRows
        /\ deletedCount \in Nat
    BY <1>0, RowsAreTyped, TableAssumption DEF TypeOK
  <2>3. Cardinality(DOMAIN rows \ Live(rows)) \in Nat
    <3>1. (DOMAIN rows \ Live(rows)) \in SUBSET (1 .. Len(rows))
      BY <1>0, RowsAreTyped
    <3> QED BY <2>2, <3>1, PositionsAreFinite
  <2>4. deletedCount <= Cardinality(DOMAIN rows \ Live(rows))
    BY DEF IInv, DeletedAreCounted
  <2>5. deletedCount' = deletedCount + Cardinality(hit) /\ count' = Cardinality(hit)
    OBVIOUS
  <2> HIDE DEF hit
  <2> QED BY <2>1, <2>2, <2>3, <2>4, <2>5
<1>7. TypeOK'
  <2>1. index' \in [Columns -> SUBSET Entry]
    BY <1>3, <1>4
  <2>2. \A d \in Columns : \A e \in index'[d] : e.at \in DOMAIN rows'
    BY <1>0, <1>2, <1>5, EntriesAreTyped
  <2>3. Len(rows') <= MaxRows
    BY <1>0, <1>2 DEF TypeOK
  <2> QED BY <1>2, <1>6, <2>1, <2>2, <2>3 DEF TypeOK
<1>8. EntriesAreTrue'
  <2>1. ASSUME NEW d \in Columns, NEW e \in index'[d] PROVE rows'[e.at].cells[d] = e.value
    <3>1. e \in index[d]
      BY <1>5
    <3>2. e.at \in DOMAIN rows /\ rows[e.at].cells[d] = e.value
      BY <1>0, <3>1, EntriesAreTyped DEF IInv, EntriesAreTrue
    <3> QED BY <1>2, <3>2
  <2> QED BY <2>1 DEF EntriesAreTrue
<1>9. LiveAreEntered'
  <2>1. ASSUME NEW d \in Columns, NEW i \in Live(rows')
        PROVE  [value |-> rows'[i].cells[d], at |-> i] \in index'[d]
    <3>1. i \in Live(rows) /\ i \notin hit /\ i \in DOMAIN rows
      BY <1>0, <1>2, RowsAreTyped
    <3>2. rows'[i].cells = rows[i].cells
      BY <1>2, <3>1
    <3>3. [value |-> rows[i].cells[d], at |-> i] \in index[d]
      BY <3>1 DEF IInv, LiveAreEntered
    <3>4. d = c => rows[i].cells[c] # v
      BY <3>1, ErasedRows
    <3>5. d = c => [value |-> rows[i].cells[d], at |-> i] \notin EqualRange(c, v)
      BY <3>4 DEF EqualRange
    <3> QED BY <1>4, <3>2, <3>3, <3>5
  <2> QED BY <2>1 DEF LiveAreEntered
<1>10. UniqueEntries'
  BY <1>5 DEF IInv, UniqueEntries, Columns
<1>11. DeletedAreCounted'
  BY <1>2, <1>6 DEF DeletedAreCounted
<1> QED BY <1>7, <1>8, <1>9, <1>10, <1>11 DEF IInv

\* refresh(): each row that is not erased goes to its place, with its entries.
LEMMA RefreshKeepsInv ==
  ASSUME IInv, NEW hit \in SUBSET Live(rows), Refresh(Marked(hit)),
         count' = Cardinality(hit)
  PROVE  IInv' /\ Live(rows') = DOMAIN rows'
<1> DEFINE old == Marked(hit)
           K == Live(rows) \ hit
<1>0. TypeOK
  BY DEF IInv
<1>1. /\ Len(rows) \in Nat /\ Len(rows) <= MaxRows /\ MaxRows \in Nat
      /\ DOMAIN rows = 1 .. Len(rows) /\ Live(rows) \in SUBSET (DOMAIN rows)
      /\ K \in SUBSET (1 .. Len(rows)) /\ hit \in SUBSET (DOMAIN rows)
  BY <1>0, RowsAreTyped, TableAssumption DEF TypeOK
<1>2. /\ old \in Seq(Row) /\ Len(old) = Len(rows) /\ DOMAIN old = DOMAIN rows
      /\ \A i \in DOMAIN rows : old[i].cells = rows[i].cells
      /\ Live(old) = K
  BY <1>0, <1>1, MarkedRows
<1>3. /\ rows' = Sublist(old, K) /\ deletedCount' = 0
      /\ \A c \in Columns :
           index'[c] = {[value |-> e.value, at |-> Place(K, e.at)] : e \in {e \in index[c] : e.at \in K}}
      /\ index' = [c \in Columns |-> index'[c]]
  <2> HIDE DEF old, K
  <2>1. Refresh(old)
    BY DEF old
  <2> QED BY <1>2, <2>1 DEF Refresh, NewLocation
<1>4. /\ rows' \in Seq(Row) /\ Len(rows') = Cardinality(K) /\ DOMAIN rows' = 1 .. Cardinality(K)
      /\ Cardinality(K) \in 0 .. Len(rows)
  <2>1. PICK new : new = Sublist(old, K)
    OBVIOUS
  <2>2. /\ new \in Seq(Row) /\ Len(new) = Cardinality(K) /\ DOMAIN new = 1 .. Cardinality(K)
        /\ Cardinality(K) \in 0 .. Len(old)
    <3> HIDE DEF old, K
    <3> QED BY <1>1, <1>2, <2>1, SublistIsTyped
  <2> HIDE DEF old, K
  <2> QED BY <1>2, <1>3, <2>1, <2>2
<1>5. ASSUME NEW i \in K
      PROVE  /\ Place(K, i) \in DOMAIN rows'
             /\ rows'[Place(K, i)].cells = rows[i].cells
             /\ ~rows'[Place(K, i)].deleted
  <2>1. Place(K, i) \in 1 .. Cardinality(K) /\ Sublist(old, K)[Place(K, i)] = old[i]
    <3> HIDE DEF old, K
    <3> QED BY <1>1, SublistAt
  <2>2. i \in DOMAIN rows /\ i \in Live(old)
    BY <1>1, <1>2
  <2>3. ~old[i].deleted
    BY <2>2 DEF Live
  <2> HIDE DEF old, K
  <2> QED BY <1>2, <1>3, <1>4, <2>1, <2>2, <2>3
<1>6. ASSUME NEW n \in DOMAIN rows'
      PROVE  \E i \in K : n = Place(K, i)
  <2> HIDE DEF K
  <2> QED BY <1>1, <1>4, PlacesAreTaken
<1>7. Live(rows') = DOMAIN rows'
  <2>1. \A n \in DOMAIN rows' : ~rows'[n].deleted
    BY <1>5, <1>6
  <2> QED BY <2>1 DEF Live
<1>8. ASSUME NEW c \in Columns, NEW f \in index'[c]
      PROVE  \E e \in index[c] : /\ e.at \in K /\ f = [value |-> e.value, at |-> Place(K, e.at)]
                                 /\ f.value = e.value /\ f.at = Place(K, e.at)
                                 /\ rows[e.at].cells[c] = e.value /\ e.value \in Values
  <2>1. PICK e \in index[c] : e.at \in K /\ f = [value |-> e.value, at |-> Place(K, e.at)]
    <3> HIDE DEF K
    <3> QED BY <1>3
  <2>2. rows[e.at].cells[c] = e.value /\ e \in Entry
    BY <1>0, EntriesAreTyped DEF IInv, EntriesAreTrue
  <2> QED BY <2>1, <2>2 DEF Entry
<1>9. TypeOK'
  <2>1. ASSUME NEW c \in Columns, NEW f \in index'[c]
        PROVE  f \in Entry /\ f.at \in DOMAIN rows'
    <3>1. PICK e \in index[c] : /\ e.at \in K /\ f = [value |-> e.value, at |-> Place(K, e.at)]
                               /\ e.value \in Values
      BY <1>8
    <3>2. Place(K, e.at) \in DOMAIN rows'
      BY <1>5, <3>1
    <3>3. Place(K, e.at) \in 1 .. MaxRows
      <4> HIDE DEF K
      <4> QED BY <1>1, <1>4, <3>2
    <3> HIDE DEF K
    <3> QED BY <3>1, <3>2, <3>3 DEF Entry
  <2>2. index' \in [Columns -> SUBSET Entry]
    BY <1>3, <2>1
  <2>3. count' \in 0 .. MaxRows
    BY <1>0, MarkedAreErased
  <2>4. Len(rows') <= MaxRows /\ deletedCount' \in 0 .. MaxRows
    <3> HIDE DEF K
    <3> QED BY <1>1, <1>3, <1>4
  <2> QED BY <1>4, <2>1, <2>2, <2>3, <2>4 DEF TypeOK
<1>10. EntriesAreTrue'
  <2>1. ASSUME NEW c \in Columns, NEW f \in index'[c] PROVE rows'[f.at].cells[c] = f.value
    <3>1. PICK e \in index[c] : /\ e.at \in K /\ f.value = e.value /\ f.at = Place(K, e.at)
                               /\ rows[e.at].cells[c] = e.value
      BY <1>8
    <3>2. rows'[Place(K, e.at)].cells = rows[e.at].cells
      BY <1>5, <3>1
    <3> HIDE DEF K
    <3> QED BY <3>1, <3>2
  <2> QED BY <2>1 DEF EntriesAreTrue
<1>11. LiveAreEntered'
  <2>1. ASSUME NEW c \in Columns, NEW n \in Live(rows')
        PROVE  [value |-> rows'[n].cells[c], at |-> n] \in index'[c]
    <3>1. PICK i \in K : n = Place(K, i)
      BY <1>6, <1>7
    <3> DEFINE e == [value |-> rows[i].cells[c], at |-> i]
    <3>2. e \in index[c] /\ e.at = i /\ e.value = rows[i].cells[c]
      BY DEF IInv, LiveAreEntered
    <3>3. rows'[n].cells = rows[i].cells
      BY <1>5, <3>1
    <3> HIDE DEF K, e
    <3> QED BY <1>3, <3>1, <3>2, <3>3
  <2> QED BY <2>1 DEF LiveAreEntered
<1>12. UniqueEntries'
  <2>1. ASSUME NEW c \in UniqueColumns, NEW f \in index'[c], NEW g \in index'[c],
               f.value = g.value
        PROVE  f = g
    <3>1. c \in Columns
      BY DEF Columns
    <3>2. PICK e \in index[c] : f = [value |-> e.value, at |-> Place(K, e.at)] /\ f.value = e.value
      BY <1>8, <3>1
    <3>3. PICK d \in index[c] : g = [value |-> d.value, at |-> Place(K, d.at)] /\ g.value = d.value
      BY <1>8, <3>1
    <3>4. e = d
      BY <2>1, <3>2, <3>3 DEF IInv, UniqueEntries
    <3> QED BY <3>2, <3>3, <3>4
  <2> QED BY <2>1 DEF UniqueEntries
<1>13. DeletedAreCounted'
  <2>1. DOMAIN rows' \ Live(rows') = {}
    BY <1>7
  <2>2. Cardinality(DOMAIN rows' \ Live(rows')) = 0
    BY <2>1, FS_EmptySet
  <2> QED BY <1>3, <2>2 DEF DeletedAreCounted
<1> QED BY <1>7, <1>9, <1>10, <1>11, <1>12, <1>13 DEF IInv

-----------------------------------------------------------------------------

LEMMA EraseKeepsInv ==
  ASSUME IInv, NEW c \in Columns, NEW v, Erase(c, v)
  PROVE  IInv'
<1>1. Search(c, v) \in SUBSET Live(rows)
  BY ErasedRows
<1>2. CASE Refresh(Marked(Search(c, v)))
  BY <1>1, <1>2, RefreshKeepsInv DEF Erase, EraseRows
<1>3. CASE ~Refresh(Marked(Search(c, v)))
  BY <1>3, ErasingInPlaceKeepsInv DEF Erase, EraseRows
<1> QED BY <1>2, <1>3

LEMMA InitHasInv ==
  ASSUME Init
  PROVE  IInv
<1>1. DOMAIN rows = {} /\ rows \in Seq(Row) /\ Len(rows) = 0
  BY DEF Init
<1>2. Live(rows) = {} /\ DOMAIN rows \ Live(rows) = {}
  BY <1>1 DEF Live
<1>3. TypeOK
  BY <1>1, TableAssumption DEF Init, TypeOK
<1>4. DeletedAreCounted
  <2>1. Cardinality(DOMAIN rows \ Live(rows)) = 0
    BY <1>2, FS_EmptySet
  <2> QED BY <2>1 DEF Init, DeletedAreCounted
<1>5. EntriesAreTrue /\ UniqueEntries
  BY DEF Init, EntriesAreTrue, UniqueEntries, Columns
<1>6. LiveAreEntered
  BY <1>2 DEF LiveAreEntered
<1> QED BY <1>3, <1>4, <1>5, <1>6 DEF IInv

LEMMA NextKeepsInv ==
  ASSUME IInv, [Next]_vars
  PROVE  IInv'
<1>1. CASE \E cells \in Cells : Add(cells)
  BY <1>1, AddKeepsInv
<1>2. CASE \E c \in Columns, v \in Values : Erase(c, v)
  BY <1>2, EraseKeepsInv
<1>3. CASE UNCHANGED vars
  BY <1>3 DEF vars, IInv, TypeOK, EntriesAreTrue, LiveAreEntered, UniqueEntries,
              DeletedAreCounted, Live
<1> QED BY <1>1, <1>2, <1>3 DEF Next

\* What the indexes hold, with the types, is invariant.
THEOREM TableInvariant == Spec => []IInv
BY InitHasInv, NextKeepsInv, PTL DEF Spec

\* Whatever was added, erased and moved before, a search of a column finds the
\* rows of a value that are not erased, and find() the one that there may be.
THEOREM SearchesFindTheRows == Spec => []SearchesAreRight
BY TableInvariant, InvIsEnough, PTL

-----------------------------------------------------------------------------
(***************************************************************************)
(* The table implements RowList.  What is left of the cells of the rows    *)
(* changes as the list does; that refresh() moves the rows is a stutter.   *)
(***************************************************************************)

\* The cells of the rows, erased ones too.
LEMMA CellsAreTyped ==
  ASSUME NEW some \in Seq(Row)
  PROVE  /\ CellsOf(some) \in Seq(Cells) /\ Len(CellsOf(some)) = Len(some)
         /\ DOMAIN CellsOf(some) = DOMAIN some
         /\ \A i \in DOMAIN some : CellsOf(some)[i] = some[i].cells
         /\ CellsOf(some) = [i \in DOMAIN some |-> some[i].cells]
<1>0. \A i \in DOMAIN some : some[i] \in Row
  OBVIOUS
<1>1. Len(some) \in Nat /\ DOMAIN some = 1 .. Len(some) /\ \A i \in DOMAIN some : some[i].cells \in Cells
  BY <1>0 DEF Row
<1>2. CellsOf(some) = [i \in DOMAIN some |-> some[i].cells]
  BY DEF CellsOf
<1>3. CellsOf(some) \in [1 .. Len(some) -> Cells]
  BY <1>1, <1>2
<1> QED BY <1>1, <1>2, <1>3

LEMMA CellsOfSublist ==
  ASSUME NEW some \in Seq(Row), NEW K \in SUBSET (DOMAIN some)
  PROVE  CellsOf(Sublist(some, K)) = Sublist(CellsOf(some), K)
<1>1. /\ Sublist(some, K) \in Seq(Row) /\ Len(Sublist(some, K)) = Cardinality(K)
      /\ DOMAIN Sublist(some, K) = 1 .. Cardinality(K)
  BY SublistIsTyped
<1>2. PICK left \in Seq(Row) : left = Sublist(some, K)
  BY <1>1
<1>3. PICK m \in Nat : K \in SUBSET (1 .. m)
  OBVIOUS
<1>4. ASSUME NEW i \in K PROVE CellsOf(left)[Place(K, i)] = CellsOf(some)[i]
  <2>1. Place(K, i) \in 1 .. Cardinality(K) /\ left[Place(K, i)] = some[i]
    BY <1>2, <1>3, SublistAt
  <2>2. CellsOf(left)[Place(K, i)] = left[Place(K, i)].cells
    BY <1>1, <1>2, <2>1, CellsAreTyped
  <2>3. CellsOf(some)[i] = some[i].cells
    BY CellsAreTyped
  <2> QED BY <2>1, <2>2, <2>3
<1>5. CellsOf(left) \in Seq(Cells) /\ Len(CellsOf(left)) = Cardinality(K)
  BY <1>1, <1>2, CellsAreTyped
<1>6. CellsOf(left) = Sublist(CellsOf(some), K)
  BY ONLY <1>3, <1>4, <1>5, IsSublist
<1> QED BY <1>2, <1>6

LEMMA CellsOfAppended ==
  ASSUME NEW some \in Seq(Row), NEW row \in Row
  PROVE  CellsOf(Append(some, row)) = Append(CellsOf(some), row.cells)
<1>1. CellsOf(some) \in Seq(Cells) /\ Len(CellsOf(some)) = Len(some)
      /\ \A i \in DOMAIN some : CellsOf(some)[i] = some[i].cells
  BY CellsAreTyped
<1>2. PICK more \in Seq(Row) : more = Append(some, row)
  <2>1. Append(some, row) \in Seq(Row)
    OBVIOUS
  <2> QED BY <2>1
<1>3. /\ Len(more) = Len(some) + 1 /\ DOMAIN more = 1 .. Len(some) + 1 /\ Len(some) \in Nat
      /\ more[Len(some) + 1] = row /\ \A i \in 1 .. Len(some) : more[i] = some[i]
  BY <1>2
<1>4. /\ CellsOf(more) \in Seq(Cells) /\ Len(CellsOf(more)) = Len(some) + 1
      /\ \A i \in 1 .. Len(some) + 1 : CellsOf(more)[i] = more[i].cells
  BY <1>3, CellsAreTyped
<1>5. PICK cells : cells = row.cells /\ cells \in Cells
  BY DEF Row
<1>6. Append(CellsOf(some), cells) \in Seq(Cells) /\ Len(Append(CellsOf(some), cells)) = Len(some) + 1
  BY <1>1, <1>5
<1>7. \A i \in 1 .. Len(some) + 1 : CellsOf(more)[i] = Append(CellsOf(some), cells)[i]
  BY <1>1, <1>3, <1>4, <1>5
<1> HIDE DEF CellsOf
<1>8. CellsOf(more) = Append(CellsOf(some), cells)
  BY <1>3, <1>4, <1>6, <1>7
<1> QED BY <1>2, <1>5, <1>8

\* What is left of the list when some of its rows are marked.
LEMMA LiveRowsAfterMarking ==
  ASSUME TypeOK, NEW hit \in SUBSET (DOMAIN rows), NEW M \in SUBSET (DOMAIN LiveRows),
         \A i \in Live(rows) : Place(Live(rows), i) \in M <=> i \notin hit
  PROVE  /\ CellsOf(Sublist(Marked(hit), Live(Marked(hit)))) = Sublist(LiveRows, M)
         /\ LiveRows \in Seq(Cells)
         /\ Len(LiveRows) = Cardinality(Live(rows))
         /\ Cardinality(M) = Cardinality(Live(rows) \ hit)
<1> DEFINE K == Live(rows)
           N == Live(rows) \ hit
           s == CellsOf(rows)
           old == Marked(hit)
<1>1. rows \in Seq(Row) /\ K \in SUBSET (DOMAIN rows)
  BY RowsAreTyped DEF TypeOK
<1>2. /\ old \in Seq(Row) /\ DOMAIN old = DOMAIN rows /\ Live(old) = N
      /\ \A i \in DOMAIN rows : old[i].cells = rows[i].cells
  BY MarkedRows
<1>3. s \in Seq(Cells) /\ DOMAIN s = DOMAIN rows
  BY <1>1, CellsAreTyped
<1>4. CellsOf(old) = s
  BY <1>2 DEF CellsOf
<1>5. LiveRows = Sublist(s, K)
  <2> HIDE DEF K
  <2> QED BY <1>1, CellsOfSublist DEF LiveRows, K
<1>6. CellsOf(Sublist(old, N)) = Sublist(s, N)
  <2>1. N \in SUBSET (DOMAIN old)
    BY <1>1, <1>2
  <2> HIDE DEF N, old, s
  <2> QED BY <1>2, <1>4, <2>1, CellsOfSublist
<1>7. /\ LiveRows \in Seq(Cells) /\ Len(LiveRows) = Cardinality(K)
      /\ DOMAIN LiveRows = 1 .. Cardinality(K)
  <2> HIDE DEF s, K
  <2> QED BY <1>1, <1>3, <1>5, SublistIsTyped
<1>8. N = {i \in K : Place(K, i) \in M}
  OBVIOUS
<1>9. Sublist(Sublist(s, K), M) = Sublist(s, N) /\ Cardinality(N) = Cardinality(M)
  <2> HIDE DEF N, K, s
  <2> QED BY <1>1, <1>3, <1>7, <1>8, SublistOfSublist
<1> HIDE DEF N, K, s, old
<1>10. CellsOf(Sublist(old, Live(old))) = Sublist(LiveRows, M)
  BY <1>2, <1>5, <1>6, <1>9
<1> QED BY <1>7, <1>9, <1>10 DEF N, K, old

\* The list that the table is, and what its operations make of it, in terms of this
\* module's operators.
LEMMA SublistsAreTheSame ==
  \A s, K : Promise!Sublist(s, K) = Sublist(s, K)
BY DEF Promise!Sublist, Promise!Place, Promise!Cardinality, Sublist, Place, Cardinality

LEMMA LiveRowsAreRows ==
  ASSUME TypeOK
  PROVE  /\ LiveRows \in Seq(Cells) /\ Len(LiveRows) = Cardinality(Live(rows))
         /\ DOMAIN LiveRows = 1 .. Cardinality(Live(rows))
         /\ \A i \in Live(rows) : /\ Place(Live(rows), i) \in DOMAIN LiveRows
                                  /\ LiveRows[Place(Live(rows), i)] = rows[i].cells
<1> DEFINE K == Live(rows)
           left == Sublist(rows, K)
<1>1. rows \in Seq(Row) /\ K \in SUBSET (DOMAIN rows) /\ DOMAIN rows = 1 .. Len(rows)
      /\ Len(rows) \in Nat /\ K \in SUBSET (1 .. Len(rows))
  BY RowsAreTyped DEF TypeOK
<1>2. left \in Seq(Row) /\ Len(left) = Cardinality(K) /\ DOMAIN left = 1 .. Cardinality(K)
  <2> HIDE DEF K
  <2> QED BY <1>1, SublistIsTyped
<1>3. \A i \in K : Place(K, i) \in 1 .. Cardinality(K) /\ left[Place(K, i)] = rows[i]
  <2> HIDE DEF K
  <2> QED BY <1>1, SublistAt
<1>4. LiveRows = CellsOf(left)
  BY DEF LiveRows
<1>5. CellsOf(left) \in Seq(Cells) /\ Len(CellsOf(left)) = Len(left)
      /\ DOMAIN CellsOf(left) = DOMAIN left /\ \A n \in DOMAIN left : CellsOf(left)[n] = left[n].cells
  <2> HIDE DEF left
  <2> QED BY <1>2, CellsAreTyped
<1> HIDE DEF left, K
<1>6. \A i \in K : Place(K, i) \in DOMAIN LiveRows /\ LiveRows[Place(K, i)] = rows[i].cells
  BY <1>2, <1>3, <1>4, <1>5
<1> QED BY <1>2, <1>4, <1>5, <1>6 DEF K

\* add(): the list loses the rows that the new one clashes with, and gains it.
LEMMA AddImplements ==
  ASSUME IInv, NEW cells \in Cells, Add(cells)
  PROVE  Promise!Add(cells)
<1> DEFINE hit == Replaced(cells)
           old == Marked(hit)
           row == [cells |-> cells, deleted |-> FALSE]
           M == {n \in DOMAIN LiveRows : ~Promise!Clashes(LiveRows[n], cells)}
<1>0. TypeOK
  BY DEF IInv
<1>1. hit \in SUBSET (DOMAIN rows)
      /\ \A i \in Live(rows) : i \in hit <=> \E c \in UniqueColumns : rows[i].cells[c] = cells[c]
  BY ReplacedRows
<1>2. M \in SUBSET (DOMAIN LiveRows)
  OBVIOUS
<1>3. \A i \in Live(rows) : Place(Live(rows), i) \in M <=> i \notin hit
  <2>1. ASSUME NEW i \in Live(rows) PROVE Place(Live(rows), i) \in M <=> i \notin hit
    <3>1. /\ Place(Live(rows), i) \in DOMAIN LiveRows
          /\ LiveRows[Place(Live(rows), i)] = rows[i].cells
      BY <1>0, LiveRowsAreRows
    <3>2. i \in hit <=> Promise!Clashes(rows[i].cells, cells)
      BY <1>1 DEF Promise!Clashes
    <3> HIDE DEF hit
    <3> QED BY <3>1, <3>2
  <2> HIDE DEF M, hit
  <2> QED BY <2>1
<1>4. CellsOf(Sublist(old, Live(old))) = Sublist(LiveRows, M)
  <2> HIDE DEF M, hit
  <2> QED BY <1>0, <1>1, <1>2, <1>3, LiveRowsAfterMarking
<1>5. /\ old \in Seq(Row) /\ Live(old) \in SUBSET (DOMAIN old)
  <2> HIDE DEF hit
  <2> QED BY <1>0, <1>1, MarkedRows DEF Live
<1>6. row \in Row /\ row.cells = cells /\ ~row.deleted
  BY DEF Row
<1>7. rows' = Append(old, row) /\ count' = count
  BY DEF Add, AddRow
<1> HIDE DEF old, row, M, hit
<1>8. PICK more : more = Append(old, row)
  OBVIOUS
<1>9. /\ more \in Seq(Row) /\ DOMAIN more = DOMAIN old \cup {Len(old) + 1}
      /\ more[Len(old) + 1] = row /\ \A i \in DOMAIN old : more[i] = old[i]
      /\ Len(old) + 1 \notin DOMAIN old
  BY <1>5, <1>6, <1>8
<1>10. Live(more) = Live(old) \cup {Len(old) + 1}
  BY <1>6, <1>9 DEF Live
<1>11. Sublist(more, Live(more)) = Append(Sublist(old, Live(old)), row)
  <2>1. Sublist(Append(old, row), Live(old) \cup {Len(old) + 1}) = Append(Sublist(old, Live(old)), row)
    BY <1>5, <1>6, SublistOfAppended
  <2> QED BY <1>8, <1>10, <2>1
<1>12. CellsOf(Sublist(more, Live(more))) = Append(Sublist(LiveRows, M), cells)
  <2>1. Sublist(old, Live(old)) \in Seq(Row)
    BY <1>5, SublistIsTyped
  <2>2. CellsOf(Append(Sublist(old, Live(old)), row)) = Append(CellsOf(Sublist(old, Live(old))), row.cells)
    BY <1>6, <2>1, CellsOfAppended
  <2> QED BY <1>4, <1>6, <1>11, <2>2
<1>13. LiveRows' = CellsOf(Sublist(more, Live(more)))
  <2>1. rows' = more
    BY <1>7, <1>8
  <2> QED BY <2>1 DEF LiveRows
<1>14. LiveRows' = Append(Promise!Sublist(LiveRows, M), cells)
  BY <1>12, <1>13, SublistsAreTheSame
<1> QED BY <1>7, <1>14 DEF Promise!Add, M

\* erase(), in place or with a refresh(): the list loses the rows with the value.
LEMMA EraseImplements ==
  ASSUME IInv, NEW c \in Columns, NEW v, Erase(c, v)
  PROVE  Promise!Erase(c, v)
<1> DEFINE hit == Search(c, v)
           old == Marked(hit)
           M == {n \in DOMAIN LiveRows : LiveRows[n][c] # v}
<1>0. TypeOK
  BY DEF IInv
<1>1. /\ hit \in SUBSET (DOMAIN rows) /\ hit \in SUBSET Live(rows)
      /\ \A i \in Live(rows) : i \in hit <=> rows[i].cells[c] = v
  BY ErasedRows
<1>2. M \in SUBSET (DOMAIN LiveRows)
  OBVIOUS
<1>3. \A i \in Live(rows) : Place(Live(rows), i) \in M <=> i \notin hit
  <2>1. ASSUME NEW i \in Live(rows) PROVE Place(Live(rows), i) \in M <=> i \notin hit
    <3>1. /\ Place(Live(rows), i) \in DOMAIN LiveRows
          /\ LiveRows[Place(Live(rows), i)] = rows[i].cells
      BY <1>0, LiveRowsAreRows
    <3>2. i \in hit <=> rows[i].cells[c] = v
      BY <1>1
    <3> HIDE DEF hit
    <3> QED BY <3>1, <3>2
  <2> HIDE DEF M, hit
  <2> QED BY <2>1
<1>4. /\ CellsOf(Sublist(old, Live(old))) = Sublist(LiveRows, M)
      /\ LiveRows \in Seq(Cells) /\ Len(LiveRows) = Cardinality(Live(rows))
      /\ Cardinality(M) = Cardinality(Live(rows) \ hit)
  <2> HIDE DEF M, hit
  <2> QED BY <1>0, <1>1, <1>2, <1>3, LiveRowsAfterMarking
<1>5. /\ old \in Seq(Row) /\ Live(old) \in SUBSET (DOMAIN old)
  <2> HIDE DEF hit
  <2> QED BY <1>0, <1>1, MarkedRows DEF Live
<1>6. LiveRows' = Sublist(LiveRows, M)
  <2>1. CASE Refresh(old)
    <3>1. Live(rows') = DOMAIN rows'
      BY <1>1, <2>1, RefreshKeepsInv DEF Erase, EraseRows
    <3>2. PICK left : left = Sublist(old, Live(old))
      OBVIOUS
    <3>3. left \in Seq(Row)
      <4> HIDE DEF old
      <4> QED BY <1>5, <3>2, SublistIsTyped
    <3>4. Sublist(left, DOMAIN left) = left
      BY <3>3, SublistOfAll
    <3>5. rows' = left
      BY <2>1, <3>2 DEF Refresh
    <3>6. Sublist(rows', Live(rows')) = left
      BY <3>1, <3>4, <3>5
    <3>7. LiveRows' = CellsOf(left)
      BY <3>6 DEF LiveRows
    <3> QED BY <1>4, <3>2, <3>7
  <2>2. CASE ~Refresh(old)
    <3>1. rows' = old
      BY <2>2 DEF Erase, EraseRows
    <3>2. LiveRows' = CellsOf(Sublist(old, Live(old)))
      BY <3>1 DEF LiveRows
    <3> QED BY <1>4, <3>2
  <2> QED BY <2>1, <2>2
<1>7. count' = Cardinality(hit)
  BY DEF Erase, EraseRows
<1>8. Len(LiveRows') = Cardinality(M)
  <2>1. Len(Sublist(LiveRows, M)) = Cardinality(M)
    <3> HIDE DEF M
    <3> QED BY <1>2, <1>4, SublistIsTyped
  <2> QED BY <1>6, <2>1
<1>9. Cardinality(hit) = Cardinality(Live(rows)) - Cardinality(Live(rows) \ hit)
  <2>1. IsFiniteSet(Live(rows)) /\ Cardinality(Live(rows)) \in Nat
    <3>1. Live(rows) \in SUBSET (1 .. Len(rows)) /\ Len(rows) \in Nat
      BY <1>0, RowsAreTyped
    <3> QED BY <3>1, PositionsAreFinite
  <2>2. IsFiniteSet(hit) /\ Cardinality(hit) \in Nat
    BY <1>1, <2>1, FS_Subset, FS_CardinalityType
  <2>3. Cardinality(Live(rows) \ hit) = Cardinality(Live(rows)) - Cardinality(Live(rows) \cap hit)
    BY <2>1, FS_Difference
  <2>4. Cardinality(Live(rows) \cap hit) = Cardinality(hit)
    <3>1. Live(rows) \cap hit = hit
      BY <1>1
    <3> QED BY <3>1
  <2> HIDE DEF hit
  <2> QED BY <2>1, <2>2, <2>3, <2>4
<1> HIDE DEF hit, old, M
<1>10. LiveRows' = Promise!Sublist(LiveRows, M)
  BY <1>6, SublistsAreTheSame
<1>11. count' = Len(LiveRows) - Len(LiveRows')
  BY <1>4, <1>7, <1>8, <1>9
<1> QED BY <1>10, <1>11 DEF Promise!Erase, M

LEMMA InitImplements ==
  ASSUME Init
  PROVE  Promise!Init
<1>1. IInv /\ rows = <<>> /\ count = 0
  BY InitHasInv DEF Init
<1>2. Live(rows) = {}
  BY <1>1 DEF Live
<1>3. Cardinality(Live(rows)) = 0
  BY <1>2, FS_EmptySet
<1>4. LiveRows \in Seq(Cells) /\ Len(LiveRows) = 0
  BY <1>1, <1>3, LiveRowsAreRows DEF IInv
<1>5. LiveRows = <<>>
  BY <1>4
<1> QED BY <1>1, <1>5 DEF Promise!Init

LEMMA NextImplements ==
  ASSUME IInv, [Next]_vars
  PROVE  [Promise!Next]_(Promise!vars)
<1>1. CASE \E cells \in Cells : Add(cells)
  <2>1. \E cells \in Cells : Promise!Add(cells)
    BY <1>1, AddImplements
  <2> QED BY <2>1 DEF Promise!Next, Promise!Cells, Promise!Columns, Cells, Columns
<1>2. CASE \E c \in Columns, v \in Values : Erase(c, v)
  <2>1. \E c \in Columns, v \in Values : Promise!Erase(c, v)
    BY <1>2, EraseImplements
  <2> QED BY <2>1 DEF Promise!Next, Promise!Columns, Columns
<1>3. CASE UNCHANGED vars
  BY <1>3 DEF vars, Promise!vars, LiveRows, Live
<1> QED BY <1>1, <1>2, <1>3 DEF Next

\* The table is the list that it looks like: an add() or erase() does to the rows that
\* are left, in their order, what RowList says, and erase() returns how many went.
THEOREM TableImplementsRowList == Spec => ImplementsRowList
BY TableInvariant, InitImplements, NextImplements, PTL DEF Spec, ImplementsRowList, Promise!Spec
=============================================================================
