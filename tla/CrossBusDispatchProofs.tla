----------------------- MODULE CrossBusDispatchProofs -----------------------
(***************************************************************************)
(* Proofs about CrossBusDispatch for every finite number of buses,         *)
(* whatever their routes (Via) and servers, and every finite set of        *)
(* priorities.                                                             *)
(***************************************************************************)
EXTENDS CrossBusDispatch, FiniteSetTheorems, WellFoundedInduction, TLAPS

\* the order of the naturals as a relation
NatLess == {ss \in Nat \X Nat : ss[1] < ss[2]}

\* There is no infinite descent in the naturals.
LEMMA NatLessWellFounded == IsWellFoundedOn(NatLess, Nat)
  <1>1. NatLess = OpToRel(<, Nat)
    BY Zenon DEF OpToRel, NatLess
  <1> QED
    BY <1>1, NatLessThanWellFounded, Zenon

\* Every nonempty set of naturals has a least element.
LEMMA LeastExists ==
  ASSUME NEW S \in SUBSET Nat, S # {}
  PROVE  \E x \in S : \A y \in S : x <= y
  <1>1. PICK x \in S : \A y \in S : ~(<<y, x>> \in NatLess)
    BY NatLessWellFounded, WFMin
  <1>2. \A a, b \in Nat : a < b => <<a, b>> \in NatLess
    BY Zenon DEF NatLess
  <1>3. ASSUME NEW y \in S PROVE x <= y
    <2>1. x \in Nat /\ y \in Nat
      OBVIOUS
    <2>2. ~(y < x)
      BY <1>1, <1>2, <2>1, Zenon
    <2> QED
      BY <2>1, <2>2
  <1> QED
    BY <1>3

\* A finite set ordered by R has a first element.
LEMMA FiniteFirst ==
  ASSUME NEW S, IsFiniteSet(S), S # {}, NEW R,
         \A x, y \in S : x # y => <<x, y>> \in R \/ <<y, x>> \in R,
         \A x, y, z \in S : <<x, y>> \in R /\ <<y, z>> \in R => <<x, z>> \in R
  PROVE  \E x \in S : \A y \in S \ {x} : <<x, y>> \in R
  <1>1. PICK n \in Nat : ExistsSurjection(1..n, S)
    BY FS_NatSurjection
  <1>2. PICK f \in Surjection(1..n, S) : TRUE
    BY <1>1 DEF ExistsSurjection
  <1>3. f \in [1..n -> S] /\ \A y \in S : \E i \in 1..n : f[i] = y
    BY <1>2 DEF Surjection
  <1> DEFINE IsFirst(i, m) == \A j \in 1..m : f[j] # f[i] => <<f[i], f[j]>> \in R
             Bad == {m \in 1..n : ~\E i \in 1..m : IsFirst(i, m)}
  <1>4. Bad = {}
    <2> SUFFICES ASSUME Bad # {} PROVE FALSE
      OBVIOUS
    <2>0. Bad \in SUBSET Nat
      OBVIOUS
    <2>1. PICK m \in Bad : \A b \in Bad : m <= b
      <3> HIDE DEF Bad
      <3> QED
        BY <2>0, LeastExists
    <2>2. m \in 1..n /\ ~\E i \in 1..m : IsFirst(i, m)
      OBVIOUS
    <2>3. m # 1
      <3> SUFFICES ASSUME m = 1 PROVE FALSE
        OBVIOUS
      <3>1. IsFirst(1, 1)
        OBVIOUS
      <3> QED
        BY <2>2, <3>1
    <2>4. m - 1 \in 1..n /\ m - 1 \notin Bad
      <3>1. m \in 1..n /\ m - 1 \in 1..n
        BY <2>2, <2>3
      <3> HIDE DEF Bad
      <3>2. m - 1 < m
        BY <3>1
      <3> QED
        BY <2>1, <3>1, <3>2
    <2>5. PICK i \in 1..(m - 1) : IsFirst(i, m - 1)
      BY <2>4
    <2>6. i \in 1..n /\ m \in 1..n /\ i \in 1..m /\ m \in 1..m
      BY <2>2
    <2>7. CASE f[m] = f[i] \/ <<f[i], f[m]>> \in R
      <3>1. \A j \in 1..m : j = m \/ j \in 1..(m - 1)
        BY <2>6
      <3>2. IsFirst(i, m)
        BY <2>5, <2>7, <3>1
      <3> QED
        BY <2>2, <2>6, <3>2
    <2>8. CASE f[m] # f[i] /\ <<f[m], f[i]>> \in R
      <3>1. ASSUME NEW j \in 1..m, f[j] # f[m] PROVE <<f[m], f[j]>> \in R
        <4>1. j \in 1..(m - 1) /\ j \in 1..n
          <5> HIDE DEF Bad, IsFirst
          <5>1. j # m
            BY <3>1
          <5> QED
            BY <2>6, <5>1
        <4>2. CASE f[j] = f[i]
          BY <2>8, <4>2
        <4>3. CASE f[j] # f[i]
          <5>1. <<f[i], f[j]>> \in R
            BY <2>5, <4>1, <4>3
          <5>2. f[i] \in S /\ f[j] \in S /\ f[m] \in S
            BY <1>3, <2>6, <4>1
          <5> QED
            BY <2>8, <5>1, <5>2
        <4> QED
          BY <4>2, <4>3
      <3> QED
        BY <2>2, <2>6, <3>1
    <2>9. f[i] \in S /\ f[m] \in S
      BY <1>3, <2>6
    <2> QED
      BY <2>7, <2>8, <2>9
  <1>5. n \in 1..n
    BY <1>3
  <1>6. PICK i \in 1..n : IsFirst(i, n)
    BY <1>4, <1>5
  <1>7. \A y \in S \ {f[i]} : <<f[i], y>> \in R
    BY <1>3, <1>6
  <1> QED
    BY <1>3, <1>7

-----------------------------------------------------------------------------
\* Merged lists are finite.
LEMMA EntryFinite == IsFiniteSet(Entry)
  <1> DEFINE Kinds == {"local", "remote"}
             P == (Kinds \X Nodes) \X Priorities
             f == [x \in P |-> [kind |-> x[1][1], t |-> x[1][2], p |-> x[2]]]
  <1>1. IsFiniteSet(Kinds)
    <2>1. IsFiniteSet({"local"}) /\ IsFiniteSet({"local"} \union {"remote"})
      BY FS_Singleton, FS_AddElement
    <2>2. Kinds = {"local"} \union {"remote"}
      OBVIOUS
    <2> QED
      BY <2>1, <2>2
  <1>2. IsFiniteSet(P)
    BY <1>1, CrossBusAssumption, FS_Product
  <1>3. f \in Surjection(P, Entry)
    <2>1. f \in [P -> Entry]
      BY DEF Entry
    <2>2. ASSUME NEW e \in Entry PROVE \E x \in P : f[x] = e
      <3>1. <<<<e.kind, e.t>>, e.p>> \in P
        BY DEF Entry
      <3>2. f[<<<<e.kind, e.t>>, e.p>>] = e
        BY <3>1 DEF Entry
      <3> QED
        BY <3>1, <3>2
    <2> QED
      BY <2>1, <2>2 DEF Surjection
  <1> QED
    BY <1>2, <1>3, FS_Surjection

\* Naturals are comparable.
LEMMA NatTrichotomy == \A a, b \in Nat : a # b => a < b \/ b < a
  OBVIOUS

\* The comparator of buildMergedList is a strict total order of the entries.
LEMMA BeforeOrder ==
  /\ \A x, y \in Entry : x # y => Before(x, y) \/ Before(y, x)
  /\ \A x, y \in Entry : ~(Before(x, y) /\ Before(y, x))
  /\ \A x, y, z \in Entry : Before(x, y) /\ Before(y, z) => Before(x, z)
  <1> USE CrossBusAssumption
  <1>1. ASSUME NEW x \in Entry
        PROVE  x.p \in Nat /\ x.t \in Nodes /\ Rank[x.t] \in Nat /\ x.kind \in {"local", "remote"}
    BY DEF Entry
  <1>2. ASSUME NEW x \in Entry, NEW y \in Entry, x # y PROVE Before(x, y) \/ Before(y, x)
    <2>1. x.p # y.p \/ x.kind # y.kind \/ x.t # y.t
      BY <1>2 DEF Entry
    <2>2. x.p \in Nat /\ x.t \in Nodes /\ Rank[x.t] \in Nat /\ x.kind \in {"local", "remote"}
      BY <1>1
    <2>3. y.p \in Nat /\ y.t \in Nodes /\ Rank[y.t] \in Nat /\ y.kind \in {"local", "remote"}
      BY <1>1
    <2>4. CASE x.p # y.p
      <3>1. x.p < y.p \/ y.p < x.p
        BY <2>2, <2>3, <2>4, NatTrichotomy, Zenon
      <3>2. x.p > y.p \/ y.p > x.p
        BY <2>2, <2>3, <3>1
      <3> QED
        BY <3>2, Zenon DEF Before
    <2>5. CASE x.p = y.p /\ x.kind # y.kind
      BY <2>2, <2>3, <2>5 DEF Before
    <2>6. CASE x.p = y.p /\ x.kind = y.kind
      <3>1. Rank[x.t] # Rank[y.t]
        BY <2>1, <2>2, <2>3, <2>6
      <3>2. Rank[x.t] < Rank[y.t] \/ Rank[y.t] < Rank[x.t]
        BY <2>2, <2>3, <3>1, NatTrichotomy, Zenon
      <3> QED
        BY <2>6, <3>2, Zenon DEF Before
    <2> QED
      BY <2>4, <2>5, <2>6
  <1>3. ASSUME NEW x \in Entry, NEW y \in Entry, Before(x, y), Before(y, x) PROVE FALSE
    BY <1>1, <1>3 DEF Before
  <1>4. ASSUME NEW x \in Entry, NEW y \in Entry, NEW z \in Entry, Before(x, y), Before(y, z)
        PROVE  Before(x, z)
    BY <1>1, <1>4 DEF Before
  <1> QED
    BY <1>2, <1>3, <1>4

\* The head of a nonempty list comes before all its other entries, and
\* everything that comes before the head is not in the list.
LEMMA HeadIsFirst ==
  ASSUME NEW S \in SUBSET Entry, S # {}
  PROVE  /\ Head1(S) \in S
         /\ \A y \in S \ {Head1(S)} : Before(Head1(S), y)
         /\ \A y \in Entry : Before(y, Head1(S)) => y \notin S
  <1> DEFINE R == {xy \in Entry \X Entry : Before(xy[1], xy[2])}
  <1>1. \A x, y \in Entry : <<x, y>> \in R <=> Before(x, y)
    OBVIOUS
  <1>2. IsFiniteSet(S)
    BY EntryFinite, FS_Subset
  <1> HIDE DEF R
  <1>3. /\ \A x, y \in S : x # y => <<x, y>> \in R \/ <<y, x>> \in R
        /\ \A x, y, z \in S : <<x, y>> \in R /\ <<y, z>> \in R => <<x, z>> \in R
    BY <1>1, BeforeOrder
  <1>4. PICK x \in S : \A y \in S \ {x} : <<x, y>> \in R
    BY <1>2, <1>3, FiniteFirst
  <1>5. \A y \in S \ {x} : Before(x, y)
    BY <1>1, <1>4
  <1>6. Head1(S) \in S /\ \A y \in S \ {Head1(S)} : Before(Head1(S), y)
    BY <1>5 DEF Head1
  <1>7. ASSUME NEW y \in S, Before(y, Head1(S)) PROVE FALSE
    <2>1. CASE y = Head1(S)
      BY <1>7, <2>1, BeforeOrder
    <2>2. CASE y # Head1(S)
      BY <1>6, <1>7, <2>2, BeforeOrder
    <2> QED
      BY <2>1, <2>2
  <1> QED
    BY <1>6, <1>7

\* The last of a nonempty list is one of its entries.
LEMMA LastExists ==
  ASSUME NEW S \in SUBSET Entry, S # {}
  PROVE  Last1(S) \in S
  <1> DEFINE R == {xy \in Entry \X Entry : Before(xy[2], xy[1])}
  <1>1. \A x, y \in Entry : <<x, y>> \in R <=> Before(y, x)
    OBVIOUS
  <1>2. IsFiniteSet(S)
    BY EntryFinite, FS_Subset
  <1> HIDE DEF R
  <1>3. /\ \A x, y \in S : x # y => <<x, y>> \in R \/ <<y, x>> \in R
        /\ \A x, y, z \in S : <<x, y>> \in R /\ <<y, z>> \in R => <<x, z>> \in R
    BY <1>1, BeforeOrder
  <1>4. PICK x \in S : \A y \in S \ {x} : <<x, y>> \in R
    BY <1>2, <1>3, FiniteFirst
  <1>5. \A y \in S \ {x} : Before(y, x)
    BY <1>1, <1>4
  <1> QED
    BY <1>5 DEF Last1

\* A merged list holds exactly the entries that stand for the handlers.
LEMMA MergedEntries ==
  ASSUME TypeOK, NEW n \in Nodes
  PROVE  /\ Merged(n) \in SUBSET Entry
         /\ \A k \in Nodes : \A p \in handlers[k] :
               EntryOf(n, k, p) \in Merged(n) /\ EntryOf(n, k, p).p = p
         /\ \A x \in Merged(n) : x.kind = "remote" => \E k \in Nodes : k # n /\ x.t = Via[n][k]
  <1> USE CrossBusAssumption
  <1>1. \A k \in Nodes : handlers[k] \subseteq Priorities
    BY DEF TypeOK
  <1>2. LocalEntries(n) \subseteq Entry
    BY <1>1 DEF LocalEntries, Entry
  <1>3. RemoteEntries(n) \subseteq Entry
    BY <1>1 DEF RemoteEntries, Entry
  <1>4. ASSUME NEW k \in Nodes, NEW p \in handlers[k]
        PROVE  EntryOf(n, k, p) \in Merged(n) /\ EntryOf(n, k, p).p = p
    BY DEF EntryOf, Merged, LocalEntries, RemoteEntries
  <1>5. ASSUME NEW x \in Merged(n), x.kind = "remote" PROVE \E k \in Nodes : k # n /\ x.t = Via[n][k]
    <2>1. x \in RemoteEntries(n)
      BY <1>5 DEF Merged, LocalEntries
    <2> QED
      BY <2>1 DEF RemoteEntries
  <1> QED
    BY <1>2, <1>3, <1>4, <1>5 DEF Merged

\* The cursor sent with an entry e is above e, and every handler at or above it
\* stands before e in the sender's list or was at or above the sender's cursor.
LEMMA RemoteCursorAbove ==
  ASSUME TypeOK, NEW n \in Nodes, NEW e \in Merged(n), NEW c \in Nat \union {NoCursor}, Below(e.p, c)
  PROVE  /\ RemoteCursor(n, e, c) \in Nat \union {NoCursor}
         /\ Below(e.p, RemoteCursor(n, e, c))
         /\ \A k \in Nodes : \A q \in handlers[k] : ~Below(q, RemoteCursor(n, e, c)) =>
               Before(EntryOf(n, k, q), e) \/ ~Below(q, c)
  <1> USE CrossBusAssumption
  <1> DEFINE above == {x \in Merged(n) : Before(x, e)}
             base == Last1(above).p
             rc == RemoteCursor(n, e, c)
  <1>1. Merged(n) \in SUBSET Entry /\ e \in Entry /\ e.p \in Nat
    BY MergedEntries DEF Entry
  <1>2. CASE above = {}
    <2>1. rc = c
      BY <1>2 DEF RemoteCursor
    <2> QED
      BY <2>1
  <1>3. CASE above # {}
    <2>1. above \in SUBSET Entry
      BY <1>1
    <2>2. Last1(above) \in above
      BY <1>3, <2>1, LastExists
    <2>3. base \in Nat /\ base >= e.p
      <3>1. Last1(above) \in Entry /\ Before(Last1(above), e)
        BY <2>1, <2>2
      <3>2. Last1(above).p \in Nat
        BY <3>1 DEF Entry
      <3> HIDE DEF above
      <3> QED
        BY <1>1, <3>1, <3>2 DEF Before
    <2>4. rc = IF base = e.p THEN base + 1 ELSE base
      BY <1>3 DEF RemoteCursor
    <2> HIDE DEF above, base, rc
    <2>5. rc \in Nat /\ e.p < rc
      <3>1. CASE base = e.p
        BY <1>1, <2>3, <2>4, <3>1
      <3>2. CASE base # e.p
        <4>1. ~(base < e.p)
          BY <1>1, <2>3
        <4>2. e.p < base
          BY <1>1, <2>3, <3>2, <4>1, NatTrichotomy, Zenon
        <4> QED
          BY <2>3, <2>4, <3>2, <4>2, Zenon
      <3> QED
        BY <3>1, <3>2
    <2>6. ASSUME NEW k \in Nodes, NEW q \in handlers[k], ~Below(q, rc) PROVE Before(EntryOf(n, k, q), e)
      <3>1. q \in Nat /\ EntryOf(n, k, q).p = q
        BY MergedEntries DEF TypeOK
      <3>2. q > e.p
        BY <1>1, <2>5, <2>6, <3>1 DEF Below
      <3> QED
        BY <3>1, <3>2 DEF Before
    <2> QED
      BY <2>5, <2>6 DEF rc, Below
  <1> QED
    BY <1>2, <1>3

-----------------------------------------------------------------------------
\* Merged lists follow the handlers.
LEMMA MergedStays ==
  ASSUME UNCHANGED handlers
  PROVE  TodoBelow' <=> \A i \in 1..Len(stack') :
                            stack'[i].todo \subseteq FromCursor(Merged(stack'[i].node), stack'[i].cursor)
  BY DEF TodoBelow, Merged, LocalEntries, RemoteEntries, FromCursor

\* The state of a dispatch on the stack.
LEMMA FrameType ==
  ASSUME StackInv, NEW i \in 1..Len(stack)
  PROVE  /\ stack[i] \in Dispatch
         /\ stack[i].node \in Nodes
         /\ stack[i].todo \in SUBSET Entry
         /\ stack[i].cursor \in Nat \union {NoCursor}
         /\ stack[i].err \in BOOLEAN
         /\ stack[i].todo \subseteq Merged(stack[i].node)
         /\ \A e \in stack[i].todo : Below(e.p, stack[i].cursor)
  <1>1. stack[i] \in Dispatch
    BY DEF StackInv, TypeOK
  <1>2. stack[i].todo \subseteq FromCursor(Merged(stack[i].node), stack[i].cursor)
    BY DEF StackInv, TodoBelow
  <1> QED
    BY <1>1, <1>2 DEF Dispatch, FromCursor, Below

\* Which handlers are behind a client depends on the buses on the stack only.
LEMMA ExcusedStays ==
  ASSUME NEW j \in Nat, NEW k \in Nodes, Excused(j, k),
         \A h \in 1..j : stack'[h].node = stack[h].node
  PROVE  \E h \in 1..j : /\ k # stack'[h].node /\ h > 1 /\ stack'[h].node \in Servers
                         /\ stack'[h - 1].node = Via[stack'[h].node][k]
  <1>1. PICK h \in 1..j : k # stack[h].node /\ SentBack(h, Via[stack[h].node][k])
    BY DEF Excused
  <1>2. h > 1 /\ stack[h].node \in Servers /\ stack[h - 1].node = Via[stack[h].node][k]
    BY <1>1 DEF SentBack
  <1>3. h - 1 \in 1..j
    BY <1>2
  <1> QED
    BY <1>1, <1>2, <1>3

\* AboveRan after a step, in terms of the state before it where nothing changes.
LEMMA AboveRanNext ==
  ASSUME UNCHANGED handlers,
         \A i \in 1..Len(stack') : (\A j \in 1..(i - 1) : ~stack'[j].err) =>
            \A k \in Nodes : \A p \in handlers[k] : ~Below(p, stack'[i].cursor) =>
               \/ runs'[k][p] > 0
               \/ \E h \in 1..(i - 1) : /\ k # stack'[h].node /\ h > 1 /\ stack'[h].node \in Servers
                                        /\ stack'[h - 1].node = Via[stack'[h].node][k]
  PROVE  AboveRan'
  BY DEF AboveRan, Clean, Below, Excused, SentBack

\* The stack above position m is gone, and nothing below it has changed.
LEMMA CutAt ==
  ASSUME StackInv, UNCHANGED <<origin, handlers>>,
         NEW m \in 1..Len(stack), stack' \in Seq(Dispatch), Len(stack') = m,
         \A i \in 1..m : stack'[i] = stack[i],
         runs' \in [Nodes -> [Priorities -> Nat]],
         \A k \in Nodes : \A p \in handlers[k] : runs[k][p] > 0 => runs'[k][p] > 0
  PROVE  TodoBelow' /\ Linked' /\ Rooted' /\ Covered' /\ AboveRan'
  <1>1. \A i \in 1..m : i \in 1..Len(stack)
    OBVIOUS
  <1>2. TodoBelow'
    <2>1. \A i \in 1..m : stack[i].todo \subseteq FromCursor(Merged(stack[i].node), stack[i].cursor)
      BY <1>1 DEF StackInv, TodoBelow
    <2>2. \A i \in 1..m : stack'[i].todo \subseteq FromCursor(Merged(stack'[i].node), stack'[i].cursor)
      BY <2>1, Zenon
    <2> QED
      BY <2>2, MergedStays, Zenon
  <1>3. Linked'
    <2>1. ASSUME NEW i \in 1..(m - 1)
          PROVE  /\ stack'[i].todo # {}
                 /\ Head1(stack'[i].todo).kind = "remote" /\ Head1(stack'[i].todo).t = stack'[i + 1].node
                 /\ Below(Head1(stack'[i].todo).p, stack'[i + 1].cursor)
      <3>1. i \in 1..(Len(stack) - 1) /\ i \in 1..m /\ i + 1 \in 1..m
        OBVIOUS
      <3>2. /\ stack[i].todo # {}
            /\ Head1(stack[i].todo).kind = "remote" /\ Head1(stack[i].todo).t = stack[i + 1].node
            /\ Below(Head1(stack[i].todo).p, stack[i + 1].cursor)
        BY <3>1 DEF StackInv, Linked
      <3>3. stack'[i] = stack[i] /\ stack'[i + 1] = stack[i + 1]
        BY <3>1
      <3> QED
        BY <3>2, <3>3
    <2> QED
      BY <2>1 DEF Linked, Head1, Before, Below
  <1>4. Rooted'
    BY <1>1 DEF StackInv, Rooted
  <1>5. Covered'
    <2>1. ASSUME NEW i \in 1..m, ~stack'[i].err, NEW k \in Nodes, NEW p \in handlers[k],
                 Below(p, stack'[i].cursor)
          PROVE  \/ EntryOf(stack'[i].node, k, p) \in stack'[i].todo
                 \/ runs'[k][p] > 0
                 \/ k # stack'[i].node /\ i > 1 /\ stack'[i].node \in Servers /\ stack'[i - 1].node = Via[stack'[i].node][k]
      <3>1. \/ EntryOf(stack[i].node, k, p) \in stack[i].todo
            \/ runs[k][p] > 0
            \/ k # stack[i].node /\ SentBack(i, Via[stack[i].node][k])
        BY <1>1, <2>1 DEF StackInv, Covered
      <3>2. i > 1 => i - 1 \in 1..m
        OBVIOUS
      <3> QED
        BY <3>1, <3>2 DEF SentBack
    <2> QED
      BY <2>1 DEF Covered, SentBack, EntryOf, Below
  <1>6. AboveRan'
    <2>1. ASSUME NEW i \in 1..m, \A j \in 1..(i - 1) : ~stack'[j].err,
                 NEW k \in Nodes, NEW p \in handlers[k], ~Below(p, stack'[i].cursor)
          PROVE  \/ runs'[k][p] > 0
                 \/ \E h \in 1..(i - 1) : /\ k # stack'[h].node /\ h > 1 /\ stack'[h].node \in Servers
                                           /\ stack'[h - 1].node = Via[stack'[h].node][k]
      <3>1. i - 1 \in Nat /\ \A j \in 1..(i - 1) : j \in 1..m
        OBVIOUS
      <3>2. Clean(i - 1)
        BY <2>1, <3>1 DEF Clean
      <3>3. runs[k][p] > 0 \/ Excused(i - 1, k)
        BY <1>1, <2>1, <3>2 DEF StackInv, AboveRan
      <3>4. \A h \in 1..(i - 1) : stack'[h].node = stack[h].node
        BY <3>1
      <3> QED
        BY <3>1, <3>3, <3>4, ExcusedStays
    <2> QED
      BY <2>1, AboveRanNext
  <1> QED
    BY <1>2, <1>3, <1>4, <1>5, <1>6

\* The dispatch at position m drops the entry it was at; the ones above it, if
\* any, are gone.  What is needed of the step: an error stays remembered, and
\* an unfailed drop is of an entry all of whose handlers have run or cannot be
\* reached from here.
LEMMA DropHead ==
  ASSUME StackInv, UNCHANGED <<origin, handlers>>,
         NEW m \in 1..Len(stack), NEW b \in BOOLEAN,
         stack' \in Seq(Dispatch), Len(stack') = m,
         \A i \in 1..(m - 1) : stack'[i] = stack[i],
         stack'[m] = [stack[m] EXCEPT !.todo = @ \ {Head1(@)}, !.err = @ \/ b],
         runs' \in [Nodes -> [Priorities -> Nat]],
         \A k \in Nodes : \A p \in handlers[k] : runs[k][p] > 0 => runs'[k][p] > 0,
         b \/ \A k \in Nodes : \A p \in handlers[k] :
                 EntryOf(stack[m].node, k, p) = Head1(stack[m].todo) =>
                    runs'[k][p] > 0 \/ (k # stack[m].node /\ SentBack(m, Via[stack[m].node][k]))
  PROVE  TodoBelow' /\ Linked' /\ Rooted' /\ Covered' /\ AboveRan'
  <1>1. /\ stack'[m].node = stack[m].node
        /\ stack'[m].cursor = stack[m].cursor
        /\ stack'[m].todo = stack[m].todo \ {Head1(stack[m].todo)}
        /\ stack'[m].err = (stack[m].err \/ b)
    BY FrameType DEF Dispatch
  <1>2. \A i \in 1..m : i \in 1..Len(stack) /\ (i = m \/ i \in 1..(m - 1))
    OBVIOUS
  <1>3. \A i \in 1..m : /\ stack'[i].node = stack[i].node
                        /\ stack'[i].cursor = stack[i].cursor
                        /\ stack'[i].todo \subseteq stack[i].todo
                        /\ stack[i].err => stack'[i].err
    BY <1>1, <1>2
  <1>4. TodoBelow'
    <2>1. \A i \in 1..m : stack[i].todo \subseteq FromCursor(Merged(stack[i].node), stack[i].cursor)
      BY <1>2 DEF StackInv, TodoBelow
    <2>2. \A i \in 1..m : stack'[i].todo \subseteq FromCursor(Merged(stack'[i].node), stack'[i].cursor)
      BY <1>3, <2>1, Zenon
    <2> QED
      BY <2>2, MergedStays, Zenon
  <1>5. Linked'
    <2>1. ASSUME NEW i \in 1..(m - 1)
          PROVE  /\ stack'[i].todo # {}
                 /\ Head1(stack'[i].todo).kind = "remote" /\ Head1(stack'[i].todo).t = stack'[i + 1].node
                 /\ Below(Head1(stack'[i].todo).p, stack'[i + 1].cursor)
      <3>1. i \in 1..(Len(stack) - 1) /\ i + 1 \in 1..m
        OBVIOUS
      <3>2. /\ stack'[i] = stack[i] /\ stack'[i + 1].cursor = stack[i + 1].cursor
            /\ stack'[i + 1].node = stack[i + 1].node
        BY <1>3, <3>1
      <3>3. /\ stack[i].todo # {}
            /\ Head1(stack[i].todo).kind = "remote" /\ Head1(stack[i].todo).t = stack[i + 1].node
            /\ Below(Head1(stack[i].todo).p, stack[i + 1].cursor)
        BY <3>1 DEF StackInv, Linked
      <3> QED
        BY <3>2, <3>3
    <2> QED
      BY <2>1 DEF Linked, Head1, Before, Below
  <1>6. Rooted'
    BY <1>3 DEF StackInv, Rooted
  <1>7. Covered'
    <2>1. ASSUME NEW i \in 1..m, ~stack'[i].err, NEW k \in Nodes, NEW p \in handlers[k],
                 Below(p, stack[i].cursor)
          PROVE  \/ EntryOf(stack[i].node, k, p) \in stack'[i].todo
                 \/ runs'[k][p] > 0
                 \/ k # stack[i].node /\ SentBack(i, Via[stack[i].node][k])
      <3>1. \/ EntryOf(stack[i].node, k, p) \in stack[i].todo
            \/ runs[k][p] > 0
            \/ k # stack[i].node /\ SentBack(i, Via[stack[i].node][k])
        BY <1>2, <1>3, <2>1 DEF StackInv, Covered
      <3>2. CASE i = m
        BY <1>1, <2>1, <3>1, <3>2
      <3>3. CASE i # m
        BY <1>2, <3>1, <3>3
      <3> QED
        BY <3>2, <3>3
    <2>4. ASSUME NEW i \in 1..m, ~stack'[i].err, NEW k \in Nodes, NEW p \in handlers[k],
                 Below(p, stack'[i].cursor)
          PROVE  \/ EntryOf(stack'[i].node, k, p) \in stack'[i].todo
                 \/ runs'[k][p] > 0
                 \/ k # stack'[i].node /\ i > 1 /\ stack'[i].node \in Servers /\ stack'[i - 1].node = Via[stack'[i].node][k]
      <3>1. stack'[i].node = stack[i].node /\ stack'[i].cursor = stack[i].cursor
        BY <1>3
      <3>2. i > 1 => stack'[i - 1].node = stack[i - 1].node
        <4>1. i > 1 => i - 1 \in 1..m
          OBVIOUS
        <4> QED
          BY <1>3, <4>1
      <3> QED
        BY <2>1, <2>4, <3>1, <3>2 DEF SentBack
    <2> QED
      BY <2>4 DEF Covered, SentBack, EntryOf, Below
  <1>8. AboveRan'
    <2>1. ASSUME NEW i \in 1..m, \A j \in 1..(i - 1) : ~stack'[j].err,
                 NEW k \in Nodes, NEW p \in handlers[k], ~Below(p, stack'[i].cursor)
          PROVE  \/ runs'[k][p] > 0
                 \/ \E h \in 1..(i - 1) : /\ k # stack'[h].node /\ h > 1 /\ stack'[h].node \in Servers
                                           /\ stack'[h - 1].node = Via[stack'[h].node][k]
      <3>1. i - 1 \in Nat /\ \A j \in 1..(i - 1) : j \in 1..m
        OBVIOUS
      <3>2. Clean(i - 1)
        BY <1>3, <2>1, <3>1 DEF Clean
      <3>3. runs[k][p] > 0 \/ Excused(i - 1, k)
        BY <1>2, <1>3, <2>1, <3>2 DEF StackInv, AboveRan
      <3>4. \A h \in 1..(i - 1) : stack'[h].node = stack[h].node
        BY <1>3, <3>1
      <3> QED
        BY <3>1, <3>3, <3>4, ExcusedStays
    <2> QED
      BY <2>1, AboveRanNext
  <1> QED
    BY <1>4, <1>5, <1>6, <1>7, <1>8

\* The dispatch on top of the stack.
LEMMA TopOfStack ==
  ASSUME StackInv, stack # <<>>
  PROVE  /\ Len(stack) \in Nat /\ Len(stack) \in 1..Len(stack)
         /\ Top = stack[Len(stack)] /\ Top \in Dispatch
         /\ outcome = "pending"
  <1>1. stack \in Seq(Dispatch)
    BY DEF StackInv, TypeOK
  <1>2. Len(stack) \in Nat /\ Len(stack) \in 1..Len(stack)
    BY <1>1
  <1> QED
    BY <1>1, <1>2 DEF Top, StackInv, Ended

\* Replacing the dispatch on top.
LEMMA ReplaceTop ==
  ASSUME StackInv, stack # <<>>, NEW d \in Dispatch, stack' = [stack EXCEPT ![Len(stack)] = d]
  PROVE  /\ stack' \in Seq(Dispatch) /\ Len(stack') = Len(stack)
         /\ \A i \in 1..(Len(stack) - 1) : stack'[i] = stack[i]
         /\ stack'[Len(stack)] = d
         /\ stack' # <<>>
  <1>1. stack \in Seq(Dispatch)
    BY DEF StackInv, TypeOK
  <1> QED
    BY <1>1, TopOfStack

\* A step that leaves the caller waiting, whatever it does to the stack.
LEMMA StillPending ==
  ASSUME StackInv, stack # <<>>, stack' # <<>>, outcome' = outcome,
         stack' \in Seq(Dispatch), runs' \in [Nodes -> [Priorities -> Nat]],
         UNCHANGED <<origin, handlers, hops>>
  PROVE  Ended' /\ NobodySkipped' /\ (lost' \in SUBSET Nat /\ answered' \in BOOLEAN => TypeOK')
  <1>1. outcome = "pending"
    BY TopOfStack
  <1> QED
    BY <1>1 DEF StackInv, TypeOK, Ended, NobodySkipped

\* The entry at hand is passed over, because its transport failed or because a
\* server would have to send the request back.
LEMMA SkipEntryInv ==
  ASSUME StackInv, Dispatching("remote"), NEW b \in BOOLEAN, SkipEntry(b),
         b \/ SentBack(Len(stack), Head1(Top.todo).t),
         UNCHANGED <<origin, handlers, lost, hops, outcome, runs, answered>>
  PROVE  StackInv'
  <1> DEFINE L == Len(stack)
             d == [stack[L] EXCEPT !.todo = @ \ {Head1(@)}, !.err = @ \/ b]
  <1>1. stack # <<>> /\ Head1(Top.todo).kind = "remote"
    BY DEF Dispatching, AtWork
  <1>2. L \in 1..L /\ outcome = "pending" /\ Top = stack[L]
    BY <1>1, TopOfStack
  <1>3. d \in Dispatch
    BY <1>2, FrameType DEF Dispatch
  <1>4. stack' = [stack EXCEPT ![L] = d]
    BY <1>2, FrameType DEF SkipEntry, Dispatch
  <1> HIDE DEF d
  <1>5. /\ stack' \in Seq(Dispatch) /\ Len(stack') = L
        /\ \A i \in 1..(L - 1) : stack'[i] = stack[i]
        /\ stack'[L] = d
        /\ stack' # <<>>
    BY <1>1, <1>3, <1>4, ReplaceTop
  <1>6. runs' \in [Nodes -> [Priorities -> Nat]]
    BY DEF StackInv, TypeOK
  <1>7. b \/ \A k \in Nodes : \A p \in handlers[k] :
               EntryOf(stack[L].node, k, p) = Head1(stack[L].todo) =>
                  k # stack[L].node /\ SentBack(L, Via[stack[L].node][k])
    <2> SUFFICES ASSUME ~b, NEW k \in Nodes, NEW p \in handlers[k],
                        EntryOf(stack[L].node, k, p) = Head1(stack[L].todo)
                 PROVE  k # stack[L].node /\ SentBack(L, Via[stack[L].node][k])
      OBVIOUS
    <2>1. EntryOf(stack[L].node, k, p).kind = "remote"
      BY <1>1, <1>2
    <2>2. k # stack[L].node /\ EntryOf(stack[L].node, k, p).t = Via[stack[L].node][k]
      BY <2>1 DEF EntryOf
    <2> QED
      BY <1>2, <2>2
  <1>8. TodoBelow' /\ Linked' /\ Rooted' /\ Covered' /\ AboveRan'
    <2>1. stack'[L] = [stack[L] EXCEPT !.todo = @ \ {Head1(@)}, !.err = @ \/ b]
      BY <1>5 DEF d
    <2> QED
      BY <1>2, <1>5, <1>6, <1>7, <2>1, DropHead
  <1>9. TypeOK' /\ Ended' /\ NobodySkipped'
    BY <1>1, <1>5, <1>6, StillPending DEF StackInv, TypeOK
  <1> QED
    BY <1>5, <1>8, <1>9 DEF StackInv, LostInside

\* The transport of the entry at hand fails.
LEMMA SendFailsInv ==
  ASSUME StackInv, SendFails
  PROVE  StackInv'
  BY SkipEntryInv DEF SendFails

\* A server would have to send the request back.
LEMMA SendRefusedInv ==
  ASSUME StackInv, SendRefused
  PROVE  StackInv'
  BY SkipEntryInv DEF SendRefused

\* While nothing has failed, every handler of higher priority than the entry a
\* dispatch is at, or before it in the list, has run or is behind a client.
LEMMA AboveHeadRan ==
  ASSUME StackInv, NEW i \in 1..Len(stack), Clean(i), stack[i].todo # {},
         NEW k \in Nodes, NEW q \in handlers[k],
         Before(EntryOf(stack[i].node, k, q), Head1(stack[i].todo))
  PROVE  runs[k][q] > 0 \/ Excused(i, k)
  <1>1. stack[i].node \in Nodes /\ stack[i].todo \in SUBSET Entry /\ ~stack[i].err
    BY FrameType DEF Clean
  <1>0. Clean(i - 1)
    BY DEF Clean
  <1>2. EntryOf(stack[i].node, k, q) \in Entry
    <2>1. TypeOK
      BY DEF StackInv
    <2>2. Merged(stack[i].node) \in SUBSET Entry /\ EntryOf(stack[i].node, k, q) \in Merged(stack[i].node)
      BY <1>1, <2>1, MergedEntries
    <2> QED
      BY <2>2
  <1>3. EntryOf(stack[i].node, k, q) \notin stack[i].todo
    BY <1>1, <1>2, HeadIsFirst
  <1>4. CASE Below(q, stack[i].cursor)
    <2>1. runs[k][q] > 0 \/ (k # stack[i].node /\ SentBack(i, Via[stack[i].node][k]))
      BY <1>1, <1>3, <1>4 DEF StackInv, Covered
    <2>2. i \in 1..i
      OBVIOUS
    <2> QED
      BY <2>1, <2>2 DEF Excused
  <1>5. CASE ~Below(q, stack[i].cursor)
    <2>1. runs[k][q] > 0 \/ Excused(i - 1, k)
      BY <1>0, <1>5 DEF StackInv, AboveRan
    <2>2. \A h \in 1..(i - 1) : h \in 1..i
      OBVIOUS
    <2> QED
      BY <2>1, <2>2 DEF Excused
  <1> QED
    BY <1>4, <1>5

\* What running the local handler at hand changes.
LEMMA RanEffect ==
  ASSUME StackInv, Dispatching("local"), Ran
  PROVE  /\ runs' \in [Nodes -> [Priorities -> Nat]]
         /\ \A k \in Nodes : \A p \in handlers[k] : runs[k][p] > 0 => runs'[k][p] > 0
         /\ \A k \in Nodes : \A p \in handlers[k] :
               EntryOf(Top.node, k, p) = Head1(Top.todo) => runs'[k][p] > 0
         /\ \A k \in Nodes : \A p \in handlers[k] :
               runs'[k][p] > 0 => runs[k][p] > 0 \/ p = Head1(Top.todo).p
         /\ stack # <<>> /\ Top.todo # {} /\ Head1(Top.todo).p \in Priorities
  <1> DEFINE e == Head1(Top.todo)
  <1>1. stack # <<>> /\ Top.todo # {} /\ e.kind = "local"
    BY DEF Dispatching, AtWork
  <1>2. Len(stack) \in 1..Len(stack) /\ Top = stack[Len(stack)]
    BY <1>1, TopOfStack
  <1>3. Top.node \in Nodes /\ Top.todo \in SUBSET Entry
    BY <1>2, FrameType
  <1>4. e \in Entry
    BY <1>1, <1>3, HeadIsFirst
  <1>5. e.p \in Priorities
    BY <1>4 DEF Entry
  <1>6. /\ runs \in [Nodes -> [Priorities -> Nat]]
        /\ \A k \in Nodes : handlers[k] \subseteq Priorities
    BY DEF StackInv, TypeOK
  <1> HIDE DEF e
  <1>7. runs' = [runs EXCEPT ![Top.node][e.p] = @ + 1]
    BY DEF Ran, e
  <1>8. \A k \in Nodes : \A p \in Priorities :
          /\ runs[k][p] \in Nat
          /\ k = Top.node /\ p = e.p => runs'[k][p] = runs[k][p] + 1
          /\ ~(k = Top.node /\ p = e.p) => runs'[k][p] = runs[k][p]
    BY <1>3, <1>5, <1>6, <1>7
  <1>9. runs' \in [Nodes -> [Priorities -> Nat]]
    BY <1>3, <1>5, <1>6, <1>7
  <1>10. \A k \in Nodes : \A p \in handlers[k] : runs[k][p] > 0 => runs'[k][p] > 0
    BY <1>6, <1>8
  <1>11. ASSUME NEW k \in Nodes, NEW p \in handlers[k], EntryOf(Top.node, k, p) = e
         PROVE  runs'[k][p] > 0
    <2>1. k = Top.node /\ p = e.p
      BY <1>1, <1>11 DEF EntryOf, e
    <2>2. runs'[k][p] = runs[k][p] + 1 /\ runs[k][p] \in Nat
      BY <1>6, <1>8, <2>1
    <2> QED
      BY <2>2
  <1>12. \A k \in Nodes : \A p \in handlers[k] : runs'[k][p] > 0 => runs[k][p] > 0 \/ p = e.p
    BY <1>6, <1>8
  <1> QED
    BY <1>1, <1>5, <1>9, <1>10, <1>11, <1>12 DEF e

\* A local handler leaves the request to the next entry.
LEMMA HandlerDefersInv ==
  ASSUME StackInv, HandlerDefers
  PROVE  StackInv'
  <1> DEFINE L == Len(stack)
             d == [stack[L] EXCEPT !.todo = @ \ {Head1(@)}, !.err = @ \/ FALSE]
  <1>1. Dispatching("local") /\ Ran /\ UNCHANGED <<origin, handlers, lost, hops, outcome, answered>>
    BY DEF HandlerDefers
  <1>2. stack # <<>> /\ Top.todo # {}
    BY <1>1, RanEffect
  <1>3. L \in 1..L /\ outcome = "pending" /\ Top = stack[L]
    BY <1>2, TopOfStack
  <1>4. d \in Dispatch
    BY <1>3, FrameType DEF Dispatch
  <1>5. stack' = [stack EXCEPT ![L] = d]
    BY <1>3, FrameType DEF HandlerDefers, Dispatch
  <1> HIDE DEF d
  <1>6. /\ stack' \in Seq(Dispatch) /\ Len(stack') = L
        /\ \A i \in 1..(L - 1) : stack'[i] = stack[i]
        /\ stack'[L] = d
        /\ stack' # <<>>
    BY <1>2, <1>4, <1>5, ReplaceTop
  <1>7. /\ runs' \in [Nodes -> [Priorities -> Nat]]
        /\ \A k \in Nodes : \A p \in handlers[k] : runs[k][p] > 0 => runs'[k][p] > 0
        /\ \A k \in Nodes : \A p \in handlers[k] :
              EntryOf(stack[L].node, k, p) = Head1(stack[L].todo) => runs'[k][p] > 0
    BY <1>1, <1>3, RanEffect
  <1>8. TodoBelow' /\ Linked' /\ Rooted' /\ Covered' /\ AboveRan'
    <2>1. stack'[L] = [stack[L] EXCEPT !.todo = @ \ {Head1(@)}, !.err = @ \/ FALSE]
      BY <1>6 DEF d
    <2> QED
      BY <1>1, <1>3, <1>6, <1>7, <2>1, DropHead
  <1>9. TypeOK' /\ Ended' /\ NobodySkipped'
    BY <1>1, <1>2, <1>6, <1>7, StillPending DEF StackInv, TypeOK
  <1> QED
    BY <1>1, <1>6, <1>8, <1>9 DEF StackInv, LostInside

\* The lower part of the stack.
LEMMA LowerPart ==
  ASSUME StackInv, NEW m \in 1..Len(stack), stack' = SubSeq(stack, 1, m)
  PROVE  /\ stack' \in Seq(Dispatch) /\ Len(stack') = m /\ stack' # <<>>
         /\ \A i \in 1..m : stack'[i] = stack[i]
  <1>1. stack \in Seq(Dispatch) /\ Len(stack) \in Nat
    BY DEF StackInv, TypeOK
  <1> QED
    BY <1>1

\* A local handler answers.
LEMMA HandlerAnswersInv ==
  ASSUME StackInv, HandlerAnswers
  PROVE  StackInv'
  <1>1. /\ Dispatching("local") /\ Ran /\ UNCHANGED <<origin, handlers, lost, hops>>
        /\ answered' = TRUE
    BY DEF HandlerAnswers
  <1>2. /\ runs' \in [Nodes -> [Priorities -> Nat]]
        /\ \A k \in Nodes : \A p \in handlers[k] : runs[k][p] > 0 => runs'[k][p] > 0
        /\ stack # <<>>
    BY <1>1, RanEffect
  <1>3. CASE lost = {} /\ stack' = <<>> /\ outcome' = "result"
    <2>1. TypeOK'
      BY <1>1, <1>2, <1>3 DEF StackInv, TypeOK, Outcomes
    <2>2. TodoBelow' /\ Linked' /\ Rooted' /\ Covered' /\ AboveRan' /\ Ended'
      BY <1>3 DEF TodoBelow, Linked, Rooted, Covered, AboveRan, Ended
    <2>3. NobodySkipped' /\ LostInside'
      BY <1>1, <1>3 DEF NobodySkipped, LostInside
    <2> QED
      BY <1>1, <1>3, <2>1, <2>2, <2>3 DEF StackInv
  <1>4. ASSUME NEW i \in lost, \A j \in lost : j <= i, stack' = SubSeq(stack, 1, i), outcome' = outcome
        PROVE  StackInv'
    <2>1. i \in 1..Len(stack) /\ lost \subseteq Nat
      BY <1>4 DEF StackInv, LostInside, TypeOK
    <2>2. /\ stack' \in Seq(Dispatch) /\ Len(stack') = i /\ stack' # <<>>
          /\ \A j \in 1..i : stack'[j] = stack[j]
      BY <1>4, <2>1, LowerPart
    <2>3. TodoBelow' /\ Linked' /\ Rooted' /\ Covered' /\ AboveRan'
      BY <1>1, <1>2, <2>1, <2>2, CutAt
    <2>4. TypeOK' /\ Ended' /\ NobodySkipped'
      BY <1>1, <1>2, <1>4, <2>1, <2>2, StillPending
    <2>5. LostInside'
      <3>1. \A j \in lost : j \in 1..Len(stack) /\ j <= i
        BY <1>4 DEF StackInv, LostInside
      <3> QED
        BY <1>1, <2>1, <2>2, <3>1 DEF LostInside
    <2> QED
      BY <1>4, <2>3, <2>4, <2>5 DEF StackInv
  <1> QED
    BY <1>3, <1>4 DEF HandlerAnswers

\* A dispatch that ran out of entries without an error has run every handler
\* below its cursor, but for those behind the peer it may not send back to.
LEMMA ExhaustedRan ==
  ASSUME StackInv, stack # <<>>, ~Top.err, Top.todo = {},
         NEW k \in Nodes, NEW p \in handlers[k], Below(p, Top.cursor)
  PROVE  runs[k][p] > 0 \/ (k # Top.node /\ SentBack(Len(stack), Via[Top.node][k]))
  <1>1. Len(stack) \in 1..Len(stack) /\ Top = stack[Len(stack)]
    BY TopOfStack
  <1> QED
    BY <1>1 DEF StackInv, Covered

\* The dispatch on top ends without a result, at a bus that is not the
\* caller's and whose sender takes the answer.
LEMMA UnhandledBelow ==
  ASSUME StackInv, stack # <<>>, Len(stack) # 1, UNCHANGED <<origin, handlers, hops, answered>>,
         lost' = lost \ {Len(stack)}, Len(stack) - 1 \notin lost,
         NEW v \in {"error", "nohandler"}, Unhandled(v),
         runs' \in [Nodes -> [Priorities -> Nat]],
         \A k \in Nodes : \A p \in handlers[k] : runs[k][p] > 0 => runs'[k][p] > 0,
         v = "error" \/ (~Top.err /\ Top.todo = {} /\ runs' = runs)
  PROVE  StackInv'
  <1> DEFINE L == Len(stack)
             m == L - 1
             b == v = "error"
             d == [stack[m] EXCEPT !.todo = @ \ {Head1(@)}, !.err = @ \/ b]
  <1>1. /\ L \in Nat /\ L \in 1..L /\ outcome = "pending" /\ Top = stack[L]
        /\ stack \in Seq(Dispatch)
    BY TopOfStack DEF StackInv, TypeOK
  <1>2. m \in 1..L /\ m + 1 = L /\ m \in 1..(L - 1)
    <2>1. L \in Nat /\ L # 1 /\ L \in 1..L
      BY <1>1
    <2> HIDE DEF L
    <2> QED
      BY <2>1
  <1>3. d \in Dispatch
    BY <1>2, FrameType DEF Dispatch
  <1>4. stack' = [SubSeq(stack, 1, m) EXCEPT ![m] = d] /\ outcome' = outcome
    BY DEF Unhandled, Under
  <1> HIDE DEF d
  <1>5. /\ stack' \in Seq(Dispatch) /\ Len(stack') = m
        /\ \A i \in 1..(m - 1) : stack'[i] = stack[i]
        /\ stack'[m] = d
        /\ stack' # <<>>
    <2>1. /\ SubSeq(stack, 1, m) \in Seq(Dispatch)
          /\ Len(SubSeq(stack, 1, m)) = m
          /\ \A i \in 1..m : SubSeq(stack, 1, m)[i] = stack[i]
      BY <1>1, <1>2
    <2> DEFINE under == SubSeq(stack, 1, m)
    <2>2. m \in Nat /\ m \in 1..m /\ \A i \in 1..(m - 1) : i \in 1..m /\ i # m
      <3>1. m \in Nat /\ m \in 1..L /\ L \in Nat
        BY <1>1, <1>2
      <3> HIDE DEF m, L
      <3> QED
        BY <3>1
    <2>3. under \in Seq(Dispatch) /\ Len(under) = m /\ stack' = [under EXCEPT ![m] = d]
      BY <1>4, <2>1
    <2>4. \A i \in 1..m : under[i] = stack[i]
      BY <2>1
    <2> HIDE DEF m, under
    <2>5. stack' \in Seq(Dispatch) /\ Len(stack') = m /\ stack'[m] = d
      BY <1>3, <2>2, <2>3
    <2>6. \A i \in 1..(m - 1) : stack'[i] = under[i]
      BY <1>3, <2>2, <2>3
    <2> QED
      BY <2>2, <2>4, <2>5, <2>6
  <1>6. b \/ \A k \in Nodes : \A p \in handlers[k] :
               EntryOf(stack[m].node, k, p) = Head1(stack[m].todo) => runs'[k][p] > 0
    <2> SUFFICES ASSUME ~b, NEW k \in Nodes, NEW p \in handlers[k],
                        EntryOf(stack[m].node, k, p) = Head1(stack[m].todo)
                 PROVE  runs'[k][p] > 0
      OBVIOUS
    <2>1. TypeOK /\ stack[m].node \in Nodes /\ Top.node \in Nodes
      BY <1>1, <1>2, FrameType DEF StackInv
    <2>2. p = Head1(stack[m].todo).p
      BY <2>1, MergedEntries
    <2>3. /\ Below(p, Top.cursor)
          /\ EntryOf(stack[m].node, k, p).kind = "remote"
          /\ EntryOf(stack[m].node, k, p).t = Top.node
      BY <1>1, <1>2, <2>2 DEF StackInv, Linked
    <2>4. k # stack[m].node /\ Via[stack[m].node][k] = Top.node
      BY <2>3 DEF EntryOf
    <2>5. ~(k # Top.node /\ SentBack(L, Via[Top.node][k]))
      <3> SUFFICES ASSUME k # Top.node, SentBack(L, Via[Top.node][k]) PROVE FALSE
        OBVIOUS
      <3>1. Via[Top.node][k] = stack[m].node
        BY DEF SentBack
      <3> QED
        BY <2>1, <2>4, <3>1, CrossBusAssumption
    <2>6. runs[k][p] > 0
      BY <2>3, <2>5, ExhaustedRan
    <2> QED
      BY <2>6
  <1>7. TodoBelow' /\ Linked' /\ Rooted' /\ Covered' /\ AboveRan'
    <2>1. stack'[m] = [stack[m] EXCEPT !.todo = @ \ {Head1(@)}, !.err = @ \/ b]
      BY <1>5 DEF d
    <2>2. b \in BOOLEAN
      OBVIOUS
    <2> HIDE DEF m, b
    <2> QED
      BY <1>2, <1>5, <1>6, <2>1, <2>2, DropHead
  <1>8. TypeOK' /\ Ended' /\ NobodySkipped'
    BY <1>4, <1>5, StillPending DEF StackInv, TypeOK
  <1>9. LostInside'
    <2>1. \A i \in 1..L : i # L => i \in 1..m
      <3> HIDE DEF L
      <3> QED
        BY <1>1
    <2> QED
      BY <1>5, <2>1 DEF StackInv, LostInside
  <1> QED
    BY <1>4, <1>7, <1>8, <1>9 DEF StackInv

\* It ends at a bus whose sender no longer takes the answer.
LEMMA AnswerDropped ==
  ASSUME StackInv, stack # <<>>, Len(stack) # 1, UNCHANGED <<origin, handlers, hops, answered>>,
         lost' = lost \ {Len(stack)}, Len(stack) - 1 \in lost,
         NEW v, Unhandled(v),
         runs' \in [Nodes -> [Priorities -> Nat]],
         \A k \in Nodes : \A p \in handlers[k] : runs[k][p] > 0 => runs'[k][p] > 0
  PROVE  StackInv'
  <1> DEFINE L == Len(stack)
             m == L - 1
  <1>1. L \in Nat /\ L \in 1..L /\ L # 1
    BY TopOfStack
  <1>2. m \in 1..L /\ \A i \in 1..L : i # L => i \in 1..m
    <2> HIDE DEF L
    <2> QED
      BY <1>1
  <1>3. stack' = SubSeq(stack, 1, m) /\ outcome' = outcome
    BY DEF Unhandled, Under
  <1>4. /\ stack' \in Seq(Dispatch) /\ Len(stack') = m /\ stack' # <<>>
        /\ \A i \in 1..m : stack'[i] = stack[i]
    BY <1>2, <1>3, LowerPart
  <1> HIDE DEF m
  <1>5. TodoBelow' /\ Linked' /\ Rooted' /\ Covered' /\ AboveRan'
    BY <1>2, <1>4, CutAt
  <1>6. TypeOK' /\ Ended' /\ NobodySkipped'
    BY <1>3, <1>4, StillPending DEF StackInv, TypeOK
  <1>7. LostInside'
    BY <1>2, <1>4 DEF StackInv, LostInside
  <1> QED
    BY <1>3, <1>5, <1>6, <1>7 DEF StackInv

\* The caller's own dispatch ends without a result.
LEMMA UnhandledAtOrigin ==
  ASSUME StackInv, stack # <<>>, Len(stack) = 1, UNCHANGED <<origin, handlers, hops, answered>>,
         lost' = lost \ {Len(stack)},
         NEW v \in {"error", "nohandler"}, Unhandled(v),
         runs' \in [Nodes -> [Priorities -> Nat]],
         v = "error" \/ (~Top.err /\ Top.todo = {} /\ runs' = runs)
  PROVE  StackInv'
  <1>1. stack' = <<>> /\ outcome' = v /\ outcome = "pending"
    BY TopOfStack DEF Unhandled
  <1>2. TypeOK' /\ Ended' /\ LostInside'
    BY <1>1 DEF StackInv, TypeOK, Ended, Outcomes, LostInside
  <1>3. TodoBelow' /\ Linked' /\ Rooted' /\ Covered' /\ AboveRan'
    BY <1>1 DEF TodoBelow, Linked, Rooted, Covered, AboveRan
  <1>4. NobodySkipped'
    <2>1. CASE v = "error"
      BY <1>1, <2>1 DEF NobodySkipped
    <2>2. CASE v # "error"
      <3>1. Top.cursor = NoCursor
        BY DEF Top, StackInv, Rooted
      <3>2. \A k \in Nodes : \A p \in handlers[k] : runs'[k][p] > 0
        BY <2>2, <3>1, ExhaustedRan DEF Below, SentBack
      <3> QED
        BY <3>2 DEF NobodySkipped
    <2> QED
      BY <2>1, <2>2
  <1> QED
    BY <1>1, <1>2, <1>3, <1>4 DEF StackInv

\* A dispatch ends without a result.
LEMMA UnhandledInv ==
  ASSUME StackInv, stack # <<>>, UNCHANGED <<origin, handlers, hops, answered>>,
         lost' = lost \ {Len(stack)},
         NEW v \in {"error", "nohandler"}, Unhandled(v),
         runs' \in [Nodes -> [Priorities -> Nat]],
         \A k \in Nodes : \A p \in handlers[k] : runs[k][p] > 0 => runs'[k][p] > 0,
         v = "error" \/ (~Top.err /\ Top.todo = {} /\ runs' = runs)
  PROVE  StackInv'
  BY UnhandledBelow, AnswerDropped, UnhandledAtOrigin

\* A local handler throws.
LEMMA HandlerThrowsInv ==
  ASSUME StackInv, HandlerThrows
  PROVE  StackInv'
  <1>1. /\ Dispatching("local") /\ Ran /\ Unhandled("error")
        /\ UNCHANGED <<origin, handlers, lost, hops, answered>>
    BY DEF HandlerThrows
  <1>2. /\ runs' \in [Nodes -> [Priorities -> Nat]]
        /\ \A k \in Nodes : \A p \in handlers[k] : runs[k][p] > 0 => runs'[k][p] > 0
        /\ stack # <<>>
    BY <1>1, RanEffect
  <1>3. lost' = lost \ {Len(stack)}
    BY <1>1 DEF Dispatching, AtWork
  <1> QED
    BY <1>1, <1>2, <1>3, UnhandledInv

\* A dispatch has no entry left.
LEMMA ExhaustedInv ==
  ASSUME StackInv, Exhausted
  PROVE  StackInv'
  <1> DEFINE v == IF Top.err THEN "error" ELSE "nohandler"
  <1>1. /\ stack # <<>> /\ Top.todo = {} /\ Unhandled(v)
        /\ UNCHANGED <<origin, handlers, hops, answered>> /\ runs' = runs
        /\ lost' = lost \ {Len(stack)}
    BY DEF Exhausted, AtWork
  <1>2. runs' \in [Nodes -> [Priorities -> Nat]]
    BY <1>1 DEF StackInv, TypeOK
  <1>3. v \in {"error", "nohandler"} /\ (v = "error" \/ ~Top.err)
    OBVIOUS
  <1> HIDE DEF v
  <1> QED
    BY <1>1, <1>2, <1>3, UnhandledInv

\* The deadline of a send whose answer was dropped.
LEMMA LostSendTimesOutInv ==
  ASSUME StackInv, LostSendTimesOut
  PROVE  StackInv'
  BY UnhandledInv DEF LostSendTimesOut, StackInv, TypeOK

\* The request is sent to a peer, which starts dispatching it.
LEMMA SendToPeerInv ==
  ASSUME StackInv, SendToPeer
  PROVE  StackInv'
  <1> USE CrossBusAssumption
  <1> DEFINE L == Len(stack)
             e == Head1(Top.todo)
             c == RemoteCursor(Top.node, e, Top.cursor)
             d == Frame(e.t, c)
  <1>1. stack # <<>> /\ Top.todo # {} /\ e.kind = "remote"
    BY DEF SendToPeer, Dispatching, AtWork
  <1>2. L \in Nat /\ L \in 1..L /\ outcome = "pending" /\ Top = stack[L] /\ TypeOK /\ stack \in Seq(Dispatch)
    BY <1>1, TopOfStack DEF StackInv, TypeOK
  <1>3. /\ Top.node \in Nodes /\ Top.todo \in SUBSET Entry /\ Top.cursor \in Nat \union {NoCursor}
        /\ Top.todo \subseteq Merged(Top.node)
        /\ \A x \in Top.todo : Below(x.p, Top.cursor)
    BY <1>2, FrameType
  <1>4. e \in Top.todo
    BY <1>1, <1>3, HeadIsFirst
  <1>5. e \in Merged(Top.node) /\ Below(e.p, Top.cursor) /\ e.t \in Nodes
    BY <1>3, <1>4 DEF Entry
  <1> HIDE DEF e
  <1>6. /\ c \in Nat \union {NoCursor}
        /\ Below(e.p, c)
        /\ \A k \in Nodes : \A q \in handlers[k] :
              ~Below(q, c) => Before(EntryOf(Top.node, k, q), e) \/ ~Below(q, Top.cursor)
    BY <1>2, <1>3, <1>5, RemoteCursorAbove
  <1> HIDE DEF c
  <1>7. Merged(e.t) \in SUBSET Entry
    BY <1>2, <1>5, MergedEntries
  <1>8. /\ d \in Dispatch /\ d.node = e.t /\ d.cursor = c /\ ~d.err
        /\ d.todo = FromCursor(Merged(e.t), c)
    BY <1>5, <1>6, <1>7 DEF Frame, Dispatch, FromCursor
  <1>9. /\ stack' = Append(stack, d) /\ hops' = hops + 1 /\ hops < MaxHops
        /\ origin' = origin /\ handlers' = handlers /\ runs' = runs /\ outcome' = outcome
        /\ answered' = answered /\ lost' = lost \union Overwritten(e.t)
    BY DEF SendToPeer, e, c
  <1> HIDE DEF d
  <1>10. /\ stack' \in Seq(Dispatch) /\ Len(stack') = L + 1 /\ stack' # <<>>
         /\ \A i \in 1..L : stack'[i] = stack[i]
         /\ stack'[L + 1] = d
    BY <1>2, <1>8, <1>9
  <1>11. \A i \in 1..(L + 1) : i \in 1..L \/ i = L + 1
    BY <1>2
  <1>12. TypeOK'
    <2>1. hops' \in 0..MaxHops
      BY <1>2, <1>9 DEF TypeOK
    <2>2. lost' \in SUBSET Nat
      <3>1. Overwritten(e.t) \subseteq 1..(L - 1)
        BY DEF Overwritten
      <3>2. 1..(L - 1) \subseteq Nat /\ lost \subseteq Nat
        BY <1>2 DEF TypeOK
      <3> QED
        BY <1>9, <3>1, <3>2
    <2> QED
      BY <1>2, <1>9, <1>10, <2>1, <2>2 DEF TypeOK
  <1>13. TodoBelow'
    <2>1. \A i \in 1..L : stack[i].todo \subseteq FromCursor(Merged(stack[i].node), stack[i].cursor)
      BY DEF StackInv, TodoBelow
    <2>2. \A i \in 1..(L + 1) : stack'[i].todo \subseteq FromCursor(Merged(stack'[i].node), stack'[i].cursor)
      <3>1. d.todo \subseteq FromCursor(Merged(d.node), d.cursor)
        BY <1>8, Zenon
      <3> QED
        BY <1>10, <1>11, <2>1, <3>1, Zenon
    <2> QED
      BY <1>9, <1>10, <2>2, MergedStays, Zenon
  <1>14. Linked'
    <2>1. ASSUME NEW i \in 1..L
          PROVE  /\ stack'[i].todo # {}
                 /\ Head1(stack'[i].todo).kind = "remote" /\ Head1(stack'[i].todo).t = stack'[i + 1].node
                 /\ Below(Head1(stack'[i].todo).p, stack'[i + 1].cursor)
      <3>1. CASE i = L
        BY <1>1, <1>2, <1>6, <1>8, <1>10, <3>1 DEF e
      <3>2. CASE i # L
        <4>1. i \in 1..(L - 1) /\ i + 1 \in 1..L
          BY <1>2, <3>2
        <4>2. /\ stack[i].todo # {}
              /\ Head1(stack[i].todo).kind = "remote" /\ Head1(stack[i].todo).t = stack[i + 1].node
              /\ Below(Head1(stack[i].todo).p, stack[i + 1].cursor)
          BY <4>1 DEF StackInv, Linked
        <4> QED
          BY <1>10, <4>1, <4>2
      <3> QED
        BY <3>1, <3>2
    <2>2. 1..(Len(stack') - 1) = 1..L
      BY <1>2, <1>10
    <2> QED
      BY <2>1, <2>2 DEF Linked, Head1, Before, Below
  <1>15. Rooted'
    BY <1>1, <1>2, <1>10 DEF StackInv, Rooted
  <1>16. Covered'
    <2>1. ASSUME NEW i \in 1..(L + 1), ~stack'[i].err, NEW k \in Nodes, NEW p \in handlers[k],
                 Below(p, stack'[i].cursor)
          PROVE  \/ EntryOf(stack'[i].node, k, p) \in stack'[i].todo
                 \/ runs[k][p] > 0
                 \/ k # stack'[i].node /\ i > 1 /\ stack'[i].node \in Servers /\ stack'[i - 1].node = Via[stack'[i].node][k]
      <3>1. CASE i \in 1..L
        <4>1. i > 1 => i - 1 \in 1..L
          BY <1>2, <3>1
        <4>2. stack'[i] = stack[i] /\ (i > 1 => stack'[i - 1] = stack[i - 1])
          BY <1>10, <3>1, <4>1
        <4>3. \/ EntryOf(stack[i].node, k, p) \in stack[i].todo
              \/ runs[k][p] > 0
              \/ k # stack[i].node /\ SentBack(i, Via[stack[i].node][k])
          BY <2>1, <3>1, <4>2 DEF StackInv, Covered
        <4> QED
          BY <4>2, <4>3 DEF SentBack
      <3>2. CASE i = L + 1
        <4>1. EntryOf(e.t, k, p) \in Merged(e.t) /\ EntryOf(e.t, k, p).p = p
          BY <1>2, <1>5, MergedEntries
        <4>2. Below(p, c)
          BY <1>8, <1>10, <2>1, <3>2
        <4>3. EntryOf(e.t, k, p) \in d.todo
          BY <1>8, <4>1, <4>2 DEF FromCursor, Below
        <4> QED
          BY <1>8, <1>10, <3>2, <4>3
      <3> QED
        BY <1>11, <3>1, <3>2
    <2> QED
      BY <1>9, <1>10, <2>1 DEF Covered, SentBack, EntryOf, Below
  <1>17. AboveRan'
    <2>1. ASSUME NEW i \in 1..(L + 1), \A j \in 1..(i - 1) : ~stack'[j].err,
                 NEW k \in Nodes, NEW p \in handlers[k], ~Below(p, stack'[i].cursor)
          PROVE  \/ runs[k][p] > 0
                 \/ \E h \in 1..(i - 1) : /\ k # stack'[h].node /\ h > 1 /\ stack'[h].node \in Servers
                                           /\ stack'[h - 1].node = Via[stack'[h].node][k]
      <3>1. i - 1 \in Nat /\ \A j \in 1..(i - 1) : j \in 1..L
        BY <1>2
      <3>2. Clean(i - 1)
        BY <1>10, <2>1, <3>1 DEF Clean
      <3>3. ASSUME i \in 1..L PROVE runs[k][p] > 0 \/ Excused(i - 1, k)
        BY <1>10, <2>1, <3>2, <3>3 DEF StackInv, AboveRan
      <3>4. ASSUME i = L + 1 PROVE runs[k][p] > 0 \/ Excused(i - 1, k)
        <4>1. Before(EntryOf(stack[L].node, k, p), e) \/ ~Below(p, stack[L].cursor)
          BY <1>2, <1>6, <1>8, <1>10, <2>1, <3>4
        <4>2. i - 1 = L /\ \A j \in 1..(L - 1) : j \in 1..L
          BY <1>2, <3>4
        <4>3. Clean(L) /\ Clean(L - 1)
          BY <3>2, <4>2 DEF Clean
        <4>4. CASE Before(EntryOf(stack[L].node, k, p), e)
          BY <1>1, <1>2, <2>1, <4>2, <4>3, <4>4, AboveHeadRan DEF e
        <4>5. CASE ~Below(p, stack[L].cursor)
          <5>1. runs[k][p] > 0 \/ Excused(L - 1, k)
            BY <1>2, <2>1, <4>3, <4>5 DEF StackInv, AboveRan
          <5> QED
            BY <4>2, <5>1 DEF Excused
        <4> QED
          BY <4>1, <4>4, <4>5
      <3>5. runs[k][p] > 0 \/ Excused(i - 1, k)
        BY <1>11, <3>3, <3>4
      <3>6. \A h \in 1..(i - 1) : stack'[h].node = stack[h].node
        BY <1>10, <3>1
      <3> QED
        BY <3>1, <3>5, <3>6, ExcusedStays
    <2>2. UNCHANGED handlers /\ runs' = runs /\ 1..Len(stack') = 1..(L + 1)
      BY <1>2, <1>9, <1>10
    <2>3. \A i \in 1..Len(stack') : (\A j \in 1..(i - 1) : ~stack'[j].err) =>
            \A k \in Nodes : \A p \in handlers[k] : ~Below(p, stack'[i].cursor) =>
               \/ runs'[k][p] > 0
               \/ \E h \in 1..(i - 1) : /\ k # stack'[h].node /\ h > 1 /\ stack'[h].node \in Servers
                                        /\ stack'[h - 1].node = Via[stack'[h].node][k]
      BY <2>1, <2>2, Zenon
    <2> QED
      BY <2>2, <2>3, AboveRanNext, Zenon
  <1>18. NobodySkipped' /\ Ended'
    BY <1>2, <1>9, <1>10 DEF NobodySkipped, Ended
  <1>19. LostInside'
    <2>1. Overwritten(e.t) \subseteq 1..L /\ 1..L \subseteq 1..(L + 1)
      BY <1>2 DEF Overwritten
    <2> QED
      BY <1>9, <1>10, <2>1 DEF StackInv, LostInside
  <1>20. ServersEverywhere => Overwritten(e.t) = {}
    <2> SUFFICES ASSUME ServersEverywhere, NEW i \in Overwritten(e.t) PROVE FALSE
      OBVIOUS
    <2>1. /\ i \in 1..(L - 1) /\ i \in 1..L /\ i + 1 \in 1..L
          /\ \A j \in i..L : stack[j].node \notin Servers
      BY <1>2 DEF Overwritten
    <2>2. stack[i].node \notin Servers /\ stack[i + 1].node \notin Servers
      BY <1>2, <2>1
    <2>3. /\ stack[i].node \in Nodes /\ stack[i].todo \in SUBSET Entry
          /\ stack[i].todo \subseteq Merged(stack[i].node)
      BY <2>1, FrameType
    <2>4. /\ stack[i].todo # {} /\ Head1(stack[i].todo).kind = "remote"
          /\ Head1(stack[i].todo).t = stack[i + 1].node
      BY <2>1 DEF StackInv, Linked
    <2>5. Head1(stack[i].todo) \in Merged(stack[i].node)
      BY <2>3, <2>4, HeadIsFirst
    <2>6. PICK k \in Nodes : k # stack[i].node /\ stack[i + 1].node = Via[stack[i].node][k]
      BY <1>2, <2>3, <2>4, <2>5, MergedEntries
    <2> QED
      BY <2>2, <2>3, <2>6 DEF ServersEverywhere
  <1> QED
    BY <1>9, <1>12, <1>13, <1>14, <1>15, <1>16, <1>17, <1>18, <1>19, <1>20 DEF StackInv

-----------------------------------------------------------------------------
\* A request starts with the caller's own dispatch.
LEMMA InitInv ==
  ASSUME Init
  PROVE  StackInv
  <1> USE CrossBusAssumption
  <1> DEFINE d == [node |-> origin, todo |-> Merged(origin), cursor |-> NoCursor, err |-> FALSE]
  <1>1. /\ origin \in Origins /\ origin \in Nodes
        /\ handlers \in [Nodes -> SUBSET Priorities]
        /\ runs = [n \in Nodes |-> [p \in Priorities |-> 0]]
        /\ hops = 0 /\ outcome = "pending" /\ lost = {} /\ answered = FALSE
        /\ stack = <<d>>
    BY DEF Init
  <1>2. /\ Merged(origin) \in SUBSET Entry
        /\ \A k \in Nodes : \A p \in handlers[k] : EntryOf(origin, k, p) \in Merged(origin)
    <2>1. \A k \in Nodes : handlers[k] \subseteq Priorities
      BY <1>1
    <2>2. LocalEntries(origin) \subseteq Entry
      BY <1>1, <2>1 DEF LocalEntries, Entry
    <2>3. RemoteEntries(origin) \subseteq Entry
      BY <1>1, <2>1 DEF RemoteEntries, Entry
    <2>4. \A k \in Nodes : \A p \in handlers[k] : EntryOf(origin, k, p) \in Merged(origin)
      BY DEF EntryOf, Merged, LocalEntries, RemoteEntries
    <2> QED
      BY <2>2, <2>3, <2>4 DEF Merged
  <1>3. d \in Dispatch /\ d.node = origin /\ d.todo = Merged(origin) /\ d.cursor = NoCursor /\ ~d.err
    BY <1>1, <1>2 DEF Dispatch
  <1> HIDE DEF d
  <1>4. stack \in Seq(Dispatch) /\ Len(stack) = 1 /\ stack[1] = d /\ stack # <<>>
    BY <1>1, <1>3
  <1>5. TypeOK
    <2>1. runs \in [Nodes -> [Priorities -> Nat]] /\ hops \in 0..MaxHops
      BY <1>1
    <2>2. lost \in SUBSET Nat /\ answered \in BOOLEAN /\ outcome \in Outcomes
      BY <1>1 DEF Outcomes
    <2> QED
      BY <1>1, <1>4, <2>1, <2>2 DEF TypeOK
  <1>6. TodoBelow /\ Linked /\ Rooted
    BY <1>3, <1>4 DEF TodoBelow, Linked, Rooted, FromCursor
  <1>7. Covered
    BY <1>2, <1>3, <1>4 DEF Covered
  <1>8. AboveRan
    BY <1>3, <1>4 DEF AboveRan, Below
  <1>9. Ended /\ NobodySkipped /\ LostInside
    BY <1>1, <1>4 DEF Ended, NobodySkipped, LostInside
  <1> QED
    BY <1>1, <1>5, <1>6, <1>7, <1>8, <1>9 DEF StackInv

\* No step.
LEMMA StutterInv ==
  ASSUME StackInv, UNCHANGED vars
  PROVE  StackInv'
  <1>1. UNCHANGED <<handlers, stack, lost, runs, outcome, origin, hops, answered>>
    BY DEF vars
  <1>2. TypeOK' /\ Linked' /\ Rooted' /\ Ended' /\ LostInside' /\ NobodySkipped'
    BY <1>1 DEF StackInv, TypeOK, Linked, Rooted, Ended, LostInside, NobodySkipped,
                Below, Head1, Before
  <1>3. AboveRan'
    BY <1>1 DEF StackInv, AboveRan, Clean, Below, Excused, SentBack
  <1>4. TodoBelow'
    BY <1>1, MergedStays DEF StackInv, TodoBelow
  <1>5. Covered'
    BY <1>1 DEF StackInv, Covered, SentBack, EntryOf, Below
  <1> QED
    BY <1>1, <1>2, <1>3, <1>4, <1>5 DEF StackInv

\* The stack of dispatches is coherent in every reachable state: every handler
\* a dispatch has neither still to serve nor seen run is above its cursor, and
\* has run before.
THEOREM StackInvariant == Spec => []StackInv
  <1>1. Init => StackInv
    BY InitInv
  <1>2. StackInv /\ [Next]_vars => StackInv'
    BY HandlerDefersInv, HandlerAnswersInv, HandlerThrowsInv, SendToPeerInv, SendRefusedInv, SendFailsInv,
       ExhaustedInv, LostSendTimesOutInv, StutterInv DEF Next
  <1> QED
    BY <1>1, <1>2, PTL DEF Spec

\* request() fails with NoHandlerError only when every handler on every bus has
\* run and declined, whatever the tree, the handlers and their priorities: the
\* cursors resolveRemoteCursor sends make no receiving bus skip a handler, and
\* what a server may not send back to its client the client itself serves.
THEOREM CursorsSkipNobody == Spec => []NobodySkipped
  <1>1. StackInv => NobodySkipped
    BY DEF StackInv
  <1> QED
    BY <1>1, StackInvariant, PTL

\* A step that runs a handler runs one that nothing of higher priority is left
\* to run before, but behind the client of a server.
LEMMA RunsInOrder ==
  ASSUME StackInv, Dispatching("local"), Ran,
         NEW n \in Nodes, NEW p \in handlers[n], runs'[n][p] > runs[n][p],
         \A i \in 1..Len(stack) : ~stack[i].err,
         NEW k \in Nodes, NEW q \in handlers[k], q > p
  PROVE  runs[k][q] > 0 \/ Excused(Len(stack), k)
  <1> DEFINE L == Len(stack)
  <1>1. stack # <<>> /\ Top.todo # {} /\ Head1(Top.todo).p \in Priorities
    BY RanEffect
  <1>2. L \in 1..L /\ Top = stack[L]
    BY <1>1, TopOfStack
  <1>3. TypeOK /\ stack[L].node \in Nodes
    BY <1>2, FrameType DEF StackInv
  <1>4. p = Head1(Top.todo).p
    <2>1. /\ runs \in [Nodes -> [Priorities -> Nat]] /\ p \in Priorities
          /\ runs' = [runs EXCEPT ![Top.node][Head1(Top.todo).p] = @ + 1]
      BY <1>3 DEF TypeOK, Ran
    <2>2. SUFFICES ASSUME p # Head1(Top.todo).p PROVE runs'[n][p] = runs[n][p]
      <3>1. runs[n][p] \in Nat
        BY <2>1
      <3> QED
        BY <2>2, <3>1
    <2> QED
      BY <2>1, <2>2
  <1>5. EntryOf(stack[L].node, k, q).p = q
    BY <1>3, MergedEntries
  <1>6. Before(EntryOf(stack[L].node, k, q), Head1(stack[L].todo))
    BY <1>2, <1>4, <1>5 DEF Before
  <1>7. Clean(L)
    BY DEF Clean
  <1> QED
    BY <1>1, <1>2, <1>6, <1>7, AboveHeadRan

\* The cross-transport priority contract: until something fails a handler runs
\* only after every handler of higher priority on every bus, but for those that
\* a websocket server leaves to the client the request came from.
THEOREM PrioritiesHoldAcrossBuses == Spec => HigherPriorityFirst
  <1> DEFINE InOrder ==
        \A n \in Nodes : \A p \in handlers[n] : runs'[n][p] > runs[n][p] =>
            \/ \E i \in 1..Len(stack) : stack[i].err
            \/ \A k \in Nodes : \A q \in handlers[k] :
                  q > p => runs[k][q] > 0 \/ Excused(Len(stack), k)
  <1>1. StackInv /\ [Next]_vars => [InOrder]_vars
    <2> SUFFICES ASSUME StackInv, Next PROVE InOrder
      OBVIOUS
    <2>1. CASE HandlerDefers \/ HandlerAnswers \/ HandlerThrows
      <3>1. Dispatching("local") /\ Ran
        BY <2>1 DEF HandlerDefers, HandlerAnswers, HandlerThrows
      <3> QED
        BY <3>1, RunsInOrder
    <2>2. CASE runs' = runs
      <3>1. \A n \in Nodes : \A p \in handlers[n] : runs[n][p] \in Nat
        BY DEF StackInv, TypeOK
      <3> QED
        BY <2>2, <3>1
    <2> QED
      BY <2>1, <2>2 DEF Next, SendToPeer, SendRefused, SendFails, Exhausted, LostSendTimesOut
  <1> QED
    BY <1>1, StackInvariant, PTL DEF Spec, HigherPriorityFirst

\* Where every link has a websocket server at one end, which gives each send an
\* id of its own, a result that a handler sets reaches the caller.
THEOREM ServersKeepAnswers == ServersEverywhere => (Spec => []AnswerReachesCaller)
  <1> SUFFICES ASSUME ServersEverywhere PROVE Spec => []AnswerReachesCaller
    OBVIOUS
  <1>1. StackInv => AnswerReachesCaller
    BY DEF StackInv, AnswerReachesCaller
  <1> QED
    BY <1>1, StackInvariant, PTL
=============================================================================
