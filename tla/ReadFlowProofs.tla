---------------------------- MODULE ReadFlowProofs ----------------------------
(***************************************************************************)
(* Proofs about ReadFlow, for any tables, page sizes and limits: a walk    *)
(* through a list misses no row that stays and gives none twice, the last  *)
(* price of a range is none before those that were counted, a document     *)
(* that every retriever ranks better stays better in the hits, and the     *)
(* tool that asks offer by offer finds the cheapest if nothing changes.    *)
(***************************************************************************)
EXTENDS ReadFlow, FiniteSetTheorems, SequenceTheorems, WellFoundedInduction, TLAPS

-----------------------------------------------------------------------------
(* The orders of the lists, and the ends of finite sets.                   *)

LEMMA PrecedesIs ==
  ASSUME NEW list, NEW j \in Int, NEW k \in Int
  PROVE  /\ Precedes(list, j, k) \/ Precedes(list, k, j) \/ j = k
         /\ ~(Precedes(list, j, k) /\ Precedes(list, k, j))
         /\ ~Precedes(list, j, j)
         /\ \A m \in Int : Precedes(list, j, k) /\ Precedes(list, k, m) => Precedes(list, j, m)
BY DEF Precedes

\* A property of some finite set of numbers is one of a smallest such set.
LEMMA Smallest ==
  ASSUME NEW S, IsFiniteSet(S), NEW Bads \in SUBSET (SUBSET S), Bads # {}
  PROVE  \E U \in Bads : \A x \in U : U \ {x} \notin Bads
<1> DEFINE T == {n \in Nat : \E U \in Bads : Cardinality(U) = n}
<1>1. \A U \in Bads : IsFiniteSet(U) /\ Cardinality(U) \in Nat
  BY FS_Subset, FS_CardinalityType
<1>2. T # {}
  BY <1>1
<1>3. PICK n \in T : \A m \in T : ~ (<<m, n>> \in OpToRel(<, Nat))
  <2>1. T \subseteq Nat
    OBVIOUS
  <2> HIDE DEF T
  <2> QED BY <1>2, <2>1, NatLessThanWellFounded, WFMin
<1>4. PICK U \in Bads : Cardinality(U) = n
  OBVIOUS
<1>5. ASSUME NEW x \in U, U \ {x} \in Bads
      PROVE  FALSE
  <2>1. Cardinality(U \ {x}) = n - 1
    BY <1>1, <1>4, FS_RemoveElement
  <2>2. n - 1 \in T /\ n \in Nat /\ n - 1 \in Nat /\ n - 1 < n
    BY <1>1, <1>5, <2>1
  <2> HIDE DEF T
  <2> QED BY <1>3, <2>2 DEF OpToRel
<1> QED BY <1>5

\* A finite set of numbers has a last one, in whichever order.
LEMMA HasLast ==
  ASSUME NEW list, NEW S, S \subseteq Int, IsFiniteSet(S), S # {}
  PROVE  \E m \in S : \A k \in S : k = m \/ Precedes(list, k, m)
<1> DEFINE Hindmost(U, m) == m \in U /\ \A k \in U : k = m \/ Precedes(list, k, m)
           Bads == {U \in SUBSET S : U # {} /\ ~ \E m \in U : Hindmost(U, m)}
<1>1. Bads = {}
  <2> SUFFICES ASSUME Bads # {} PROVE FALSE
    OBVIOUS
  <2>1. Bads \in SUBSET (SUBSET S)
    OBVIOUS
  <2>2. PICK U \in Bads : \A x \in U : U \ {x} \notin Bads
    <3> HIDE DEF Bads
    <3> QED BY <2>1, Smallest
  <2>3. PICK x \in U : TRUE
    OBVIOUS
  <2> DEFINE V == U \ {x}
  <2>4. V # {}
    <3> SUFFICES ASSUME V = {} PROVE FALSE
      OBVIOUS
    <3>1. Hindmost(U, x)
      OBVIOUS
    <3> QED BY <2>3, <3>1
  <2>5. PICK m \in V : Hindmost(V, m)
    BY <2>2, <2>3, <2>4
  <2>6. Hindmost(U, m) \/ Hindmost(U, x)
    <3>1. CASE Precedes(list, x, m)
      BY <2>5, <3>1
    <3>2. CASE Precedes(list, m, x)
      <4>1. \A k \in V : Precedes(list, k, x)
        BY <2>5, <3>2, PrecedesIs
      <4> QED BY <2>3, <4>1
    <3> QED BY <2>5, <3>1, <3>2, PrecedesIs
  <2> QED BY <2>3, <2>5, <2>6
<1> QED BY <1>1

\* And a first one.
LEMMA HasFirst ==
  ASSUME NEW list, NEW S, S \subseteq Int, IsFiniteSet(S), S # {}
  PROVE  \E m \in S : \A k \in S : k = m \/ Precedes(list, m, k)
<1> DEFINE back == [newestFirst |-> ~list.newestFirst]
<1>1. PICK m \in S : \A k \in S : k = m \/ Precedes(back, k, m)
  BY HasLast
<1>2. \A k \in S : Precedes(back, k, m) => Precedes(list, m, k)
  BY DEF Precedes
<1> QED BY <1>1, <1>2

LEMMA MaxIs ==
  ASSUME NEW S, S \subseteq Int, IsFiniteSet(S), S # {}
  PROVE  Max(S) \in S /\ \A k \in S : k <= Max(S)
<1>1. PICK m \in S : \A k \in S : k = m \/ Precedes([newestFirst |-> FALSE], k, m)
  BY HasLast
<1>2. \A k \in S : m >= k
  BY <1>1 DEF Precedes
<1>3. Max(S) \in S /\ \A k \in S : Max(S) >= k
  BY <1>2 DEF Max
<1> QED BY <1>3

LEMMA MinIs ==
  ASSUME NEW S, S \subseteq Int, IsFiniteSet(S), S # {}
  PROVE  Min(S) \in S /\ \A k \in S : Min(S) <= k
<1>1. PICK m \in S : \A k \in S : k = m \/ Precedes([newestFirst |-> TRUE], k, m)
  BY HasLast
<1>2. \A k \in S : m <= k
  BY <1>1 DEF Precedes
<1>3. Min(S) \in S /\ \A k \in S : Min(S) <= k
  BY <1>2 DEF Min
<1> QED BY <1>3

\* A page has each of its rows once and in order.
LEMMA InOrderIs ==
  ASSUME NEW list, NEW S, S \subseteq Int, IsFiniteSet(S)
  PROVE  LET s == InOrder(list, S)
         IN  /\ s \in Seq(S) /\ ToSet(s) = S
             /\ \A i, n \in DOMAIN s : i < n => Precedes(list, s[i], s[n])
<1> DEFINE Sorted(s) == \A i, n \in DOMAIN s : i < n => Precedes(list, s[i], s[n])
           Bads == {U \in SUBSET S : ~ \E s \in [1..Cardinality(U) -> U] : Sorted(s)}
<1>1. Bads = {}
  <2> SUFFICES ASSUME Bads # {} PROVE FALSE
    OBVIOUS
  <2>1. Bads \in SUBSET (SUBSET S)
    OBVIOUS
  <2>2. PICK U \in Bads : \A x \in U : U \ {x} \notin Bads
    <3> HIDE DEF Bads
    <3> QED BY <2>1, Smallest
  <2>3. IsFiniteSet(U) /\ U \subseteq S
    BY FS_Subset
  <2>4. U # {}
    <3> SUFFICES ASSUME U = {} PROVE FALSE
      OBVIOUS
    <3> DEFINE s == [i \in 1..0 |-> i]
    <3>1. Cardinality(U) = 0
      BY FS_EmptySet
    <3>2. s \in [1..0 -> U] /\ Sorted(s)
      OBVIOUS
    <3> QED BY <3>1, <3>2
  <2>5. PICK m \in U : \A k \in U : k = m \/ Precedes(list, k, m)
    BY <2>3, <2>4, HasLast
  <2> DEFINE V == U \ {m}  c == Cardinality(V)
  <2>6. IsFiniteSet(V) /\ c \in Nat /\ Cardinality(U) = c + 1
    <3>1. IsFiniteSet(V) /\ Cardinality(V) = Cardinality(U) - 1
      BY <2>3, <2>5, FS_RemoveElement
    <3> QED BY <2>3, <3>1, FS_CardinalityType
  <2>7. PICK s \in [1..c -> V] : Sorted(s)
    BY <2>2, <2>5
  <2> HIDE DEF c
  <2> DEFINE w == [i \in 1..(c + 1) |-> IF i = c + 1 THEN m ELSE s[i]]
  <2>8. w \in [1..(c + 1) -> U]
    BY <2>5, <2>6, <2>7
  <2>9. Sorted(w)
    <3> SUFFICES ASSUME NEW i \in 1..(c + 1), NEW n \in 1..(c + 1), i < n
                 PROVE  Precedes(list, w[i], w[n])
      OBVIOUS
    <3>1. i \in 1..c /\ w[i] = s[i] /\ s[i] \in V
      BY <2>6, <2>7
    <3>2. CASE n = c + 1
      BY <2>5, <3>1, <3>2
    <3>3. CASE n # c + 1
      <4>1. n \in 1..c /\ w[n] = s[n]
        BY <2>6, <3>3
      <4> QED BY <2>7, <3>1, <4>1
    <3> QED BY <3>2, <3>3
  <2> QED BY <2>6, <2>8, <2>9
<1> DEFINE c == Cardinality(S)  s == InOrder(list, S)
<1>2. c \in Nat
  BY FS_CardinalityType
<1>3. \E r \in [1..c -> S] : Sorted(r)
  BY <1>1
<1>4. s \in [1..c -> S] /\ Sorted(s)
  BY <1>3 DEF InOrder
<1> HIDE DEF s
<1>5. s \in Injection(1..c, S)
  <2>1. ASSUME NEW i \in 1..c, NEW n \in 1..c, s[i] = s[n]
        PROVE  i = n
    <3>1. s[i] \in Int /\ ~Precedes(list, s[i], s[n]) /\ ~Precedes(list, s[n], s[i])
      BY <1>4, <2>1, PrecedesIs
    <3>2. ~(i < n) /\ ~(n < i)
      BY <1>4, <3>1
    <3> QED BY <1>2, <3>2
  <2> QED BY <1>4, <2>1 DEF Injection, IsInjective
<1>6. s \in Surjection(1..c, S)
  <2>1. Cardinality(1..c) = c
    BY <1>2, FS_Interval
  <2> QED BY <1>2, <1>5, <2>1, FS_Injection
<1>7. ToSet(s) = S /\ s \in Seq(S)
  <2>1. s \in Seq(S)
    BY <1>2, <1>4
  <2>2. \A k \in S : \E i \in 1..c : s[i] = k
    BY <1>6 DEF Surjection
  <2> QED BY <1>4, <2>1, <2>2 DEF ToSet
<1> QED BY <1>4, <1>7 DEF s

-----------------------------------------------------------------------------
(* The pages.                                                              *)

\* The order of a list, seen from a cursor: k is still to come, or has been passed.
Ahead(list, cursor, k) == cursor = Start \/ Precedes(list, cursor, k)

Passed(list, cursor, k) == cursor # Start /\ (k = cursor \/ Precedes(list, k, cursor))

\* The rows a page holds, whichever the order.
FirstOf(list, keys, limit) ==
    {k \in keys : Cardinality({j \in keys : Precedes(list, j, k)}) < limit}

\* A page leaves no row out before one it holds, and is full unless it holds all there are.
LEMMA FirstOfIs ==
  ASSUME NEW list, NEW S, S \subseteq Int, IsFiniteSet(S), NEW limit \in Nat \ {0}
  PROVE  LET items == FirstOf(list, S, limit)
         IN  /\ items \subseteq S
             /\ \A j, k \in S : k \in items /\ Precedes(list, j, k) => j \in items
             /\ Cardinality(items) # limit => items = S
<1> DEFINE items == FirstOf(list, S, limit)
           Earlier(k) == {j \in S : Precedes(list, j, k)}
<1>1. items \subseteq S /\ IsFiniteSet(items) /\ Cardinality(items) \in Nat
  <2>1. items \subseteq S
    BY DEF FirstOf
  <2> QED BY <2>1, FS_Subset, FS_CardinalityType
<1>2. \A k : IsFiniteSet(Earlier(k)) /\ Cardinality(Earlier(k)) \in Nat
  <2> SUFFICES ASSUME NEW k PROVE IsFiniteSet(Earlier(k)) /\ Cardinality(Earlier(k)) \in Nat
    OBVIOUS
  <2>1. Earlier(k) \subseteq S
    OBVIOUS
  <2> HIDE DEF Earlier
  <2> QED BY <2>1, FS_Subset, FS_CardinalityType
<1>3. \A k \in S : k \in items <=> Cardinality(Earlier(k)) < limit
  BY DEF FirstOf
<1>4. ASSUME NEW j \in S, NEW k \in S, k \in items, Precedes(list, j, k)
      PROVE  j \in items
  <2>1. Earlier(j) \subseteq Earlier(k)
    BY <1>4, PrecedesIs
  <2>2. Cardinality(Earlier(j)) <= Cardinality(Earlier(k))
    <3> HIDE DEF Earlier
    <3> QED BY <1>2, <2>1, FS_Subset
  <2> HIDE DEF Earlier, items
  <2> QED BY <1>2, <1>3, <1>4, <2>2
<1>5. ASSUME items # S
      PROVE  Cardinality(items) = limit
  <2>1. IsFiniteSet(S \ items) /\ S \ items # {}
    BY <1>1, <1>5, FS_Subset
  <2>2. PICK m \in S \ items : \A k \in S \ items : k = m \/ Precedes(list, m, k)
    <3> HIDE DEF items
    <3> QED BY <2>1, HasFirst
  <2>3. items = Earlier(m)
    <3>1. ASSUME NEW k \in items
          PROVE  Precedes(list, k, m)
      <4>1. k \in S /\ k # m /\ ~Precedes(list, m, k)
        BY <1>1, <1>4, <2>2
      <4> QED BY <4>1, PrecedesIs
    <3>2. ASSUME NEW k \in S, Precedes(list, k, m)
          PROVE  k \in items
      <4>1. k # m /\ ~Precedes(list, m, k)
        BY <2>2, <3>2, PrecedesIs
      <4> QED BY <2>2, <4>1
    <3> QED BY <1>1, <3>1, <3>2
  <2>4. Cardinality(items) >= limit
    <3> HIDE DEF items, Earlier
    <3> QED BY <1>1, <1>3, <2>2, <2>3
  <2>5. items # {}
    <3> HIDE DEF items
    <3> QED BY <1>1, <2>4, FS_EmptySet
  <2>6. PICK x \in items : \A k \in items : k = x \/ Precedes(list, k, x)
    <3> HIDE DEF items
    <3> QED BY <1>1, <2>5, HasLast
  <2>7. items \ {x} \subseteq Earlier(x)
    BY <1>1, <2>6
  <2>8. Cardinality(items) - 1 <= Cardinality(Earlier(x)) /\ Cardinality(Earlier(x)) < limit
    <3> HIDE DEF items, Earlier
    <3>1. Cardinality(items \ {x}) = Cardinality(items) - 1
      BY <1>1, <2>6, FS_RemoveElement
    <3>2. Cardinality(items \ {x}) <= Cardinality(Earlier(x))
      BY <1>2, <2>7, FS_Subset
    <3> QED BY <1>1, <1>3, <2>6, <3>1, <3>2
  <2> HIDE DEF items, Earlier
  <2> QED BY <1>1, <1>2, <2>4, <2>8
<1> QED BY <1>1, <1>4, <1>5

\* The next page: rows ahead of the cursor, all up to the next one, or all there are.
LEMMA PageOfIs ==
  ASSUME NEW list, NEW cursor \in Keys \cup {Start}, NEW limit \in Nat \ {0}, rows \subseteq Keys
  PROVE  LET page == PageOf(list, cursor, limit)
         IN  /\ page.items \subseteq rows /\ \A k \in page.items : Ahead(list, cursor, k)
             /\ page.next \in Keys \cup {End}
             /\ page.next = End => \A k \in rows : Ahead(list, cursor, k) => k \in page.items
             /\ page.next # End =>
                   /\ page.next \in page.items
                   /\ \A k \in page.items : k = page.next \/ Precedes(list, k, page.next)
                   /\ \A k \in rows : Ahead(list, cursor, k) =>
                         k \in page.items \/ Precedes(list, page.next, k)
<1> DEFINE S == {k \in rows : Ahead(list, cursor, k)}
           items == FirstOf(list, S, limit)
           next == IF Cardinality(items) = limit
                   THEN IF list.newestFirst THEN Min(items) ELSE Max(items) ELSE End
           page == PageOf(list, cursor, limit)
<1>1. /\ Keys \subseteq Int /\ IsFiniteSet(Keys) /\ Start \notin Keys /\ End \notin Keys
      /\ \A k \in Keys : k > Start
  BY ListingAssumption DEF Start, End
<1>2. S \subseteq rows /\ S \subseteq Int /\ IsFiniteSet(S)
  <2>1. S \subseteq Keys
    OBVIOUS
  <2> HIDE DEF S
  <2> QED BY <1>1, <2>1, FS_Subset DEF S
<1>3. /\ items \subseteq S
      /\ \A j, k \in S : k \in items /\ Precedes(list, j, k) => j \in items
      /\ Cardinality(items) # limit => items = S
  <2> HIDE DEF S
  <2> QED BY <1>2, FirstOfIs
<1>4. page.items = items /\ page.next = next
  <2>1. CASE list.newestFirst
    <3>1. Before(rows, cursor) = S
      BY <1>1, <2>1 DEF Before, Ahead, Precedes
    <3>2. Newest(S, limit) = items
      BY <2>1 DEF Newest, FirstOf, Precedes
    <3>3. page = PageDown(rows, cursor, limit)
      BY <2>1 DEF PageOf
    <3> HIDE DEF page, S, items
    <3> QED BY <2>1, <3>1, <3>2, <3>3 DEF PageDown
  <2>2. CASE ~list.newestFirst
    <3>1. Behind(rows, cursor) = S
      BY <1>1, <2>2 DEF Behind, Ahead, Precedes
    <3>2. Oldest(S, limit) = items
      BY <2>2 DEF Oldest, FirstOf, Precedes
    <3>3. page = PageUp(rows, cursor, limit)
      BY <2>2 DEF PageOf
    <3> HIDE DEF page, S, items
    <3> QED BY <2>2, <3>1, <3>2, <3>3 DEF PageUp
  <2> QED BY <2>1, <2>2
<1>5. CASE Cardinality(items) # limit
  <2>1. next = End /\ items = S
    BY <1>3, <1>5
  <2> HIDE DEF items, next
  <2> QED BY <1>1, <1>2, <1>4, <2>1
<1>6. CASE Cardinality(items) = limit
  <2>1. items # {} /\ IsFiniteSet(items) /\ items \subseteq Int
    <3> HIDE DEF items
    <3> QED BY <1>2, <1>3, <1>6, FS_Subset, FS_EmptySet
  <2>2. next \in items /\ \A k \in items : k = next \/ Precedes(list, k, next)
    <3> HIDE DEF items
    <3>1. CASE list.newestFirst
      <4>1. next = Min(items)
        BY <1>6, <3>1
      <4>2. Min(items) \in items /\ \A k \in items : Min(items) <= k
        BY <2>1, MinIs
      <4> HIDE DEF next
      <4>3. next \in items /\ \A k \in items : k \in Int /\ next \in Int /\ next <= k
        BY <2>1, <4>1, <4>2
      <4>4. \A k \in items : k = next \/ k > next
        BY <4>3
      <4> QED BY <3>1, <4>3, <4>4 DEF Precedes
    <3>2. CASE ~list.newestFirst
      <4>1. next = Max(items)
        BY <1>6, <3>2
      <4>2. Max(items) \in items /\ \A k \in items : k <= Max(items)
        BY <2>1, MaxIs
      <4> HIDE DEF next
      <4>3. next \in items /\ \A k \in items : k \in Int /\ next \in Int /\ k <= next
        BY <2>1, <4>1, <4>2
      <4>4. \A k \in items : k = next \/ k < next
        BY <4>3
      <4> QED BY <3>2, <4>3, <4>4 DEF Precedes
    <3> QED BY <3>1, <3>2
  <2> HIDE DEF next
  <2>3. ASSUME NEW k \in S
        PROVE  k \in items \/ Precedes(list, next, k)
    <3>1. k \in Int /\ next \in Int /\ next \in S
      BY <1>2, <1>3, <2>2
    <3>2. k = next \/ Precedes(list, k, next) => k \in items
      BY <1>3, <2>2, <3>1
    <3> QED BY <3>1, <3>2, PrecedesIs
  <2>4. items \subseteq rows /\ \A k \in items : Ahead(list, cursor, k)
    BY <1>3
  <2>5. next \in Keys /\ next # End
    BY <1>1, <2>2, <2>4
  <2> HIDE DEF items
  <2> QED BY <1>4, <2>2, <2>3, <2>4, <2>5
<1> QED BY <1>5, <1>6

-----------------------------------------------------------------------------
(* A walk through a list.                                                  *)

\* A list, or a page of it, is in order; one page follows another.
Sorted(list, s) == \A i, j \in DOMAIN s : i < j => Precedes(list, s[i], s[j])

Follows(list, s, r) == \A i \in DOMAIN s, j \in DOMAIN r : Precedes(list, s[i], r[j])

\* A walk: what was given is in order and behind the cursor; what was there all the time is
\* there still, and was given or is ahead of the cursor.
WalkInv ==
    walk # NotWalking =>
        LET list == walk.endpoint.list
        IN  /\ walk \in Walks
            /\ walk.steady \subseteq rows
            /\ Sorted(list, walk.given)
            /\ walk.cursor # End => \A i \in DOMAIN walk.given : Passed(list, walk.cursor, walk.given[i])
            /\ \A k \in walk.steady :
                  k \in ToSet(walk.given) \/ (walk.cursor # End /\ Ahead(list, walk.cursor, k))

\* A walk some of whose rows leave.
LEMMA SteadyRecord ==
  ASSUME NEW w \in Walks, NEW steady \in SUBSET Keys
  PROVE  LET v == [w EXCEPT !.steady = steady]
         IN  /\ v \in Walks /\ v.steady = steady
             /\ v.endpoint = w.endpoint /\ v.cursor = w.cursor /\ v.given = w.given
BY DEF Walks

\* What a page adds to what was given.
LEMMA GivenOn ==
  ASSUME NEW list, NEW s \in Seq(Keys), NEW r \in Seq(Keys),
         Sorted(list, s), Sorted(list, r), Follows(list, s, r)
  PROVE  /\ s \o r \in Seq(Keys)
         /\ ToSet(s \o r) = ToSet(s) \cup ToSet(r)
         /\ Sorted(list, s \o r)
<1> DEFINE c == Len(s)  d == Len(r)  t == s \o r
<1>1. /\ t \in Seq(Keys) /\ c \in Nat /\ d \in Nat
      /\ DOMAIN s = 1..c /\ DOMAIN r = 1..d /\ DOMAIN t = 1..(c + d)
      /\ \A i \in 1..(c + d) : t[i] = IF i <= c THEN s[i] ELSE r[i - c]
  OBVIOUS
<1> HIDE DEF c, d, t
<1>2. \A i \in 1..c : t[i] = s[i] /\ i \in DOMAIN t
  BY <1>1
<1>3. \A i \in 1..d : t[i + c] = r[i] /\ i + c \in DOMAIN t
  BY <1>1
<1>4. ToSet(t) = ToSet(s) \cup ToSet(r)
  <2>1. \A i \in DOMAIN t : t[i] \in ToSet(s) \cup ToSet(r)
    <3> SUFFICES ASSUME NEW i \in DOMAIN t PROVE t[i] \in ToSet(s) \cup ToSet(r)
      OBVIOUS
    <3>1. CASE i <= c
      BY <1>1, <3>1 DEF ToSet
    <3>2. CASE ~(i <= c)
      <4>1. i - c \in 1..d
        BY <1>1, <3>2
      <4> QED BY <1>1, <3>2, <4>1 DEF ToSet
    <3> QED BY <3>1, <3>2
  <2>2. ASSUME NEW i \in DOMAIN s
        PROVE  s[i] \in ToSet(t)
    <3>1. t[i] = s[i] /\ i \in DOMAIN t
      BY <1>1, <1>2
    <3> QED BY <3>1 DEF ToSet
  <2>3. ASSUME NEW i \in DOMAIN r
        PROVE  r[i] \in ToSet(t)
    <3>1. t[i + c] = r[i] /\ i + c \in DOMAIN t
      BY <1>1, <1>3
    <3> QED BY <3>1 DEF ToSet
  <2> QED BY <2>1, <2>2, <2>3 DEF ToSet
<1>5. ASSUME NEW i \in DOMAIN t, NEW j \in DOMAIN t, i < j
      PROVE  Precedes(list, t[i], t[j])
  <2>1. CASE j <= c
    <3>1. i \in 1..c /\ j \in 1..c
      BY <1>1, <1>5, <2>1
    <3> QED BY <1>1, <1>2, <1>5, <3>1 DEF Sorted
  <2>2. CASE i <= c /\ ~(j <= c)
    <3>1. i \in 1..c /\ j - c \in 1..d /\ t[i] = s[i] /\ t[j] = r[j - c]
      BY <1>1, <2>2
    <3> QED BY <1>1, <3>1 DEF Follows
  <2>3. CASE ~(i <= c)
    <3>1. i - c \in 1..d /\ j - c \in 1..d /\ i - c < j - c /\ t[i] = r[i - c] /\ t[j] = r[j - c]
      BY <1>1, <1>5, <2>3
    <3> QED BY <1>1, <3>1 DEF Sorted
  <2> QED BY <2>1, <2>2, <2>3
<1> QED BY <1>1, <1>4, <1>5 DEF t, Sorted

LEMMA NextPageKeeps ==
  ASSUME rows \subseteq Keys, WalkInv, NextPage
  PROVE  WalkInv'
<1> DEFINE list == walk.endpoint.list
           page == PageOf(list, walk.cursor, walk.limit)
           shown == InOrder(list, page.items)
           given == walk.given \o shown
<1>1. walk # NotWalking
  BY DEF NextPage, NotWalking
<1>2. /\ walk \in Walks /\ walk.steady \subseteq rows /\ walk.cursor # End
      /\ Sorted(list, walk.given)
      /\ \A i \in DOMAIN walk.given : Passed(list, walk.cursor, walk.given[i])
      /\ \A k \in walk.steady : k \in ToSet(walk.given) \/ Ahead(list, walk.cursor, k)
  BY <1>1 DEF WalkInv, NextPage
<1>3. /\ walk.cursor \in Keys \cup {Start} /\ walk.limit \in Nat \ {0} /\ walk.given \in Seq(Keys)
      /\ Keys \subseteq Int /\ IsFiniteSet(Keys)
  BY <1>2, ListingAssumption DEF Walks
<1>4. /\ page.items \subseteq rows /\ \A k \in page.items : Ahead(list, walk.cursor, k)
      /\ page.next \in Keys \cup {End}
      /\ page.next = End => \A k \in rows : Ahead(list, walk.cursor, k) => k \in page.items
      /\ page.next # End =>
            /\ page.next \in page.items
            /\ \A k \in page.items : k = page.next \/ Precedes(list, k, page.next)
            /\ \A k \in rows : Ahead(list, walk.cursor, k) =>
                  k \in page.items \/ Precedes(list, page.next, k)
  BY <1>3, PageOfIs
<1>5. /\ walk' = [walk EXCEPT !.cursor = page.next, !.given = given]
      /\ UNCHANGED rows
  BY DEF NextPage
<1> HIDE DEF page, list
<1>6. /\ shown \in Seq(page.items) /\ ToSet(shown) = page.items
      /\ Sorted(list, shown)
  <2>1. IsFiniteSet(page.items) /\ page.items \subseteq Int
    BY <1>3, <1>4, FS_Subset
  <2> QED BY <2>1, InOrderIs DEF Sorted
<1> HIDE DEF shown
<1>7. shown \in Seq(Keys)
  BY <1>4, <1>6
<1>8. ASSUME NEW i \in DOMAIN walk.given, NEW k \in page.items
      PROVE  Precedes(list, walk.given[i], k)
  <2>1. Passed(list, walk.cursor, walk.given[i]) /\ Ahead(list, walk.cursor, k)
    BY <1>2, <1>4
  <2>2. walk.given[i] \in Int /\ k \in Int
    <3> DEFINE s == walk.given
    <3>1. s \in Seq(Keys) /\ i \in DOMAIN s
      BY <1>3
    <3> HIDE DEF s
    <3>2. s[i] \in Keys
      BY <3>1
    <3> QED BY <1>3, <1>4, <3>2 DEF s
  <2>3. walk.cursor \in Int /\ Precedes(list, walk.cursor, k)
    BY <1>3, <2>1 DEF Passed, Ahead, Start
  <2> QED BY <2>1, <2>2, <2>3, PrecedesIs DEF Passed
<1>9. given \in Seq(Keys) /\ ToSet(given) = ToSet(walk.given) \cup page.items /\ Sorted(list, given)
  <2>1. Follows(list, walk.given, shown)
    BY <1>6, <1>8 DEF ToSet, Follows
  <2> QED BY <1>2, <1>3, <1>6, <1>7, <2>1, GivenOn
<1>10. /\ walk' \in Walks /\ walk'.cursor = page.next /\ walk'.given = given
       /\ walk'.endpoint = walk.endpoint /\ walk'.steady = walk.steady
  <2>1. walk.steady \in SUBSET Keys
    BY <1>2
  <2> DEFINE next == page.next  steady == walk.steady
             v == [walk EXCEPT !.cursor = next, !.given = given]
  <2>2. next \in Keys \cup {End} /\ given \in Seq(Keys) /\ steady \in SUBSET Keys /\ walk' = v
    BY <1>4, <1>5, <1>9, <2>1
  <2> HIDE DEF given, next, steady
  <2>3. /\ v \in Walks /\ v.cursor = next /\ v.given = given
        /\ v.endpoint = walk.endpoint /\ v.steady = walk.steady
    <3>1. walk \in Walks
      BY <1>2
    <3> QED BY <2>2, <3>1 DEF Walks
  <2> HIDE DEF v
  <2> QED BY <2>2, <2>3 DEF next
<1>11. page.next # End => \A i \in DOMAIN given : Passed(list, page.next, given[i])
  <2> SUFFICES ASSUME page.next # End, NEW k \in ToSet(given)
               PROVE  Passed(list, page.next, k)
    BY DEF ToSet
  <2>1. page.next \in Keys /\ page.next \in Int /\ page.next # Start
    BY <1>3, <1>4, ListingAssumption DEF Start
  <2>2. CASE k \in page.items
    BY <1>4, <2>1, <2>2 DEF Passed
  <2>3. CASE k \in ToSet(walk.given)
    BY <1>4, <1>8, <2>1, <2>3 DEF Passed, ToSet
  <2> QED BY <1>9, <2>2, <2>3
<1>12. \A k \in walk.steady :
          k \in ToSet(given) \/ (page.next # End /\ Ahead(list, page.next, k))
  BY <1>2, <1>4, <1>9 DEF Ahead
<1> HIDE DEF given
<1> QED BY <1>2, <1>5, <1>9, <1>10, <1>11, <1>12 DEF WalkInv, list

LEMMA RowsMove ==
  ASSUME rows \subseteq Keys, WalkInv, NEW k, AddRow(k) \/ RemoveRow(k)
  PROVE  rows' \subseteq Keys /\ WalkInv'
<1>1. CASE AddRow(k)
  <2>1. rows' = rows \cup {k} /\ k \in Keys /\ walk' = walk
    BY <1>1 DEF AddRow
  <2> QED BY <2>1 DEF WalkInv
<1>2. CASE RemoveRow(k)
  <2>1. /\ walk # NotWalking /\ rows' = rows \ {k}
        /\ walk' = [walk EXCEPT !.steady = walk.steady \ {k}]
    BY <1>2 DEF RemoveRow, NotWalking
  <2>2. walk \in Walks
    BY <2>1 DEF WalkInv
  <2>3. walk.steady \ {k} \in SUBSET Keys
    BY <2>2 DEF Walks
  <2> DEFINE steady == walk.steady \ {k}
  <2> HIDE DEF steady
  <2>4. /\ walk' \in Walks /\ walk'.steady = steady
        /\ walk'.endpoint = walk.endpoint /\ walk'.cursor = walk.cursor /\ walk'.given = walk.given
    BY <2>1, <2>2, <2>3, SteadyRecord DEF steady
  <2> QED BY <2>1, <2>4 DEF WalkInv, steady
<1> QED BY <1>1, <1>2

LEMMA WalksHold == Spec => [](rows \subseteq Keys /\ WalkInv)
<1> DEFINE Inv == rows \subseteq Keys /\ WalkInv
<1>1. Init => Inv
  BY DEF Init, WalkInv
<1>2. Inv /\ [Next]_vars => Inv'
  <2> SUFFICES ASSUME rows \subseteq Keys, WalkInv, [Next]_vars PROVE Inv'
    OBVIOUS
  <2>1. CASE UNCHANGED listingVars
    BY <2>1 DEF listingVars, WalkInv
  <2>2. ASSUME NEW endpoint \in Endpoints, NEW limit \in Limits, StartWalk(endpoint, limit)
        PROVE  Inv'
    <3> DEFINE w == [endpoint |-> endpoint, limit |-> limit, cursor |-> Start, given |-> <<>>,
                     steady |-> rows]
    <3>1. w \in Walks
      BY ListingAssumption DEF Walks
    <3>2. walk' = w /\ UNCHANGED rows
      BY <2>2 DEF StartWalk
    <3>3. w.given = <<>> /\ w.steady = rows /\ w.cursor = Start
      OBVIOUS
    <3> HIDE DEF w
    <3> QED BY <3>1, <3>2, <3>3 DEF WalkInv, Ahead, Start, End, Sorted
  <2>3. CASE NextPage
    BY <2>3, NextPageKeeps DEF NextPage
  <2>4. ASSUME NEW k \in Keys, AddRow(k) \/ RemoveRow(k)
        PROVE  Inv'
    BY <2>4, RowsMove
  <2>5. Statistics \/ Search \/ Tool \/ UNCHANGED vars => UNCHANGED listingVars
    BY DEF Statistics, Search, Tool, vars, listingVars
  <2> QED BY <2>1, <2>2, <2>3, <2>4, <2>5 DEF Next, Walk
<1> QED BY <1>1, <1>2, PTL DEF Spec

\* Whoever walks a list to its end has been given every row that was there all the time, in
\* order and once: a cursor on the last row of a full page, and everything behind it.
THEOREM WalksAreComplete == Spec => []ListingIsComplete
<1>1. WalkInv => ListingIsComplete
  <2> SUFFICES ASSUME WalkInv, walk # NotWalking, walk.cursor = End
               PROVE  /\ walk.steady \subseteq ToSet(walk.given)
                      /\ \A i, j \in DOMAIN walk.given : i < j =>
                            IF walk.endpoint.list.newestFirst
                            THEN walk.given[i] > walk.given[j] ELSE walk.given[i] < walk.given[j]
    BY DEF ListingIsComplete
  <2> QED BY DEF WalkInv, Precedes, Sorted
<1> QED BY <1>1, WalksHold, PTL

-----------------------------------------------------------------------------
(* The statistics of a range.                                              *)

\* Statistics: what was counted is there still, so that the last price is no earlier.
CountedAreThere ==
    /\ stats # NotAsked => \E daily \in BOOLEAN : stats \in Requests(daily)
    /\ stats # NotAsked /\ stats.phase \in {"counted", "answered"} =>
          \A b \in DOMAIN stats.counted : stats.counted[b] \subseteq Grouped[b]

\* The points of each bucket, and the last of them.
LEMMA GroupedIs ==
  ASSUME points \in SUBSET Moments, stats.daily \in BOOLEAN
  PROVE  /\ Grouped \in [Buckets(stats.daily) -> SUBSET Moments]
         /\ Latest \in [Buckets(stats.daily) -> Moments \cup {None}]
         /\ \A b \in Buckets(stats.daily) : \A t \in Grouped[b] :
               Latest[b] # None /\ Latest[b] >= t /\ Latest[b] \in Grouped[b]
         /\ \A b \in Buckets(stats.daily) : Grouped[b] \subseteq InRange(points)
<1>1. \A b \in Buckets(stats.daily) :
         Grouped[b] = {t \in InRange(points) : InBucket(stats.daily, b, t)}
  BY DEF Grouped
<1>2. InRange(points) \subseteq Moments
  BY DEF InRange
<1>3. \A b \in Buckets(stats.daily) : Grouped[b] \subseteq InRange(points) /\ Grouped[b] \in SUBSET Moments
  BY <1>1, <1>2
<1>4. Grouped \in [Buckets(stats.daily) -> SUBSET Moments]
  BY <1>3 DEF Grouped
<1>5. Moments \subseteq Nat /\ IsFiniteSet(Moments) /\ None \notin Nat
  BY PriceReadsAssumption DEF None
<1>6. ASSUME NEW b \in Buckets(stats.daily)
      PROVE  /\ Latest[b] \in Moments \cup {None}
             /\ \A t \in Grouped[b] : Latest[b] # None /\ Latest[b] >= t /\ Latest[b] \in Grouped[b]
  <2> DEFINE G == Grouped[b]
  <2>1. Latest[b] = IF G = {} THEN None ELSE Max(G)
    BY DEF Latest
  <2>2. G \subseteq Moments /\ G \subseteq Int /\ IsFiniteSet(G)
    <3>1. G \subseteq Moments
      BY <1>3
    <3> HIDE DEF G
    <3>2. G \in SUBSET Moments /\ G \subseteq Int
      BY <1>5, <3>1
    <3>3. IsFiniteSet(G)
      BY <1>5, <3>2, FS_Subset
    <3> QED BY <3>1, <3>2, <3>3
  <2> HIDE DEF G
  <2>3. CASE G = {}
    BY <2>1, <2>3 DEF G
  <2>4. CASE G # {}
    <3>1. Max(G) \in G /\ \A t \in G : t <= Max(G)
      BY <2>2, <2>4, MaxIs
    <3>2. Max(G) \in Moments /\ Max(G) \in Nat
      BY <1>5, <2>2, <3>1
    <3>3. Latest[b] = Max(G)
      BY <2>1, <2>4
    <3>4. \A t \in G : Max(G) >= t
      BY <1>5, <2>2, <3>1, <3>2
    <3> QED BY <1>5, <3>1, <3>2, <3>3, <3>4 DEF G
  <2> QED BY <2>3, <2>4
<1> QED BY <1>3, <1>4, <1>6 DEF Latest

LEMMA StatsHold == Spec => [](points \in SUBSET Moments /\ CountedAreThere /\ StatsAreOrdered)
<1> DEFINE Inv == points \in SUBSET Moments /\ CountedAreThere /\ StatsAreOrdered
<1>1. Init => Inv
  BY DEF Init, CountedAreThere, StatsAreOrdered
<1>2. Inv /\ [Next]_vars => Inv'
  <2> SUFFICES ASSUME Inv, [Next]_vars PROVE Inv'
    OBVIOUS
  <2>1. CASE UNCHANGED priceReadVars
    BY <2>1 DEF priceReadVars, CountedAreThere, StatsAreOrdered, Grouped, InRange
  <2>2. ASSUME NEW daily \in BOOLEAN, NEW from \in Moments, NEW to \in Moments, AskStats(daily, from, to)
        PROVE  Inv'
    <3> DEFINE r == [phase |-> "asked", daily |-> daily, from |-> from, to |-> to,
                     counted |-> [b \in Buckets(daily) |-> {}], last |-> [b \in Buckets(daily) |-> None]]
    <3>1. stats' = r /\ points' = points
      BY <2>2 DEF AskStats
    <3>2. r \in Requests(daily) /\ r.phase = "asked"
      BY DEF Requests
    <3> HIDE DEF r
    <3> QED BY <3>1, <3>2 DEF CountedAreThere, StatsAreOrdered
  <2>3. ASSUME Aggregate \/ LastPrice
        PROVE  Inv'
    <3>1. stats # NotAsked
      <4>1. stats.phase \in {"asked", "counted"}
        BY <2>3 DEF Aggregate, LastPrice
      <4>2. NotAsked.phase = "not asked"
        BY DEF NotAsked
      <4> QED BY <4>1, <4>2
    <3>2. PICK daily \in BOOLEAN : stats \in Requests(daily)
      BY <3>1 DEF CountedAreThere
    <3>3. stats.daily = daily /\ DOMAIN stats.counted = Buckets(daily)
      BY <3>2 DEF Requests
    <3>4. /\ Grouped \in [Buckets(daily) -> SUBSET Moments]
          /\ Latest \in [Buckets(daily) -> Moments \cup {None}]
          /\ \A b \in Buckets(daily) : \A t \in Grouped[b] :
                Latest[b] # None /\ Latest[b] >= t /\ Latest[b] \in Grouped[b]
          /\ \A b \in Buckets(daily) : Grouped[b] \subseteq InRange(points)
      BY <3>3, GroupedIs
    <3>5. CASE Aggregate
      <4>1. points' = points /\ stats' = [stats EXCEPT !.phase = "counted", !.counted = Grouped]
        BY <3>5 DEF Aggregate
      <4> DEFINE G == Grouped
      <4>2. /\ stats' \in Requests(daily) /\ stats'.phase = "counted" /\ stats'.counted = G
            /\ stats'.daily = daily /\ stats'.from = stats.from /\ stats'.to = stats.to
        <5> HIDE DEF G
        <5>1. G \in [Buckets(daily) -> SUBSET Moments]
          BY <3>4 DEF G
        <5>2. stats' = [stats EXCEPT !.phase = "counted", !.counted = G]
          BY <4>1 DEF G
        <5> QED BY <3>2, <5>1, <5>2 DEF Requests
      <4>3. Grouped' = Grouped
        BY <3>3, <4>1, <4>2 DEF Grouped, InRange
      <4> QED BY <4>1, <4>2, <4>3 DEF CountedAreThere, StatsAreOrdered
    <3>6. CASE LastPrice
      <4>1. /\ points' = points /\ stats' = [stats EXCEPT !.phase = "answered", !.last = Latest]
            /\ stats.phase = "counted"
        BY <3>6 DEF LastPrice
      <4> DEFINE last == Latest
      <4>2. /\ stats' \in Requests(daily) /\ stats'.phase = "answered" /\ stats'.last = last
            /\ stats'.daily = daily /\ stats'.from = stats.from /\ stats'.to = stats.to
            /\ stats'.counted = stats.counted
        <5> HIDE DEF last
        <5>1. last \in [Buckets(daily) -> Moments \cup {None}]
          BY <3>4 DEF last
        <5>2. stats' = [stats EXCEPT !.phase = "answered", !.last = last]
          BY <4>1 DEF last
        <5> QED BY <3>2, <5>1, <5>2 DEF Requests
      <4>3. Grouped' = Grouped
        BY <3>3, <4>1, <4>2 DEF Grouped, InRange
      <4>4. \A b \in Buckets(daily) : stats.counted[b] \subseteq Grouped[b]
        BY <3>1, <3>3, <4>1 DEF CountedAreThere
      <4>5. CountedAreThere'
        BY <3>3, <4>2, <4>3, <4>4 DEF CountedAreThere
      <4>6. ASSUME NEW b \in Buckets(daily), NEW t \in stats.counted[b]
            PROVE  last[b] # None /\ last[b] >= t /\ stats.from <= last[b] /\ last[b] <= stats.to
        <5>1. t \in Grouped[b]
          BY <4>4, <4>6
        <5>2. Latest[b] # None /\ Latest[b] >= t /\ Latest[b] \in InRange(points)
          BY <3>4, <5>1
        <5> QED BY <5>2 DEF InRange
      <4> HIDE DEF last
      <4>7. StatsAreOrdered'
        BY <3>3, <4>2, <4>6 DEF StatsAreOrdered, InRange
      <4> QED BY <4>1, <4>5, <4>7
    <3> QED BY <2>3, <3>5, <3>6
  <2>4. ASSUME NEW t \in Moments, AppendPoint(t)
        PROVE  Inv'
    <3>1. /\ stats # NotAsked /\ stats.phase \in {"asked", "counted"} /\ points' = points \cup {t}
          /\ stats' = stats
      <4>1. NotAsked.phase = "not asked"
        BY DEF NotAsked
      <4> QED BY <2>4, <4>1 DEF AppendPoint
    <3>2. DOMAIN stats.counted = Buckets(stats.daily)
      BY <3>1 DEF CountedAreThere, Requests
    <3>3. \A b \in Buckets(stats.daily) : Grouped[b] \subseteq Grouped'[b]
      BY <3>1 DEF Grouped, InRange
    <3> QED BY <3>1, <3>2, <3>3 DEF CountedAreThere, StatsAreOrdered
  <2>5. Walk \/ Search \/ Tool \/ UNCHANGED vars => UNCHANGED priceReadVars
    BY DEF Walk, Search, Tool, vars, priceReadVars
  <2> QED BY <2>1, <2>2, <2>3, <2>4, <2>5 DEF Next, Statistics
<1> QED BY <1>1, <1>2, PTL DEF Spec

\* The last price of a range, and of each day, is not before any that was counted: a price is
\* appended and never goes away, and the last is read after the others.
THEOREM StatsAgree == Spec => []StatsAreOrdered
BY StatsHold, PTL

-----------------------------------------------------------------------------
(* The tool that asks for the best offer.                                  *)

\* A call nothing disturbs: it has listed all members, and its best offer is the cheapest of
\* those it has asked for.
QuietCall ==
    tool # NotCalled /\ tool.phase # "hit" /\ tool.quiet /\ Cardinality(tool.of) <= MaxMembers =>
        /\ tool.todo \subseteq tool.of
        /\ tool.phase = "answered" => tool.todo = {}
        /\ PricesAgree =>
              LET asked == UNION {Priced(p) : p \in tool.of \ tool.todo}
              IN  /\ tool.best = NoOffer <=> asked = {}
                  /\ tool.best # NoOffer =>
                        /\ tool.best.offer \in asked
                        /\ \A o \in asked : tool.best.uah <= quotes[o].uah

\* An offer and its price are no lack of one.
LEMMA AnOffer ==
  ASSUME NEW o, NEW x
  PROVE  [offer |-> o, uah |-> x] # NoOffer
<1>1. DOMAIN [offer |-> o, uah |-> x] = {"offer", "uah"} /\ DOMAIN NoOffer = {"offer"}
  BY DEF NoOffer
<1>2. "uah" \notin {"offer"}
  OBVIOUS
<1> QED BY <1>1, <1>2

\* A price is a number, or there is none.
LEMMA QuotesAre ==
  ASSUME ToolsTypeOK, NEW o \in Offers
  PROVE  quotes[o].uah \in Int \cup {Unpriced} /\ quotes[o].effective \in Int \cup {Unpriced}
<1>1. quotes[o] \in [uah : Int \cup {Unpriced}, effective : Int \cup {Unpriced}]
  BY ToolsAssumption DEF ToolsTypeOK
<1> QED BY <1>1

\* One page lists all members, if they are no more than it holds.
LEMMA ListsAll ==
  ASSUME NEW c, Cardinality(Members(c)) <= MaxMembers
  PROVE  ListMembers(c) = Members(c)
<1> DEFINE S == Members(c)
<1>1. IsFiniteSet(S) /\ Cardinality(S) \in Nat /\ S \subseteq Nat
  <2>1. S \subseteq Products
    BY DEF Members
  <2> HIDE DEF S
  <2> QED BY <2>1, ToolsAssumption, FS_Subset, FS_CardinalityType
<1>2. ASSUME NEW p \in S
      PROVE  Cardinality({q \in S : q < p}) < MaxMembers
  <2> DEFINE T == {q \in S : q < p}
  <2>1. T \subseteq S \ {p}
    BY <1>1
  <2> HIDE DEF T, S
  <2>2. IsFiniteSet(S \ {p}) /\ Cardinality(S \ {p}) = Cardinality(S) - 1
    BY <1>1, <1>2, FS_RemoveElement
  <2>3. Cardinality(T) <= Cardinality(S \ {p}) /\ IsFiniteSet(T)
    BY <2>1, <2>2, FS_Subset
  <2>4. Cardinality(T) \in Nat
    BY <2>3, FS_CardinalityType
  <2>5. Cardinality(S) <= MaxMembers /\ MaxMembers \in Nat
    BY ToolsAssumption DEF S
  <2>6. Cardinality(T) < MaxMembers
    BY <1>1, <2>2, <2>3, <2>4, <2>5
  <2> QED BY <2>6 DEF T
<1> QED BY <1>2 DEF ListMembers

\* What an answer makes of the best offer so far.
LEMMA BestOfMore ==
  ASSUME ToolsTypeOK, PricesAgree, NEW p \in Products, NEW o \in BestOffers(p), NEW asked \in SUBSET Offers,
         NEW best \in [offer : Offers, uah : Int] \cup {NoOffer},
         best = NoOffer <=> asked = {},
         best # NoOffer => best.offer \in asked /\ \A x \in asked : best.uah <= quotes[x].uah,
         \A x \in asked : quotes[x].effective # Unpriced
  PROVE  LET now == IF Cheaper(quotes[o].uah, best) THEN [offer |-> o, uah |-> quotes[o].uah] ELSE best
         IN  /\ now \in [offer : Offers, uah : Int]
             /\ now # NoOffer /\ now.offer \in asked \cup Priced(p)
             /\ \A x \in asked \cup Priced(p) : now.uah <= quotes[x].uah
<1>1. /\ o \in Offers /\ o \in Priced(p) /\ Priced(p) \subseteq Offers
      /\ \A x \in Priced(p) : quotes[o].effective <= quotes[x].effective
  BY DEF BestOffers, Priced, OffersOf
<1>2. ASSUME NEW x \in Offers, quotes[x].effective # Unpriced
      PROVE  quotes[x].uah \in Int /\ quotes[x].effective \in Int
  BY <1>2, QuotesAre DEF PricesAgree
<1>3. \A x \in asked \cup Priced(p) : x \in Offers /\ quotes[x].uah \in Int /\ quotes[x].effective # Unpriced
  BY <1>1, <1>2 DEF Priced
<1>4. \A x \in Priced(p) : quotes[o].uah <= quotes[x].uah
  BY <1>1, <1>3 DEF PricesAgree
<1> DEFINE price == quotes[o].uah
<1>5. price \in Int /\ price # Unpriced
  BY <1>1, <1>3, ToolsAssumption
<1> HIDE DEF price
<1>6. CASE Cheaper(price, best)
  <2> DEFINE row == [offer |-> o, uah |-> price]
  <2>1. row \in [offer : Offers, uah : Int] /\ row # NoOffer /\ row.offer = o /\ row.uah = price
    BY <1>1, <1>5, AnOffer
  <2>2. ASSUME NEW x \in asked
        PROVE  price <= quotes[x].uah
    <3>1. best # NoOffer /\ best.uah \in Int /\ price < best.uah /\ best.uah <= quotes[x].uah
      BY <1>6 DEF Cheaper
    <3> QED BY <1>3, <1>5, <3>1
  <2> HIDE DEF row
  <2>3. /\ row.offer \in asked \cup Priced(p)
        /\ \A x \in asked \cup Priced(p) : row.uah <= quotes[x].uah
    BY <1>1, <1>4, <2>1, <2>2 DEF price
  <2> QED BY <1>6, <2>1, <2>3 DEF row, price
<1>7. CASE ~Cheaper(price, best)
  <2>1. best # NoOffer /\ best.uah \in Int /\ best.uah <= price
    BY <1>5, <1>7 DEF Cheaper
  <2>2. ASSUME NEW x \in Priced(p)
        PROVE  best.uah <= quotes[x].uah
    <3>1. price <= quotes[x].uah
      BY <1>4 DEF price
    <3> QED BY <1>3, <1>5, <2>1, <3>1
  <2> QED BY <1>7, <2>1, <2>2 DEF price
<1> QED BY <1>6, <1>7

LEMMA AskKeeps ==
  ASSUME ToolsTypeOK, QuietCall, tool # NotCalled, AskMember
  PROVE  ToolsTypeOK' /\ QuietCall'
<1> DEFINE p == Min(tool.todo)
<1>1. /\ tool \in Calls /\ tool.phase = "asking" /\ tool.todo # {} /\ UNCHANGED <<canonicalOf, quotes>>
  BY DEF AskMember, ToolsTypeOK
<1>2. /\ tool.todo \in SUBSET Products /\ tool.of \in SUBSET Products
      /\ tool.best \in [offer : Offers, uah : Int] \cup {NoOffer}
  BY <1>1 DEF Calls
<1>3. p \in tool.todo /\ p \in Products
  <2>1. Products \subseteq Int /\ IsFiniteSet(Products)
    BY ToolsAssumption
  <2>2. IsFiniteSet(tool.todo)
    BY <1>2, <2>1, FS_Subset
  <2> QED BY <1>1, <1>2, <2>1, <2>2, MinIs
<1> DEFINE todo == tool.todo \ {p}
<1>4. todo \in SUBSET Products
  BY <1>2
<1> DEFINE asked == UNION {Priced(q) : q \in tool.of \ tool.todo}
           more == UNION {Priced(q) : q \in tool.of \ todo}
<1>5. asked \in SUBSET Offers /\ \A x \in asked : quotes[x].effective # Unpriced
  BY DEF Priced, OffersOf
<1>6. tool.todo \subseteq tool.of => more = asked \cup Priced(p)
  BY <1>3
<1>7. \A q : Priced(q)' = Priced(q)
  BY <1>1 DEF Priced, OffersOf
<1>8. PricesAgree' = PricesAgree
  BY <1>1 DEF PricesAgree
<1>9. \/ Priced(p) = {} /\ tool' = [tool EXCEPT !.todo = todo]
      \/ \E o \in BestOffers(p) :
            tool' = [tool EXCEPT
                !.todo = todo,
                !.best = IF Cheaper(quotes[o].uah, tool.best)
                         THEN [offer |-> o, uah |-> quotes[o].uah] ELSE tool.best]
  BY DEF AskMember
<1> HIDE DEF p, todo
<1>10. ASSUME tool' \in Calls, tool'.todo = todo, tool'.of = tool.of, tool'.quiet = tool.quiet,
              tool'.phase = "asking",
              tool.todo \subseteq tool.of /\ PricesAgree /\ tool.quiet /\ Cardinality(tool.of) <= MaxMembers =>
                 /\ tool'.best = NoOffer <=> asked \cup Priced(p) = {}
                 /\ tool'.best # NoOffer =>
                       /\ tool'.best.offer \in asked \cup Priced(p)
                       /\ \A x \in asked \cup Priced(p) : tool'.best.uah <= quotes[x].uah
       PROVE  ToolsTypeOK' /\ QuietCall'
  <2>1. ToolsTypeOK'
    BY <1>1, <1>10 DEF ToolsTypeOK
  <2>2. QuietCall'
    <3> SUFFICES ASSUME tool.quiet, Cardinality(tool.of) <= MaxMembers
                 PROVE  /\ todo \subseteq tool.of
                        /\ PricesAgree =>
                              /\ tool'.best = NoOffer <=> more = {}
                              /\ tool'.best # NoOffer =>
                                    /\ tool'.best.offer \in more
                                    /\ \A x \in more : tool'.best.uah <= quotes[x].uah
      BY <1>1, <1>7, <1>8, <1>10 DEF QuietCall
    <3>1. tool.todo \subseteq tool.of
      BY <1>1 DEF QuietCall
    <3> QED BY <1>6, <1>10, <3>1 DEF todo
  <2> QED BY <2>1, <2>2
<1>11. CASE Priced(p) = {} /\ tool' = [tool EXCEPT !.todo = todo]
  <2>1. /\ tool' \in Calls /\ tool'.todo = todo /\ tool'.of = tool.of /\ tool'.quiet = tool.quiet
        /\ tool'.phase = "asking" /\ tool'.best = tool.best
    BY <1>1, <1>4, <1>11 DEF Calls
  <2> QED BY <1>1, <1>10, <1>11, <2>1 DEF QuietCall
<1>12. ASSUME NEW o \in BestOffers(p),
              tool' = [tool EXCEPT
                !.todo = todo,
                !.best = IF Cheaper(quotes[o].uah, tool.best)
                         THEN [offer |-> o, uah |-> quotes[o].uah] ELSE tool.best]
       PROVE  ToolsTypeOK' /\ QuietCall'
  <2> DEFINE best == IF Cheaper(quotes[o].uah, tool.best)
                     THEN [offer |-> o, uah |-> quotes[o].uah] ELSE tool.best
  <2>1. o \in Offers /\ quotes[o].uah \in Int \cup {Unpriced}
    BY QuotesAre DEF BestOffers, Priced, OffersOf
  <2>2. best \in [offer : Offers, uah : Int] \cup {NoOffer}
    BY <1>2, <2>1 DEF Cheaper
  <2>3. tool' = [tool EXCEPT !.todo = todo, !.best = best]
    BY <1>12
  <2>4. ASSUME tool.todo \subseteq tool.of, PricesAgree, tool.quiet, Cardinality(tool.of) <= MaxMembers
        PROVE  /\ best # NoOffer /\ best.offer \in asked \cup Priced(p)
               /\ \A x \in asked \cup Priced(p) : best.uah <= quotes[x].uah
    <3>1. /\ tool.best = NoOffer <=> asked = {}
          /\ tool.best # NoOffer =>
                tool.best.offer \in asked /\ \A x \in asked : tool.best.uah <= quotes[x].uah
      BY <1>1, <2>4 DEF QuietCall
    <3> HIDE DEF asked
    <3> QED BY <1>2, <1>3, <1>5, <2>4, <3>1, BestOfMore
  <2> HIDE DEF best
  <2>5. /\ tool' \in Calls /\ tool'.todo = todo /\ tool'.of = tool.of /\ tool'.quiet = tool.quiet
        /\ tool'.phase = "asking" /\ tool'.best = best
    BY <1>1, <1>4, <2>2, <2>3 DEF Calls
  <2> HIDE DEF asked
  <2>6. o \in Priced(p)
    BY DEF BestOffers
  <2> QED BY <1>10, <2>4, <2>5, <2>6
<1> QED BY <1>9, <1>11, <1>12

LEMMA CallsHold == Spec => [](ToolsTypeOK /\ QuietCall)
<1> DEFINE Inv == ToolsTypeOK /\ QuietCall
<1>1. Init => Inv
  <2> SUFFICES ASSUME Init PROVE Inv
    OBVIOUS
  <2>1. canonicalOf \in [Products -> Canonicals \cup {NotLinked, NotCatalogued}]
    BY DEF Init
  <2>2. quotes \in [Offers -> Quotes]
    BY ToolsAssumption DEF Init
  <2> QED BY <2>1, <2>2 DEF Init, ToolsTypeOK, QuietCall
<1>2. Inv /\ [Next]_vars => Inv'
  <2> SUFFICES ASSUME Inv, [Next]_vars PROVE Inv'
    OBVIOUS
  <2>0. NotCalled.phase = "not called"
    BY DEF NotCalled
  <2>1. CASE UNCHANGED toolVars
    BY <2>1 DEF toolVars, ToolsTypeOK, QuietCall, PricesAgree, Priced, OffersOf
  <2>2. ASSUME NEW c \in Canonicals, AskBestPrice(c)
        PROVE  Inv'
    <3> DEFINE k == Called("hit", c, {})
    <3>1. k \in Calls /\ k.phase = "hit"
      BY DEF Called, Calls, Members
    <3>2. tool' = k /\ UNCHANGED <<canonicalOf, quotes>>
      BY <2>2 DEF AskBestPrice
    <3> HIDE DEF k
    <3> QED BY <3>1, <3>2 DEF ToolsTypeOK, QuietCall
  <2>3. ASSUME NEW c \in Canonicals, AskBestOfferForCanonical(c)
        PROVE  Inv'
    <3> DEFINE k == Called("asking", c, ListMembers(c))
    <3>1. /\ k \in Calls /\ k.phase = "asking" /\ k.todo = ListMembers(c) /\ k.of = Members(c)
          /\ k.best = NoOffer /\ ListMembers(c) \subseteq Members(c)
      BY DEF Called, Calls, ListMembers, Members
    <3>2. tool' = k /\ UNCHANGED <<canonicalOf, quotes>>
      BY <2>3 DEF AskBestOfferForCanonical
    <3> HIDE DEF k
    <3>3. Cardinality(k.of) <= MaxMembers => k.of \ k.todo = {}
      BY <3>1, ListsAll
    <3> QED BY <3>1, <3>2, <3>3 DEF ToolsTypeOK, QuietCall
  <2>4. CASE AskMember
    <3>1. tool # NotCalled
      BY <2>0, <2>4 DEF AskMember
    <3> QED BY <2>4, <3>1, AskKeeps
  <2>5. CASE AnswerTool
    <3>1. /\ tool \in Calls /\ tool.phase = "asking" /\ tool.todo = {} /\ tool # NotCalled
          /\ tool' = [tool EXCEPT !.phase = "answered"] /\ UNCHANGED <<canonicalOf, quotes>>
      BY <2>0, <2>5 DEF AnswerTool, ToolsTypeOK
    <3>2. /\ tool' \in Calls /\ tool'.phase = "answered" /\ tool'.todo = {} /\ tool'.best = tool.best
          /\ tool'.of = tool.of /\ tool'.quiet = tool.quiet
      BY <3>1 DEF Calls
    <3>3. (\A q : Priced(q)' = Priced(q)) /\ PricesAgree' = PricesAgree
      BY <3>1 DEF Priced, OffersOf, PricesAgree
    <3>4. QuietCall'
      BY <3>1, <3>2, <3>3 DEF QuietCall
    <3> QED BY <3>1, <3>2, <3>4 DEF ToolsTypeOK
  <2>6. ASSUME tool' = [tool EXCEPT !.quiet = FALSE], tool.phase \in {"hit", "asking"},
               canonicalOf' \in [Products -> Canonicals \cup {NotLinked, NotCatalogued}],
               quotes' \in [Offers -> Quotes]
        PROVE  Inv'
    <3>1. tool \in Calls
      BY <2>0, <2>6 DEF ToolsTypeOK
    <3>2. tool' \in Calls /\ tool'.quiet = FALSE
      BY <2>6, <3>1 DEF Calls
    <3> QED BY <2>6, <3>2 DEF ToolsTypeOK, QuietCall
  <2>7. ASSUME NEW p \in Products, NEW c \in Canonicals \cup {NotLinked}, Relink(p, c)
        PROVE  Inv'
    BY <2>6, <2>7 DEF Relink, Disturb, ToolsTypeOK
  <2>8. ASSUME NEW o \in Offers, NEW quote \in Quotes, Requote(o, quote)
        PROVE  Inv'
    BY <2>6, <2>8 DEF Requote, Disturb, ToolsTypeOK
  <2>9. Walk \/ Statistics \/ Search \/ UNCHANGED vars => UNCHANGED toolVars
    BY DEF Walk, Statistics, Search, vars, toolVars
  <2> QED BY <2>1, <2>2, <2>3, <2>4, <2>5, <2>7, <2>8, <2>9 DEF Next, Tool
<1> QED BY <1>1, <1>2, PTL DEF Spec

\* If neither the catalog nor a price changes during the call, the tool's answer is the
\* cheapest offer of all the canonical's members, and there is one if any is priced: asked one
\* by one and compared, as long as terms order offers as prices do and one page lists them.
THEOREM QuietIsCheapest == Spec => []CheapestWhenQuiet
<1>1. QuietCall => CheapestWhenQuiet
  <2> SUFFICES ASSUME QuietCall, tool # NotCalled, tool.phase = "answered", tool.quiet, PricesAgree,
                      Cardinality(tool.of) <= MaxMembers
               PROVE  LET priced == UNION {Priced(p) : p \in tool.of}
                      IN  /\ tool.best = NoOffer <=> priced = {}
                          /\ tool.best # NoOffer =>
                                /\ tool.best.offer \in priced
                                /\ \A o \in priced : tool.best.uah <= quotes[o].uah
    BY DEF CheapestWhenQuiet
  <2>1. tool.todo = {} /\ tool.of \ tool.todo = tool.of
    BY DEF QuietCall
  <2> QED BY <2>1 DEF QuietCall
<1> QED BY <1>1, CallsHold, PTL

-----------------------------------------------------------------------------
(* Rank fusion.                                                             *)

\* The rankings of a search so far.
Retrieved(rankings) ==
    Len(rankings) \in 0..3 /\ \E pool \in Pools : rankings \in Seq(Rankings(pool))

\* In a list without repetition everything has one place.
LEMMA PlaceIs ==
  ASSUME NEW S, NEW s \in Seq(S), IsInjective(s)
  PROVE  /\ DOMAIN s = 1..Len(s) /\ Len(s) \in Nat
         /\ \A d \in ToSet(s) : d \in S /\ Place(s, d) \in 1..Len(s) /\ s[Place(s, d)] = d
         /\ \A n \in 1..Len(s) : s[n] \in ToSet(s) /\ Place(s, s[n]) = n
<1>1. DOMAIN s = 1..Len(s) /\ Len(s) \in Nat
  OBVIOUS
<1>2. ASSUME NEW d \in ToSet(s)
      PROVE  d \in S /\ Place(s, d) \in 1..Len(s) /\ s[Place(s, d)] = d
  <2>1. \E n \in DOMAIN s : s[n] = d
    BY DEF ToSet
  <2>2. Place(s, d) \in DOMAIN s /\ s[Place(s, d)] = d
    BY <2>1 DEF Place
  <2> QED BY <1>1, <2>2
<1>3. ASSUME NEW n \in 1..Len(s)
      PROVE  s[n] \in ToSet(s) /\ Place(s, s[n]) = n
  <2>1. s[n] \in ToSet(s)
    BY <1>1 DEF ToSet
  <2>2. Place(s, s[n]) \in DOMAIN s /\ s[Place(s, s[n])] = s[n]
    BY <1>1, <1>2, <2>1
  <2> QED BY <1>1, <2>1, <2>2 DEF IsInjective
<1> QED BY <1>1, <1>2, <1>3

LEMMA RankingIs ==
  ASSUME NEW pool, NEW r \in Rankings(pool)
  PROVE  r \in Seq(Documents) /\ IsInjective(r)
<1>1. PICK n \in 0..Cardinality(Documents) : r \in [1..n -> Documents]
  BY DEF Rankings, AllRankings
<1>2. Cardinality(Documents) \in Nat
  BY HybridAssumption, FS_CardinalityType
<1>3. n \in Nat
  BY <1>1, <1>2
<1>4. IsInjective(r)
  BY DEF Rankings, AllRankings
<1> QED BY <1>1, <1>3, <1>4

LEMMA RetrievedIs ==
  ASSUME NEW r, Retrieved(r)
  PROVE  /\ DOMAIN r \subseteq {1, 2, 3} /\ DOMAIN r = 1..Len(r)
         /\ \A i \in DOMAIN r : r[i] \in Seq(Documents) /\ IsInjective(r[i])
         /\ Found(r) \subseteq Documents /\ IsFiniteSet(Found(r))
<1>1. PICK pool \in Pools : r \in Seq(Rankings(pool))
  BY DEF Retrieved
<1>2. DOMAIN r = 1..Len(r) /\ Len(r) \in 0..3
  BY <1>1 DEF Retrieved
<1>3. \A i \in DOMAIN r : r[i] \in Rankings(pool)
  BY <1>1
<1>4. \A i \in DOMAIN r : r[i] \in Seq(Documents) /\ IsInjective(r[i])
  BY <1>3, RankingIs
<1>5. \A i \in DOMAIN r : ToSet(r[i]) \subseteq Documents
  BY <1>4, PlaceIs
<1>6. Found(r) \subseteq Documents
  BY <1>5 DEF Found
<1> QED BY <1>2, <1>4, <1>6, HybridAssumption, FS_Subset

\* A better place gives no smaller share.
LEMMA DivFalls ==
  ASSUME NEW u \in Nat, NEW m \in Nat, NEW n \in Nat, m <= n
  PROVE  u \div (RrfK + m) \in Nat /\ u \div (RrfK + n) <= u \div (RrfK + m)
<1>1. ASSUME NEW a \in Nat \ {0}, NEW b \in Nat \ {0}, a <= b
      PROVE  u \div a \in Nat /\ u \div b <= u \div a
  BY <1>1
<1>2. RrfK + m \in Nat \ {0} /\ RrfK + n \in Nat \ {0} /\ RrfK + m <= RrfK + n
  BY DEF RrfK
<1> QED BY <1>1, <1>2

LEMMA ScoreIs ==
  ASSUME NEW r, Retrieved(r), NEW d
  PROVE  /\ \A i \in {1, 2, 3} : Share(r, i, d) \in Nat
         /\ Score(r, d) \in Nat
<1>1. ASSUME NEW i \in {1, 2, 3}
      PROVE  Share(r, i, d) \in Nat
  <2>1. CASE i \in DOMAIN r /\ d \in ToSet(r[i])
    <3>1. Place(r[i], d) \in Nat
      BY <2>1, RetrievedIs, PlaceIs
    <3> QED BY <2>1, <3>1, DivFalls, HybridAssumption DEF Share
  <2>2. CASE ~(i \in DOMAIN r /\ d \in ToSet(r[i]))
    BY <2>2 DEF Share
  <2> QED BY <2>1, <2>2
<1>2. Share(r, 1, d) \in Nat /\ Share(r, 2, d) \in Nat /\ Share(r, 3, d) \in Nat
  BY <1>1
<1> QED BY <1>1, <1>2 DEF Score

\* The first retriever that brings a document.
LEMMA FirstWithIs ==
  ASSUME NEW r, Retrieved(r), NEW d \in Found(r)
  PROVE  LET i == FirstWith(r, d)
         IN  /\ i \in DOMAIN r /\ i \in Nat /\ d \in ToSet(r[i])
             /\ Place(r[i], d) \in Nat /\ r[i][Place(r[i], d)] = d
             /\ \A j \in DOMAIN r : d \in ToSet(r[j]) => i <= j
<1> DEFINE B == {i \in DOMAIN r : d \in ToSet(r[i])}
<1>1. B # {} /\ B \subseteq {1, 2, 3}
  BY RetrievedIs DEF Found
<1>2. IsFiniteSet(B)
  <2> DEFINE last == 3
             T == 1..last
  <2>1. IsFiniteSet(T)
    <3>1. 1 \in Int /\ last \in Int
      OBVIOUS
    <3> HIDE DEF last
    <3> QED BY <3>1, FS_Interval
  <2>2. \A i \in {1, 2, 3} : i \in T
    OBVIOUS
  <2> HIDE DEF B, T
  <2>3. B \in SUBSET T
    BY <1>1, <2>2
  <2> QED BY <2>1, <2>3, FS_Subset
<1>3. FirstWith(r, d) = Min(B)
  BY DEF FirstWith
<1> HIDE DEF B
<1>4. Min(B) \in B /\ \A k \in B : Min(B) <= k
  <2>1. B \subseteq Int
    BY <1>1
  <2> QED BY <1>1, <1>2, <2>1, MinIs
<1>5. /\ Min(B) \in DOMAIN r /\ Min(B) \in Nat /\ d \in ToSet(r[Min(B)])
      /\ \A j \in DOMAIN r : d \in ToSet(r[j]) => Min(B) <= j
  BY <1>1, <1>4 DEF B
<1>6. Place(r[Min(B)], d) \in Nat /\ r[Min(B)][Place(r[Min(B)], d)] = d
  BY <1>5, RetrievedIs, PlaceIs
<1> QED BY <1>3, <1>5, <1>6

\* What is found is put in a linear order.
LEMMA RanksBeforeIs ==
  ASSUME NEW r, Retrieved(r), NEW d \in Found(r), NEW e \in Found(r)
  PROVE  /\ ~RanksBefore(r, d, d)
         /\ RanksBefore(r, d, e) \/ RanksBefore(r, e, d) \/ d = e
         /\ \A f \in Found(r) : RanksBefore(r, d, e) /\ RanksBefore(r, e, f) => RanksBefore(r, d, f)
<1> DEFINE s(x) == Score(r, x)
           i(x) == FirstWith(r, x)
           p(x) == Place(r[i(x)], x)
<1>1. \A x, y : RanksBefore(r, x, y) <=>
         s(x) > s(y) \/ (s(x) = s(y) /\ (i(x) < i(y) \/ (i(x) = i(y) /\ p(x) < p(y))))
  BY DEF RanksBefore, SeenBefore
<1>2. \A x \in Found(r) : s(x) \in Nat /\ i(x) \in Nat /\ p(x) \in Nat /\ r[i(x)][p(x)] = x
  BY ScoreIs, FirstWithIs
<1>3. i(d) = i(e) /\ p(d) = p(e) => d = e
  BY <1>2
<1> HIDE DEF s, i, p
<1>4. RanksBefore(r, d, e) \/ RanksBefore(r, e, d) \/ d = e
  BY <1>1, <1>2, <1>3
<1>5. ~RanksBefore(r, d, d)
  BY <1>1, <1>2
<1>6. ASSUME NEW f \in Found(r), RanksBefore(r, d, e), RanksBefore(r, e, f)
      PROVE  RanksBefore(r, d, f)
  BY <1>1, <1>2, <1>6
<1> QED BY <1>4, <1>5, <1>6

\* Fusion gives what is found, each document once and in that order.
LEMMA FuseIs ==
  ASSUME NEW r, Retrieved(r)
  PROVE  /\ Fuse(r) \in Seq(Found(r)) /\ IsInjective(Fuse(r)) /\ ToSet(Fuse(r)) = Found(r)
         /\ Len(Fuse(r)) = Cardinality(Found(r))
         /\ \A d, e \in Found(r) : RanksBefore(r, d, e) => Place(Fuse(r), d) < Place(Fuse(r), e)
<1> DEFINE F == Found(r)
           N == Cardinality(F)
           ahead(d) == {e \in F : RanksBefore(r, e, d)}
           rank == [d \in F |-> Cardinality(ahead(d))]
           s == Fuse(r)
<1>1. IsFiniteSet(F) /\ N \in Nat
  BY RetrievedIs, FS_CardinalityType
<1>2. ASSUME NEW d \in F
      PROVE  IsFiniteSet(ahead(d)) /\ rank[d] \in 0..(N - 1)
  <2>1. ahead(d) \in SUBSET (F \ {d})
    BY RanksBeforeIs
  <2>2. IsFiniteSet(F \ {d}) /\ Cardinality(F \ {d}) = N - 1
    BY <1>1, FS_RemoveElement
  <2> HIDE DEF F, N, ahead
  <2>3. IsFiniteSet(ahead(d)) /\ Cardinality(ahead(d)) <= N - 1 /\ Cardinality(ahead(d)) \in Nat
    BY <2>1, <2>2, FS_Subset, FS_CardinalityType
  <2> QED BY <1>1, <2>3
<1>20. \A d \in F : rank[d] \in Nat /\ rank[d] + 1 \in 1..N
  <2> SUFFICES ASSUME NEW d \in F PROVE rank[d] \in Nat /\ rank[d] + 1 \in 1..N
    OBVIOUS
  <2>1. rank[d] \in 0..(N - 1)
    BY <1>2
  <2> HIDE DEF rank, F, N
  <2> QED BY <1>1, <2>1
<1>21. \A d \in F : rank[d] = Cardinality(ahead(d))
  OBVIOUS
<1>3. ASSUME NEW d \in F, NEW e \in F, RanksBefore(r, d, e)
      PROVE  rank[d] < rank[e]
  <2>1. ahead(d) \in SUBSET ahead(e) /\ d \in ahead(e) /\ d \notin ahead(d)
    BY <1>3, RanksBeforeIs
  <2>2. IsFiniteSet(ahead(e)) /\ rank[d] \in Nat /\ rank[e] \in Nat
    <3> HIDE DEF rank, ahead
    <3> QED BY <1>2, <1>20
  <2>3. rank[d] = Cardinality(ahead(d)) /\ rank[e] = Cardinality(ahead(e))
    OBVIOUS
  <2> HIDE DEF ahead, rank
  <2>4. Cardinality(ahead(d)) <= Cardinality(ahead(e)) /\ Cardinality(ahead(d)) # Cardinality(ahead(e))
    BY <2>1, <2>2, FS_Subset
  <2> QED BY <2>2, <2>3, <2>4
<1>4. ASSUME NEW d \in F, NEW e \in F, rank[d] = rank[e]
      PROVE  d = e
  <2>1. rank[d] \in Nat /\ rank[e] \in Nat
    <3> HIDE DEF rank
    <3> QED BY <1>20
  <2>2. ~RanksBefore(r, d, e) /\ ~RanksBefore(r, e, d)
    <3> HIDE DEF rank
    <3> QED BY <1>3, <1>4, <2>1
  <2> QED BY <2>2, RanksBeforeIs
<1>5. rank \in Surjection(F, 0..(N - 1))
  <2>1. rank \in [F -> 0..(N - 1)]
    BY <1>2
  <2>2. rank \in Injection(F, 0..(N - 1))
    <3> HIDE DEF rank, F, N
    <3> QED BY <1>4, <2>1 DEF Injection, IsInjective
  <2>3. IsFiniteSet(0..(N - 1)) /\ Cardinality(0..(N - 1)) = N
    <3>1. N - 1 \in Int /\ (0 > N - 1 => N = 0) /\ (N - 1) - 0 + 1 = N
      BY <1>1
    <3> HIDE DEF N
    <3> QED BY <3>1, FS_Interval
  <2> HIDE DEF rank
  <2> QED BY <2>2, <2>3, FS_Injection
<1>6. ASSUME NEW n \in 1..N
      PROVE  s[n] \in F /\ rank[s[n]] = n - 1
  <2>1. s[n] = CHOOSE d \in F : Cardinality(ahead(d)) = n - 1
    BY DEF Fuse
  <2>2. n - 1 \in 0..(N - 1)
    BY <1>1
  <2>3. \E d \in F : rank[d] = n - 1
    <3> HIDE DEF rank, F, N
    <3> QED BY <1>5, <2>2 DEF Surjection
  <2>4. \E d \in F : Cardinality(ahead(d)) = n - 1
    BY <2>3
  <2> HIDE DEF ahead, s, F, rank
  <2>5. s[n] \in F /\ Cardinality(ahead(s[n])) = n - 1
    BY <2>1, <2>4
  <2> HIDE DEF ahead
  <2>6. rank[s[n]] = Cardinality(ahead(s[n]))
    BY <1>21, <2>5
  <2> QED BY <2>5, <2>6
<1>7. s \in [1..N -> F]
  <2> DEFINE pick(n) == CHOOSE d \in F : Cardinality(ahead(d)) = n - 1
  <2>1. s = [n \in 1..N |-> pick(n)]
    BY DEF Fuse
  <2> HIDE DEF pick, s, F, N, rank
  <2> QED BY <1>6, <2>1
<1>8. s \in Seq(F) /\ Len(s) = N /\ DOMAIN s = 1..N
  <2> HIDE DEF s, F, N, rank
  <2> QED BY <1>1, <1>7
<1>9. IsInjective(s)
  <2> HIDE DEF s, F, N, rank
  <2> SUFFICES ASSUME NEW m \in 1..N, NEW n \in 1..N, s[m] = s[n] PROVE m = n
    BY <1>8 DEF IsInjective
  <2>1. m - 1 = n - 1
    BY <1>6
  <2> QED BY <1>1, <2>1
<1>10. ASSUME NEW d \in F
       PROVE  rank[d] + 1 \in 1..N /\ s[rank[d] + 1] = d /\ Place(s, d) = rank[d] + 1
  <2> HIDE DEF s, F, N, rank
  <2>1. rank[d] + 1 \in 1..N /\ (rank[d] + 1) - 1 = rank[d]
    BY <1>20
  <2>2. s[rank[d] + 1] \in F /\ rank[s[rank[d] + 1]] = rank[d]
    BY <1>6, <2>1
  <2>3. s[rank[d] + 1] = d
    BY <1>4, <2>2
  <2> QED BY <1>8, <1>9, <2>1, <2>3, PlaceIs
<1>11. ToSet(s) = F
  <2> HIDE DEF s, F, N, rank
  <2> QED BY <1>6, <1>8, <1>10 DEF ToSet
<1>12. ASSUME NEW d \in F, NEW e \in F, RanksBefore(r, d, e)
       PROVE  Place(s, d) < Place(s, e)
  <2> HIDE DEF s, rank
  <2>1. rank[d] < rank[e] /\ rank[d] \in Nat /\ rank[e] \in Nat
    BY <1>3, <1>12, <1>20
  <2> QED BY <1>10, <2>1
<1> QED BY <1>8, <1>9, <1>11, <1>12

\* The first of a list: what is at a place there is at the same place in the list.
LEMMA FirstIs ==
  ASSUME NEW S, NEW s \in Seq(S), IsInjective(s), NEW n \in Nat
  PROVE  LET t == First(s, n)
         IN  /\ t \in Seq(S) /\ IsInjective(t) /\ ToSet(t) \subseteq ToSet(s)
             /\ Len(t) = IF n <= Len(s) THEN n ELSE Len(s)
             /\ \A d \in ToSet(t) : Place(t, d) = Place(s, d)
             /\ \A d \in ToSet(s) : Place(s, d) <= Len(t) => d \in ToSet(t)
<1> DEFINE m == IF n <= Len(s) THEN n ELSE Len(s)
           t == First(s, n)
<1>1. Len(s) \in Nat /\ m \in Nat /\ m <= Len(s)
  OBVIOUS
<1>2. Min({n, Len(s)}) = m
  <2>1. \E x \in {n, Len(s)} : \A y \in {n, Len(s)} : x <= y
    BY <1>1
  <2>2. Min({n, Len(s)}) \in {n, Len(s)} /\ \A y \in {n, Len(s)} : Min({n, Len(s)}) <= y
    BY <2>1 DEF Min
  <2> QED BY <1>1, <2>2
<1>3. t = SubSeq(s, 1, m)
  BY <1>2 DEF First
<1> HIDE DEF t, m
<1>4. t \in Seq(S) /\ Len(t) = m /\ \A k \in 1..m : t[k] = s[k]
  <2>1. \A k \in 1..m : s[k] \in S
    BY <1>1
  <2> QED BY <1>1, <1>3, <2>1
<1>5. DOMAIN t = 1..m /\ 1..m \subseteq 1..Len(s) /\ DOMAIN s = 1..Len(s)
  BY <1>1, <1>4
<1>6. IsInjective(t)
  BY <1>4, <1>5 DEF IsInjective
<1>7. ASSUME NEW d \in ToSet(t)
      PROVE  d \in ToSet(s) /\ Place(t, d) = Place(s, d)
  <2>1. Place(t, d) \in 1..m /\ t[Place(t, d)] = d
    BY <1>4, <1>6, PlaceIs
  <2>2. s[Place(t, d)] = d /\ Place(t, d) \in 1..Len(s)
    BY <1>4, <1>5, <2>1
  <2> QED BY <2>2, PlaceIs
<1>8. ASSUME NEW d \in ToSet(s), Place(s, d) <= m
      PROVE  d \in ToSet(t)
  <2>1. Place(s, d) \in 1..Len(s) /\ s[Place(s, d)] = d
    BY PlaceIs
  <2>2. Place(s, d) \in 1..m
    BY <1>1, <1>8, <2>1
  <2>3. t[Place(s, d)] = d
    BY <1>4, <2>1, <2>2
  <2> QED BY <1>5, <2>2, <2>3 DEF ToSet
<1> QED BY <1>4, <1>6, <1>7, <1>8 DEF t, m

\* What the retrievers agree on is ranked so: no share of the better document is smaller, and
\* it is seen first.
LEMMA AgreedIsBefore ==
  ASSUME Retrieved(search.rankings), NEW d \in Found(search.rankings),
         NEW e \in Found(search.rankings), AgreedBefore(d, e)
  PROVE  RanksBefore(search.rankings, d, e)
<1> DEFINE r == search.rankings
<1>1. ASSUME NEW i \in DOMAIN r, e \in ToSet(r[i])
      PROVE  /\ d \in ToSet(r[i]) /\ Place(r[i], d) < Place(r[i], e)
             /\ Place(r[i], d) \in Nat /\ Place(r[i], e) \in Nat
  <2>1. d \in ToSet(r[i]) /\ Place(r[i], d) < Place(r[i], e)
    BY <1>1 DEF AgreedBefore
  <2>2. r[i] \in Seq(Documents) /\ IsInjective(r[i])
    BY RetrievedIs
  <2>3. Place(r[i], d) \in Nat /\ Place(r[i], e) \in Nat
    BY <1>1, <2>1, <2>2, PlaceIs
  <2> QED BY <2>1, <2>3
<1>2. ASSUME NEW i \in {1, 2, 3}
      PROVE  Share(r, i, e) <= Share(r, i, d)
  <2>1. CASE i \in DOMAIN r /\ e \in ToSet(r[i])
    <3>1. /\ Share(r, i, e) = Unit \div (RrfK + Place(r[i], e))
          /\ Share(r, i, d) = Unit \div (RrfK + Place(r[i], d))
      BY <1>1, <2>1 DEF Share
    <3>2. Place(r[i], d) <= Place(r[i], e)
      BY <1>1, <2>1
    <3> HIDE DEF r
    <3> QED BY <1>1, <2>1, <3>1, <3>2, DivFalls, HybridAssumption
  <2>2. CASE ~(i \in DOMAIN r /\ e \in ToSet(r[i]))
    <3>1. Share(r, i, e) = 0 /\ Share(r, i, d) \in Nat
      BY <2>2, ScoreIs DEF Share
    <3> QED BY <3>1
  <2> QED BY <2>1, <2>2
<1>3. Score(r, e) <= Score(r, d) /\ Score(r, e) \in Nat /\ Score(r, d) \in Nat
  <2>1. /\ Share(r, 1, e) <= Share(r, 1, d) /\ Share(r, 2, e) <= Share(r, 2, d)
        /\ Share(r, 3, e) <= Share(r, 3, d)
    BY <1>2
  <2>2. \A x \in {d, e} : Share(r, 1, x) \in Nat /\ Share(r, 2, x) \in Nat /\ Share(r, 3, x) \in Nat
    BY ScoreIs
  <2>3. Score(r, e) \in Nat /\ Score(r, d) \in Nat
    BY ScoreIs
  <2> QED BY <2>1, <2>2, <2>3 DEF Score
<1>4. SeenBefore(r, d, e)
  <2> DEFINE i == FirstWith(r, d)
             j == FirstWith(r, e)
  <2>1. i \in Nat /\ j \in DOMAIN r /\ j \in Nat /\ e \in ToSet(r[j])
        /\ \A k \in DOMAIN r : d \in ToSet(r[k]) => i <= k
    BY FirstWithIs
  <2>2. d \in ToSet(r[j]) /\ Place(r[j], d) < Place(r[j], e)
    BY <1>1, <2>1
  <2>3. i <= j
    BY <2>1, <2>2
  <2> HIDE DEF i, j
  <2>4. i < j \/ (i = j /\ Place(r[i], d) < Place(r[j], e))
    BY <2>1, <2>2, <2>3
  <2> QED BY <2>4 DEF SeenBefore, i, j
<1> QED BY <1>3, <1>4 DEF RanksBefore

\* The hits of an answer.
GoodHits(hits) ==
    LET found == Found(search.rankings)
    IN  /\ IsInjective(hits) /\ hits \in Seq(Documents)
        /\ ToSet(hits) \subseteq found
        /\ Len(hits) = Min({search.limit, search.pool, Cardinality(found)})
        /\ ~search.reranked => \A d \in found, e \in ToSet(hits) :
              d # e /\ AgreedBefore(d, e) =>
                  d \in ToSet(hits) /\ Place(hits, d) < Place(hits, e)

LEMMA LeastOfThree ==
  ASSUME NEW a \in Nat, NEW b \in Nat, NEW c \in Nat
  PROVE  LET m == IF b <= c THEN b ELSE c
         IN  Min({a, b, c}) = IF a <= m THEN a ELSE m
<1>1. \E x \in {a, b, c} : \A y \in {a, b, c} : x <= y
  OBVIOUS
<1>2. Min({a, b, c}) \in {a, b, c} /\ \A y \in {a, b, c} : Min({a, b, c}) <= y
  BY <1>1 DEF Min
<1> QED BY <1>2

LEMMA AnswerIsGood ==
  ASSUME Retrieved(search.rankings), search.pool \in Nat, search.limit \in Nat,
         NEW ranked \in Reranked(First(Fuse(search.rankings), search.pool))
  PROVE  GoodHits(First(ranked, search.limit))
<1> DEFINE r == search.rankings
           F == Found(r)
           N == Cardinality(F)
           s == Fuse(r)
           c == First(s, search.pool)
           h == First(ranked, search.limit)
<1>1. F \subseteq Documents /\ N \in Nat
  BY RetrievedIs, FS_CardinalityType
<1>2. /\ s \in Seq(F) /\ IsInjective(s) /\ ToSet(s) = F /\ Len(s) = N
      /\ \A d, e \in F : RanksBefore(r, d, e) => Place(s, d) < Place(s, e)
  BY FuseIs
<1> HIDE DEF F, N, s
<1>3. /\ c \in Seq(F) /\ IsInjective(c) /\ ToSet(c) \subseteq F
      /\ Len(c) = IF search.pool <= N THEN search.pool ELSE N
      /\ \A d \in ToSet(c) : Place(c, d) = Place(s, d)
      /\ \A d \in F : Place(s, d) <= Len(c) => d \in ToSet(c)
  BY <1>2, FirstIs
<1>4. ranked \in Seq(F) /\ IsInjective(ranked) /\ ToSet(ranked) \subseteq F /\ Len(ranked) = Len(c)
  <2>1. CASE search.reranked
    <3>1. ranked \in [DOMAIN c -> ToSet(c)] /\ IsInjective(ranked)
      BY <2>1 DEF Reranked, s
    <3> HIDE DEF c
    <3>2. DOMAIN c = 1..Len(c) /\ Len(c) \in Nat
      BY <1>3
    <3>3. ranked \in [1..Len(c) -> F]
      BY <1>3, <3>1, <3>2
    <3>4. ranked \in Seq(F) /\ Len(ranked) = Len(c)
      BY <3>2, <3>3
    <3> QED BY <3>1, <3>4, PlaceIs
  <2>2. CASE ~search.reranked
    <3>1. ranked = c
      BY <2>2 DEF Reranked, s
    <3> QED BY <1>3, <3>1
  <2> QED BY <2>1, <2>2
<1>5. ~search.reranked => ranked = c
  BY DEF Reranked, s
<1> HIDE DEF c
<1>6. /\ h \in Seq(F) /\ IsInjective(h) /\ ToSet(h) \subseteq ToSet(ranked)
      /\ Len(h) = IF search.limit <= Len(ranked) THEN search.limit ELSE Len(ranked)
      /\ \A d \in ToSet(h) : Place(h, d) = Place(ranked, d)
      /\ \A d \in ToSet(ranked) : Place(ranked, d) <= Len(h) => d \in ToSet(h)
  BY <1>4, FirstIs
<1> HIDE DEF h
<1>7. Len(h) = Min({search.limit, search.pool, N})
  BY <1>1, <1>3, <1>4, <1>6, LeastOfThree
<1>8. ASSUME ~search.reranked, NEW d \in F, NEW e \in ToSet(h), d # e, AgreedBefore(d, e)
      PROVE  d \in ToSet(h) /\ Place(h, d) < Place(h, e)
  <2>1. e \in ToSet(c) /\ e \in F /\ Place(h, e) = Place(s, e)
    BY <1>3, <1>5, <1>6, <1>8
  <2>2. Place(s, d) < Place(s, e)
    BY <1>2, <1>8, <2>1, AgreedIsBefore DEF F
  <2>3. Place(h, e) \in 1..Len(h) /\ Len(h) \in Nat /\ Len(c) \in Nat
    BY <1>3, <1>6, <1>8, PlaceIs
  <2>4. Place(s, d) \in Nat /\ Place(s, e) \in Nat
    <3>1. Place(s, d) \in 1..Len(s) /\ Place(s, e) \in 1..Len(s)
      BY <1>2, <2>1, PlaceIs
    <3> QED BY <3>1
  <2>5. Len(h) <= Len(c)
    BY <1>4, <1>6, <2>3
  <2>6. d \in ToSet(c) /\ Place(c, d) = Place(s, d)
    <3>1. Place(s, d) <= Len(c)
      BY <2>1, <2>2, <2>3, <2>4, <2>5
    <3> QED BY <1>3, <3>1
  <2>7. d \in ToSet(h)
    <3>1. Place(ranked, d) <= Len(h)
      BY <1>5, <1>8, <2>1, <2>2, <2>3, <2>4, <2>6
    <3> QED BY <1>5, <1>6, <1>8, <2>6, <3>1
  <2>8. Place(h, d) = Place(s, d)
    BY <1>5, <1>6, <1>8, <2>6, <2>7
  <2> QED BY <2>1, <2>2, <2>7, <2>8
<1>9. h \in Seq(Documents)
  <2>1. \A n \in DOMAIN h : h[n] \in Documents
    BY <1>1, <1>6
  <2> QED BY <1>6, <2>1
<1>10. ToSet(h) \subseteq F
  BY <1>4, <1>6
<1>11. GoodHits(h)
  BY <1>6, <1>7, <1>8, <1>9, <1>10 DEF GoodHits, F, N
<1> QED BY <1>11 DEF h

\* A search has asked no more retrievers than there are.
SearchInv ==
    /\ HybridTypeOK
    /\ search # NotSearching => Len(search.rankings) <= Retrievers

LEMMA SearchIs ==
  ASSUME SearchInv, search # NotSearching
  PROVE  \E pool \in Pools :
            /\ search \in Searches(pool) /\ search.pool = pool /\ pool \in Nat
            /\ search.limit \in Nat /\ Retrieved(search.rankings)
<1>1. PICK pool \in Pools : search \in Searches(pool)
  BY DEF SearchInv, HybridTypeOK
<1>2. /\ search.pool = pool /\ search.limit \in Sizes /\ search.rankings \in Seq(Rankings(pool))
      /\ search.sparse \in BOOLEAN
  BY <1>1 DEF Searches
<1>3. Len(search.rankings) \in 0..3
  <2>1. Len(search.rankings) \in Nat
    BY <1>2
  <2>2. Retrievers \in Nat /\ Retrievers <= 3
    BY DEF Retrievers
  <2>3. Len(search.rankings) <= Retrievers
    BY DEF SearchInv
  <2>4. \A n \in Nat, k \in Nat : n <= k /\ k <= 3 => n \in 0..3
    OBVIOUS
  <2> QED BY <2>1, <2>2, <2>3, <2>4, Zenon
<1> QED BY <1>1, <1>2, <1>3, HybridAssumption DEF Retrieved

LEMMA InitSearch == Init => SearchInv /\ FusionKeepsAgreement
BY DEF Init, SearchInv, HybridTypeOK, FusionKeepsAgreement

LEMMA NextSearch ==
  SearchInv /\ FusionKeepsAgreement /\ [Next]_vars => (SearchInv /\ FusionKeepsAgreement)'
<1> SUFFICES ASSUME SearchInv, FusionKeepsAgreement, [Next]_vars
             PROVE  (SearchInv /\ FusionKeepsAgreement)'
  OBVIOUS
<1>0. NotSearching.phase = "not searching"
  BY DEF NotSearching
<1>1. CASE UNCHANGED search
  BY <1>1 DEF SearchInv, HybridTypeOK, Retrievers, FusionKeepsAgreement, AgreedBefore
<1>2. ASSUME NEW limit \in Sizes, NEW pool \in Pools, NEW sparse \in BOOLEAN,
             NEW reranked \in BOOLEAN, AskHybrid(limit, pool, sparse, reranked)
      PROVE  (SearchInv /\ FusionKeepsAgreement)'
  <2> DEFINE s == [phase |-> "retrieving", limit |-> limit, pool |-> pool,
                   sparse |-> sparse, reranked |-> reranked, rankings |-> <<>>, hits |-> <<>>]
  <2>1. search' = s
    BY <1>2 DEF AskHybrid
  <2>2. s \in Searches(pool) /\ s.phase = "retrieving" /\ Len(s.rankings) = 0
    BY DEF Searches
  <2> HIDE DEF s
  <2>3. search' \in Searches(pool) /\ search'.phase = "retrieving" /\ Len(search'.rankings) = 0
    BY <2>1, <2>2
  <2> QED BY <2>3 DEF SearchInv, HybridTypeOK, Retrievers, FusionKeepsAgreement
<1>3. ASSUME NEW ranking \in AllRankings, Retrieve(ranking)
      PROVE  (SearchInv /\ FusionKeepsAgreement)'
  <2>1. search # NotSearching /\ search.phase = "retrieving"
    BY <1>0, <1>3 DEF Retrieve
  <2>2. PICK pool \in Pools : search \in Searches(pool) /\ search.pool = pool
    BY <2>1, SearchIs
  <2>3. search.rankings \in Seq(Rankings(pool)) /\ ranking \in Rankings(pool)
    BY <1>3, <2>2 DEF Searches, Retrieve
  <2> DEFINE rankings == Append(search.rankings, ranking)
  <2>4. rankings \in Seq(Rankings(pool)) /\ Len(rankings) = Len(search.rankings) + 1
    BY <2>3
  <2>5. search' = [search EXCEPT !.rankings = rankings]
    BY <1>3 DEF Retrieve
  <2> HIDE DEF rankings
  <2>6. /\ search' \in Searches(pool) /\ search'.phase = "retrieving"
        /\ search'.rankings = rankings /\ search'.sparse = search.sparse
    BY <2>1, <2>2, <2>4, <2>5 DEF Searches
  <2>7. Retrievers' = Retrievers /\ Retrievers \in Nat
    BY <2>6 DEF Retrievers
  <2>8. Len(search'.rankings) <= Retrievers'
    <3>1. Len(search.rankings) < Retrievers /\ Len(search.rankings) \in Nat
      BY <1>3, <2>3 DEF Retrieve
    <3> QED BY <2>4, <2>6, <2>7, <3>1
  <2> QED BY <2>6, <2>8 DEF SearchInv, HybridTypeOK, FusionKeepsAgreement
<1>4. CASE AnswerHybrid
  <2>1. search # NotSearching /\ search.phase = "retrieving"
    BY <1>0, <1>4 DEF AnswerHybrid
  <2>2. PICK pool \in Pools :
          /\ search \in Searches(pool) /\ search.pool = pool /\ pool \in Nat
          /\ search.limit \in Nat /\ Retrieved(search.rankings)
    BY <2>1, SearchIs
  <2>3. PICK ranked \in Reranked(First(Fuse(search.rankings), search.pool)) :
          search' = [search EXCEPT !.phase = "answered", !.hits = First(ranked, search.limit)]
    BY <1>4 DEF AnswerHybrid
  <2> DEFINE hits == First(ranked, search.limit)
  <2>4. GoodHits(hits)
    BY <2>2, AnswerIsGood
  <2>5. search' = [search EXCEPT !.phase = "answered", !.hits = hits]
    BY <2>3
  <2> HIDE DEF hits
  <2>6. /\ search' \in Searches(pool) /\ search'.hits = hits
        /\ search'.rankings = search.rankings /\ search'.sparse = search.sparse
        /\ search'.limit = search.limit /\ search'.pool = search.pool
        /\ search'.reranked = search.reranked
    BY <2>2, <2>4, <2>5 DEF Searches, GoodHits
  <2>7. SearchInv'
    BY <2>1, <2>6 DEF SearchInv, HybridTypeOK, Retrievers
  <2>8. \A d, e : AgreedBefore(d, e)' <=> AgreedBefore(d, e)
    BY <2>6 DEF AgreedBefore
  <2>9. FusionKeepsAgreement'
    BY <2>4, <2>6, <2>8 DEF GoodHits, FusionKeepsAgreement
  <2> QED BY <2>7, <2>9
<1>5. Walk \/ Statistics \/ Tool \/ UNCHANGED vars => UNCHANGED search
  BY DEF Walk, Statistics, Tool, vars
<1> QED BY <1>1, <1>2, <1>3, <1>4, <1>5 DEF Next, Search

\* A search, hybrid or over canonical products, gives as many documents as were found and asked for,
\* each once, and never turns round what its retrievers agree on (domain/fusion.py:
\* reciprocal_rank_fusion, api/routes.py: search_hybrid), for any documents, pools and limits; the
\* proof asks of the scores no more than that a better rank scores no less, as rounded ones do.
THEOREM FusionAgrees == Spec => []FusionKeepsAgreement
BY InitSearch, NextSearch, PTL DEF Spec

-----------------------------------------------------------------------------
\* What the four reads keep of where they are has its type: a walk's cursor is a key or an end, a
\* statistic's buckets have a last price or none, a search's rankings and hits repeat no document
\* (paging.py, price-history's repository.py, fusion.py, tools.py).
THEOREM ReadTypeCorrect == Spec => []ReadTypeOK
<1> DEFINE ReaderOK == reader \in {"walk", "stats", "search", "tool"}
<1>1. Init => ReaderOK
  BY DEF Init
<1>2. ReaderOK /\ [Next]_vars => ReaderOK'
  BY DEF Next, Walk, Statistics, Search, Tool, vars
<1>3. /\ rows \subseteq Keys /\ WalkInv
      /\ points \in SUBSET Moments /\ CountedAreThere
      /\ ToolsTypeOK /\ SearchInv /\ ReaderOK
      => ReadTypeOK
  BY DEF WalkInv, ListingTypeOK, CountedAreThere, PriceReadsTypeOK, SearchInv, ReadTypeOK
<1> QED BY <1>1, <1>2, <1>3, WalksHold, StatsHold, CallsHold, InitSearch, NextSearch, PTL DEF Spec
=============================================================================
