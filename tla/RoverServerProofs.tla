-------------------------- MODULE RoverServerProofs --------------------------
(***************************************************************************)
(* What the server's bookkeeping guarantees for every set of clients and   *)
(* of rovers.                                                              *)
(***************************************************************************)
EXTENDS RoverServer, FiniteSetTheorems, SequenceTheorems, WellFoundedInduction, TLAPS

USE ServerConstants

-----------------------------------------------------------------------------
(* Numbers and folds.                                                      *)

LEMMA Least ==
    ASSUME NEW T, T \subseteq Nat, T # {}
    PROVE  \E n \in T : \A m \in T : n <= m
<1> DEFINE LT == {p \in Nat \X Nat : p[1] < p[2]}
<1>1. IsWellFoundedOn(LT, Nat)
  BY NatLessThanWellFounded DEF OpToRel
<1> HIDE DEF LT
<1>2. PICK n \in T : \A m \in T : <<m, n>> \notin LT
  BY <1>1, WFMin
<1>3. \A m \in T : ~ (m < n)
  BY <1>2 DEF LT
<1>4. \A m \in T : n <= m
  BY <1>3
<1> QED BY <1>4

LEMMA MinOf ==
    ASSUME NEW S, S \subseteq Nat, S # {}
    PROVE  Min(S) \in S /\ \A m \in S : Min(S) <= m
BY Least DEF Min

LEMMA MaxOf ==
    ASSUME NEW n \in Nat, NEW S, S \subseteq 1..n, S # {}
    PROVE  Max(S) \in S /\ \A m \in S : m <= Max(S)
<1> DEFINE T == {d \in Nat : n - d \in S}
<1>0. T \subseteq Nat
  OBVIOUS
<1>1. PICK i \in S : i \in 1..n
  OBVIOUS
<1>2. n - i \in T
  <2>1. n - i \in Nat /\ n - (n - i) = i
    BY <1>1
  <2> QED BY <2>1
<1>3. PICK d \in T : \A m \in T : d <= m
  BY <1>0, <1>2, Least
<1>4. \A m \in S : n - m \in T /\ m \in 1..n
  <2> SUFFICES ASSUME NEW m \in S PROVE n - m \in T /\ m \in 1..n
    OBVIOUS
  <2>1. m \in 1..n
    OBVIOUS
  <2>2. n - m \in Nat /\ n - (n - m) = m
    BY <2>1
  <2> QED BY <2>1, <2>2
<1>5. n - d \in S /\ \A m \in S : n - d >= m
  BY <1>3, <1>4
<1> QED BY <1>5 DEF Max

\* A property of the states of a fold, step by step.
Chained(c, G, n) ==
    c[0] \in G[0] /\ \A k \in 1..n : c[k - 1] \in G[k - 1] => c[k] \in G[k]

LEMMA ChainInduction ==
    ASSUME NEW n \in Nat, NEW c, NEW G, Chained(c, G, n)
    PROVE  c[n] \in G[n]
<1>0. c[0] \in G[0] /\ \A k \in 1..n : c[k - 1] \in G[k - 1] => c[k] \in G[k]
  BY DEF Chained
<1> DEFINE T == {k \in 0..n : c[k] \notin G[k]}
<1> SUFFICES ASSUME T # {} PROVE FALSE
  OBVIOUS
<1>1. T \subseteq Nat
  OBVIOUS
<1>2. PICK k \in T : \A m \in T : k <= m
  BY <1>1, Least
<1>3. k \in 1..n /\ k - 1 \in 0..n /\ k - 1 \notin T
  BY <1>0, <1>2
<1> QED BY <1>0, <1>3

\* The function by which the community modules define a fold, here of the
\* function F of a state and an index, exists.
Folds(g, V, F, w, n) ==
    /\ g \in [SUBSET (1..n) -> V]
    /\ \A s \in SUBSET (1..n) :
          g[s] = IF s = {} THEN w ELSE F[<<g[s \ {Max(s)}], Max(s)>>]

LEMMA FoldExists ==
    ASSUME NEW V, NEW n \in Nat, NEW F, NEW w \in V,
           \A v \in V, i \in 1..n : F[<<v, i>>] \in V
    PROVE  \E g : Folds(g, V, F, w, n)
<1> DEFINE Fine(k) == \E g : Folds(g, V, F, w, k)
           T == {k \in 0..n : ~ Fine(k)}
<1>1. Fine(0)
  <2> DEFINE g == [s \in SUBSET (1..0) |-> w]
  <2>1. g \in [SUBSET (1..0) -> V] /\ \A s \in SUBSET (1..0) : s = {} /\ g[s] = w
    OBVIOUS
  <2>2. Folds(g, V, F, w, 0)
    BY <2>1 DEF Folds
  <2> QED BY <2>2
<1>2. ASSUME NEW k \in 1..n, Fine(k - 1)
      PROVE  Fine(k)
  <2>0. PICK g : Folds(g, V, F, w, k - 1)
    BY <1>2
  <2>1. /\ g \in [SUBSET (1..(k-1)) -> V]
        /\ \A s \in SUBSET (1..(k-1)) :
              g[s] = IF s = {} THEN w ELSE F[<<g[s \ {Max(s)}], Max(s)>>]
    BY <2>0 DEF Folds
  <2> DEFINE h == [s \in SUBSET (1..k) |->
                     IF k \in s THEN F[<<g[s \ {k}], k>>] ELSE g[s]]
  <2>2. ASSUME NEW s \in SUBSET (1..k), k \notin s
        PROVE  s \in SUBSET (1..(k-1)) /\ h[s] = g[s]
    <3>1. \A i \in s : i \in 1..k /\ i # k
      BY <2>2
    <3>2. \A i \in s : i \in 1..(k-1)
      BY <3>1
    <3> QED BY <2>2, <3>2
  <2>3. ASSUME NEW s \in SUBSET (1..k)
        PROVE  s \ {k} \in SUBSET (1..(k-1)) /\ h[s \ {k}] = g[s \ {k}]
    <3>1. s \ {k} \in SUBSET (1..k) /\ k \notin s \ {k}
      OBVIOUS
    <3> HIDE DEF h
    <3> QED BY <3>1, <2>2
  <2>4. h \in [SUBSET (1..k) -> V]
    <3> SUFFICES ASSUME NEW s \in SUBSET (1..k) PROVE h[s] \in V
      OBVIOUS
    <3>1. CASE k \in s
      <4>1. g[s \ {k}] \in V
        BY <2>1, <2>3
      <4>2. h[s] = F[<<g[s \ {k}], k>>]
        BY <3>1
      <4> QED BY <4>1, <4>2
    <3>2. CASE k \notin s
      <4> HIDE DEF h
      <4> QED BY <2>1, <3>2, <2>2
    <3> QED BY <3>1, <3>2
  <2>5. ASSUME NEW s \in SUBSET (1..k)
        PROVE  h[s] = IF s = {} THEN w ELSE F[<<h[s \ {Max(s)}], Max(s)>>]
    <3> HIDE DEF h
    <3>0. ASSUME s # {}
          PROVE  Max(s) \in s /\ Max(s) \in 1..k /\ \A m \in s : m <= Max(s)
      <4>1. k \in Nat /\ s \subseteq 1..k
        OBVIOUS
      <4>2. Max(s) \in s /\ \A m \in s : m <= Max(s)
        BY <3>0, <4>1, MaxOf
      <4> QED BY <4>1, <4>2
    <3>1. CASE k \in s
      <4>1. Max(s) \in 1..k /\ k <= Max(s)
        BY <3>0, <3>1
      <4>2. Max(s) = k
        BY <4>1
      <4>3. h[s] = F[<<g[s \ {k}], k>>]
        BY <3>1 DEF h
      <4> QED BY <4>2, <4>3, <3>1, <2>3
    <3>2. CASE k \notin s /\ s # {}
      <4>1. Max(s) \in s
        BY <3>2, <3>0
      <4>2. s \ {Max(s)} \in SUBSET (1..k) /\ k \notin s \ {Max(s)}
        BY <3>2
      <4>3. h[s] = g[s] /\ h[s \ {Max(s)}] = g[s \ {Max(s)}] /\ s \in SUBSET (1..(k-1))
        BY <4>2, <3>2, <2>2
      <4> QED BY <4>3, <2>1, <3>2
    <3>3. CASE s = {}
      <4>1. k \notin s
        BY <3>3
      <4>2. h[s] = g[s] /\ s \in SUBSET (1..(k-1))
        BY <4>1, <2>2
      <4> QED BY <4>2, <3>3, <2>1
    <3> QED BY <3>1, <3>2, <3>3
  <2> HIDE DEF h
  <2>6. Folds(h, V, F, w, k)
    BY <2>4, <2>5 DEF Folds
  <2> QED BY <2>6
<1> HIDE DEF Fine
<1>3. T = {}
  <2> SUFFICES ASSUME T # {} PROVE FALSE
    OBVIOUS
  <2>1. T \subseteq Nat
    OBVIOUS
  <2>2. PICK k \in T : \A m \in T : k <= m
    BY <2>1, Least
  <2>3. k \in 1..n /\ k - 1 \in 0..n /\ k - 1 \notin T
    BY <2>2, <1>1
  <2> QED BY <2>2, <2>3, <1>2
<1>4. Fine(n)
  BY <1>3
<1> QED BY <1>4 DEF Fine

\* The first so many numbers, as a fold goes through them.
LEMMA Segment ==
    ASSUME NEW n \in Nat, NEW k \in 1..n
    PROVE  /\ 1..k \in SUBSET (1..n) /\ 1..k # {}
           /\ Max(1..k) = k /\ (1..k) \ {k} = 1..(k-1)
<1>1. k \in Nat /\ k \in 1..k /\ 1..k \subseteq 1..k
  OBVIOUS
<1>2. Max(1..k) \in 1..k /\ \A m \in 1..k : m <= Max(1..k)
  BY <1>1, MaxOf
<1>3. Max(1..k) = k
  BY <1>1, <1>2
<1>4. (1..k) \ {k} = 1..(k-1)
  OBVIOUS
<1> QED BY <1>3, <1>4

\* A fold goes through the states c[0], c[1], ...: one lemma for each step
\* that is folded, as none can be stated of an operator.
LEMMA PlaceWaitingChain ==
    ASSUME NEW q, q \in Seq(Sockets), NEW w \in ServerState,
           \A v \in ServerState, x \in Sockets : PlaceWaiting(v, x) \in ServerState
    PROVE  \E c : /\ c[0] = w
                  /\ \A k \in 1..Len(q) : c[k] = PlaceWaiting(c[k - 1], q[k])
                  /\ FoldLeft(PlaceWaiting, w, q) = c[Len(q)]
<1> DEFINE n == Len(q)
           F == [p \in ServerState \X (1..n) |-> PlaceWaiting(p[1], q[p[2]])]
           Unfolds(it) == it = [s \in SUBSET DOMAIN q |->
                                  IF s = {} THEN w ELSE PlaceWaiting(it[s \ {Max(s)}], q[Max(s)])]
           it == CHOOSE it : Unfolds(it)
           c == [k \in 0..n |-> it[1..k]]
<1>0. n \in Nat /\ DOMAIN q = 1..n
  OBVIOUS
<1>1. \A v \in ServerState, i \in 1..n :
         F[<<v, i>>] = PlaceWaiting(v, q[i]) /\ F[<<v, i>>] \in ServerState
  OBVIOUS
<1> HIDE DEF F
<1>2. PICK g : Folds(g, ServerState, F, w, n)
  <2> HIDE DEF n
  <2> QED BY <1>0, <1>1, FoldExists
<1>3. Unfolds(g)
  <2>1. ASSUME NEW s \in SUBSET (1..n), s # {}
        PROVE  g[s] = PlaceWaiting(g[s \ {Max(s)}], q[Max(s)])
    <3>1. Max(s) \in 1..n /\ s \ {Max(s)} \in SUBSET (1..n)
      BY <1>0, <2>1, MaxOf
    <3> QED BY <1>1, <1>2, <2>1, <3>1 DEF Folds
  <2> QED BY <1>0, <1>2, <2>1 DEF Folds
<1>4. Unfolds(it)
  BY <1>3
<1>5. FoldLeft(PlaceWaiting, w, q) = it[DOMAIN q]
  BY DEF FoldLeft, MapThenFoldSet
<1> HIDE DEF it
<1>6. c[0] = w
  BY <1>0, <1>4
<1>7. ASSUME NEW k \in 1..n PROVE c[k] = PlaceWaiting(c[k - 1], q[k])
  <2>1. it[1..k] = PlaceWaiting(it[(1..k) \ {Max(1..k)}], q[Max(1..k)])
    BY <1>0, <1>4, Segment
  <2>2. it[1..k] = PlaceWaiting(it[1..(k-1)], q[k])
    BY <1>0, <2>1, Segment
  <2> QED BY <1>0, <2>2
<1>8. FoldLeft(PlaceWaiting, w, q) = c[n]
  BY <1>0, <1>5
<1> HIDE DEF c
<1> QED BY <1>6, <1>7, <1>8

LEMMA MoveFromChain ==
    ASSUME NEW r, NEW w \in ServerState, NEW q, q = w.assigned, q \in Seq(Assignment),
           \A v \in ServerState, x \in Assignment : MoveFrom(v, r, x) \in ServerState
    PROVE  \E c : /\ c[0] = w
                  /\ \A k \in 1..Len(q) : c[k] = MoveFrom(c[k - 1], r, q[k])
                  /\ ReassignFromRover(w, r) = c[Len(q)]
<1> DEFINE n == Len(q)
           F == [p \in ServerState \X (1..n) |-> MoveFrom(p[1], r, q[p[2]])]
           Unfolds(it) == it = [s \in SUBSET DOMAIN q |->
                                  IF s = {} THEN w ELSE MoveFrom(it[s \ {Max(s)}], r, q[Max(s)])]
           it == CHOOSE it : Unfolds(it)
           c == [k \in 0..n |-> it[1..k]]
<1>0. n \in Nat /\ DOMAIN q = 1..n
  OBVIOUS
<1>1. \A v \in ServerState, i \in 1..n :
         F[<<v, i>>] = MoveFrom(v, r, q[i]) /\ F[<<v, i>>] \in ServerState
  OBVIOUS
<1> HIDE DEF F
<1>2. PICK g : Folds(g, ServerState, F, w, n)
  <2> HIDE DEF n
  <2> QED BY <1>0, <1>1, FoldExists
<1>3. Unfolds(g)
  <2>1. ASSUME NEW s \in SUBSET (1..n), s # {}
        PROVE  g[s] = MoveFrom(g[s \ {Max(s)}], r, q[Max(s)])
    <3>1. Max(s) \in 1..n /\ s \ {Max(s)} \in SUBSET (1..n)
      BY <1>0, <2>1, MaxOf
    <3> QED BY <1>1, <1>2, <2>1, <3>1 DEF Folds
  <2> QED BY <1>0, <1>2, <2>1 DEF Folds
<1>4. Unfolds(it)
  BY <1>3
<1>5. ReassignFromRover(w, r) = it[DOMAIN q]
  BY DEF ReassignFromRover, FoldLeft, MapThenFoldSet
<1> HIDE DEF it
<1>6. c[0] = w
  BY <1>0, <1>4
<1>7. ASSUME NEW k \in 1..n PROVE c[k] = MoveFrom(c[k - 1], r, q[k])
  <2>1. it[1..k] = MoveFrom(it[(1..k) \ {Max(1..k)}], r, q[Max(1..k)])
    BY <1>0, <1>4, Segment
  <2>2. it[1..k] = MoveFrom(it[1..(k-1)], r, q[k])
    BY <1>0, <2>1, Segment
  <2> QED BY <1>0, <2>2
<1>8. ReassignFromRover(w, r) = c[n]
  BY <1>0, <1>5
<1> HIDE DEF c
<1> QED BY <1>6, <1>7, <1>8

LEMMA PutBackChain ==
    ASSUME NEW q, q \in Seq(Assignment), NEW w \in ServerState,
           \A v \in ServerState, x \in Assignment : PutBack(v, x) \in ServerState
    PROVE  \E c : /\ c[0] = w
                  /\ \A k \in 1..Len(q) : c[k] = PutBack(c[k - 1], q[k])
                  /\ FoldLeft(PutBack, w, q) = c[Len(q)]
<1> DEFINE n == Len(q)
           F == [p \in ServerState \X (1..n) |-> PutBack(p[1], q[p[2]])]
           Unfolds(it) == it = [s \in SUBSET DOMAIN q |->
                                  IF s = {} THEN w ELSE PutBack(it[s \ {Max(s)}], q[Max(s)])]
           it == CHOOSE it : Unfolds(it)
           c == [k \in 0..n |-> it[1..k]]
<1>0. n \in Nat /\ DOMAIN q = 1..n
  OBVIOUS
<1>1. \A v \in ServerState, i \in 1..n :
         F[<<v, i>>] = PutBack(v, q[i]) /\ F[<<v, i>>] \in ServerState
  OBVIOUS
<1> HIDE DEF F
<1>2. PICK g : Folds(g, ServerState, F, w, n)
  <2> HIDE DEF n
  <2> QED BY <1>0, <1>1, FoldExists
<1>3. Unfolds(g)
  <2>1. ASSUME NEW s \in SUBSET (1..n), s # {}
        PROVE  g[s] = PutBack(g[s \ {Max(s)}], q[Max(s)])
    <3>1. Max(s) \in 1..n /\ s \ {Max(s)} \in SUBSET (1..n)
      BY <1>0, <2>1, MaxOf
    <3> QED BY <1>1, <1>2, <2>1, <3>1 DEF Folds
  <2> QED BY <1>0, <1>2, <2>1 DEF Folds
<1>4. Unfolds(it)
  BY <1>3
<1>5. FoldLeft(PutBack, w, q) = it[DOMAIN q]
  BY DEF FoldLeft, MapThenFoldSet
<1> HIDE DEF it
<1>6. c[0] = w
  BY <1>0, <1>4
<1>7. ASSUME NEW k \in 1..n PROVE c[k] = PutBack(c[k - 1], q[k])
  <2>1. it[1..k] = PutBack(it[(1..k) \ {Max(1..k)}], q[Max(1..k)])
    BY <1>0, <1>4, Segment
  <2>2. it[1..k] = PutBack(it[1..(k-1)], q[k])
    BY <1>0, <2>1, Segment
  <2> QED BY <1>0, <2>2
<1>8. FoldLeft(PutBack, w, q) = c[n]
  BY <1>0, <1>5
<1> HIDE DEF c
<1> QED BY <1>6, <1>7, <1>8

LEMMA SwitchChain ==
    ASSUME NEW q, q \in Seq(Rovers), NEW r, NEW y, NEW w \in ServerState,
           \A v \in ServerState, x \in Rovers : ReleaseOther(v, x, r, y) \in ServerState
    PROVE  \E c : /\ c[0] = w
                  /\ \A k \in 1..Len(q) : c[k] = ReleaseOther(c[k - 1], q[k], r, y)
                  /\ SwitchTo(w, q, r, y) = c[Len(q)]
<1> DEFINE n == Len(q)
           F == [p \in ServerState \X (1..n) |-> ReleaseOther(p[1], q[p[2]], r, y)]
           Unfolds(it) == it = [s \in SUBSET DOMAIN q |->
                                  IF s = {} THEN w ELSE ReleaseOther(it[s \ {Max(s)}], q[Max(s)], r, y)]
           it == CHOOSE it : Unfolds(it)
           c == [k \in 0..n |-> it[1..k]]
<1>0. n \in Nat /\ DOMAIN q = 1..n
  OBVIOUS
<1>1. \A v \in ServerState, i \in 1..n :
         F[<<v, i>>] = ReleaseOther(v, q[i], r, y) /\ F[<<v, i>>] \in ServerState
  OBVIOUS
<1> HIDE DEF F
<1>2. PICK g : Folds(g, ServerState, F, w, n)
  <2> HIDE DEF n
  <2> QED BY <1>0, <1>1, FoldExists
<1>3. Unfolds(g)
  <2>1. ASSUME NEW s \in SUBSET (1..n), s # {}
        PROVE  g[s] = ReleaseOther(g[s \ {Max(s)}], q[Max(s)], r, y)
    <3>1. Max(s) \in 1..n /\ s \ {Max(s)} \in SUBSET (1..n)
      BY <1>0, <2>1, MaxOf
    <3> QED BY <1>1, <1>2, <2>1, <3>1 DEF Folds
  <2> QED BY <1>0, <1>2, <2>1 DEF Folds
<1>4. Unfolds(it)
  BY <1>3
<1>5. SwitchTo(w, q, r, y) = it[DOMAIN q]
  BY DEF SwitchTo, FoldLeft, MapThenFoldSet
<1> HIDE DEF it
<1>6. c[0] = w
  BY <1>0, <1>4
<1>7. ASSUME NEW k \in 1..n PROVE c[k] = ReleaseOther(c[k - 1], q[k], r, y)
  <2>1. it[1..k] = ReleaseOther(it[(1..k) \ {Max(1..k)}], q[Max(1..k)], r, y)
    BY <1>0, <1>4, Segment
  <2>2. it[1..k] = ReleaseOther(it[1..(k-1)], q[k], r, y)
    BY <1>0, <2>1, Segment
  <2> QED BY <1>0, <2>2
<1>8. SwitchTo(w, q, r, y) = c[n]
  BY <1>0, <1>5
<1> HIDE DEF c
<1> QED BY <1>6, <1>7, <1>8

LEMMA DisconnectedChain ==
    ASSUME NEW q, q \in Seq(Sockets), NEW w \in ServerState,
           \A v \in ServerState, x \in Sockets : Disconnected(v, x) \in ServerState
    PROVE  \E c : /\ c[0] = w
                  /\ \A k \in 1..Len(q) : c[k] = Disconnected(c[k - 1], q[k])
                  /\ FoldLeft(Disconnected, w, q) = c[Len(q)]
<1> DEFINE n == Len(q)
           F == [p \in ServerState \X (1..n) |-> Disconnected(p[1], q[p[2]])]
           Unfolds(it) == it = [s \in SUBSET DOMAIN q |->
                                  IF s = {} THEN w ELSE Disconnected(it[s \ {Max(s)}], q[Max(s)])]
           it == CHOOSE it : Unfolds(it)
           c == [k \in 0..n |-> it[1..k]]
<1>0. n \in Nat /\ DOMAIN q = 1..n
  OBVIOUS
<1>1. \A v \in ServerState, i \in 1..n :
         F[<<v, i>>] = Disconnected(v, q[i]) /\ F[<<v, i>>] \in ServerState
  OBVIOUS
<1> HIDE DEF F
<1>2. PICK g : Folds(g, ServerState, F, w, n)
  <2> HIDE DEF n
  <2> QED BY <1>0, <1>1, FoldExists
<1>3. Unfolds(g)
  <2>1. ASSUME NEW s \in SUBSET (1..n), s # {}
        PROVE  g[s] = Disconnected(g[s \ {Max(s)}], q[Max(s)])
    <3>1. Max(s) \in 1..n /\ s \ {Max(s)} \in SUBSET (1..n)
      BY <1>0, <2>1, MaxOf
    <3> QED BY <1>1, <1>2, <2>1, <3>1 DEF Folds
  <2> QED BY <1>0, <1>2, <2>1 DEF Folds
<1>4. Unfolds(it)
  BY <1>3
<1>5. FoldLeft(Disconnected, w, q) = it[DOMAIN q]
  BY DEF FoldLeft, MapThenFoldSet
<1> HIDE DEF it
<1>6. c[0] = w
  BY <1>0, <1>4
<1>7. ASSUME NEW k \in 1..n PROVE c[k] = Disconnected(c[k - 1], q[k])
  <2>1. it[1..k] = Disconnected(it[(1..k) \ {Max(1..k)}], q[Max(1..k)])
    BY <1>0, <1>4, Segment
  <2>2. it[1..k] = Disconnected(it[1..(k-1)], q[k])
    BY <1>0, <2>1, Segment
  <2> QED BY <1>0, <2>2
<1>8. FoldLeft(Disconnected, w, q) = c[n]
  BY <1>0, <1>5
<1> HIDE DEF c
<1> QED BY <1>6, <1>7, <1>8

-----------------------------------------------------------------------------
(* Sets and Maps.                                                          *)

LEMMA RemovedAt ==
    ASSUME NEW S, NEW q \in Seq(S), NEW i \in 1..Len(q), NEW d, d = RemoveAt(q, i)
    PROVE  /\ d \in Seq(S) /\ DOMAIN d = 1..(Len(q) - 1)
           /\ \A j \in DOMAIN d : d[j] = IF j < i THEN q[j] ELSE q[j + 1]
<1> DEFINE a == SubSeq(q, 1, i - 1)
           b == SubSeq(q, i + 1, Len(q))
<1>1. a \in Seq(S) /\ Len(a) = i - 1 /\ \A j \in 1..(i - 1) : a[j] = q[j]
  OBVIOUS
<1>2. b \in Seq(S) /\ Len(b) = Len(q) - i /\ \A j \in 1..(Len(q) - i) : b[j] = q[i + j]
  <2>1. i + 1 \in Int /\ Len(q) \in Int /\ \A j \in (i + 1)..Len(q) : q[j] \in S
    OBVIOUS
  <2>2. /\ b \in Seq(S) /\ Len(b) = IF i + 1 <= Len(q) THEN Len(q) - (i + 1) + 1 ELSE 0
        /\ \A j \in 1..(Len(q) - (i + 1) + 1) : b[j] = q[(i + 1) + j - 1]
    BY <2>1, SubSeqProperties
  <2> HIDE DEF b
  <2>3. \A j \in 1..(Len(q) - i) : j \in 1..(Len(q) - (i + 1) + 1) /\ (i + 1) + j - 1 = i + j
    OBVIOUS
  <2>4. Len(b) = Len(q) - i
    BY <2>2
  <2>5. ASSUME NEW j \in 1..(Len(q) - i) PROVE b[j] = q[i + j]
    BY <2>2, <2>3
  <2> QED BY <2>2, <2>4, <2>5
<1>3. d = a \o b
  BY DEF RemoveAt
<1> HIDE DEF a, b
<1>4. /\ d \in Seq(S) /\ Len(d) = Len(a) + Len(b)
      /\ \A j \in 1..(Len(a) + Len(b)) : d[j] = IF j <= Len(a) THEN a[j] ELSE b[j - Len(a)]
  <2>1. a \in Seq(S) /\ b \in Seq(S)
    BY <1>1, <1>2
  <2>2. /\ a \o b \in Seq(S) /\ Len(a \o b) = Len(a) + Len(b)
        /\ \A j \in 1..(Len(a) + Len(b)) :
              (a \o b)[j] = IF j <= Len(a) THEN a[j] ELSE b[j - Len(a)]
    BY <2>1, ConcatProperties, Zenon
  <2> QED BY <1>3, <2>2
<1>5. Len(d) = Len(q) - 1
  BY <1>1, <1>2, <1>4
<1>6. ASSUME NEW j \in 1..(Len(q) - 1)
      PROVE  d[j] = IF j < i THEN q[j] ELSE q[j + 1]
  <2>1. CASE j < i
    <3>1. j \in 1..(i - 1) /\ j \in 1..(Len(a) + Len(b)) /\ j <= Len(a)
      BY <1>1, <1>2, <2>1
    <3>2. d[j] = a[j] /\ a[j] = q[j]
      BY <1>1, <1>4, <3>1
    <3> QED BY <2>1, <3>2
  <2>2. CASE j >= i
    <3>1. j - (i - 1) \in 1..(Len(q) - i) /\ i + (j - (i - 1)) = j + 1
      BY <2>2
    <3>2. j \in 1..(Len(a) + Len(b)) /\ Len(a) = i - 1 /\ ~ (j <= Len(a))
      BY <1>1, <1>2, <2>2
    <3>3. d[j] = b[j - (i - 1)]
      BY <1>4, <3>2
    <3>4. b[j - (i - 1)] = q[i + (j - (i - 1))]
      BY <1>2, <3>1
    <3> QED BY <2>2, <3>1, <3>3, <3>4
  <2> QED BY <2>1, <2>2
<1> QED BY <1>4, <1>5, <1>6

\* d is q without its element at i.
LacksOne(d, q, i) ==
    /\ \A j \in DOMAIN d : \E k \in DOMAIN q : k # i /\ d[j] = q[k]
    /\ \A k \in DOMAIN q : k # i => \E j \in DOMAIN d : d[j] = q[k]
    /\ \A j, k \in DOMAIN d : \E m, n \in DOMAIN q :
          d[j] = q[m] /\ d[k] = q[n] /\ m # i /\ n # i /\ (m = n => j = k)

\* The element that is removed from a sequence is gone, and only that one.
LEMMA RangeWithout ==
    ASSUME NEW S, NEW q \in Seq(S), NEW i \in 1..Len(q), NEW d, d = RemoveAt(q, i)
    PROVE  d \in Seq(S) /\ LacksOne(d, q, i)
<1> DEFINE At(j) == IF j < i THEN j ELSE j + 1
<1>0. /\ d \in Seq(S) /\ DOMAIN d = 1..(Len(q) - 1)
      /\ \A j \in DOMAIN d : d[j] = IF j < i THEN q[j] ELSE q[j + 1]
  BY RemovedAt
<1>1. d \in Seq(S) /\ DOMAIN d = 1..(Len(q) - 1) /\ DOMAIN q = 1..Len(q)
  BY <1>0
<1>2. \A j \in DOMAIN d : d[j] = q[At(j)] /\ At(j) \in DOMAIN q /\ At(j) # i
  BY <1>0, <1>1
<1>3. \A j, k \in DOMAIN d : At(j) = At(k) => j = k
  BY <1>1
<1>4. ASSUME NEW k \in DOMAIN q, k # i
      PROVE  \E j \in DOMAIN d : d[j] = q[k]
  <2>1. CASE k < i
    <3>1. k \in DOMAIN d /\ At(k) = k
      BY <1>1, <2>1
    <3> QED BY <1>2, <3>1
  <2>2. CASE k > i
    <3>1. k - 1 \in DOMAIN d /\ At(k - 1) = k
      BY <1>1, <2>2
    <3> QED BY <1>2, <3>1
  <2> QED BY <1>1, <1>4, <2>1, <2>2
<1> HIDE DEF At
<1> QED BY <1>1, <1>2, <1>3, <1>4 DEF LacksOne

\* d is q with x, or without it, as a Set keeps it.
Grown(d, q, x) ==
    /\ d # <<>> /\ Range(d) = Range(q) \cup {x} /\ (IsInjective(q) => IsInjective(d))

Shrunk(d, q, x) ==
    /\ Range(d) \subseteq Range(q) /\ \A y \in Range(q) : y # x => y \in Range(d)
    /\ x \notin Range(q) => d = q
    /\ IsInjective(q) => IsInjective(d) /\ Range(d) = Range(q) \ {x}

LEMMA Dropping ==
    ASSUME NEW S, NEW q \in Seq(S), NEW x
    PROVE  Dropped(q, x) \in Seq(S) /\ Shrunk(Dropped(q, x), q, x)
<1> DEFINE d == Dropped(q, x)
           I == {k \in 1..Len(q) : q[k] = x}
           i == Min(I)
<1>0. DOMAIN q = 1..Len(q)
  OBVIOUS
<1>1. CASE I = {}
  <2>1. d = q /\ x \notin Range(q)
    BY <1>0, <1>1 DEF Dropped, RemoveFirst, Range
  <2> HIDE DEF d
  <2>2. /\ d \in Seq(S) /\ Range(d) \subseteq Range(q)
        /\ IsInjective(q) => IsInjective(d) /\ Range(d) = Range(q) \ {x}
    BY <2>1
  <2> QED BY <2>1, <2>2 DEF d, Shrunk
<1>2. CASE I # {}
  <2>1. i \in I
    BY <1>2, MinOf
  <2>2. d = RemoveAt(q, i)
    BY <1>2 DEF Dropped, RemoveFirst, SelectInSeq
  <2> HIDE DEF i, d
  <2>3. i \in 1..Len(q) /\ q[i] = x
    BY <2>1
  <2>4. /\ d \in Seq(S)
        /\ LacksOne(d, q, i)
    BY <2>2, <2>3, RangeWithout
  <2>5. Range(d) \subseteq Range(q)
    BY <2>4 DEF Range, LacksOne
  <2>6. ASSUME NEW y \in Range(q), y # x PROVE y \in Range(d)
    BY <2>3, <2>4, <2>6 DEF Range, LacksOne
  <2>7. x \in Range(q)
    BY <1>0, <2>3 DEF Range
  <2>8. ASSUME IsInjective(q) PROVE IsInjective(d) /\ Range(d) = Range(q) \ {x}
    <3>1. IsInjective(d)
      BY <2>4, <2>8 DEF IsInjective, LacksOne
    <3>2. x \notin Range(d)
      BY <1>0, <2>3, <2>4, <2>8 DEF IsInjective, Range, LacksOne
    <3> QED BY <2>5, <2>6, <3>1, <3>2
  <2> QED BY <2>4, <2>5, <2>6, <2>7, <2>8 DEF d, Shrunk
<1> QED BY <1>1, <1>2

LEMMA Adding ==
    ASSUME NEW S, NEW q \in Seq(S), NEW x \in S
    PROVE  Added(q, x) \in Seq(S) /\ Grown(Added(q, x), q, x)
<1> DEFINE d == Added(q, x)
<1>0. DOMAIN q = 1..Len(q) /\ Len(q) \in Nat
  OBVIOUS
<1>1. CASE x \in Range(q)
  <2>1. d = q /\ q # <<>>
    BY <1>1 DEF Added, Range
  <2> HIDE DEF d
  <2>2. d \in Seq(S) /\ d # <<>> /\ Range(d) = Range(q) \cup {x} /\ (IsInjective(q) => IsInjective(d))
    BY <1>1, <2>1
  <2> QED BY <2>2 DEF d, Grown
<1>2. CASE x \notin Range(q)
  <2>1. d = Append(q, x)
    BY <1>2 DEF Added
  <2> HIDE DEF d
  <2>2. d \in Seq(S) /\ DOMAIN d = 1..(Len(q) + 1) /\ d[Len(q) + 1] = x
        /\ \A j \in DOMAIN q : d[j] = q[j]
    BY <2>1
  <2>3. Range(d) = Range(q) \cup {x}
    <3>1. ASSUME NEW j \in DOMAIN d PROVE j \in DOMAIN q \/ j = Len(q) + 1
      BY <1>0, <2>2
    <3>2. DOMAIN q \subseteq DOMAIN d /\ Len(q) + 1 \in DOMAIN d
      BY <1>0, <2>2
    <3> QED BY <2>2, <3>1, <3>2 DEF Range
  <2>4. ASSUME IsInjective(q) PROVE IsInjective(d)
    <3>1. ASSUME NEW j \in DOMAIN d PROVE j \in DOMAIN q \/ j = Len(q) + 1
      BY <1>0, <2>2
    <3> QED BY <1>2, <2>2, <2>4, <3>1 DEF IsInjective, Range
  <2>5. d # <<>>
    BY <2>2
  <2> QED BY <2>2, <2>3, <2>4, <2>5 DEF d, Grown
<1> QED BY <1>1, <1>2

\* The head of a line is in it.
LEMMA Heads ==
    ASSUME NEW S, NEW q \in Seq(S)
    PROVE  /\ q = <<>> => HeadOf(q) = NoOne /\ Range(q) = {}
           /\ q # <<>> => HeadOf(q) \in Range(q) /\ HeadOf(q) \in S
BY DEF HeadOf, Range

\* The same of the two kinds of lists that the server keeps.
LEMMA SocketLists ==
    ASSUME NEW q \in Seq(Sockets), NEW x \in Sockets
    PROVE  /\ Added(q, x) \in Seq(Sockets) /\ Grown(Added(q, x), q, x)
           /\ Dropped(q, x) \in Seq(Sockets) /\ Shrunk(Dropped(q, x), q, x)
BY Adding, Dropping

LEMMA RoverLists ==
    ASSUME NEW q \in Seq(Rovers), NEW x \in Rovers
    PROVE  /\ Added(q, x) \in Seq(Rovers) /\ Grown(Added(q, x), q, x)
           /\ Dropped(q, x) \in Seq(Rovers) /\ Shrunk(Dropped(q, x), q, x)
BY Adding, Dropping

\* Each client has one entry in assignments: deleting and setting it.
LEMMA Unassigning ==
    ASSUME NEW w \in ServerState, NEW s \in Sockets, NEW v, v = Unassign(w, s)
    PROVE  /\ v = [w EXCEPT !.assigned = v.assigned] /\ v.assigned \in Seq(Assignment)
           /\ OnePlace(w.assigned) =>
                /\ OnePlace(v.assigned)
                /\ Range(v.assigned) = {a \in Range(w.assigned) : a.socket # s}
<1> DEFINE q == w.assigned
           d == RemoveFirstMatch(q, LAMBDA a : a.socket = s)
           I == {k \in 1..Len(q) : q[k].socket = s}
           i == Min(I)
<1>0. q \in Seq(Assignment) /\ DOMAIN q = 1..Len(q)
  BY DEF ServerState
<1>1. v = [w EXCEPT !.assigned = d] /\ v.assigned = d
  BY DEF Unassign, ServerState
<1> HIDE DEF q
<1>2. CASE I = {}
  <2>1. d = q
    BY <1>2 DEF RemoveFirstMatch
  <2>2. \A a \in Range(q) : a.socket # s
    BY <1>0, <1>2 DEF Range
  <2> HIDE DEF d
  <2> QED BY <1>0, <1>1, <2>1, <2>2 DEF q
<1>3. CASE I # {}
  <2>1. i \in I
    <3>1. I \subseteq Nat
      OBVIOUS
    <3> HIDE DEF I
    <3> QED BY <1>3, <3>1, MinOf
  <2>2. d = RemoveAt(q, i)
    BY <1>3 DEF RemoveFirstMatch, SelectInSeq
  <2> HIDE DEF d, i
  <2>3. i \in 1..Len(q) /\ q[i].socket = s
    BY <2>1
  <2> HIDE DEF I
  <2>4. /\ d \in Seq(Assignment)
        /\ LacksOne(d, q, i)
    BY <1>0, <2>2, <2>3, RangeWithout
  <2>5. ASSUME OnePlace(q)
        PROVE  OnePlace(d) /\ Range(d) = {a \in Range(q) : a.socket # s}
    <3>1. OnePlace(d)
      <4> SUFFICES ASSUME NEW j \in DOMAIN d, NEW k \in DOMAIN d, d[j].socket = d[k].socket
                   PROVE  j = k
        BY DEF OnePlace
      <4>1. PICK m \in DOMAIN q, n \in DOMAIN q : d[j] = q[m] /\ d[k] = q[n] /\ (m = n => j = k)
        BY <2>4 DEF LacksOne
      <4>2. q[m].socket = q[n].socket
        BY <4>1
      <4> QED BY <2>5, <4>1, <4>2 DEF OnePlace
    <3>2. ASSUME NEW a \in Range(d) PROVE a \in Range(q) /\ a.socket # s
      <4>1. PICK j \in DOMAIN d : a = d[j]
        BY DEF Range
      <4>2. PICK k \in DOMAIN q : k # i /\ a = q[k]
        BY <2>4, <4>1 DEF LacksOne
      <4> QED BY <1>0, <2>3, <2>5, <4>2 DEF OnePlace, Range
    <3>3. ASSUME NEW a \in Range(q), a.socket # s PROVE a \in Range(d)
      <4>1. PICK k \in DOMAIN q : a = q[k]
        BY DEF Range
      <4>2. k # i
        BY <2>3, <3>3, <4>1
      <4> QED BY <2>4, <4>1, <4>2 DEF Range, LacksOne
    <3> QED BY <3>1, <3>2, <3>3
  <2> QED BY <1>1, <2>4, <2>5 DEF q
<1> QED BY <1>2, <1>3

LEMMA Assigning ==
    ASSUME NEW w \in ServerState, NEW s \in Sockets, NEW r \in Rovers, NEW v, v = Assign(w, s, r)
    PROVE  /\ v = [w EXCEPT !.assigned = v.assigned] /\ v.assigned \in Seq(Assignment)
           /\ OnePlace(w.assigned) =>
                /\ OnePlace(v.assigned)
                /\ Range(v.assigned) = {a \in Range(w.assigned) : a.socket # s}
                                         \cup {[socket |-> s, rover |-> r]}
<1> DEFINE q == w.assigned
           e == [socket |-> s, rover |-> r]
           d == IF IsAssigned(w, s)
                THEN [i \in DOMAIN q |-> IF q[i].socket = s THEN e ELSE q[i]]
                ELSE Append(q, e)
<1>0. q \in Seq(Assignment) /\ DOMAIN q = 1..Len(q) /\ Len(q) \in Nat /\ e \in Assignment
  BY DEF ServerState, Assignment
<1>1. v = [w EXCEPT !.assigned = d] /\ v.assigned = d
  BY DEF Assign, ServerState
<1>2. CASE IsAssigned(w, s)
  <2>1. PICK k \in DOMAIN q : q[k].socket = s
    BY <1>2 DEF IsAssigned, Range
  <2>2. d = [i \in DOMAIN q |-> IF q[i].socket = s THEN e ELSE q[i]]
    BY <1>2
  <2> HIDE DEF d
  <2>3. d \in Seq(Assignment) /\ DOMAIN d = DOMAIN q
    BY <1>0, <2>2
  <2>4. \A i \in DOMAIN q : d[i] = IF q[i].socket = s THEN e ELSE q[i]
    BY <2>2
  <2>5. ASSUME OnePlace(q)
        PROVE  OnePlace(d) /\ Range(d) = {a \in Range(q) : a.socket # s} \cup {e}
    <3>1. \A i \in DOMAIN q : d[i].socket = q[i].socket
      BY <2>4
    <3>2. OnePlace(d)
      BY <2>3, <2>5, <3>1 DEF OnePlace
    <3>3. Range(d) \subseteq {a \in Range(q) : a.socket # s} \cup {e}
      BY <2>3, <2>4 DEF Range
    <3>4. e \in Range(d) /\ \A a \in Range(q) : a.socket # s => a \in Range(d)
      BY <2>1, <2>3, <2>4 DEF Range
    <3> QED BY <3>2, <3>3, <3>4
  <2> QED BY <1>1, <2>3, <2>5
<1>3. CASE ~IsAssigned(w, s)
  <2>1. d = Append(q, e)
    BY <1>3
  <2> HIDE DEF d
  <2>2. /\ d \in Seq(Assignment) /\ DOMAIN d = 1..(Len(q) + 1) /\ d[Len(q) + 1] = e
        /\ \A i \in DOMAIN q : d[i] = q[i]
    BY <1>0, <2>1
  <2>3. \A i \in DOMAIN q : q[i].socket # s
    BY <1>3 DEF IsAssigned, Range
  <2>4. \A i \in DOMAIN d : i \in DOMAIN q \/ i = Len(q) + 1
    BY <1>0, <2>2
  <2>5. ASSUME OnePlace(q) PROVE OnePlace(d)
    BY <2>2, <2>3, <2>4, <2>5 DEF OnePlace
  <2>6. Range(d) = {a \in Range(q) : a.socket # s} \cup {e}
    <3>1. DOMAIN q \subseteq DOMAIN d /\ Len(q) + 1 \in DOMAIN d
      BY <1>0, <2>2
    <3> QED BY <2>2, <2>3, <2>4, <3>1 DEF Range
  <2> QED BY <1>1, <2>2, <2>5, <2>6
<1> QED BY <1>2, <1>3

-----------------------------------------------------------------------------
(* What the operations do.                                                 *)

LEMMA PickedRover ==
    ASSUME NEW w \in ServerState, NEW p, p = PickRover(w)
    PROVE  /\ p = NoRover <=> \/ w.mode \in {"admin", "lockdown"}
                              \/ \A r \in Range(w.online) : w.locked[r]
           /\ p # NoRover => p \in Rovers /\ p \in Range(w.online) /\ ~w.locked[p]
<1> DEFINE q == w.online
           Free == {i \in DOMAIN q : ~w.locked[q[i]]}
           load(i) == Cardinality(w.drivers[q[i]])
           Best(i) == \A j \in Free : load(i) < load(j) \/ (load(i) = load(j) /\ i <= j)
<1>1. /\ q \in Seq(Rovers) /\ DOMAIN q = 1..Len(q) /\ Len(q) \in Nat
      /\ \A i \in DOMAIN q : q[i] \in Rovers
      /\ \A r \in Rovers : w.drivers[r] \in SUBSET Sockets
  BY DEF ServerState
<1>2. PickRover(w) = IF w.mode \in {"admin", "lockdown"} \/ Free = {} THEN NoRover
                     ELSE q[CHOOSE i \in Free : Best(i)]
  BY DEF PickRover
<1> HIDE DEF q
<1>3. ASSUME NEW i \in DOMAIN q PROVE load(i) \in Nat
  <2>1. w.drivers[q[i]] \subseteq Sockets /\ IsFiniteSet(Sockets)
    BY <1>1
  <2> QED BY <2>1, FS_Subset, FS_CardinalityType
<1> HIDE DEF load
<1>4. Free # {} => \E i \in Free : Best(i)
  <2> SUFFICES ASSUME Free # {} PROVE \E i \in Free : Best(i)
    OBVIOUS
  <2> DEFINE Loads == {load(i) : i \in Free}
  <2>1. Loads \subseteq Nat /\ Loads # {}
    BY <1>3
  <2>2. PICK m \in Loads : \A k \in Loads : m <= k
    BY <2>1, Least
  <2> DEFINE First == {i \in Free : load(i) = m}
  <2>3. First \subseteq Nat /\ First # {}
    BY <1>1, <2>2
  <2>4. PICK i \in First : \A j \in First : i <= j
    BY <2>3, Least
  <2>5. ASSUME NEW j \in Free
        PROVE  load(i) < load(j) \/ (load(i) = load(j) /\ i <= j)
    <3>1. load(i) = m /\ load(j) \in Loads /\ load(j) \in Nat /\ m \in Nat
      BY <1>3, <2>1, <2>4
    <3>2. m <= load(j)
      BY <2>2, <3>1
    <3>3. load(j) = m => i <= j
      BY <2>4
    <3> QED BY <3>1, <3>2, <3>3
  <2>6. i \in Free
    BY <2>4
  <2> QED BY <2>5, <2>6
<1> HIDE DEF Best
<1>5. Free = {} <=> \A r \in Range(q) : w.locked[r]
  BY DEF Range
<1>6. ASSUME Free # {} PROVE q[CHOOSE i \in Free : Best(i)] \in {q[i] : i \in Free}
  BY <1>4, <1>6
<1>7. \A i \in Free : q[i] \in Rovers /\ q[i] \in Range(q) /\ ~w.locked[q[i]] /\ q[i] # NoRover
  BY <1>1 DEF Range
<1> HIDE DEF Free
<1>8. CASE w.mode \in {"admin", "lockdown"} \/ Free = {}
  BY <1>2, <1>5, <1>8 DEF q
<1>9. CASE ~(w.mode \in {"admin", "lockdown"} \/ Free = {})
  <2>1. p \in {q[i] : i \in Free}
    BY <1>2, <1>6, <1>9
  <2> QED BY <1>5, <1>7, <1>9, <2>1 DEF q
<1> QED BY <1>8, <1>9

\* What no function of the services changes that this module is about but
\* the handlers themselves.
Same(w, v) ==
    /\ v.mode = w.mode /\ v.conn = w.conn /\ v.role = w.role /\ v.login = w.login
    /\ v.online = w.online /\ v.locked = w.locked /\ v.refs = w.refs

SamePlaces(w, v) == v.assigned = w.assigned /\ v.waiting = w.waiting
SameTurns(w, v) == /\ v.drivers = w.drivers /\ v.joined = w.joined /\ v.room = w.room
                   /\ v.line = w.line /\ v.holder = w.holder

\* The turns of v are those given; the rest is that of w.
TurnsSet(w, v, D, J, R, L, H) ==
    v = [w EXCEPT !.drivers = D, !.joined = J, !.room = R, !.line = L, !.holder = H]

TurnsAre(w, v, D, J, R, L, H) ==
    /\ v \in ServerState /\ Same(w, v) /\ SamePlaces(w, v)
    /\ v.drivers = D /\ v.joined = J /\ v.room = R /\ v.line = L /\ v.holder = H

TurnsTyped(D, J, R, L, H) ==
    /\ D \in [Rovers -> SUBSET Sockets] /\ J \in [Sockets -> Seq(Rovers)]
    /\ R \in [Rovers -> SUBSET Sockets] /\ L \in [Rovers -> Seq(Sockets)]
    /\ H \in [Rovers -> Sockets \cup {NoOne}]

LEMMA TurnsUpdated ==
    ASSUME NEW w \in ServerState, NEW D, NEW J, NEW R, NEW L, NEW H, NEW v,
           TurnsTyped(D, J, R, L, H), TurnsSet(w, v, D, J, R, L, H)
    PROVE  TurnsAre(w, v, D, J, R, L, H)
BY DEF ServerState, Same, SamePlaces, TurnsTyped, TurnsSet, TurnsAre

\* The same of assignments and waiting.
PlacesSet(w, v, A, W) == v = [w EXCEPT !.assigned = A, !.waiting = W]

PlacesAre(w, v, A, W) ==
    /\ v \in ServerState /\ Same(w, v) /\ SameTurns(w, v) /\ v.assigned = A /\ v.waiting = W

LEMMA PlacesUpdated ==
    ASSUME NEW w \in ServerState, NEW A \in Seq(Assignment), NEW W \in Seq(Sockets),
           NEW v, PlacesSet(w, v, A, W)
    PROVE  PlacesAre(w, v, A, W)
BY DEF ServerState, Same, SameTurns, PlacesSet, PlacesAre

\* The lines of the rovers, their drivers and their holders fit.
Lines(w) == Queued(w) /\ \A r \in Rovers : IsInjective(w.line[r])

Granted(w, v, r, s) ==
    /\ v \in ServerState /\ Same(w, v) /\ SamePlaces(w, v)
    /\ \A p \in Rovers : v.drivers[p] = IF p = r THEN w.drivers[p] \cup {s} ELSE w.drivers[p]
    /\ \A p \in Rovers : v.room[p] = IF p = r THEN Join(w, r, s) ELSE w.room[p]
    /\ \A x \in Sockets \ {s} : v.joined[x] = w.joined[x]
    /\ Range(v.joined[s]) = Range(w.joined[s]) \cup {r}
    /\ IsOnline(w, r) /\ Lines(w) => Lines(v)

LEMMA GrantEffect ==
    ASSUME NEW w \in ServerState, NEW r \in Rovers, NEW s \in Sockets, NEW force \in BOOLEAN
    PROVE  Granted(w, Grant(w, r, s, force), r, s)
<1> DEFINE v == Grant(w, r, s, force)
           q == Added(w.line[r], s)
           h == IF w.holder[r] = NoOne \/ force THEN s ELSE w.holder[r]
           k == Synced(w.mode, q, h)
           j == Added(w.joined[s], r)
           D == [w.drivers EXCEPT ![r] = @ \cup {s}]
           J == [w.joined EXCEPT ![s] = j]
           R == [w.room EXCEPT ![r] = Join(w, r, s)]
           L == [w.line EXCEPT ![r] = q]
           H == [w.holder EXCEPT ![r] = k]
           u == [w EXCEPT !.drivers[r] = @ \cup {s}, !.joined[s] = Added(@, r),
                          !.room[r] = Join(w, r, s)]
<1>1. w.joined[s] \in Seq(Rovers) /\ w.line[r] \in Seq(Sockets) /\ w.holder[r] \in Sockets \cup {NoOne}
  BY DEF ServerState
<1>2. TurnsSet(w, v, D, J, R, L, H)
  <2>1. u.line = w.line /\ u.holder = w.holder /\ u.mode = w.mode
    BY DEF ServerState
  <2>2. u = [w EXCEPT !.drivers = D, !.joined = J, !.room = R]
    BY DEF ServerState
  <2>3. v = DriverAdded(u, r, s, force)
    BY DEF Grant
  <2> HIDE DEF u, v, D, J, R
  <2>4. v = [u EXCEPT !.line = L, !.holder = H]
    <3>1. u.line[r] = w.line[r] /\ u.holder[r] = w.holder[r]
      BY <2>1
    <3>2. v = [u EXCEPT !.line[r] = q, !.holder[r] = k]
      BY <2>1, <2>3, <3>1 DEF DriverAdded
    <3> QED BY <2>1, <3>2
  <2> HIDE DEF L, H
  <2> QED BY <2>2, <2>4 DEF TurnsSet
<1>3. j \in Seq(Rovers) /\ Range(j) = Range(w.joined[s]) \cup {r}
  BY <1>1, RoverLists DEF Grown
<1>4. /\ q \in Seq(Sockets) /\ q # <<>> /\ Range(q) = Range(w.line[r]) \cup {s}
      /\ IsInjective(w.line[r]) => IsInjective(q)
  BY <1>1, SocketLists DEF Grown
<1> HIDE DEF j, q
<1>6. h \in Sockets \cup {NoOne}
  BY <1>1
<1>7. HeadOf(q) \in Range(q) /\ HeadOf(q) \in Sockets
  BY <1>4, Heads
<1>8. k \in {h, HeadOf(q)}
  BY DEF Synced
<1> HIDE DEF h, k
<1>9. Join(w, r, s) \in SUBSET Sockets
  BY DEF Join, ServerState
<1>10. TurnsTyped(D, J, R, L, H)
  BY <1>3, <1>4, <1>6, <1>7, <1>8, <1>9 DEF ServerState, TurnsTyped
<1>11. /\ \A p \in Rovers : D[p] = IF p = r THEN w.drivers[p] \cup {s} ELSE w.drivers[p]
       /\ \A p \in Rovers : R[p] = IF p = r THEN Join(w, r, s) ELSE w.room[p]
       /\ \A p \in Rovers : L[p] = IF p = r THEN q ELSE w.line[p]
       /\ \A p \in Rovers : H[p] = IF p = r THEN k ELSE w.holder[p]
       /\ \A x \in Sockets \ {s} : J[x] = w.joined[x]
       /\ J[s] = j
  BY DEF ServerState
<1> HIDE DEF D, J, R, L, H, v
<1>12. TurnsAre(w, v, D, J, R, L, H)
  BY <1>2, <1>10, TurnsUpdated
<1>13. ASSUME IsOnline(w, r), Lines(w) PROVE Lines(v)
  <2>1. v.online = w.online
    BY <1>12 DEF Same, TurnsAre
  <2>2. k \in Range(q)
    <3>1. h \in Range(q)
      BY <1>1, <1>4, <1>13, Heads DEF Lines, Queued, h
    <3> QED BY <1>7, <1>8, <3>1
  <2>3. ASSUME NEW p \in Rovers
        PROVE  /\ Range(v.line[p]) = v.drivers[p] /\ IsInjective(v.line[p])
               /\ v.drivers[p] # {} => IsOnline(v, p)
               /\ IF v.line[p] = <<>> THEN v.holder[p] = NoOne ELSE v.holder[p] \in v.drivers[p]
    <3>1. /\ v.drivers[p] = D[p] /\ v.line[p] = L[p] /\ v.holder[p] = H[p]
          /\ IsOnline(v, p) <=> IsOnline(w, p)
      BY <1>12, <2>1 DEF TurnsAre, IsOnline
    <3>2. CASE p = r
      <4>1. v.drivers[p] = w.drivers[r] \cup {s} /\ v.line[p] = q /\ v.holder[p] = k
        BY <1>11, <3>1, <3>2
      <4>2. Range(w.line[r]) = w.drivers[r] /\ IsInjective(w.line[r])
        BY <1>13 DEF Lines, Queued
      <4>3. q # <<>>
        BY <2>2 DEF Range
      <4> QED BY <1>4, <1>13, <2>2, <3>1, <3>2, <4>1, <4>2, <4>3
    <3>3. CASE p # r
      <4>1. v.drivers[p] = w.drivers[p] /\ v.line[p] = w.line[p] /\ v.holder[p] = w.holder[p]
        BY <1>11, <3>1, <3>3
      <4> QED BY <1>13, <3>1, <4>1 DEF Lines, Queued
    <3> QED BY <3>2, <3>3
  <2> QED BY <2>3 DEF Lines, Queued
<1>14. Granted(w, v, r, s)
  BY <1>3, <1>11, <1>12, <1>13 DEF Granted, TurnsAre
<1> QED BY <1>14 DEF v

\* Of the clients' turns, those of s at the rovers of P are gone.
Stopped(w, v, P, s) ==
    /\ \A p \in Rovers : v.drivers[p] = IF p \in P THEN w.drivers[p] \ {s} ELSE w.drivers[p]
    /\ v.online = w.online
    /\ Lines(w) => Lines(v)

LEMMA StopDrivingEffect ==
    ASSUME NEW w \in ServerState, NEW P, NEW s \in Sockets, NEW v, v = StopDriving(w, P, s)
    PROVE  /\ v \in ServerState /\ Same(w, v) /\ SamePlaces(w, v)
           /\ v.joined = w.joined /\ v.room = w.room
           /\ Stopped(w, v, P, s)
<1> DEFINE D == [r \in Rovers |-> IF r \in P THEN w.drivers[r] \ {s} ELSE w.drivers[r]]
           L == [r \in Rovers |-> IF r \in P THEN Dropped(w.line[r], s) ELSE w.line[r]]
           H == [r \in Rovers |-> IF r \in P /\ w.holder[r] = s THEN HeadOf(L[r])
                                  ELSE w.holder[r]]
<1>1. \A r \in Rovers : /\ w.line[r] \in Seq(Sockets) /\ w.drivers[r] \in SUBSET Sockets
                        /\ w.holder[r] \in Sockets \cup {NoOne}
  BY DEF ServerState
<1>2. v = [w EXCEPT !.drivers = D, !.line = L, !.holder = H]
  BY DEF StopDriving
<1>3. ASSUME NEW r \in Rovers
      PROVE  /\ L[r] \in Seq(Sockets)
             /\ IsInjective(w.line[r]) =>
                  /\ IsInjective(L[r])
                  /\ Range(L[r]) = IF r \in P THEN Range(w.line[r]) \ {s} ELSE Range(w.line[r])
  <2>1. w.line[r] \in Seq(Sockets)
    BY <1>1
  <2>2. /\ Dropped(w.line[r], s) \in Seq(Sockets)
        /\ IsInjective(w.line[r]) => /\ IsInjective(Dropped(w.line[r], s))
                                    /\ Range(Dropped(w.line[r], s)) = Range(w.line[r]) \ {s}
    BY <2>1, SocketLists DEF Shrunk
  <2>5. L[r] = IF r \in P THEN Dropped(w.line[r], s) ELSE w.line[r]
    OBVIOUS
  <2> HIDE DEF L
  <2> QED BY <2>1, <2>2, <2>5
<1>4. /\ \A r \in Rovers : D[r] = IF r \in P THEN w.drivers[r] \ {s} ELSE w.drivers[r]
      /\ \A r \in Rovers : r \notin P => L[r] = w.line[r]
  OBVIOUS
<1>5. D \in [Rovers -> SUBSET Sockets]
  BY <1>1
<1>6. L \in [Rovers -> Seq(Sockets)]
  <2>1. L = [r \in Rovers |-> L[r]]
    OBVIOUS
  <2> HIDE DEF L
  <2> QED BY <1>3, <2>1
<1> HIDE DEF L, D
<1>7. ASSUME NEW r \in Rovers
      PROVE  /\ L[r] = <<>> => HeadOf(L[r]) = NoOne /\ Range(L[r]) = {}
             /\ L[r] # <<>> => HeadOf(L[r]) \in Range(L[r]) /\ HeadOf(L[r]) \in Sockets
  BY <1>3, Heads
<1>8. \A r \in Rovers : H[r] = IF r \in P /\ w.holder[r] = s THEN HeadOf(L[r]) ELSE w.holder[r]
  OBVIOUS
<1>9. H \in [Rovers -> Sockets \cup {NoOne}]
  BY <1>1, <1>7
<1> HIDE DEF H
<1>10. TurnsSet(w, v, D, w.joined, w.room, L, H)
  BY <1>2 DEF ServerState, TurnsSet
<1>11. TurnsTyped(D, w.joined, w.room, L, H)
  BY <1>5, <1>6, <1>9 DEF ServerState, TurnsTyped
<1>12. TurnsAre(w, v, D, w.joined, w.room, L, H)
  BY <1>10, <1>11, TurnsUpdated
<1>13. v.online = w.online
  BY <1>12 DEF Same, TurnsAre
<1>14. ASSUME Lines(w) PROVE Lines(v)
  <2> SUFFICES ASSUME NEW r \in Rovers
               PROVE  /\ IsInjective(v.line[r])
                      /\ Range(v.line[r]) = v.drivers[r]
                      /\ v.drivers[r] # {} => IsOnline(v, r)
                      /\ IF v.line[r] = <<>> THEN v.holder[r] = NoOne
                         ELSE v.holder[r] \in v.drivers[r]
    BY DEF Lines, Queued
  <2>1. /\ IsInjective(w.line[r]) /\ Range(w.line[r]) = w.drivers[r]
        /\ w.drivers[r] # {} => IsOnline(w, r)
        /\ IF w.line[r] = <<>> THEN w.holder[r] = NoOne ELSE w.holder[r] \in w.drivers[r]
    BY <1>14 DEF Lines, Queued
  <2>2. IsInjective(L[r]) /\ Range(L[r]) = D[r]
    BY <1>3, <1>4, <2>1
  <2>3. D[r] # {} => IsOnline(v, r)
    BY <1>4, <1>13, <2>1 DEF IsOnline
  <2>4. IF L[r] = <<>> THEN H[r] = NoOne ELSE H[r] \in D[r]
    <3>1. CASE r \in P /\ w.holder[r] = s
      BY <1>7, <1>8, <2>2, <3>1
    <3>2. CASE r \notin P
      BY <1>4, <1>8, <2>1, <3>2
    <3>3. CASE w.holder[r] # s /\ w.line[r] = <<>>
      <4>1. L[r] = <<>>
        <5>1. Range(w.line[r]) = {}
          BY <1>1, <3>3, Heads
        <5>2. D[r] = {}
          BY <1>4, <2>1, <5>1
        <5> QED BY <1>7, <2>2, <5>2
      <4> QED BY <1>8, <2>1, <3>3, <4>1
    <3>4. CASE w.holder[r] # s /\ w.line[r] # <<>>
      <4>1. H[r] = w.holder[r] /\ H[r] \in D[r]
        BY <1>4, <1>8, <2>1, <3>4
      <4> QED BY <1>7, <2>2, <4>1
    <3> QED BY <3>1, <3>2, <3>3, <3>4
  <2>5. v.drivers = D /\ v.line = L /\ v.holder = H
    BY <1>12 DEF TurnsAre
  <2> QED BY <2>2, <2>3, <2>4, <2>5
<1> QED BY <1>4, <1>12, <1>13, <1>14 DEF Stopped, TurnsAre

\* Client s does not drive rover r any more.
Released(w, v, r, s) ==
    /\ v \in ServerState /\ Same(w, v) /\ SamePlaces(w, v)
    /\ \A p \in Rovers, x \in Sockets :
          /\ x \in v.room[p] => x \in w.room[p]
          /\ x \in w.room[p] /\ ~(p = r /\ x = s) => x \in v.room[p]
          /\ p \in Range(w.joined[x]) /\ ~(p = r /\ x = s) => p \in Range(v.joined[x])
    /\ \A x \in Sockets : w.joined[x] = <<>> => v.joined[x] = <<>>
    /\ Lines(w) =>
          /\ Lines(v)
          /\ \A p \in Rovers, x \in Sockets :
                x \in v.drivers[p] <=> x \in w.drivers[p] /\ ~(p = r /\ x = s)

LEMMA ReleaseEffect ==
    ASSUME NEW w \in ServerState, NEW r \in Rovers, NEW s \in Sockets
    PROVE  Released(w, Release(w, r, s), r, s)
<1> DEFINE v == Release(w, r, s)
           d == Dropped(w.joined[s], r)
           J == [w.joined EXCEPT ![s] = d]
           R == [w.room EXCEPT ![r] = @ \ {s}]
           u == [w EXCEPT !.room[r] = @ \ {s}, !.joined[s] = Dropped(@, r)]
<1>1. CASE ~IsOnline(w, r)
  <2>1. Lines(w) => w.drivers[r] = {}
    BY <1>1 DEF Lines, Queued
  <2>2. v = w
    BY <1>1 DEF Release
  <2>3. Same(w, w) /\ SamePlaces(w, w)
    BY DEF Same, SamePlaces
  <2> HIDE DEF v
  <2>4. Released(w, v, r, s)
    BY <2>1, <2>2, <2>3 DEF Released
  <2> QED BY <2>4 DEF v
<1>2. CASE IsOnline(w, r)
  <2>1. w.joined[s] \in Seq(Rovers)
    BY DEF ServerState
  <2>2. d \in Seq(Rovers) /\ Shrunk(d, w.joined[s], r)
    BY <2>1, RoverLists
  <2>3. u = [w EXCEPT !.joined = J, !.room = R]
    BY DEF ServerState
  <2>4. TurnsSet(w, u, w.drivers, J, R, w.line, w.holder)
    <3> HIDE DEF J, R, u
    <3> QED BY <2>3 DEF ServerState, TurnsSet
  <2> HIDE DEF d
  <2>5. TurnsTyped(w.drivers, J, R, w.line, w.holder)
    BY <2>2 DEF ServerState, TurnsTyped
  <2>6. /\ \A x \in Sockets : J[x] = IF x = s THEN d ELSE w.joined[x]
        /\ \A p \in Rovers : R[p] = IF p = r THEN w.room[p] \ {s} ELSE w.room[p]
    BY DEF ServerState, d
  <2>7. v = StopDriving(u, {r}, s)
    BY <1>2 DEF Release
  <2> HIDE DEF u, J, R, v
  <2>8. TurnsAre(w, u, w.drivers, J, R, w.line, w.holder)
    BY <2>4, <2>5, TurnsUpdated
  <2>9. u \in ServerState
    BY <2>8 DEF TurnsAre
  <2>10. /\ v \in ServerState /\ Same(u, v) /\ SamePlaces(u, v)
         /\ v.joined = u.joined /\ v.room = u.room
         /\ Stopped(u, v, {r}, s)
    BY <2>7, <2>9, StopDrivingEffect
  <2>11. Lines(w) => Lines(u)
    BY <2>8 DEF Lines, Queued, TurnsAre, Same, IsOnline
  <2>12. Same(w, v) /\ SamePlaces(w, v)
    BY <2>8, <2>10 DEF TurnsAre, Same, SamePlaces
  <2>13. Lines(w) => Lines(v)
    BY <2>10, <2>11 DEF Stopped
  <2>14. \A p \in Rovers : /\ v.drivers[p] = IF p = r THEN w.drivers[p] \ {s} ELSE w.drivers[p]
                           /\ v.room[p] = IF p = r THEN w.room[p] \ {s} ELSE w.room[p]
    BY <2>6, <2>8, <2>10 DEF Stopped, TurnsAre
  <2>15. \A x \in Sockets : v.joined[x] = IF x = s THEN d ELSE w.joined[x]
    BY <2>6, <2>8, <2>10 DEF TurnsAre
  <2>16. \A p \in Rovers : p \in Range(w.joined[s]) /\ p # r => p \in Range(d)
    BY <2>2 DEF Shrunk
  <2>17. w.joined[s] = <<>> => d = <<>>
    <3>1. w.joined[s] = <<>> => r \notin Range(w.joined[s])
      BY <2>1, Heads
    <3> QED BY <2>2, <3>1 DEF Shrunk
  <2>18. Released(w, v, r, s)
    BY <2>10, <2>12, <2>13, <2>14, <2>15, <2>16, <2>17 DEF Released
  <2> QED BY <2>18 DEF v
<1> QED BY <1>1, <1>2

\* Client s has the assignments of E and no other.
PlacedAs(w, v, s, E) ==
    /\ PlacesAre(w, v, v.assigned, w.waiting)
    /\ OnePlace(w.assigned) =>
         /\ OnePlace(v.assigned)
         /\ Range(v.assigned) = {a \in Range(w.assigned) : a.socket # s} \cup E

LEMMA UnassignEffect ==
    ASSUME NEW w \in ServerState, NEW s \in Sockets
    PROVE  PlacedAs(w, Unassign(w, s), s, {})
<1> DEFINE v == Unassign(w, s)
<1>1. /\ v = [w EXCEPT !.assigned = v.assigned] /\ v.assigned \in Seq(Assignment)
      /\ OnePlace(w.assigned) =>
                /\ OnePlace(v.assigned)
                /\ Range(v.assigned) = {a \in Range(w.assigned) : a.socket # s}
  BY Unassigning
<1> HIDE DEF v
<1>2. PlacesSet(w, v, v.assigned, w.waiting) /\ w.waiting \in Seq(Sockets)
  BY <1>1 DEF ServerState, PlacesSet
<1>3. PlacedAs(w, v, s, {})
  BY <1>1, <1>2, PlacesUpdated DEF PlacedAs
<1> QED BY <1>3 DEF v

LEMMA AssignEffect ==
    ASSUME NEW w \in ServerState, NEW s \in Sockets, NEW r \in Rovers
    PROVE  PlacedAs(w, Assign(w, s, r), s, {[socket |-> s, rover |-> r]})
<1> DEFINE v == Assign(w, s, r)
<1>1. /\ v = [w EXCEPT !.assigned = v.assigned] /\ v.assigned \in Seq(Assignment)
      /\ OnePlace(w.assigned) =>
                /\ OnePlace(v.assigned)
                /\ Range(v.assigned) = {a \in Range(w.assigned) : a.socket # s}
                                         \cup {[socket |-> s, rover |-> r]}
  BY Assigning
<1> HIDE DEF v
<1>2. PlacesSet(w, v, v.assigned, w.waiting) /\ w.waiting \in Seq(Sockets)
  BY <1>1 DEF ServerState, PlacesSet
<1>3. PlacedAs(w, v, s, {[socket |-> s, rover |-> r]})
  BY <1>1, <1>2, PlacesUpdated DEF PlacedAs
<1> QED BY <1>3 DEF v

LEMMA WaitEffect ==
    ASSUME NEW w \in ServerState, NEW s \in Sockets
    PROVE  /\ PlacesAre(w, Wait(w, s), w.assigned, Added(w.waiting, s))
           /\ Grown(Added(w.waiting, s), w.waiting, s)
<1>1. w.waiting \in Seq(Sockets) /\ w.assigned \in Seq(Assignment)
  BY DEF ServerState
<1>2. Added(w.waiting, s) \in Seq(Sockets) /\ Grown(Added(w.waiting, s), w.waiting, s)
  BY <1>1, SocketLists
<1>3. PlacesSet(w, Wait(w, s), w.assigned, Added(w.waiting, s))
  BY DEF ServerState, PlacesSet, Wait
<1> QED BY <1>1, <1>2, <1>3, PlacesUpdated

LEMMA StopWaitingEffect ==
    ASSUME NEW w \in ServerState, NEW s \in Sockets
    PROVE  /\ PlacesAre(w, StopWaiting(w, s), w.assigned, Dropped(w.waiting, s))
           /\ Shrunk(Dropped(w.waiting, s), w.waiting, s)
<1>1. w.waiting \in Seq(Sockets) /\ w.assigned \in Seq(Assignment)
  BY DEF ServerState
<1>2. Dropped(w.waiting, s) \in Seq(Sockets) /\ Shrunk(Dropped(w.waiting, s), w.waiting, s)
  BY <1>1, SocketLists
<1>3. PlacesSet(w, StopWaiting(w, s), w.assigned, Dropped(w.waiting, s))
  BY DEF ServerState, PlacesSet, StopWaiting
<1> QED BY <1>1, <1>2, <1>3, PlacesUpdated

-----------------------------------------------------------------------------
(* What keeps the bookkeeping consistent.                                  *)

LEMMA Holding ==
    ASSUME NEW w \in ServerState
    PROVE  /\ \A s \in Sockets : IsAssigned(w, s) <=> \E r \in Rovers : Has(w, s, r)
           /\ OnePlace(w.assigned) => \A s \in Sockets, r, p \in Rovers :
                 Has(w, s, r) /\ Has(w, s, p) => r = p
<1>1. \A a \in Range(w.assigned) : /\ a.socket \in Sockets /\ a.rover \in Rovers
                                   /\ a = [socket |-> a.socket, rover |-> a.rover]
  <2> SUFFICES ASSUME NEW a \in Range(w.assigned)
               PROVE  /\ a.socket \in Sockets /\ a.rover \in Rovers
                      /\ a = [socket |-> a.socket, rover |-> a.rover]
    OBVIOUS
  <2>1. a \in Assignment
    BY DEF ServerState, Range
  <2> QED BY <2>1 DEF Assignment
<1>2. ASSUME NEW s \in Sockets PROVE IsAssigned(w, s) <=> \E r \in Rovers : Has(w, s, r)
  BY <1>1 DEF IsAssigned, Has
<1>3. ASSUME OnePlace(w.assigned), NEW s \in Sockets, NEW r \in Rovers, NEW p \in Rovers,
             Has(w, s, r), Has(w, s, p)
      PROVE  r = p
  <2>1. PICK i \in DOMAIN w.assigned : w.assigned[i] = [socket |-> s, rover |-> r]
    BY <1>3 DEF Has, Range
  <2>2. PICK j \in DOMAIN w.assigned : w.assigned[j] = [socket |-> s, rover |-> p]
    BY <1>3 DEF Has, Range
  <2>3. i = j
    BY <1>3, <2>1, <2>2 DEF OnePlace
  <2>4. [socket |-> s, rover |-> r].rover = [socket |-> s, rover |-> p].rover
    BY <2>1, <2>2, <2>3
  <2> QED BY <2>4
<1> QED BY <1>2, <1>3

LEMMA RoverOfs ==
    ASSUME NEW w \in ServerState, OnePlace(w.assigned), NEW s \in Sockets, IsAssigned(w, s)
    PROVE  /\ RoverOf(w, s) \in Rovers /\ Has(w, s, RoverOf(w, s))
           /\ \A r \in Rovers : Has(w, s, r) => RoverOf(w, s) = r
<1> DEFINE a == CHOOSE a \in Range(w.assigned) : a.socket = s
<1>1. a \in Range(w.assigned) /\ a.socket = s
  BY DEF IsAssigned
<1>2. RoverOf(w, s) = a.rover
  BY DEF RoverOf
<1> HIDE DEF a
<1>3. a \in Assignment
  BY <1>1 DEF ServerState, Range
<1>4. a.rover \in Rovers /\ a = [socket |-> s, rover |-> a.rover]
  BY <1>1, <1>3 DEF Assignment
<1>5. RoverOf(w, s) \in Rovers /\ Has(w, s, RoverOf(w, s))
  BY <1>1, <1>2, <1>4 DEF Has
<1> QED BY <1>5, Holding

\* v differs from w in what it has on client s: other clients have the rovers
\* they had, wait where they did, and hear the rovers they heard.
OnlyFor(w, v, s) ==
    /\ Same(w, v)
    /\ \A x \in Sockets \ {s} :
          /\ x \in Range(v.waiting) <=> x \in Range(w.waiting)
          /\ IsAssigned(v, x) <=> IsAssigned(w, x)
          /\ \A r \in Rovers : /\ Has(v, x, r) <=> Has(w, x, r)
                               /\ x \in w.room[r] => x \in v.room[r]

LEMMA OnlyForTrans ==
    ASSUME NEW u, NEW w, NEW v, NEW s, OnlyFor(u, w, s), OnlyFor(w, v, s)
    PROVE  OnlyFor(u, v, s)
BY DEF OnlyFor, Same

\* Of the clients' entries in assignments, those of s are replaced by E.
Repinned(w, v, s, E) ==
    /\ OnePlace(v.assigned)
    /\ \A x \in Sockets, r \in Rovers : Has(v, x, r) <=> IF x = s THEN r \in E ELSE Has(w, x, r)
    /\ \A x \in Sockets : IsAssigned(v, x) <=> IF x = s THEN E # {} ELSE IsAssigned(w, x)

LEMMA Repinning ==
    ASSUME NEW w \in ServerState, NEW s \in Sockets, NEW v, NEW E \in SUBSET Rovers,
           OnePlace(w.assigned), PlacedAs(w, v, s, {[socket |-> s, rover |-> r] : r \in E})
    PROVE  Repinned(w, v, s, E)
<1> DEFINE F == {[socket |-> s, rover |-> r] : r \in E}
<1>1. v \in ServerState /\ OnePlace(v.assigned)
      /\ Range(v.assigned) = {a \in Range(w.assigned) : a.socket # s} \cup F
  BY DEF PlacedAs, PlacesAre
<1>2. ASSUME NEW x \in Sockets, NEW r \in Rovers
      PROVE  Has(v, x, r) <=> IF x = s THEN r \in E ELSE Has(w, x, r)
  <2> DEFINE e == [socket |-> x, rover |-> r]
  <2>1. e.socket = x /\ e.rover = r
    OBVIOUS
  <2>2. e \in F <=> x = s /\ r \in E
    <3>1. ASSUME e \in F PROVE x = s /\ r \in E
      <4>1. PICK p \in E : e = [socket |-> s, rover |-> p]
        BY <3>1
      <4>2. e.socket = s /\ e.rover = p
        BY <4>1
      <4> QED BY <2>1, <4>2
    <3> QED BY <3>1
  <2> HIDE DEF e, F
  <2>3. e \in Range(v.assigned) <=> (e \in Range(w.assigned) /\ x # s) \/ (x = s /\ r \in E)
    BY <1>1, <2>1, <2>2
  <2>4. Has(v, x, r) <=> e \in Range(v.assigned)
    BY DEF Has, e
  <2>5. Has(w, x, r) <=> e \in Range(w.assigned)
    BY DEF Has, e
  <2> QED BY <2>3, <2>4, <2>5
<1>3. ASSUME NEW x \in Sockets
      PROVE  IsAssigned(v, x) <=> IF x = s THEN E # {} ELSE IsAssigned(w, x)
  <2>1. /\ IsAssigned(w, x) <=> \E r \in Rovers : Has(w, x, r)
        /\ IsAssigned(v, x) <=> \E r \in Rovers : Has(v, x, r)
    BY <1>1, Holding
  <2> QED BY <1>2, <2>1
<1> QED BY <1>1, <1>2, <1>3 DEF Repinned

LEMMA ConsistentParts ==
    ASSUME NEW w, NEW K, NEW X, Consistent(w, K, X)
    PROVE  /\ w \in ServerState /\ Lines(w) /\ OnePlace(w.assigned)
           /\ IsInjective(w.online) /\ IsInjective(w.waiting)
           /\ \A s \in Range(w.waiting) : s \in Sockets /\ ~IsAssigned(w, s)
           /\ \A r \in Rovers : w.drivers[r] \subseteq Sockets /\ w.room[r] \subseteq Sockets
           /\ Range(w.online) \subseteq Rovers
<1>1. w \in ServerState
  BY DEF Consistent
<1>2. Range(w.waiting) \subseteq Sockets /\ Range(w.online) \subseteq Rovers
  BY <1>1 DEF ServerState, Range
<1> QED BY <1>1, <1>2 DEF Consistent, Entries, Queued, Lines, ServerState

\* Another state is consistent if it differs by what follows.
LEMMA ConsistentIf ==
    ASSUME NEW v \in ServerState, NEW K, NEW X,
           IsInjective(v.online), IsInjective(v.waiting), Lines(v), OnePlace(v.assigned),
           \A s \in Sockets : s \in Range(v.waiting) => ~IsAssigned(v, s),
           \A r \in Rovers, s \in Sockets : s \in v.drivers[r] =>
               /\ r \in Range(v.joined[s])
               /\ s \notin X => Has(v, s, r)
               /\ v.conn[s] = "up" => s \in v.room[r],
           \A s \in Sockets \ K :
               /\ v.conn[s] # "up" /\ v.joined[s] = <<>>
               /\ ~IsAssigned(v, s) /\ s \notin Range(v.waiting),
           \A r \in Rovers, s \in Sockets : s \in v.room[r] => v.conn[s] = "up"
    PROVE  Consistent(v, K, X)
<1>1. \A r \in Rovers : v.drivers[r] \subseteq Sockets /\ v.room[r] \subseteq Sockets
  BY DEF ServerState
<1>2. Range(v.waiting) \subseteq Sockets
  BY DEF ServerState, Range
<1>3. Entries(v) /\ Queued(v)
  BY <1>2 DEF Entries, Lines
<1>4. Linked(v, X)
  BY <1>1 DEF Linked
<1>5. Known(v, K)
  BY <1>1 DEF Known
<1> QED BY <1>3, <1>4, <1>5 DEF Consistent

LEMMA ReleaseKeeps ==
    ASSUME NEW w, NEW K, NEW X, Consistent(w, K, X), NEW r \in Rovers, NEW s \in Sockets,
           NEW v, v = Release(w, r, s)
    PROVE  /\ Consistent(v, K, X) /\ OnlyFor(w, v, s) /\ SamePlaces(w, v)
           /\ \A p \in Rovers : s \in v.drivers[p] => s \in w.drivers[p] /\ p # r
           /\ w.joined[s] = <<>> => v.joined[s] = <<>>
<1>1. w \in ServerState /\ Lines(w)
  BY ConsistentParts
<1>2. Released(w, v, r, s)
  BY <1>1, ReleaseEffect
<1>3. /\ v \in ServerState /\ Same(w, v) /\ v.assigned = w.assigned /\ v.waiting = w.waiting
      /\ Lines(v)
      /\ \A p \in Rovers, x \in Sockets :
          /\ x \in v.drivers[p] <=> x \in w.drivers[p] /\ ~(p = r /\ x = s)
          /\ x \in v.room[p] => x \in w.room[p]
          /\ x \in w.room[p] /\ ~(p = r /\ x = s) => x \in v.room[p]
          /\ p \in Range(w.joined[x]) /\ ~(p = r /\ x = s) => p \in Range(v.joined[x])
      /\ \A x \in Sockets : w.joined[x] = <<>> => v.joined[x] = <<>>
  BY <1>1, <1>2 DEF Released, SamePlaces
<1>4. v.conn = w.conn /\ v.online = w.online
  BY <1>3 DEF Same
<1>5. /\ \A x : IsAssigned(v, x) <=> IsAssigned(w, x)
      /\ \A x, p : Has(v, x, p) <=> Has(w, x, p)
  BY <1>3 DEF IsAssigned, Has
<1>6. /\ IsInjective(v.online) /\ IsInjective(v.waiting) /\ OnePlace(v.assigned)
      /\ \A x \in Sockets : x \in Range(v.waiting) => ~IsAssigned(v, x)
  BY <1>3, <1>4, <1>5, ConsistentParts
<1>7. \A p \in Rovers, x \in Sockets : x \in v.drivers[p] =>
               /\ p \in Range(v.joined[x])
               /\ x \notin X => Has(v, x, p)
               /\ v.conn[x] = "up" => x \in v.room[p]
  BY <1>3, <1>4, <1>5 DEF Consistent, Linked
<1>8. \A x \in Sockets \ K :
               /\ v.conn[x] # "up" /\ v.joined[x] = <<>>
               /\ ~IsAssigned(v, x) /\ x \notin Range(v.waiting)
  BY <1>3, <1>4, <1>5 DEF Consistent, Known
<1>9. \A p \in Rovers, x \in Sockets : x \in v.room[p] => v.conn[x] = "up"
  BY <1>3, <1>4 DEF Consistent, Known
<1>10. Consistent(v, K, X)
  BY <1>3, <1>6, <1>7, <1>8, <1>9, ConsistentIf
<1>11. OnlyFor(w, v, s)
  BY <1>3, <1>5 DEF OnlyFor
<1> QED BY <1>3, <1>10, <1>11 DEF SamePlaces

LEMMA GrantKeeps ==
    ASSUME NEW w, NEW K, Consistent(w, K, {}), NEW r \in Rovers, NEW s \in Sockets, s \in K,
           IsOnline(w, r), NEW force \in BOOLEAN, NEW v, v = Grant(w, r, s, force)
    PROVE  /\ Consistent(v, K, {s}) /\ OnlyFor(w, v, s) /\ SamePlaces(w, v)
           /\ \A p \in Rovers : /\ s \in v.drivers[p] => s \in w.drivers[p] \/ p = r
                                /\ s \in w.room[p] => s \in v.room[p]
<1>1. w \in ServerState /\ Lines(w)
  BY ConsistentParts
<1>2. Granted(w, v, r, s)
  BY <1>1, GrantEffect
<1>3. /\ v \in ServerState /\ Same(w, v) /\ v.assigned = w.assigned /\ v.waiting = w.waiting
      /\ Lines(v)
      /\ \A p \in Rovers : v.drivers[p] = IF p = r THEN w.drivers[p] \cup {s} ELSE w.drivers[p]
      /\ \A p \in Rovers : v.room[p] = IF p = r THEN Join(w, r, s) ELSE w.room[p]
      /\ \A x \in Sockets \ {s} : v.joined[x] = w.joined[x]
      /\ Range(v.joined[s]) = Range(w.joined[s]) \cup {r}
  BY <1>1, <1>2 DEF Granted, SamePlaces
<1>4. v.conn = w.conn /\ v.online = w.online
  BY <1>3 DEF Same
<1>5. /\ \A x : IsAssigned(v, x) <=> IsAssigned(w, x)
      /\ \A x, p : Has(v, x, p) <=> Has(w, x, p)
  BY <1>3 DEF IsAssigned, Has
<1>6. /\ IsInjective(v.online) /\ IsInjective(v.waiting) /\ OnePlace(v.assigned)
      /\ \A x \in Sockets : x \in Range(v.waiting) => ~IsAssigned(v, x)
  BY <1>3, <1>4, <1>5, ConsistentParts
<1>a. \A p \in Rovers, x \in Sockets : x \in v.room[p] <=>
          x \in w.room[p] \/ (p = r /\ x = s /\ w.conn[s] = "up")
  BY <1>3 DEF Join
<1>7. \A p \in Rovers, x \in Sockets : x \in v.drivers[p] =>
               /\ p \in Range(v.joined[x])
               /\ x \notin {s} => Has(v, x, p)
               /\ v.conn[x] = "up" => x \in v.room[p]
  <2> SUFFICES ASSUME NEW p \in Rovers, NEW x \in Sockets, x \in v.drivers[p]
               PROVE  /\ p \in Range(v.joined[x])
                      /\ x \notin {s} => Has(v, x, p)
                      /\ v.conn[x] = "up" => x \in v.room[p]
    OBVIOUS
  <2>1. CASE x \in w.drivers[p]
    <3>1. /\ p \in Range(w.joined[x]) /\ Has(w, x, p)
          /\ w.conn[x] = "up" => x \in w.room[p]
      BY <2>1 DEF Consistent, Linked
    <3> QED BY <1>3, <1>4, <1>5, <1>a, <3>1
  <2>2. CASE x \notin w.drivers[p]
    <3>1. p = r /\ x = s
      BY <1>3, <2>2
    <3> QED BY <1>3, <1>4, <1>a, <3>1
  <2> QED BY <2>1, <2>2
<1>8. \A x \in Sockets \ K :
               /\ v.conn[x] # "up" /\ v.joined[x] = <<>>
               /\ ~IsAssigned(v, x) /\ x \notin Range(v.waiting)
  BY <1>3, <1>4, <1>5 DEF Consistent, Known
<1>9. \A p \in Rovers, x \in Sockets : x \in v.room[p] => v.conn[x] = "up"
  BY <1>4, <1>a DEF Consistent, Known
<1>10. Consistent(v, K, {s})
  BY <1>3, <1>6, <1>7, <1>8, <1>9, ConsistentIf
<1>11. OnlyFor(w, v, s)
  BY <1>3, <1>5, <1>a DEF OnlyFor
<1> QED BY <1>3, <1>10, <1>11, <1>a DEF SamePlaces

\* A client that was given no rover is not between two steps of it.
LEMMA Settling ==
    ASSUME NEW w, NEW K, NEW X, NEW Y, Consistent(w, K, X), NEW s \in Sockets,
           \A x \in X \ Y, r \in Rovers : x \notin w.drivers[r]
    PROVE  Consistent(w, K, Y)
BY DEF Consistent, Linked

LEMMA StopWaitingKeeps ==
    ASSUME NEW w, NEW K, NEW X, Consistent(w, K, X), NEW s \in Sockets,
           NEW v, v = StopWaiting(w, s)
    PROVE  /\ Consistent(v, K, X) /\ OnlyFor(w, v, s) /\ SameTurns(w, v)
           /\ v.assigned = w.assigned
           /\ s \notin Range(v.waiting) /\ Range(v.waiting) \subseteq Range(w.waiting)
           /\ w.waiting = <<>> => v.waiting = <<>>
<1> DEFINE d == Dropped(w.waiting, s)
<1>1. w \in ServerState /\ w.waiting \in Seq(Sockets)
  BY ConsistentParts DEF ServerState
<1>2. PlacesAre(w, v, w.assigned, d) /\ Shrunk(d, w.waiting, s)
  BY <1>1, StopWaitingEffect
<1> HIDE DEF d
<1>3. /\ v \in ServerState /\ Same(w, v) /\ SameTurns(w, v) /\ v.assigned = w.assigned
      /\ v.waiting = d
  BY <1>2 DEF PlacesAre
<1>4. IsInjective(d) /\ Range(d) = Range(w.waiting) \ {s}
  BY <1>2, ConsistentParts DEF Shrunk
<1>5. /\ \A x : IsAssigned(v, x) <=> IsAssigned(w, x)
      /\ \A x, p : Has(v, x, p) <=> Has(w, x, p)
  BY <1>3 DEF IsAssigned, Has
<1>6. Lines(v)
  BY <1>3, ConsistentParts DEF Lines, Queued, SameTurns, Same, IsOnline
<1>7. v.conn = w.conn /\ v.online = w.online /\ v.joined = w.joined /\ v.drivers = w.drivers
      /\ v.room = w.room
  BY <1>3 DEF Same, SameTurns
<1>8. /\ IsInjective(v.online) /\ IsInjective(v.waiting) /\ OnePlace(v.assigned)
      /\ \A x \in Sockets : x \in Range(v.waiting) => ~IsAssigned(v, x)
  BY <1>3, <1>4, <1>5, <1>7, ConsistentParts
<1>9. \A p \in Rovers, x \in Sockets : x \in v.drivers[p] =>
               /\ p \in Range(v.joined[x])
               /\ x \notin X => Has(v, x, p)
               /\ v.conn[x] = "up" => x \in v.room[p]
  BY <1>5, <1>7 DEF Consistent, Linked
<1>10. \A x \in Sockets \ K :
               /\ v.conn[x] # "up" /\ v.joined[x] = <<>>
               /\ ~IsAssigned(v, x) /\ x \notin Range(v.waiting)
  BY <1>3, <1>4, <1>5, <1>7 DEF Consistent, Known
<1>11. \A p \in Rovers, x \in Sockets : x \in v.room[p] => v.conn[x] = "up"
  BY <1>7 DEF Consistent, Known
<1>12. Consistent(v, K, X)
  BY <1>3, <1>6, <1>8, <1>9, <1>10, <1>11, ConsistentIf
<1>13. OnlyFor(w, v, s)
  BY <1>3, <1>4, <1>5, <1>7 DEF OnlyFor
<1>14. w.waiting = <<>> => v.waiting = <<>>
  <2>1. w.waiting = <<>> => s \notin Range(w.waiting)
    BY <1>1, Heads
  <2> QED BY <1>2, <1>3, <2>1 DEF Shrunk
<1> QED BY <1>3, <1>4, <1>12, <1>13, <1>14

LEMMA WaitKeeps ==
    ASSUME NEW w, NEW K, NEW X, Consistent(w, K, X), NEW s \in Sockets, s \in K,
           ~IsAssigned(w, s), NEW v, v = Wait(w, s)
    PROVE  /\ Consistent(v, K, X) /\ OnlyFor(w, v, s) /\ SameTurns(w, v)
           /\ v.assigned = w.assigned
           /\ Range(v.waiting) = Range(w.waiting) \cup {s}
<1> DEFINE d == Added(w.waiting, s)
<1>1. w \in ServerState
  BY ConsistentParts
<1>2. PlacesAre(w, v, w.assigned, d) /\ Grown(d, w.waiting, s)
  BY <1>1, WaitEffect
<1> HIDE DEF d
<1>3. /\ v \in ServerState /\ Same(w, v) /\ SameTurns(w, v) /\ v.assigned = w.assigned
      /\ v.waiting = d
  BY <1>2 DEF PlacesAre
<1>4. IsInjective(d) /\ Range(d) = Range(w.waiting) \cup {s}
  BY <1>2, ConsistentParts DEF Grown
<1>5. /\ \A x : IsAssigned(v, x) <=> IsAssigned(w, x)
      /\ \A x, p : Has(v, x, p) <=> Has(w, x, p)
  BY <1>3 DEF IsAssigned, Has
<1>6. Lines(v)
  BY <1>3, ConsistentParts DEF Lines, Queued, SameTurns, Same, IsOnline
<1>7. v.conn = w.conn /\ v.online = w.online /\ v.joined = w.joined /\ v.drivers = w.drivers
      /\ v.room = w.room
  BY <1>3 DEF Same, SameTurns
<1>8. /\ IsInjective(v.online) /\ IsInjective(v.waiting) /\ OnePlace(v.assigned)
      /\ \A x \in Sockets : x \in Range(v.waiting) => ~IsAssigned(v, x)
  BY <1>3, <1>4, <1>5, <1>7, ConsistentParts
<1>9. \A p \in Rovers, x \in Sockets : x \in v.drivers[p] =>
               /\ p \in Range(v.joined[x])
               /\ x \notin X => Has(v, x, p)
               /\ v.conn[x] = "up" => x \in v.room[p]
  BY <1>5, <1>7 DEF Consistent, Linked
<1>10. \A x \in Sockets \ K :
               /\ v.conn[x] # "up" /\ v.joined[x] = <<>>
               /\ ~IsAssigned(v, x) /\ x \notin Range(v.waiting)
  BY <1>3, <1>4, <1>5, <1>7 DEF Consistent, Known
<1>11. \A p \in Rovers, x \in Sockets : x \in v.room[p] => v.conn[x] = "up"
  BY <1>7 DEF Consistent, Known
<1>12. Consistent(v, K, X)
  BY <1>3, <1>6, <1>8, <1>9, <1>10, <1>11, ConsistentIf
<1>13. OnlyFor(w, v, s)
  BY <1>3, <1>4, <1>5, <1>7 DEF OnlyFor
<1> QED BY <1>3, <1>4, <1>12, <1>13

LEMMA UnassignKeeps ==
    ASSUME NEW w, NEW K, Consistent(w, K, {}), NEW s \in Sockets, NEW v, v = Unassign(w, s)
    PROVE  /\ Consistent(v, K, {s}) /\ OnlyFor(w, v, s) /\ SameTurns(w, v)
           /\ v.waiting = w.waiting /\ ~IsAssigned(v, s)
<1>1. w \in ServerState /\ OnePlace(w.assigned)
  BY ConsistentParts
<1>2. PlacedAs(w, v, s, {})
  BY <1>1, UnassignEffect
<1>3. Repinned(w, v, s, {})
  <2>1. {[socket |-> s, rover |-> r] : r \in {}} = {}
    OBVIOUS
  <2> QED BY <1>1, <1>2, <2>1, Repinning
<1>4. /\ v \in ServerState /\ Same(w, v) /\ SameTurns(w, v) /\ v.waiting = w.waiting
  BY <1>2 DEF PlacedAs, PlacesAre
<1>5. /\ OnePlace(v.assigned)
      /\ \A x \in Sockets, r \in Rovers : Has(v, x, r) <=> x # s /\ Has(w, x, r)
      /\ \A x \in Sockets : IsAssigned(v, x) <=> x # s /\ IsAssigned(w, x)
  BY <1>3 DEF Repinned
<1>6. Lines(v)
  BY <1>4, ConsistentParts DEF Lines, Queued, SameTurns, Same, IsOnline
<1>7. v.conn = w.conn /\ v.online = w.online /\ v.joined = w.joined /\ v.drivers = w.drivers
      /\ v.room = w.room
  BY <1>4 DEF Same, SameTurns
<1>8. /\ IsInjective(v.online) /\ IsInjective(v.waiting)
      /\ \A x \in Sockets : x \in Range(v.waiting) => ~IsAssigned(v, x)
  BY <1>4, <1>5, <1>7, ConsistentParts
<1>9. \A p \in Rovers, x \in Sockets : x \in v.drivers[p] =>
               /\ p \in Range(v.joined[x])
               /\ x \notin {s} => Has(v, x, p)
               /\ v.conn[x] = "up" => x \in v.room[p]
  BY <1>5, <1>7 DEF Consistent, Linked
<1>10. \A x \in Sockets \ K :
               /\ v.conn[x] # "up" /\ v.joined[x] = <<>>
               /\ ~IsAssigned(v, x) /\ x \notin Range(v.waiting)
  BY <1>4, <1>5, <1>7 DEF Consistent, Known
<1>11. \A p \in Rovers, x \in Sockets : x \in v.room[p] => v.conn[x] = "up"
  BY <1>7 DEF Consistent, Known
<1>12. Consistent(v, K, {s})
  BY <1>4, <1>5, <1>6, <1>8, <1>9, <1>10, <1>11, ConsistentIf
<1>13. OnlyFor(w, v, s)
  BY <1>4, <1>5, <1>7 DEF OnlyFor
<1> QED BY <1>4, <1>5, <1>12, <1>13

LEMMA AssignKeeps ==
    ASSUME NEW w, NEW K, NEW s \in Sockets, s \in K, Consistent(w, K, {s}),
           s \notin Range(w.waiting), NEW r \in Rovers,
           \A p \in Rovers : s \in w.drivers[p] => p = r,
           NEW v, v = Assign(w, s, r)
    PROVE  /\ Consistent(v, K, {}) /\ OnlyFor(w, v, s) /\ SameTurns(w, v)
           /\ v.waiting = w.waiting /\ IsAssigned(v, s)
<1>1. w \in ServerState /\ OnePlace(w.assigned)
  BY ConsistentParts
<1>2. PlacedAs(w, v, s, {[socket |-> s, rover |-> r]})
  BY <1>1, AssignEffect
<1>3. Repinned(w, v, s, {r})
  <2>1. {[socket |-> s, rover |-> p] : p \in {r}} = {[socket |-> s, rover |-> r]}
    OBVIOUS
  <2> QED BY <1>1, <1>2, <2>1, Repinning
<1>4. /\ v \in ServerState /\ Same(w, v) /\ SameTurns(w, v) /\ v.waiting = w.waiting
  BY <1>2 DEF PlacedAs, PlacesAre
<1>5. /\ OnePlace(v.assigned)
      /\ \A x \in Sockets, p \in Rovers : Has(v, x, p) <=> IF x = s THEN p = r ELSE Has(w, x, p)
      /\ \A x \in Sockets : IsAssigned(v, x) <=> x = s \/ IsAssigned(w, x)
  BY <1>3 DEF Repinned
<1>6. Lines(v)
  BY <1>4, ConsistentParts DEF Lines, Queued, SameTurns, Same, IsOnline
<1>7. v.conn = w.conn /\ v.online = w.online /\ v.joined = w.joined /\ v.drivers = w.drivers
      /\ v.room = w.room
  BY <1>4 DEF Same, SameTurns
<1>8. /\ IsInjective(v.online) /\ IsInjective(v.waiting)
      /\ \A x \in Sockets : x \in Range(v.waiting) => ~IsAssigned(v, x)
  BY <1>4, <1>5, <1>7, ConsistentParts
<1>9. \A p \in Rovers, x \in Sockets : x \in v.drivers[p] =>
               /\ p \in Range(v.joined[x])
               /\ x \notin {} => Has(v, x, p)
               /\ v.conn[x] = "up" => x \in v.room[p]
  BY <1>5, <1>7 DEF Consistent, Linked
<1>10. \A x \in Sockets \ K :
               /\ v.conn[x] # "up" /\ v.joined[x] = <<>>
               /\ ~IsAssigned(v, x) /\ x \notin Range(v.waiting)
  BY <1>4, <1>5, <1>7 DEF Consistent, Known
<1>11. \A p \in Rovers, x \in Sockets : x \in v.room[p] => v.conn[x] = "up"
  BY <1>7 DEF Consistent, Known
<1>12. Consistent(v, K, {})
  BY <1>4, <1>5, <1>6, <1>8, <1>9, <1>10, <1>11, ConsistentIf
<1>13. OnlyFor(w, v, s)
  BY <1>4, <1>5, <1>7 DEF OnlyFor
<1> QED BY <1>4, <1>5, <1>12, <1>13

\* A client drives the rover in its entry, and none when it has none.
LEMMA Drives ==
    ASSUME NEW w, NEW K, Consistent(w, K, {}), NEW s \in Sockets
    PROVE  /\ \A r \in Rovers : s \in w.drivers[r] => IsAssigned(w, s) /\ RoverOf(w, s) = r
           /\ IsAssigned(w, s) => RoverOf(w, s) \in Rovers
           /\ \A r \in Rovers : Has(w, s, r) => IsAssigned(w, s) /\ RoverOf(w, s) = r
<1>1. w \in ServerState /\ OnePlace(w.assigned)
  BY ConsistentParts
<1>2. \A r \in Rovers : s \in w.drivers[r] => Has(w, s, r)
  BY DEF Consistent, Linked
<1>3. \A r \in Rovers : Has(w, s, r) => IsAssigned(w, s)
  BY <1>1, Holding
<1> QED BY <1>1, <1>2, <1>3, RoverOfs

\* Taking a client's rover away, with its entry.
LEMMA TakingAway ==
    ASSUME NEW w, NEW K, Consistent(w, K, {}), NEW s \in Sockets, NEW r \in Rovers,
           RoverOf(w, s) = r, NEW v, v = Unassign(Release(w, r, s), s)
    PROVE  /\ Consistent(v, K, {}) /\ OnlyFor(w, v, s) /\ v.waiting = w.waiting
           /\ ~IsAssigned(v, s)
           /\ w.joined[s] = <<>> => v.joined[s] = <<>>
<1> DEFINE u == Release(w, r, s)
<1>1. /\ Consistent(u, K, {}) /\ OnlyFor(w, u, s) /\ u.waiting = w.waiting
      /\ \A p \in Rovers : s \in u.drivers[p] => s \in w.drivers[p] /\ p # r
      /\ w.joined[s] = <<>> => u.joined[s] = <<>>
  BY ReleaseKeeps DEF SamePlaces
<1>2. \A p \in Rovers : s \notin u.drivers[p]
  BY <1>1, Drives
<1> HIDE DEF u
<1>3. /\ Consistent(v, K, {s}) /\ OnlyFor(u, v, s) /\ SameTurns(u, v)
      /\ v.waiting = u.waiting /\ ~IsAssigned(v, s)
  BY <1>1, UnassignKeeps DEF u
<1>4. Consistent(v, K, {})
  BY <1>2, <1>3, Settling DEF SameTurns
<1> QED BY <1>1, <1>3, <1>4, OnlyForTrans DEF SameTurns

\* There is no rover that users may be given; nobody waits for one.
NoneFree(w) == w.mode \in {"admin", "lockdown"} \/ \A r \in Range(w.online) : w.locked[r]
Settled(w) == w.waiting = <<>> \/ NoneFree(w)

LEMMA NoneFreeSame ==
    ASSUME NEW w, NEW v, Same(w, v)
    PROVE  NoneFree(w) <=> NoneFree(v)
BY DEF NoneFree, Same

LEMMA AssignSocketKeeps ==
    ASSUME NEW w, NEW K, Consistent(w, K, {}), NEW s \in Sockets, s \in K,
           NEW v, v = AssignSocket(w, s)
    PROVE  /\ Consistent(v, K, {}) /\ OnlyFor(w, v, s)
           /\ \A p \in Rovers : s \in w.room[p] => s \in v.room[p]
           /\ w.role[s] # "user" \/ IsAssigned(w, s) => v = w
           /\ w.role[s] = "user" => Placed(v, s)
           /\ w.role[s] = "user" /\ ~NoneFree(w) => s \notin Range(v.waiting)
           /\ Range(v.waiting) \subseteq Range(w.waiting) \cup {s}
           /\ Settled(w) => Settled(v)
<1> DEFINE r == PickRover(w)
<1>1. /\ w \in ServerState /\ OnlyFor(w, w, s) /\ Same(w, w)
      /\ \A x \in Range(w.waiting) : ~IsAssigned(w, x)
  BY ConsistentParts DEF OnlyFor, Same
<1>2. /\ r = NoRover <=> NoneFree(w)
      /\ r # NoRover => r \in Rovers /\ IsOnline(w, r)
  BY <1>1, PickedRover DEF NoneFree, IsOnline
<1> HIDE DEF r
<1>3. CASE w.role[s] # "user" \/ IsAssigned(w, s)
  <2>1. v = w
    BY <1>3 DEF AssignSocket
  <2> QED BY <1>1, <1>3, <2>1 DEF Placed
<1>4. CASE ~(w.role[s] # "user" \/ IsAssigned(w, s)) /\ r = NoRover
  <2>1. v = Wait(w, s)
    BY <1>4 DEF AssignSocket, r
  <2>2. /\ Consistent(v, K, {}) /\ OnlyFor(w, v, s) /\ SameTurns(w, v)
        /\ v.assigned = w.assigned
        /\ Range(v.waiting) = Range(w.waiting) \cup {s}
    BY <1>4, <2>1, WaitKeeps
  <2>3. v.room = w.room /\ Same(w, v) /\ Placed(v, s)
    BY <2>2 DEF SameTurns, OnlyFor, Placed
  <2>4. NoneFree(w) /\ Settled(v)
    BY <1>2, <1>4, <2>3, NoneFreeSame DEF Settled
  <2> QED BY <1>4, <2>2, <2>3, <2>4
<1>5. CASE ~(w.role[s] # "user" \/ IsAssigned(w, s)) /\ r # NoRover
  <2> DEFINE g == Grant(w, r, s, FALSE)
             u == StopWaiting(g, s)
  <2>1. v = Assign(u, s, r)
    BY <1>5 DEF AssignSocket, r
  <2>2. /\ Consistent(g, K, {s}) /\ OnlyFor(w, g, s) /\ SamePlaces(w, g)
        /\ \A p \in Rovers : /\ s \in g.drivers[p] => s \in w.drivers[p] \/ p = r
                             /\ s \in w.room[p] => s \in g.room[p]
    BY <1>2, <1>5, GrantKeeps
  <2>3. \A p \in Rovers : s \notin w.drivers[p]
    BY <1>5, Drives
  <2> HIDE DEF g
  <2>4. /\ Consistent(u, K, {s}) /\ OnlyFor(g, u, s) /\ SameTurns(g, u)
        /\ s \notin Range(u.waiting) /\ Range(u.waiting) \subseteq Range(g.waiting)
        /\ g.waiting = <<>> => u.waiting = <<>>
    BY <2>2, StopWaitingKeeps
  <2> HIDE DEF u
  <2>5. \A p \in Rovers : s \in u.drivers[p] => p = r
    BY <2>2, <2>3, <2>4 DEF SameTurns
  <2>6. /\ Consistent(v, K, {}) /\ OnlyFor(u, v, s) /\ SameTurns(u, v)
        /\ v.waiting = u.waiting /\ IsAssigned(v, s)
    BY <1>2, <1>5, <2>1, <2>4, <2>5, AssignKeeps
  <2>7. OnlyFor(w, v, s)
    BY <2>2, <2>4, <2>6, OnlyForTrans
  <2>8. /\ Range(v.waiting) \subseteq Range(w.waiting) /\ s \notin Range(v.waiting)
        /\ w.waiting = <<>> => v.waiting = <<>>
    BY <2>2, <2>4, <2>6 DEF SamePlaces
  <2>9. v.room = g.room /\ Placed(v, s)
    BY <2>4, <2>6 DEF SameTurns, Placed
  <2>10. Settled(w) => Settled(v)
    BY <2>7, <2>8, NoneFreeSame DEF Settled, OnlyFor
  <2> QED BY <1>5, <2>2, <2>6, <2>7, <2>8, <2>9, <2>10
<1> QED BY <1>3, <1>4, <1>5

LEMMA UnassignSocketKeeps ==
    ASSUME NEW w, NEW K, Consistent(w, K, {}), NEW s \in Sockets,
           NEW v, v = UnassignSocket(w, s)
    PROVE  /\ Consistent(v, K, {}) /\ OnlyFor(w, v, s)
           /\ ~IsAssigned(v, s) /\ s \notin Range(v.waiting)
           /\ Settled(w) => Settled(v)
           /\ w.joined[s] = <<>> => v.joined[s] = <<>>
<1> DEFINE u == StopWaiting(w, s)
<1>1. /\ Consistent(u, K, {}) /\ OnlyFor(w, u, s) /\ u.assigned = w.assigned
      /\ u.joined = w.joined
      /\ s \notin Range(u.waiting)
      /\ w.waiting = <<>> => u.waiting = <<>>
  BY StopWaitingKeeps DEF SameTurns
<1>2. v = IF IsAssigned(w, s) THEN Unassign(Release(u, RoverOf(w, s), s), s) ELSE u
  BY DEF UnassignSocket
<1> HIDE DEF u
<1>3. RoverOf(u, s) = RoverOf(w, s) /\ (IsAssigned(u, s) <=> IsAssigned(w, s))
  BY <1>1 DEF RoverOf, IsAssigned
<1>4. CASE IsAssigned(w, s)
  <2>1. RoverOf(u, s) \in Rovers /\ v = Unassign(Release(u, RoverOf(u, s), s), s)
    BY <1>1, <1>2, <1>3, <1>4, Drives
  <2>2. /\ Consistent(v, K, {}) /\ OnlyFor(u, v, s) /\ v.waiting = u.waiting
        /\ ~IsAssigned(v, s)
        /\ u.joined[s] = <<>> => v.joined[s] = <<>>
    BY <1>1, <2>1, TakingAway
  <2>3. OnlyFor(w, v, s)
    BY <1>1, <2>2, OnlyForTrans
  <2>4. Settled(w) => Settled(v)
    BY <1>1, <2>2, <2>3, NoneFreeSame DEF Settled, OnlyFor
  <2> QED BY <1>1, <2>2, <2>3, <2>4
<1>5. CASE ~IsAssigned(w, s)
  <2>1. v = u
    BY <1>2, <1>5
  <2>2. Settled(w) => Settled(v)
    BY <1>1, <2>1, NoneFreeSame DEF Settled, OnlyFor
  <2> QED BY <1>1, <1>3, <1>5, <2>1, <2>2
<1> QED BY <1>4, <1>5

-----------------------------------------------------------------------------
(* What the functions keep of the type of the state, whatever it is.       *)

LEMMA SmallTyped ==
    ASSUME NEW w \in ServerState, NEW s \in Sockets
    PROVE  /\ Unassign(w, s) \in ServerState
           /\ Wait(w, s) \in ServerState /\ StopWaiting(w, s) \in ServerState
           /\ \A r \in Rovers : /\ Assign(w, s, r) \in ServerState
                                /\ Release(w, r, s) \in ServerState
                                /\ Grant(w, r, s, FALSE) \in ServerState
<1>1. Unassign(w, s) \in ServerState
  BY UnassignEffect DEF PlacedAs, PlacesAre
<1>2. Wait(w, s) \in ServerState /\ StopWaiting(w, s) \in ServerState
  BY WaitEffect, StopWaitingEffect DEF PlacesAre
<1>3. ASSUME NEW r \in Rovers
      PROVE  /\ Assign(w, s, r) \in ServerState
             /\ Release(w, r, s) \in ServerState
             /\ Grant(w, r, s, FALSE) \in ServerState
  <2>1. Assign(w, s, r) \in ServerState
    BY AssignEffect DEF PlacedAs, PlacesAre
  <2>2. Release(w, r, s) \in ServerState
    BY ReleaseEffect DEF Released
  <2>3. Grant(w, r, s, FALSE) \in ServerState
    BY GrantEffect DEF Granted
  <2> QED BY <2>1, <2>2, <2>3
<1> QED BY <1>1, <1>2, <1>3

LEMMA SocketTyped ==
    ASSUME NEW w \in ServerState, NEW s \in Sockets
    PROVE  AssignSocket(w, s) \in ServerState /\ UnassignSocket(w, s) \in ServerState
<1>1. AssignSocket(w, s) \in ServerState
  <2>1. CASE PickRover(w) \in Rovers
    <3> DEFINE g == Grant(w, PickRover(w), s, FALSE)
               u == StopWaiting(g, s)
    <3>1. g \in ServerState
      BY <2>1, SmallTyped
    <3> HIDE DEF g
    <3>2. u \in ServerState
      BY <3>1, SmallTyped
    <3> HIDE DEF u
    <3>3. Assign(u, s, PickRover(w)) \in ServerState
      BY <2>1, <3>2, SmallTyped
    <3>4. AssignSocket(w, s) \in {w, Wait(w, s), Assign(u, s, PickRover(w))}
      BY DEF AssignSocket, g, u
    <3> QED BY <3>3, <3>4, SmallTyped
  <2>2. CASE PickRover(w) = NoRover
    <3>1. AssignSocket(w, s) \in {w, Wait(w, s)}
      BY <2>2 DEF AssignSocket
    <3> QED BY <3>1, SmallTyped
  <2> QED BY <2>1, <2>2, PickedRover
<1>2. UnassignSocket(w, s) \in ServerState
  <2> DEFINE u == StopWaiting(w, s)
             r == RoverOf(w, s)
             v == Release(u, r, s)
  <2>1. u \in ServerState
    BY SmallTyped
  <2>2. IsAssigned(w, s) => r \in Rovers
    <3> SUFFICES ASSUME IsAssigned(w, s) PROVE r \in Rovers
      OBVIOUS
    <3> DEFINE a == CHOOSE a \in Range(w.assigned) : a.socket = s
    <3>1. a \in Range(w.assigned)
      BY DEF IsAssigned
    <3>2. r = a.rover
      BY DEF RoverOf
    <3> HIDE DEF a
    <3>3. a \in Assignment
      BY <3>1 DEF ServerState, Range
    <3> QED BY <3>2, <3>3 DEF Assignment
  <2> HIDE DEF u, r
  <2>3. IsAssigned(w, s) => v \in ServerState
    BY <2>1, <2>2, SmallTyped
  <2> HIDE DEF v
  <2>4. IsAssigned(w, s) => Unassign(v, s) \in ServerState
    BY <2>3, SmallTyped
  <2>5. UnassignSocket(w, s) = IF IsAssigned(w, s) THEN Unassign(v, s) ELSE u
    BY DEF UnassignSocket, u, v, r
  <2> QED BY <2>1, <2>4, <2>5
<1> QED BY <1>1, <1>2

LEMMA StepsTyped ==
    ASSUME NEW w \in ServerState
    PROVE  /\ \A s \in Sockets : PlaceWaiting(w, s) \in ServerState
           /\ \A r : \A a \in Assignment : MoveFrom(w, r, a) \in ServerState
           /\ \A a \in Assignment : PutBack(w, a) \in ServerState
           /\ \A r : \A p \in Rovers, s \in Sockets : ReleaseOther(w, p, r, s) \in ServerState
<1>1. \A s \in Sockets : PlaceWaiting(w, s) \in ServerState
  BY SocketTyped, SmallTyped DEF PlaceWaiting
<1>2. ASSUME NEW a \in Assignment, NEW r
      PROVE  MoveFrom(w, r, a) \in ServerState /\ PutBack(w, a) \in ServerState
  <2>1. a.socket \in Sockets /\ a.rover \in Rovers
    BY DEF Assignment
  <2>2. ASSUME NEW p \in Rovers
        PROVE  Unassign(Release(w, p, a.socket), a.socket) \in ServerState
    <3> DEFINE u == Release(w, p, a.socket)
    <3>1. u \in ServerState
      BY <2>1, SmallTyped
    <3> HIDE DEF u
    <3>2. Unassign(u, a.socket) \in ServerState
      BY <2>1, <3>1, SmallTyped
    <3> QED BY <3>2 DEF u
  <2>3. Unassign(w, a.socket) \in ServerState
    BY <2>1, SmallTyped
  <2>4. MoveFrom(w, r, a) \in ServerState
    <3> DEFINE u == Unassign(Release(w, r, a.socket), a.socket)
    <3>1. r \in Rovers => u \in ServerState
      BY <2>2
    <3> HIDE DEF u
    <3>2. r \in Rovers => AssignSocket(u, a.socket) \in ServerState
      BY <2>1, <3>1, SocketTyped
    <3>3. \/ MoveFrom(w, r, a) \in {w, Unassign(w, a.socket)}
          \/ r \in Rovers /\ MoveFrom(w, r, a) = AssignSocket(u, a.socket)
      BY <2>1 DEF MoveFrom, u
    <3> QED BY <2>3, <3>2, <3>3
  <2>5. PutBack(w, a) \in ServerState
    <3> DEFINE u == Unassign(Release(w, a.rover, a.socket), a.socket)
    <3>1. u \in ServerState
      BY <2>1, <2>2
    <3> HIDE DEF u
    <3>2. Wait(u, a.socket) \in ServerState
      BY <2>1, <3>1, SmallTyped
    <3>3. PutBack(w, a) \in {w, Wait(u, a.socket)}
      BY DEF PutBack, u
    <3> QED BY <3>2, <3>3
  <2> QED BY <2>4, <2>5
<1>3. \A r : \A p \in Rovers, s \in Sockets : ReleaseOther(w, p, r, s) \in ServerState
  BY SmallTyped DEF ReleaseOther
<1> QED BY <1>1, <1>2, <1>3

-----------------------------------------------------------------------------
(* The loops over those who wait and over those who have a rover.          *)

\* Users that have a rover or wait for one go on to, and spectators hear the
\* rovers they heard.
Kept(w, v) ==
    /\ Same(w, v)
    /\ \A x \in Sockets :
          /\ w.role[x] = "user" /\ Placed(w, x) => Placed(v, x)
          /\ w.role[x] = "spectator" => \A r \in Rovers : x \in w.room[r] => x \in v.room[r]

LEMMA KeptTrans ==
    ASSUME NEW u, NEW w, NEW v, Kept(u, w), Kept(w, v)
    PROVE  Kept(u, v)
BY DEF Kept, Same

LEMMA KeptFor ==
    ASSUME NEW w, NEW v, NEW s \in Sockets, OnlyFor(w, v, s),
           w.role[s] = "user" /\ Placed(w, s) => Placed(v, s),
           w.role[s] = "spectator" => \A r \in Rovers : s \in w.room[r] => s \in v.room[r]
    PROVE  Kept(w, v)
BY DEF Kept, OnlyFor, Placed

LEMMA RolesFitFor ==
    ASSUME NEW w, NEW v, NEW s \in Sockets, OnlyFor(w, v, s), RoleFits(v, s),
           \A x \in Sockets : RoleFits(w, x)
    PROVE  \A x \in Sockets : RoleFits(v, x)
<1> SUFFICES ASSUME NEW x \in Sockets, x # s PROVE RoleFits(v, x)
  OBVIOUS
<1>1. RoleFits(w, x)
  OBVIOUS
<1> QED BY <1>1 DEF RoleFits, OnlyFor, Same

LEMMA AssignSocketSound ==
    ASSUME NEW w, NEW K, Sound(w, K), NEW s \in Sockets, s \in K,
           NEW v, v = AssignSocket(w, s)
    PROVE  Sound(v, K) /\ Kept(w, v)
<1>1. Consistent(w, K, {}) /\ \A x \in Sockets : RoleFits(w, x)
  BY DEF Sound
<1>2. /\ Consistent(v, K, {}) /\ OnlyFor(w, v, s)
      /\ \A p \in Rovers : s \in w.room[p] => s \in v.room[p]
      /\ w.role[s] # "user" \/ IsAssigned(w, s) => v = w
      /\ w.role[s] = "user" => Placed(v, s)
      /\ Range(v.waiting) \subseteq Range(w.waiting) \cup {s}
  BY <1>1, AssignSocketKeeps
<1>3. RoleFits(v, s)
  <2>1. CASE w.role[s] = "user"
    BY <1>1, <1>2, <2>1 DEF RoleFits, OnlyFor, Same
  <2>2. CASE w.role[s] # "user"
    BY <1>1, <1>2, <2>2
  <2> QED BY <2>1, <2>2
<1>4. \A x \in Sockets : RoleFits(v, x)
  BY <1>1, <1>2, <1>3, RolesFitFor
<1>5. Kept(w, v)
  BY <1>2, KeptFor
<1> QED BY <1>2, <1>4, <1>5 DEF Sound

\* After k of those who waited in w have been tried.
Served(w, u, k) ==
    /\ Sound(u, w.refs) /\ Kept(w, u)
    /\ Range(u.waiting) \subseteq Range(w.waiting)
    /\ NoneFree(w) \/ \A j \in 1..k : w.waiting[j] \notin Range(u.waiting)

LEMMA PlaceWaitingServes ==
    ASSUME NEW w \in ServerState, NEW k \in 1..Len(w.waiting), NEW u,
           Served(w, u, k - 1), NEW v, v = PlaceWaiting(u, w.waiting[k])
    PROVE  Served(w, v, k)
<1> DEFINE s == w.waiting[k]
<1>1. s \in Sockets /\ s \in Range(w.waiting) /\ k \in Nat /\ k - 1 \in Nat
  BY DEF ServerState, Range
<1> HIDE DEF s
<1>2. /\ Sound(u, w.refs) /\ Kept(w, u) /\ Range(u.waiting) \subseteq Range(w.waiting)
      /\ NoneFree(w) \/ \A j \in 1..(k - 1) : w.waiting[j] \notin Range(u.waiting)
  BY DEF Served
<1>3. Consistent(u, w.refs, {}) /\ u.refs = w.refs /\ RoleFits(u, s)
  BY <1>1, <1>2 DEF Sound, Kept, Same
<1>4. v = IF s \in u.refs THEN AssignSocket(u, s) ELSE StopWaiting(u, s)
  BY DEF PlaceWaiting, s
<1>5. CASE s \in w.refs
  <2>1. v = AssignSocket(u, s)
    BY <1>3, <1>4, <1>5
  <2>2. Sound(v, w.refs) /\ Kept(u, v)
    BY <1>1, <1>2, <1>5, <2>1, AssignSocketSound
  <2>3. /\ u.role[s] # "user" \/ IsAssigned(u, s) => v = u
        /\ u.role[s] = "user" /\ ~NoneFree(u) => s \notin Range(v.waiting)
        /\ Range(v.waiting) \subseteq Range(u.waiting) \cup {s}
    BY <1>1, <1>3, <1>5, <2>1, AssignSocketKeeps, SMTT(60)
  <2>4. Kept(w, v)
    BY <1>2, <2>2, KeptTrans
  <2>5. NoneFree(w) <=> NoneFree(u)
    BY <1>2, NoneFreeSame DEF Kept
  <2>6. Range(v.waiting) \subseteq Range(w.waiting)
    BY <1>1, <1>2, <2>3
  <2>7. ~NoneFree(w) => s \notin Range(v.waiting)
    BY <1>3, <2>3, <2>5 DEF RoleFits
  <2>8. NoneFree(w) \/ \A j \in 1..k : w.waiting[j] \notin Range(v.waiting)
    <3> SUFFICES ASSUME ~NoneFree(w), NEW j \in 1..k
                 PROVE  w.waiting[j] \notin Range(v.waiting)
      OBVIOUS
    <3>1. CASE j = k
      BY <2>7, <3>1 DEF s
    <3>2. CASE j # k
      <4>1. j \in 1..(k - 1)
        BY <1>1, <3>2
      <4>2. w.waiting[j] \notin Range(u.waiting)
        BY <1>2, <4>1
      <4> QED BY <2>3, <2>7, <4>2
    <3> QED BY <3>1, <3>2
  <2> QED BY <2>2, <2>4, <2>6, <2>8 DEF Served
<1>6. CASE s \notin w.refs
  <2>1. s \notin Range(u.waiting)
    BY <1>1, <1>3, <1>6 DEF Consistent, Known
  <2>2. u \in ServerState /\ u.waiting \in Seq(Sockets)
    BY <1>3, ConsistentParts DEF ServerState
  <2>3. v = StopWaiting(u, s)
    BY <1>3, <1>4, <1>6
  <2>4. v = u
    <3>1. Dropped(u.waiting, s) = u.waiting
      BY <1>1, <2>1, <2>2, SocketLists DEF Shrunk
    <3>2. v = [u EXCEPT !.waiting = u.waiting]
      BY <2>3, <3>1 DEF StopWaiting
    <3> QED BY <2>2, <3>2 DEF ServerState
  <2>5. NoneFree(w) \/ \A j \in 1..k : w.waiting[j] \notin Range(v.waiting)
    <3> SUFFICES ASSUME ~NoneFree(w), NEW j \in 1..k
                 PROVE  w.waiting[j] \notin Range(v.waiting)
      OBVIOUS
    <3>1. CASE j = k
      BY <2>1, <2>4, <3>1 DEF s
    <3>2. CASE j # k
      <4>1. j \in 1..(k - 1)
        BY <1>1, <3>2
      <4> QED BY <1>2, <2>4, <4>1
    <3> QED BY <3>1, <3>2
  <2> QED BY <1>2, <2>4, <2>5 DEF Served
<1> QED BY <1>5, <1>6

LEMMA ReassignWaitingSound ==
    ASSUME NEW w, Sound(w, w.refs), NEW v, v = ReassignWaiting(w)
    PROVE  Sound(v, w.refs) /\ Kept(w, v) /\ Settled(v)
<1> DEFINE q == w.waiting
           n == Len(q)
<1>1. w \in ServerState /\ q \in Seq(Sockets) /\ n \in Nat
  BY DEF Sound, Consistent, ServerState
<1>2. PICK c : /\ c[0] = w
               /\ \A k \in 1..n : c[k] = PlaceWaiting(c[k - 1], q[k])
               /\ FoldLeft(PlaceWaiting, w, q) = c[n]
  <2>1. \A u \in ServerState, x \in Sockets : PlaceWaiting(u, x) \in ServerState
    BY StepsTyped
  <2> QED BY <1>1, <2>1, PlaceWaitingChain
<1> DEFINE G == [k \in 0..n |-> {u \in ServerState : Served(w, u, k)}]
<1>3. c[0] \in G[0]
  <2>1. Served(w, w, 0)
    BY DEF Served, Kept, Same
  <2> QED BY <1>1, <1>2, <2>1
<1>4. ASSUME NEW k \in 1..n, c[k - 1] \in G[k - 1] PROVE c[k] \in G[k]
  <2>1. k - 1 \in 0..n /\ k \in 0..n
    BY <1>1
  <2>2. c[k - 1] \in ServerState /\ Served(w, c[k - 1], k - 1)
    BY <1>4, <2>1
  <2>3. c[k] = PlaceWaiting(c[k - 1], q[k])
    BY <1>2
  <2>4. Served(w, c[k], k)
    BY <1>1, <2>2, <2>3, PlaceWaitingServes
  <2>5. c[k] \in ServerState
    BY <2>4 DEF Served, Sound, Consistent
  <2> QED BY <2>1, <2>4, <2>5
<1> HIDE DEF G
<1>5. c[n] \in G[n]
  <2>1. Chained(c, G, n)
    BY <1>3, <1>4 DEF Chained
  <2> QED BY <1>1, <2>1, ChainInduction
<1>6. v = c[n]
  BY <1>2 DEF ReassignWaiting
<1>7. Served(w, v, n)
  BY <1>1, <1>5, <1>6 DEF G
<1>8. Settled(v)
  <2> SUFFICES ASSUME v.waiting # <<>>, ~NoneFree(v) PROVE FALSE
    BY DEF Settled
  <2>1. v.waiting \in Seq(Sockets)
    BY <1>7 DEF Served, Sound, Consistent, ServerState
  <2>2. Head(v.waiting) \in Range(v.waiting)
    BY <2>1, Heads DEF HeadOf
  <2>3. Head(v.waiting) \in Range(q)
    BY <1>7, <2>2 DEF Served
  <2>4. PICK j \in 1..n : Head(v.waiting) = q[j]
    BY <1>1, <2>3 DEF Range
  <2>5. ~NoneFree(w)
    BY <1>7, NoneFreeSame DEF Served, Kept
  <2> QED BY <1>7, <2>2, <2>4, <2>5 DEF Served
<1> QED BY <1>7, <1>8 DEF Served

\* The clients after the k-th of those that had a rover in w have it still.
Untouched(w, u, k) ==
    \A j \in (k + 1)..Len(w.assigned) : w.assigned[j] \in Range(u.assigned)

\* The k-th of those that have a rover, as a loop over them finds it.
LEMMA NextEntry ==
    ASSUME NEW w, NEW u, Sound(w, w.refs), Sound(u, w.refs), NEW k \in 1..Len(w.assigned),
           NEW a, a = w.assigned[k], Same(w, u), Untouched(w, u, k - 1)
    PROVE  /\ a.socket \in Sockets /\ a.rover \in Rovers /\ a.socket \in u.refs
           /\ IsAssigned(u, a.socket) /\ RoverOf(u, a.socket) = a.rover
           /\ u.role[a.socket] \notin {"spectator", "none"}
           /\ a.socket \notin Range(u.waiting)
           /\ Untouched(w, u, k)
           /\ \A j \in (k + 1)..Len(w.assigned) : w.assigned[j].socket # a.socket
<1> DEFINE s == a.socket
           r == a.rover
<1>1. /\ w \in ServerState /\ u \in ServerState /\ OnePlace(w.assigned)
      /\ w.assigned \in Seq(Assignment) /\ Len(w.assigned) \in Nat
      /\ DOMAIN w.assigned = 1..Len(w.assigned)
  <2>1. w \in ServerState /\ u \in ServerState /\ OnePlace(w.assigned)
    BY DEF Sound, Consistent, Entries
  <2> QED BY <2>1 DEF ServerState
<1>2. a \in Assignment
  BY <1>1
<1>3. s \in Sockets /\ r \in Rovers /\ a = [socket |-> s, rover |-> r]
  BY <1>2 DEF Assignment
<1>4. k \in Nat /\ k - 1 \in Nat /\ k \in ((k - 1) + 1)..Len(w.assigned)
  BY <1>1
<1>5. Has(u, s, r)
  BY <1>3, <1>4 DEF Has, Untouched
<1>6. Untouched(w, u, k)
  <2>1. \A j \in (k + 1)..Len(w.assigned) : j \in ((k - 1) + 1)..Len(w.assigned)
    BY <1>1, <1>4
  <2> QED BY <2>1 DEF Untouched
<1>7. \A j \in (k + 1)..Len(w.assigned) : w.assigned[j].socket # s
  <2>1. \A j \in (k + 1)..Len(w.assigned) :
          j # k /\ j \in DOMAIN w.assigned /\ k \in DOMAIN w.assigned
    BY <1>1, <1>4
  <2> QED BY <1>1, <2>1 DEF OnePlace
<1> HIDE DEF s, r
<1>8. Consistent(u, w.refs, {}) /\ RoleFits(u, s) /\ u.refs = w.refs
  BY <1>3 DEF Sound, Same
<1>9. IsAssigned(u, s) /\ RoverOf(u, s) = r
  BY <1>3, <1>5, <1>8, Drives
<1>10. s \in u.refs
  BY <1>3, <1>8, <1>9 DEF Consistent, Known
<1>11. s \notin Range(u.waiting)
  BY <1>8, <1>9, ConsistentParts
<1>12. u.role[s] \notin {"spectator", "none"}
  BY <1>8, <1>9, <1>10 DEF RoleFits
<1> QED BY <1>3, <1>6, <1>7, <1>9, <1>10, <1>11, <1>12 DEF s, r

\* A step that only touches the k-th leaves those after it.
LEMMA UntouchedFor ==
    ASSUME NEW w \in ServerState, NEW u, NEW v, NEW k \in 1..Len(w.assigned), NEW s,
           Untouched(w, u, k), OnlyFor(u, v, s),
           \A j \in (k + 1)..Len(w.assigned) : w.assigned[j].socket # s
    PROVE  Untouched(w, v, k)
<1> SUFFICES ASSUME NEW j \in (k + 1)..Len(w.assigned)
             PROVE  w.assigned[j] \in Range(v.assigned)
  BY DEF Untouched
<1> DEFINE a == w.assigned[j]
<1>1. a \in Assignment
  <2>1. w.assigned \in Seq(Assignment) /\ Len(w.assigned) \in Nat
    BY DEF ServerState
  <2>2. j \in 1..Len(w.assigned)
    BY <2>1
  <2> QED BY <2>1, <2>2
<1>2. a.socket \in Sockets /\ a.rover \in Rovers /\ a = [socket |-> a.socket, rover |-> a.rover]
  BY <1>1 DEF Assignment
<1>3. a \in Range(u.assigned) /\ a.socket # s
  BY DEF Untouched
<1> HIDE DEF a
<1>4. Has(u, a.socket, a.rover)
  BY <1>2, <1>3 DEF Has
<1>5. Has(v, a.socket, a.rover)
  BY <1>2, <1>3, <1>4 DEF OnlyFor
<1>6. a \in Range(v.assigned)
  BY <1>2, <1>5 DEF Has
<1> QED BY <1>6 DEF a

\* One client that had a rover is given another, or put back to waiting.
LEMMA Moving ==
    ASSUME NEW u, NEW K, Sound(u, K), NEW s \in Sockets, s \in K, NEW r \in Rovers,
           RoverOf(u, s) = r, u.role[s] # "spectator",
           NEW y, y = Unassign(Release(u, r, s), s), NEW v, v = AssignSocket(y, s)
    PROVE  Sound(v, K) /\ OnlyFor(u, v, s) /\ Kept(u, v) /\ (Settled(u) => Settled(v))
<1>1. Consistent(u, K, {}) /\ \A x \in Sockets : RoleFits(u, x)
  BY DEF Sound
<1>2. /\ Consistent(y, K, {}) /\ OnlyFor(u, y, s) /\ y.waiting = u.waiting
      /\ ~IsAssigned(y, s)
  BY <1>1, TakingAway
<1>3. /\ Consistent(v, K, {}) /\ OnlyFor(y, v, s)
      /\ y.role[s] = "user" => Placed(v, s)
      /\ y.role[s] # "user" => v = y
      /\ Range(v.waiting) \subseteq Range(y.waiting) \cup {s}
      /\ Settled(y) => Settled(v)
  BY <1>2, AssignSocketKeeps, SMTT(60)
<1>4. OnlyFor(u, v, s)
  BY <1>2, <1>3, OnlyForTrans
<1>5. Settled(u) => Settled(v)
  BY <1>2, <1>3, NoneFreeSame DEF Settled, OnlyFor
<1>6. y.role = u.role /\ v.role = u.role /\ v.refs = u.refs /\ v.conn = u.conn
  BY <1>2, <1>4 DEF OnlyFor, Same
<1>7. RoleFits(v, s)
  BY <1>1, <1>2, <1>3, <1>6 DEF RoleFits
<1>8. \A x \in Sockets : RoleFits(v, x)
  BY <1>1, <1>4, <1>7, RolesFitFor
<1>9. Kept(u, v)
  BY <1>3, <1>4, <1>6, KeptFor
<1> QED BY <1>3, <1>4, <1>5, <1>8, <1>9 DEF Sound

LEMMA PuttingBack ==
    ASSUME NEW u, NEW K, Sound(u, K), NEW s \in Sockets, s \in K, NEW r \in Rovers,
           RoverOf(u, s) = r, u.role[s] = "user",
           NEW y, y = Unassign(Release(u, r, s), s), NEW v, v = Wait(y, s)
    PROVE  Sound(v, K) /\ OnlyFor(u, v, s) /\ Kept(u, v)
<1>1. Consistent(u, K, {}) /\ \A x \in Sockets : RoleFits(u, x)
  BY DEF Sound
<1>2. /\ Consistent(y, K, {}) /\ OnlyFor(u, y, s) /\ y.waiting = u.waiting
      /\ ~IsAssigned(y, s)
  BY <1>1, TakingAway
<1>3. /\ Consistent(v, K, {}) /\ OnlyFor(y, v, s) /\ v.assigned = y.assigned
      /\ Range(v.waiting) = Range(y.waiting) \cup {s}
  BY <1>2, WaitKeeps
<1>4. OnlyFor(u, v, s)
  BY <1>2, <1>3, OnlyForTrans
<1>5. v.role = u.role /\ v.refs = u.refs /\ v.conn = u.conn /\ Placed(v, s)
  BY <1>3, <1>4 DEF OnlyFor, Same, Placed
<1>6. RoleFits(v, s)
  BY <1>1, <1>5 DEF RoleFits
<1>7. \A x \in Sockets : RoleFits(v, x)
  BY <1>1, <1>4, <1>6, RolesFitFor
<1>8. Kept(u, v)
  BY <1>4, <1>5, KeptFor
<1> QED BY <1>3, <1>4, <1>7, <1>8 DEF Sound

\* After k of those who had a rover in w have been moved from rover r.
Moved(w, u, k) ==
    Sound(u, w.refs) /\ Kept(w, u) /\ Settled(u) /\ Untouched(w, u, k)

LEMMA MoveFromMoves ==
    ASSUME NEW w, Sound(w, w.refs), NEW r, NEW k \in 1..Len(w.assigned), NEW u,
           Moved(w, u, k - 1), NEW v, v = MoveFrom(u, r, w.assigned[k])
    PROVE  Moved(w, v, k)
<1> DEFINE a == w.assigned[k]
           s == a.socket
<1>1. Sound(u, w.refs) /\ Kept(w, u) /\ Settled(u) /\ Same(w, u) /\ w \in ServerState
  BY DEF Moved, Kept, Sound, Consistent
<1>2. /\ s \in Sockets /\ a.rover \in Rovers /\ s \in u.refs
      /\ IsAssigned(u, s) /\ RoverOf(u, s) = a.rover
      /\ u.role[s] \notin {"spectator", "none"} /\ s \notin Range(u.waiting)
      /\ Untouched(w, u, k)
      /\ \A j \in (k + 1)..Len(w.assigned) : w.assigned[j].socket # s
  <2>1. Untouched(w, u, k - 1)
    BY DEF Moved
  <2> QED BY <1>1, <2>1, NextEntry
<1>3. CASE a.rover # r
  <2>1. v = u
    BY <1>3 DEF MoveFrom
  <2> QED BY <1>1, <1>2, <2>1 DEF Moved
<1>4. CASE a.rover = r
  <2> DEFINE y == Unassign(Release(u, r, s), s)
  <2>1. v = AssignSocket(y, s)
    BY <1>2, <1>4 DEF MoveFrom
  <2> HIDE DEF a, s
  <2>2. s \in Sockets /\ r \in Rovers /\ s \in w.refs /\ RoverOf(u, s) = r
        /\ u.role[s] # "spectator"
    BY <1>1, <1>2, <1>4 DEF Same
  <2>3. Sound(v, w.refs) /\ OnlyFor(u, v, s) /\ Kept(u, v) /\ (Settled(u) => Settled(v))
    BY <1>1, <2>1, <2>2, Moving
  <2>4. Kept(w, v)
    BY <1>1, <2>3, KeptTrans
  <2>5. Untouched(w, v, k)
    BY <1>1, <1>2, <2>3, UntouchedFor
  <2> QED BY <1>1, <2>3, <2>4, <2>5 DEF Moved
<1> QED BY <1>3, <1>4

LEMMA ReassignFromSound ==
    ASSUME NEW w, Sound(w, w.refs), Settled(w), NEW r, NEW v, v = ReassignFromRover(w, r)
    PROVE  Sound(v, w.refs) /\ Kept(w, v) /\ Settled(v)
<1> DEFINE q == w.assigned
           n == Len(q)
<1>1. w \in ServerState /\ q \in Seq(Assignment) /\ n \in Nat
  BY DEF Sound, Consistent, ServerState
<1>2. PICK c : /\ c[0] = w
               /\ \A k \in 1..n : c[k] = MoveFrom(c[k - 1], r, q[k])
               /\ v = c[n]
  <2>1. \A u \in ServerState, x \in Assignment : MoveFrom(u, r, x) \in ServerState
    BY StepsTyped
  <2> QED BY <1>1, <2>1, MoveFromChain
<1> DEFINE G == [k \in 0..n |-> {u \in ServerState : Moved(w, u, k)}]
<1>3. c[0] \in G[0]
  <2>1. Untouched(w, w, 0)
    BY <1>1 DEF Untouched, Range
  <2>2. Moved(w, w, 0)
    BY <2>1 DEF Moved, Kept, Same
  <2> QED BY <1>1, <1>2, <2>2
<1>4. ASSUME NEW k \in 1..n, c[k - 1] \in G[k - 1] PROVE c[k] \in G[k]
  <2>1. k - 1 \in 0..n /\ k \in 0..n
    BY <1>1
  <2>2. Moved(w, c[k - 1], k - 1)
    BY <1>4, <2>1
  <2>3. c[k] = MoveFrom(c[k - 1], r, q[k])
    BY <1>2
  <2>4. Moved(w, c[k], k)
    BY <1>1, <2>2, <2>3, MoveFromMoves
  <2>5. c[k] \in ServerState
    BY <2>4 DEF Moved, Sound, Consistent
  <2> QED BY <2>1, <2>4, <2>5
<1> HIDE DEF G
<1>5. c[n] \in G[n]
  <2>1. Chained(c, G, n)
    BY <1>3, <1>4 DEF Chained
  <2> QED BY <1>1, <2>1, ChainInduction
<1>6. Moved(w, v, n)
  BY <1>1, <1>2, <1>5 DEF G
<1> QED BY <1>6 DEF Moved

\* After k of those who had a rover in w have been put back.
Away(w, u, k) == Sound(u, w.refs) /\ Kept(w, u) /\ Untouched(w, u, k)

LEMMA PutBackPuts ==
    ASSUME NEW w, Sound(w, w.refs), NEW k \in 1..Len(w.assigned), NEW u,
           Away(w, u, k - 1), NEW v, v = PutBack(u, w.assigned[k])
    PROVE  Away(w, v, k)
<1> DEFINE a == w.assigned[k]
           s == a.socket
<1>1. Sound(u, w.refs) /\ Kept(w, u) /\ Same(w, u) /\ w \in ServerState
  BY DEF Away, Kept, Sound, Consistent
<1>2. /\ s \in Sockets /\ a.rover \in Rovers /\ s \in u.refs
      /\ IsAssigned(u, s) /\ RoverOf(u, s) = a.rover
      /\ u.role[s] \notin {"spectator", "none"} /\ s \notin Range(u.waiting)
      /\ Untouched(w, u, k)
      /\ \A j \in (k + 1)..Len(w.assigned) : w.assigned[j].socket # s
  <2>1. Untouched(w, u, k - 1)
    BY DEF Away
  <2> QED BY <1>1, <2>1, NextEntry
<1>3. CASE IsAdmin(u, s)
  <2>1. v = u
    BY <1>3 DEF PutBack
  <2> QED BY <1>1, <1>2, <2>1 DEF Away
<1>4. CASE ~IsAdmin(u, s)
  <2> DEFINE y == Unassign(Release(u, a.rover, s), s)
  <2>1. v = Wait(y, s)
    BY <1>2, <1>4 DEF PutBack
  <2>2. a.rover \in Rovers /\ RoverOf(u, s) = a.rover
    BY <1>2
  <2> HIDE DEF a, s
  <2>3. s \in Sockets /\ s \in w.refs
    BY <1>1, <1>2 DEF Same
  <2>4. u.role[s] = "user"
    <3>1. u.role[s] \in Roles \cup {"none"}
      BY <1>1, <2>3 DEF Sound, Consistent, ServerState
    <3> QED BY <1>2, <1>4, <3>1 DEF IsAdmin, Roles
  <2>5. Sound(v, w.refs) /\ OnlyFor(u, v, s) /\ Kept(u, v)
    BY <1>1, <2>1, <2>2, <2>3, <2>4, PuttingBack
  <2>6. Kept(w, v)
    BY <1>1, <2>5, KeptTrans
  <2>7. Untouched(w, v, k)
    BY <1>1, <1>2, <2>5, UntouchedFor
  <2> QED BY <2>5, <2>6, <2>7 DEF Away
<1> QED BY <1>3, <1>4

LEMMA ReleaseUsersSound ==
    ASSUME NEW w, Sound(w, w.refs), NEW v, v = ReleaseUsers(w)
    PROVE  Sound(v, w.refs) /\ Kept(w, v)
<1> DEFINE q == w.assigned
           n == Len(q)
<1>1. w \in ServerState /\ q \in Seq(Assignment) /\ n \in Nat
  BY DEF Sound, Consistent, ServerState
<1>2. PICK c : /\ c[0] = w
               /\ \A k \in 1..n : c[k] = PutBack(c[k - 1], q[k])
               /\ FoldLeft(PutBack, w, q) = c[n]
  <2>1. \A u \in ServerState, x \in Assignment : PutBack(u, x) \in ServerState
    BY StepsTyped
  <2> QED BY <1>1, <2>1, PutBackChain
<1> DEFINE G == [k \in 0..n |-> {u \in ServerState : Away(w, u, k)}]
<1>3. c[0] \in G[0]
  <2>1. Untouched(w, w, 0)
    BY <1>1 DEF Untouched, Range
  <2>2. Away(w, w, 0)
    BY <2>1 DEF Away, Kept, Same
  <2> QED BY <1>1, <1>2, <2>2
<1>4. ASSUME NEW k \in 1..n, c[k - 1] \in G[k - 1] PROVE c[k] \in G[k]
  <2>1. k - 1 \in 0..n /\ k \in 0..n
    BY <1>1
  <2>2. Away(w, c[k - 1], k - 1)
    BY <1>4, <2>1
  <2>3. c[k] = PutBack(c[k - 1], q[k])
    BY <1>2
  <2>4. Away(w, c[k], k)
    BY <1>1, <2>2, <2>3, PutBackPuts
  <2>5. c[k] \in ServerState
    BY <2>4 DEF Away, Sound, Consistent
  <2> QED BY <2>1, <2>4, <2>5
<1> HIDE DEF G
<1>5. c[n] \in G[n]
  <2>1. Chained(c, G, n)
    BY <1>3, <1>4 DEF Chained
  <2> QED BY <1>1, <2>1, ChainInduction
<1>6. Away(w, v, n)
  BY <1>1, <1>2, <1>5 DEF G, ReleaseUsers
<1> QED BY <1>6 DEF Away

\* After k of the rovers of q have been released.
Switched(w, u, K, q, r, s, k) ==
    /\ Consistent(u, K, {s}) /\ OnlyFor(w, u, s) /\ SamePlaces(w, u)
    /\ \A p \in Rovers : s \in u.drivers[p] =>
          s \in w.drivers[p] /\ \A j \in 1..k : q[j] = p => p = r

LEMMA ReleaseOtherSwitches ==
    ASSUME NEW w, NEW u, NEW K, NEW q \in Seq(Rovers), NEW r, NEW s \in Sockets,
           NEW k \in 1..Len(q), Switched(w, u, K, q, r, s, k - 1),
           NEW v, v = ReleaseOther(u, q[k], r, s)
    PROVE  Switched(w, v, K, q, r, s, k)
<1> DEFINE p == q[k]
<1>1. p \in Rovers /\ k \in Nat
  OBVIOUS
<1>2. v = IF p = r THEN u ELSE Release(u, p, s)
  BY DEF ReleaseOther
<1>3. ASSUME NEW j \in 1..k PROVE j = k \/ j \in 1..(k - 1)
  BY <1>1
<1>4. /\ Consistent(u, K, {s}) /\ OnlyFor(w, u, s) /\ SamePlaces(w, u)
      /\ \A o \in Rovers : s \in u.drivers[o] =>
            s \in w.drivers[o] /\ \A j \in 1..(k - 1) : q[j] = o => o = r
  BY DEF Switched
<1>5. CASE p = r
  <2>1. \A o \in Rovers : s \in u.drivers[o] =>
            s \in w.drivers[o] /\ \A j \in 1..k : q[j] = o => o = r
    BY <1>3, <1>4, <1>5
  <2> QED BY <1>2, <1>4, <1>5, <2>1 DEF Switched
<1>6. CASE p # r
  <2> HIDE DEF p
  <2>1. v = Release(u, p, s)
    BY <1>2, <1>6
  <2>2. /\ Consistent(v, K, {s}) /\ OnlyFor(u, v, s) /\ SamePlaces(u, v)
        /\ \A o \in Rovers : s \in v.drivers[o] => s \in u.drivers[o] /\ o # p
    BY <1>1, <1>4, <2>1, ReleaseKeeps
  <2>3. \A o \in Rovers : s \in v.drivers[o] =>
            s \in w.drivers[o] /\ \A j \in 1..k : q[j] = o => o = r
    BY <1>3, <1>4, <2>2 DEF p
  <2>4. OnlyFor(w, v, s) /\ SamePlaces(w, v)
    BY <1>4, <2>2, OnlyForTrans DEF SamePlaces
  <2> QED BY <2>2, <2>3, <2>4 DEF Switched
<1> QED BY <1>5, <1>6

LEMMA SwitchKeeps ==
    ASSUME NEW w, NEW K, NEW s \in Sockets, Consistent(w, K, {s}), NEW q \in Seq(Rovers),
           NEW r, NEW v, v = SwitchTo(w, q, r, s)
    PROVE  Switched(w, v, K, q, r, s, Len(q))
<1> DEFINE n == Len(q)
<1>1. w \in ServerState /\ n \in Nat /\ DOMAIN q = 1..n
  BY DEF Consistent
<1>2. PICK c : /\ c[0] = w
               /\ \A k \in 1..n : c[k] = ReleaseOther(c[k - 1], q[k], r, s)
               /\ v = c[n]
  <2>1. \A u \in ServerState, x \in Rovers : ReleaseOther(u, x, r, s) \in ServerState
    BY StepsTyped
  <2> QED BY <1>1, <2>1, SwitchChain
<1> DEFINE G == [k \in 0..n |-> {u \in ServerState : Switched(w, u, K, q, r, s, k)}]
<1>3. c[0] \in G[0]
  <2>1. Switched(w, w, K, q, r, s, 0)
    BY DEF Switched, OnlyFor, SamePlaces, Same
  <2> QED BY <1>1, <1>2, <2>1
<1>4. ASSUME NEW k \in 1..n, c[k - 1] \in G[k - 1] PROVE c[k] \in G[k]
  <2>1. k - 1 \in 0..n /\ k \in 0..n
    BY <1>1
  <2>2. Switched(w, c[k - 1], K, q, r, s, k - 1)
    BY <1>4, <2>1
  <2>3. c[k] = ReleaseOther(c[k - 1], q[k], r, s)
    BY <1>2
  <2>4. Switched(w, c[k], K, q, r, s, k)
    BY <2>2, <2>3, ReleaseOtherSwitches
  <2>5. c[k] \in ServerState
    BY <2>4 DEF Switched, Consistent
  <2> QED BY <2>1, <2>4, <2>5
<1> HIDE DEF G
<1>5. c[n] \in G[n]
  <2>1. Chained(c, G, n)
    BY <1>3, <1>4 DEF Chained
  <2> QED BY <1>1, <2>1, ChainInduction
<1> QED BY <1>1, <1>2, <1>5 DEF G

-----------------------------------------------------------------------------
(* A client that disconnects, and the many that a lockdown disconnects.    *)

\* The state in which assignmentService's listener finds it.
CutOff(w, s) ==
    [StopDriving(w, Range(w.joined[s]), s) EXCEPT
        !.joined[s] = <<>>, !.conn[s] = "down",
        !.room = [r \in Rovers |-> @[r] \ {s}], !.refs = @ \ {s}]

Cut(w, v, s) ==
    /\ v \in ServerState /\ SamePlaces(w, v)
    /\ v.mode = w.mode /\ v.role = w.role /\ v.online = w.online /\ v.locked = w.locked
    /\ v.refs = w.refs \ {s} /\ v.joined[s] = <<>>
    /\ \A x \in Sockets : v.conn[x] = IF x = s THEN "down" ELSE w.conn[x]
    /\ \A x \in Sockets \ {s} : v.joined[x] = w.joined[x]
    /\ \A r \in Rovers : v.room[r] = w.room[r] \ {s}
    /\ \A r \in Rovers : v.drivers[r] = IF r \in Range(w.joined[s]) THEN w.drivers[r] \ {s}
                                        ELSE w.drivers[r]
    /\ Lines(w) => Lines(v)

LEMMA Cutting ==
    ASSUME NEW w \in ServerState, NEW s \in Sockets
    PROVE  Cut(w, CutOff(w, s), s) /\ Disconnected(w, s) = UnassignSocket(CutOff(w, s), s)
<1> DEFINE P == Range(w.joined[s])
           u == StopDriving(w, P, s)
           v == CutOff(w, s)
           J == [u.joined EXCEPT ![s] = <<>>]
           C == [u.conn EXCEPT ![s] = "down"]
           R == [r \in Rovers |-> u.room[r] \ {s}]
           F == u.refs \ {s}
<1>1. Disconnected(w, s) = UnassignSocket(v, s)
  BY DEF Disconnected, CutOff
<1>2. /\ u \in ServerState /\ Same(w, u) /\ SamePlaces(w, u)
      /\ u.joined = w.joined /\ u.room = w.room
      /\ Stopped(w, u, P, s)
  BY StopDrivingEffect
<1>3. v = [u EXCEPT !.joined = J, !.conn = C, !.room = R, !.refs = F]
  <2>1. v = [u EXCEPT !.joined[s] = <<>>, !.conn[s] = "down",
                      !.room = [r \in Rovers |-> @[r] \ {s}], !.refs = @ \ {s}]
    BY DEF CutOff
  <2> HIDE DEF u, v
  <2> QED BY <1>2, <2>1 DEF ServerState
<1> HIDE DEF u, v, P
<1>4. /\ J \in [Sockets -> Seq(Rovers)] /\ C \in [Sockets -> {"new", "up", "down", "refused"}]
      /\ R \in [Rovers -> SUBSET Sockets] /\ F \in SUBSET Sockets
  BY <1>2 DEF ServerState
<1>5. /\ J[s] = <<>> /\ \A x \in Sockets \ {s} : J[x] = u.joined[x]
      /\ \A x \in Sockets : C[x] = IF x = s THEN "down" ELSE u.conn[x]
      /\ \A r \in Rovers : R[r] = u.room[r] \ {s}
  BY <1>2 DEF ServerState
<1> HIDE DEF J, C, R, F
<1>6. /\ v \in ServerState /\ v.joined = J /\ v.conn = C /\ v.room = R /\ v.refs = F
      /\ v.mode = u.mode /\ v.role = u.role /\ v.online = u.online /\ v.locked = u.locked
      /\ v.drivers = u.drivers /\ v.line = u.line /\ v.holder = u.holder
      /\ v.assigned = u.assigned /\ v.waiting = u.waiting
  BY <1>2, <1>3, <1>4 DEF ServerState
<1>7. Lines(u) => Lines(v)
  BY <1>6 DEF Lines, Queued, IsOnline
<1>8. Cut(w, v, s)
  BY <1>2, <1>5, <1>6, <1>7 DEF Cut, Stopped, Same, SamePlaces, F, P
<1> QED BY <1>1, <1>8 DEF v

LEMMA DisconnectedTyped ==
    ASSUME NEW w \in ServerState, NEW s \in Sockets
    PROVE  Disconnected(w, s) \in ServerState
<1>1. CutOff(w, s) \in ServerState
  BY Cutting DEF Cut
<1> QED BY <1>1, Cutting, SocketTyped

\* What connected clients keep when others disconnect.
Outlives(w, v) ==
    /\ v.role = w.role /\ v.online = w.online
    /\ \A x \in Sockets : v.conn[x] = "up" =>
          /\ w.conn[x] = "up"
          /\ w.role[x] = "user" /\ Placed(w, x) => Placed(v, x)
          /\ w.role[x] = "spectator" => \A r \in Rovers : x \in w.room[r] => x \in v.room[r]

LEMMA OutlivesTrans ==
    ASSUME NEW u, NEW w, NEW v, Outlives(u, w), Outlives(w, v)
    PROVE  Outlives(u, v)
BY DEF Outlives

LEMMA KeptOutlives ==
    ASSUME NEW w, NEW v, Kept(w, v)
    PROVE  Outlives(w, v)
BY DEF Kept, Outlives, Same

RefsAre(w, K) == w.refs = K

LEMMA DisconnectedSound ==
    ASSUME NEW w, NEW K, Sound(w, K), RefsAre(w, K), NEW s \in Sockets,
           NEW v, v = Disconnected(w, s)
    PROVE  /\ Sound(v, K \ {s}) /\ RefsAre(v, K \ {s}) /\ Outlives(w, v)
           /\ Settled(w) => Settled(v)
           /\ v.conn[s] = "down"
<1> DEFINE u == CutOff(w, s)
<1>1. Consistent(w, K, {}) /\ w \in ServerState /\ \A x \in Sockets : RoleFits(w, x)
  BY DEF Sound, Consistent
<1>2. Cut(w, u, s) /\ v = UnassignSocket(u, s)
  BY <1>1, Cutting
<1> HIDE DEF u
<1>3. /\ u \in ServerState /\ u.assigned = w.assigned /\ u.waiting = w.waiting
      /\ u.mode = w.mode /\ u.role = w.role /\ u.online = w.online /\ u.locked = w.locked
      /\ u.refs = K \ {s} /\ u.joined[s] = <<>>
      /\ \A x \in Sockets : u.conn[x] = IF x = s THEN "down" ELSE w.conn[x]
      /\ \A x \in Sockets \ {s} : u.joined[x] = w.joined[x]
      /\ \A r \in Rovers : u.room[r] = w.room[r] \ {s}
      /\ \A r \in Rovers : u.drivers[r] = IF r \in Range(w.joined[s]) THEN w.drivers[r] \ {s}
                                          ELSE w.drivers[r]
      /\ Lines(u)
  BY <1>1, <1>2, ConsistentParts DEF Cut, SamePlaces, RefsAre
<1>4. /\ \A x : IsAssigned(u, x) <=> IsAssigned(w, x)
      /\ \A x, p : Has(u, x, p) <=> Has(w, x, p)
  BY <1>3 DEF IsAssigned, Has
<1>5. Consistent(u, K, {})
  <2>1. /\ IsInjective(u.online) /\ IsInjective(u.waiting) /\ OnePlace(u.assigned)
        /\ \A x \in Sockets : x \in Range(u.waiting) => ~IsAssigned(u, x)
    BY <1>1, <1>3, <1>4, ConsistentParts
  <2>2. \A p \in Rovers, x \in Sockets : x \in w.drivers[p] =>
               /\ p \in Range(w.joined[x])
               /\ Has(w, x, p)
               /\ w.conn[x] = "up" => x \in w.room[p]
    BY <1>1 DEF Consistent, Linked
  <2>3. \A p \in Rovers, x \in Sockets : x \in u.drivers[p] =>
               /\ p \in Range(u.joined[x])
               /\ x \notin {} => Has(u, x, p)
               /\ u.conn[x] = "up" => x \in u.room[p]
    <3> SUFFICES ASSUME NEW p \in Rovers, NEW x \in Sockets, x \in u.drivers[p]
                 PROVE  /\ p \in Range(u.joined[x])
                        /\ Has(u, x, p)
                        /\ u.conn[x] = "up" => x \in u.room[p]
      OBVIOUS
    <3>1. x \in w.drivers[p]
      BY <1>3
    <3>2. /\ p \in Range(w.joined[x]) /\ Has(w, x, p)
          /\ w.conn[x] = "up" => x \in w.room[p]
      BY <2>2, <3>1
    <3>3. x # s
      BY <1>3, <3>2
    <3>4. Has(u, x, p) /\ u.joined[x] = w.joined[x] /\ u.conn[x] = w.conn[x]
      BY <1>3, <1>4, <3>2, <3>3
    <3> QED BY <1>3, <3>2, <3>3, <3>4
  <2>4. \A x \in Sockets \ K :
               /\ w.conn[x] # "up" /\ w.joined[x] = <<>>
               /\ ~IsAssigned(w, x) /\ x \notin Range(w.waiting)
    BY <1>1 DEF Consistent, Known
  <2>5. \A x \in Sockets \ K :
               /\ u.conn[x] # "up" /\ u.joined[x] = <<>>
               /\ ~IsAssigned(u, x) /\ x \notin Range(u.waiting)
    BY <1>3, <1>4, <2>4
  <2>6. \A p \in Rovers, x \in Sockets : x \in u.room[p] => u.conn[x] = "up"
    BY <1>1, <1>3 DEF Consistent, Known
  <2> QED BY <1>3, <2>1, <2>3, <2>5, <2>6, ConsistentIf
<1>6. /\ Consistent(v, K, {}) /\ OnlyFor(u, v, s)
      /\ ~IsAssigned(v, s) /\ s \notin Range(v.waiting)
      /\ Settled(u) => Settled(v)
      /\ u.joined[s] = <<>> => v.joined[s] = <<>>
  BY <1>2, <1>5, UnassignSocketKeeps
<1>7. /\ v.conn = u.conn /\ v.refs = u.refs /\ v.role = u.role /\ v.online = u.online
      /\ v.mode = u.mode /\ v.locked = u.locked
  BY <1>6 DEF OnlyFor, Same
<1>8. Consistent(v, K \ {s}, {})
  <2>1. v.conn[s] # "up" /\ v.joined[s] = <<>>
    BY <1>3, <1>6, <1>7
  <2>2. \A x \in Sockets \ (K \ {s}) : x = s \/ x \in Sockets \ K
    OBVIOUS
  <2>3. Known(v, K \ {s})
    BY <1>6, <2>1, <2>2 DEF Consistent, Known
  <2> QED BY <1>6, <2>3 DEF Consistent
<1>9. \A x \in Sockets : RoleFits(v, x)
  <2> SUFFICES ASSUME NEW x \in Sockets PROVE RoleFits(v, x)
    OBVIOUS
  <2>1. RoleFits(w, x)
    BY <1>1
  <2>2. CASE x = s
    BY <1>3, <1>6, <1>7, <2>2 DEF RoleFits
  <2>3. CASE x # s
    <3>1. /\ x \in Range(v.waiting) <=> x \in Range(w.waiting)
          /\ IsAssigned(v, x) <=> IsAssigned(w, x)
      BY <1>3, <1>4, <1>6, <2>3 DEF OnlyFor
    <3>2. v.role = w.role /\ v.refs = w.refs \ {s}
      BY <1>3, <1>7 DEF RefsAre
    <3>3. v.conn[x] = w.conn[x]
      BY <1>3, <1>7, <2>3
    <3> QED BY <2>1, <3>1, <3>2, <3>3 DEF RoleFits
  <2> QED BY <2>2, <2>3
<1>10. Outlives(w, v)
  <2> SUFFICES ASSUME NEW x \in Sockets, v.conn[x] = "up"
               PROVE  /\ w.conn[x] = "up"
                      /\ w.role[x] = "user" /\ Placed(w, x) => Placed(v, x)
                      /\ \A r \in Rovers : x \in w.room[r] => x \in v.room[r]
    BY <1>3, <1>7 DEF Outlives
  <2>1. x # s /\ w.conn[x] = "up"
    BY <1>3, <1>7
  <2>2. Placed(w, x) => Placed(v, x)
    BY <1>3, <1>4, <1>6, <2>1 DEF Placed, OnlyFor
  <2>3. \A r \in Rovers : x \in w.room[r] => x \in v.room[r]
    BY <1>3, <1>6, <2>1 DEF OnlyFor
  <2> QED BY <2>1, <2>2, <2>3
<1>11. Settled(w) => Settled(u)
  BY <1>3 DEF Settled, NoneFree
<1> QED BY <1>3, <1>6, <1>7, <1>8, <1>9, <1>10, <1>11 DEF Sound, RefsAre

\* All of the clients of a list disconnect.
Emptied(w, u) == Sound(u, u.refs) /\ Outlives(w, u)

LEMMA AllDisconnected ==
    ASSUME NEW w, Sound(w, w.refs), NEW q \in Seq(Sockets),
           NEW v, v = FoldLeft(Disconnected, w, q)
    PROVE  Emptied(w, v)
<1> DEFINE n == Len(q)
<1>1. w \in ServerState /\ n \in Nat
  BY DEF Sound, Consistent
<1>2. PICK c : /\ c[0] = w
               /\ \A k \in 1..n : c[k] = Disconnected(c[k - 1], q[k])
               /\ FoldLeft(Disconnected, w, q) = c[n]
  <2>1. \A u \in ServerState, x \in Sockets : Disconnected(u, x) \in ServerState
    BY DisconnectedTyped
  <2> QED BY <1>1, <2>1, DisconnectedChain
<1> DEFINE G == [k \in 0..n |-> {u \in ServerState : Emptied(w, u)}]
<1>3. c[0] \in G[0]
  <2>1. Emptied(w, w)
    BY DEF Emptied, Outlives
  <2> QED BY <1>1, <1>2, <2>1
<1>4. ASSUME NEW k \in 1..n, c[k - 1] \in G[k - 1] PROVE c[k] \in G[k]
  <2> DEFINE u == c[k - 1]
             y == c[k]
             K == u.refs
             s == q[k]
  <2>1. k - 1 \in 0..n /\ k \in 0..n /\ q[k] \in Sockets
    BY <1>1
  <2>2. Sound(u, K) /\ Outlives(w, u)
    BY <1>4, <2>1 DEF Emptied
  <2>3. y = Disconnected(u, q[k])
    BY <1>2
  <2>4. RefsAre(u, K) /\ s \in Sockets
    BY <2>1 DEF RefsAre
  <2>a. y = Disconnected(u, s)
    BY <2>3
  <2> HIDE DEF u, y, K, s
  <2>5. Sound(y, K \ {s}) /\ RefsAre(y, K \ {s}) /\ Outlives(u, y)
    BY <2>2, <2>4, <2>a, DisconnectedSound
  <2>6. Emptied(w, y)
    BY <2>2, <2>5, OutlivesTrans DEF Emptied, RefsAre
  <2>7. y \in ServerState
    BY <2>5 DEF Sound, Consistent
  <2> QED BY <2>1, <2>6, <2>7 DEF y
<1> HIDE DEF G
<1>5. c[n] \in G[n]
  <2>1. Chained(c, G, n)
    BY <1>3, <1>4 DEF Chained
  <2> QED BY <1>1, <2>1, ChainInduction
<1>6. v = c[n]
  BY <1>2
<1> QED BY <1>1, <1>5, <1>6 DEF G

LEMMA SetListed ==
    ASSUME NEW S \in SUBSET Sockets
    PROVE  SetToSeq(S) \in Seq(Sockets)
<1>1. IsFiniteSet(S)
  BY FS_Subset
<1>2. Cardinality(S) \in Nat
  BY <1>1, FS_CardinalityType
<1>3. PICK f : f \in Bijection(1..Cardinality(S), S)
  BY <1>1, FS_CardinalityType DEF ExistsBijection
<1>4. f \in [1..Cardinality(S) -> S] /\ IsInjective(f)
  BY <1>3 DEF Bijection, Injection, Surjection, IsInjective
<1>5. SetToSeq(S) \in [1..Cardinality(S) -> S]
  BY <1>4 DEF SetToSeq
<1>6. SetToSeq(S) \in [1..Cardinality(S) -> Sockets]
  BY <1>5
<1> QED BY <1>2, <1>6

-----------------------------------------------------------------------------
(* The state before the listeners: one service has changed its own part.   *)

LEMMA ConsistentSame ==
    ASSUME NEW w, NEW K, NEW X, Consistent(w, K, X), NEW v \in ServerState,
           v.conn = w.conn, v.online = w.online, SameTurns(w, v), SamePlaces(w, v)
    PROVE  Consistent(v, K, X)
<1>1. v.assigned = w.assigned /\ v.waiting = w.waiting
  BY DEF SamePlaces
<1>2. /\ \A x : IsAssigned(v, x) <=> IsAssigned(w, x)
      /\ \A x, p : Has(v, x, p) <=> Has(w, x, p)
  BY <1>1 DEF IsAssigned, Has
<1>3. /\ v.drivers = w.drivers /\ v.joined = w.joined /\ v.room = w.room
      /\ v.line = w.line /\ v.holder = w.holder
  BY DEF SameTurns
<1>4. Entries(v) /\ Queued(v)
  BY <1>1, <1>2, <1>3 DEF Consistent, Entries, Queued, IsOnline
<1>5. Linked(v, X)
  BY <1>2, <1>3 DEF Consistent, Linked
<1>6. Known(v, K)
  BY <1>1, <1>2, <1>3 DEF Consistent, Known
<1> QED BY <1>4, <1>5, <1>6 DEF Consistent

LEMMA ModeSet ==
    ASSUME NEW w, NEW K, Sound(w, K), NEW m \in Modes, NEW v, v = [w EXCEPT !.mode = m]
    PROVE  Sound(v, K) /\ Outlives(w, v) /\ v.mode = m /\ v.refs = w.refs
<1>1. Consistent(w, K, {}) /\ w \in ServerState /\ \A x \in Sockets : RoleFits(w, x)
  BY DEF Sound, Consistent
<1>2. /\ v \in ServerState /\ v.mode = m
      /\ v.conn = w.conn /\ v.online = w.online /\ v.role = w.role /\ v.refs = w.refs
      /\ SameTurns(w, v) /\ SamePlaces(w, v)
  BY <1>1 DEF ServerState, SameTurns, SamePlaces
<1>3. Consistent(v, K, {})
  BY <1>1, <1>2, ConsistentSame
<1>4. \A x \in Sockets : RoleFits(v, x)
  BY <1>1, <1>2 DEF RoleFits, SamePlaces, IsAssigned
<1>5. Outlives(w, v)
  BY <1>2 DEF Outlives, Placed, SamePlaces, SameTurns, IsAssigned
<1> QED BY <1>2, <1>3, <1>4, <1>5 DEF Sound

LEMMA LoginSet ==
    ASSUME NEW w, NEW K, Sound(w, K), NEW L \in SUBSET Sockets, NEW v, v = [w EXCEPT !.login = L]
    PROVE  /\ Sound(v, K) /\ Outlives(w, v) /\ v.refs = w.refs
           /\ Settled(w) => Settled(v)
           /\ v.conn = w.conn /\ v.online = w.online /\ v.role = w.role
           /\ SameTurns(w, v) /\ SamePlaces(w, v)
<1>1. Consistent(w, K, {}) /\ w \in ServerState /\ \A x \in Sockets : RoleFits(w, x)
  BY DEF Sound, Consistent
<1>2. /\ v \in ServerState /\ v.mode = w.mode /\ v.locked = w.locked
      /\ v.conn = w.conn /\ v.online = w.online /\ v.role = w.role /\ v.refs = w.refs
      /\ SameTurns(w, v) /\ SamePlaces(w, v)
  BY <1>1 DEF ServerState, SameTurns, SamePlaces
<1>3. Consistent(v, K, {})
  BY <1>1, <1>2, ConsistentSame
<1>4. \A x \in Sockets : RoleFits(v, x)
  BY <1>1, <1>2 DEF RoleFits, SamePlaces, IsAssigned
<1>5. Outlives(w, v)
  BY <1>2 DEF Outlives, Placed, SamePlaces, SameTurns, IsAssigned
<1>6. Settled(w) => Settled(v)
  BY <1>2 DEF Settled, NoneFree, SamePlaces
<1> QED BY <1>2, <1>3, <1>4, <1>5, <1>6 DEF Sound

LocksSet(w, v, r, locked) == v = [w EXCEPT !.locked[r] = locked]

LEMMA LockSet ==
    ASSUME NEW w, NEW K, Sound(w, K), NEW r \in Rovers, NEW locked \in BOOLEAN,
           NEW v, LocksSet(w, v, r, locked)
    PROVE  /\ Sound(v, K) /\ Outlives(w, v) /\ v.refs = w.refs
           /\ locked /\ Settled(w) => Settled(v)
           /\ v.locked[r] = locked
<1>1. Consistent(w, K, {}) /\ w \in ServerState /\ \A x \in Sockets : RoleFits(w, x)
  BY DEF Sound, Consistent
<1>2. /\ v \in ServerState /\ v.mode = w.mode /\ v.locked[r] = locked
      /\ \A p \in Rovers \ {r} : v.locked[p] = w.locked[p]
      /\ v.conn = w.conn /\ v.online = w.online /\ v.role = w.role /\ v.refs = w.refs
      /\ SameTurns(w, v) /\ SamePlaces(w, v)
  <2> DEFINE L == [w.locked EXCEPT ![r] = locked]
  <2>1. v = [w EXCEPT !.locked = L]
    BY <1>1 DEF ServerState, LocksSet
  <2>2. /\ L \in [Rovers -> BOOLEAN] /\ L[r] = locked
        /\ \A p \in Rovers \ {r} : L[p] = w.locked[p]
    BY <1>1 DEF ServerState
  <2> HIDE DEF L
  <2> QED BY <1>1, <2>1, <2>2 DEF ServerState, SameTurns, SamePlaces
<1>3. Consistent(v, K, {})
  BY <1>1, <1>2, ConsistentSame
<1>4. \A x \in Sockets : RoleFits(v, x)
  BY <1>1, <1>2 DEF RoleFits, SamePlaces, IsAssigned
<1>5. Outlives(w, v)
  BY <1>2 DEF Outlives, Placed, SamePlaces, SameTurns, IsAssigned
<1>6. ASSUME locked, Settled(w) PROVE Settled(v)
  <2>1. Range(w.online) \subseteq Rovers
    BY <1>1, ConsistentParts
  <2> QED BY <1>2, <1>6, <2>1 DEF Settled, NoneFree, SamePlaces
<1> QED BY <1>2, <1>3, <1>4, <1>5, <1>6 DEF Sound

\* Holders that fit the lines: after a change of mode, or of turn.
LEMMA HolderSet ==
    ASSUME NEW w, NEW K, Sound(w, K), NEW H \in [Rovers -> Sockets \cup {NoOne}],
           \A r \in Rovers : IF w.line[r] = <<>> THEN H[r] = NoOne ELSE H[r] \in w.drivers[r],
           NEW v, v = [w EXCEPT !.holder = H]
    PROVE  /\ Sound(v, K) /\ Outlives(w, v) /\ v.refs = w.refs
           /\ Settled(w) => Settled(v)
<1>1. Consistent(w, K, {}) /\ w \in ServerState /\ \A x \in Sockets : RoleFits(w, x)
  BY DEF Sound, Consistent
<1>2. /\ v \in ServerState /\ Same(w, v) /\ SamePlaces(w, v) /\ v.holder = H
      /\ v.drivers = w.drivers /\ v.joined = w.joined /\ v.room = w.room /\ v.line = w.line
  BY <1>1 DEF ServerState, Same, SamePlaces
<1>3. v.conn = w.conn /\ v.online = w.online /\ v.role = w.role /\ v.refs = w.refs
  BY <1>2 DEF Same
<1>4. /\ \A x : IsAssigned(v, x) <=> IsAssigned(w, x)
      /\ \A x, p : Has(v, x, p) <=> Has(w, x, p)
  BY <1>2 DEF IsAssigned, Has, SamePlaces
<1>5. Entries(v) /\ Queued(v)
  BY <1>1, <1>2, <1>3, <1>4 DEF Consistent, Entries, Queued, IsOnline, SamePlaces
<1>6. Linked(v, {}) /\ Known(v, K)
  BY <1>1, <1>2, <1>3, <1>4 DEF Consistent, Linked, Known, SamePlaces
<1>7. \A x \in Sockets : RoleFits(v, x)
  BY <1>1, <1>2, <1>3, <1>4 DEF RoleFits, SamePlaces
<1>8. Outlives(w, v)
  BY <1>2, <1>3, <1>4 DEF Outlives, Placed, SamePlaces
<1>9. Settled(w) => Settled(v)
  BY <1>2, NoneFreeSame DEF Settled, SamePlaces
<1> QED BY <1>2, <1>3, <1>5, <1>6, <1>7, <1>8, <1>9 DEF Sound, Consistent

-----------------------------------------------------------------------------
(* What a step of the server does.                                         *)

\* The two action properties, from state w to state v, without exceptions.
Stays(w, v) ==
    \A x \in Sockets :
        v.conn[x] = "up" /\ v.role[x] = "user" /\ (Placed(w, x) \/ w.role[x] # "user")
        => Placed(v, x)

Hears(w, v) ==
    \A x \in Spectators(w) \cap Spectators(v), r \in Rovers :
        IsOnline(v, r) /\ (x \in w.room[r] \/ ~IsOnline(w, r)) => x \in v.room[r]

Good(v) == Sound(v, v.refs) /\ Settled(v)
Steps(w, v) == Good(v) /\ Stays(w, v) /\ Hears(w, v)

LEMMA OutlivesStays ==
    ASSUME NEW w, NEW v, Outlives(w, v)
    PROVE  Stays(w, v) /\ Hears(w, v)
BY DEF Outlives, Stays, Hears, Spectators, IsOnline

\* Client s has another role, and hears other rovers.
RoomsFit(w, s, R) ==
    /\ \A r \in Rovers, x \in Sockets \ {s} : x \in R[r] <=> x \in w.room[r]
    /\ \A r \in Rovers : s \in R[r] => w.conn[s] = "up"
    /\ \A r \in Rovers : s \in w.drivers[r] /\ s \in w.room[r] => s \in R[r]

RolesSet(w, v, E, R) == v = [w EXCEPT !.role = E, !.room = R]

RoleRoomAre(w, v, E, R) ==
    /\ v.role = E /\ v.room = R /\ SamePlaces(w, v)
    /\ v.mode = w.mode /\ v.conn = w.conn /\ v.online = w.online
    /\ v.locked = w.locked /\ v.refs = w.refs

LEMMA RoleRoomSet ==
    ASSUME NEW w, NEW K, Consistent(w, K, {}), NEW s \in Sockets,
           NEW E \in [Sockets -> Roles \cup {"none"}], NEW R \in [Rovers -> SUBSET Sockets],
           RoomsFit(w, s, R), NEW v, RolesSet(w, v, E, R)
    PROVE  Consistent(v, K, {}) /\ RoleRoomAre(w, v, E, R)
<1>1. /\ v \in ServerState /\ v.role = E /\ v.room = R /\ SamePlaces(w, v)
      /\ v.mode = w.mode /\ v.conn = w.conn /\ v.online = w.online
      /\ v.locked = w.locked /\ v.refs = w.refs
      /\ v.drivers = w.drivers /\ v.joined = w.joined
      /\ v.line = w.line /\ v.holder = w.holder
  BY DEF Consistent, ServerState, SamePlaces, RolesSet
<1>2. /\ \A x : IsAssigned(v, x) <=> IsAssigned(w, x)
      /\ \A x, p : Has(v, x, p) <=> Has(w, x, p)
  BY <1>1 DEF IsAssigned, Has, SamePlaces
<1>3. Entries(v) /\ Queued(v)
  BY <1>1, <1>2 DEF Consistent, Entries, Queued, IsOnline, SamePlaces
<1>4. Linked(v, {})
  <2> SUFFICES ASSUME NEW r \in Rovers, NEW x \in w.drivers[r]
               PROVE  /\ r \in Range(w.joined[x])
                      /\ Has(w, x, r)
                      /\ w.conn[x] = "up" => x \in R[r]
    BY <1>1, <1>2 DEF Linked
  <2>1. /\ r \in Range(w.joined[x]) /\ Has(w, x, r)
        /\ w.conn[x] = "up" => x \in w.room[r]
    BY DEF Consistent, Linked
  <2>2. x \in Sockets
    BY ConsistentParts
  <2> QED BY <2>1, <2>2 DEF RoomsFit
<1>5. Known(v, K)
  <2>1. /\ \A x \in Sockets \ K :
              w.conn[x] # "up" /\ w.joined[x] = <<>> /\ ~IsAssigned(w, x) /\ x \notin Range(w.waiting)
        /\ \A r \in Rovers, x \in Sockets : x \in w.room[r] => w.conn[x] = "up"
    BY DEF Consistent, Known
  <2>2. \A r \in Rovers : \A x \in R[r] : w.conn[x] = "up"
    BY <2>1 DEF RoomsFit
  <2> QED BY <1>1, <1>2, <2>1, <2>2 DEF Known, SamePlaces
<1> QED BY <1>1, <1>3, <1>4, <1>5 DEF Consistent, RoleRoomAre

\* The roles of v are those of w, but for client s.
RoleTurned(w, v, s, role) ==
    /\ v.mode = w.mode /\ v.conn = w.conn /\ v.online = w.online /\ v.refs = w.refs
    /\ v.role[s] = role
    /\ role = "user" /\ (w.role[s] # "user" \/ Placed(w, s)) => Placed(v, s)
    /\ w.role[s] = role => \A r \in Rovers : s \in w.room[r] => s \in v.room[r]
    /\ \A x \in Sockets \ {s} :
          /\ v.role[x] = w.role[x]
          /\ Placed(w, x) => Placed(v, x)
          /\ \A r \in Rovers : x \in w.room[r] => x \in v.room[r]

\* z: what the listeners of a change of role find.
LEMMA RoleChanging ==
    ASSUME NEW w, NEW K, Sound(w, K), NEW s \in Sockets, NEW role \in Roles, w.role[s] # role,
           role = "user" => s \in K,
           NEW z, Consistent(z, K, {}), z.role = [w.role EXCEPT ![s] = role], SamePlaces(w, z),
           z.mode = w.mode, z.conn = w.conn, z.online = w.online,
           z.locked = w.locked, z.refs = w.refs,
           \A r \in Rovers, x \in Sockets \ {s} : x \in z.room[r] <=> x \in w.room[r],
           NEW v, v = RoleChanged(z, s)
    PROVE  Sound(v, K) /\ RoleTurned(w, v, s, role) /\ (Settled(w) => Settled(v))
<1>1. w \in ServerState /\ \A x \in Sockets : RoleFits(w, x)
  BY DEF Sound, Consistent
<1>2. z.role[s] = role /\ \A x \in Sockets \ {s} : z.role[x] = w.role[x]
  BY <1>1 DEF ServerState
<1>3. /\ \A x : IsAssigned(z, x) <=> IsAssigned(w, x)
      /\ z.waiting = w.waiting
      /\ Settled(w) <=> Settled(z)
  BY DEF IsAssigned, SamePlaces, Settled, NoneFree
<1>4. /\ Consistent(v, K, {}) /\ OnlyFor(z, v, s) /\ (Settled(z) => Settled(v))
      /\ role = "user" => Placed(v, s)
      /\ role # "user" => ~IsAssigned(v, s) /\ s \notin Range(v.waiting)
  <2>1. CASE role = "user"
    <3>1. v = AssignSocket(z, s)
      BY <1>2, <2>1 DEF RoleChanged
    <3> QED BY <1>2, <2>1, <3>1, AssignSocketKeeps
  <2>2. CASE role # "user"
    <3>1. v = UnassignSocket(z, s)
      BY <1>2, <2>2 DEF RoleChanged
    <3> QED BY <2>2, <3>1, UnassignSocketKeeps
  <2> QED BY <2>1, <2>2
<1>5. /\ v.mode = w.mode /\ v.conn = w.conn /\ v.online = w.online /\ v.refs = w.refs
      /\ v.role = z.role
  BY <1>4 DEF OnlyFor, Same
<1>6. ASSUME NEW x \in Sockets \ {s}
      PROVE  /\ v.role[x] = w.role[x]
             /\ IsAssigned(v, x) <=> IsAssigned(w, x)
             /\ x \in Range(v.waiting) <=> x \in Range(w.waiting)
             /\ \A r \in Rovers : x \in w.room[r] => x \in v.room[r]
  BY <1>2, <1>3, <1>4, <1>5 DEF OnlyFor
<1>7. \A x \in Sockets : RoleFits(v, x)
  <2> SUFFICES ASSUME NEW x \in Sockets PROVE RoleFits(v, x)
    OBVIOUS
  <2>1. RoleFits(w, x)
    BY <1>1
  <2>2. CASE x = s
    <3>1. v.role[s] = role /\ role \notin {"none"} /\ (s \in v.refs => v.conn[s] \in {"up", "refused"})
      BY <1>2, <1>5, <2>1, <2>2 DEF Roles, RoleFits
    <3> QED BY <1>4, <2>2, <3>1 DEF RoleFits
  <2>3. CASE x # s
    <3>1. v.refs = w.refs /\ v.conn = w.conn
      BY <1>5
    <3> QED BY <1>6, <2>1, <2>3, <3>1 DEF RoleFits
  <2> QED BY <2>2, <2>3
<1>8. RoleTurned(w, v, s, role)
  BY <1>2, <1>4, <1>5, <1>6 DEF RoleTurned, Placed
<1> QED BY <1>3, <1>4, <1>7, <1>8 DEF Sound

LEMMA SetRoleSound ==
    ASSUME NEW w, NEW K, Sound(w, K), NEW s \in Sockets, NEW role \in Roles,
           role = "user" => s \in K, NEW v, v = SetRole(w, s, role)
    PROVE  Sound(v, K) /\ RoleTurned(w, v, s, role) /\ (Settled(w) => Settled(v))
<1>1. CASE w.role[s] = role
  <2>1. v = w
    BY <1>1 DEF SetRole
  <2> QED BY <1>1, <2>1 DEF RoleTurned
<1>2. CASE w.role[s] # role
  <2> DEFINE u == [w EXCEPT !.role[s] = role]
             z == IF role = "spectator" THEN JoinAll(u, s)
                  ELSE IF s \in Spectators(w) THEN LeaveAll(u, s) ELSE u
             E == [w.role EXCEPT ![s] = role]
             R == [r \in Rovers |-> IF role = "spectator"
                                    THEN IF IsOnline(w, r) THEN Join(w, r, s) ELSE w.room[r]
                                    ELSE IF s \in Spectators(w) /\ IsOnline(w, r)
                                         THEN w.room[r] \ {s} ELSE w.room[r]]
  <2>1. v = RoleChanged(z, s)
    BY <1>2 DEF SetRole
  <2>2. Consistent(w, K, {}) /\ w \in ServerState /\ \A x \in Sockets : RoleFits(w, x)
    BY DEF Sound, Consistent
  <2>3. E \in [Sockets -> Roles \cup {"none"}] /\ R \in [Rovers -> SUBSET Sockets]
    BY <2>2 DEF ServerState, Join
  <2>4. u = [w EXCEPT !.role = E]
    BY <2>2 DEF ServerState
  <2>5. /\ u.conn = w.conn /\ u.online = w.online /\ u.room = w.room
        /\ w.room = [r \in Rovers |-> w.room[r]]
    BY <2>2, <2>4 DEF ServerState
  <2>6. z = [w EXCEPT !.role = E, !.room = R]
    <3> HIDE DEF u, E
    <3>1. CASE role = "spectator"
      <4>1. JoinAll(u, s) = [u EXCEPT !.room = R]
        <5>1. JoinAll(u, s) = [u EXCEPT !.room = [r \in Rovers |-> IF IsOnline(u, r)
                                         THEN Join(u, r, s) ELSE u.room[r]]]
          BY <2>2, <2>4 DEF JoinAll, ServerState
        <5>2. [r \in Rovers |-> IF IsOnline(u, r) THEN Join(u, r, s) ELSE u.room[r]] = R
          BY <2>5, <3>1 DEF IsOnline, Join
        <5> QED BY <5>1, <5>2
      <4> HIDE DEF R
      <4> QED BY <2>2, <2>4, <3>1, <4>1 DEF ServerState
    <3>2. CASE role # "spectator" /\ s \in Spectators(w)
      <4>1. LeaveAll(u, s) = [u EXCEPT !.room = R]
        <5>1. LeaveAll(u, s) = [u EXCEPT !.room = [r \in Rovers |-> IF IsOnline(u, r)
                                         THEN u.room[r] \ {s} ELSE u.room[r]]]
          BY <2>2, <2>4 DEF LeaveAll, ServerState
        <5>2. [r \in Rovers |-> IF IsOnline(u, r) THEN u.room[r] \ {s} ELSE u.room[r]] = R
          BY <2>5, <3>2 DEF IsOnline
        <5> QED BY <5>1, <5>2
      <4> HIDE DEF R
      <4> QED BY <2>2, <2>4, <3>2, <4>1 DEF ServerState
    <3>3. CASE role # "spectator" /\ s \notin Spectators(w)
      <4>1. R = w.room
        BY <2>5, <3>3
      <4> HIDE DEF R
      <4> QED BY <2>2, <2>4, <3>3, <4>1 DEF ServerState
    <3> QED BY <3>1, <3>2, <3>3
  <2>7. \A r \in Rovers, x \in Sockets \ {s} : x \in R[r] <=> x \in w.room[r]
    BY DEF Join
  <2>8. \A r \in Rovers : s \in R[r] => w.conn[s] = "up"
    <3>1. \A r \in Rovers, x \in Sockets : x \in w.room[r] => w.conn[x] = "up"
      BY <2>2 DEF Consistent, Known
    <3> QED BY <3>1 DEF Join
  <2>9. \A r \in Rovers : s \in w.drivers[r] /\ s \in w.room[r] => s \in R[r]
    <3> SUFFICES ASSUME NEW r \in Rovers, s \in w.drivers[r], s \in w.room[r] PROVE s \in R[r]
      OBVIOUS
    <3>1. IsAssigned(w, s) /\ RoleFits(w, s)
      BY <2>2, Drives
    <3>2. s \notin Spectators(w)
      BY <3>1 DEF RoleFits, Spectators
    <3> QED BY <3>2 DEF Join
  <2> HIDE DEF u, z, R, E
  <2>a. RoomsFit(w, s, R) /\ RolesSet(w, z, E, R)
    BY <2>6, <2>7, <2>8, <2>9 DEF RoomsFit, RolesSet
  <2>10. Consistent(z, K, {}) /\ RoleRoomAre(w, z, E, R)
    BY <2>2, <2>3, <2>a, RoleRoomSet
  <2>11. /\ z.role = [w.role EXCEPT ![s] = role] /\ SamePlaces(w, z)
         /\ z.mode = w.mode /\ z.conn = w.conn /\ z.online = w.online
         /\ z.locked = w.locked /\ z.refs = w.refs
    BY <2>10 DEF E, RoleRoomAre
  <2>12. \A r \in Rovers, x \in Sockets \ {s} : x \in z.room[r] <=> x \in w.room[r]
    BY <2>7, <2>10 DEF RoleRoomAre
  <2> QED BY <1>2, <2>1, <2>10, <2>11, <2>12, RoleChanging
<1> QED BY <1>1, <1>2

LEMMA RoleTurnedStays ==
    ASSUME NEW w, NEW v, NEW s \in Sockets, NEW role, RoleTurned(w, v, s, role)
    PROVE  Stays(w, v) /\ Hears(w, v)
<1>1. Stays(w, v)
  BY DEF RoleTurned, Stays
<1>2. Hears(w, v)
  <2> SUFFICES ASSUME NEW x \in Spectators(w) \cap Spectators(v), NEW r \in Rovers,
                      IsOnline(v, r), x \in w.room[r] \/ ~IsOnline(w, r)
               PROVE  x \in v.room[r]
    BY DEF Hears
  <2>1. x \in Sockets /\ w.role[x] = v.role[x] /\ x \in w.room[r]
    BY DEF Spectators, RoleTurned, IsOnline
  <2> QED BY <2>1 DEF RoleTurned
<1> QED BY <1>1, <1>2

\* A client connects, or is refused: the server did not know it.
ConnIs(w, v, s, c) ==
    /\ v.mode = w.mode /\ v.role = w.role /\ v.online = w.online /\ v.locked = w.locked
    /\ v.refs = w.refs /\ v.room = w.room /\ SamePlaces(w, v)
    /\ v.conn[s] = c /\ \A x \in Sockets \ {s} : v.conn[x] = w.conn[x]

LEMMA ConnSet ==
    ASSUME NEW w, Sound(w, w.refs), NEW s \in Sockets, w.conn[s] = "new",
           NEW c \in {"up", "refused"}, NEW v, v = [w EXCEPT !.conn[s] = c]
    PROVE  Sound(v, w.refs \cup {s}) /\ ConnIs(w, v, s, c)
<1> DEFINE C == [w.conn EXCEPT ![s] = c]
<1>1. Consistent(w, w.refs, {}) /\ w \in ServerState /\ \A x \in Sockets : RoleFits(w, x)
  BY DEF Sound, Consistent
<1>2. /\ v = [w EXCEPT !.conn = C] /\ C \in [Sockets -> {"new", "up", "down", "refused"}]
      /\ C[s] = c /\ \A x \in Sockets \ {s} : C[x] = w.conn[x]
  BY <1>1 DEF ServerState
<1> HIDE DEF C
<1>3. /\ v \in ServerState /\ v.conn = C
      /\ v.role = w.role /\ v.refs = w.refs
      /\ v.mode = w.mode /\ v.online = w.online /\ v.locked = w.locked
      /\ SamePlaces(w, v) /\ SameTurns(w, v)
  BY <1>1, <1>2 DEF ServerState, SamePlaces, SameTurns
<1>4. /\ \A x : IsAssigned(v, x) <=> IsAssigned(w, x)
      /\ \A x, p : Has(v, x, p) <=> Has(w, x, p)
      /\ v.assigned = w.assigned /\ v.waiting = w.waiting
      /\ v.drivers = w.drivers /\ v.joined = w.joined /\ v.room = w.room
      /\ v.line = w.line /\ v.holder = w.holder
  BY <1>3 DEF IsAssigned, Has, SamePlaces, SameTurns
<1>5. s \notin w.refs /\ w.joined[s] = <<>> /\ \A r \in Rovers : s \notin w.room[r]
  BY <1>1 DEF RoleFits, Consistent, Known
<1>6. Entries(v) /\ Queued(v)
  BY <1>1, <1>3, <1>4 DEF Consistent, Entries, Queued, IsOnline
<1>7. Linked(v, {})
  <2> SUFFICES ASSUME NEW r \in Rovers, NEW x \in w.drivers[r]
               PROVE  /\ r \in Range(w.joined[x])
                      /\ Has(w, x, r)
                      /\ C[x] = "up" => x \in w.room[r]
    BY <1>3, <1>4 DEF Linked
  <2>1. /\ r \in Range(w.joined[x]) /\ Has(w, x, r)
        /\ w.conn[x] = "up" => x \in w.room[r]
    BY <1>1 DEF Consistent, Linked
  <2>2. x \in Sockets
    BY <1>1, ConsistentParts
  <2>3. x # s
    BY <1>5, <2>1 DEF Range
  <2> QED BY <1>2, <2>1, <2>2, <2>3
<1>8. Known(v, w.refs \cup {s})
  <2>1. /\ \A x \in Sockets \ w.refs :
              w.conn[x] # "up" /\ w.joined[x] = <<>> /\ ~IsAssigned(w, x) /\ x \notin Range(w.waiting)
        /\ \A r \in Rovers : \A x \in w.room[r] : w.conn[x] = "up"
    BY <1>1 DEF Consistent, Known
  <2>2. \A r \in Rovers : \A x \in w.room[r] : x \in Sockets \ {s}
    BY <1>1, <1>5, ConsistentParts
  <2> QED BY <1>2, <1>3, <1>4, <2>1, <2>2 DEF Known
<1>9. \A x \in Sockets : RoleFits(v, x)
  <2> SUFFICES ASSUME NEW x \in Sockets PROVE RoleFits(v, x)
    OBVIOUS
  <2>1. RoleFits(w, x)
    BY <1>1
  <2> QED BY <1>2, <1>3, <1>4, <1>5, <2>1 DEF RoleFits
<1> QED BY <1>2, <1>3, <1>4, <1>6, <1>7, <1>8, <1>9 DEF Sound, Consistent, ConnIs

\* It is known from then on.
MadeKnown(w, v, s) == v = [w EXCEPT !.refs = @ \cup {s}]

LEMMA RefsSet ==
    ASSUME NEW w, NEW K, Sound(w, K), NEW s \in Sockets, s \in K,
           w.role[s] # "none", w.conn[s] \in {"up", "refused"}, NEW v, MadeKnown(w, v, s)
    PROVE  Sound(v, K) /\ v.refs = w.refs \cup {s} /\ Outlives(w, v) /\ (Settled(w) => Settled(v))
<1>1. Consistent(w, K, {}) /\ w \in ServerState /\ \A x \in Sockets : RoleFits(w, x)
  BY DEF Sound, Consistent
<1>2. /\ v \in ServerState /\ v.refs = w.refs \cup {s} /\ v.mode = w.mode /\ v.locked = w.locked
      /\ v.conn = w.conn /\ v.online = w.online /\ v.role = w.role
      /\ SameTurns(w, v) /\ SamePlaces(w, v)
  BY <1>1 DEF ServerState, SameTurns, SamePlaces, MadeKnown
<1>3. Consistent(v, K, {})
  BY <1>1, <1>2, ConsistentSame
<1>4. \A x \in Sockets : RoleFits(v, x)
  BY <1>1, <1>2 DEF RoleFits, SamePlaces, IsAssigned
<1>5. Outlives(w, v)
  BY <1>2 DEF Outlives, Placed, SamePlaces, SameTurns, IsAssigned
<1>6. Settled(w) => Settled(v)
  BY <1>2 DEF Settled, NoneFree, SamePlaces
<1> QED BY <1>2, <1>3, <1>4, <1>5, <1>6 DEF Sound

LEMMA ConnectSteps ==
    ASSUME NEW w, Good(w), NEW s \in Sockets, w.conn[s] = "new",
           NEW role \in Roles, NEW c \in {"up", "refused"},
           NEW u, u = SetRole([w EXCEPT !.conn[s] = c], s, role),
           NEW v, v = [u EXCEPT !.refs = @ \cup {s}]
    PROVE  Steps(w, v)
<1> DEFINE z == [w EXCEPT !.conn[s] = c]
           K == w.refs \cup {s}
<1>1. u = SetRole(z, s, role) /\ s \in K /\ MadeKnown(u, v, s)
  BY DEF MadeKnown
<1>2. Sound(z, K) /\ ConnIs(w, z, s, c)
  BY ConnSet DEF Good
<1>k. RefsAre(w, K \ {s}) /\ (Settled(w) => Settled(z))
  <2>1. s \notin w.refs
    BY DEF Good, Sound, RoleFits
  <2>2. Settled(w) => Settled(z)
    BY <1>2 DEF ConnIs, Settled, NoneFree, SamePlaces
  <2> QED BY <2>1, <2>2 DEF RefsAre
<1> HIDE DEF z, K
<1>3. Sound(u, K) /\ RoleTurned(z, u, s, role) /\ (Settled(z) => Settled(u))
  BY <1>1, <1>2, SetRoleSound
<1>4. u.role[s] # "none" /\ u.conn[s] \in {"up", "refused"} /\ RefsAre(u, K \ {s})
  BY <1>2, <1>3, <1>k DEF Roles, ConnIs, RoleTurned, RefsAre
<1>5. /\ Sound(v, K) /\ v.refs = u.refs \cup {s} /\ Outlives(u, v)
      /\ Settled(u) => Settled(v)
  BY ONLY s \in Sockets, <1>1, <1>3, <1>4, RefsSet
<1>6. Good(v)
  <2>1. v.refs = K
    BY <1>1, <1>4, <1>5 DEF RefsAre
  <2> QED BY <1>3, <1>5, <1>k, <2>1 DEF Good
<1>7. /\ \A x \in Sockets : z.role[x] = w.role[x] /\ (Placed(w, x) <=> Placed(z, x))
      /\ s \notin Spectators(w) /\ z.room = w.room /\ v.online = w.online
      /\ v.role = u.role
  BY <1>2, <1>3, <1>5 DEF ConnIs, SamePlaces, Placed, IsAssigned, Spectators, Outlives, RoleTurned
<1>8. Stays(w, v)
  <2> SUFFICES ASSUME NEW x \in Sockets, v.conn[x] = "up", v.role[x] = "user",
                      Placed(w, x) \/ w.role[x] # "user"
               PROVE  Placed(v, x)
    BY DEF Stays
  <2>1. Placed(u, x)
    BY <1>3, <1>7 DEF RoleTurned
  <2> QED BY <1>5, <1>7, <2>1 DEF Outlives
<1>9. Hears(w, v)
  <2> SUFFICES ASSUME NEW x \in Spectators(w) \cap Spectators(v), NEW r \in Rovers,
                      IsOnline(v, r), x \in w.room[r] \/ ~IsOnline(w, r)
               PROVE  x \in v.room[r]
    BY DEF Hears
  <2>1. x \in Sockets \ {s} /\ x \in w.room[r] /\ u.role[x] = "spectator" /\ v.conn[x] = "up"
    BY <1>7 DEF Spectators, IsOnline
  <2>2. x \in u.room[r]
    BY <1>3, <1>7, <2>1 DEF RoleTurned
  <2> QED BY <1>5, <2>1, <2>2 DEF Outlives
<1> QED BY <1>6, <1>8, <1>9 DEF Steps

\* Connected clients are known.
LEMMA UpIsKnown ==
    ASSUME NEW w, NEW K, Sound(w, K), NEW s \in Sockets, w.conn[s] = "up"
    PROVE  s \in K
BY DEF Sound, Consistent, Known

LEMMA DisconnectSteps ==
    ASSUME NEW w, Good(w), NEW s \in Sockets, NEW v, v = Disconnected(w, s)
    PROVE  Steps(w, v)
<1> DEFINE K == w.refs
<1>1. Sound(w, K) /\ RefsAre(w, K)
  BY DEF Good, RefsAre
<1> HIDE DEF K
<1>2. /\ Sound(v, K \ {s}) /\ RefsAre(v, K \ {s}) /\ Outlives(w, v)
      /\ Settled(w) => Settled(v)
  BY <1>1, DisconnectedSound
<1>3. Good(v)
  BY <1>2 DEF Good, RefsAre
<1> QED BY <1>2, <1>3, OutlivesStays DEF Steps

LEMMA SetRoleSteps ==
    ASSUME NEW w, Good(w), NEW s \in Sockets, NEW role \in Roles,
           role = "user" => w.conn[s] = "up", NEW v, v = SetRole(w, s, role)
    PROVE  Steps(w, v)
<1> DEFINE K == w.refs
<1>1. Sound(w, K) /\ RefsAre(w, K)
  BY DEF Good, RefsAre
<1> HIDE DEF K
<1>2. role = "user" => s \in K
  BY <1>1, UpIsKnown
<1>3. Sound(v, K) /\ RoleTurned(w, v, s, role) /\ (Settled(w) => Settled(v))
  BY <1>1, <1>2, SetRoleSound
<1>4. Good(v)
  BY <1>1, <1>3 DEF Good, RefsAre, RoleTurned
<1> QED BY <1>3, <1>4, RoleTurnedStays DEF Steps

LEMMA LoginSteps ==
    ASSUME NEW w, Good(w), NEW L \in SUBSET Sockets, NEW v, v = [w EXCEPT !.login = L]
    PROVE  Steps(w, v)
<1> DEFINE K == w.refs
<1>1. Sound(w, K) /\ RefsAre(w, K)
  BY DEF Good, RefsAre
<1> HIDE DEF K
<1>2. Sound(v, K) /\ Outlives(w, v) /\ v.refs = w.refs /\ (Settled(w) => Settled(v))
  BY <1>1, LoginSet
<1>3. Good(v)
  BY <1>1, <1>2 DEF Good, RefsAre
<1> QED BY <1>2, <1>3, OutlivesStays DEF Steps

\* The password check ends, then the role is set.
LEMMA LoginEndSteps ==
    ASSUME NEW w, Good(w), NEW s \in Sockets, NEW role \in {"admin", "lockdown"},
           NEW v, v = SetRole([w EXCEPT !.login = @ \ {s}], s, role)
    PROVE  Steps(w, v)
<1> DEFINE L == w.login \ {s}
           u == [w EXCEPT !.login = L]
<1>0. w \in ServerState
  BY DEF Good, Sound, Consistent
<1>1. L \in SUBSET Sockets /\ v = SetRole(u, s, role) /\ role \in Roles /\ role # "user"
  BY <1>0 DEF ServerState, Roles
<1>2. u = [w EXCEPT !.login = L]
  OBVIOUS
<1>3. /\ u.conn = w.conn /\ u.online = w.online /\ u.role = w.role
      /\ SameTurns(w, u) /\ SamePlaces(w, u)
  BY <1>0 DEF ServerState, SameTurns, SamePlaces
<1>4. Steps(w, u)
  BY <1>1, LoginSteps
<1> HIDE DEF L, u
<1>5. Steps(u, v)
  BY <1>1, <1>4, SetRoleSteps DEF Steps
<1>6. /\ \A x : Placed(u, x) <=> Placed(w, x)
      /\ u.room = w.room /\ Spectators(u) = Spectators(w)
      /\ \A r : IsOnline(u, r) <=> IsOnline(w, r)
  BY <1>3 DEF Placed, IsAssigned, SamePlaces, SameTurns, Spectators, IsOnline
<1>7. Stays(w, v)
  BY <1>3, <1>5, <1>6 DEF Steps, Stays
<1>8. Hears(w, v)
  BY <1>5, <1>6 DEF Steps, Hears
<1> QED BY <1>5, <1>7, <1>8 DEF Steps

\* The users that wait are tried again after the state has changed to u.
LEMMA ReassignedSteps ==
    ASSUME NEW w, NEW u, Sound(u, u.refs), Stays(w, u), Hears(w, u),
           NEW v, v = ReassignWaiting(u)
    PROVE  Steps(w, v)
<1>1. Sound(v, u.refs) /\ Kept(u, v) /\ Settled(v)
  BY ReassignWaitingSound
<1>2. Good(v)
  BY <1>1 DEF Good, Kept, Same
<1>3. v.role = u.role /\ v.conn = u.conn /\ v.online = u.online /\ Spectators(v) = Spectators(u)
  BY <1>1 DEF Kept, Same, Spectators
<1>4. Stays(w, v)
  <2> SUFFICES ASSUME NEW x \in Sockets, v.conn[x] = "up", v.role[x] = "user",
                      Placed(w, x) \/ w.role[x] # "user"
               PROVE  Placed(v, x)
    BY DEF Stays
  <2>1. Placed(u, x)
    BY <1>3 DEF Stays
  <2> QED BY <1>1, <1>3, <2>1 DEF Kept
<1>5. Hears(w, v)
  <2> SUFFICES ASSUME NEW x \in Spectators(w) \cap Spectators(v), NEW r \in Rovers,
                      IsOnline(v, r), x \in w.room[r] \/ ~IsOnline(w, r)
               PROVE  x \in v.room[r]
    BY DEF Hears
  <2>1. x \in u.room[r]
    BY <1>3 DEF Hears, IsOnline
  <2>2. x \in Sockets /\ u.role[x] = "spectator"
    BY <1>3 DEF Spectators
  <2> QED BY <1>1, <2>1, <2>2 DEF Kept
<1> QED BY <1>2, <1>4, <1>5 DEF Steps

\* turnService's listener of mode changes.
HoldersSynced(w, v, m) == v = [w EXCEPT !.holder = [r \in Rovers |-> Synced(m, w.line[r], @[r])]]

LEMMA SyncedSound ==
    ASSUME NEW w, NEW K, Sound(w, K), NEW m, NEW v, HoldersSynced(w, v, m)
    PROVE  Sound(v, K) /\ Outlives(w, v) /\ v.refs = w.refs
<1> DEFINE H == [r \in Rovers |-> Synced(m, w.line[r], w.holder[r])]
<1>1. w \in ServerState /\ Lines(w)
  BY ConsistentParts DEF Sound
<1>2. v = [w EXCEPT !.holder = H]
  BY <1>1 DEF HoldersSynced, ServerState
<1>3. ASSUME NEW r \in Rovers
      PROVE  /\ H[r] \in Sockets \cup {NoOne}
             /\ IF w.line[r] = <<>> THEN H[r] = NoOne ELSE H[r] \in w.drivers[r]
  <2> DEFINE q == w.line[r]
  <2>1. /\ q \in Seq(Sockets) /\ w.holder[r] \in Sockets \cup {NoOne}
        /\ Range(q) = w.drivers[r]
        /\ q # <<>> => w.holder[r] \in w.drivers[r]
    BY <1>1 DEF ServerState, Lines, Queued
  <2>2. H[r] = Synced(m, q, w.holder[r])
    OBVIOUS
  <2> HIDE DEF q
  <2>3. /\ q = <<>> => HeadOf(q) = NoOne
        /\ q # <<>> => HeadOf(q) \in Range(q) /\ HeadOf(q) \in Sockets
    BY <2>1, Heads
  <2>4. q = <<>> => Len(q) = 0
    OBVIOUS
  <2>5. /\ q = <<>> => H[r] = NoOne
        /\ q # <<>> => H[r] \in w.drivers[r] /\ H[r] \in Sockets \cup {NoOne}
    BY <2>1, <2>2, <2>3, <2>4 DEF Synced
  <2> QED BY <2>5 DEF q
<1>4. H \in [Rovers -> Sockets \cup {NoOne}]
  BY <1>3
<1> HIDE DEF H
<1> QED BY <1>2, <1>3, <1>4, HolderSet

LEMMA SetModeSteps ==
    ASSUME NEW w, Good(w), NEW m \in Modes,
           NEW w1, w1 = [w EXCEPT !.mode = m], NEW out \in SUBSET Sockets,
           NEW w2, w2 = FoldLeft(Disconnected, w1, SetToSeq(out)),
           NEW w3, HoldersSynced(w2, w3, m),
           NEW w4, w4 = w3 \/ w4 = ReleaseUsers(w3),
           NEW v, v = ReassignWaiting(w4)
    PROVE  Steps(w, v)
<1> DEFINE K == w.refs
           q == SetToSeq(out)
<1>1. Sound(w, K) /\ RefsAre(w, K) /\ q \in Seq(Sockets)
  BY SetListed DEF Good, RefsAre
<1>2. w2 = FoldLeft(Disconnected, w1, q)
  OBVIOUS
<1> HIDE DEF K, q
<1>3. Sound(w1, K) /\ Outlives(w, w1) /\ w1.refs = w.refs
  BY <1>1, ModeSet
<1>4. Sound(w1, w1.refs)
  BY <1>1, <1>3 DEF RefsAre
<1>5. Emptied(w1, w2)
  BY ONLY <1>1, <1>2, <1>4, AllDisconnected
<1> DEFINE J == w2.refs
<1>6. Sound(w2, J) /\ RefsAre(w2, J)
  BY <1>5 DEF Emptied, RefsAre
<1> HIDE DEF J
<1>7. Sound(w3, J) /\ Outlives(w2, w3) /\ w3.refs = w2.refs
  BY ONLY HoldersSynced(w2, w3, m), <1>6, SyncedSound
<1>8. Sound(w3, w3.refs)
  BY <1>6, <1>7 DEF RefsAre
<1>9. Sound(w4, w4.refs) /\ Outlives(w3, w4)
  <2>1. CASE w4 = w3
    BY <1>8, <2>1 DEF Outlives
  <2>2. CASE w4 = ReleaseUsers(w3)
    <3>1. Sound(w4, w3.refs) /\ Kept(w3, w4)
      BY <1>8, <2>2, ReleaseUsersSound
    <3> QED BY <3>1, KeptOutlives DEF Kept, Same
  <2> QED BY <2>1, <2>2
<1>10. Outlives(w, w4)
  BY <1>3, <1>5, <1>7, <1>9, OutlivesTrans DEF Emptied
<1>11. Stays(w, w4) /\ Hears(w, w4)
  BY <1>10, OutlivesStays
<1> QED BY ONLY v = ReassignWaiting(w4), <1>9, <1>11, ReassignedSteps

LEMMA LockSteps ==
    ASSUME NEW w, Good(w), NEW r \in Rovers, NEW locked \in BOOLEAN,
           NEW u, LocksSet(w, u, r, locked), NEW v, v = LockChanged(u, r)
    PROVE  Steps(w, v)
<1> DEFINE K == w.refs
<1>1. Sound(w, K) /\ RefsAre(w, K) /\ Settled(w)
  BY DEF Good, RefsAre
<1> HIDE DEF K
<1>2. /\ Sound(u, K) /\ Outlives(w, u) /\ u.refs = w.refs
      /\ locked /\ Settled(w) => Settled(u)
      /\ u.locked[r] = locked
  BY <1>1, LockSet
<1>3. Sound(u, u.refs) /\ Stays(w, u) /\ Hears(w, u)
  BY <1>1, <1>2, OutlivesStays DEF RefsAre
<1>4. CASE locked
  <2>1. v = ReassignFromRover(u, r) /\ Settled(u)
    BY <1>1, <1>2, <1>4 DEF LockChanged
  <2>2. Sound(v, u.refs) /\ Kept(u, v) /\ Settled(v)
    BY <1>3, <2>1, ReassignFromSound
  <2>3. Outlives(w, v) /\ Good(v)
    BY <1>2, <2>2, KeptOutlives, OutlivesTrans DEF Good, Kept, Same
  <2> QED BY <2>3, OutlivesStays DEF Steps
<1>5. CASE ~locked
  <2>1. v = ReassignWaiting(u)
    BY <1>2, <1>5 DEF LockChanged
  <2> QED BY ONLY <1>3, <2>1, ReassignedSteps
<1> QED BY <1>4, <1>5

\* The record of a rover comes or goes.
RecordsSet(w, v, O, L, D, Q, R, H) ==
    v = [w EXCEPT !.online = O, !.locked = L, !.drivers = D, !.line = Q, !.room = R, !.holder = H]

RecordsAre(w, v, O, L, D, Q, R, H) ==
    /\ v \in ServerState
    /\ v.online = O /\ v.locked = L /\ v.drivers = D /\ v.line = Q /\ v.room = R /\ v.holder = H
    /\ v.mode = w.mode /\ v.conn = w.conn /\ v.role = w.role /\ v.refs = w.refs
    /\ v.joined = w.joined /\ SamePlaces(w, v)

RecordsTyped(O, L, D, Q, R, H) ==
    /\ O \in Seq(Rovers) /\ L \in [Rovers -> BOOLEAN] /\ D \in [Rovers -> SUBSET Sockets]
    /\ Q \in [Rovers -> Seq(Sockets)] /\ R \in [Rovers -> SUBSET Sockets]
    /\ H \in [Rovers -> Sockets \cup {NoOne}]

LEMMA RecordsUpdated ==
    ASSUME NEW w \in ServerState, NEW O, NEW L, NEW D, NEW Q, NEW R, NEW H, NEW v,
           RecordsTyped(O, L, D, Q, R, H), RecordsSet(w, v, O, L, D, Q, R, H)
    PROVE  RecordsAre(w, v, O, L, D, Q, R, H)
BY DEF ServerState, RecordsTyped, RecordsSet, RecordsAre, SamePlaces

\* The drivers of v are some of those of w, and hear what they heard.
RecordsFit(w, O, D, Q, R, H) ==
    /\ IsInjective(O)
    /\ \A p \in Rovers :
          \/ /\ D[p] = w.drivers[p] /\ Q[p] = w.line[p] /\ H[p] = w.holder[p]
             /\ IsOnline(w, p) => p \in Range(O)
          \/ D[p] = {} /\ Q[p] = <<>> /\ H[p] = NoOne
    /\ \A p \in Rovers, x \in Sockets :
          /\ x \in D[p] /\ x \in w.room[p] => x \in R[p]
          /\ x \in R[p] => w.conn[x] = "up"

LEMMA RecordsSound ==
    ASSUME NEW w, NEW K, Sound(w, K), NEW O, NEW L, NEW D, NEW Q, NEW R, NEW H, NEW v,
           RecordsAre(w, v, O, L, D, Q, R, H), RecordsFit(w, O, D, Q, R, H)
    PROVE  Sound(v, K) /\ Stays(w, v)
<1>1. /\ Consistent(w, K, {}) /\ w \in ServerState /\ \A x \in Sockets : RoleFits(w, x)
      /\ Lines(w) /\ OnePlace(w.assigned) /\ IsInjective(w.waiting)
      /\ \A s \in Range(w.waiting) : ~IsAssigned(w, s)
  BY ConsistentParts DEF Sound, Consistent
<1>2. /\ v \in ServerState
      /\ v.online = O /\ v.drivers = D /\ v.line = Q /\ v.room = R /\ v.holder = H
      /\ v.mode = w.mode /\ v.conn = w.conn /\ v.role = w.role /\ v.refs = w.refs
      /\ v.joined = w.joined /\ v.assigned = w.assigned /\ v.waiting = w.waiting
  BY DEF RecordsAre, SamePlaces
<1>3. /\ \A x : IsAssigned(v, x) <=> IsAssigned(w, x)
      /\ \A x, p : Has(v, x, p) <=> Has(w, x, p)
  BY <1>2 DEF IsAssigned, Has
<1>4. Lines(v)
  <2> SUFFICES ASSUME NEW p \in Rovers
               PROVE  /\ Range(v.line[p]) = v.drivers[p]
                      /\ v.drivers[p] # {} => IsOnline(v, p)
                      /\ IF v.line[p] = <<>> THEN v.holder[p] = NoOne
                         ELSE v.holder[p] \in v.drivers[p]
                      /\ IsInjective(v.line[p])
    BY DEF Lines, Queued
  <2>1. /\ Range(w.line[p]) = w.drivers[p]
        /\ w.drivers[p] # {} => IsOnline(w, p)
        /\ IF w.line[p] = <<>> THEN w.holder[p] = NoOne ELSE w.holder[p] \in w.drivers[p]
        /\ IsInjective(w.line[p])
    BY <1>1 DEF Lines, Queued
  <2>2. CASE /\ D[p] = w.drivers[p] /\ Q[p] = w.line[p] /\ H[p] = w.holder[p]
             /\ IsOnline(w, p) => p \in Range(O)
    BY <1>2, <2>1, <2>2 DEF IsOnline
  <2>3. CASE D[p] = {} /\ Q[p] = <<>> /\ H[p] = NoOne
    <3>1. Range(<<>>) = {} /\ IsInjective(<<>>)
      BY DEF Range, IsInjective
    <3> QED BY <1>2, <2>3, <3>1
  <2> QED BY <2>2, <2>3 DEF RecordsFit
<1>5. \A p \in Rovers, x \in Sockets : x \in v.drivers[p] =>
               /\ p \in Range(v.joined[x])
               /\ x \notin {} => Has(v, x, p)
               /\ v.conn[x] = "up" => x \in v.room[p]
  <2> SUFFICES ASSUME NEW p \in Rovers, NEW x \in Sockets, x \in D[p]
               PROVE  /\ p \in Range(w.joined[x])
                      /\ Has(w, x, p)
                      /\ w.conn[x] = "up" => x \in R[p]
    BY <1>2, <1>3
  <2>1. x \in w.drivers[p]
    BY DEF RecordsFit
  <2> QED BY <1>1, <2>1 DEF Consistent, Linked, RecordsFit
<1>6. \A x \in Sockets \ K :
               /\ v.conn[x] # "up" /\ v.joined[x] = <<>>
               /\ ~IsAssigned(v, x) /\ x \notin Range(v.waiting)
  BY <1>1, <1>2, <1>3 DEF Consistent, Known
<1>7. \A p \in Rovers, x \in Sockets : x \in v.room[p] => v.conn[x] = "up"
  BY <1>2 DEF RecordsFit
<1>8. Consistent(v, K, {})
  <2>1. IsInjective(v.online) /\ IsInjective(v.waiting) /\ OnePlace(v.assigned)
    BY <1>1, <1>2 DEF RecordsFit
  <2>2. \A x \in Sockets : x \in Range(v.waiting) => ~IsAssigned(v, x)
    BY <1>1, <1>2, <1>3
  <2> QED BY ONLY <1>2, <1>4, <1>5, <1>6, <1>7, <2>1, <2>2, ConsistentIf
<1>9. \A x \in Sockets : RoleFits(v, x)
  BY <1>1, <1>2, <1>3 DEF RoleFits
<1>10. Stays(w, v)
  BY <1>2, <1>3 DEF Stays, Placed
<1> QED BY <1>8, <1>9, <1>10 DEF Sound

RecordAdded(w, u, r) ==
    u = [w EXCEPT !.online = Added(@, r), !.room[r] = @ \cup Spectators(w)]

LEMMA UpsertSteps ==
    ASSUME NEW w, Good(w), NEW r \in Rovers, NEW u, RecordAdded(w, u, r),
           NEW v, v = ReassignWaiting(u)
    PROVE  Steps(w, v)
<1> DEFINE K == w.refs
           O == Added(w.online, r)
           R == [w.room EXCEPT ![r] = @ \cup Spectators(w)]
           S == Spectators(w)
<1>1. /\ Sound(w, K) /\ RefsAre(w, K) /\ w \in ServerState /\ IsInjective(w.online)
      /\ \A p \in Rovers, x \in Sockets : x \in w.room[p] => w.conn[x] = "up"
  BY ConsistentParts DEF Good, RefsAre, Sound, Consistent, Known
<1>2. O \in Seq(Rovers) /\ Grown(O, w.online, r)
  BY <1>1, RoverLists DEF ServerState
<1>3. S \subseteq Sockets /\ \A x \in S : w.conn[x] = "up"
  BY DEF Spectators
<1>4. /\ R \in [Rovers -> SUBSET Sockets] /\ R[r] = w.room[r] \cup S
      /\ \A p \in Rovers : p # r => R[p] = w.room[p]
  BY <1>1, <1>3 DEF ServerState
<1>5. RecordsSet(w, u, O, w.locked, w.drivers, w.line, R, w.holder)
  <2>1. u = [w EXCEPT !.online = O, !.room = R]
    BY <1>1 DEF ServerState, RecordAdded
  <2> HIDE DEF O, R
  <2> QED BY <1>1, <2>1 DEF ServerState, RecordsSet
<1> HIDE DEF K, O, R
<1>6. RecordsTyped(O, w.locked, w.drivers, w.line, R, w.holder)
  BY <1>1, <1>2, <1>4 DEF RecordsTyped, ServerState
<1>7. RecordsAre(w, u, O, w.locked, w.drivers, w.line, R, w.holder)
  BY <1>1, <1>5, <1>6, RecordsUpdated
<1>8. RecordsFit(w, O, w.drivers, w.line, R, w.holder)
  BY <1>1, <1>2, <1>3, <1>4 DEF RecordsFit, Grown, IsOnline
<1>9. Sound(u, K) /\ Stays(w, u)
  BY <1>1, <1>7, <1>8, RecordsSound
<1>10. Sound(u, u.refs)
  BY <1>1, <1>7, <1>9 DEF RecordsAre, RefsAre
<1>11. Hears(w, u)
  <2> SUFFICES ASSUME NEW x \in S, NEW p \in Rovers,
                      IsOnline(u, p), x \in w.room[p] \/ ~IsOnline(w, p)
               PROVE  x \in u.room[p]
    BY DEF Hears
  <2>1. u.online = O /\ u.room = R
    BY <1>7 DEF RecordsAre
  <2>2. CASE p = r
    BY <1>4, <2>1, <2>2
  <2>3. CASE p # r
    BY <1>2, <1>4, <2>1, <2>3 DEF Grown, IsOnline
  <2> QED BY <2>2, <2>3
<1> QED BY ONLY v = ReassignWaiting(u), <1>9, <1>10, <1>11, ReassignedSteps

RecordRemoved(w, u, r) ==
    u = [w EXCEPT !.online = Dropped(@, r), !.locked[r] = FALSE,
                  !.drivers[r] = {}, !.line[r] = <<>>,
                  !.room[r] = @ \ Spectators(w), !.holder[r] = NoOne]

LEMMA RemoveSteps ==
    ASSUME NEW w, Good(w), NEW r \in Rovers, NEW u, RecordRemoved(w, u, r),
           NEW v, v = ReassignWaiting(u)
    PROVE  Steps(w, v)
<1> DEFINE K == w.refs
           O == Dropped(w.online, r)
           L == [w.locked EXCEPT ![r] = FALSE]
           D == [w.drivers EXCEPT ![r] = {}]
           Q == [w.line EXCEPT ![r] = <<>>]
           R == [w.room EXCEPT ![r] = @ \ Spectators(w)]
           H == [w.holder EXCEPT ![r] = NoOne]
<1>1. /\ Sound(w, K) /\ RefsAre(w, K) /\ w \in ServerState /\ IsInjective(w.online)
      /\ \A p \in Rovers, x \in Sockets : x \in w.room[p] => w.conn[x] = "up"
  BY ConsistentParts DEF Good, RefsAre, Sound, Consistent, Known
<1>2. O \in Seq(Rovers) /\ Shrunk(O, w.online, r)
  BY <1>1, RoverLists DEF ServerState
<1>3. /\ IsInjective(O) /\ r \notin Range(O)
      /\ \A p \in Rovers : p # r => (p \in Range(O) <=> p \in Range(w.online))
  BY <1>1, <1>2 DEF Shrunk
<1>4. u = [w EXCEPT !.online = O, !.locked = L, !.drivers = D, !.line = Q,
                    !.room = R, !.holder = H]
  BY <1>1 DEF ServerState, RecordRemoved
<1>5. /\ L \in [Rovers -> BOOLEAN] /\ D \in [Rovers -> SUBSET Sockets]
      /\ Q \in [Rovers -> Seq(Sockets)] /\ H \in [Rovers -> Sockets \cup {NoOne}]
      /\ R \in [Rovers -> SUBSET Sockets]
  BY <1>1 DEF ServerState
<1>6. /\ D[r] = {} /\ Q[r] = <<>> /\ H[r] = NoOne /\ R[r] = w.room[r] \ Spectators(w)
      /\ \A p \in Rovers : p # r =>
            D[p] = w.drivers[p] /\ Q[p] = w.line[p] /\ H[p] = w.holder[p] /\ R[p] = w.room[p]
  BY <1>1 DEF ServerState
<1> HIDE DEF K, O, L, D, Q, R, H
<1>7. RecordsAre(w, u, O, L, D, Q, R, H)
  <2>1. RecordsSet(w, u, O, L, D, Q, R, H) /\ RecordsTyped(O, L, D, Q, R, H)
    BY <1>2, <1>4, <1>5 DEF RecordsSet, RecordsTyped
  <2> QED BY <1>1, <2>1, RecordsUpdated
<1>8. RecordsFit(w, O, D, Q, R, H)
  BY <1>1, <1>3, <1>6 DEF RecordsFit, IsOnline
<1>9. Sound(u, K) /\ Stays(w, u)
  BY ONLY <1>1, <1>7, <1>8, RecordsSound
<1>10. Sound(u, u.refs)
  BY <1>1, <1>7, <1>9 DEF RecordsAre, RefsAre
<1>11. Hears(w, u)
  BY <1>3, <1>6, <1>7 DEF Hears, RecordsAre, IsOnline
<1> QED BY ONLY v = ReassignWaiting(u), <1>9, <1>10, <1>11, ReassignedSteps

\* A step for client s alone, who goes on to have a rover or to wait, and to
\* hear what it heard.
LEMMA StepsFor ==
    ASSUME NEW w, Good(w), NEW s \in Sockets, NEW v, Consistent(v, w.refs, {}),
           OnlyFor(w, v, s), RoleFits(v, s),
           w.waiting = <<>> => v.waiting = <<>>
    PROVE  /\ Good(v)
           /\ \A x \in Sockets \ {s} :
                 /\ Placed(w, x) => Placed(v, x)
                 /\ \A r \in Rovers : x \in w.room[r] => x \in v.room[r]
           /\ v.conn = w.conn /\ v.role = w.role /\ v.online = w.online
<1>1. \A x \in Sockets : RoleFits(w, x)
  BY DEF Good, Sound
<1>2. \A x \in Sockets : RoleFits(v, x)
  BY ONLY s \in Sockets, OnlyFor(w, v, s), RoleFits(v, s), <1>1, RolesFitFor
<1>3. Same(w, v)
  BY DEF OnlyFor
<1>4. Settled(v)
  BY <1>3, NoneFreeSame DEF Good, Settled
<1>5. v.conn = w.conn /\ v.role = w.role /\ v.online = w.online /\ v.refs = w.refs
  BY <1>3 DEF Same
<1>6. Good(v)
  BY <1>2, <1>4, <1>5 DEF Good, Sound
<1> QED BY <1>5, <1>6 DEF OnlyFor, Placed

LEMMA RequestSteps ==
    ASSUME NEW w, Good(w), NEW s \in Sockets, w.conn[s] = "up", w.role[s] # "spectator",
           NEW r \in Rovers, IsOnline(w, r), NEW force \in BOOLEAN,
           NEW g, g = Grant(w, r, s, force), NEW u, u = SwitchTo(g, w.joined[s], r, s),
           NEW v, v = Assign(StopWaiting(u, s), s, r)
    PROVE  Steps(w, v)
<1> DEFINE K == w.refs
           q == w.joined[s]
           z == StopWaiting(u, s)
<1>1. Sound(w, K) /\ RefsAre(w, K)
  BY DEF Good, RefsAre
<1> HIDE DEF K
<1>2. /\ s \in K /\ Consistent(w, K, {}) /\ q \in Seq(Rovers)
      /\ \A p \in Rovers : s \in w.drivers[p] => p \in Range(q)
  BY <1>1, UpIsKnown DEF Sound, Consistent, ServerState, Linked
<1>3. u = SwitchTo(g, q, r, s) /\ v = Assign(z, s, r) /\ z = StopWaiting(u, s)
  OBVIOUS
<1> HIDE DEF q, z
<1>4. /\ Consistent(g, K, {s}) /\ OnlyFor(w, g, s) /\ SamePlaces(w, g)
      /\ \A p \in Rovers : s \in g.drivers[p] => s \in w.drivers[p] \/ p = r
  <2>1. /\ s \in Sockets /\ r \in Rovers /\ force \in BOOLEAN
        /\ IsOnline(w, r) /\ g = Grant(w, r, s, force)
    OBVIOUS
  <2> QED BY ONLY <1>2, <2>1, GrantKeeps
<1>5. /\ Consistent(u, K, {s}) /\ OnlyFor(g, u, s) /\ SamePlaces(g, u)
      /\ \A p \in Rovers : s \in u.drivers[p] => s \in g.drivers[p] /\ (p \in Range(q) => p = r)
  <2>1. s \in Sockets /\ q \in Seq(Rovers) /\ Consistent(g, K, {s}) /\ u = SwitchTo(g, q, r, s)
    BY <1>2, <1>3, <1>4
  <2>2. Switched(g, u, K, q, r, s, Len(q))
    BY ONLY <2>1, SwitchKeeps
  <2>3. \A p \in Range(q) : \E j \in 1..Len(q) : q[j] = p
    BY <2>1 DEF Range
  <2> QED BY <2>2, <2>3 DEF Switched
<1>6. /\ Consistent(z, K, {s}) /\ OnlyFor(u, z, s) /\ SameTurns(u, z)
      /\ s \notin Range(z.waiting)
      /\ u.waiting = <<>> => z.waiting = <<>>
  BY ONLY s \in Sockets, <1>3, <1>5, StopWaitingKeeps
<1>7. \A p \in Rovers : s \in z.drivers[p] => p = r
  BY <1>2, <1>4, <1>5, <1>6 DEF SameTurns
<1>8. /\ Consistent(v, K, {}) /\ OnlyFor(z, v, s) /\ v.waiting = z.waiting /\ IsAssigned(v, s)
  BY ONLY s \in Sockets, r \in Rovers, <1>2, <1>3, <1>6, <1>7, AssignKeeps
<1>9. OnlyFor(w, v, s)
  BY <1>4, <1>5, <1>6, <1>8, OnlyForTrans
<1>10. RoleFits(v, s)
  <2>1. RoleFits(w, s) /\ Same(w, v)
    BY <1>1, <1>9 DEF Sound, OnlyFor
  <2> QED BY <1>6, <1>8, <2>1 DEF RoleFits, Same
<1>11. w.waiting = <<>> => v.waiting = <<>>
  BY <1>4, <1>5, <1>6, <1>8 DEF SamePlaces
<1>12. Consistent(v, w.refs, {})
  BY <1>1, <1>8 DEF RefsAre
<1>13. /\ Good(v)
       /\ \A x \in Sockets \ {s} :
             /\ Placed(w, x) => Placed(v, x)
             /\ \A p \in Rovers : x \in w.room[p] => x \in v.room[p]
       /\ v.conn = w.conn /\ v.role = w.role /\ v.online = w.online
  BY <1>9, <1>10, <1>11, <1>12, StepsFor
<1>14. Stays(w, v)
  BY <1>8, <1>13 DEF Stays, Placed
<1>15. Hears(w, v)
  BY <1>13 DEF Hears, Spectators, IsOnline
<1> QED BY <1>13, <1>14, <1>15 DEF Steps

\* The client may stop hearing the rover that it releases.
LEMMA ReleaseSteps ==
    ASSUME NEW w, Good(w), NEW s \in Sockets, NEW r \in Rovers, NEW v, v = Release(w, r, s)
    PROVE  /\ Good(v) /\ Stays(w, v)
           /\ \A x \in Spectators(w) \cap Spectators(v), p \in Rovers :
                 IsOnline(v, p) /\ (x \in w.room[p] \/ ~IsOnline(w, p))
                 => x \in v.room[p] \/ (x = s /\ p = r)
<1> DEFINE K == w.refs
<1>1. Sound(w, K) /\ RefsAre(w, K)
  BY DEF Good, RefsAre
<1> HIDE DEF K
<1>2. Consistent(w, K, {}) /\ w \in ServerState
  BY <1>1 DEF Sound, Consistent
<1>3. Consistent(v, K, {}) /\ OnlyFor(w, v, s) /\ SamePlaces(w, v)
  BY <1>2, ReleaseKeeps
<1>4. \A x \in Sockets : (Placed(v, x) <=> Placed(w, x)) /\ (RoleFits(w, x) => RoleFits(v, x))
  BY <1>3 DEF SamePlaces, Placed, IsAssigned, RoleFits, OnlyFor, Same
<1>5. Consistent(v, w.refs, {}) /\ RoleFits(v, s) /\ (w.waiting = <<>> => v.waiting = <<>>)
  BY <1>1, <1>3, <1>4 DEF RefsAre, Sound, SamePlaces
<1>6. /\ Good(v)
      /\ \A x \in Sockets \ {s} : \A p \in Rovers : x \in w.room[p] => x \in v.room[p]
      /\ v.conn = w.conn /\ v.role = w.role /\ v.online = w.online
  BY <1>3, <1>5, StepsFor
<1>7. \A p \in Rovers : p # r => (s \in w.room[p] => s \in v.room[p])
  BY <1>2, ReleaseEffect DEF Released
<1>8. Stays(w, v)
  BY <1>4, <1>6 DEF Stays
<1> QED BY <1>6, <1>7, <1>8 DEF IsOnline, Spectators

LEMMA SubscribeSteps ==
    ASSUME NEW w, Good(w), NEW s \in Sockets, w.conn[s] = "up", NEW v, v = JoinAll(w, s)
    PROVE  Steps(w, v) /\ \A r \in Rovers : IsOnline(v, r) => s \in v.room[r]
<1> DEFINE K == w.refs
           E == w.role
           R == [r \in Rovers |-> IF IsOnline(w, r) THEN Join(w, r, s) ELSE w.room[r]]
<1>1. Sound(w, K) /\ RefsAre(w, K) /\ Consistent(w, K, {}) /\ w \in ServerState
  BY DEF Good, RefsAre, Sound, Consistent
<1>2. E \in [Sockets -> Roles \cup {"none"}] /\ R \in [Rovers -> SUBSET Sockets]
  BY <1>1 DEF ServerState, Join
<1>3. RoomsFit(w, s, R)
  BY DEF RoomsFit, Join
<1>4. RolesSet(w, v, E, R)
  <2>1. v = [w EXCEPT !.room = R]
    BY <1>1 DEF JoinAll, ServerState
  <2> HIDE DEF R
  <2> QED BY <1>1, <2>1 DEF RolesSet, ServerState
<1>5. \A r \in Rovers : IsOnline(w, r) => s \in R[r]
  BY DEF Join
<1>6. \A r \in Rovers : w.room[r] \subseteq R[r]
  BY DEF Join
<1> HIDE DEF K, E, R
<1>7. Consistent(v, K, {}) /\ RoleRoomAre(w, v, E, R)
  BY ONLY s \in Sockets, <1>1, <1>2, <1>3, <1>4, RoleRoomSet
<1>8. /\ v.role = w.role /\ v.room = R /\ v.assigned = w.assigned /\ v.waiting = w.waiting
      /\ v.mode = w.mode /\ v.conn = w.conn /\ v.online = w.online
      /\ v.locked = w.locked /\ v.refs = w.refs
  BY <1>7 DEF RoleRoomAre, SamePlaces, E
<1>9. Good(v)
  <2>1. \A x \in Sockets : RoleFits(v, x)
    BY <1>1, <1>8 DEF Sound, RoleFits, IsAssigned
  <2>2. Settled(v)
    BY <1>8 DEF Good, Settled, NoneFree
  <2> QED BY <1>1, <1>7, <1>8, <2>1, <2>2 DEF Good, Sound, RefsAre
<1>10. Stays(w, v)
  BY <1>8 DEF Stays, Placed, IsAssigned
<1>11. Hears(w, v)
  BY <1>6, <1>8 DEF Hears, IsOnline
<1> QED BY <1>5, <1>8, <1>9, <1>10, <1>11 DEF Steps, IsOnline

\* The turn goes to one who is in the line.
LEMMA NextHolder ==
    ASSUME NEW n \in Nat, n > 1, NEW i \in 1..n
    PROVE  (i % n) + 1 \in 1..n
<1>1. i % n \in 0..(n - 1)
  OBVIOUS
<1> QED BY <1>1

\* Where clients wait for the turn, one of those in the line has it.
LEMMA ContestedHolder ==
    ASSUME NEW w, Good(w), NEW r \in Rovers, Contested(w, r)
    PROVE  /\ w.line[r] \in Seq(Sockets) /\ Len(w.line[r]) > 1
           /\ Range(w.line[r]) = w.drivers[r]
           /\ w.holder[r] \in w.drivers[r] /\ w.holder[r] \in Sockets
<1>1. w \in ServerState /\ Lines(w)
  BY ConsistentParts DEF Good, Sound
<1>2. /\ w.line[r] \in Seq(Sockets) /\ Range(w.line[r]) = w.drivers[r]
      /\ w.line[r] # <<>> => w.holder[r] \in w.drivers[r]
      /\ w.drivers[r] \subseteq Sockets
  BY <1>1 DEF Lines, Queued, ServerState
<1>3. Len(w.line[r]) > 1 /\ w.line[r] # <<>>
  BY <1>2 DEF Contested
<1> QED BY <1>2, <1>3

LEMMA TimeoutSteps ==
    ASSUME NEW w, Good(w), NEW r \in Rovers, Contested(w, r),
           NEW q, q = w.line[r], NEW i, i = CHOOSE j \in DOMAIN q : q[j] = w.holder[r],
           NEW v, v = [w EXCEPT !.holder[r] = q[(i % Len(q)) + 1]]
    PROVE  Steps(w, v)
<1> DEFINE K == w.refs
           k == (i % Len(q)) + 1
           H == [w.holder EXCEPT ![r] = q[k]]
<1>1. Sound(w, K) /\ RefsAre(w, K) /\ w \in ServerState /\ Lines(w)
  BY ConsistentParts DEF Good, RefsAre, Sound
<1>2. q \in Seq(Sockets) /\ Len(q) > 1 /\ Range(q) = w.drivers[r] /\ w.holder[r] \in Range(q)
  BY ContestedHolder
<1>3. i \in 1..Len(q) /\ Len(q) \in Nat /\ DOMAIN q = 1..Len(q)
  BY <1>2 DEF Range
<1>4. k \in 1..Len(q)
  BY <1>2, <1>3, NextHolder
<1>5. v = [w EXCEPT !.holder = H]
  BY <1>1 DEF ServerState
<1> HIDE DEF K, k
<1>6. q[k] \in Sockets /\ q[k] \in w.drivers[r]
  BY <1>2, <1>3, <1>4 DEF Range
<1>7. H \in [Rovers -> Sockets \cup {NoOne}]
  BY <1>1, <1>6 DEF ServerState
<1>8. \A p \in Rovers : IF w.line[p] = <<>> THEN H[p] = NoOne ELSE H[p] \in w.drivers[p]
  <2> SUFFICES ASSUME NEW p \in Rovers
               PROVE  IF w.line[p] = <<>> THEN H[p] = NoOne ELSE H[p] \in w.drivers[p]
    OBVIOUS
  <2>1. CASE p = r
    <3>1. H[p] = q[k] /\ w.line[p] # <<>>
      BY <1>1, <1>2, <2>1 DEF ServerState
    <3> QED BY <1>6, <2>1, <3>1
  <2>2. CASE p # r
    <3>1. H[p] = w.holder[p]
      BY <1>1, <2>2 DEF ServerState
    <3> QED BY <1>1, <3>1 DEF Lines, Queued
  <2> QED BY <2>1, <2>2
<1> HIDE DEF H
<1>9. /\ Sound(v, K) /\ Outlives(w, v) /\ v.refs = w.refs
      /\ Settled(w) => Settled(v)
  BY <1>1, <1>5, <1>7, <1>8, HolderSet, SMTT(20)
<1>10. Good(v)
  BY <1>1, <1>9 DEF Good, RefsAre
<1>11. Stays(w, v) /\ Hears(w, v)
  BY ONLY <1>9, OutlivesStays
<1> QED BY ONLY <1>10, <1>11 DEF Steps

\* The driver removed as idle has no rover and waits for none.
LEMMA IdleSteps ==
    ASSUME NEW w, Good(w), NEW r \in Rovers, Contested(w, r), NEW s, s = w.holder[r],
           NEW v, v = ForceRelease(w, r, s)
    PROVE  /\ Good(v) /\ Hears(w, v)
           /\ \A x \in Sockets \ {s} : Placed(w, x) => Placed(v, x)
           /\ v.role = w.role
<1> DEFINE K == w.refs
           u == Unassign(w, s)
           z == StopWaiting(u, s)
<1>1. Sound(w, K) /\ RefsAre(w, K) /\ Consistent(w, K, {})
  BY DEF Good, RefsAre, Sound
<1>2. s \in Sockets /\ s \in w.drivers[r]
  BY ContestedHolder
<1>3. IsAssigned(w, s) /\ \A p \in Rovers : s \in w.drivers[p] => RoverOf(w, s) = p
  BY <1>1, <1>2, Drives
<1>4. s \in w.refs /\ RoverOf(w, s) = r
  BY <1>1, <1>2, <1>3 DEF Consistent, Known, RefsAre
<1>5. v = Release(z, r, s) /\ z = StopWaiting(u, s)
  BY <1>3, <1>4 DEF ForceRelease
<1>6. u = Unassign(w, s)
  OBVIOUS
<1> HIDE DEF K, u, z
<1>7. /\ Consistent(u, K, {s}) /\ OnlyFor(w, u, s) /\ SameTurns(w, u)
      /\ u.waiting = w.waiting
  BY ONLY <1>1, <1>2, <1>6, UnassignKeeps
<1>8. /\ Consistent(z, K, {s}) /\ OnlyFor(u, z, s) /\ SameTurns(u, z)
      /\ s \notin Range(z.waiting)
      /\ u.waiting = <<>> => z.waiting = <<>>
  BY ONLY <1>2, <1>5, <1>7, StopWaitingKeeps
<1>9. /\ Consistent(v, K, {s}) /\ OnlyFor(z, v, s) /\ SamePlaces(z, v)
      /\ \A p \in Rovers : s \in v.drivers[p] => s \in z.drivers[p] /\ p # r
  BY ONLY r \in Rovers, <1>2, <1>5, <1>8, ReleaseKeeps
<1>10. \A p \in Rovers : s \notin v.drivers[p]
  BY <1>3, <1>4, <1>7, <1>8, <1>9 DEF SameTurns
<1>11. Consistent(v, w.refs, {})
  <2>1. \A x \in {s} \ {}, p \in Rovers : x \notin v.drivers[p]
    BY <1>10
  <2>2. Consistent(v, K, {})
    BY ONLY <1>2, <1>9, <2>1, Settling
  <2> QED BY <1>1, <2>2 DEF RefsAre
<1>12. OnlyFor(w, v, s)
  BY <1>7, <1>8, <1>9, OnlyForTrans
<1>13. ~IsAssigned(v, s) /\ s \notin Range(v.waiting)
  <2>1. ~IsAssigned(u, s)
    BY ONLY <1>1, <1>2, <1>6, UnassignKeeps
  <2>2. z.assigned = u.assigned
    BY ONLY <1>2, <1>5, <1>7, StopWaitingKeeps
  <2> QED BY <1>8, <1>9, <2>1, <2>2 DEF SamePlaces, IsAssigned
<1>14. RoleFits(v, s)
  <2>1. RoleFits(w, s) /\ Same(w, v)
    BY <1>1, <1>2, <1>12 DEF Sound, OnlyFor
  <2> QED BY <1>13, <2>1 DEF RoleFits, Same
<1>15. w.waiting = <<>> => v.waiting = <<>>
  BY <1>7, <1>8, <1>9 DEF SamePlaces
<1>16. /\ Good(v)
       /\ \A x \in Sockets \ {s} :
             /\ Placed(w, x) => Placed(v, x)
             /\ \A p \in Rovers : x \in w.room[p] => x \in v.room[p]
       /\ v.conn = w.conn /\ v.role = w.role /\ v.online = w.online
  BY <1>2, <1>11, <1>12, <1>14, <1>15, StepsFor
<1>17. w.role[s] # "spectator"
  BY <1>1, <1>2, <1>3 DEF Sound, RoleFits
<1>18. Hears(w, v)
  <2> SUFFICES ASSUME NEW x \in Spectators(w) \cap Spectators(v), NEW p \in Rovers,
                      IsOnline(v, p), x \in w.room[p] \/ ~IsOnline(w, p)
               PROVE  x \in v.room[p]
    BY DEF Hears
  <2>1. x \in Sockets \ {s} /\ x \in w.room[p]
    BY <1>16, <1>17 DEF Spectators, IsOnline
  <2> QED BY <1>16, <2>1
<1> QED BY <1>16, <1>18

-----------------------------------------------------------------------------
(* The steps of the specification.                                         *)

LEMMA GoodParts ==
    ASSUME NEW w, Good(w)
    PROVE  w \in ServerState
BY DEF Good, Sound, Consistent

LEMMA ConnectStep ==
    ASSUME Good(srv), NEW s \in Sockets, NEW role \in FreeRoles(s), Connect(s, role)
    PROVE  Steps(srv, srv')
<1> DEFINE c == IF srv.mode = "lockdown" THEN "refused" ELSE "up"
           u == SetRole([srv EXCEPT !.conn[s] = c], s, role)
<1>1. srv.conn[s] = "new" /\ srv' = [u EXCEPT !.refs = @ \cup {s}]
  BY DEF Connect
<1>2. c \in {"up", "refused"} /\ role \in Roles
  BY DEF FreeRoles, Roles
<1>3. u = SetRole([srv EXCEPT !.conn[s] = c], s, role)
  OBVIOUS
<1> HIDE DEF c, u
<1> QED BY ONLY Good(srv), s \in Sockets, <1>1, <1>2, <1>3, ConnectSteps

LEMMA LoginStep ==
    ASSUME Good(srv), NEW s \in Sockets,
           LoginStart(s) \/ LoginFails(s) \/ \E role \in {"admin", "lockdown"} : LoginEnd(s, role)
    PROVE  Steps(srv, srv')
<1>0. srv \in ServerState
  BY GoodParts
<1>1. CASE LoginStart(s)
  <2> DEFINE L == srv.login \cup {s}
  <2>1. srv' = [srv EXCEPT !.login = L] /\ L \in SUBSET Sockets
    BY <1>0, <1>1 DEF LoginStart, ServerState
  <2> HIDE DEF L
  <2> QED BY ONLY Good(srv), <2>1, LoginSteps
<1>2. CASE LoginFails(s)
  <2> DEFINE L == srv.login \ {s}
  <2>1. srv' = [srv EXCEPT !.login = L] /\ L \in SUBSET Sockets
    BY <1>0, <1>2 DEF LoginFails, ServerState
  <2> HIDE DEF L
  <2> QED BY ONLY Good(srv), <2>1, LoginSteps
<1>3. CASE \E role \in {"admin", "lockdown"} : LoginEnd(s, role)
  <2>1. PICK role \in {"admin", "lockdown"} : LoginEnd(s, role)
    BY <1>3
  <2>2. srv' = SetRole([srv EXCEPT !.login = @ \ {s}], s, role)
    BY <2>1 DEF LoginEnd
  <2> QED BY ONLY Good(srv), s \in Sockets, role \in {"admin", "lockdown"}, <2>2, LoginEndSteps
<1> QED BY <1>1, <1>2, <1>3

LEMMA SetModeStep ==
    ASSUME Good(srv), NEW m \in Modes, SetMode(m)
    PROVE  Steps(srv, srv')
<1> DEFINE w1 == [srv EXCEPT !.mode = m]
           out == {s \in Sockets : m = "lockdown" /\ w1.conn[s] = "up"
                                    /\ w1.role[s] # "lockdown"}
           w2 == FoldLeft(Disconnected, w1, SetToSeq(out))
           w3 == [w2 EXCEPT !.holder = [r \in Rovers |-> Synced(m, w2.line[r], @[r])]]
           w4 == IF m \in {"admin", "lockdown"} THEN ReleaseUsers(w3) ELSE w3
<1>1. srv' = ReassignWaiting(w4)
  BY DEF SetMode
<1>2. w1 = [srv EXCEPT !.mode = m] /\ out \in SUBSET Sockets
  OBVIOUS
<1> HIDE DEF w1, out
<1>3. w2 = FoldLeft(Disconnected, w1, SetToSeq(out))
  OBVIOUS
<1> HIDE DEF w2
<1>4. HoldersSynced(w2, w3, m)
  BY DEF HoldersSynced
<1> HIDE DEF w3
<1>5. w4 = w3 \/ w4 = ReleaseUsers(w3)
  OBVIOUS
<1> HIDE DEF w4
<1> QED BY ONLY Good(srv), m \in Modes, <1>1, <1>2, <1>3, <1>4, <1>5, SetModeSteps

LEMMA RoverStep ==
    ASSUME Good(srv), NEW r \in Rovers,
           UpsertRover(r) \/ RemoveRover(r) \/ \E locked \in BOOLEAN : LockRover(r, locked)
    PROVE  Steps(srv, srv')
<1>1. CASE UpsertRover(r)
  <2> DEFINE u == [srv EXCEPT !.online = Added(@, r), !.room[r] = @ \cup Spectators(srv)]
  <2>1. srv' = ReassignWaiting(u)
    BY <1>1 DEF UpsertRover
  <2>2. RecordAdded(srv, u, r)
    BY DEF RecordAdded
  <2> HIDE DEF u
  <2> QED BY ONLY Good(srv), r \in Rovers, <2>1, <2>2, UpsertSteps
<1>2. CASE RemoveRover(r)
  <2> DEFINE u == [srv EXCEPT !.online = Dropped(@, r), !.locked[r] = FALSE,
                              !.drivers[r] = {}, !.line[r] = <<>>,
                              !.room[r] = @ \ Spectators(srv), !.holder[r] = NoOne]
  <2>1. srv' = ReassignWaiting(u)
    BY <1>2 DEF RemoveRover
  <2>2. RecordRemoved(srv, u, r)
    BY DEF RecordRemoved
  <2> HIDE DEF u
  <2> QED BY ONLY Good(srv), r \in Rovers, <2>1, <2>2, RemoveSteps
<1>3. CASE \E locked \in BOOLEAN : LockRover(r, locked)
  <2>1. PICK locked \in BOOLEAN : LockRover(r, locked)
    BY <1>3
  <2> DEFINE u == [srv EXCEPT !.locked[r] = locked]
  <2>2. LocksSet(srv, u, r, locked) /\ srv' = LockChanged(u, r)
    BY <2>1 DEF LocksSet, LockRover
  <2> HIDE DEF u
  <2> QED BY ONLY Good(srv), r \in Rovers, locked \in BOOLEAN, <2>2, LockSteps
<1> QED BY <1>1, <1>2, <1>3

LEMMA RequestStep ==
    ASSUME Good(srv), NEW s \in Sockets, NEW r \in Rovers, NEW force \in BOOLEAN,
           RequestControl(s, r, force)
    PROVE  Steps(srv, srv')
<1> DEFINE g == Grant(srv, r, s, force)
           u == SwitchTo(g, srv.joined[s], r, s)
<1>1. srv.conn[s] = "up" /\ srv.role[s] # "spectator" /\ IsOnline(srv, r)
  BY DEF RequestControl, MayGrant
<1>2. s \in srv.refs
  BY <1>1 DEF Good, Sound, Consistent, Known
<1>3. srv' = Assign(StopWaiting(u, s), s, r)
  BY <1>2 DEF RequestControl
<1>4. g = Grant(srv, r, s, force)
  OBVIOUS
<1> HIDE DEF g
<1>5. u = SwitchTo(g, srv.joined[s], r, s)
  OBVIOUS
<1> HIDE DEF u
<1>6. s \in Sockets /\ r \in Rovers /\ force \in BOOLEAN /\ Good(srv)
  OBVIOUS
<1> QED BY ONLY <1>1, <1>3, <1>4, <1>5, <1>6, RequestSteps

LEMMA SubscribeStep ==
    ASSUME Good(srv), NEW s \in Sockets, SubscribeAll(s)
    PROVE  Steps(srv, srv') /\ \A r \in Rovers : IsOnline(srv', r) => s \in srv'.room[r]
<1>1. srv.conn[s] = "up" /\ srv' = JoinAll(srv, s)
  BY DEF SubscribeAll, Spectators
<1> QED BY ONLY Good(srv), s \in Sockets, <1>1, SubscribeSteps

LEMMA TimeoutStep ==
    ASSUME Good(srv), NEW r \in Rovers, TurnTimeout(r)
    PROVE  Steps(srv, srv')
<1> DEFINE q == srv.line[r]
           i == CHOOSE j \in DOMAIN q : q[j] = srv.holder[r]
<1>1. Contested(srv, r) /\ srv' = [srv EXCEPT !.holder[r] = q[(i % Len(q)) + 1]]
  BY DEF TurnTimeout
<1>2. i = CHOOSE j \in DOMAIN q : q[j] = srv.holder[r]
  OBVIOUS
<1> HIDE DEF i
<1>3. q = srv.line[r]
  OBVIOUS
<1> HIDE DEF q
<1> QED BY ONLY Good(srv), r \in Rovers, <1>1, <1>2, <1>3, TimeoutSteps

\* The two steps that may lose a client something are those that mean to.
LEMMA NextSteps ==
    ASSUME Good(srv), Next
    PROVE  \/ Steps(srv, srv')
           \/ \E s \in Sockets, r \in Rovers : ReleaseControl(s, r)
           \/ \E r \in Rovers : IdleRemoval(r)
<1>1. CASE \E s \in Sockets : \E role \in FreeRoles(s) : Connect(s, role)
  BY <1>1, ConnectStep
<1>2. CASE \E s \in Sockets : Disconnect(s)
  BY <1>2, DisconnectSteps DEF Disconnect
<1>3. CASE \E s \in Sockets : \E role \in FreeRoles(s) : RoleSet(s, role)
  <2>0. PICK s \in Sockets : \E role \in FreeRoles(s) : RoleSet(s, role)
    BY <1>3
  <2>1. PICK role \in FreeRoles(s) : RoleSet(s, role)
    BY <2>0
  <2>2. role \in Roles /\ srv.conn[s] = "up" /\ srv' = SetRole(srv, s, role)
    BY <2>1 DEF RoleSet, FreeRoles, Roles
  <2> QED BY <2>2, SetRoleSteps
<1>4. CASE \E s \in Sockets : LoginStart(s)
  BY <1>4, LoginStep
<1>5. CASE \E s \in Sockets, role \in {"admin", "lockdown"} : LoginEnd(s, role)
  BY <1>5, LoginStep
<1>6. CASE \E s \in Sockets : LoginFails(s)
  BY <1>6, LoginStep
<1>7. CASE \E m \in Modes : SetMode(m)
  BY <1>7, SetModeStep
<1>8. CASE \E r \in Rovers : UpsertRover(r)
  BY <1>8, RoverStep
<1>9. CASE \E r \in Rovers : RemoveRover(r)
  BY <1>9, RoverStep
<1>10. CASE \E r \in Rovers, locked \in BOOLEAN : LockRover(r, locked)
  BY <1>10, RoverStep
<1>11. CASE \E s \in Sockets, r \in Rovers, force \in BOOLEAN : RequestControl(s, r, force)
  BY <1>11, RequestStep
<1>12. CASE \E s \in Sockets : SubscribeAll(s)
  BY <1>12, SubscribeStep
<1>13. CASE \E r \in Rovers : TurnTimeout(r)
  BY <1>13, TimeoutStep
<1> QED BY <1>1, <1>2, <1>3, <1>4, <1>5, <1>6, <1>7, <1>8, <1>9, <1>10, <1>11, <1>12, <1>13
           DEF Next

-----------------------------------------------------------------------------
(***************************************************************************)
(* The theorems                                                            *)
(***************************************************************************)

LEMMA InvIsGood ==
    ServerInv <=> Good(srv)
<1>1. ASSUME Sound(srv, srv.refs) PROVE NobodyWaitsInVain <=> Settled(srv)
  <2>1. srv.mode \in Modes
    BY <1>1 DEF Sound, Consistent, ServerState
  <2>2. srv.mode \in {"open", "turns"} <=> srv.mode \notin {"admin", "lockdown"}
    BY <2>1 DEF Modes
  <2> QED BY <2>2 DEF NobodyWaitsInVain, Settled, NoneFree
<1> QED BY <1>1 DEF ServerInv, Good

LEMMA InitGood ==
    ASSUME Init
    PROVE  Good(srv)
<1>1. /\ srv.mode = "admin" /\ srv.login = {} /\ srv.online = <<>> /\ srv.refs = {}
      /\ srv.assigned = <<>> /\ srv.waiting = <<>>
      /\ srv.conn = [s \in Sockets |-> "new"] /\ srv.role = [s \in Sockets |-> "none"]
      /\ srv.locked = [r \in Rovers |-> FALSE] /\ srv.drivers = [r \in Rovers |-> {}]
      /\ srv.joined = [s \in Sockets |-> <<>>] /\ srv.room = [r \in Rovers |-> {}]
      /\ srv.line = [r \in Rovers |-> <<>>] /\ srv.holder = [r \in Rovers |-> NoOne]
  BY DEF Init
<1>2. srv \in ServerState
  <2>1. /\ <<>> \in Seq(Rovers) /\ <<>> \in Seq(Sockets) /\ <<>> \in Seq(Assignment)
    OBVIOUS
  <2> QED BY <2>1 DEF Init, ServerState, Modes, Roles
<1>3. Range(<<>>) = {} /\ IsInjective(<<>>) /\ OnePlace(<<>>)
  BY DEF Range, IsInjective, OnePlace
<1>4. \A s : ~IsAssigned(srv, s)
  BY <1>1, <1>3 DEF IsAssigned
<1>5. Entries(srv) /\ Queued(srv)
  BY <1>1, <1>3 DEF Entries, Queued
<1>6. Linked(srv, {}) /\ Known(srv, {})
  BY <1>1, <1>3, <1>4 DEF Linked, Known
<1>7. \A s \in Sockets : RoleFits(srv, s)
  BY <1>1, <1>3, <1>4 DEF RoleFits
<1> QED BY <1>1, <1>2, <1>5, <1>6, <1>7 DEF Good, Sound, Consistent, Settled

LEMMA ReleaseStep ==
    ASSUME Good(srv), NEW s \in Sockets, NEW r \in Rovers, ReleaseControl(s, r)
    PROVE  /\ Good(srv') /\ Stays(srv, srv')
           /\ \A x \in Spectators(srv) \cap Spectators(srv'), p \in Rovers :
                 IsOnline(srv', p) /\ (x \in srv.room[p] \/ ~IsOnline(srv, p))
                 => x \in srv'.room[p] \/ (x = s /\ p = r)
<1>1. srv' = Release(srv, r, s) /\ s \in Sockets /\ r \in Rovers /\ Good(srv)
  BY DEF ReleaseControl
<1> QED BY ONLY <1>1, ReleaseSteps

LEMMA IdleStep ==
    ASSUME Good(srv), NEW r \in Rovers, IdleRemoval(r)
    PROVE  /\ Good(srv') /\ Hears(srv, srv')
           /\ \A x \in Sockets \ {srv.holder[r]} : Placed(srv, x) => Placed(srv', x)
           /\ srv'.role = srv.role
<1> DEFINE s == srv.holder[r]
<1>1. s = srv.holder[r] /\ srv' = ForceRelease(srv, r, s) /\ Contested(srv, r)
  BY DEF IdleRemoval
<1> HIDE DEF s
<1>2. /\ Good(srv') /\ Hears(srv, srv')
      /\ \A x \in Sockets \ {s} : Placed(srv, x) => Placed(srv', x)
      /\ srv'.role = srv.role
  BY ONLY Good(srv), r \in Rovers, <1>1, IdleSteps
<1> QED BY <1>1, <1>2

LEMMA InvKept ==
    ASSUME ServerInv, [Next]_srv
    PROVE  ServerInv'
<1>1. Good(srv)
  BY InvIsGood
<1>2. CASE UNCHANGED srv
  BY <1>2 DEF ServerInv, Sound, Consistent, Entries, OnePlace, Queued, Has, Linked, Known,
              RoleFits, NobodyWaitsInVain, IsAssigned, IsOnline
<1>3. CASE Next
  <2>1. Good(srv')
    BY <1>1, <1>3, NextSteps, ReleaseStep, IdleStep DEF Steps
  <2>2. Sound(srv', srv'.refs) /\ Settled(srv')
    BY <2>1 DEF Good
  <2>3. srv'.mode \in Modes
    BY <2>2 DEF Sound, Consistent, ServerState
  <2>4. NobodyWaitsInVain'
    BY <2>2, <2>3 DEF NobodyWaitsInVain, Settled, NoneFree, Modes
  <2> QED BY <2>2, <2>4 DEF ServerInv
<1> QED BY <1>2, <1>3

\* The bookkeeping of the server stays consistent, whatever the handlers and
\* their listeners do: the inductive invariant of the properties that follow.
THEOREM Bookkeeping ==
    Spec => []ServerInv
<1>1. Init => ServerInv
  BY InitGood, InvIsGood
<1>2. ServerInv /\ [Next]_srv => ServerInv'
  BY InvKept
<1> QED BY <1>1, <1>2, PTL DEF Spec

LEMMA InvPlaces ==
    ASSUME ServerInv
    PROVE  DriversArePlaced
<1>1. Consistent(srv, srv.refs, {})
  BY DEF ServerInv, Sound
<1>2. \A r \in Rovers : \A s \in srv.drivers[r] :
          /\ IsAssigned(srv, s) /\ RoverOf(srv, s) = r
          /\ srv.conn[s] = "up" => s \in srv.room[r]
  <2> SUFFICES ASSUME NEW r \in Rovers, NEW s \in srv.drivers[r]
               PROVE  /\ IsAssigned(srv, s) /\ RoverOf(srv, s) = r
                      /\ srv.conn[s] = "up" => s \in srv.room[r]
    OBVIOUS
  <2>1. s \in Sockets
    BY <1>1, ConsistentParts
  <2>2. IsAssigned(srv, s) /\ RoverOf(srv, s) = r
    BY <1>1, <2>1, Drives
  <2> QED BY <1>1, <2>2 DEF Consistent, Linked
<1>3. TypeOK
  BY <1>1 DEF Consistent, TypeOK
<1>4. /\ \A r \in Rovers :
            /\ Range(srv.line[r]) = srv.drivers[r]
            /\ srv.drivers[r] # {} => IsOnline(srv, r)
            /\ IF srv.line[r] = <<>> THEN srv.holder[r] = NoOne
               ELSE srv.holder[r] \in srv.drivers[r]
      /\ \A s \in Range(srv.waiting) : ~IsAssigned(srv, s)
  BY <1>1 DEF Consistent, Queued, Entries
<1> QED BY <1>2, <1>3, <1>4 DEF DriversArePlaced

\* The drivers of a rover are the same for roverManager, for turnService, for
\* assignmentService and for socket.io, in every state.
THEOREM DriversArePlacedAlways ==
    Spec => []DriversArePlaced
<1>1. ServerInv => DriversArePlaced
  BY InvPlaces
<1> QED BY <1>1, Bookkeeping, PTL

\* Nobody waits while there is a rover to be given.
THEOREM NobodyWaitsInVainEver ==
    Spec => []NobodyWaitsInVain
<1>1. ServerInv => NobodyWaitsInVain
  BY DEF ServerInv
<1> QED BY <1>1, Bookkeeping, PTL

LEMMA InvForgets ==
    ASSUME ServerInv
    PROVE  GoneMeansForgotten
<1>1. Consistent(srv, srv.refs, {}) /\ \A s \in Sockets : RoleFits(srv, s)
  BY DEF ServerInv, Sound
<1>2. ASSUME NEW s \in Sockets, srv.conn[s] # "up", NEW r \in Rovers
      PROVE  s \notin srv.room[r]
  BY <1>1, <1>2 DEF Consistent, Known
<1>3. ASSUME NEW s \in Sockets, srv.conn[s] = "down"
      PROVE  /\ s \notin srv.refs /\ srv.joined[s] = <<>>
             /\ ~IsAssigned(srv, s) /\ s \notin Range(srv.waiting)
             /\ \A r \in Rovers : s \notin srv.drivers[r]
  <2>1. s \notin srv.refs
    BY <1>1, <1>3 DEF RoleFits
  <2>2. srv.joined[s] = <<>> /\ ~IsAssigned(srv, s) /\ s \notin Range(srv.waiting)
    BY <1>1, <2>1 DEF Consistent, Known
  <2>3. \A r \in Rovers : s \in srv.drivers[r] => IsAssigned(srv, s)
    BY <1>1, Drives
  <2> QED BY <2>1, <2>2, <2>3
<1> QED BY <1>2, <1>3 DEF GoneMeansForgotten

\* A client that disconnected has left no trace, and one that was refused in
\* lockdown is sent nothing.
THEOREM GoneAreForgotten ==
    Spec => []GoneMeansForgotten
<1>1. ServerInv => GoneMeansForgotten
  BY InvForgets
<1> QED BY <1>1, Bookkeeping, PTL

LEMMA UsersStay ==
    ASSUME ServerInv, Next, NEW s \in Sockets,
           srv'.conn[s] = "up", srv'.role[s] = "user",
           Placed(srv, s) \/ srv.role[s] # "user"
    PROVE  \/ Placed(srv', s)
           \/ \E r \in Rovers : srv.holder[r] = s /\ IdleRemoval(r)
<1>1. Good(srv)
  BY InvIsGood
<1>2. CASE Steps(srv, srv')
  BY <1>2 DEF Steps, Stays
<1>3. CASE \E x \in Sockets, r \in Rovers : ReleaseControl(x, r)
  BY <1>1, <1>3, ReleaseStep DEF Stays
<1>4. CASE \E r \in Rovers : IdleRemoval(r)
  <2>1. PICK r \in Rovers : IdleRemoval(r)
    BY <1>4
  <2>2. CASE srv.holder[r] = s
    BY <2>1, <2>2
  <2>3. CASE srv.holder[r] # s
    BY <1>1, <2>1, <2>3, IdleStep
  <2> QED BY <2>2, <2>3
<1> QED BY <1>1, <1>2, <1>3, <1>4, NextSteps

\* No step takes a connected user's rover, or its place among those who wait,
\* without giving it the one or the other.
THEOREM UsersAlwaysStayPlaced ==
    Spec => UsersStayPlaced
<1>1. ServerInv /\ [Next]_srv =>
        [ \A s \in Sockets :
            /\ srv'.conn[s] = "up" /\ srv'.role[s] = "user"
            /\ Placed(srv, s) \/ srv.role[s] # "user"
            => \/ Placed(srv', s)
               \/ \E r \in Rovers : srv.holder[r] = s /\ IdleRemoval(r) ]_srv
  BY UsersStay
<1> QED BY <1>1, Bookkeeping, PTL DEF Spec, UsersStayPlaced

LEMMA SpectatorsGoOn ==
    ASSUME ServerInv, Next, NEW s \in Spectators(srv) \cap Spectators(srv'),
           NEW r \in Range(srv'.online),
           s \in srv.room[r] \/ ~IsOnline(srv, r) \/ SubscribeAll(s)
    PROVE  s \in srv'.room[r] \/ ReleaseControl(s, r)
<1>1. Good(srv)
  BY InvIsGood
<1>2. Good(srv')
  BY <1>1, NextSteps, ReleaseStep, IdleStep DEF Steps
<1>3. r \in Rovers /\ IsOnline(srv', r) /\ s \in Sockets
  <2>1. srv' \in ServerState
    BY <1>2, GoodParts
  <2> QED BY <2>1 DEF ServerState, Range, IsOnline, Spectators
<1>4. CASE SubscribeAll(s)
  BY <1>1, <1>3, <1>4, SubscribeStep
<1>5. CASE ~SubscribeAll(s) /\ Hears(srv, srv')
  BY <1>3, <1>5 DEF Hears
<1>6. CASE ~SubscribeAll(s) /\ \E x \in Sockets, p \in Rovers : ReleaseControl(x, p)
  <2>1. PICK x \in Sockets, p \in Rovers : ReleaseControl(x, p)
    BY <1>6
  <2>2. s \in srv'.room[r] \/ (s = x /\ r = p)
    BY <1>1, <1>3, <1>6, <2>1, ReleaseStep
  <2> QED BY <2>1, <2>2
<1> QED BY <1>1, <1>4, <1>5, <1>6, NextSteps, IdleStep DEF Steps

\* No step makes a spectator deaf to a rover that it heard, or that comes.
THEOREM SpectatorsAlwaysHear ==
    Spec => SpectatorsHear
<1>1. ServerInv /\ [Next]_srv =>
        [ \A s \in Spectators(srv) \cap Spectators(srv') : \A r \in Range(srv'.online) :
            s \in srv.room[r] \/ ~IsOnline(srv, r) \/ SubscribeAll(s)
            => s \in srv'.room[r] \/ ReleaseControl(s, r) ]_srv
  BY SpectatorsGoOn
<1> QED BY <1>1, Bookkeeping, PTL DEF Spec, SpectatorsHear
=============================================================================
