---------------------------- MODULE Mem2RegProofs ----------------------------
(***************************************************************************)
(* The dominator tree and the frontiers that mem2reg computes are those of *)
(* the definition by paths, what it keeps is of the right type, and rename *)
(* leaves no access to a promoted variable: for every function and graph.  *)
(* At the end, what rename maintains about the names of the variables.     *)
(***************************************************************************)
EXTENDS Mem2RegSound, Facts

\* What a loop does turn by turn, if its turns do not leave the set D.
LEMMA TurnedFacts ==
  ASSUME NEW D, NEW a \in D, NEW step, \A x \in D : step[x] \in D
  PROVE  /\ Turned(step, a, 0) = a
         /\ \A n \in Nat : Turned(step, a, n) \in D
         /\ \A n \in Nat : Turned(step, a, n + 1) = step[Turned(step, a, n)]
<1> DEFINE G == [p \in Nat \X D |-> step[p[2]]]
           g == Recursion(a, G)
           IsState(h) == h = [k \in Nat |-> IF k = 0 THEN a ELSE step[h[k - 1]]]
<1>1. G \in [Nat \X D -> D]
  OBVIOUS
<1>2. \A n \in Nat, x \in D : G[<<n, x>>] = step[x]
  OBVIOUS
<1> HIDE DEF G
<1>3. g \in [Nat -> D]
  BY <1>1, RecursionFacts
<1>4. g = [n \in Nat |-> IF n = 0 THEN a ELSE G[<<n, g[n - 1]>>]]
  BY RecursionExists
<1> HIDE DEF g
<1>5. ASSUME NEW n \in Nat, n # 0 PROVE G[<<n, g[n - 1]>>] = step[g[n - 1]]
  <2>1. n - 1 \in Nat /\ g[n - 1] \in D
    BY <1>3, <1>5
  <2> QED
    BY <1>2, <2>1
<1>6. IsState(g)
  BY <1>4, <1>5
<1> DEFINE state == CHOOSE h : IsState(h)
<1>7. IsState(state)
  BY <1>6
<1>8. \A n : Turned(step, a, n) = state[n]
  BY DEF Turned
<1> HIDE DEF state
<1>9. /\ state[0] = a
      /\ \A n \in Nat : n # 0 => state[n] = step[state[n - 1]]
  BY <1>7
<1>10. ASSUME NEW n \in Nat PROVE state[n + 1] = step[state[n]]
  <2> DEFINE m == n + 1
  <2>1. m \in Nat /\ m # 0 /\ m - 1 = n
    OBVIOUS
  <2> HIDE DEF m
  <2>2. state[m] = step[state[m - 1]]
    BY <1>9, <2>1
  <2> QED
    BY <2>1, <2>2 DEF m
<1> DEFINE N == {n \in Nat : state[n] \in D}
<1>11. 0 \in N
  BY <1>9
<1>12. \A n \in Nat : n \in N => n + 1 \in N
  BY <1>10
<1> HIDE DEF N
<1>13. Nat \subseteq N
  BY <1>11, <1>12, NatSetInduction
<1> QED
  BY <1>8, <1>9, <1>10, <1>13 DEF N

\* A loop that adds to a finite set has added everything when it has turned as
\* often as the set it adds from has elements.
LEMMA TurnsClose ==
  ASSUME NEW D, IsFiniteSet(D), NEW m \in Nat, Cardinality(D) <= m,
         NEW a \in SUBSET D, NEW step,
         \A S \in SUBSET D : step[S] \in SUBSET D /\ S \subseteq step[S]
  PROVE  /\ a \subseteq Turned(step, a, m)
         /\ Turned(step, a, m) \subseteq D
         /\ step[Turned(step, a, m)] = Turned(step, a, m)
<1> DEFINE T(n) == Turned(step, a, n)
           P == SUBSET D
           Small(n) == step[T(n)] = T(n) \/ Cardinality(T(n)) >= n
           N == {n \in Nat : Small(n) /\ a \subseteq T(n)}
<1>1. /\ T(0) = a
      /\ \A n \in Nat : T(n) \in P
      /\ \A n \in Nat : T(n + 1) = step[T(n)]
  <2>1. a \in P /\ \A x \in P : step[x] \in P
    OBVIOUS
  <2> HIDE DEF P
  <2> QED
    BY <2>1, TurnedFacts
<1>2. Cardinality(D) \in Nat
  BY FS_CardinalityType
<1> HIDE DEF T
<1>3. ASSUME NEW n \in Nat
      PROVE  /\ IsFiniteSet(T(n)) /\ Cardinality(T(n)) \in Nat
             /\ Cardinality(T(n)) <= Cardinality(D)
  BY <1>1, FS_Subset, FS_CardinalityType
<1>4. 0 \in N
  BY <1>1, <1>3
<1>5. ASSUME NEW n \in Nat, n \in N PROVE n + 1 \in N
  <2>1. n + 1 \in Nat /\ T(n + 1) = step[T(n)] /\ T(n) \subseteq T(n + 1)
    BY <1>1
  <2>2. CASE T(n + 1) = T(n)
    BY <1>5, <2>1, <2>2
  <2>3. CASE T(n + 1) # T(n)
    <3>1. Cardinality(T(n)) >= n
      BY <1>5, <2>1, <2>3
    <3>2. Cardinality(T(n)) <= Cardinality(T(n + 1))
          /\ Cardinality(T(n)) # Cardinality(T(n + 1))
      <4>1. T(n) \in SUBSET T(n + 1) /\ IsFiniteSet(T(n + 1))
        BY <1>3, <2>1
      <4> QED
        BY <2>3, <4>1, FS_Subset
    <3>3. Cardinality(T(n)) \in Nat /\ Cardinality(T(n + 1)) \in Nat
      BY <1>3, <2>1
    <3>4. Cardinality(T(n + 1)) >= n + 1
      BY <3>1, <3>2, <3>3
    <3> QED
      BY <1>5, <2>1, <3>4
  <2> QED
    BY <2>2, <2>3
<1> HIDE DEF N
<1>6. Nat \subseteq N
  BY <1>4, <1>5, NatSetInduction
<1>7. a \subseteq T(m) /\ Small(m)
  BY <1>6 DEF N
<1>8. T(m) \subseteq D
  BY <1>1
<1>9. CASE Cardinality(T(m)) >= m
  <2>1. T(m) = D
    <3>1. Cardinality(T(m)) = Cardinality(D)
      BY <1>2, <1>3, <1>9
    <3> QED
      BY <1>8, <3>1, FS_Subset
  <2> QED
    BY <1>1, <1>7, <1>8, <2>1 DEF T
<1> QED
  BY <1>7, <1>8, <1>9 DEF T

LEMMA TurnsAreLeast ==
  ASSUME NEW D, NEW m \in Nat, NEW a \in SUBSET D, NEW step,
         \A S \in SUBSET D : step[S] \in SUBSET D,
         NEW X, a \subseteq X, \A S \in SUBSET D : S \subseteq X => step[S] \subseteq X
  PROVE  Turned(step, a, m) \subseteq X
<1> DEFINE T(n) == Turned(step, a, n)
           P == SUBSET D
           N == {n \in Nat : T(n) \subseteq X}
<1>1. /\ T(0) = a
      /\ \A n \in Nat : T(n) \in P
      /\ \A n \in Nat : T(n + 1) = step[T(n)]
  <2>1. a \in P /\ \A x \in P : step[x] \in P
    OBVIOUS
  <2> HIDE DEF P
  <2> QED
    BY <2>1, TurnedFacts
<1> HIDE DEF T
<1>2. 0 \in N
  BY <1>1
<1>3. \A n \in Nat : n \in N => n + 1 \in N
  BY <1>1
<1> HIDE DEF N
<1>4. Nat \subseteq N
  BY <1>2, <1>3, NatSetInduction
<1> QED
  BY <1>4 DEF N, T

-----------------------------------------------------------------------------
\* What the pass may rely on about the graph of a function.
Graph(f) == IsFunction(f) /\ Linked(f) /\ PredsBranchHere(f)

LEMMA GraphFacts ==
  ASSUME NEW f, Graph(f)
  PROVE  /\ ListsClosed(f)
         /\ f.entry \in Reachable(f)
         /\ Reachable(f) \subseteq Range(f.order) /\ Range(f.order) \subseteq Blocks(f)
         /\ Len(f.order) \in Nat /\ IsFiniteSet(Range(f.order))
         /\ Cardinality(Range(f.order)) <= Len(f.order)
         /\ \A b \in Reachable(f) : /\ Succ(f, b) \in Seq(Blocks(f))
                                    /\ Pred(f, b) \in Seq(Blocks(f))
                                    /\ Range(Succ(f, b)) \subseteq Reachable(f)
         /\ \A b \in Reachable(f) : \A s \in Range(Succ(f, b)) : b \in Range(Pred(f, s))
         /\ \A b \in Reachable(f) : \A p \in Range(Pred(f, b)) : b \in Range(Succ(f, p))
<1>1. ListsClosed(f)
  BY ListsAreClosed DEF Graph
<1>2. /\ f.entry \in Reachable(f) /\ Reachable(f) \subseteq Range(f.order)
      /\ \A b \in Reachable(f) : Range(Succ(f, b)) \subseteq Reachable(f)
  BY <1>1, ReachableFacts
<1>3. /\ f.order \in Seq(Blocks(f)) /\ Range(f.order) \subseteq Blocks(f)
      /\ \A b \in Blocks(f) : Succ(f, b) \in Seq(Blocks(f)) /\ Pred(f, b) \in Seq(Blocks(f))
  BY FunctionParts DEF Graph
<1>4. IsFiniteSet(Range(f.order)) /\ Cardinality(Range(f.order)) <= Len(f.order)
  BY <1>3, RangeIsFinite
<1>5. Len(f.order) \in Nat
  BY <1>3
<1> QED
  BY <1>1, <1>2, <1>3, <1>4, <1>5 DEF Graph, Linked, PredsBranchHere

LEMMA FrontFacts ==
  ASSUME NEW T, NEW s \in Seq(T), s # <<>>
  PROVE  /\ Len(s) \in Nat \ {0}
         /\ Last(s) = s[Len(s)] /\ Last(s) \in T /\ Last(s) \in Range(s)
         /\ Front(s) \in Seq(T) /\ Len(Front(s)) = Len(s) - 1
         /\ \A k \in 1 .. Len(s) - 1 : Front(s)[k] = s[k]
         /\ Range(s) = Range(Front(s)) \cup {Last(s)}
         /\ Front(s) = <<>> <=> Len(s) = 1
<1> DEFINE r == Front(s)
           L == Len(s)
<1>1. L \in Nat \ {0} /\ DOMAIN s = 1 .. L /\ \A k \in 1 .. L : s[k] \in T
  OBVIOUS
<1>2. r \in Seq(T) /\ Len(r) = L - 1 /\ \A k \in 1 .. L - 1 : r[k] = s[k]
  BY <1>1 DEF Front
<1>3. Last(s) = s[L]
  BY DEF Last
<1>4. DOMAIN r = 1 .. L - 1
  BY <1>2
<1>5. r = <<>> <=> L = 1
  BY <1>1, <1>2
<1> HIDE DEF r, L
<1>6. \A k \in 1 .. L : k \in 1 .. L - 1 \/ k = L
  BY <1>1
<1>7. \A k \in 1 .. L - 1 : k \in 1 .. L
  BY <1>1
<1>8. L \in 1 .. L
  BY <1>1
<1>9. Range(s) = Range(r) \cup {s[L]}
  BY <1>1, <1>2, <1>4, <1>6, <1>7, <1>8 DEF Range
<1>10. s[L] \in T /\ s[L] \in Range(s)
  BY <1>1, <1>8 DEF Range
<1> QED
  BY <1>1, <1>2, <1>3, <1>5, <1>9, <1>10 DEF r, L

LEMMA PrependFacts ==
  ASSUME NEW T, NEW s \in Seq(T), NEW x \in T
  PROVE  /\ <<x>> \o s \in Seq(T) /\ Len(<<x>> \o s) = Len(s) + 1
         /\ (<<x>> \o s)[1] = x
         /\ \A k \in 1 .. Len(s) : (<<x>> \o s)[k + 1] = s[k]
         /\ \A k \in 2 .. Len(s) + 1 : (<<x>> \o s)[k] = s[k - 1]
         /\ Range(<<x>> \o s) = {x} \cup Range(s)
<1> DEFINE a == <<x>>
<1>1. a \in Seq(T) /\ Len(a) = 1 /\ a[1] = x /\ Range(a) = {x}
  BY DEF Range
<1>2. Len(s) \in Nat
  OBVIOUS
<1> HIDE DEF a
<1>3. /\ a \o s \in Seq(T)
      /\ Len(a \o s) = Len(a) + Len(s)
      /\ \A k \in 1 .. Len(a) + Len(s) :
           (a \o s)[k] = IF k <= Len(a) THEN a[k] ELSE s[k - Len(a)]
  BY <1>1, ConcatProperties
<1>4. Range(a \o s) = Range(a) \cup Range(s)
  BY <1>1, ConcatFacts
<1>5. (a \o s)[1] = x
  BY <1>1, <1>2, <1>3
<1>6. \A k \in 2 .. Len(s) + 1 : (a \o s)[k] = s[k - 1]
  BY <1>1, <1>2, <1>3
<1>7. ASSUME NEW k \in 1 .. Len(s) PROVE (a \o s)[k + 1] = s[k]
  <2> DEFINE j == k + 1
  <2>1. j \in 2 .. Len(s) + 1 /\ j - 1 = k
    BY <1>2
  <2> HIDE DEF j
  <2>2. (a \o s)[j] = s[j - 1]
    BY <1>6, <2>1
  <2> QED
    BY <2>1, <2>2 DEF j
<1> QED
  BY <1>1, <1>2, <1>3, <1>4, <1>5, <1>6, <1>7 DEF a

-----------------------------------------------------------------------------
NoTwice(s) == \A j, k \in 1 .. Len(s) : s[j] = s[k] => j = k

\* What holds of a walk after n turns: what has been seen is on the path or
\* finished, once; the path is a path from the entry; a finished block has all
\* its successors seen, and was found from a block that is not finished yet or
\* stands before it.  Every turn enters a block or leaves one.
SeenOnce(f, w) ==
  /\ w.seen \subseteq Reachable(f)
  /\ Range(w.path) \cup Range(w.out) = w.seen
  /\ Range(w.path) \cap Range(w.out) = {}
  /\ NoTwice(w.path) /\ NoTwice(w.out)
  /\ Len(w.path) + Len(w.out) = Cardinality(w.seen)

OnAPath(f, w) ==
  /\ f.entry \in w.seen
  /\ w.path # <<>> => w.path[1] = f.entry
  /\ \A k \in 1 .. Len(w.path) - 1 : w.path[k + 1] \in Range(Succ(f, w.path[k]))

Finished(f, w) ==
  /\ \A b \in Range(w.out) : Range(Succ(f, b)) \subseteq w.seen
  /\ \A k \in 1 .. Len(w.out) :
       \/ w.out[k] = f.entry
       \/ \E p \in Range(w.path) : w.out[k] \in Range(Succ(f, p))
       \/ \E j \in 1 .. k - 1 : w.out[k] \in Range(Succ(f, w.out[j]))

Counted(w, n) == w.path = <<>> \/ n = 2 * Cardinality(w.seen) - 1 - Len(w.path)

WalkOK(f, w, n) ==
  w \in Walks(f) /\ SeenOnce(f, w) /\ OnAPath(f, w) /\ Finished(f, w) /\ Counted(w, n)

LEMMA WalkFacts ==
  ASSUME NEW f, Graph(f), NEW w, w \in Walks(f), SeenOnce(f, w)
  PROVE  /\ w.path \in Seq(Blocks(f)) /\ w.out \in Seq(Blocks(f))
         /\ Len(w.path) \in Nat /\ Len(w.out) \in Nat
         /\ IsFiniteSet(w.seen) /\ Cardinality(w.seen) \in Nat
         /\ Cardinality(w.seen) <= Len(f.order)
         /\ w = [path |-> w.path, seen |-> w.seen, out |-> w.out]
<1>1. /\ w.path \in Seq(Blocks(f)) /\ w.out \in Seq(Blocks(f))
      /\ w = [path |-> w.path, seen |-> w.seen, out |-> w.out]
  BY DEF Walks
<1>2. w.seen \subseteq Range(f.order)
  BY GraphFacts DEF SeenOnce
<1>3. /\ Len(f.order) \in Nat /\ IsFiniteSet(Range(f.order))
      /\ Cardinality(Range(f.order)) <= Len(f.order)
  BY GraphFacts
<1>4. IsFiniteSet(w.seen) /\ Cardinality(w.seen) <= Cardinality(Range(f.order))
  BY <1>2, <1>3, FS_Subset
<1>5. Cardinality(w.seen) \in Nat /\ Cardinality(Range(f.order)) \in Nat
  BY <1>3, <1>4, FS_CardinalityType
<1> QED
  BY <1>1, <1>3, <1>4, <1>5

\* The block at the end of the path is left: it has no successor to enter.
LEMMA LeaveKeeps ==
  ASSUME NEW f, Graph(f), NEW w, NEW n \in Nat, WalkOK(f, w, n),
         w.path # <<>>, Unseen(f, w) = <<>>
  PROVE  WalkOK(f, dfs(f, w), n + 1)
<1> DEFINE x == Last(w.path)
           path == Front(w.path)
           out == <<x>> \o w.out
           g == dfs(f, w)
<1>1. /\ w.path \in Seq(Blocks(f)) /\ w.out \in Seq(Blocks(f))
      /\ Len(w.path) \in Nat /\ Len(w.out) \in Nat /\ Cardinality(w.seen) \in Nat
      /\ w = [path |-> w.path, seen |-> w.seen, out |-> w.out]
  BY WalkFacts DEF WalkOK
<1>2. /\ Len(w.path) \in Nat \ {0} /\ x = w.path[Len(w.path)] /\ x \in Blocks(f)
      /\ path \in Seq(Blocks(f)) /\ Len(path) = Len(w.path) - 1
      /\ \A k \in 1 .. Len(w.path) - 1 : path[k] = w.path[k]
      /\ Range(w.path) = Range(path) \cup {x}
  BY <1>1, FrontFacts
<1>3. /\ out \in Seq(Blocks(f)) /\ Len(out) = Len(w.out) + 1 /\ out[1] = x
      /\ \A k \in 1 .. Len(w.out) : out[k + 1] = w.out[k]
      /\ \A k \in 2 .. Len(w.out) + 1 : out[k] = w.out[k - 1]
      /\ Range(out) = {x} \cup Range(w.out)
  BY <1>1, <1>2, PrependFacts
<1>4. g = [path |-> path, seen |-> w.seen, out |-> out]
  BY <1>1 DEF dfs
<1> HIDE DEF x, path, out, g
<1>5. g \in Walks(f)
  BY <1>2, <1>3, <1>4 DEF WalkOK, Walks
<1>6. x \in Reachable(f) /\ x \notin Range(w.out)
  BY <1>2 DEF WalkOK, SeenOnce
<1>7. x \notin Range(path)
  <2>1. SUFFICES ASSUME x \in Range(path) PROVE FALSE
    OBVIOUS
  <2>2. PICK k \in 1 .. Len(w.path) - 1 : x = path[k]
    <3>1. DOMAIN path = 1 .. Len(w.path) - 1
      BY <1>2
    <3> QED
      BY <2>1, <3>1 DEF Range
  <2>3. w.path[k] = w.path[Len(w.path)] /\ k # Len(w.path)
        /\ k \in 1 .. Len(w.path) /\ Len(w.path) \in 1 .. Len(w.path)
    BY <1>2, <2>2
  <2> QED
    BY <2>3 DEF WalkOK, SeenOnce, NoTwice
<1>8. NoTwice(path)
  BY <1>2 DEF WalkOK, SeenOnce, NoTwice
<1>9. NoTwice(out)
  <2> SUFFICES ASSUME NEW j \in 1 .. Len(out), NEW k \in 1 .. Len(out), out[j] = out[k]
               PROVE  j = k
    BY DEF NoTwice
  <2>1. \A i \in 2 .. Len(w.out) + 1 :
          i - 1 \in 1 .. Len(w.out) /\ out[i] = w.out[i - 1] /\ out[i] \in Range(w.out)
    <3>1. \A i \in 2 .. Len(w.out) + 1 : i - 1 \in 1 .. Len(w.out)
      BY <1>1
    <3>2. \A i \in 1 .. Len(w.out) : w.out[i] \in Range(w.out)
      BY <1>1 DEF Range
    <3> QED
      BY <1>3, <3>1, <3>2
  <2>2. j = 1 \/ j \in 2 .. Len(w.out) + 1
    BY <1>1, <1>3
  <2>3. k = 1 \/ k \in 2 .. Len(w.out) + 1
    BY <1>1, <1>3
  <2>4. CASE j = 1 /\ k # 1
    BY <1>3, <1>6, <2>1, <2>3, <2>4
  <2>5. CASE j # 1 /\ k = 1
    BY <1>3, <1>6, <2>1, <2>2, <2>5
  <2>6. CASE j # 1 /\ k # 1
    <3>1. w.out[j - 1] = w.out[k - 1] /\ j - 1 \in 1 .. Len(w.out) /\ k - 1 \in 1 .. Len(w.out)
      BY <2>1, <2>2, <2>3, <2>6
    <3>2. j - 1 = k - 1
      BY <3>1 DEF WalkOK, SeenOnce, NoTwice
    <3> QED
      BY <3>2
  <2> QED
    BY <2>4, <2>5, <2>6
<1>10. SeenOnce(f, g)
  <2>1. Len(path) + Len(out) = Cardinality(w.seen)
    BY <1>1, <1>2, <1>3 DEF WalkOK, SeenOnce
  <2>2. Range(path) \cup Range(out) = w.seen /\ Range(path) \cap Range(out) = {}
    BY <1>2, <1>3, <1>7 DEF WalkOK, SeenOnce
  <2> QED
    BY <1>4, <1>8, <1>9, <2>1, <2>2 DEF WalkOK, SeenOnce
<1>11. OnAPath(f, g)
  <2>1. path # <<>> => path[1] = f.entry
    <3>1. path # <<>> => 1 \in 1 .. Len(w.path) - 1
      BY <1>2
    <3> QED
      BY <1>2, <3>1 DEF WalkOK, OnAPath
  <2>2. ASSUME NEW k \in 1 .. Len(path) - 1 PROVE path[k + 1] \in Range(Succ(f, path[k]))
    <3>1. k \in 1 .. Len(w.path) - 1 /\ k + 1 \in 1 .. Len(w.path) - 1
      BY <1>2
    <3>2. path[k] = w.path[k] /\ path[k + 1] = w.path[k + 1]
      BY <1>2, <3>1
    <3> QED
      BY <3>1, <3>2 DEF WalkOK, OnAPath
  <2> QED
    BY <1>4, <2>1, <2>2 DEF WalkOK, OnAPath
<1>12. Range(Succ(f, x)) \subseteq w.seen
  <2>1. Succ(f, x) \in Seq(Blocks(f))
    BY <1>6, GraphFacts
  <2>2. Range(Filtered(Succ(f, x), Blocks(f) \ w.seen)) = Range(Succ(f, x)) \cap (Blocks(f) \ w.seen)
    BY <2>1, FilteredFacts
  <2>3. Range(<<>>) = {}
    BY DEF Range
  <2>4. Range(Succ(f, x)) \subseteq Blocks(f)
    BY <2>1 DEF Range
  <2> QED
    BY <2>2, <2>3, <2>4 DEF Unseen, x
<1>13. Finished(f, g)
  <2>1. ASSUME NEW k \in 1 .. Len(out)
        PROVE  \/ out[k] = f.entry
               \/ \E p \in Range(path) : out[k] \in Range(Succ(f, p))
               \/ \E j \in 1 .. k - 1 : out[k] \in Range(Succ(f, out[j]))
    <3>1. CASE k = 1 /\ Len(w.path) = 1
      BY <1>2, <1>3, <3>1 DEF WalkOK, OnAPath
    <3>2. CASE k = 1 /\ Len(w.path) # 1
      <4> DEFINE L == Len(w.path)
                 i == L - 1
      <4>0. L \in Nat /\ L # 0 /\ L # 1
        BY <1>2, <3>2
      <4> HIDE DEF L
      <4>1. i \in 1 .. L - 1 /\ i + 1 = L
        BY <4>0
      <4> HIDE DEF i
      <4>2. x \in Range(Succ(f, path[i]))
        BY <1>2, <4>1 DEF WalkOK, OnAPath, L
      <4>3. path[i] \in Range(path)
        <5>1. DOMAIN path = 1 .. L - 1
          BY <1>2 DEF L
        <5> QED
          BY <4>1, <5>1 DEF Range
      <4> QED
        BY <1>3, <3>2, <4>2, <4>3
    <3>3. CASE k # 1
      <4> DEFINE i == k - 1
      <4>1. i \in 1 .. Len(w.out) /\ i + 1 = k /\ out[k] = w.out[i] /\ 1 \in 1 .. k - 1
        BY <1>1, <1>3, <3>3
      <4> HIDE DEF i
      <4>2. CASE w.out[i] = f.entry
        BY <4>1, <4>2
      <4>3. CASE \E p \in Range(w.path) : w.out[i] \in Range(Succ(f, p))
        <5>1. PICK p \in Range(w.path) : w.out[i] \in Range(Succ(f, p))
          BY <4>3
        <5>2. CASE p = x
          BY <1>3, <4>1, <5>1, <5>2
        <5>3. CASE p # x
          BY <1>2, <4>1, <5>1, <5>3
        <5> QED
          BY <5>2, <5>3
      <4>4. CASE \E j \in 1 .. i - 1 : w.out[i] \in Range(Succ(f, w.out[j]))
        <5>1. PICK j \in 1 .. i - 1 : w.out[i] \in Range(Succ(f, w.out[j]))
          BY <4>4
        <5> DEFINE m == j + 1
                   L == Len(w.out)
        <5>0. L \in Nat /\ i \in 1 .. L /\ i + 1 = k
          BY <1>1, <4>1
        <5> HIDE DEF L
        <5>2. m \in 1 .. k - 1 /\ j \in 1 .. L
          BY <5>0
        <5>3. out[m] = w.out[j]
          BY <1>3, <5>2 DEF L
        <5> HIDE DEF m
        <5> QED
          BY <4>1, <5>1, <5>2, <5>3
      <4> QED
        BY <4>1, <4>2, <4>3, <4>4 DEF WalkOK, Finished
    <3> QED
      BY <3>1, <3>2, <3>3
  <2>2. \A b \in Range(out) : Range(Succ(f, b)) \subseteq w.seen
    BY <1>3, <1>12 DEF WalkOK, Finished
  <2> QED
    BY <1>4, <2>1, <2>2 DEF Finished
<1>14. Counted(g, n + 1)
  BY <1>1, <1>2, <1>4 DEF WalkOK, Counted
<1> QED
  BY <1>5, <1>10, <1>11, <1>13, <1>14 DEF WalkOK, g

\* A successor of the block at the end of the path is entered.
LEMMA EnterKeeps ==
  ASSUME NEW f, Graph(f), NEW w, NEW n \in Nat, WalkOK(f, w, n),
         w.path # <<>>, Unseen(f, w) # <<>>
  PROVE  WalkOK(f, dfs(f, w), n + 1)
<1> DEFINE x == Last(w.path)
           y == Head(Unseen(f, w))
           L == Len(w.path)
           path == Append(w.path, y)
           seen == w.seen \cup {y}
           g == dfs(f, w)
<1>1. /\ w.path \in Seq(Blocks(f)) /\ w.out \in Seq(Blocks(f))
      /\ L \in Nat /\ Len(w.out) \in Nat /\ IsFiniteSet(w.seen) /\ Cardinality(w.seen) \in Nat
      /\ w = [path |-> w.path, seen |-> w.seen, out |-> w.out]
  BY WalkFacts DEF WalkOK
<1>2. L \in Nat \ {0} /\ x = w.path[L] /\ x \in Blocks(f) /\ x \in Range(w.path)
  BY <1>1, FrontFacts
<1>3. x \in Reachable(f)
  BY <1>2 DEF WalkOK, SeenOnce
<1>4. y \in Range(Succ(f, x)) /\ y \in Blocks(f) /\ y \notin w.seen
  <2> DEFINE u == Unseen(f, w)
  <2>1. Succ(f, x) \in Seq(Blocks(f))
    BY <1>3, GraphFacts
  <2>2. /\ u \in Seq(Blocks(f))
        /\ Range(u) = Range(Succ(f, x)) \cap (Blocks(f) \ w.seen)
    BY <2>1, FilteredFacts DEF Unseen
  <2> HIDE DEF u
  <2>3. Head(u) \in Range(u)
    BY <2>2, RangeOfTail DEF u
  <2> QED
    BY <2>2, <2>3 DEF u
<1>5. g = [path |-> path, seen |-> seen, out |-> w.out]
  BY <1>1 DEF dfs
<1>6. /\ path \in Seq(Blocks(f)) /\ Len(path) = L + 1 /\ path[L + 1] = y
      /\ \A k \in 1 .. L : path[k] = w.path[k]
  BY <1>1, <1>4
<1>7. Range(path) = Range(w.path) \cup {y}
  BY <1>1, <1>4, RangeOfAppend
<1> HIDE DEF x, y, path, seen, g
<1>8. g \in Walks(f)
  BY <1>1, <1>4, <1>5, <1>6 DEF WalkOK, Walks, seen
<1>9. y \in Reachable(f)
  BY <1>3, <1>4, GraphFacts
<1>10. IsFiniteSet(seen) /\ Cardinality(seen) = Cardinality(w.seen) + 1
  BY <1>1, <1>4, FS_AddElement DEF seen
<1>11. NoTwice(path)
  <2> SUFFICES ASSUME NEW j \in 1 .. Len(path), NEW k \in 1 .. Len(path), path[j] = path[k]
               PROVE  j = k
    BY DEF NoTwice
  <2>1. \A i \in 1 .. L : path[i] = w.path[i] /\ path[i] # y
    <3>1. DOMAIN w.path = 1 .. L
      BY <1>1
    <3>2. \A i \in 1 .. L : w.path[i] \in w.seen
      BY <3>1 DEF WalkOK, SeenOnce, Range
    <3> QED
      BY <1>4, <1>6, <3>2
  <2>2. j \in 1 .. L \/ j = L + 1
    BY <1>1, <1>6
  <2>3. k \in 1 .. L \/ k = L + 1
    BY <1>1, <1>6
  <2>4. CASE j \in 1 .. L /\ k \in 1 .. L
    <3>1. w.path[j] = w.path[k]
      BY <2>1, <2>4
    <3> QED
      BY <2>4, <3>1 DEF WalkOK, SeenOnce, NoTwice, L
  <2> HIDE DEF L
  <2> QED
    BY <1>6, <2>1, <2>2, <2>3, <2>4
<1>12. SeenOnce(f, g)
  <2>1. Len(path) + Len(w.out) = Cardinality(seen)
    BY <1>1, <1>6, <1>10 DEF WalkOK, SeenOnce
  <2>2. Range(path) \cup Range(w.out) = seen /\ Range(path) \cap Range(w.out) = {}
    BY <1>4, <1>7 DEF WalkOK, SeenOnce, seen
  <2>3. seen \subseteq Reachable(f)
    BY <1>9 DEF WalkOK, SeenOnce, seen
  <2> QED
    BY <1>5, <1>11, <2>1, <2>2, <2>3 DEF WalkOK, SeenOnce
<1>13. OnAPath(f, g)
  <2>1. path[1] = f.entry
    <3>1. 1 \in 1 .. L
      BY <1>2
    <3> QED
      BY <1>6, <3>1 DEF WalkOK, OnAPath
  <2>2. ASSUME NEW k \in 1 .. Len(path) - 1 PROVE path[k + 1] \in Range(Succ(f, path[k]))
    <3>1. k \in 1 .. L
      BY <1>1, <1>6
    <3>2. path[k] = w.path[k]
      BY <1>6, <3>1
    <3>3. CASE k = L
      BY <1>2, <1>4, <1>6, <3>2, <3>3
    <3>4. CASE k # L
      <4> DEFINE m == k + 1
      <4> HIDE DEF L
      <4>1. k \in 1 .. L - 1 /\ m \in 1 .. L
        BY <1>1, <3>1, <3>4
      <4> HIDE DEF m
      <4>2. path[m] = w.path[m]
        BY <1>6, <4>1
      <4> QED
        BY <3>2, <4>1, <4>2 DEF WalkOK, OnAPath, L, m
    <3> QED
      BY <3>3, <3>4
  <2>3. f.entry \in seen
    BY DEF WalkOK, OnAPath, seen
  <2> QED
    BY <1>5, <2>1, <2>2, <2>3 DEF OnAPath
<1>14. Finished(f, g)
  <2>1. \A b \in Range(w.out) : Range(Succ(f, b)) \subseteq seen
    BY DEF WalkOK, Finished, seen
  <2>2. \A p \in Range(w.path) : p \in Range(path)
    BY <1>7
  <2> QED
    BY <1>5, <2>1, <2>2 DEF WalkOK, Finished
<1>15. Counted(g, n + 1)
  <2>1. n = 2 * Cardinality(w.seen) - 1 - L
    BY DEF WalkOK, Counted
  <2>2. n + 1 = 2 * Cardinality(seen) - 1 - Len(path)
    <3> DEFINE c == Cardinality(w.seen)
    <3>1. c \in Nat /\ L \in Nat /\ Cardinality(seen) = c + 1 /\ Len(path) = L + 1
          /\ n = 2 * c - 1 - L
      BY <1>1, <1>6, <1>10, <2>1
    <3> HIDE DEF c, L
    <3> QED
      BY <3>1
  <2> QED
    BY <1>5, <2>2 DEF Counted
<1> QED
  BY <1>8, <1>12, <1>13, <1>14, <1>15 DEF WalkOK, g

\* The numbers of the blocks: every block that can be reached has one, and one
\* of the blocks it is reached from has a smaller one.
LEMMA RpoFacts ==
  ASSUME NEW f, Graph(f)
  PROVE  /\ reverse_postorder(f) \in Seq(Blocks(f))
         /\ Len(reverse_postorder(f)) \in Nat
         /\ Len(reverse_postorder(f)) <= Len(f.order)
         /\ NoTwice(reverse_postorder(f))
         /\ Range(reverse_postorder(f)) = Reachable(f)
         /\ \A k \in 1 .. Len(reverse_postorder(f)) :
              \/ reverse_postorder(f)[k] = f.entry
              \/ \E j \in 1 .. k - 1 :
                   reverse_postorder(f)[k] \in Range(Succ(f, reverse_postorder(f)[j]))
<1> DEFINE step == [w \in Walks(f) |-> dfs(f, w)]
           a == [path |-> <<f.entry>>, seen |-> {f.entry}, out |-> <<>>]
           T(n) == Turned(step, a, n)
           D == {w \in Walks(f) : \E n \in Nat : WalkOK(f, w, n)}
           N == {n \in Nat : WalkOK(f, T(n), n)}
<1>1. WalkOK(f, a, 0)
  <2> DEFINE path == <<f.entry>>
             out == <<>>
  <2>0. f.entry \in Reachable(f) /\ f.entry \in Blocks(f)
    BY GraphFacts
  <2>1. /\ path \in Seq(Blocks(f)) /\ Len(path) = 1 /\ path[1] = f.entry
        /\ Range(path) = {f.entry}
    BY <2>0 DEF Range
  <2>2. out \in Seq(Blocks(f)) /\ Len(out) = 0 /\ Range(out) = {}
    BY DEF Range
  <2>3. Cardinality({f.entry}) = 1
    BY FS_Singleton
  <2>4. a.path = path /\ a.seen = {f.entry} /\ a.out = out
    OBVIOUS
  <2>5. a \in Walks(f)
    BY <2>0, <2>1, <2>2 DEF Walks
  <2> HIDE DEF path, out, a
  <2>6. SeenOnce(f, a)
    <3>1. NoTwice(path)
      BY <2>1 DEF NoTwice
    <3>2. NoTwice(out)
      BY <2>2 DEF NoTwice
    <3>3. Len(a.path) + Len(a.out) = 1
      BY <2>1, <2>2, <2>4
    <3> QED
      BY <2>0, <2>1, <2>2, <2>3, <2>4, <3>1, <3>2, <3>3 DEF SeenOnce
  <2>7. OnAPath(f, a)
    <3>1. 1 .. 1 - 1 = {} /\ Len(a.path) = 1
      BY <2>1, <2>4
    <3> QED
      BY <2>1, <2>4, <3>1 DEF OnAPath
  <2>8. Finished(f, a)
    BY <2>2, <2>4 DEF Finished
  <2>9. Counted(a, 0)
    BY <2>1, <2>3, <2>4 DEF Counted
  <2> QED
    BY <2>5, <2>6, <2>7, <2>8, <2>9 DEF WalkOK
<1>2. ASSUME NEW w, NEW n \in Nat, WalkOK(f, w, n) PROVE WalkOK(f, step[w], n + 1)
  <2>1. step[w] = dfs(f, w)
    BY <1>2 DEF WalkOK
  <2>2. CASE w.path = <<>>
    <3>1. dfs(f, w) = w
      BY <2>2 DEF dfs
    <3> QED
      BY <1>2, <2>1, <2>2, <3>1 DEF WalkOK, Counted
  <2>3. CASE w.path # <<>> /\ Unseen(f, w) = <<>>
    BY <1>2, <2>1, <2>3, LeaveKeeps
  <2>4. CASE w.path # <<>> /\ Unseen(f, w) # <<>>
    BY <1>2, <2>1, <2>4, EnterKeeps
  <2> QED
    BY <2>2, <2>3, <2>4
<1> HIDE DEF step, a
<1>3. a \in D
  BY <1>1 DEF WalkOK
<1>4. \A w \in D : step[w] \in D
  <2> SUFFICES ASSUME NEW w \in D PROVE step[w] \in D
    OBVIOUS
  <2>1. PICK n \in Nat : WalkOK(f, w, n)
    OBVIOUS
  <2>2. WalkOK(f, step[w], n + 1) /\ n + 1 \in Nat
    BY <1>2, <2>1
  <2> QED
    BY <2>2 DEF WalkOK
<1> HIDE DEF D
<1>5. T(0) = a /\ \A n \in Nat : T(n + 1) = step[T(n)]
  BY <1>3, <1>4, TurnedFacts
<1> HIDE DEF T
<1>6. 0 \in N
  BY <1>1, <1>5
<1>7. ASSUME NEW n \in Nat, n \in N PROVE n + 1 \in N
  BY <1>2, <1>5, <1>7
<1> HIDE DEF N
<1>8. Nat \subseteq N
  BY <1>6, <1>7, NatSetInduction
<1> DEFINE L == Len(f.order)
           w == T(2 * L)
           rpo == reverse_postorder(f)
<1>9. rpo = w.out
  BY DEF reverse_postorder, T, step, a
<1>10. L \in Nat
  BY GraphFacts
<1>11. WalkOK(f, w, 2 * L)
  <2>1. 2 * L \in Nat
    BY <1>10
  <2> HIDE DEF L
  <2> QED
    BY <1>8, <2>1 DEF N
<1> HIDE DEF w, rpo, L
<1>12. /\ w.path \in Seq(Blocks(f)) /\ w.out \in Seq(Blocks(f))
       /\ Len(w.path) \in Nat /\ Len(w.out) \in Nat
       /\ Cardinality(w.seen) \in Nat /\ Cardinality(w.seen) <= L
  BY <1>11, WalkFacts DEF WalkOK, L
<1>13. w.path = <<>>
  BY <1>10, <1>11, <1>12 DEF WalkOK, Counted
<1>14. Range(w.path) = {} /\ Len(w.path) = 0
  BY <1>13 DEF Range
<1>15. Range(w.out) = w.seen /\ Len(w.out) = Cardinality(w.seen) /\ NoTwice(w.out)
  BY <1>11, <1>12, <1>14 DEF WalkOK, SeenOnce
<1>16. Reachable(f) \subseteq w.seen
  <2>1. ListsClosed(f)
    BY GraphFacts
  <2>2. f.entry \in w.seen
    BY <1>11 DEF WalkOK, OnAPath
  <2>3. \A b \in w.seen : Range(Succ(f, b)) \subseteq w.seen
    BY <1>11, <1>15 DEF WalkOK, Finished
  <2> QED
    BY <2>1, <2>2, <2>3, ReachableIsLeast
<1>17. w.seen = Reachable(f)
  BY <1>11, <1>16 DEF WalkOK, SeenOnce
<1>18. \A k \in 1 .. Len(w.out) :
         w.out[k] = f.entry \/ \E j \in 1 .. k - 1 : w.out[k] \in Range(Succ(f, w.out[j]))
  BY <1>11, <1>14 DEF WalkOK, Finished
<1> QED
  BY <1>9, <1>12, <1>15, <1>17, <1>18 DEF rpo, L

-----------------------------------------------------------------------------
\* The number of a block, and the trees that may stand in idom: a block that
\* has been reached has an immediate dominator of a smaller number.
RpoOf(f) == reverse_postorder(f)
Num(f, b) == number(RpoOf(f), b)

Held(f, t) == {b \in Reachable(f) : t[b] # NoBlock}

IsTree(f, t) ==
  /\ t \in [Blocks(f) -> Reachable(f) \cup {NoBlock}]
  /\ t[f.entry] = f.entry
  /\ \A b \in Blocks(f) \ Reachable(f) : t[b] = NoBlock
  /\ \A b \in Held(f, t) \ {f.entry} : t[b] \in Held(f, t) /\ Num(f, t[b]) < Num(f, b)

\* A function whose blocks are not the null pointer.
GraphHere(f) == Graph(f) /\ NoBlock \notin Blocks(f)

LEMMA NumberFacts ==
  ASSUME NEW f, GraphHere(f)
  PROVE  /\ Len(RpoOf(f)) \in Nat /\ Len(RpoOf(f)) <= Len(f.order) /\ Len(f.order) \in Nat
         /\ \A b \in Reachable(f) : Num(f, b) \in 1 .. Len(RpoOf(f)) /\ RpoOf(f)[Num(f, b)] = b
         /\ \A k \in 1 .. Len(RpoOf(f)) : RpoOf(f)[k] \in Reachable(f) /\ Num(f, RpoOf(f)[k]) = k
         /\ \A b, c \in Reachable(f) : Num(f, b) = Num(f, c) => b = c
         /\ Num(f, f.entry) = 1
         /\ \A b \in Reachable(f) \ {f.entry} : Num(f, b) > 1
         /\ \A b \in Reachable(f) \ {f.entry} :
              \E p \in Reachable(f) : b \in Range(Succ(f, p)) /\ Num(f, p) < Num(f, b)
<1>1. /\ RpoOf(f) \in Seq(Blocks(f)) /\ Len(RpoOf(f)) \in Nat /\ Len(RpoOf(f)) <= Len(f.order)
      /\ NoTwice(RpoOf(f)) /\ Range(RpoOf(f)) = Reachable(f)
      /\ \A k \in 1 .. Len(RpoOf(f)) : \/ RpoOf(f)[k] = f.entry
                                  \/ \E j \in 1 .. k - 1 : RpoOf(f)[k] \in Range(Succ(f, RpoOf(f)[j]))
  BY RpoFacts DEF RpoOf, GraphHere
<1>2. f.entry \in Reachable(f) /\ Len(f.order) \in Nat
  BY GraphFacts DEF GraphHere
<1> DEFINE R == Reachable(f)
           L == Len(RpoOf(f))
<1>3. DOMAIN RpoOf(f) = 1 .. L
  BY <1>1
<1> HIDE DEF R, L
<1>4. ASSUME NEW b \in R PROVE Num(f, b) \in 1 .. L /\ RpoOf(f)[Num(f, b)] = b
  <2>1. \E n \in DOMAIN RpoOf(f) : RpoOf(f)[n] = b
    BY <1>1, <1>4 DEF Range, R
  <2> QED
    BY <1>3, <2>1 DEF Num, number
<1>5. ASSUME NEW k \in 1 .. L PROVE RpoOf(f)[k] \in R /\ Num(f, RpoOf(f)[k]) = k
  <2>1. RpoOf(f)[k] \in R
    BY <1>1, <1>3 DEF Range, R
  <2>2. Num(f, RpoOf(f)[k]) \in 1 .. L /\ RpoOf(f)[Num(f, RpoOf(f)[k])] = RpoOf(f)[k]
    BY <1>4, <2>1
  <2> QED
    BY <1>1, <2>1, <2>2 DEF NoTwice, L
<1>6. \A b, c \in R : Num(f, b) = Num(f, c) => b = c
  BY <1>4
<1>7. L \in Nat
  BY <1>1 DEF L
<1>8. Num(f, f.entry) = 1
  <2>1. L >= 1 /\ 1 \in 1 .. L
    BY <1>2, <1>4, <1>7 DEF R
  <2>2. 1 .. 1 - 1 = {}
    OBVIOUS
  <2>3. RpoOf(f)[1] = f.entry
    BY <1>1, <2>1, <2>2 DEF L
  <2> QED
    BY <1>5, <2>1, <2>3
<1>9. ASSUME NEW b \in R \ {f.entry} PROVE Num(f, b) > 1
  <2>1. Num(f, b) # Num(f, f.entry)
    BY <1>2, <1>6 DEF R
  <2> QED
    BY <1>4, <1>7, <1>8, <2>1
<1>10. ASSUME NEW b \in R \ {f.entry}
       PROVE  \E p \in R : b \in Range(Succ(f, p)) /\ Num(f, p) < Num(f, b)
  <2> DEFINE k == Num(f, b)
  <2>1. k \in 1 .. L /\ RpoOf(f)[k] = b
    BY <1>4
  <2>2. PICK j \in 1 .. k - 1 : b \in Range(Succ(f, RpoOf(f)[j]))
    BY <1>1, <2>1 DEF L
  <2> HIDE DEF k
  <2>3. j \in 1 .. L /\ j < k
    BY <1>7, <2>1
  <2>4. RpoOf(f)[j] \in R /\ Num(f, RpoOf(f)[j]) = j
    BY <1>5, <2>3
  <2> QED
    BY <2>2, <2>3, <2>4 DEF k
<1> QED
  BY <1>1, <1>2, <1>4, <1>5, <1>6, <1>8, <1>9, <1>10 DEF R, L

\* The blocks on the way up from b in a tree.
Up(f, t, b) ==
  Turned([S \in SUBSET Blocks(f) |-> S \cup {t[c] : c \in S}], {b}, Len(f.order))

LEMMA HeldFacts ==
  ASSUME NEW f, GraphHere(f), NEW t, IsTree(f, t)
  PROVE  /\ f.entry \in Held(f, t) /\ Held(f, t) \subseteq Reachable(f)
         /\ Held(f, t) \subseteq Blocks(f)
         /\ IsFiniteSet(Held(f, t)) /\ Cardinality(Held(f, t)) <= Len(f.order)
         /\ Len(f.order) \in Nat
         /\ \A b \in Held(f, t) : t[b] \in Held(f, t)
         /\ \A b \in Blocks(f) : t[b] # NoBlock <=> b \in Held(f, t)
         /\ DOMAIN t = Blocks(f)
<1>1. /\ f.entry \in Reachable(f) /\ Reachable(f) \subseteq Range(f.order)
      /\ Range(f.order) \subseteq Blocks(f)
      /\ Len(f.order) \in Nat /\ IsFiniteSet(Range(f.order))
      /\ Cardinality(Range(f.order)) <= Len(f.order)
  BY GraphFacts DEF GraphHere
<1>2. f.entry # NoBlock
  BY <1>1 DEF GraphHere
<1>3. f.entry \in Held(f, t) /\ Held(f, t) \subseteq Reachable(f)
  BY <1>1, <1>2 DEF Held, IsTree
<1>4. IsFiniteSet(Held(f, t)) /\ Cardinality(Held(f, t)) <= Cardinality(Range(f.order))
  BY <1>1, <1>3, FS_Subset
<1>5. Cardinality(Held(f, t)) \in Nat /\ Cardinality(Range(f.order)) \in Nat
  BY <1>1, <1>4, FS_CardinalityType
<1>6. Cardinality(Held(f, t)) <= Len(f.order)
  BY <1>1, <1>4, <1>5
<1>7. \A b \in Held(f, t) : t[b] \in Held(f, t)
  BY <1>3 DEF IsTree
<1>8. \A b \in Blocks(f) : t[b] # NoBlock <=> b \in Held(f, t)
  BY DEF IsTree, Held
<1> QED
  BY <1>1, <1>3, <1>4, <1>6, <1>7, <1>8 DEF IsTree

LEMMA UpFacts ==
  ASSUME NEW f, GraphHere(f), NEW t, IsTree(f, t), NEW b \in Held(f, t)
  PROVE  /\ b \in Up(f, t, b) /\ Up(f, t, b) \subseteq Held(f, t)
         /\ \A c \in Up(f, t, b) : t[c] \in Up(f, t, b)
         /\ \A X : b \in X /\ (\A c \in X \cap Held(f, t) : t[c] \in X) => Up(f, t, b) \subseteq X
<1> DEFINE D == Held(f, t)
           step == [S \in SUBSET Blocks(f) |-> S \cup {t[c] : c \in S}]
           a == {b}
           m == Len(f.order)
<1>1. /\ D \subseteq Blocks(f) /\ IsFiniteSet(D) /\ Cardinality(D) <= m /\ m \in Nat
      /\ \A c \in D : t[c] \in D
  BY HeldFacts
<1>2. a \in SUBSET D
  OBVIOUS
<1>3. Up(f, t, b) = Turned(step, a, m)
  BY DEF Up
<1> HIDE DEF D, a
<1>4. \A S \in SUBSET D : step[S] = S \cup {t[c] : c \in S}
  BY <1>1
<1> HIDE DEF step
<1>5. \A S \in SUBSET D : step[S] \in SUBSET D /\ S \subseteq step[S]
  BY <1>1, <1>4
<1> HIDE DEF m
<1>6. /\ a \subseteq Turned(step, a, m)
      /\ Turned(step, a, m) \subseteq D
      /\ step[Turned(step, a, m)] = Turned(step, a, m)
  BY <1>1, <1>2, <1>5, TurnsClose
<1>7. \A c \in Up(f, t, b) : t[c] \in Up(f, t, b)
  BY <1>3, <1>4, <1>6
<1>8. ASSUME NEW X, b \in X, \A c \in X \cap D : t[c] \in X PROVE Up(f, t, b) \subseteq X
  <2>1. a \subseteq X
    BY <1>8 DEF a
  <2>2. \A S \in SUBSET D : S \subseteq X => step[S] \subseteq X
    BY <1>4, <1>8
  <2>3. \A S \in SUBSET D : step[S] \in SUBSET D
    BY <1>5
  <2>4. m \in Nat
    BY <1>1
  <2>5. Turned(step, a, m) \subseteq X
    BY <1>2, <2>1, <2>2, <2>3, <2>4, TurnsAreLeast
  <2> QED
    BY <1>3, <2>5
<1> QED
  BY <1>3, <1>6, <1>7, <1>8 DEF D, a

\* A way up leads through smaller numbers, and on to the ways up from there.
LEMMA UpwardFacts ==
  ASSUME NEW f, GraphHere(f), NEW t, IsTree(f, t), NEW b \in Held(f, t)
  PROVE  /\ b # f.entry => Up(f, t, b) = {b} \cup Up(f, t, t[b])
         /\ Up(f, t, f.entry) = {f.entry}
         /\ \A c \in Up(f, t, b) : Num(f, c) <= Num(f, b) /\ (c # b => Num(f, c) < Num(f, b))
         /\ \A c \in Up(f, t, b) : Up(f, t, c) \subseteq Up(f, t, b)
<1>1. /\ f.entry \in Held(f, t) /\ Held(f, t) \subseteq Reachable(f)
      /\ \A c \in Held(f, t) : t[c] \in Held(f, t)
  BY HeldFacts
<1>2. \A c \in Held(f, t) : Num(f, c) \in Nat
  BY <1>1, NumberFacts
<1>3. ASSUME NEW c \in Up(f, t, b) PROVE Up(f, t, c) \subseteq Up(f, t, b)
  <2>1. c \in Held(f, t)
    BY <1>3, UpFacts
  <2>2. \A d \in Up(f, t, b) \cap Held(f, t) : t[d] \in Up(f, t, b)
    BY UpFacts
  <2> QED
    BY <1>3, <2>1, <2>2, UpFacts
<1>4. Up(f, t, b) \subseteq {c \in Held(f, t) : c = b \/ Num(f, c) < Num(f, b)}
  <2> DEFINE X == {c \in Held(f, t) : c = b \/ Num(f, c) < Num(f, b)}
  <2>1. b \in X
    OBVIOUS
  <2>2. ASSUME NEW c \in X PROVE t[c] \in X
    <3>1. CASE c = f.entry
      BY <2>2, <3>1 DEF IsTree
    <3>2. CASE c # f.entry
      <4>1. Num(f, t[c]) < Num(f, c) /\ t[c] \in Held(f, t)
        BY <2>2, <3>2 DEF IsTree
      <4>2. Num(f, t[c]) < Num(f, b)
        BY <1>2, <2>2, <4>1
      <4> QED
        BY <4>1, <4>2
    <3> QED
      BY <3>1, <3>2
  <2> HIDE DEF X
  <2>3. Up(f, t, b) \subseteq X
    BY <2>1, <2>2, UpFacts
  <2> QED
    BY <2>3 DEF X
<1>5. \A c \in Up(f, t, b) : Num(f, c) <= Num(f, b) /\ (c # b => Num(f, c) < Num(f, b))
  BY <1>2, <1>4
<1>6. Up(f, t, f.entry) = {f.entry}
  <2>1. t[f.entry] = f.entry
    BY DEF IsTree
  <2> DEFINE X == {f.entry}
  <2>2. f.entry \in X /\ \A c \in X \cap Held(f, t) : t[c] \in X
    BY <2>1
  <2> HIDE DEF X
  <2>3. Up(f, t, f.entry) \subseteq X /\ f.entry \in Up(f, t, f.entry)
    BY <1>1, <2>2, UpFacts
  <2> QED
    BY <2>3 DEF X
<1>7. ASSUME b # f.entry PROVE Up(f, t, b) = {b} \cup Up(f, t, t[b])
  <2> DEFINE X == {b} \cup Up(f, t, t[b])
  <2>1. t[b] \in Held(f, t) /\ t[b] \in Up(f, t, b) /\ b \in Up(f, t, b)
    BY <1>1, UpFacts
  <2>2. t[b] \in Up(f, t, t[b]) /\ \A c \in Up(f, t, t[b]) : t[c] \in Up(f, t, t[b])
    BY <2>1, UpFacts
  <2>3. b \in X /\ \A c \in X : t[c] \in X
    BY <2>2
  <2>4. X \subseteq Up(f, t, b)
    BY <1>3, <2>1
  <2> HIDE DEF X
  <2>5. Up(f, t, b) \subseteq X
    BY <2>3, UpFacts
  <2>6. Up(f, t, b) = X
    BY <2>4, <2>5
  <2> QED
    BY <2>6 DEF X
<1> QED
  BY <1>3, <1>5, <1>6, <1>7

\* Where the two fingers meet, the ways up that they share begin.
LEMMA IntersectFacts ==
  ASSUME NEW f, GraphHere(f), NEW t, IsTree(f, t), NEW p \in Held(f, t), NEW q \in Held(f, t)
  PROVE  /\ intersect(f, RpoOf(f), t, p, q) \in Held(f, t)
         /\ Up(f, t, intersect(f, RpoOf(f), t, p, q)) = Up(f, t, p) \cap Up(f, t, q)
<1> DEFINE H == Held(f, t)
           D == H \X H
           L == Len(RpoOf(f))
           step == Climbing(f, RpoOf(f), t)
           a == <<p, q>>
           T(n) == Turned(step, a, n)
           Same(x, y) == Up(f, t, x) \cap Up(f, t, y) = Up(f, t, p) \cap Up(f, t, q)
           Near(x, y, n) == x = y \/ Num(f, x) + Num(f, y) + n <= 2 * L
           OK(d, n) == Same(d[1], d[2]) /\ Near(d[1], d[2], n)
           N == {n \in Nat : OK(T(n), n)}
<1>1. /\ f.entry \in H /\ H \subseteq Reachable(f) /\ H \subseteq Blocks(f)
      /\ \A c \in H : t[c] \in H
  BY HeldFacts
<1>2. L \in Nat /\ \A c \in H : Num(f, c) \in 1 .. L
  BY <1>1, NumberFacts
<1>3. ASSUME NEW x \in H, NEW y \in H
      PROVE  step[<<x, y>>] = IF x = y THEN <<x, y>>
                              ELSE IF Num(f, x) > Num(f, y) THEN <<t[x], y>> ELSE <<x, t[y]>>
  <2>1. <<x, y>> \in Blocks(f) \X Blocks(f)
    BY <1>1
  <2> QED
    BY <2>1 DEF Climbing, Num
<1>4. \A x, y \in H : Num(f, x) = Num(f, y) => x = y
  BY <1>1, NumberFacts
<1> HIDE DEF step
<1>5. ASSUME NEW d \in D PROVE step[d] \in D
  <2>1. PICK x \in H, y \in H : d = <<x, y>>
    OBVIOUS
  <2>2. t[x] \in H /\ t[y] \in H
    BY <1>1
  <2> HIDE DEF H
  <2>3. step[d] = <<x, y>> \/ step[d] = <<t[x], y>> \/ step[d] = <<x, t[y]>>
    BY <1>3, <2>1
  <2> QED
    BY <2>2, <2>3
<1>6. a \in D
  OBVIOUS
\* The finger that climbs leaves a block the other one does not pass.
<1>7. ASSUME NEW x \in H, NEW y \in H, Num(f, x) > Num(f, y)
      PROVE  /\ Up(f, t, t[x]) \cap Up(f, t, y) = Up(f, t, x) \cap Up(f, t, y)
             /\ Num(f, t[x]) < Num(f, x)
  <2>1. x # f.entry
    BY <1>1, <1>2, <1>7, NumberFacts
  <2>2. Up(f, t, x) = {x} \cup Up(f, t, t[x])
    BY <2>1, UpwardFacts
  <2>3. x \notin Up(f, t, y)
    <3>1. \A c \in Up(f, t, y) : Num(f, c) <= Num(f, y)
      BY UpwardFacts
    <3>2. Num(f, x) \in Nat /\ Num(f, y) \in Nat
      BY <1>2
    <3> QED
      BY <1>7, <3>1, <3>2
  <2> QED
    BY <2>1, <2>2, <2>3 DEF IsTree
<1> HIDE DEF H
<1>8. ASSUME NEW x \in H, NEW y \in H, NEW n \in Nat, Same(x, y), Near(x, y, n)
      PROVE  OK(step[<<x, y>>], n + 1)
  <2>0. \A u, v, k : OK(<<u, v>>, k) <=> Same(u, v) /\ Near(u, v, k)
    OBVIOUS
  <2>1. CASE x = y
    <3>1. step[<<x, y>>] = <<x, y>> /\ Near(x, y, n + 1)
      BY <1>3, <2>1
    <3> HIDE DEF OK, Same, Near
    <3> QED
      BY <1>8, <2>0, <3>1
  <2>2. CASE Num(f, x) > Num(f, y)
    <3>1. Up(f, t, t[x]) \cap Up(f, t, y) = Up(f, t, x) \cap Up(f, t, y) /\ Num(f, t[x]) < Num(f, x)
      BY <1>7, <2>2
    <3>2. Num(f, x) \in Nat /\ Num(f, y) \in Nat /\ Num(f, t[x]) \in Nat
      BY <1>1, <1>2
    <3>3. x # y
      BY <2>2, <3>2
    <3>4. step[<<x, y>>] = <<t[x], y>>
      BY <1>3, <2>2, <3>3
    <3>5. Near(t[x], y, n + 1)
      BY <1>2, <1>8, <3>1, <3>2, <3>3
    <3>6. Same(t[x], y)
      BY <1>8, <3>1
    <3> HIDE DEF OK, Same, Near
    <3> QED
      BY <2>0, <3>4, <3>5, <3>6
  <2>3. CASE Num(f, y) > Num(f, x)
    <3>1. Up(f, t, t[y]) \cap Up(f, t, x) = Up(f, t, y) \cap Up(f, t, x) /\ Num(f, t[y]) < Num(f, y)
      BY <1>7, <2>3
    <3>2. Num(f, x) \in Nat /\ Num(f, y) \in Nat /\ Num(f, t[y]) \in Nat
      BY <1>1, <1>2
    <3>3. x # y /\ ~ (Num(f, x) > Num(f, y))
      BY <2>3, <3>2
    <3>4. step[<<x, y>>] = <<x, t[y]>>
      BY <1>3, <3>3
    <3>5. Near(x, t[y], n + 1)
      BY <1>2, <1>8, <3>1, <3>2, <3>3
    <3>6. Same(x, t[y])
      BY <1>8, <3>1
    <3> HIDE DEF OK, Same, Near
    <3> QED
      BY <2>0, <3>4, <3>5, <3>6
  <2>4. Num(f, x) \in Nat /\ Num(f, y) \in Nat
    BY <1>2
  <2> HIDE DEF OK, Same, Near
  <2> QED
    BY <1>4, <2>1, <2>2, <2>3, <2>4
<1> HIDE DEF D, a
<1>9. T(0) = a /\ \A n \in Nat : T(n) \in D /\ T(n + 1) = step[T(n)]
  BY <1>5, <1>6, TurnedFacts
<1> HIDE DEF T, L
<1>10. 0 \in N
  <2>1. Num(f, p) \in 1 .. L /\ Num(f, q) \in 1 .. L
    BY <1>2 DEF H
  <2>2. Near(p, q, 0)
    BY <1>2, <2>1
  <2>3. T(0)[1] = p /\ T(0)[2] = q
    BY <1>9 DEF a
  <2> QED
    BY <2>2, <2>3
<1>11. ASSUME NEW n \in Nat, n \in N PROVE n + 1 \in N
  <2>1. PICK x \in H, y \in H : T(n) = <<x, y>>
    BY <1>9 DEF D
  <2>2. Same(x, y) /\ Near(x, y, n)
    BY <1>11, <2>1
  <2>3. T(n + 1) = step[<<x, y>>]
    BY <1>9, <2>1
  <2>4. OK(step[<<x, y>>], n + 1)
    BY <1>8, <2>2
  <2> HIDE DEF OK, Same, Near
  <2> QED
    BY <2>3, <2>4
<1> HIDE DEF N
<1>12. Nat \subseteq N
  BY <1>10, <1>11, NatSetInduction
<1>13. 2 * L \in Nat
  BY <1>2
<1>14. PICK x \in H, y \in H : T(2 * L) = <<x, y>>
  BY <1>9, <1>13 DEF D
<1>15. Same(x, y) /\ Near(x, y, 2 * L)
  BY <1>12, <1>13, <1>14 DEF N
<1>16. x = y
  <2>1. Num(f, x) \in 1 .. L /\ Num(f, y) \in 1 .. L
    BY <1>2
  <2> QED
    BY <1>2, <1>15, <2>1
<1>17. intersect(f, RpoOf(f), t, p, q) = x
  BY <1>14 DEF intersect, T, step, a, L
<1> QED
  BY <1>15, <1>16, <1>17 DEF H

\* The predecessors that have been reached, and where they meet.
LEMMA KnownFacts ==
  ASSUME NEW f, GraphHere(f), NEW t, IsTree(f, t), NEW b \in Reachable(f)
  PROVE  /\ Known(f, t, b) \in Seq(Held(f, t))
         /\ Range(Known(f, t, b)) = Range(Pred(f, b)) \cap Held(f, t)
<1>1. Pred(f, b) \in Seq(Blocks(f))
  BY GraphFacts DEF GraphHere
<1> DEFINE K == Known(f, t, b)
<1>2. K \in Seq(Blocks(f)) /\ Range(K) = Range(Pred(f, b)) \cap {p \in Blocks(f) : t[p] # NoBlock}
  BY <1>1, FilteredFacts DEF Known
<1>3. {p \in Blocks(f) : t[p] # NoBlock} = Held(f, t)
  BY HeldFacts
<1> HIDE DEF K
<1>4. K \in Seq(Held(f, t))
  <2>1. \A k \in 1 .. Len(K) : K[k] \in Held(f, t)
    BY <1>2, <1>3 DEF Range
  <2> QED
    BY <1>2, <2>1
<1> QED
  BY <1>2, <1>3, <1>4 DEF K

LEMMA NewIdomFacts ==
  ASSUME NEW f, GraphHere(f), NEW t, IsTree(f, t), NEW b \in Reachable(f),
         Range(Pred(f, b)) \cap Held(f, t) # {}
  PROVE  /\ new_idom(f, RpoOf(f), t, b) \in Held(f, t)
         /\ \A n : n \in Up(f, t, new_idom(f, RpoOf(f), t, b))
                     <=> \A p \in Range(Pred(f, b)) \cap Held(f, t) : n \in Up(f, t, p)
<1> DEFINE H == Held(f, t)
           K == Known(f, t, b)
           D == Seq(H) \X H
           step == [m \in Seq(Blocks(f)) \X Blocks(f) |->
                      IF m[1] = <<>> THEN m
                      ELSE <<Tail(m[1]), intersect(f, RpoOf(f), t, Head(m[1]), m[2])>>]
           a == <<K, Head(K)>>
           T(n) == Turned(step, a, n)
           Left(r, n) == Len(r) + n = Len(K) \/ r = <<>>
           Same(r, c) == \A n : (n \in Up(f, t, c) /\ \A p \in Range(r) : n \in Up(f, t, p))
                                  <=> \A p \in Range(K) : n \in Up(f, t, p)
           OK(d, n) == Left(d[1], n) /\ Same(d[1], d[2])
           N == {n \in Nat : OK(T(n), n)}
<1>1. K \in Seq(H) /\ Range(K) = Range(Pred(f, b)) \cap H
  BY KnownFacts
<1>2. H \subseteq Blocks(f)
  BY HeldFacts
<1>3. K # <<>> /\ Head(K) \in H /\ Head(K) \in Range(K)
  <2>1. K # <<>>
    <3>1. Range(<<>>) = {}
      BY DEF Range
    <3> QED
      BY <1>1, <3>1
  <2> QED
    BY <1>1, <2>1, RangeOfTail
<1>4. Len(K) \in Nat
  BY <1>1
<1>5. ASSUME NEW r \in Seq(H), NEW c \in H
      PROVE  step[<<r, c>>] = IF r = <<>> THEN <<r, c>>
                              ELSE <<Tail(r), intersect(f, RpoOf(f), t, Head(r), c)>>
  <2>1. r \in Seq(Blocks(f)) /\ c \in Blocks(f)
    BY <1>2
  <2>2. <<r, c>> \in Seq(Blocks(f)) \X Blocks(f)
    BY <2>1
  <2> QED
    BY <2>2
<1> HIDE DEF step
<1>6. ASSUME NEW r \in Seq(H), r # <<>>, NEW c \in H
      PROVE  /\ Head(r) \in H /\ Tail(r) \in Seq(H) /\ Len(r) = Len(Tail(r)) + 1
             /\ Range(r) = Range(Tail(r)) \cup {Head(r)}
             /\ Len(r) \in Nat /\ Len(Tail(r)) \in Nat
             /\ intersect(f, RpoOf(f), t, Head(r), c) \in H
             /\ Up(f, t, intersect(f, RpoOf(f), t, Head(r), c)) = Up(f, t, Head(r)) \cap Up(f, t, c)
  <2>1. Head(r) \in H /\ Tail(r) \in Seq(H) /\ Range(r) = Range(Tail(r)) \cup {Head(r)}
    BY <1>6, RangeOfTail
  <2>2. Len(r) = Len(Tail(r)) + 1 /\ Len(r) \in Nat /\ Len(Tail(r)) \in Nat
    BY <1>6
  <2> QED
    BY <2>1, <2>2, IntersectFacts
<1> HIDE DEF H, K
<1>7. ASSUME NEW d \in D PROVE step[d] \in D
  <2>1. PICK r \in Seq(H), c \in H : d = <<r, c>>
    OBVIOUS
  <2>2. CASE r = <<>>
    BY <1>5, <2>1, <2>2
  <2>3. CASE r # <<>>
    <3> DEFINE e == intersect(f, RpoOf(f), t, Head(r), c)
               u == Tail(r)
    <3>1. step[d] = <<u, e>>
      BY <1>5, <2>1, <2>3
    <3>2. u \in Seq(H) /\ e \in H
      BY <1>6, <2>3
    <3> HIDE DEF u, e
    <3> QED
      BY <3>1, <3>2
  <2> QED
    BY <2>2, <2>3
<1>8. a \in D
  BY <1>1, <1>3
<1> HIDE DEF D, a
<1>9. T(0) = a /\ \A n \in Nat : T(n) \in D /\ T(n + 1) = step[T(n)]
  BY <1>7, <1>8, TurnedFacts
<1> HIDE DEF T
<1>10. 0 \in N
  <2>1. T(0)[1] = K /\ T(0)[2] = Head(K)
    BY <1>9 DEF a
  <2>2. Left(K, 0)
    BY <1>4
  <2>3. Same(K, Head(K))
    BY <1>3
  <2> HIDE DEF Left, Same
  <2> QED
    BY <2>1, <2>2, <2>3
<1>11. ASSUME NEW n \in Nat, n \in N PROVE n + 1 \in N
  <2>0. \A r, c, k : OK(<<r, c>>, k) <=> Left(r, k) /\ Same(r, c)
    OBVIOUS
  <2>1. PICK r \in Seq(H), c \in H : T(n) = <<r, c>>
    <3>1. T(n) \in D
      BY <1>9
    <3> QED
      BY <3>1 DEF D
  <2>2. T(n + 1) = step[<<r, c>>]
    BY <1>9, <2>1
  <2>3. Left(r, n) /\ Same(r, c)
    <3> HIDE DEF OK, Left, Same
    <3> QED
      BY <1>11, <2>0, <2>1
  <2>4. CASE r = <<>>
    <3>1. T(n + 1) = <<r, c>>
      BY <1>5, <2>2, <2>4
    <3>2. Left(r, n + 1)
      BY <2>4
    <3> HIDE DEF Left, Same, OK
    <3> QED
      BY <2>0, <2>3, <3>1, <3>2
  <2>5. CASE r # <<>>
    <3> DEFINE e == intersect(f, RpoOf(f), t, Head(r), c)
    <3>1. T(n + 1) = <<Tail(r), e>>
      BY <1>5, <2>2, <2>5
    <3>2. Len(r) = Len(Tail(r)) + 1 /\ Len(r) \in Nat /\ Len(Tail(r)) \in Nat
      BY <1>6, <2>5
    <3>3. Range(r) = Range(Tail(r)) \cup {Head(r)} /\ Up(f, t, e) = Up(f, t, Head(r)) \cap Up(f, t, c)
      BY <1>6, <2>5
    <3> HIDE DEF e
    <3>4. Left(Tail(r), n + 1)
      BY <1>4, <2>3, <2>5, <3>2
    <3>5. \A k : (k \in Up(f, t, e) /\ \A p \in Range(Tail(r)) : k \in Up(f, t, p))
                   <=> (k \in Up(f, t, c) /\ \A p \in Range(r) : k \in Up(f, t, p))
      BY <3>3
    <3>6. Same(Tail(r), e)
      BY <2>3, <3>5
    <3> HIDE DEF Left, Same, OK
    <3>7. OK(<<Tail(r), e>>, n + 1)
      BY <2>0, <3>4, <3>6
    <3>8. OK(T(n + 1), n + 1)
      BY <3>1, <3>7
    <3>9. n + 1 \in Nat
      OBVIOUS
    <3> QED
      BY <3>8, <3>9
  <2> QED
    BY <2>4, <2>5
<1> HIDE DEF N
<1>12. Nat \subseteq N
  BY <1>10, <1>11, NatSetInduction
<1>13. PICK r \in Seq(H), c \in H : T(Len(K)) = <<r, c>>
  BY <1>4, <1>9 DEF D
<1>14. Left(r, Len(K)) /\ Same(r, c)
  BY <1>4, <1>12, <1>13 DEF N
<1>15. r = <<>> /\ Range(r) = {}
  <2>1. r = <<>>
    BY <1>4, <1>14
  <2> QED
    BY <2>1 DEF Range
<1>16. new_idom(f, RpoOf(f), t, b) = c
  BY <1>13 DEF new_idom, T, step, a, K
<1> QED
  BY <1>1, <1>14, <1>15, <1>16 DEF H

-----------------------------------------------------------------------------
\* What can be reached without passing n.
LEMMA ReachedWithoutFacts ==
  ASSUME NEW f, Graph(f), NEW n
  PROVE  /\ ReachedWithout(f, n) \subseteq Reachable(f)
         /\ n \notin ReachedWithout(f, n)
         /\ f.entry # n => f.entry \in ReachedWithout(f, n)
         /\ \A b \in ReachedWithout(f, n) :
              \A s \in Range(Succ(f, b)) : s # n => s \in ReachedWithout(f, n)
         /\ \A X : /\ f.entry # n => f.entry \in X
                   /\ \A b \in X \cap Reachable(f) : \A s \in Range(Succ(f, b)) : s # n => s \in X
                   => ReachedWithout(f, n) \subseteq X
<1> DEFINE D == Reachable(f)
           more(R) == R \cup ((UNION {Range(Succ(f, b)) : b \in R}) \ {n})
           step == [R \in SUBSET Blocks(f) |-> more(R)]
           a == {f.entry} \ {n}
           m == Len(f.order)
           W == ReachedWithout(f, n)
<1>1. /\ f.entry \in D /\ D \subseteq Range(f.order) /\ Range(f.order) \subseteq Blocks(f)
      /\ IsFiniteSet(Range(f.order)) /\ Cardinality(Range(f.order)) <= m /\ m \in Nat
      /\ \A b \in D : Range(Succ(f, b)) \subseteq D
  BY GraphFacts
<1>2. IsFiniteSet(D) /\ Cardinality(D) <= m
  <2>1. IsFiniteSet(D) /\ Cardinality(D) <= Cardinality(Range(f.order))
    BY <1>1, FS_Subset
  <2>2. Cardinality(D) \in Nat /\ Cardinality(Range(f.order)) \in Nat
    BY <1>1, <2>1, FS_CardinalityType
  <2> QED
    BY <1>1, <2>1, <2>2
<1>3. a \in SUBSET D
  BY <1>1
<1>4. W = Turned(step, a, m)
  BY DEF ReachedWithout
<1> HIDE DEF W, D, a
<1>5. ASSUME NEW S \in SUBSET D, NEW s
      PROVE  s \in step[S] <=> s \in S \/ (s # n /\ \E b \in S : s \in Range(Succ(f, b)))
  <2>0. S \in SUBSET Blocks(f)
    BY <1>1
  <2> HIDE DEF more
  <2>9. step[S] = more(S)
    BY <2>0
  <2> DEFINE U == UNION {Range(Succ(f, b)) : b \in S}
  <2>10. more(S) = S \cup (U \ {n})
    BY DEF more
  <2> HIDE DEF step
  <2>1. step[S] = S \cup (U \ {n})
    BY <2>9, <2>10
  <2>2. ASSUME s \in U PROVE \E b \in S : s \in Range(Succ(f, b))
    BY <2>2
  <2>3. ASSUME NEW b \in S, s \in Range(Succ(f, b)) PROVE s \in U
    BY <2>3
  <2> HIDE DEF step, U
  <2> QED
    BY <2>1, <2>2, <2>3
<1> HIDE DEF step
<1>6. ASSUME NEW S \in SUBSET D PROVE step[S] \in SUBSET D /\ S \subseteq step[S]
  BY <1>1, <1>5
<1>7. m \in Nat
  BY <1>1
<1> HIDE DEF m
<1>8. a \subseteq W /\ W \subseteq D /\ step[W] = W
  BY <1>2, <1>3, <1>4, <1>6, <1>7, TurnsClose
<1>9. ASSUME NEW b \in W, NEW s \in Range(Succ(f, b)), s # n PROVE s \in W
  BY <1>5, <1>8, <1>9
<1>10. ASSUME NEW X, f.entry # n => f.entry \in X,
              \A b \in X \cap D : \A s \in Range(Succ(f, b)) : s # n => s \in X
       PROVE  W \subseteq X
  <2>1. a \subseteq X
    BY <1>10 DEF a
  <2>2. ASSUME NEW S \in SUBSET D, S \subseteq X PROVE step[S] \subseteq X
    BY <1>5, <1>10, <2>2
  <2>3. \A S \in SUBSET D : step[S] \in SUBSET D
    BY <1>6
  <2>4. Turned(step, a, m) \subseteq X
    BY <1>3, <1>7, <2>1, <2>2, <2>3, TurnsAreLeast
  <2> QED
    BY <1>4, <2>4
<1>11. n \notin W
  <2> DEFINE X == D \ {n}
  <2>1. f.entry # n => f.entry \in X
    BY <1>1
  <2>2. \A b \in X \cap D : \A s \in Range(Succ(f, b)) : s # n => s \in X
    BY <1>1
  <2> HIDE DEF X
  <2>3. W \subseteq X
    BY <1>10, <2>1, <2>2
  <2> QED
    BY <2>3 DEF X
<1>12. f.entry # n => f.entry \in W
  BY <1>8 DEF a
<1> QED
  BY <1>8, <1>9, <1>10, <1>11, <1>12 DEF W, D

\* A block is reached from its guess through blocks of larger numbers only.
Leads(f, t) ==
  \A b \in Held(f, t) \ {f.entry} : \A X \in SUBSET Reachable(f) :
    /\ t[b] \in X
    /\ \A u \in X : \A s \in Range(Succ(f, u)) : Num(f, s) >= Num(f, t[b]) => s \in X
    => b \in X

\* A tree that has lost no dominator of a block it has reached.
LosesNone(f, t) ==
  \A b \in Held(f, t) : \A n \in Reachable(f) : Dominates(f, n, b) => n \in Up(f, t, b)

\* So is it reached from every block on the way up.
LEMMA LeadsDown ==
  ASSUME NEW f, GraphHere(f), NEW t, IsTree(f, t), Leads(f, t), NEW b \in Held(f, t), NEW c \in Up(f, t, b),
         NEW X \in SUBSET Reachable(f), c \in X,
         \A u \in X : \A s \in Range(Succ(f, u)) : Num(f, s) >= Num(f, c) => s \in X
  PROVE  b \in X
<1> DEFINE R == Reachable(f)
           Above(d, Y) == \A u \in Y : \A s \in Range(Succ(f, u)) : Num(f, s) >= Num(f, d) => s \in Y
           Y == {d \in Held(f, t) : \A Z \in SUBSET R : d \in Z /\ Above(d, Z) => b \in Z}
<1>1. b \in Y
  OBVIOUS
<1>2. ASSUME NEW d \in Y PROVE t[d] \in Y
  <2>1. d \in Held(f, t) /\ t[d] \in Held(f, t)
    BY HeldFacts
  <2>2. CASE d = f.entry
    BY <2>2 DEF IsTree
  <2>3. CASE d # f.entry
    <3> SUFFICES ASSUME NEW Z \in SUBSET R, t[d] \in Z, Above(t[d], Z) PROVE b \in Z
      BY <2>1
    <3>1. d \in Z
      BY <2>1, <2>3 DEF Leads
    <3>2. Num(f, t[d]) < Num(f, d)
      BY <2>1, <2>3 DEF IsTree
    <3>3. \A u \in Z : \A s \in Range(Succ(f, u)) : s \in R
      BY GraphFacts DEF GraphHere
    <3>4. \A s \in R : Num(f, s) \in Nat
      BY NumberFacts
    <3>5. Num(f, d) \in Nat /\ Num(f, t[d]) \in Nat
      BY <2>1, <3>4, HeldFacts
    <3>6. Above(d, Z)
      <4> SUFFICES ASSUME NEW u \in Z, NEW s \in Range(Succ(f, u)), Num(f, s) >= Num(f, d)
                   PROVE  s \in Z
        OBVIOUS
      <4>1. Num(f, s) >= Num(f, t[d])
        BY <3>2, <3>3, <3>4, <3>5
      <4> QED
        BY <4>1
    <3> HIDE DEF Above
    <3> QED
      BY <3>1, <3>6
  <2> QED
    BY <2>2, <2>3
<1> HIDE DEF Y
<1>3. Up(f, t, b) \subseteq Y
  BY <1>1, <1>2, UpFacts
<1>4. c \in Y
  BY <1>3
<1> QED
  BY <1>4 DEF Y

\* What a dominator of b other than b itself dominates.
LEMMA DominatesPreds ==
  ASSUME NEW f, GraphHere(f), NEW b \in Reachable(f), NEW n, n # b, Dominates(f, n, b),
         NEW p \in Range(Pred(f, b)) \cap Reachable(f)
  PROVE  Dominates(f, n, p)
<1>1. b \in Range(Succ(f, p))
  BY GraphFacts DEF GraphHere
<1>2. p \in ReachedWithout(f, n) => b \in ReachedWithout(f, n)
  BY <1>1, ReachedWithoutFacts DEF GraphHere
<1> QED
  BY <1>2 DEF Dominates

\* The turn of b in a round comes when a predecessor of a smaller number has
\* been reached; b then gets the block where its known predecessors meet.
Ready(f, t, b) ==
  /\ b \in Reachable(f) \ {f.entry}
  /\ \E p \in Range(Pred(f, b)) \cap Held(f, t) : Num(f, p) < Num(f, b)
Meet(f, t, b) == new_idom(f, RpoOf(f), t, b)
Updated(f, t, b) == [t EXCEPT ![b] = Meet(f, t, b)]

LEMMA UpdateFacts ==
  ASSUME NEW f, GraphHere(f), NEW t, IsTree(f, t), NEW b, Ready(f, t, b)
  PROVE  /\ Updated(f, t, b)[b] = Meet(f, t, b)
         /\ \A x \in Blocks(f) \ {b} : Updated(f, t, b)[x] = t[x]
         /\ Meet(f, t, b) \in Held(f, t) /\ Num(f, Meet(f, t, b)) < Num(f, b)
         /\ \E p \in Range(Pred(f, b)) \cap Held(f, t) : Meet(f, t, b) \in Up(f, t, p)
         /\ \A n : n \in Up(f, t, Meet(f, t, b))
                     <=> \A q \in Range(Pred(f, b)) \cap Held(f, t) : n \in Up(f, t, q)
         /\ IsTree(f, Updated(f, t, b)) /\ Held(f, Updated(f, t, b)) = Held(f, t) \cup {b}
<1> DEFINE c == Meet(f, t, b)
           u == Updated(f, t, b)
<1>0. PICK p \in Range(Pred(f, b)) \cap Held(f, t) : Num(f, p) < Num(f, b)
  BY DEF Ready
<1>b. b \in Reachable(f) \ {f.entry}
  BY DEF Ready
<1>1. /\ c \in Held(f, t)
      /\ \A n : n \in Up(f, t, c) <=> \A q \in Range(Pred(f, b)) \cap Held(f, t) : n \in Up(f, t, q)
  <2>1. Range(Pred(f, b)) \cap Held(f, t) # {}
    BY <1>0
  <2> QED
    BY <2>1, <1>b, NewIdomFacts DEF Meet
<1>2. /\ Held(f, t) \subseteq Reachable(f) /\ Held(f, t) \subseteq Blocks(f)
      /\ DOMAIN t = Blocks(f)
      /\ \A x \in Blocks(f) : t[x] # NoBlock <=> x \in Held(f, t)
  BY HeldFacts
<1>3. b \in Blocks(f)
  BY <1>b, GraphFacts DEF GraphHere
<1>4. u[b] = c /\ \A x \in Blocks(f) \ {b} : u[x] = t[x]
  BY <1>2, <1>3 DEF Updated
<1> HIDE DEF c
<1>5. c \in Up(f, t, p)
  <2>1. c \in Up(f, t, c)
    BY <1>1, UpFacts
  <2> QED
    BY <1>0, <1>1, <2>1
<1>6. Num(f, c) < Num(f, b)
  <2>1. Num(f, c) <= Num(f, p)
    BY <1>0, <1>5, UpwardFacts
  <2>2. Num(f, c) \in Nat /\ Num(f, p) \in Nat /\ Num(f, b) \in Nat
    BY <1>0, <1>1, <1>2, <1>b, NumberFacts
  <2> QED
    BY <1>0, <2>1, <2>2
<1>7. c # NoBlock /\ c \in Blocks(f)
  BY <1>1, <1>2 DEF GraphHere
<1>8. Held(f, u) = Held(f, t) \cup {b}
  <2>1. Reachable(f) \subseteq Blocks(f)
    BY GraphFacts DEF GraphHere
  <2> HIDE DEF u
  <2> QED
    BY <1>4, <1>7, <1>b, <2>1 DEF Held
<1>9. IsTree(f, u)
  <2>1. u \in [Blocks(f) -> Reachable(f) \cup {NoBlock}]
    BY <1>1, <1>2 DEF IsTree, Updated, c
  <2>2. f.entry \in Blocks(f) \ {b}
    BY <1>b, GraphFacts DEF GraphHere
  <2>3. u[f.entry] = f.entry
    BY <1>4, <2>2 DEF IsTree
  <2>4. \A x \in Blocks(f) \ Reachable(f) : u[x] = NoBlock
    BY <1>4, <1>b DEF IsTree
  <2>5. \A x \in Held(f, u) \ {f.entry} : u[x] \in Held(f, u) /\ Num(f, u[x]) < Num(f, x)
    <3> HIDE DEF u
    <3>1. ASSUME NEW x \in Held(f, u) \ {f.entry} PROVE u[x] \in Held(f, u) /\ Num(f, u[x]) < Num(f, x)
      <4>1. CASE x = b
        BY <1>1, <1>4, <1>6, <1>8, <4>1
      <4>2. CASE x # b
        <5>1. x \in Held(f, t) \ {f.entry} /\ u[x] = t[x]
          BY <1>2, <1>4, <1>8, <4>2
        <5>2. t[x] \in Held(f, t) /\ Num(f, t[x]) < Num(f, x)
          BY <5>1 DEF IsTree
        <5> QED
          BY <1>8, <5>1, <5>2
      <4> QED
        BY <4>1, <4>2
    <3> QED
      BY <3>1
  <2> HIDE DEF u
  <2> QED
    BY <2>1, <2>3, <2>4, <2>5 DEF IsTree
<1> HIDE DEF u
<1> QED
  BY <1>1, <1>4, <1>5, <1>6, <1>8, <1>9 DEF c, u

LEMMA UpdateKeepsLeads ==
  ASSUME NEW f, GraphHere(f), NEW t, IsTree(f, t), Leads(f, t), NEW b, Ready(f, t, b)
  PROVE  Leads(f, Updated(f, t, b))
<1> DEFINE c == Meet(f, t, b)
           u == Updated(f, t, b)
<1>0. PICK p \in Range(Pred(f, b)) \cap Held(f, t) : c \in Up(f, t, p)
  BY UpdateFacts
<1>1. /\ u[b] = c /\ \A x \in Blocks(f) \ {b} : u[x] = t[x]
      /\ c \in Held(f, t) /\ Num(f, c) < Num(f, b)
      /\ Held(f, u) = Held(f, t) \cup {b}
  BY UpdateFacts
<1>b. b \in Reachable(f) \ {f.entry}
  BY DEF Ready
<1> HIDE DEF c, u
<1>2. p \in Held(f, t) /\ p \in Reachable(f) /\ b \in Range(Succ(f, p)) /\ Held(f, t) \subseteq Blocks(f)
  BY <1>0, <1>b, HeldFacts, GraphFacts DEF GraphHere
<1>3. Num(f, b) >= Num(f, c)
  <2>1. Num(f, b) \in Nat /\ Num(f, c) \in Nat
    BY <1>1, <1>b, HeldFacts, NumberFacts
  <2> QED
    BY <1>1, <2>1
<1>4. ASSUME NEW x \in Held(f, u) \ {f.entry}, NEW X \in SUBSET Reachable(f), u[x] \in X,
             \A v \in X : \A s \in Range(Succ(f, v)) : Num(f, s) >= Num(f, u[x]) => s \in X
      PROVE  x \in X
  <2>1. CASE x = b
    <3>1. c \in X /\ \A v \in X : \A s \in Range(Succ(f, v)) : Num(f, s) >= Num(f, c) => s \in X
      BY <1>1, <1>4, <2>1
    <3>2. p \in X
      BY <1>0, <1>1, <1>2, <3>1, LeadsDown
    <3> QED
      BY <1>2, <1>3, <2>1, <3>1, <3>2
  <2>2. CASE x # b
    <3>1. x \in Held(f, t) \ {f.entry} /\ u[x] = t[x]
      BY <1>1, <1>2, <1>4, <2>2
    <3>2. \A v \in X : \A s \in Range(Succ(f, v)) : Num(f, s) >= Num(f, t[x]) => s \in X
      BY <1>4, <3>1
    <3> QED
      BY <1>4, <3>1, <3>2 DEF Leads
  <2> QED
    BY <2>1, <2>2
<1> QED
  BY <1>4 DEF Leads, u

LEMMA UpdateLosesNone ==
  ASSUME NEW f, GraphHere(f), NEW t, IsTree(f, t), Leads(f, t), LosesNone(f, t), NEW b, Ready(f, t, b)
  PROVE  LosesNone(f, Updated(f, t, b))
<1> DEFINE c == Meet(f, t, b)
           u == Updated(f, t, b)
<1>0. b \in Reachable(f) \ {f.entry}
  BY DEF Ready
<1>1. /\ u[b] = c /\ \A x \in Blocks(f) \ {b} : u[x] = t[x]
      /\ c \in Held(f, t) /\ Num(f, c) < Num(f, b)
      /\ \A n : n \in Up(f, t, c) <=> \A q \in Range(Pred(f, b)) \cap Held(f, t) : n \in Up(f, t, q)
      /\ IsTree(f, u) /\ Held(f, u) = Held(f, t) \cup {b}
  BY UpdateFacts
<1>2. Leads(f, u)
  BY UpdateKeepsLeads
<1> HIDE DEF c, u
<1>3. /\ Held(f, t) \subseteq Blocks(f) /\ Held(f, t) \subseteq Reachable(f)
      /\ \A x \in Held(f, t) : t[x] \in Held(f, t)
  BY HeldFacts
<1>4. b \in Held(f, u) /\ c \in Held(f, u)
  BY <1>1
<1>5. Up(f, u, b) = {b} \cup Up(f, u, c)
  BY <1>0, <1>1, <1>4, UpwardFacts
\* Above the new guess nothing has moved.
<1>6. Up(f, t, c) \subseteq Up(f, u, c)
  <2> DEFINE X == {x \in Up(f, t, c) : x \in Up(f, u, c)}
  <2>1. c \in Up(f, t, c) /\ Up(f, t, c) \subseteq Held(f, t) /\ \A x \in Up(f, t, c) : t[x] \in Up(f, t, c)
    BY <1>1, UpFacts
  <2>2. c \in Up(f, u, c) /\ \A x \in Up(f, u, c) : u[x] \in Up(f, u, c)
    BY <1>1, <1>4, UpFacts
  <2>3. b \notin Up(f, t, c)
    <3>1. \A x \in Up(f, t, c) : Num(f, x) <= Num(f, c)
      BY <1>1, UpwardFacts
    <3>2. Num(f, b) \in Nat /\ Num(f, c) \in Nat
      BY <1>0, <1>1, <1>3, NumberFacts
    <3> QED
      BY <1>1, <3>1, <3>2
  <2>4. \A x \in X \cap Held(f, t) : t[x] \in X
    BY <1>1, <1>3, <2>1, <2>2, <2>3
  <2>5. c \in X
    BY <2>1, <2>2
  <2> HIDE DEF X
  <2>6. Up(f, t, c) \subseteq X
    BY <1>1, <2>4, <2>5, UpFacts
  <2> QED
    BY <2>6 DEF X
<1>7. ASSUME NEW n \in Reachable(f), Dominates(f, n, b) PROVE n \in Up(f, u, b)
  <2>1. CASE n = b
    BY <1>5, <2>1
  <2>2. CASE n # b
    <3>1. \A q \in Range(Pred(f, b)) \cap Held(f, t) : Dominates(f, n, q)
      BY <1>0, <1>3, <1>7, <2>2, DominatesPreds
    <3>2. \A q \in Range(Pred(f, b)) \cap Held(f, t) : n \in Up(f, t, q)
      BY <3>1 DEF LosesNone
    <3> QED
      BY <1>1, <1>5, <1>6, <3>2
  <2> QED
    BY <2>1, <2>2
<1>8. ASSUME NEW x \in Held(f, u), x # b, NEW n \in Reachable(f), Dominates(f, n, x)
      PROVE  n \in Up(f, u, x)
  <2> SUFFICES ASSUME n \notin Up(f, u, x) PROVE FALSE
    OBVIOUS
  <2>1. x \in Held(f, t)
    BY <1>1, <1>8
  <2>2. n \in Up(f, t, x)
    BY <1>8, <2>1 DEF LosesNone
  <2>3. /\ x \in Up(f, u, x) /\ Up(f, u, x) \subseteq Held(f, u)
        /\ \A y \in Up(f, u, x) : u[y] \in Up(f, u, x)
    BY <1>1, UpFacts
  <2>4. b \in Up(f, u, x)
    <3> SUFFICES ASSUME b \notin Up(f, u, x) PROVE FALSE
      OBVIOUS
    <3>1. \A y \in Up(f, u, x) \cap Held(f, t) : t[y] \in Up(f, u, x)
      BY <1>1, <1>3, <2>3
    <3>2. Up(f, t, x) \subseteq Up(f, u, x)
      BY <2>1, <2>3, <3>1, UpFacts
    <3> QED
      BY <2>2, <3>2
  <2>5. b \in Held(f, t)
    <3> SUFFICES ASSUME b \notin Held(f, t) PROVE FALSE
      OBVIOUS
    <3>1. \A y \in Held(f, t) \cap Held(f, u) : u[y] \in Held(f, t)
      BY <1>1, <1>3
    <3>2. Up(f, u, x) \subseteq Held(f, t)
      BY <1>1, <2>1, <3>1, UpFacts
    <3> QED
      BY <2>4, <3>2
  <2>6. n \in Up(f, t, b)
    <3> DEFINE Y == Up(f, u, x) \cup Up(f, t, b)
    <3>1. b \in Up(f, t, b) /\ Up(f, t, b) \subseteq Held(f, t) /\ \A y \in Up(f, t, b) : t[y] \in Up(f, t, b)
      BY <2>5, UpFacts
    <3>2. \A y \in Y \cap Held(f, t) : t[y] \in Y
      BY <1>1, <1>3, <2>3, <3>1
    <3>3. x \in Y
      BY <2>3
    <3> HIDE DEF Y
    <3>4. Up(f, t, x) \subseteq Y
      BY <2>1, <3>2, <3>3, UpFacts
    <3> QED
      BY <2>2, <3>4 DEF Y
  <2>7. Num(f, n) < Num(f, b)
    BY <2>4, <2>5, <2>6, UpwardFacts
  <2>8. Up(f, u, b) \subseteq Up(f, u, x)
    BY <1>1, <2>4, UpwardFacts
  <2> DEFINE W == ReachedWithout(f, n)
  <2>9. b \in W
    BY <1>7, <2>8 DEF Dominates
  <2>10. W \subseteq Reachable(f)
    BY ReachedWithoutFacts DEF GraphHere
  <2>11. ASSUME NEW v \in W, NEW s \in Range(Succ(f, v)), Num(f, s) >= Num(f, b) PROVE s \in W
    <3>1. Num(f, n) \in Nat /\ Num(f, b) \in Nat
      BY <1>0, <1>8, NumberFacts
    <3>2. s # n
      BY <2>7, <2>11, <3>1
    <3> QED
      BY <3>2, ReachedWithoutFacts DEF GraphHere
  <2> HIDE DEF W
  <2>12. x \in W
    BY <1>1, <1>2, <2>4, <2>9, <2>10, <2>11, LeadsDown
  <2> QED
    BY <1>8, <2>12 DEF Dominates, W
<1> QED
  BY <1>7, <1>8 DEF LosesNone, u

-----------------------------------------------------------------------------
\* When no block moves any more.
Fixed(f, t) ==
  /\ Held(f, t) = Reachable(f)
  /\ \A b \in Reachable(f) \ {f.entry} : t[b] = Meet(f, t, b)

\* Every block but the entry has a predecessor that can be reached.
LEMMA FixedFacts ==
  ASSUME NEW f, GraphHere(f), NEW t, IsTree(f, t), Fixed(f, t),
         NEW b \in Reachable(f) \ {f.entry}
  PROVE  /\ Up(f, t, b) = {b} \cup Up(f, t, t[b]) /\ b \notin Up(f, t, t[b])
         /\ t[b] \in Reachable(f)
         /\ \A n : n \in Up(f, t, t[b])
                     <=> \A q \in Range(Pred(f, b)) \cap Reachable(f) : n \in Up(f, t, q)
         /\ \A q \in Range(Pred(f, b)) \cap Reachable(f) : t[b] \in Up(f, t, q)
<1>1. b \in Held(f, t) /\ t[b] \in Held(f, t) /\ Num(f, t[b]) < Num(f, b)
  BY DEF Fixed, IsTree
<1>2. t[b] \in Reachable(f) /\ t[b] = Meet(f, t, b)
  BY <1>1 DEF Fixed
<1>3. Up(f, t, b) = {b} \cup Up(f, t, t[b])
  BY <1>1, UpwardFacts
<1>4. b \notin Up(f, t, t[b])
  <2>1. \A c \in Up(f, t, t[b]) : Num(f, c) <= Num(f, t[b])
    BY <1>1, UpwardFacts
  <2>2. Num(f, b) \in Nat /\ Num(f, t[b]) \in Nat
    BY <1>2, NumberFacts
  <2> QED
    BY <1>1, <2>1, <2>2
<1>5. Range(Pred(f, b)) \cap Held(f, t) # {}
  <2>1. PICK p \in Reachable(f) : b \in Range(Succ(f, p))
    BY NumberFacts
  <2>2. p \in Range(Pred(f, b))
    BY <2>1, GraphFacts DEF GraphHere
  <2> QED
    BY <2>1, <2>2 DEF Fixed
<1>6. \A n : n \in Up(f, t, Meet(f, t, b))
               <=> \A q \in Range(Pred(f, b)) \cap Held(f, t) : n \in Up(f, t, q)
  BY <1>5, NewIdomFacts DEF Meet
<1>7. \A n : n \in Up(f, t, t[b])
               <=> \A q \in Range(Pred(f, b)) \cap Reachable(f) : n \in Up(f, t, q)
  BY <1>2, <1>6 DEF Fixed
<1>8. t[b] \in Up(f, t, t[b])
  BY <1>1, UpFacts
<1> QED
  BY <1>2, <1>3, <1>4, <1>7, <1>8

\* Then the ways up are the sets of dominators.
LEMMA FixedIsExact ==
  ASSUME NEW f, GraphHere(f), NEW t, IsTree(f, t), Fixed(f, t), LosesNone(f, t),
         NEW b \in Reachable(f), NEW n \in Reachable(f)
  PROVE  n \in Up(f, t, b) <=> Dominates(f, n, b)
<1>1. Dominates(f, n, b) => n \in Up(f, t, b)
  BY DEF LosesNone, Fixed
<1>2. ASSUME n \in Up(f, t, b) PROVE b \notin ReachedWithout(f, n)
  <2> DEFINE X == {c \in Reachable(f) : n \notin Up(f, t, c)}
  <2>1. f.entry \in Reachable(f) /\ \A c \in Reachable(f) : Range(Succ(f, c)) \subseteq Reachable(f)
    BY GraphFacts DEF GraphHere
  <2>2. Up(f, t, f.entry) = {f.entry}
    BY <2>1, UpwardFacts DEF Fixed
  <2>3. f.entry # n => f.entry \in X
    BY <2>1, <2>2
  <2>4. ASSUME NEW c \in X, NEW s \in Range(Succ(f, c)), s # n PROVE s \in X
    <3>1. c \in Reachable(f) /\ s \in Reachable(f)
      BY <2>1, <2>4
    <3>2. CASE s = f.entry
      BY <2>3, <2>4, <3>2
    <3>3. CASE s # f.entry
      <4>1. c \in Range(Pred(f, s))
        BY <3>1, GraphFacts DEF GraphHere
      <4>2. n \in Up(f, t, s) <=> n \in Up(f, t, t[s])
        BY <2>4, <3>1, <3>3, FixedFacts
      <4>3. n \in Up(f, t, t[s]) => n \in Up(f, t, c)
        BY <3>1, <3>3, <4>1, FixedFacts
      <4> QED
        BY <2>4, <3>1, <4>2, <4>3
    <3> QED
      BY <3>2, <3>3
  <2> HIDE DEF X
  <2>5. ReachedWithout(f, n) \subseteq X
    BY <2>3, <2>4, ReachedWithoutFacts DEF GraphHere
  <2> QED
    BY <1>2, <2>5 DEF X
<1> QED
  BY <1>1, <1>2 DEF Dominates

\* A runner meets what is on the way up from p but not from the dominator of b.
LEMMA ClimbFacts ==
  ASSUME NEW f, GraphHere(f), NEW t, IsTree(f, t), NEW p \in Held(f, t), NEW b,
         t[b] \in Up(f, t, p)
  PROVE  Climb(f, t, p, b) = Up(f, t, p) \ Up(f, t, t[b])
<1> DEFINE H == Held(f, t)
           d == t[b]
           D == H \X SUBSET H
           step == [r \in Blocks(f) \X SUBSET Blocks(f) |->
                      IF r[1] = d THEN r ELSE <<t[r[1]], r[2] \cup {r[1]}>>]
           a == <<p, {}>>
           m == Len(f.order)
           T(n) == Turned(step, a, n)
           Near(x, n) == x = d \/ Num(f, x) + n <= Num(f, p)
           Split(x, S) == /\ S \cup Up(f, t, x) = Up(f, t, p) /\ S \cap Up(f, t, x) = {}
                          /\ d \in Up(f, t, x)
           OK(r, n) == Near(r[1], n) /\ Split(r[1], r[2])
           N == {n \in Nat : OK(T(n), n)}
<1>1. /\ H \subseteq Blocks(f) /\ H \subseteq Reachable(f) /\ \A c \in H : t[c] \in H
      /\ f.entry \in H
  BY HeldFacts
<1>2. m \in Nat /\ \A c \in H : Num(f, c) \in 1 .. m
  <2>1. /\ Len(RpoOf(f)) \in Nat /\ Len(RpoOf(f)) <= m /\ m \in Nat
        /\ \A c \in H : Num(f, c) \in 1 .. Len(RpoOf(f))
    BY <1>1, NumberFacts
  <2> HIDE DEF m, H
  <2> QED
    BY <2>1
<1>3. ASSUME NEW x \in H, NEW S \in SUBSET H
      PROVE  step[<<x, S>>] = IF x = d THEN <<x, S>> ELSE <<t[x], S \cup {x}>>
  <2>1. <<x, S>> \in Blocks(f) \X SUBSET Blocks(f)
    BY <1>1
  <2> QED
    BY <2>1
<1> HIDE DEF step
<1>4. ASSUME NEW r \in D PROVE step[r] \in D
  <2>1. PICK x \in H, S \in SUBSET H : r = <<x, S>>
    OBVIOUS
  <2>2. t[x] \in H /\ S \cup {x} \in SUBSET H
    BY <1>1
  <2> DEFINE y == t[x]
             U == S \cup {x}
  <2>3. step[r] = <<x, S>> \/ step[r] = <<y, U>>
    BY <1>3, <2>1
  <2> HIDE DEF H, d, y, U
  <2>4. y \in H /\ U \in SUBSET H
    BY <2>2 DEF y, U
  <2> QED
    BY <2>3, <2>4
<1>5. a \in D
  OBVIOUS
<1>6. ASSUME NEW x \in H, NEW S \in SUBSET H, NEW n \in Nat, Near(x, n), Split(x, S)
      PROVE  OK(step[<<x, S>>], n + 1)
  <2>0. \A u, v, k : OK(<<u, v>>, k) <=> Near(u, k) /\ Split(u, v)
    OBVIOUS
  <2>1. CASE x = d
    <3>1. step[<<x, S>>] = <<x, S>> /\ Near(x, n + 1)
      BY <1>3, <2>1
    <3> HIDE DEF OK, Near, Split
    <3> QED
      BY <1>6, <2>0, <3>1
  <2>2. CASE x # d
    <3>1. x # f.entry
      <4>1. Up(f, t, f.entry) = {f.entry}
        BY <1>1, UpwardFacts
      <4> QED
        BY <1>6, <2>2, <4>1
    <3>2. Up(f, t, x) = {x} \cup Up(f, t, t[x])
      BY <3>1, UpwardFacts
    <3>3. Num(f, t[x]) < Num(f, x)
      BY <3>1 DEF IsTree
    <3>4. Num(f, x) \in Nat /\ Num(f, t[x]) \in Nat /\ Num(f, p) \in Nat
      BY <1>1, <1>2
    <3>5. x \notin Up(f, t, t[x])
      <4>1. \A c \in Up(f, t, t[x]) : Num(f, c) <= Num(f, t[x])
        BY <1>1, UpwardFacts
      <4> QED
        BY <3>3, <3>4, <4>1
    <3>6. Near(t[x], n + 1)
      BY <1>6, <2>2, <3>3, <3>4
    <3>7. Split(t[x], S \cup {x})
      <4> HIDE DEF H, d
      <4> QED
        BY <1>6, <2>2, <3>2, <3>5
    <3>8. step[<<x, S>>] = <<t[x], S \cup {x}>>
      BY <1>3, <2>2
    <3> HIDE DEF OK, Near, Split
    <3> QED
      BY <2>0, <3>6, <3>7, <3>8
  <2> HIDE DEF OK, Near, Split
  <2> QED
    BY <2>1, <2>2
<1> HIDE DEF D, a
<1>7. T(0) = a /\ \A n \in Nat : T(n) \in D /\ T(n + 1) = step[T(n)]
  BY <1>4, <1>5, TurnedFacts
<1> HIDE DEF T
<1>8. 0 \in N
  <2>1. Num(f, p) \in Nat
    BY <1>1, <1>2
  <2>2. Near(p, 0) /\ Split(p, {})
    BY <2>1
  <2>3. T(0)[1] = p /\ T(0)[2] = {}
    BY <1>7 DEF a
  <2> HIDE DEF Near, Split
  <2> QED
    BY <2>2, <2>3
<1>9. ASSUME NEW n \in Nat, n \in N PROVE n + 1 \in N
  <2>0. \A u, v, k : OK(<<u, v>>, k) <=> Near(u, k) /\ Split(u, v)
    OBVIOUS
  <2>1. PICK x \in H, S \in SUBSET H : T(n) = <<x, S>>
    <3>1. T(n) \in D
      BY <1>7
    <3> QED
      BY <3>1 DEF D
  <2>2. Near(x, n) /\ Split(x, S)
    <3> HIDE DEF OK, Near, Split
    <3> QED
      BY <1>9, <2>0, <2>1
  <2>3. OK(step[<<x, S>>], n + 1)
    BY <1>6, <2>2
  <2>4. T(n + 1) = step[<<x, S>>] /\ n + 1 \in Nat
    BY <1>7, <2>1
  <2> HIDE DEF OK, Near, Split
  <2> QED
    BY <2>3, <2>4
<1> HIDE DEF N
<1>10. Nat \subseteq N
  BY <1>8, <1>9, NatSetInduction
<1>11. PICK x \in H, S \in SUBSET H : T(m) = <<x, S>>
  <2>1. T(m) \in D
    BY <1>2, <1>7
  <2> QED
    BY <2>1 DEF D
<1>12. Near(x, m) /\ Split(x, S)
  <2>1. OK(T(m), m)
    BY <1>2, <1>10 DEF N
  <2> QED
    BY <1>11, <2>1
<1>13. x = d
  <2>1. Num(f, x) \in 1 .. m /\ Num(f, p) \in 1 .. m
    BY <1>2
  <2> HIDE DEF m
  <2> QED
    BY <1>2, <1>12, <2>1
<1>14. Climb(f, t, p, b) = S
  BY <1>11 DEF Climb, T, step, a
<1> QED
  BY <1>12, <1>13, <1>14

\* The frontiers are those of domination.
LEMMA FrontierFacts ==
  ASSUME NEW f, GraphHere(f), NEW t, IsTree(f, t), Fixed(f, t), LosesNone(f, t),
         Range(f.order) = Reachable(f),
         NEW n \in Reachable(f), NEW y \in Reachable(f) \ {f.entry}
  PROVE  InFrontier(f, t, n, y)
           <=> \E p \in Range(Pred(f, y)) : Dominates(f, n, p) /\ ~StrictlyDominates(f, n, y)
<1> DEFINE P == Range(Pred(f, y))
<1>1. P \subseteq Reachable(f)
  BY GraphFacts DEF GraphHere, Graph, Linked
<1>2. /\ Up(f, t, y) = {y} \cup Up(f, t, t[y]) /\ y \notin Up(f, t, t[y])
      /\ t[y] \in Reachable(f)
      /\ n \in Up(f, t, t[y]) <=> \A q \in P : n \in Up(f, t, q)
      /\ \A q \in P : t[y] \in Up(f, t, q)
  BY <1>1, FixedFacts
<1>3. StrictlyDominates(f, n, y) <=> n \in Up(f, t, t[y])
  <2>1. Dominates(f, n, y) <=> n \in Up(f, t, y)
    BY FixedIsExact
  <2> QED
    BY <1>2, <2>1 DEF StrictlyDominates
<1>4. ASSUME NEW p \in P
      PROVE  n \in Climb(f, t, p, y) <=> Dominates(f, n, p) /\ ~StrictlyDominates(f, n, y)
  <2>1. p \in Held(f, t) /\ p \in Reachable(f)
    BY <1>1 DEF Fixed
  <2>2. Climb(f, t, p, y) = Up(f, t, p) \ Up(f, t, t[y])
    BY <1>2, <2>1, ClimbFacts
  <2>3. n \in Up(f, t, p) <=> Dominates(f, n, p)
    BY <2>1, FixedIsExact
  <2> QED
    BY <1>3, <2>2, <2>3
\* One predecessor alone is the dominator.
<1>5. ASSUME NEW p \in P, Dominates(f, n, p), ~StrictlyDominates(f, n, y)
      PROVE  Len(Pred(f, y)) >= 2
  <2>1. Pred(f, y) \in Seq(Blocks(f)) /\ Len(Pred(f, y)) \in Nat
    BY GraphFacts DEF GraphHere
  <2>2. PICK q \in P : n \notin Up(f, t, q)
    BY <1>2, <1>3, <1>5
  <2>3. n \in Up(f, t, p)
    BY <1>1, <1>5, FixedIsExact
  <2>4. p # q
    BY <2>2, <2>3
  <2> DEFINE s == Pred(f, y)
  <2>5. PICK j \in 1 .. Len(s), k \in 1 .. Len(s) : s[j] = p /\ s[k] = q
    BY <2>1 DEF Range
  <2> HIDE DEF s
  <2>6. j # k
    BY <2>4, <2>5
  <2> QED
    BY <2>1, <2>5, <2>6 DEF s
<1> HIDE DEF P
<1> QED
  BY <1>4, <1>5 DEF InFrontier, P

-----------------------------------------------------------------------------
\* Before the first round only the entry has been reached.
LEMMA StartFacts ==
  ASSUME NEW f, GraphHere(f),
         NEW t, t = [b \in Blocks(f) |-> IF b = f.entry THEN b ELSE NoBlock]
  PROVE  IsTree(f, t) /\ Leads(f, t) /\ LosesNone(f, t)
<1>1. f.entry \in Reachable(f) /\ Reachable(f) \subseteq Blocks(f) /\ f.entry \in Blocks(f)
  BY GraphFacts DEF GraphHere
<1>2. Held(f, t) = {f.entry}
  BY <1>1 DEF Held, GraphHere
<1>3. IsTree(f, t)
  BY <1>1, <1>2 DEF IsTree
<1>4. Leads(f, t)
  BY <1>2 DEF Leads
<1>5. LosesNone(f, t)
  <2>1. Up(f, t, f.entry) = {f.entry}
    BY <1>2, <1>3, UpwardFacts
  <2>2. \A n \in Reachable(f) : Dominates(f, n, f.entry) => n = f.entry
    BY ReachedWithoutFacts DEF Dominates, GraphHere
  <2> QED
    BY <1>2, <2>1, <2>2 DEF LosesNone
<1> QED
  BY <1>3, <1>4, <1>5

\* In a round every block is ready when its turn comes.
LEMMA ReadyFacts ==
  ASSUME NEW f, GraphHere(f), NEW t, NEW k \in 1 .. Len(RpoOf(f)), RpoOf(f)[k] # f.entry,
         \A j \in 1 .. Len(RpoOf(f)) : j < k => RpoOf(f)[j] \in Held(f, t)
  PROVE  Ready(f, t, RpoOf(f)[k])
<1> DEFINE b == RpoOf(f)[k]
<1>1. b \in Reachable(f) /\ Num(f, b) = k
  BY NumberFacts
<1>2. PICK p \in Reachable(f) : b \in Range(Succ(f, p)) /\ Num(f, p) < Num(f, b)
  BY <1>1, NumberFacts
<1>3. Num(f, p) \in 1 .. Len(RpoOf(f)) /\ RpoOf(f)[Num(f, p)] = p
  BY NumberFacts
<1>4. p \in Held(f, t)
  BY <1>1, <1>2, <1>3
<1>5. p \in Range(Pred(f, b))
  BY <1>2, GraphFacts DEF GraphHere
<1> QED
  BY <1>1, <1>2, <1>4, <1>5 DEF Ready

\* The claim of FrontiersExact about a graph and the frontiers of its blocks.
Exact(f, d) ==
  \A n \in Reachable(f), y \in Reachable(f) \ {f.entry} :
    y \in d[n] <=> \E p \in Range(Pred(f, y)) :
                      Dominates(f, n, p) /\ ~StrictlyDominates(f, n, y)

\* It is about the blocks and their edges only.
GraphReach(B, e, m) ==
  LET reach[n \in Nat] ==
        IF n = 0 THEN {e}
        ELSE LET R == reach[n - 1] IN R \cup UNION {Range(B[b].succ) : b \in R}
  IN  reach[m]
GraphReachWithout(B, e, m, n) ==
  Turned([R \in SUBSET DOMAIN B |-> R \cup ((UNION {Range(B[b].succ) : b \in R}) \ {n})],
         {e} \ {n}, m)

LEMMA ExactlyTheGraph ==
  ASSUME NEW f, NEW g, NEW d, Exact(f, d),
         g.entry = f.entry, g.order = f.order, g.block = f.block
  PROVE  Exact(g, d)
<1>1. \A h : Reachable(h) = GraphReach(h.block, h.entry, Len(h.order))
  BY DEF Reachable, GraphReach, Succ
<1>2. \A h, n : ReachedWithout(h, n) = GraphReachWithout(h.block, h.entry, Len(h.order), n)
  BY DEF ReachedWithout, GraphReachWithout, Succ, Blocks
<1>3. Reachable(g) = Reachable(f)
  BY <1>1
<1>4. \A n : ReachedWithout(g, n) = ReachedWithout(f, n)
  BY <1>2
<1>5. \A n, b : Dominates(g, n, b) <=> Dominates(f, n, b)
  BY <1>4 DEF Dominates
<1>6. \A n, b : StrictlyDominates(g, n, b) <=> StrictlyDominates(f, n, b)
  BY <1>5 DEF StrictlyDominates
<1>7. \A y : Pred(g, y) = Pred(f, y)
  BY DEF Pred
<1> QED
  BY <1>3, <1>5, <1>6, <1>7 DEF Exact

-----------------------------------------------------------------------------
\* The rounds over the tree: no true dominator is ever lost, every block whose
\* turn has come is held, and while nothing has changed in this round the
\* blocks that had their turn stand where their predecessors meet.
Rounds ==
  /\ fn \in Functions /\ at \in Nat \ {0} /\ changed \in BOOLEAN
  /\ IsTree(fn, idom) /\ Leads(fn, idom) /\ LosesNone(fn, idom)
  /\ \A j \in 1 .. Len(RpoOf(fn)) : j < at => RpoOf(fn)[j] \in Held(fn, idom)
  /\ ~changed => \A j \in 1 .. Len(RpoOf(fn)) : j < at =>
                    \/ RpoOf(fn)[j] = fn.entry
                    \/ idom[RpoOf(fn)[j]] = Meet(fn, idom, RpoOf(fn)[j])
  /\ df = [b \in Blocks(fn) |-> {}]

\* The collection of the frontiers: the tree stands still, and the blocks that
\* had their turn are in the frontiers they belong to.
Gathered(f, t, d, k) ==
  \A n \in Blocks(f) : \A y : y \in d[n] <=>
    \E j \in 1 .. Len(f.order) : j < k /\ f.order[j] = y /\ InFrontier(f, t, n, y)

Gathering ==
  /\ fn \in Functions /\ at \in Nat \ {0}
  /\ IsTree(fn, idom) /\ LosesNone(fn, idom) /\ Fixed(fn, idom)
  /\ Range(fn.order) = Reachable(fn)
  /\ df \in [Blocks(fn) -> SUBSET Blocks(fn)]
  /\ Gathered(fn, idom, df, at)

IsRecord(f) == DOMAIN f = {"entry", "order", "block", "code", "users"}

DominanceInv ==
  /\ pc = "idoms" => Rounds
  /\ pc = "frontiers" => Gathering
  /\ pc = "phis" => IsRecord(fn) /\ Exact(fn, df)

LEMMA FunctionFacts ==
  ASSUME NEW f \in Functions
  PROVE  GraphHere(f) /\ IsRecord(f)
BY FunctionsAssumption DEF GraphHere, Graph, IsRecord, IsFunction

LEMMA DominanceInit == Init => DominanceInv
<1> SUFFICES ASSUME Init PROVE DominanceInv
  OBVIOUS
<1>1. fn \in Functions /\ GraphHere(fn)
  BY FunctionFacts DEF Init
<1>2. IsTree(fn, idom) /\ Leads(fn, idom) /\ LosesNone(fn, idom)
  BY <1>1, StartFacts DEF Init
<1>3. Rounds
  <2>1. Len(RpoOf(fn)) \in Nat
    BY <1>1, NumberFacts
  <2>2. \A j \in 1 .. Len(RpoOf(fn)) : ~(j < 1)
    BY <2>1
  <2>3. at = 1 /\ at \in Nat \ {0} /\ changed = FALSE /\ df = [b \in Blocks(fn) |-> {}]
    BY DEF Init
  <2> QED
    BY <1>1, <1>2, <2>2, <2>3 DEF Rounds
<1> QED
  BY <1>3 DEF Init, DominanceInv

LEMMA DominanceComputeIdom == DominanceInv /\ ComputeIdom => DominanceInv'
<1> SUFFICES ASSUME DominanceInv, ComputeIdom PROVE DominanceInv'
  OBVIOUS
<1> DEFINE b == RpoOf(fn)[at]
           L == Len(RpoOf(fn))
<1>1. Rounds /\ pc = "idoms" /\ pc' = "idoms" /\ at' = at + 1 /\ fn' = fn /\ df' = df
  BY DEF DominanceInv, ComputeIdom
<1>2. fn \in Functions /\ GraphHere(fn) /\ at \in Nat \ {0}
  BY <1>1, FunctionFacts DEF Rounds
<1>3. L \in Nat /\ at \in 1 .. L
  <2>1. L \in Nat
    BY <1>2, NumberFacts
  <2>2. at <= L
    BY DEF ComputeIdom, Rpo, RpoOf
  <2> HIDE DEF L
  <2> QED
    BY <1>2, <2>1, <2>2
<1>4. /\ b = fn.entry => idom' = idom
      /\ b # fn.entry => idom' = Updated(fn, idom, b)
      /\ changed' = (changed \/ idom' # idom)
  BY DEF ComputeIdom, Rpo, RpoOf, Updated, Meet
<1>5. IsTree(fn, idom) /\ Leads(fn, idom) /\ LosesNone(fn, idom)
  BY <1>1 DEF Rounds
<1>6. \A j \in 1 .. L : j < at => RpoOf(fn)[j] \in Held(fn, idom)
  BY <1>1 DEF Rounds
<1>7. b \in Reachable(fn) /\ fn.entry \in Held(fn, idom)
  BY <1>2, <1>3, <1>5, NumberFacts, HeldFacts
<1>8. ASSUME b # fn.entry PROVE Ready(fn, idom, b)
  BY <1>2, <1>3, <1>6, <1>8, ReadyFacts
<1> HIDE DEF b
<1>9. /\ IsTree(fn, idom') /\ Leads(fn, idom') /\ LosesNone(fn, idom')
      /\ Held(fn, idom') = Held(fn, idom) \cup {b}
  <2>1. CASE b = fn.entry
    BY <1>4, <1>5, <1>7, <2>1
  <2>2. CASE b # fn.entry
    <3>1. Leads(fn, Updated(fn, idom, b))
      BY <1>2, <1>5, <1>8, <2>2, UpdateKeepsLeads
    <3>2. LosesNone(fn, Updated(fn, idom, b))
      BY <1>2, <1>5, <1>8, <2>2, UpdateLosesNone
    <3>3. /\ IsTree(fn, Updated(fn, idom, b))
          /\ Held(fn, Updated(fn, idom, b)) = Held(fn, idom) \cup {b}
      BY <1>2, <1>5, <1>8, <2>2, UpdateFacts
    <3> QED
      BY <1>4, <2>2, <3>1, <3>2, <3>3
  <2> QED
    BY <2>1, <2>2
<1> HIDE DEF L
<1>10. \A j \in 1 .. L : j < at + 1 => j < at \/ j = at
  BY <1>2, <1>3
<1>11. \A j \in 1 .. L : j < at + 1 => RpoOf(fn)[j] \in Held(fn, idom')
  BY <1>6, <1>9, <1>10 DEF b
<1>12. ASSUME ~changed', NEW j \in 1 .. L, j < at + 1
       PROVE  RpoOf(fn)[j] = fn.entry \/ idom'[RpoOf(fn)[j]] = Meet(fn, idom', RpoOf(fn)[j])
  <2>1. ~changed /\ idom' = idom
    BY <1>4, <1>12
  <2>2. CASE j < at
    BY <1>1, <2>1, <2>2 DEF Rounds, L
  <2>3. CASE j = at /\ b # fn.entry
    <3>1. Updated(fn, idom, b)[b] = Meet(fn, idom, b)
      BY <1>2, <1>5, <1>8, <2>3, UpdateFacts
    <3> QED
      BY <1>4, <2>1, <2>3, <3>1 DEF b
  <2> QED
    BY <1>10, <1>12, <2>2, <2>3 DEF b
<1>13. changed' \in BOOLEAN
  BY <1>1, <1>4 DEF Rounds
<1>14. df' = [x \in Blocks(fn) |-> {}]
  BY <1>1 DEF Rounds
<1>15. at + 1 \in Nat \ {0}
  BY <1>2
<1>16. Rounds'
  BY <1>1, <1>2, <1>9, <1>11, <1>12, <1>13, <1>14, <1>15 DEF Rounds, L
<1> QED
  BY <1>1, <1>16 DEF DominanceInv

LEMMA DominanceIdomRoundDone == DominanceInv /\ IdomRoundDone => DominanceInv'
<1> SUFFICES ASSUME DominanceInv, IdomRoundDone PROVE DominanceInv'
  OBVIOUS
<1> DEFINE L == Len(RpoOf(fn))
<1>1. /\ Rounds /\ pc = "idoms" /\ at' = 1 /\ changed' = FALSE
      /\ fn' = fn /\ df' = df /\ idom' = idom
  BY DEF DominanceInv, IdomRoundDone
<1>2. fn \in Functions /\ GraphHere(fn) /\ at \in Nat \ {0}
  BY <1>1, FunctionFacts DEF Rounds
<1>3. L \in Nat /\ at > L
  BY <1>2, NumberFacts DEF IdomRoundDone, Rpo, RpoOf
<1>4. \A j \in 1 .. L : ~(j < 1) /\ j < at
  <2> HIDE DEF L
  <2> QED
    BY <1>2, <1>3
<1>5. IsTree(fn, idom) /\ Leads(fn, idom) /\ LosesNone(fn, idom)
  BY <1>1 DEF Rounds
<1> HIDE DEF L
<1>6. CASE changed
  <2>1. pc' = "idoms"
    BY <1>6 DEF IdomRoundDone
  <2>2. 1 \in Nat \ {0}
    OBVIOUS
  <2>3. df = [b \in Blocks(fn) |-> {}]
    BY <1>1 DEF Rounds
  <2>4. Rounds'
    BY <1>1, <1>2, <1>4, <1>5, <2>2, <2>3 DEF Rounds, L
  <2> QED
    BY <2>1, <2>4 DEF DominanceInv
<1>7. CASE ~changed /\ NoBlock \in {idom[b] : b \in Range(fn.order)}
  BY <1>7 DEF IdomRoundDone, DominanceInv
<1>8. CASE ~changed /\ NoBlock \notin {idom[b] : b \in Range(fn.order)}
  <2>1. pc' = "frontiers"
    BY <1>8 DEF IdomRoundDone
  <2>2. /\ \A b \in Reachable(fn) : \E j \in 1 .. L : RpoOf(fn)[j] = b
    BY <1>2, NumberFacts DEF L
  <2>3. Held(fn, idom) = Reachable(fn)
    <3>1. \A j \in 1 .. L : RpoOf(fn)[j] \in Held(fn, idom)
      BY <1>1, <1>4 DEF Rounds, L
    <3>2. Held(fn, idom) \subseteq Reachable(fn)
      BY <1>2, <1>5, HeldFacts
    <3> QED
      BY <2>2, <3>1, <3>2
  <2>4. \A b \in Reachable(fn) \ {fn.entry} : idom[b] = Meet(fn, idom, b)
    BY <1>1, <1>4, <1>8, <2>2 DEF Rounds, L
  <2>5. Fixed(fn, idom)
    BY <2>3, <2>4 DEF Fixed
  <2>6. Range(fn.order) = Reachable(fn)
    <3>1. Reachable(fn) \subseteq Range(fn.order) /\ Range(fn.order) \subseteq Blocks(fn)
      BY <1>2, GraphFacts DEF GraphHere
    <3>2. ASSUME NEW b \in Range(fn.order) PROVE b \in Reachable(fn)
      <4>1. idom[b] # NoBlock
        BY <1>8
      <4> QED
        BY <1>5, <3>1, <4>1 DEF IsTree
    <3> QED
      BY <3>1, <3>2
  <2>7. df = [b \in Blocks(fn) |-> {}]
    BY <1>1 DEF Rounds
  <2>8. df \in [Blocks(fn) -> SUBSET Blocks(fn)]
    BY <2>7
  <2>9. Gathered(fn, idom, df, 1)
    <3>1. Len(fn.order) \in Nat
      BY <1>2, GraphFacts DEF GraphHere
    <3>2. \A j \in 1 .. Len(fn.order) : ~(j < 1)
      BY <3>1
    <3> QED
      BY <2>7, <3>2 DEF Gathered
  <2>10. 1 \in Nat \ {0}
    OBVIOUS
  <2>11. Gathering'
    BY <1>1, <1>2, <1>5, <2>5, <2>6, <2>8, <2>9, <2>10 DEF Gathering
  <2> QED
    BY <2>1, <2>11 DEF DominanceInv
<1> QED
  BY <1>6, <1>7, <1>8

LEMMA DominanceComputeFrontier == DominanceInv /\ ComputeFrontier => DominanceInv'
<1> SUFFICES ASSUME DominanceInv, ComputeFrontier PROVE DominanceInv'
  OBVIOUS
<1> DEFINE b == fn.order[at]
           L == Len(fn.order)
<1>1. /\ Gathering /\ pc' = "frontiers" /\ at' = at + 1 /\ fn' = fn /\ idom' = idom
      /\ at <= L
      /\ df' = [n \in Blocks(fn) |->
                  IF InFrontier(fn, idom, n, b) THEN df[n] \cup {b} ELSE df[n]]
  BY DEF DominanceInv, ComputeFrontier
<1>2. /\ fn \in Functions /\ GraphHere(fn) /\ at \in Nat \ {0}
      /\ df \in [Blocks(fn) -> SUBSET Blocks(fn)] /\ Gathered(fn, idom, df, at)
  BY <1>1, FunctionFacts DEF Gathering
<1>3. L \in Nat /\ fn.order \in Seq(Blocks(fn))
  BY <1>2, FunctionParts DEF GraphHere, Graph
<1>4. at \in 1 .. L /\ at + 1 \in Nat \ {0}
  <2> HIDE DEF L
  <2> QED
    BY <1>1, <1>2, <1>3
<1>5. b \in Blocks(fn)
  BY <1>3, <1>4
<1>6. df' \in [Blocks(fn) -> SUBSET Blocks(fn)]
  <2> HIDE DEF b
  <2> QED
    BY <1>1, <1>2, <1>5
<1>7. Gathered(fn, idom, df', at + 1)
  <2> SUFFICES ASSUME NEW n \in Blocks(fn), NEW y
               PROVE  y \in df'[n] <=> \E j \in 1 .. L :
                        j < at + 1 /\ fn.order[j] = y /\ InFrontier(fn, idom, n, y)
    BY DEF Gathered
  <2>1. y \in df[n] <=> \E j \in 1 .. L :
                          j < at /\ fn.order[j] = y /\ InFrontier(fn, idom, n, y)
    BY <1>2 DEF Gathered
  <2>2. y \in df'[n] <=> y \in df[n] \/ (y = b /\ InFrontier(fn, idom, n, b))
    <3> HIDE DEF b
    <3> QED
      BY <1>1
  <2> HIDE DEF L
  <2>3. \A j \in 1 .. L : j < at + 1 <=> j < at \/ j = at
    BY <1>3, <1>4
  <2> QED
    BY <1>4, <2>1, <2>2, <2>3
<1>8. Gathering'
  <2> HIDE DEF b, L
  <2> QED
    BY <1>1, <1>2, <1>4, <1>6, <1>7 DEF Gathering
<1> QED
  BY <1>1, <1>8 DEF DominanceInv

LEMMA DominanceFrontiersDone == DominanceInv /\ FrontiersDone => DominanceInv'
<1> SUFFICES ASSUME DominanceInv, FrontiersDone PROVE DominanceInv'
  OBVIOUS
<1> DEFINE L == Len(fn.order)
<1>1. /\ Gathering /\ pc' = "phis" /\ fn' = fn /\ df' = df /\ at > L
  BY DEF DominanceInv, FrontiersDone
<1>2. /\ fn \in Functions /\ GraphHere(fn) /\ IsRecord(fn) /\ at \in Nat \ {0}
      /\ IsTree(fn, idom) /\ LosesNone(fn, idom) /\ Fixed(fn, idom)
      /\ Range(fn.order) = Reachable(fn) /\ Gathered(fn, idom, df, at)
  BY <1>1, FunctionFacts DEF Gathering
<1>3. L \in Nat /\ Reachable(fn) \subseteq Blocks(fn) /\ DOMAIN fn.order = 1 .. L
  BY <1>2, GraphFacts, FunctionParts DEF GraphHere, Graph
<1>4. Exact(fn, df)
  <2> SUFFICES ASSUME NEW n \in Reachable(fn), NEW y \in Reachable(fn) \ {fn.entry}
               PROVE  y \in df[n] <=> \E p \in Range(Pred(fn, y)) :
                        Dominates(fn, n, p) /\ ~StrictlyDominates(fn, n, y)
    BY DEF Exact
  <2>1. y \in df[n] <=> \E j \in 1 .. L :
                          j < at /\ fn.order[j] = y /\ InFrontier(fn, idom, n, y)
    BY <1>2, <1>3 DEF Gathered
  <2>2. PICK j \in 1 .. L : fn.order[j] = y
    BY <1>2, <1>3 DEF Range
  <2>3. j < at
    <3> HIDE DEF L
    <3> QED
      BY <1>1, <1>2, <1>3
  <2>4. y \in df[n] <=> InFrontier(fn, idom, n, y)
    BY <2>1, <2>2, <2>3
  <2> QED
    BY <1>2, <2>4, FrontierFacts
<1> QED
  BY <1>1, <1>2, <1>4 DEF DominanceInv

LEMMA DominanceInsertPhis == DominanceInv /\ InsertPhis => DominanceInv'
<1> SUFFICES ASSUME DominanceInv, InsertPhis PROVE DominanceInv'
  OBVIOUS
<1>1. pc = "phis" /\ pc' = "phis" /\ df' = df /\ IsRecord(fn) /\ Exact(fn, df)
  BY DEF DominanceInv, InsertPhis
<1>2. \E c, u : fn' = [fn EXCEPT !.code = c, !.users = u]
  BY DEF InsertPhis
<1>3. IsRecord(fn') /\ fn'.entry = fn.entry /\ fn'.order = fn.order /\ fn'.block = fn.block
  BY <1>1, <1>2 DEF IsRecord
<1>4. Exact(fn', df)
  BY <1>1, <1>3, ExactlyTheGraph
<1> QED
  BY <1>1, <1>3, <1>4 DEF DominanceInv

\* What a step leaves of the dominators.
LEMMA DominanceStep ==
  DominanceInv /\ [Next]_vars => DominanceInv'
<1> SUFFICES ASSUME DominanceInv, [Next]_vars PROVE DominanceInv'
  OBVIOUS
<1>1. CASE ComputeIdom
  BY <1>1, DominanceComputeIdom
<1>2. CASE IdomRoundDone
  BY <1>2, DominanceIdomRoundDone
<1>3. CASE ComputeFrontier
  BY <1>3, DominanceComputeFrontier
<1>4. CASE FrontiersDone
  BY <1>4, DominanceFrontiersDone
<1>5. CASE InsertPhis
  BY <1>5, DominanceInsertPhis
<1>6. CASE StartRename
  BY <1>6 DEF StartRename, DominanceInv
<1>7. CASE KeepInstr \/ DropAlloca \/ DropStore \/ DropLoad \/ WireSuccessors \/ RenameChild
  <2>1. pc' = "rename"
    BY <1>7 DEF KeepInstr, DropAlloca, DropStore, DropLoad, WireSuccessors, RenameChild,
                InBody, InCall
  <2> QED
    BY <2>1 DEF DominanceInv
<1>8. CASE Return
  BY <1>8 DEF Return, InCall, DominanceInv
<1>9. CASE AddPhiInstrs \/ verify_ssa
  BY <1>9 DEF AddPhiInstrs, verify_ssa, DominanceInv
<1>10. CASE UNCHANGED vars
  BY <1>10 DEF vars, DominanceInv, Rounds, Gathering
<1> QED
  BY <1>1, <1>2, <1>3, <1>4, <1>5, <1>6, <1>7, <1>8, <1>9, <1>10 DEF Next

THEOREM DominanceInvariant == Spec => []DominanceInv
<1>1. Init => DominanceInv
  BY DominanceInit
<1>2. DominanceInv /\ [Next]_vars => DominanceInv'
  BY DominanceStep
<1> QED
  BY <1>1, <1>2, PTL DEF Spec

\* While the dominator tree of mem2reg is being built, whatever the order of
\* the blocks and however the edges of loops mislead the first rounds, no true
\* dominator of a block that has been reached is missing above it.
THEOREM NoDominatorIsLost == Spec => []DominatorsNeverLost
<1>1. DominanceInv => DominatorsNeverLost
  <2> SUFFICES ASSUME Rounds, NEW b \in Reachable(fn), idom[b] # NoBlock,
                      NEW n \in Reachable(fn), Dominates(fn, n, b)
               PROVE  n \in Chain(b)
    BY DEF DominanceInv, DominatorsNeverLost
  <2>1. n \in Up(fn, idom, b)
    BY DEF Rounds, LosesNone, Held
  <2>2. Chain(b) = Up(fn, idom, b)
    BY DEF Chain, Up
  <2> QED
    BY <2>1, <2>2
<1> QED
  BY <1>1, DominanceInvariant, PTL

\* When a round changes nothing, the blocks above a block in the tree are its
\* dominators, in every graph.
THEOREM DominatorTreeIsExact == Spec => []DominatorsExact
<1>1. DominanceInv => DominatorsExact
  <2> SUFFICES ASSUME Gathering, NEW b \in Reachable(fn), NEW n \in Reachable(fn)
               PROVE  n \in Chain(b) <=> Dominates(fn, n, b)
    BY DEF DominanceInv, DominatorsExact
  <2>1. GraphHere(fn) /\ IsTree(fn, idom) /\ LosesNone(fn, idom) /\ Fixed(fn, idom)
    BY FunctionFacts DEF Gathering
  <2>2. n \in Up(fn, idom, b) <=> Dominates(fn, n, b)
    BY <2>1, FixedIsExact
  <2>3. Chain(b) = Up(fn, idom, b)
    BY DEF Chain, Up
  <2> QED
    BY <2>2, <2>3
<1> QED
  BY <1>1, DominanceInvariant, PTL

\* While phis are being inserted, the frontier of a block is the set of the
\* blocks at which its domination ends.
THEOREM FrontiersAreExact == Spec => []FrontiersExact
<1>1. DominanceInv => FrontiersExact
  BY DEF DominanceInv, Exact, FrontiersExact
<1> QED
  BY <1>1, DominanceInvariant, PTL

-----------------------------------------------------------------------------
\* What the steps that rewrite the function leave as it was.

\* The parts of a function whose instructions are numbered.
LEMMA NumberedFacts ==
  ASSUME NEW f, IsFunction(f), NEW n \in Nat, Instrs(f) = 1 .. n,
         NEW T, f.code \in [1 .. n -> T]
  PROVE  Numbered(f)
<1>1. f.code \in Seq(T) /\ DOMAIN f.code = 1 .. n
  BY FunctionIsSeq
<1>2. f.users \in [1 .. n -> Seq(Instrs(f))]
  BY FunctionParts
<1>3. \A i \in 1 .. n : f.code[i] \in Range(f.code) /\ f.users[i] \in Range(f.users)
  BY <1>1, <1>2 DEF Range
<1>4. f.code \in [1 .. n -> Range(f.code)]
  BY <1>3
<1>5. f.users \in [1 .. n -> Range(f.users)]
  BY <1>2, <1>3
<1> QED
  BY <1>4, <1>5, FunctionIsSeq DEF Numbered

\* What numbering means for the lists of code and of users.
LEMMA NumberedParts ==
  ASSUME NEW f, IsFunction(f), Numbered(f)
  PROVE  /\ Len(f.code) \in Nat /\ Instrs(f) = 1 .. Len(f.code)
         /\ Len(f.users) = Len(f.code)
         /\ f.code \in Seq(Range(f.code)) /\ f.users \in Seq(Seq(Instrs(f)))
<1>1. f.code \in Seq(Range(f.code)) /\ f.users \in Seq(Range(f.users))
  BY DEF Numbered
<1>2. Len(f.code) \in Nat /\ Instrs(f) = 1 .. Len(f.code)
  BY <1>1 DEF Instrs
<1>3. f.users \in [1 .. Len(f.code) -> Seq(Instrs(f))]
  BY <1>2, FunctionParts
<1> QED
  BY <1>1, <1>2, <1>3, FunctionIsSeq

\* Loads and stores have the operands that they are built with.
CodeFits(f) ==
  /\ IsFunction(f) /\ Numbered(f) /\ CellsAreNamed(f)
  /\ \A i \in Instrs(f) : /\ f.code[i].op = "load" => Len(f.code[i].args) = 1
                          /\ f.code[i].op = "store" => Len(f.code[i].args) = 2

\* The operands of a load and of a store.
LEMMA OperandsFit ==
  ASSUME NEW f, CodeFits(f), NEW i \in Instrs(f), f.code[i].op \in {"load", "store"}
  PROVE  /\ f.code[i].args \in Seq(Instrs(f)) /\ Len(f.code[i].args) \in {1, 2}
         /\ f.code[i].args[1] \in Instrs(f)
         /\ f.code[f.code[i].args[1]].op \in {"alloca", "param"}
         /\ f.code[i].op = "store" => f.code[i].args[2] \in Instrs(f)
<1>1. f.code[i].args \in Seq(Instrs(f))
  BY FunctionParts DEF CodeFits, IsCode
<1>2. /\ f.code[i].op = "load" => Len(f.code[i].args) = 1
      /\ f.code[i].op = "store" => Len(f.code[i].args) = 2
      /\ f.code[f.code[i].args[1]].op \in {"alloca", "param"}
  BY DEF CodeFits, CellsAreNamed
<1> QED
  BY <1>1, <1>2

\* Instruction d accesses memory as c does.
SameAccess(c, d) ==
  /\ d.op = c.op
  /\ c.op \in {"load", "store"} => Len(d.args) = Len(c.args) /\ d.args[1] = c.args[1]

\* What no step of the pass changes.
Keeps(f, g) ==
  /\ IsFunction(g) /\ Numbered(g)
  /\ g.entry = f.entry /\ g.order = f.order /\ Blocks(g) = Blocks(f)
  /\ Instrs(f) \subseteq Instrs(g)
  /\ \A i \in Instrs(f) : SameAccess(f.code[i], g.code[i])
  /\ \A i \in Instrs(g) \ Instrs(f) : IsPhi(g, i)

\* A step that keeps the code keeps what CodeFits says of it.
LEMMA KeepsFits ==
  ASSUME NEW f, CodeFits(f), NEW g, Keeps(f, g)
  PROVE  CodeFits(g)
<1>1. ASSUME NEW i \in Instrs(g), g.code[i].op \in {"load", "store"}
      PROVE  /\ g.code[g.code[i].args[1]].op \in {"alloca", "param"}
             /\ g.code[i].op = "load" => Len(g.code[i].args) = 1
             /\ g.code[i].op = "store" => Len(g.code[i].args) = 2
  <2>1. i \in Instrs(f)
    BY <1>1 DEF Keeps, IsPhi
  <2>2. SameAccess(f.code[i], g.code[i])
    BY <2>1 DEF Keeps
  <2>3. /\ f.code[i].op \in {"load", "store"} /\ g.code[i].op = f.code[i].op
        /\ g.code[i].args[1] = f.code[i].args[1]
        /\ Len(g.code[i].args) = Len(f.code[i].args)
    BY <1>1, <2>2 DEF SameAccess
  <2>4. f.code[i].args[1] \in Instrs(f) /\ f.code[f.code[i].args[1]].op \in {"alloca", "param"}
    BY <2>1, <2>3, OperandsFit
  <2>5. SameAccess(f.code[f.code[i].args[1]], g.code[f.code[i].args[1]])
    BY <2>4 DEF Keeps
  <2> QED
    BY <2>1, <2>3, <2>4, <2>5 DEF SameAccess, CodeFits
<1> QED
  BY <1>1 DEF CodeFits, CellsAreNamed, Keeps

\* What IsCode asks of an instruction, given the blocks and instructions.
Shaped(c, B, I) ==
  /\ DOMAIN c = {"op", "ty", "args", "k", "tgt", "inc", "parent"}
  /\ c.op \in Ops /\ IsType(c.ty)
  /\ c.args \in Seq(I) /\ c.k \in Int
  /\ DOMAIN c.inc \subseteq B /\ Range(c.inc) \subseteq I
  /\ c.parent \in B

\* The records that a block is.
BlocksOf(B, I) == [ins : Seq(I), succ : Seq(B), pred : Seq(B)]

\* The parts of a function as the lemmas on its rewrites need them.
LEMMA CodeParts ==
  ASSUME NEW f, CodeFits(f)
  PROVE  /\ IsRecord(f) /\ f.entry \in Blocks(f) /\ f.order \in Seq(Blocks(f))
         /\ Len(f.code) \in Nat /\ Instrs(f) = 1 .. Len(f.code)
         /\ f.code \in Seq(Range(f.code)) /\ f.users \in Seq(Seq(Instrs(f)))
         /\ Len(f.users) = Len(f.code)
         /\ f.code \in [Instrs(f) -> Range(f.code)]
         /\ f.users \in [Instrs(f) -> Seq(Instrs(f))]
         /\ f.block \in [Blocks(f) -> BlocksOf(Blocks(f), Instrs(f))]
         /\ \A i \in Instrs(f) : Shaped(f.code[i], Blocks(f), Instrs(f))
<1>1. IsFunction(f) /\ Numbered(f)
  BY DEF CodeFits
<1>2. \A i \in Instrs(f) : IsCode(f, i)
  BY <1>1, FunctionParts
<1>3. f.code \in [Instrs(f) -> Range(f.code)]
  BY <1>1, NumberedParts
<1> QED
  BY <1>1, <1>2, <1>3, NumberedParts, FunctionParts DEF IsRecord, IsCode, Shaped, BlocksOf

\* What is put together from parts of the right shape is a function.
LEMMA RebuiltFacts ==
  ASSUME NEW f, CodeFits(f), NEW g, IsRecord(g), g.entry = f.entry, g.order = f.order,
         NEW n \in Nat, Instrs(f) \subseteq 1 .. n,
         NEW T, g.code \in [1 .. n -> T], g.users \in [1 .. n -> Seq(1 .. n)],
         g.block \in [Blocks(f) -> BlocksOf(Blocks(f), 1 .. n)],
         \A i \in 1 .. n : Shaped(g.code[i], Blocks(f), 1 .. n),
         \A i \in Instrs(f) : SameAccess(f.code[i], g.code[i]),
         \A i \in 1 .. n : i \notin Instrs(f) => g.code[i].op = "phi"
  PROVE  Keeps(f, g)
<1>1. f.entry \in Blocks(f) /\ f.order \in Seq(Blocks(f))
  BY CodeParts
<1>2. Blocks(g) = Blocks(f) /\ Instrs(g) = 1 .. n
  BY DEF Blocks, Instrs
<1>3. \A i \in 1 .. n : IsCode(g, i)
  BY <1>2 DEF IsCode, Shaped
<1>4. IsFunction(g)
  BY <1>1, <1>2, <1>3 DEF IsFunction, IsRecord, BlocksOf
<1>5. Numbered(g)
  BY <1>2, <1>4, NumberedFacts
<1> QED
  BY <1>2, <1>4, <1>5 DEF Keeps, IsPhi

\* The same, when it has no instruction that is new.
LEMMA RewrittenFacts ==
  ASSUME NEW f, CodeFits(f), NEW g, IsRecord(g), g.entry = f.entry, g.order = f.order,
         NEW T, g.code \in [Instrs(f) -> T], g.users \in [Instrs(f) -> Seq(Instrs(f))],
         g.block \in [Blocks(f) -> BlocksOf(Blocks(f), Instrs(f))],
         \A i \in Instrs(f) : /\ Shaped(g.code[i], Blocks(f), Instrs(f))
                              /\ SameAccess(f.code[i], g.code[i])
  PROVE  Keeps(f, g)
<1> DEFINE n == Len(f.code)
<1>1. n \in Nat /\ Instrs(f) = 1 .. n
  BY CodeParts
<1> HIDE DEF n
<1>2. \A i \in 1 .. n : i \in Instrs(f)
  BY <1>1
<1> QED
  BY <1>1, <1>2, RebuiltFacts

\* An instruction is taken out of its block, and off the users of what it reads.
LEMMA WithoutFacts ==
  ASSUME NEW f, CodeFits(f), NEW b \in Blocks(f), NEW i \in Instrs(f)
  PROVE  LET g == WithoutInstr(f, b, i)
         IN  /\ Keeps(f, g) /\ g.code = f.code
             /\ Ins(g, b) = Filtered(Ins(f, b), Instrs(f) \ {i})
             /\ \A c \in Blocks(f) : c # b => Ins(g, c) = Ins(f, c)
<1> DEFINE g == WithoutInstr(f, b, i)
           I == Instrs(f)
           B == Blocks(f)
           rest == Filtered(Ins(f, b), I \ {i})
           users == [v \in I |-> IF v \in Range(f.code[i].args)
                                 THEN Filtered(f.users[v], I \ {i}) ELSE f.users[v]]
           block == [f.block EXCEPT ![b].ins = rest]
<1>1. /\ IsRecord(f) /\ f.users \in [I -> Seq(I)]
      /\ f.block \in [B -> BlocksOf(B, I)]
      /\ Ins(f, b) \in Seq(I) /\ Ins(f, b) = f.block[b].ins
      /\ f.code \in [I -> Range(f.code)]
      /\ \A j \in I : Shaped(f.code[j], B, I)
  BY CodeParts, FunctionParts DEF CodeFits, Ins
<1>2. rest \in Seq(I)
  BY <1>1, FilteredFacts
<1>3. users \in [I -> Seq(I)]
  <2>1. \A v \in I : f.users[v] \in Seq(I)
    BY <1>1
  <2>2. \A v \in I : Filtered(f.users[v], I \ {i}) \in Seq(I)
    BY <2>1, FilteredFacts
  <2> QED
    BY <1>1, <2>1, <2>2
<1>4. g = [f EXCEPT !.block = block, !.users = users]
  BY <1>1 DEF WithoutInstr, Ins
<1> HIDE DEF g, rest, users
<1>5. /\ block \in [B -> BlocksOf(B, I)]
      /\ block[b].ins = rest
      /\ \A c \in B : c # b => block[c] = f.block[c]
  BY <1>1, <1>2 DEF BlocksOf
<1> HIDE DEF block
<1>6. /\ IsRecord(g) /\ g.entry = f.entry /\ g.order = f.order /\ g.code = f.code
      /\ g.users = users /\ g.block = block
  BY <1>1, <1>4 DEF IsRecord
<1>7. \A j \in I : SameAccess(f.code[j], g.code[j])
  BY <1>6 DEF SameAccess
<1>8. Keeps(f, g)
  BY <1>1, <1>3, <1>5, <1>6, <1>7, RewrittenFacts
<1> QED
  BY <1>5, <1>6, <1>8 DEF g, rest, I, B, Ins

\* The users of a load read what was stored instead, and no cell is named by
\* the value of a load.
LEMMA ReplacedFacts ==
  ASSUME NEW f, CodeFits(f), NEW old \in Instrs(f), NEW new \in Instrs(f),
         f.code[old].op = "load"
  PROVE  LET g == UsesReplaced(f, old, new)
         IN  Keeps(f, g) /\ g.block = f.block
<1> DEFINE g == UsesReplaced(f, old, new)
           I == Instrs(f)
           B == Blocks(f)
           into(i) == [f.code[i] EXCEPT !.args = Replaced(f.code[i].args, old, new)]
           code == [i \in I |-> IF i \in Range(f.users[old]) THEN into(i) ELSE f.code[i]]
           users == [v \in I |-> IF v = old THEN <<>>
                                 ELSE IF v = new THEN f.users[v] \o f.users[old]
                                 ELSE f.users[v]]
           T == {code[i] : i \in I}
<1>1. /\ IsRecord(f) /\ f.users \in [I -> Seq(I)]
      /\ f.block \in [B -> BlocksOf(B, I)]
  BY CodeParts
<1>2. g = [f EXCEPT !.code = code, !.users = users]
  BY DEF UsesReplaced
<1> HIDE DEF g
<1>3. users \in [I -> Seq(I)]
  <2>1. ASSUME NEW v \in I PROVE users[v] \in Seq(I)
    <3>1. f.users[v] \in Seq(I) /\ f.users[old] \in Seq(I) /\ <<>> \in Seq(I)
      BY <1>1
    <3> HIDE DEF I
    <3> QED
      BY <3>1, ConcatFacts
  <2> QED
    BY <2>1
<1>4. ASSUME NEW a \in Seq(I)
      PROVE  /\ Replaced(a, old, new) \in Seq(I) /\ Len(Replaced(a, old, new)) = Len(a)
             /\ \A k \in 1 .. Len(a) : a[k] # old => Replaced(a, old, new)[k] = a[k]
  BY DEF Replaced
<1>5. ASSUME NEW i \in I
      PROVE  Shaped(code[i], B, I) /\ SameAccess(f.code[i], code[i])
  <2> DEFINE c == f.code[i]
  <2>1. Shaped(c, B, I) /\ c.args \in Seq(I)
    BY CodeParts DEF Shaped
  <2>2. CASE code[i] = c
    BY <2>1, <2>2 DEF SameAccess
  <2>3. CASE code[i] = into(i)
    <3>1. /\ DOMAIN into(i) = DOMAIN c /\ into(i).op = c.op /\ into(i).ty = c.ty
          /\ into(i).k = c.k /\ into(i).inc = c.inc /\ into(i).parent = c.parent
          /\ into(i).args = Replaced(c.args, old, new)
      <4> HIDE DEF c
      <4> QED
        BY <2>1 DEF c, Shaped
    <3>2. c.op \in {"load", "store"} => into(i).args[1] = c.args[1]
      <4> SUFFICES ASSUME c.op \in {"load", "store"} PROVE into(i).args[1] = c.args[1]
        OBVIOUS
      <4>1. Len(c.args) \in {1, 2} /\ f.code[c.args[1]].op \in {"alloca", "param"}
        BY OperandsFit
      <4>2. c.args[1] # old
        BY <4>1
      <4> HIDE DEF c, into
      <4> QED
        BY <1>4, <2>1, <3>1, <4>1, <4>2
    <3>3. into(i).args \in Seq(I) /\ Len(into(i).args) = Len(c.args)
      BY <1>4, <2>1, <3>1
    <3>4. SameAccess(c, into(i))
      BY <3>1, <3>2, <3>3 DEF SameAccess
    <3> HIDE DEF into, c, code
    <3> QED
      BY <2>1, <2>3, <3>1, <3>3, <3>4 DEF c, Shaped
  <2> QED
    BY <2>2, <2>3
<1>6. /\ IsRecord(g) /\ g.entry = f.entry /\ g.order = f.order /\ g.code = code
      /\ g.users = users /\ g.block = f.block
  <2> HIDE DEF code, users
  <2> QED
    BY <1>1, <1>2 DEF IsRecord
<1>7. code \in [I -> T]
  OBVIOUS
<1> HIDE DEF code, users, T
<1>8. Keeps(f, g)
  BY <1>1, <1>3, <1>5, <1>6, <1>7, RewrittenFacts
<1> QED
  BY <1>6, <1>8 DEF g

\* Phis are created: they are the next instructions, and stand nowhere yet.
LEMMA InsertedFacts ==
  ASSUME CodeFits(fn), NEW v \in Instrs(fn), NEW ys \in Seq(Blocks(fn))
  PROVE  LET g == [fn EXCEPT !.code = fn.code \o [k \in DOMAIN ys |-> NewPhi(v, ys[k])],
                             !.users = fn.users \o [k \in DOMAIN ys |-> <<>>]]
         IN  /\ Keeps(fn, g) /\ g.block = fn.block
             /\ \A k \in DOMAIN ys : /\ Len(fn.code) + k \in Instrs(g)
                                     /\ IsPhi(g, Len(fn.code) + k)
<1> DEFINE I == Instrs(fn)
           B == Blocks(fn)
           L == Len(fn.code)
           m == Len(ys)
           n == L + m
           new == [k \in DOMAIN ys |-> NewPhi(v, ys[k])]
           none == [k \in DOMAIN ys |-> <<>>]
           g == [fn EXCEPT !.code = fn.code \o new, !.users = fn.users \o none]
           J == 1 .. n
           T == Range(fn.code) \cup {new[k] : k \in DOMAIN ys}
<1>1. /\ IsRecord(fn) /\ fn.block \in [B -> BlocksOf(B, I)]
      /\ L \in Nat /\ I = 1 .. L /\ Len(fn.users) = L
      /\ fn.code \in Seq(Range(fn.code)) /\ fn.users \in Seq(Seq(I))
  BY CodeParts
<1>2. m \in Nat /\ DOMAIN ys = 1 .. m /\ \A k \in 1 .. m : ys[k] \in B
  OBVIOUS
<1>3. n \in Nat /\ I \subseteq J
  <2> HIDE DEF L, m
  <2> QED
    BY <1>1, <1>2
<1>4. /\ IsRecord(g) /\ g.entry = fn.entry /\ g.order = fn.order
      /\ g.code = fn.code \o new /\ g.users = fn.users \o none /\ g.block = fn.block
  <2> HIDE DEF new, none
  <2> QED
    BY <1>1 DEF IsRecord
<1> HIDE DEF g
<1>5. new \in Seq(T) /\ Len(new) = m /\ fn.code \in Seq(T)
  <2>1. new \in [1 .. m -> T]
    BY <1>2
  <2>2. Range(fn.code) \subseteq T
    OBVIOUS
  <2> HIDE DEF m, T, new
  <2> QED
    BY <1>1, <1>2, <2>1, <2>2, FunctionIsSeq, SeqWider
<1>6. none \in Seq(Seq(J)) /\ Len(none) = m /\ fn.users \in Seq(Seq(J))
  <2>1. none \in [1 .. m -> Seq(J)]
    BY <1>2
  <2>2. Seq(I) \subseteq Seq(J)
    BY <1>3, SeqWider
  <2> HIDE DEF m, J, none, I
  <2> QED
    BY <1>1, <1>2, <2>1, <2>2, FunctionIsSeq, SeqWider
<1> HIDE DEF T, new, none
<1>7. /\ g.code \in [J -> T]
      /\ \A i \in I : g.code[i] = fn.code[i]
      /\ \A i \in J : i \notin I => g.code[i] = new[i - L] /\ i - L \in 1 .. m
  <2> DEFINE s == fn.code
  <2>1. s \in Seq(T) /\ new \in Seq(T) /\ Len(s) = L /\ Len(new) = m /\ g.code = s \o new
    BY <1>4, <1>5
  <2> HIDE DEF s, L, m
  <2>2. /\ s \o new \in [1 .. (L + m) -> T]
        /\ \A i \in 1 .. L : (s \o new)[i] = s[i]
        /\ \A i \in 1 .. L + m :
             i \notin 1 .. L => (s \o new)[i] = new[i - L] /\ i - L \in 1 .. m
    BY <2>1, ConcatList
  <2> QED
    BY <1>1, <2>1, <2>2 DEF s
<1>8. g.users \in [J -> Seq(J)]
  <2> DEFINE s == fn.users
             R == Seq(J)
  <2>1. s \in Seq(R) /\ none \in Seq(R) /\ Len(s) = L /\ Len(none) = m /\ g.users = s \o none
    BY <1>1, <1>4, <1>6
  <2> HIDE DEF s, L, m, R
  <2>2. s \o none \in [1 .. (L + m) -> R]
    BY <2>1, ConcatList
  <2> QED
    BY <2>1, <2>2 DEF R
<1>11. ASSUME NEW i \in J, i \notin I
       PROVE  \E k \in 1 .. m : g.code[i] = NewPhi(v, ys[k])
  <2>1. i - L \in 1 .. m /\ g.code[i] = new[i - L]
    BY <1>7, <1>11
  <2>2. \A k \in 1 .. m : new[k] = NewPhi(v, ys[k])
    BY <1>2 DEF new
  <2> QED
    BY <2>1, <2>2
<1>12. fn.block \in [B -> BlocksOf(B, J)]
  <2>1. Seq(I) \subseteq Seq(J)
    BY <1>3, SeqWider
  <2>2. BlocksOf(B, I) \subseteq BlocksOf(B, J)
    <3> HIDE DEF I, J, B
    <3> QED
      BY <2>1 DEF BlocksOf
  <2> QED
    BY <1>1, <2>2
<1>13. ASSUME NEW i \in J PROVE Shaped(g.code[i], B, J)
  <2>1. CASE i \in I
    <3>1. Shaped(fn.code[i], B, I) /\ Seq(I) \subseteq Seq(J)
      BY <1>3, <2>1, CodeParts, SeqWider
    <3> HIDE DEF I, J, B
    <3> QED
      BY <1>3, <1>7, <2>1, <3>1 DEF Shaped
  <2>2. CASE i \notin I
    <3>1. PICK k \in 1 .. m : g.code[i] = NewPhi(v, ys[k])
      BY <1>11, <2>2
    <3> DEFINE c == NewPhi(v, ys[k])
    <3>2. /\ DOMAIN c = {"op", "ty", "args", "k", "tgt", "inc", "parent"}
          /\ c.op = "phi" /\ c.ty = fn.code[v].ty /\ c.args = <<>> /\ c.k = 0
          /\ c.inc = <<>> /\ c.parent = ys[k]
      BY DEF NewPhi
    <3>3. IsType(fn.code[v].ty)
      BY CodeParts DEF Shaped
    <3>4. DOMAIN <<>> = {} /\ Range(<<>>) = {} /\ <<>> \in Seq(J) /\ "phi" \in Ops
      BY DEF Range, Ops
    <3> HIDE DEF c, J
    <3>5. Shaped(c, B, J)
      BY <1>2, <3>2, <3>3, <3>4 DEF Shaped
    <3> QED
      BY <3>1, <3>5 DEF c
  <2> QED
    BY <2>1, <2>2
<1>14. \A i \in I : SameAccess(fn.code[i], g.code[i])
  BY <1>7 DEF SameAccess
<1>15. \A i \in J : i \notin I => g.code[i].op = "phi"
  <2>1. \A b : NewPhi(v, b).op = "phi"
    BY DEF NewPhi
  <2> HIDE DEF J, I, m
  <2> QED
    BY <1>11, <2>1
<1>16. Keeps(fn, g)
  <2> HIDE DEF n, I, B
  <2> QED
    BY <1>3, <1>4, <1>7, <1>8, <1>12, <1>13, <1>14, <1>15, RebuiltFacts DEF I, B
<1>17. ASSUME NEW k \in DOMAIN ys PROVE L + k \in Instrs(g) /\ IsPhi(g, L + k)
  <2>1. L + k \in J /\ L + k \notin I
    <3> HIDE DEF L, m
    <3> QED
      BY <1>1, <1>2
  <2>2. Instrs(g) = J
    BY <1>7 DEF Instrs
  <2> QED
    BY <1>15, <2>1, <2>2 DEF IsPhi
<1> QED
  BY <1>4, <1>16, <1>17 DEF g, new, none

\* Phis learn the values that come in from a block.
LEMMA WiredFacts ==
  ASSUME NEW f, CodeFits(f), NEW b \in Blocks(f), NEW W,
         NEW value \in [W -> Instrs(f)],
         NEW g, g = [f EXCEPT !.code = [i \in Instrs(f) |->
                       IF i \notin W THEN f.code[i]
                       ELSE [f.code[i] EXCEPT !.inc = Wired(f.code[i].inc, b, value[i])]]]
  PROVE  Keeps(f, g) /\ g.block = f.block
<1> DEFINE I == Instrs(f)
           B == Blocks(f)
           with(i) == [f.code[i] EXCEPT !.inc = Wired(f.code[i].inc, b, value[i])]
           code == [i \in I |-> IF i \notin W THEN f.code[i] ELSE with(i)]
           T == {code[i] : i \in I}
<1>1. /\ IsRecord(f) /\ f.users \in [I -> Seq(I)]
      /\ f.block \in [B -> BlocksOf(B, I)]
  BY CodeParts
<1>2. /\ IsRecord(g) /\ g.entry = f.entry /\ g.order = f.order /\ g.code = code
      /\ g.users = f.users /\ g.block = f.block
  <2> HIDE DEF code
  <2> QED
    BY <1>1 DEF IsRecord, code
<1>3. ASSUME NEW i \in I PROVE Shaped(code[i], B, I) /\ SameAccess(f.code[i], code[i])
  <2> DEFINE c == f.code[i]
             inc == Wired(c.inc, b, value[i])
  <2>1. Shaped(c, B, I)
    BY CodeParts
  <2>2. CASE i \notin W
    BY <2>1, <2>2 DEF SameAccess
  <2>3. CASE i \in W
    <3>1. value[i] \in I
      BY <2>3
    <3>2. DOMAIN c.inc \subseteq B /\ Range(c.inc) \subseteq I
      BY <2>1 DEF Shaped
    <3> DEFINE d == c.inc
    <3>3. DOMAIN inc \subseteq B /\ Range(inc) \subseteq I
      <4>1. inc = [p \in DOMAIN d \cup {b} |-> IF p = b THEN value[i] ELSE d[p]]
        BY DEF Wired
      <4>2. \A p \in DOMAIN d : d[p] \in I
        BY <3>2 DEF Range
      <4> HIDE DEF inc, d, I
      <4> QED
        BY <3>1, <3>2, <4>1, <4>2 DEF Range, d
    <3>4. /\ DOMAIN with(i) = DOMAIN c /\ with(i).op = c.op /\ with(i).ty = c.ty
          /\ with(i).k = c.k /\ with(i).inc = inc /\ with(i).parent = c.parent
          /\ with(i).args = c.args
      <4> HIDE DEF c, inc
      <4> QED
        BY <2>1 DEF c, Shaped, inc
    <3>5. code[i] = with(i)
      BY <2>3
    <3> HIDE DEF with, c, code, inc
    <3> QED
      BY <2>1, <3>3, <3>4, <3>5 DEF c, Shaped, SameAccess
  <2> QED
    BY <2>2, <2>3
<1>4. code \in [I -> T]
  OBVIOUS
<1> HIDE DEF code, T
<1>5. Keeps(f, g)
  BY <1>1, <1>2, <1>3, <1>4, RewrittenFacts
<1> QED
  BY <1>2, <1>5

\* The phis come to stand in their blocks, with operands and users.
LEMMA PlacedFacts ==
  ASSUME CodeFits(fn), NEW V, phis \in [Blocks(fn) -> Seq(V \X Instrs(fn))],
         \A b \in Blocks(fn) : \A p \in Range(phis[b]) : IsPhi(fn, p[2])
  PROVE  /\ Keeps(fn, PhisPlaced)
         /\ \A b \in Blocks(fn) : \A i \in Range(Ins(PhisPlaced, b)) :
              i \in Range(Ins(fn, b)) \/ (i \in Instrs(fn) /\ IsPhi(fn, i))
<1> DEFINE g == PhisPlaced
           I == Instrs(fn)
           B == Blocks(fn)
           new(b) == [n \in DOMAIN phis[b] |-> phis[b][n][2]]
           ids == UNION {Range(new(b)) : b \in B}
           from(i) == Filtered(fn.order, DOMAIN fn.code[i].inc)
           all == FlattenSeq([k \in DOMAIN fn.order |-> new(fn.order[k])])
           reads(v) == Filtered(all, {i \in ids : v \in Incoming(fn, i)})
           args(i) == [n \in DOMAIN from(i) |-> fn.code[i].inc[from(i)[n]]]
           with(i) == [fn.code[i] EXCEPT !.args = args(i)]
           code == [i \in I |-> IF i \in ids THEN with(i) ELSE fn.code[i]]
           users == [v \in I |-> fn.users[v] \o reads(v)]
           block == [b \in B |-> [fn.block[b] EXCEPT !.ins = new(b) \o fn.block[b].ins]]
           T == {code[i] : i \in I}
<1>1. /\ IsRecord(fn) /\ fn.users \in [I -> Seq(I)] /\ fn.order \in Seq(B)
      /\ fn.block \in [B -> BlocksOf(B, I)]
  BY CodeParts
<1>2. ASSUME NEW b \in B
      PROVE  new(b) \in Seq(I) /\ \A i \in Range(new(b)) : i \in I /\ IsPhi(fn, i)
  <2> DEFINE l == phis[b]
  <2>1. l \in Seq(V \X I)
    OBVIOUS
  <2>2. Len(l) \in Nat /\ DOMAIN l = 1 .. Len(l) /\ \A n \in 1 .. Len(l) : l[n] \in V \X I
    BY <2>1
  <2>3. \A n \in DOMAIN l : IsPhi(fn, l[n][2]) /\ l[n][2] \in I
    BY <2>2 DEF Range
  <2> HIDE DEF l
  <2>4. [n \in DOMAIN l |-> l[n][2]] \in [1 .. Len(l) -> I]
    BY <2>2
  <2>5. [n \in DOMAIN l |-> l[n][2]] \in Seq(I)
    BY <2>2, <2>4, FunctionIsSeq
  <2> QED
    BY <2>3, <2>5 DEF l, Range
<1>3. g = [fn EXCEPT !.code = code, !.users = users, !.block = block]
  BY DEF PhisPlaced, Incoming
<1> HIDE DEF g, new
<1>4. all \in Seq(I)
  <2>1. \A k \in DOMAIN fn.order : new(fn.order[k]) \in Seq(I)
    BY <1>1, <1>2
  <2>2. [k \in DOMAIN fn.order |-> new(fn.order[k])] \in Seq(Seq(I))
    <3>1. Len(fn.order) \in Nat /\ DOMAIN fn.order = 1 .. Len(fn.order)
      BY <1>1
    <3>2. [k \in DOMAIN fn.order |-> new(fn.order[k])] \in [1 .. Len(fn.order) -> Seq(I)]
      BY <2>1, <3>1
    <3> QED
      BY <3>1, <3>2, FunctionIsSeq
  <2> QED
    BY <2>2, FlattenFacts
<1> HIDE DEF all
<1>5. users \in [I -> Seq(I)]
  <2>1. \A v \in I : reads(v) \in Seq(I) /\ fn.users[v] \in Seq(I)
    BY <1>1, <1>4, FilteredFacts
  <2> HIDE DEF reads
  <2>2. \A v \in I : fn.users[v] \o reads(v) \in Seq(I)
    BY <2>1, ConcatFacts
  <2> QED
    BY <2>2
<1>6. ASSUME NEW b \in B
      PROVE  /\ block[b] \in BlocksOf(B, I)
             /\ Range(block[b].ins) = Range(new(b)) \cup Range(Ins(fn, b))
  <2>1. fn.block[b] \in BlocksOf(B, I) /\ fn.block[b].ins \in Seq(I) /\ new(b) \in Seq(I)
    BY <1>1, <1>2 DEF BlocksOf
  <2> DEFINE s == new(b) \o fn.block[b].ins
  <2>2. s \in Seq(I) /\ Range(s) = Range(new(b)) \cup Range(Ins(fn, b))
    BY <2>1, ConcatFacts DEF Ins
  <2> HIDE DEF s
  <2>3. block[b] = [fn.block[b] EXCEPT !.ins = s]
    BY DEF s
  <2> QED
    BY <2>1, <2>2, <2>3 DEF BlocksOf
<1>7. ASSUME NEW i \in I PROVE Shaped(code[i], B, I) /\ SameAccess(fn.code[i], code[i])
  <2> DEFINE c == fn.code[i]
  <2>1. Shaped(c, B, I)
    BY CodeParts
  <2>2. CASE i \notin ids
    BY <2>1, <2>2 DEF SameAccess
  <2>3. CASE i \in ids
    <3>1. c.op = "phi"
      BY <1>2, <2>3 DEF IsPhi
    <3>2. from(i) \in Seq(B) /\ Range(from(i)) \subseteq DOMAIN c.inc
      BY <1>1, FilteredFacts
    <3>3. args(i) \in Seq(I)
      <4>1. \A p \in DOMAIN c.inc : c.inc[p] \in I
        BY <2>1 DEF Shaped, Range
      <4> DEFINE s == from(i)
      <4>2. Len(s) \in Nat /\ DOMAIN s = 1 .. Len(s) /\ \A n \in 1 .. Len(s) : s[n] \in DOMAIN c.inc
        <5> HIDE DEF s
        <5> QED
          BY <3>2 DEF Range, s
      <4> HIDE DEF s, from
      <4>3. [n \in DOMAIN s |-> c.inc[s[n]]] \in [1 .. Len(s) -> I]
        BY <4>1, <4>2
      <4>4. [n \in DOMAIN s |-> c.inc[s[n]]] \in Seq(I)
        BY <4>2, <4>3, FunctionIsSeq
      <4> QED
        BY <4>4 DEF s
    <3> HIDE DEF args
    <3>4. /\ DOMAIN with(i) = DOMAIN c /\ with(i).op = c.op /\ with(i).ty = c.ty
          /\ with(i).k = c.k /\ with(i).inc = c.inc /\ with(i).parent = c.parent
          /\ with(i).args = args(i)
      <4> HIDE DEF c
      <4> QED
        BY <2>1 DEF c, Shaped
    <3>5. code[i] = with(i)
      BY <2>3
    <3> HIDE DEF with, c, code
    <3> QED
      BY <2>1, <3>1, <3>3, <3>4, <3>5 DEF c, Shaped, SameAccess
  <2> QED
    BY <2>2, <2>3
<1>8. code \in [I -> T] /\ DOMAIN block = B /\ block \in [B -> BlocksOf(B, I)]
  <2>1. code \in [I -> T]
    OBVIOUS
  <2> QED
    BY <1>6, <2>1
<1> HIDE DEF code, users, block, T
<1>9. /\ IsRecord(g) /\ g.entry = fn.entry /\ g.order = fn.order /\ g.code = code
      /\ g.users = users /\ g.block = block
  BY <1>1, <1>3 DEF IsRecord
<1>10. Keeps(fn, g)
  BY <1>5, <1>7, <1>8, <1>9, RewrittenFacts
<1>11. \A b \in B : \A i \in Range(Ins(g, b)) :
         i \in Range(Ins(fn, b)) \/ (i \in I /\ IsPhi(fn, i))
  BY <1>2, <1>6, <1>9 DEF Ins
<1> QED
  BY <1>10, <1>11 DEF g

-----------------------------------------------------------------------------
\* The types of the state, and that no step gives up on them.

\* The calls of rename.
Calls(f, V) == [block : Range(f.order), next : Nat \ {0}, child : Nat, pushed : [V -> Nat]]

\* The types of the parts that depend on which instructions there are.
TypedFor(f) ==
  /\ CodeFits(f) /\ f.entry \in Range(f.order)
  /\ idom \in [Blocks(f) -> Blocks(f) \cup {NoBlock}]
  /\ df \in [Blocks(f) -> SUBSET Blocks(f)]
  /\ Vars \subseteq Instrs(f)
  /\ worklist \in [Vars -> SUBSET Blocks(f)]
  /\ phis \in [Blocks(f) -> Seq(Vars \X Instrs(f))]
  /\ \A b \in Blocks(f) : \A p \in Range(phis[b]) : IsPhi(f, p[2])
  /\ stacks \in [Vars -> Seq(Instrs(f))]
  /\ frames \in Seq(Calls(f, Vars))

\* TypeOK with the types of the rest, on which the types of the next state rest.
TypeInv ==
  /\ TypedFor(fn)
  /\ pc \in {"idoms", "frontiers", "phis", "rename", "place", "verify",
             "done", "refused", "crashed"}
  /\ pc = "rename" <=> frames # <<>>
  /\ pc \in {"idoms", "frontiers"} => Vars = {}

\* Such a step keeps the types of all that names instructions.
LEMMA KeptTypes ==
  ASSUME NEW f, TypedFor(f), NEW g, Keeps(f, g)
  PROVE  TypedFor(g)
<1> DEFINE I == Instrs(f)
           J == Instrs(g)
           B == Blocks(f)
<1>1. /\ g.entry = f.entry /\ g.order = f.order /\ Blocks(g) = B /\ I \subseteq J
      /\ CodeFits(g)
  BY KeepsFits DEF Keeps, TypedFor
<1>2. Seq(I) \subseteq Seq(J) /\ Seq(Vars \X I) \subseteq Seq(Vars \X J)
  <2>1. Vars \X I \subseteq Vars \X J
    BY <1>1
  <2> QED
    BY <1>1, <2>1, SeqWider
<1>3. Calls(g, Vars) = Calls(f, Vars)
  BY <1>1 DEF Calls
<1>4. /\ phis \in [B -> Seq(Vars \X I)] /\ stacks \in [Vars -> Seq(I)] /\ Vars \subseteq I
      /\ \A b \in B : \A p \in Range(phis[b]) : IsPhi(f, p[2])
  BY DEF TypedFor
<1>5. ASSUME NEW b \in B, NEW p \in Range(phis[b]) PROVE IsPhi(g, p[2])
  <2>1. p \in Vars \X I
    <3> DEFINE l == phis[b]
    <3>1. l \in Seq(Vars \X I)
      BY <1>4
    <3>2. \A x \in Range(l) : x \in Vars \X I
      <4> HIDE DEF l, I
      <4> QED
        BY <3>1 DEF Range
    <3> QED
      BY <1>5, <3>2
  <2>2. p[2] \in I
    BY <2>1
  <2>3. SameAccess(f.code[p[2]], g.code[p[2]])
    BY <2>2 DEF Keeps
  <2> QED
    BY <1>4, <1>5, <2>3 DEF SameAccess, IsPhi
<1>6. phis \in [B -> Seq(Vars \X J)] /\ stacks \in [Vars -> Seq(J)] /\ Vars \subseteq J
  <2> HIDE DEF I, J, B
  <2> QED
    BY <1>1, <1>2, <1>4
<1> QED
  BY <1>1, <1>3, <1>5, <1>6 DEF TypedFor

\* What stands in the parts of the state that hold lists.
LEMMA ListsHold ==
  ASSUME NEW f, TypedFor(f)
  PROVE  /\ \A b \in Blocks(f) : \A p \in Range(phis[b]) : p[1] \in Vars /\ p[2] \in Instrs(f)
         /\ \A v \in Vars : stacks[v] # <<>> => Last(stacks[v]) \in Instrs(f)
         /\ \A b \in Range(f.order) : b \in Blocks(f)
<1>1. ASSUME NEW b \in Blocks(f), NEW p \in Range(phis[b])
      PROVE  p[1] \in Vars /\ p[2] \in Instrs(f)
  <2> DEFINE l == phis[b]
             I == Instrs(f)
  <2>1. l \in Seq(Vars \X I)
    BY DEF TypedFor
  <2>2. \A x \in Range(l) : x \in Vars \X I
    <3> HIDE DEF l, I
    <3> QED
      BY <2>1 DEF Range
  <2> QED
    BY <1>1, <2>2
<1>2. \A v \in Vars : stacks[v] \in Seq(Instrs(f))
  BY DEF TypedFor
<1>3. f.order \in Seq(Blocks(f))
  BY CodeParts DEF TypedFor
<1> QED
  BY <1>1, <1>2, <1>3, FrontFacts DEF Range

\* The stacks when the phis of a block are pushed.
LEMMA EnteredFacts ==
  ASSUME TypedFor(fn), NEW b \in Range(fn.order)
  PROVE  /\ Entered(stacks, b) \in [Vars -> Seq(Instrs(fn))]
         /\ Frame(b) \in Calls(fn, Vars)
<1> DEFINE I == Instrs(fn)
<1>1. b \in Blocks(fn) /\ stacks \in [Vars -> Seq(I)]
  BY ListsHold DEF TypedFor
<1>2. ASSUME NEW v \in Vars
      PROVE  (IF b \in HasPhi(v)
              THEN Append(stacks[v], (CHOOSE p \in Range(phis[b]) : p[1] = v)[2])
              ELSE stacks[v]) \in Seq(I)
  <2>1. stacks[v] \in Seq(I)
    BY <1>1
  <2>2. CASE b \in HasPhi(v)
    <3> DEFINE q == CHOOSE p \in Range(phis[b]) : p[1] = v
    <3>1. \E p \in Range(phis[b]) : p[1] = v
      BY <2>2 DEF HasPhi
    <3>2. q \in Range(phis[b])
      BY <3>1
    <3>3. q[2] \in I
      BY <1>1, <3>2, ListsHold
    <3> HIDE DEF q
    <3>4. Append(stacks[v], q[2]) \in Seq(I)
      BY <2>1, <3>3
    <3> QED
      BY <2>2, <3>4 DEF q
  <2> QED
    BY <2>1, <2>2
<1>3. Entered(stacks, b) \in [Vars -> Seq(I)]
  <2>1. DOMAIN stacks = Vars
    BY <1>1
  <2> QED
    BY <1>2, <2>1 DEF Entered
<1>4. Frame(b) \in Calls(fn, Vars)
  <2>1. [v \in Vars |-> IF b \in HasPhi(v) THEN 1 ELSE 0] \in [Vars -> Nat]
    OBVIOUS
  <2> QED
    BY <2>1 DEF Frame, Calls
<1> QED
  BY <1>3, <1>4

\* The list of calls when the last one goes on, calls another, or returns.
LEMMA GoesOn ==
  ASSUME NEW C, NEW s \in Seq(C), s # <<>>, NEW x \in C
  PROVE  /\ Append(Front(s), x) \in Seq(C) /\ Append(Front(s), x) # <<>>
         /\ Len(Append(Front(s), x)) = Len(s) /\ Append(Front(s), x)[Len(s)] = x
         /\ \A k \in 1 .. Len(s) : k # Len(s) => Append(Front(s), x)[k] = s[k]
<1> DEFINE f == Front(s)
           n == Len(s)
<1>1. /\ n \in Nat \ {0}
      /\ f \in Seq(C) /\ Len(f) = n - 1 /\ \A k \in 1 .. n - 1 : f[k] = s[k]
  BY FrontFacts
<1> HIDE DEF f, n
<1>2. \A k \in 1 .. n : k # n => k \in 1 .. n - 1
  BY <1>1
<1>3. /\ Append(f, x) \in Seq(C) /\ Len(Append(f, x)) = n /\ Append(f, x)[n] = x
      /\ \A k \in 1 .. n - 1 : Append(f, x)[k] = f[k]
  BY <1>1
<1>4. Append(f, x) # <<>>
  BY <1>1, <1>3
<1> QED
  BY <1>1, <1>2, <1>3, <1>4 DEF f, n

\* And when the last call goes on and calls another.
LEMMA CallsAnother ==
  ASSUME NEW C, NEW s \in Seq(C), s # <<>>, NEW x \in C, NEW y \in C
  PROVE  LET r == Append(Append(Front(s), x), y)
         IN  /\ r \in Seq(C) /\ r # <<>> /\ Len(r) = Len(s) + 1
             /\ r[Len(s)] = x /\ r[Len(s) + 1] = y
             /\ \A k \in 1 .. Len(s) : k # Len(s) => r[k] = s[k]
<1> DEFINE a == Append(Front(s), x)
           r == Append(a, y)
           n == Len(s)
<1>1. /\ a \in Seq(C) /\ Len(a) = n /\ a[n] = x
      /\ \A k \in 1 .. n : k # n => a[k] = s[k]
  BY GoesOn
<1>2. n \in Nat \ {0}
  BY FrontFacts
<1> HIDE DEF a, n
<1>3. /\ r \in Seq(C) /\ Len(r) = n + 1 /\ r[n + 1] = y
      /\ \A k \in 1 .. n : r[k] = a[k]
  BY <1>1, <1>2
<1>4. r # <<>> /\ n \in 1 .. n
  BY <1>2, <1>3
<1> HIDE DEF r
<1>5. r[n] = x /\ \A k \in 1 .. n : k # n => r[k] = s[k]
  BY <1>1, <1>3, <1>4
<1> QED
  BY <1>3, <1>4, <1>5 DEF a, r, n

\* TypeInv holds at first, and every step of Next keeps it.
LEMMA TypeInit == Init => TypeInv
<1> SUFFICES ASSUME Init PROVE TypeInv
  OBVIOUS
<1> DEFINE I == Instrs(fn)
           B == Blocks(fn)
<1>1. fn \in Functions /\ GraphHere(fn) /\ fn.entry \in Range(fn.order) /\ fn.entry \in B
  BY FunctionFacts, FunctionParts DEF Init, GraphHere, Graph, Linked
<1>2. CodeFits(fn)
  <2>1. /\ IsFunction(fn) /\ Numbered(fn) /\ CellsAreNamed(fn)
        /\ \A i \in I : MatchesOpcode(fn.code[i])
    BY <1>1, FunctionsAssumption
  <2> QED
    BY <2>1 DEF CodeFits, MatchesOpcode
<1>3. /\ idom \in [B -> B \cup {NoBlock}] /\ df \in [B -> SUBSET B]
      /\ phis = [b \in B |-> <<>>] /\ worklist = <<>> /\ stacks = <<>> /\ frames = <<>>
      /\ pc = "idoms"
  BY DEF Init
<1>4. Vars = {} /\ worklist \in [Vars -> SUBSET B] /\ stacks \in [Vars -> Seq(I)]
  BY <1>3 DEF Vars
<1>5. phis \in [B -> Seq(Vars \X I)] /\ \A b \in B : Range(phis[b]) = {}
  BY <1>3 DEF Range
<1>6. frames \in Seq(Calls(fn, Vars))
  BY <1>3
<1> QED
  BY <1>1, <1>2, <1>3, <1>4, <1>5, <1>6 DEF TypeInv, TypedFor

LEMMA TypeComputeIdom == TypeInv /\ DominanceInv' /\ ComputeIdom => TypeInv'
<1> SUFFICES ASSUME TypeInv, DominanceInv', ComputeIdom PROVE TypeInv'
  OBVIOUS
<1>1. /\ fn' = fn /\ pc' = "idoms" /\ pc = "idoms" /\ df' = df /\ worklist' = worklist
      /\ phis' = phis /\ stacks' = stacks /\ frames' = frames
  BY DEF ComputeIdom
<1>2. fn' \in Functions /\ IsTree(fn', idom')
  BY <1>1 DEF DominanceInv, Rounds
<1>3. Reachable(fn) \subseteq Blocks(fn)
  BY <1>1, <1>2, FunctionFacts, GraphFacts DEF GraphHere
<1>4. idom' \in [Blocks(fn) -> Blocks(fn) \cup {NoBlock}]
  BY <1>1, <1>2, <1>3 DEF IsTree
<1> QED
  BY <1>1, <1>4 DEF TypeInv, TypedFor, Vars

LEMMA TypeIdomRoundDone == TypeInv /\ IdomRoundDone => TypeInv'
  BY DEF TypeInv, TypedFor, IdomRoundDone, Vars

LEMMA TypeComputeFrontier == TypeInv /\ DominanceInv' /\ ComputeFrontier => TypeInv'
<1> SUFFICES ASSUME TypeInv, DominanceInv', ComputeFrontier PROVE TypeInv'
  OBVIOUS
<1>1. /\ fn' = fn /\ pc' = "frontiers" /\ pc = "frontiers" /\ idom' = idom /\ worklist' = worklist
      /\ phis' = phis /\ stacks' = stacks /\ frames' = frames
  BY DEF ComputeFrontier
<1>2. df' \in [Blocks(fn) -> SUBSET Blocks(fn)]
  BY <1>1 DEF DominanceInv, Gathering
<1> QED
  BY <1>1, <1>2 DEF TypeInv, TypedFor, Vars

LEMMA TypeFrontiersDone == TypeInv /\ FrontiersDone => TypeInv'
<1> SUFFICES ASSUME TypeInv, FrontiersDone PROVE TypeInv'
  OBVIOUS
<1> DEFINE I == Instrs(fn)
           B == Blocks(fn)
           P == Promotable
<1>1. /\ fn' = fn /\ pc' = "phis" /\ pc = "frontiers" /\ idom' = idom /\ df' = df
      /\ worklist' = [v \in P |-> DefBlocks(v)] /\ stacks' = [v \in P |-> <<>>]
      /\ phis' = phis /\ frames' = frames
  BY DEF FrontiersDone
<1>2. TypedFor(fn) /\ Vars = {} /\ frames = <<>>
  BY <1>1 DEF TypeInv
<1>3. P \subseteq I
  <2>1. \A b \in Range(fn.order) : Range(Ins(fn, b)) \subseteq I
    <3>1. \A b \in Range(fn.order) : Ins(fn, b) \in Seq(I)
      BY <1>2, ListsHold, FunctionParts DEF TypedFor, CodeFits
    <3> HIDE DEF I
    <3> QED
      BY <3>1 DEF Range
  <2> QED
    BY <2>1 DEF Promotable, Placed
<1>4. \A v \in P : DefBlocks(v) \subseteq B
  BY <1>2, ListsHold DEF DefBlocks
<1> HIDE DEF P
<1>5. Vars' = P /\ worklist' \in [P -> SUBSET B] /\ stacks' \in [P -> Seq(I)]
  <2>1. <<>> \in Seq(I)
    OBVIOUS
  <2> QED
    BY <1>1, <1>4, <2>1 DEF Vars
<1>6. \A b \in B : phis[b] = <<>>
  <2>1. \A b \in B : phis[b] \in Seq(Vars \X I)
    BY <1>2 DEF TypedFor
  <2>2. Vars \X I = {}
    BY <1>2
  <2>3. \A s \in Seq({}) : s = <<>>
    OBVIOUS
  <2> QED
    BY <2>1, <2>2, <2>3
<1>7. phis \in [B -> Seq(P \X I)] /\ \A b \in B : Range(phis[b]) = {}
  <2>1. DOMAIN phis = B /\ phis = [b \in B |-> phis[b]]
    BY <1>2 DEF TypedFor
  <2>2. \A b \in B : phis[b] \in Seq(P \X I) /\ Range(phis[b]) = {}
    <3>1. <<>> \in Seq(P \X I) /\ Range(<<>>) = {}
      BY DEF Range
    <3> QED
      BY <1>6, <3>1
  <2> QED
    BY <2>1, <2>2
<1>8. frames' \in Seq(Calls(fn, P))
  BY <1>1, <1>2
<1>9. TypedFor(fn)'
  <2> HIDE DEF I, B
  <2> QED
    BY <1>1, <1>2, <1>3, <1>5, <1>7, <1>8 DEF TypedFor, I, B
<1> QED
  BY <1>1, <1>2, <1>9 DEF TypeInv

LEMMA TypeInsertPhis == TypeInv /\ InsertPhis => TypeInv'
<1> SUFFICES ASSUME TypeInv, InsertPhis PROVE TypeInv'
  OBVIOUS
<1>0. PICK v \in Least({u \in Vars : worklist[u] # {}}) : \E n \in worklist[v] :
       LET ys == Filtered(fn.order, df[n] \ HasPhi(v))
           id(y) == Len(fn.code) + CHOOSE k \in DOMAIN ys : ys[k] = y
       IN  /\ phis' = [b \in Blocks(fn) |->
                         IF b \in Range(ys) THEN Append(phis[b], <<v, id(b)>>) ELSE phis[b]]
           /\ fn' = [fn EXCEPT !.code = fn.code \o [k \in DOMAIN ys |-> NewPhi(v, ys[k])],
                               !.users = fn.users \o [k \in DOMAIN ys |-> <<>>]]
           /\ worklist' = [worklist EXCEPT ![v] = (worklist[v] \ {n}) \cup (Range(ys) \ DefBlocks(v))]
  BY DEF InsertPhis
<1>1. PICK n \in worklist[v] :
       LET ys == Filtered(fn.order, df[n] \ HasPhi(v))
           id(y) == Len(fn.code) + CHOOSE k \in DOMAIN ys : ys[k] = y
       IN  /\ phis' = [b \in Blocks(fn) |->
                         IF b \in Range(ys) THEN Append(phis[b], <<v, id(b)>>) ELSE phis[b]]
           /\ fn' = [fn EXCEPT !.code = fn.code \o [k \in DOMAIN ys |-> NewPhi(v, ys[k])],
                               !.users = fn.users \o [k \in DOMAIN ys |-> <<>>]]
           /\ worklist' = [worklist EXCEPT ![v] = (worklist[v] \ {n}) \cup (Range(ys) \ DefBlocks(v))]
  BY <1>0
<1>2. /\ pc = "phis" /\ pc' = "phis" /\ idom' = idom /\ df' = df /\ stacks' = stacks
      /\ frames' = frames
  BY DEF InsertPhis
<1> DEFINE ys == Filtered(fn.order, df[n] \ HasPhi(v))
           id(y) == Len(fn.code) + CHOOSE k \in DOMAIN ys : ys[k] = y
           g == [fn EXCEPT !.code = fn.code \o [k \in DOMAIN ys |-> NewPhi(v, ys[k])],
                           !.users = fn.users \o [k \in DOMAIN ys |-> <<>>]]
           B == Blocks(fn)
           J == Instrs(g)
<1>3. TypedFor(fn) /\ v \in Vars /\ v \in Instrs(fn) /\ fn.order \in Seq(B)
  BY CodeParts DEF TypeInv, TypedFor, Least
<1>4. ys \in Seq(B) /\ Range(ys) \subseteq B
  <2>1. ys \in Seq(B)
    BY <1>3, FilteredFacts
  <2> HIDE DEF ys, B
  <2> QED
    BY <2>1 DEF Range
<1>5. /\ fn' = g
      /\ phis' = [b \in B |-> IF b \in Range(ys) THEN Append(phis[b], <<v, id(b)>>) ELSE phis[b]]
      /\ worklist' = [worklist EXCEPT ![v] = (worklist[v] \ {n}) \cup (Range(ys) \ DefBlocks(v))]
  BY <1>1
<1> HIDE DEF ys
<1>6. /\ Keeps(fn, g)
      /\ \A k \in DOMAIN ys : Len(fn.code) + k \in J /\ IsPhi(g, Len(fn.code) + k)
  BY <1>3, <1>4, InsertedFacts DEF TypedFor
<1> HIDE DEF g
<1>7. TypedFor(g)
  BY <1>3, <1>6, KeptTypes
<1>8. Blocks(g) = B
  BY <1>6 DEF Keeps
<1>9. ASSUME NEW b \in Range(ys) PROVE id(b) \in J /\ IsPhi(g, id(b))
  <2> DEFINE m == CHOOSE k \in DOMAIN ys : ys[k] = b
  <2>1. \E k \in DOMAIN ys : ys[k] = b
    BY DEF Range
  <2>2. m \in DOMAIN ys
    BY <2>1
  <2> HIDE DEF m
  <2> QED
    BY <1>6, <2>2 DEF m
<1> HIDE DEF id, J
<1>10. ASSUME NEW b \in B
       PROVE  /\ phis'[b] \in Seq(Vars \X J)
              /\ \A p \in Range(phis'[b]) : IsPhi(g, p[2])
  <2> DEFINE l == phis[b]
  <2>1. l \in Seq(Vars \X J) /\ \A p \in Range(l) : IsPhi(g, p[2])
    BY <1>7, <1>8 DEF TypedFor, J
  <2>2. CASE b \in Range(ys)
    <3> DEFINE e == <<v, id(b)>>
    <3>1. e \in Vars \X J /\ IsPhi(g, e[2])
      BY <1>3, <1>9, <2>2
    <3>2. phis'[b] = Append(l, e)
      BY <1>5, <2>2
    <3> HIDE DEF e, l
    <3>3. Append(l, e) \in Seq(Vars \X J) /\ Range(Append(l, e)) = Range(l) \cup {e}
      BY <2>1, <3>1, RangeOfAppend
    <3> QED
      BY <2>1, <3>1, <3>2, <3>3
  <2>3. CASE b \notin Range(ys)
    <3>1. phis'[b] = l
      BY <1>5, <2>3
    <3> QED
      BY <2>1, <3>1
  <2> QED
    BY <2>2, <2>3
<1>11. phis' \in [B -> Seq(Vars \X J)]
  <2>1. DOMAIN phis' = B /\ phis' = [b \in B |-> phis'[b]]
    BY <1>5
  <2> QED
    BY <1>10, <2>1
<1>12. worklist' \in [Vars -> SUBSET B] /\ Vars' = Vars
  <2>1. worklist \in [Vars -> SUBSET B]
    BY <1>3 DEF TypedFor
  <2>2. (worklist[v] \ {n}) \cup (Range(ys) \ DefBlocks(v)) \in SUBSET B
    BY <1>3, <1>4, <2>1
  <2>3. worklist' \in [Vars -> SUBSET B]
    BY <1>5, <2>1, <2>2
  <2> QED
    BY <2>3 DEF Vars
<1>13. TypedFor(fn)'
  BY <1>2, <1>5, <1>7, <1>8, <1>10, <1>11, <1>12 DEF TypedFor, J
<1> QED
  BY <1>2, <1>13 DEF TypeInv

LEMMA TypeStartRename == TypeInv /\ StartRename => TypeInv'
<1> SUFFICES ASSUME TypeInv, StartRename PROVE TypeInv'
  OBVIOUS
<1>1. /\ fn' = fn /\ pc' = "rename" /\ idom' = idom /\ df' = df /\ worklist' = worklist
      /\ phis' = phis /\ stacks' = Entered(stacks, fn.entry)
      /\ frames' = <<Frame(fn.entry)>>
  BY DEF StartRename
<1>2. TypedFor(fn) /\ fn.entry \in Range(fn.order) /\ Vars' = Vars
  BY <1>1 DEF TypeInv, TypedFor, Vars
<1>3. Entered(stacks, fn.entry) \in [Vars -> Seq(Instrs(fn))] /\ Frame(fn.entry) \in Calls(fn, Vars)
  BY <1>2, EnteredFacts
<1>4. frames' \in Seq(Calls(fn, Vars)) /\ frames' # <<>>
  BY <1>1, <1>3
<1>5. TypedFor(fn)'
  BY <1>1, <1>2, <1>3, <1>4 DEF TypedFor
<1> QED
  BY <1>1, <1>4, <1>5 DEF TypeInv

\* A call of rename that is going on, and the instruction it has come to.
LEMMA TopFacts ==
  ASSUME TypeInv, pc = "rename"
  PROVE  /\ TypedFor(fn) /\ frames # <<>> /\ Len(frames) \in Nat \ {0}
         /\ Top = frames[Len(frames)] /\ Top \in Calls(fn, Vars)
         /\ Top.block \in Range(fn.order) /\ Top.block \in Blocks(fn)
         /\ Top.next \in Nat \ {0} /\ Top.child \in Nat /\ Top.pushed \in [Vars -> Nat]
         /\ Body \in Seq(Instrs(fn))
         /\ Top.next <= Len(Body) => Top.next \in 1 .. Len(Body) /\ Body[Top.next] \in Instrs(fn)
<1>1. TypedFor(fn) /\ frames # <<>> /\ frames \in Seq(Calls(fn, Vars))
  BY DEF TypeInv, TypedFor
<1>2. Len(frames) \in Nat \ {0} /\ Top = frames[Len(frames)] /\ Top \in Calls(fn, Vars)
  BY <1>1, FrontFacts DEF Top
<1>3. /\ Top.block \in Range(fn.order) /\ Top.next \in Nat \ {0} /\ Top.child \in Nat
      /\ Top.pushed \in [Vars -> Nat]
  BY <1>2 DEF Calls
<1>4. Top.block \in Blocks(fn)
  BY <1>1, <1>3, ListsHold
<1>5. Body \in Seq(Instrs(fn))
  BY <1>1, <1>4, FunctionParts DEF Body, TypedFor, CodeFits
<1> QED
  BY <1>1, <1>2, <1>3, <1>4, <1>5

\* The state after a step of rename that leaves the lists of phis alone.
LEMMA TypeRewritten ==
  ASSUME TypeInv, pc = "rename", pc' = "rename",
         idom' = idom, df' = df, worklist' = worklist, phis' = phis,
         Keeps(fn, fn'), stacks' \in [Vars -> Seq(Instrs(fn'))],
         frames' \in Seq(Calls(fn, Vars)), frames' # <<>>
  PROVE  TypeInv'
<1>1. TypedFor(fn')
  BY KeptTypes DEF TypeInv
<1>2. Vars' = Vars
  BY DEF Vars
<1>3. Calls(fn', Vars) = Calls(fn, Vars)
  BY DEF Calls, Keeps
<1>4. TypedFor(fn)'
  BY <1>1, <1>2, <1>3 DEF TypedFor
<1> QED
  BY <1>4 DEF TypeInv

\* The calls of rename when the last one goes on, or calls another.
LEMMA CallsGoOn ==
  ASSUME TypedFor(fn), frames # <<>>, NEW x \in Calls(fn, Vars), NEW y \in Calls(fn, Vars)
  PROVE  /\ Append(Front(frames), x) \in Seq(Calls(fn, Vars))
         /\ Append(Front(frames), x) # <<>>
         /\ Append(Append(Front(frames), x), y) \in Seq(Calls(fn, Vars))
         /\ Append(Append(Front(frames), x), y) # <<>>
<1> DEFINE C == Calls(fn, Vars)
<1>1. frames \in Seq(C) /\ x \in C /\ y \in C
  BY DEF TypedFor
<1> HIDE DEF C
<1>3. Append(Front(frames), x) \in Seq(C) /\ Append(Front(frames), x) # <<>>
  BY <1>1, GoesOn
<1>4. /\ Append(Append(Front(frames), x), y) \in Seq(C)
      /\ Append(Append(Front(frames), x), y) # <<>>
  BY <1>1, <1>3
<1> QED
  BY <1>3, <1>4 DEF C

\* A step that leaves the function alone keeps its code.
LEMMA KeepsItself ==
  ASSUME NEW f, CodeFits(f)
  PROVE  Keeps(f, f)
BY DEF Keeps, CodeFits, SameAccess

LEMMA TypeKeepInstr == TypeInv /\ KeepInstr => TypeInv'
<1> SUFFICES ASSUME TypeInv, KeepInstr PROVE TypeInv'
  OBVIOUS
<1> DEFINE x == [Top EXCEPT !.next = Top.next + 1]
<1>1. /\ pc = "rename" /\ pc' = "rename" /\ fn' = fn /\ idom' = idom /\ df' = df
      /\ worklist' = worklist /\ phis' = phis /\ stacks' = stacks
      /\ frames' = Append(Front(frames), x)
  BY DEF KeepInstr, InBody, InCall, SetCall
<1>2. TypedFor(fn) /\ Top \in Calls(fn, Vars) /\ frames # <<>> /\ Top.next \in Nat \ {0}
  BY <1>1, TopFacts
<1>3. x \in Calls(fn, Vars)
  BY <1>2 DEF Calls
<1> HIDE DEF x
<1>4. frames' \in Seq(Calls(fn, Vars)) /\ frames' # <<>>
  BY <1>1, <1>2, <1>3, CallsGoOn
<1>6. Keeps(fn, fn') /\ stacks' \in [Vars -> Seq(Instrs(fn'))]
  BY <1>1, <1>2, KeepsItself DEF TypedFor
<1> QED
  BY <1>1, <1>4, <1>6, TypeRewritten

\* What the steps that drop an instruction have in common.
LEMMA DropFacts ==
  ASSUME TypeInv, InBody
  PROVE  LET i == Body[Top.next]
             g == WithoutInstr(fn, Top.block, i)
         IN  /\ pc = "rename" /\ TypedFor(fn) /\ i \in Instrs(fn) /\ Top.block \in Blocks(fn)
             /\ Keeps(fn, g) /\ Instrs(g) = Instrs(fn) /\ CodeFits(g) /\ g.code = fn.code
<1> DEFINE i == Body[Top.next]
           g == WithoutInstr(fn, Top.block, i)
<1>1. pc = "rename" /\ Top.next <= Len(Body)
  BY DEF InBody, InCall
<1>2. TypedFor(fn) /\ i \in Instrs(fn) /\ Top.block \in Blocks(fn)
  BY <1>1, TopFacts
<1> HIDE DEF i
<1>3. Keeps(fn, g) /\ g.code = fn.code
  BY <1>2, WithoutFacts DEF TypedFor
<1>4. Instrs(g) = Instrs(fn) /\ CodeFits(g)
  BY <1>2, <1>3, KeepsFits DEF Instrs, TypedFor
<1> QED
  BY <1>1, <1>2, <1>3, <1>4 DEF i

LEMMA TypeDropAlloca == TypeInv /\ DropAlloca => TypeInv'
<1> SUFFICES ASSUME TypeInv, DropAlloca PROVE TypeInv'
  OBVIOUS
<1>1. /\ InBody /\ pc' = pc /\ idom' = idom /\ df' = df
      /\ worklist' = worklist /\ phis' = phis /\ stacks' = stacks /\ frames' = frames
      /\ fn' = WithoutInstr(fn, Top.block, Body[Top.next])
  BY DEF DropAlloca
<1>2. /\ pc = "rename" /\ TypedFor(fn) /\ Keeps(fn, fn') /\ Instrs(fn') = Instrs(fn)
  BY <1>1, DropFacts
<1>3. frames # <<>> /\ frames \in Seq(Calls(fn, Vars)) /\ stacks \in [Vars -> Seq(Instrs(fn))]
  BY <1>2 DEF TypeInv, TypedFor
<1> QED
  BY <1>1, <1>2, <1>3, TypeRewritten

LEMMA TypeDropStore == TypeInv /\ DropStore => TypeInv'
<1> SUFFICES ASSUME TypeInv, DropStore PROVE TypeInv'
  OBVIOUS
<1> DEFINE i == Body[Top.next]
           v == fn.code[i].args[1]
           w == fn.code[i].args[2]
           x == [Top EXCEPT !.pushed = [Top.pushed EXCEPT ![v] = Top.pushed[v] + 1]]
<1>1. /\ InBody /\ pc' = pc /\ idom' = idom /\ df' = df
      /\ worklist' = worklist /\ phis' = phis
      /\ fn' = WithoutInstr(fn, Top.block, i) /\ IsMemory(i) /\ fn.code[i].op = "store"
      /\ stacks' = [stacks EXCEPT ![v] = Append(stacks[v], w)]
  BY DEF DropStore
<1>2. frames' = Append(Front(frames), x)
  BY DEF DropStore, SetCall
<1>3. /\ pc = "rename" /\ TypedFor(fn) /\ Keeps(fn, fn') /\ Instrs(fn') = Instrs(fn)
      /\ i \in Instrs(fn)
  BY <1>1, DropFacts
<1>4. /\ Top \in Calls(fn, Vars) /\ frames # <<>> /\ Top.pushed \in [Vars -> Nat]
      /\ frames \in Seq(Calls(fn, Vars)) /\ stacks \in [Vars -> Seq(Instrs(fn))]
  BY <1>3, TopFacts DEF TypedFor
<1>5. w \in Instrs(fn) /\ v \in Vars
  <2>1. w \in Instrs(fn)
    BY <1>1, <1>3, OperandsFit DEF TypedFor
  <2>2. v \in Vars
    BY <1>1 DEF IsMemory
  <2> QED
    BY <2>1, <2>2
<1> HIDE DEF i, v, w
<1>6. x \in Calls(fn, Vars)
  <2>1. [Top.pushed EXCEPT ![v] = Top.pushed[v] + 1] \in [Vars -> Nat]
    BY <1>4, <1>5
  <2> QED
    BY <1>4, <2>1 DEF Calls
<1> HIDE DEF x
<1>7. frames' \in Seq(Calls(fn, Vars)) /\ frames' # <<>>
  BY <1>2, <1>3, <1>4, <1>6, CallsGoOn
<1>9. stacks' \in [Vars -> Seq(Instrs(fn'))]
  <2>1. Append(stacks[v], w) \in Seq(Instrs(fn))
    BY <1>4, <1>5
  <2> QED
    BY <1>1, <1>3, <1>4, <2>1
<1> QED
  BY <1>1, <1>3, <1>7, <1>9, TypeRewritten

\* A load is dropped, and its users read the value that is on the stack.
LEMMA LoadFacts ==
  ASSUME TypeInv, DropLoad
  PROVE  Keeps(fn, fn') /\ fn'.block = WithoutInstr(fn, Top.block, Body[Top.next]).block
<1> DEFINE i == Body[Top.next]
           s == stacks[fn.code[i].args[1]]
           f == WithoutInstr(fn, Top.block, i)
<1>1. /\ InBody /\ IsMemory(i) /\ fn.code[i].op = "load"
      /\ fn' = IF s = <<>> THEN f ELSE UsesReplaced(f, i, Last(s))
  BY DEF DropLoad
<1>2. /\ TypedFor(fn) /\ Keeps(fn, f) /\ Instrs(f) = Instrs(fn)
      /\ i \in Instrs(fn) /\ CodeFits(f) /\ f.code = fn.code
  BY <1>1, DropFacts
<1>3. fn.code[i].args[1] \in Vars
  BY <1>1 DEF IsMemory
<1> HIDE DEF f, i
<1>4. CASE s = <<>>
  BY <1>1, <1>2, <1>4 DEF f, i
<1>5. CASE s # <<>>
  <2>1. Last(s) \in Instrs(fn)
    BY <1>2, <1>3, <1>5, ListsHold
  <2> HIDE DEF s
  <2>2. Keeps(f, fn') /\ fn'.block = f.block
    BY <1>1, <1>2, <1>5, <2>1, ReplacedFacts
  <2>3. ASSUME NEW j \in Instrs(fn) PROVE SameAccess(fn.code[j], fn'.code[j])
    <3>1. SameAccess(fn.code[j], f.code[j]) /\ SameAccess(f.code[j], fn'.code[j])
      BY <1>2, <2>2 DEF Keeps
    <3> QED
      BY <3>1 DEF SameAccess
  <2>4. Keeps(fn, fn')
    BY <1>2, <2>2, <2>3 DEF Keeps
  <2> QED
    BY <2>2, <2>4 DEF f, i
<1> QED
  BY <1>4, <1>5

LEMMA TypeDropLoad == TypeInv /\ DropLoad => TypeInv'
<1> SUFFICES ASSUME TypeInv, DropLoad PROVE TypeInv'
  OBVIOUS
<1>1. /\ InBody /\ pc' = pc /\ idom' = idom /\ df' = df
      /\ worklist' = worklist /\ phis' = phis /\ stacks' = stacks /\ frames' = frames
  BY DEF DropLoad
<1>2. pc = "rename" /\ Keeps(fn, fn') /\ frames # <<>> /\ TypedFor(fn)
  BY <1>1, LoadFacts DEF InBody, InCall, TypeInv
<1>3. frames \in Seq(Calls(fn, Vars)) /\ stacks' \in [Vars -> Seq(Instrs(fn'))]
  BY <1>1, <1>2, KeptTypes DEF TypedFor
<1> QED
  BY <1>1, <1>2, <1>3, TypeRewritten

\* The phis of the successors are wired: some phis learn a value.
LEMMA WireFacts ==
  ASSUME TypeInv, WireSuccessors
  PROVE  Keeps(fn, fn') /\ fn'.block = fn.block
<1> DEFINE b == Top.block
           wanted == UNION {Range(phis[s]) : s \in Range(Succ(fn, b))}
           wires(i) == {p \in wanted : p[2] = i /\ stacks[p[1]] # <<>>}
           value(i) == Last(stacks[(CHOOSE p \in wires(i) : TRUE)[1]])
           W == {i \in Instrs(fn) : wires(i) # {}}
           val == [i \in W |-> value(i)]
           g == [fn EXCEPT !.code = [i \in Instrs(fn) |->
                   IF i \notin W THEN fn.code[i]
                   ELSE [fn.code[i] EXCEPT !.inc = Wired(fn.code[i].inc, b, val[i])]]]
<1>1. pc = "rename"
  BY DEF WireSuccessors, InCall
<1>2. TypedFor(fn) /\ b \in Blocks(fn)
  BY <1>1, TopFacts
<1>3. fn' = g
  <2>1. fn' = [fn EXCEPT !.code = [i \in Instrs(fn) |->
                  IF wires(i) = {} THEN fn.code[i]
                  ELSE [fn.code[i] EXCEPT !.inc = Wired(fn.code[i].inc, b, value(i))]]]
    BY DEF WireSuccessors
  <2> HIDE DEF wires, value, wanted
  <2>2. \A i \in Instrs(fn) : (i \notin W <=> wires(i) = {}) /\ (i \in W => val[i] = value(i))
    BY DEF W, val
  <2> HIDE DEF W, val
  <2> QED
    BY <2>1, <2>2
<1>4. ASSUME NEW i \in W PROVE value(i) \in Instrs(fn)
  <2> DEFINE p == CHOOSE q \in wires(i) : TRUE
  <2>1. wires(i) # {}
    OBVIOUS
  <2>2. p \in wires(i)
    <3> HIDE DEF wires
    <3> QED
      BY <2>1
  <2>3. \E s \in Range(Succ(fn, b)) : p \in Range(phis[s]) /\ stacks[p[1]] # <<>>
    <3> HIDE DEF p
    <3> QED
      BY <2>2
  <2>4. Range(Succ(fn, b)) \subseteq Blocks(fn)
    <3>1. Succ(fn, b) \in Seq(Blocks(fn))
      BY <1>2, FunctionParts DEF TypedFor, CodeFits
    <3> QED
      BY <3>1 DEF Range
  <2> HIDE DEF p
  <2>5. p[1] \in Vars /\ stacks[p[1]] # <<>>
    BY <1>2, <2>3, <2>4, ListsHold
  <2>6. Last(stacks[p[1]]) \in Instrs(fn)
    BY <1>2, <2>5, ListsHold
  <2> QED
    BY <2>6 DEF p
<1>5. val \in [W -> Instrs(fn)]
  BY <1>4
<1> HIDE DEF val, W
<1>6. g = [fn EXCEPT !.code = [i \in Instrs(fn) |->
             IF i \notin W THEN fn.code[i]
             ELSE [fn.code[i] EXCEPT !.inc = Wired(fn.code[i].inc, b, val[i])]]]
  OBVIOUS
<1> HIDE DEF g, b
<1>7. Keeps(fn, g) /\ g.block = fn.block
  <2>1. CodeFits(fn)
    BY <1>2 DEF TypedFor
  <2> QED
    BY <1>2, <1>5, <1>6, <2>1, WiredFacts
<1> QED
  BY <1>3, <1>7

LEMMA TypeWireSuccessors == TypeInv /\ WireSuccessors => TypeInv'
<1> SUFFICES ASSUME TypeInv, WireSuccessors PROVE TypeInv'
  OBVIOUS
<1> DEFINE x == [Top EXCEPT !.child = 1]
<1>1. /\ pc = "rename" /\ pc' = "rename" /\ idom' = idom /\ df' = df
      /\ worklist' = worklist /\ phis' = phis /\ stacks' = stacks
      /\ frames' = Append(Front(frames), x)
  BY DEF WireSuccessors, InCall, SetCall
<1>2. TypedFor(fn) /\ Top \in Calls(fn, Vars) /\ frames # <<>>
  BY <1>1, TopFacts
<1>3. x \in Calls(fn, Vars)
  BY <1>2 DEF Calls
<1> HIDE DEF x
<1>4. frames' \in Seq(Calls(fn, Vars)) /\ frames' # <<>>
  BY <1>1, <1>2, <1>3, CallsGoOn
<1>6. Keeps(fn, fn')
  BY WireFacts
<1>7. stacks' \in [Vars -> Seq(Instrs(fn'))]
  BY <1>1, <1>2, <1>6, KeptTypes DEF TypedFor
<1> QED
  BY <1>1, <1>4, <1>6, <1>7, TypeRewritten

LEMMA TypeRenameChild == TypeInv /\ RenameChild => TypeInv'
<1> SUFFICES ASSUME TypeInv, RenameChild PROVE TypeInv'
  OBVIOUS
<1> DEFINE c == dom_children(Top.block)[Top.child]
           x == [Top EXCEPT !.child = Top.child + 1]
<1>1. /\ pc = "rename" /\ pc' = "rename" /\ idom' = idom /\ df' = df /\ fn' = fn
      /\ worklist' = worklist /\ phis' = phis /\ stacks' = Entered(stacks, c)
      /\ frames' = Append(Append(Front(frames), x), Frame(c))
      /\ Top.child \in DOMAIN dom_children(Top.block)
  BY DEF RenameChild, InCall
<1>2. TypedFor(fn) /\ Top \in Calls(fn, Vars) /\ frames # <<>> /\ Top.child \in Nat
  BY <1>1, TopFacts
<1>3. c \in Range(fn.order)
  <2>1. c \in Range(dom_children(Top.block))
    BY <1>1 DEF Range
  <2>2. fn.order \in Seq(Blocks(fn))
    BY <1>2, CodeParts DEF TypedFor
  <2> QED
    BY <2>1, <2>2, FilteredFacts DEF dom_children
<1> HIDE DEF c
<1>4. x \in Calls(fn, Vars)
  BY <1>2 DEF Calls
<1>5. Entered(stacks, c) \in [Vars -> Seq(Instrs(fn))] /\ Frame(c) \in Calls(fn, Vars)
  BY <1>2, <1>3, EnteredFacts
<1> HIDE DEF x
<1>6. frames' \in Seq(Calls(fn, Vars)) /\ frames' # <<>>
  BY <1>1, <1>2, <1>4, <1>5, CallsGoOn
<1>8. Keeps(fn, fn')
  BY <1>1, <1>2, KeepsItself DEF TypedFor
<1> QED
  BY <1>1, <1>5, <1>6, <1>8, TypeRewritten

LEMMA TypeReturn == TypeInv /\ Return => TypeInv'
<1> SUFFICES ASSUME TypeInv, Return PROVE TypeInv'
  OBVIOUS
<1>1. /\ pc = "rename" /\ idom' = idom /\ df' = df /\ fn' = fn
      /\ worklist' = worklist /\ phis' = phis
      /\ stacks' = [v \in Vars |-> Popped(stacks[v], Top.pushed[v])]
      /\ frames' = Front(frames)
      /\ pc' = IF Len(frames) = 1 THEN "place" ELSE pc
  BY DEF Return, InCall
<1>2. TypedFor(fn) /\ frames # <<>> /\ Top.pushed \in [Vars -> Nat] /\ Top \in Calls(fn, Vars)
  BY <1>1, TopFacts
<1>3. ASSUME NEW v \in Vars PROVE Popped(stacks[v], Top.pushed[v]) \in Seq(Instrs(fn))
  <2> DEFINE s == stacks[v]
             n == Len(s) - Top.pushed[v]
  <2>1. s \in Seq(Instrs(fn)) /\ Top.pushed[v] \in Nat
    BY <1>2 DEF TypedFor
  <2>2. n \in Int /\ \A k \in 1 .. n : s[k] \in Instrs(fn)
    BY <2>1
  <2> HIDE DEF s, n
  <2>3. SubSeq(s, 1, n) \in Seq(Instrs(fn))
    BY <2>2, SubSeqProperties
  <2> QED
    BY <2>3 DEF Popped, s, n
<1>4. stacks' \in [Vars -> Seq(Instrs(fn))]
  BY <1>1, <1>3
<1>5. /\ frames' \in Seq(Calls(fn, Vars)) /\ Len(frames') = Len(frames) - 1
      /\ Len(frames) \in Nat \ {0}
  BY <1>1, <1>2, FrontFacts DEF TypedFor
<1>6. pc' = "rename" <=> frames' # <<>>
  BY <1>1, <1>5
<1>7. TypedFor(fn)'
  <2>1. Vars' = Vars
    BY <1>1 DEF Vars
  <2> QED
    BY <1>1, <1>2, <1>4, <1>5, <2>1 DEF TypedFor
<1> QED
  BY <1>1, <1>6, <1>7 DEF TypeInv

LEMMA TypeAddPhiInstrs == TypeInv /\ AddPhiInstrs => TypeInv'
<1> SUFFICES ASSUME TypeInv, AddPhiInstrs PROVE TypeInv'
  OBVIOUS
<1>1. /\ pc = "place" /\ pc' = "verify" /\ idom' = idom /\ df' = df /\ fn' = PhisPlaced
      /\ worklist' = worklist /\ phis' = [b \in Blocks(fn) |-> <<>>] /\ stacks' = stacks
      /\ frames' = frames
  BY DEF AddPhiInstrs
<1>2. TypedFor(fn) /\ frames = <<>>
  BY <1>1 DEF TypeInv
<1>3. Keeps(fn, fn')
  BY <1>1, <1>2, PlacedFacts DEF TypedFor
<1>4. TypedFor(fn') /\ Blocks(fn') = Blocks(fn)
  BY <1>2, <1>3, KeptTypes DEF Keeps
<1>5. phis' \in [Blocks(fn') -> Seq(Vars \X Instrs(fn'))] /\ \A b \in Blocks(fn') : Range(phis'[b]) = {}
  BY <1>1, <1>4 DEF Range
<1>6. Vars' = Vars
  BY <1>1 DEF Vars
<1>7. TypedFor(fn)'
  BY <1>1, <1>4, <1>5, <1>6 DEF TypedFor
<1> QED
  BY <1>1, <1>2, <1>7 DEF TypeInv

LEMMA TypeVerify == TypeInv /\ verify_ssa => TypeInv'
  BY DEF TypeInv, TypedFor, verify_ssa, Vars

\* Every step of the pass keeps the types.
LEMMA TypeStep ==
  TypeInv /\ DominanceInv /\ DominanceInv' /\ [Next]_vars => TypeInv'
<1> SUFFICES ASSUME TypeInv, DominanceInv', [Next]_vars PROVE TypeInv'
  OBVIOUS
<1>1. CASE ComputeIdom
  BY <1>1, TypeComputeIdom
<1>2. CASE IdomRoundDone
  BY <1>2, TypeIdomRoundDone
<1>3. CASE ComputeFrontier
  BY <1>3, TypeComputeFrontier
<1>4. CASE FrontiersDone
  BY <1>4, TypeFrontiersDone
<1>5. CASE InsertPhis
  BY <1>5, TypeInsertPhis
<1>6. CASE StartRename
  BY <1>6, TypeStartRename
<1>7. CASE KeepInstr
  BY <1>7, TypeKeepInstr
<1>8. CASE DropAlloca
  BY <1>8, TypeDropAlloca
<1>9. CASE DropStore
  BY <1>9, TypeDropStore
<1>10. CASE DropLoad
  BY <1>10, TypeDropLoad
<1>11. CASE WireSuccessors
  BY <1>11, TypeWireSuccessors
<1>12. CASE RenameChild
  BY <1>12, TypeRenameChild
<1>13. CASE Return
  BY <1>13, TypeReturn
<1>14. CASE AddPhiInstrs
  BY <1>14, TypeAddPhiInstrs
<1>15. CASE verify_ssa
  BY <1>15, TypeVerify
<1>16. CASE UNCHANGED vars
  BY <1>16 DEF vars, TypeInv, TypedFor, Vars
<1> QED
  BY <1>1, <1>2, <1>3, <1>4, <1>5, <1>6, <1>7, <1>8, <1>9, <1>10, <1>11, <1>12, <1>13,
     <1>14, <1>15, <1>16 DEF Next

\* The types are an invariant; that of the tree rests on DominanceInv.
THEOREM TypeInvariant == Spec => []TypeInv
<1>1. Init => TypeInv
  BY TypeInit
<1>2. TypeInv /\ DominanceInv /\ DominanceInv' /\ [Next]_vars => TypeInv'
  BY TypeStep
<1> QED
  BY <1>1, <1>2, DominanceInvariant, PTL DEF Spec

\* Whatever function mem2reg is run on, what it keeps while it works is of the
\* right type: the function stays one, the phis are phis of the function, the
\* values on the stacks are its values, and rename is in blocks of its list.
THEOREM TypeCorrect == Spec => []TypeOK
<1>1. TypeInv => TypeOK
  <2> SUFFICES ASSUME TypeInv PROVE TypeOK
    OBVIOUS
  <2>1. TypedFor(fn)
    BY DEF TypeInv
  <2>2. \A k \in DOMAIN frames : frames[k].block \in Range(fn.order)
    <3>1. frames \in Seq(Calls(fn, Vars))
      BY <2>1 DEF TypedFor
    <3>2. \A k \in DOMAIN frames : frames[k] \in Calls(fn, Vars)
      BY <3>1
    <3> QED
      BY <3>2 DEF Calls
  <2> QED
    BY <2>1, <2>2 DEF TypeInv, TypedFor, TypeOK, CodeFits
<1> QED
  BY <1>1, TypeInvariant, PTL

-----------------------------------------------------------------------------
\* Rename comes to every block: what it has done, and what it will come to.

\* IsMemory, and a block without an access to memory that is promoted.
IsMem(f, V, i) ==
  \/ f.code[i].op = "alloca"
  \/ f.code[i].op \in {"load", "store"} /\ f.code[i].args[1] \in V
Clean(f, V, b) == \A i \in Range(Ins(f, b)) : ~IsMem(f, V, i)

Kids(f, t, b) == Filtered(f.order, {c \in Blocks(f) \ {f.entry} : t[c] = b})

\* Every block of the list is below the entry, and a block that is below
\* another is that block or below one of its children.
Spanned(f, t) ==
  \A c \in Range(f.order) :
    /\ f.entry \in Up(f, t, c)
    /\ \A n \in Up(f, t, c) :
         n = c \/ \E j \in DOMAIN Kids(f, t, n) : Kids(f, t, n)[j] \in Up(f, t, c)

\* A call will still come to the block c: it has yet to wire the successors of
\* its own block, or to call itself for a child that c is below.
WillReach(f, t, call, c) ==
  IF call.child = 0 THEN call.block \in Up(f, t, c)
  ELSE \E j \in DOMAIN Kids(f, t, call.block) :
         j >= call.child /\ Kids(f, t, call.block)[j] \in Up(f, t, c)

\* The instructions that a call has passed are not such accesses.
Passed(f, V, call) ==
  \A j \in 1 .. Len(Ins(f, call.block)) : j < call.next => ~IsMem(f, V, Ins(f, call.block)[j])

\* What rename has done and what it will do: only the last call is in its
\* block, and a block that is not clean will be come to.
Renaming(f, V, t, calls) ==
  /\ \A k \in 1 .. Len(calls) :
       IF calls[k].child = 0 THEN k = Len(calls) /\ Passed(f, V, calls[k])
       ELSE Clean(f, V, calls[k].block)
  /\ \A c \in Range(f.order) :
       Clean(f, V, c) \/ \E k \in 1 .. Len(calls) : WillReach(f, t, calls[k], c)

AccessInv ==
  /\ pc \in {"phis", "rename"} => Spanned(fn, idom)
  /\ pc = "rename" => Renaming(fn, Vars, idom, frames)
  /\ pc \in {"place", "verify", "done"} =>
       \A b \in Range(fn.order) : Clean(fn, Vars, b)

\* The tree is about the blocks only, and no step makes or moves an access.
LEMMA KeptAccess ==
  ASSUME NEW f, CodeFits(f), NEW g, Keeps(f, g), NEW V, NEW t
  PROVE  /\ \A i \in Instrs(f) : IsMem(g, V, i) <=> IsMem(f, V, i)
         /\ \A b : Up(g, t, b) = Up(f, t, b) /\ Kids(g, t, b) = Kids(f, t, b)
         /\ Spanned(f, t) => Spanned(g, t)
         /\ \A call, c : WillReach(g, t, call, c) <=> WillReach(f, t, call, c)
         /\ Range(g.order) = Range(f.order) /\ Range(f.order) \subseteq Blocks(f)
<1>1. g.entry = f.entry /\ g.order = f.order /\ Blocks(g) = Blocks(f)
  BY DEF Keeps
<1>2. ASSUME NEW i \in Instrs(f) PROVE IsMem(g, V, i) <=> IsMem(f, V, i)
  <2>1. SameAccess(f.code[i], g.code[i])
    BY DEF Keeps
  <2> QED
    BY <2>1 DEF SameAccess, IsMem
<1>3. \A b : Up(g, t, b) = Up(f, t, b) /\ Kids(g, t, b) = Kids(f, t, b)
  BY <1>1 DEF Up, Kids
<1>4. Spanned(f, t) => Spanned(g, t)
  BY <1>1, <1>3 DEF Spanned
<1>5. \A call, c : WillReach(g, t, call, c) <=> WillReach(f, t, call, c)
  BY <1>3 DEF WillReach
<1>6. Range(f.order) \subseteq Blocks(f)
  BY FunctionParts DEF CodeFits
<1> QED
  BY <1>1, <1>2, <1>3, <1>4, <1>5, <1>6

\* The instructions of a block are instructions of the function.
LEMMA BodiesHold ==
  ASSUME NEW f, CodeFits(f), NEW b \in Blocks(f)
  PROVE  Ins(f, b) \in Seq(Instrs(f)) /\ \A i \in Range(Ins(f, b)) : i \in Instrs(f)
<1>1. Ins(f, b) \in Seq(Instrs(f))
  BY FunctionParts DEF CodeFits
<1> QED
  BY <1>1 DEF Range

\* A step of rename that stays in the blocks in which the calls are, and takes
\* nothing into a block, leaves what rename has done and will do as it was.
LEMMA RenamingKept ==
  ASSUME NEW f, CodeFits(f), NEW g, Keeps(f, g), NEW V, NEW t,
         NEW C, NEW calls \in Seq(C), NEW later \in Seq(C), Len(later) = Len(calls),
         Renaming(f, V, t, calls),
         \A b \in Blocks(f) : Range(Ins(g, b)) \subseteq Range(Ins(f, b)),
         \A k \in 1 .. Len(calls) : /\ later[k].block = calls[k].block
                                    /\ later[k].block \in Blocks(f)
                                    /\ later[k].child = calls[k].child,
         \A k \in 1 .. Len(calls) : later[k].child = 0 => Passed(g, V, later[k])
  PROVE  Renaming(g, V, t, later)
<1>1. ASSUME NEW b \in Blocks(f), Clean(f, V, b) PROVE Clean(g, V, b)
  <2>1. \A i \in Range(Ins(g, b)) : i \in Range(Ins(f, b)) /\ i \in Instrs(f)
    BY BodiesHold
  <2> QED
    BY <1>1, <2>1, KeptAccess DEF Clean
<1>2. ASSUME NEW k \in 1 .. Len(later)
      PROVE  IF later[k].child = 0 THEN k = Len(later) /\ Passed(g, V, later[k])
             ELSE Clean(g, V, later[k].block)
  <2>1. k \in 1 .. Len(calls)
    BY <1>2
  <2>2. /\ calls[k].child = 0 => k = Len(calls)
        /\ calls[k].child # 0 => Clean(f, V, calls[k].block)
    BY <2>1 DEF Renaming
  <2> QED
    BY <1>1, <2>1, <2>2
<1>3. ASSUME NEW c \in Range(g.order)
      PROVE  Clean(g, V, c) \/ \E k \in 1 .. Len(later) : WillReach(g, t, later[k], c)
  <2>1. c \in Range(f.order) /\ c \in Blocks(f)
    BY <1>3, KeptAccess
  <2>2. CASE Clean(f, V, c)
    BY <1>1, <2>1, <2>2
  <2>3. CASE ~Clean(f, V, c)
    <3>1. PICK k \in 1 .. Len(calls) : WillReach(f, t, calls[k], c)
      BY <2>1, <2>3 DEF Renaming
    <3>2. WillReach(f, t, later[k], c)
      BY <3>1 DEF WillReach
    <3>3. WillReach(g, t, later[k], c)
      BY <3>2, KeptAccess
    <3> QED
      BY <3>1, <3>3
  <2> QED
    BY <2>2, <2>3
<1> QED
  BY <1>2, <1>3 DEF Renaming

\* What a call has passed stays where it is when the access it has come to is
\* taken out.
LEMMA PassedKept ==
  ASSUME NEW f, CodeFits(f), NEW g, Keeps(f, g), NEW V, NEW call,
         call.block \in Blocks(f), call.next \in Nat, NEW i \in Instrs(f), IsMem(f, V, i),
         Passed(f, V, call),
         Ins(g, call.block) = Filtered(Ins(f, call.block), Instrs(f) \ {i})
  PROVE  Passed(g, V, call)
<1> DEFINE s == Ins(f, call.block)
           I == Instrs(f)
           r == Filtered(s, I \ {i})
           n == call.next
<1>1. s \in Seq(I)
  BY BodiesHold
<1>2. \A k \in 1 .. Len(s) : k < n => s[k] \in I \ {i}
  <2>1. \A k \in 1 .. Len(s) : s[k] \in I
    BY <1>1
  <2> QED
    BY <2>1 DEF Passed
<1> HIDE DEF s, n, r
<1>3. \A k \in 1 .. Len(r) : k < n => k <= Len(s) /\ r[k] = s[k]
  <2> DEFINE S == I \ {i}
  <2>1. \A k \in 1 .. Len(s) : k < n => s[k] \in S
    BY <1>2
  <2>2. n \in Nat
    BY DEF n
  <2> HIDE DEF S, I
  <2> QED
    BY <1>1, <2>1, <2>2, FilteredPrefix DEF r, S
<1>4. ASSUME NEW k \in 1 .. Len(r), k < n PROVE ~IsMem(g, V, r[k])
  <2>1. Len(s) \in Nat /\ Len(r) \in Nat
    BY <1>1, FilteredFacts DEF r
  <2>2. k \in 1 .. Len(s) /\ r[k] = s[k]
    BY <1>3, <1>4, <2>1
  <2>3. ~IsMem(f, V, s[k]) /\ s[k] \in I
    BY <1>1, <1>4, <2>2 DEF Passed, s, n
  <2> QED
    BY <2>2, <2>3, KeptAccess
<1> QED
  BY <1>4 DEF Passed, s, r, n

\* The tree that is exact spans the blocks of the list.
LEMMA ExactTreeSpans ==
  ASSUME NEW f, GraphHere(f), NEW t, IsTree(f, t), LosesNone(f, t), Fixed(f, t),
         Range(f.order) = Reachable(f)
  PROVE  Spanned(f, t)
<1>1. /\ f.entry \in Reachable(f) /\ Held(f, t) = Reachable(f) /\ Reachable(f) \subseteq Blocks(f)
      /\ f.order \in Seq(Blocks(f))
  BY GraphFacts, FunctionParts DEF Fixed, GraphHere, Graph
<1> SUFFICES ASSUME NEW c \in Reachable(f)
             PROVE  /\ f.entry \in Up(f, t, c)
                    /\ \A n \in Up(f, t, c) :
                         n = c \/ \E j \in DOMAIN Kids(f, t, n) : Kids(f, t, n)[j] \in Up(f, t, c)
  BY DEF Spanned
<1>2. f.entry \in Up(f, t, c)
  <2>1. ReachedWithout(f, f.entry) \subseteq {}
    <3> DEFINE e == f.entry
               R == ReachedWithout(f, e)
    <3>1. \A X : /\ f.entry # e => f.entry \in X
                 /\ \A b \in X \cap Reachable(f) : \A s \in Range(Succ(f, b)) : s # e => s \in X
                 => R \subseteq X
      <4> HIDE DEF e
      <4> QED
        BY ReachedWithoutFacts DEF GraphHere
    <3> HIDE DEF R
    <3>2. ASSUME NEW X, X = {} PROVE R \subseteq X
      <4>1. /\ f.entry # e => f.entry \in X
            /\ \A b \in X \cap Reachable(f) : \A s \in Range(Succ(f, b)) : s # e => s \in X
        BY <3>2
      <4> QED
        BY <3>1, <4>1
    <3>3. R = {}
      <4> DEFINE Z == {}
      <4>1. Z = {}
        OBVIOUS
      <4> HIDE DEF Z
      <4>2. R \subseteq Z
        BY <3>2, <4>1
      <4> QED
        BY <4>1, <4>2
    <3> QED
      BY <3>3 DEF R
  <2>2. Dominates(f, f.entry, c)
    BY <2>1 DEF Dominates
  <2> QED
    BY <1>1, <2>2, FixedIsExact
<1> DEFINE U == Up(f, t, c)
           Below(n) == \E d \in U : d # f.entry /\ t[d] = n
           X == {n \in U : n = c \/ Below(n)}
<1>3. U \subseteq X
  <2>1. c \in U /\ U \subseteq Reachable(f) /\ \A d \in U : t[d] \in U
    BY <1>1, UpFacts
  <2>2. c \in X
    BY <2>1
  <2>3. ASSUME NEW d \in X PROVE t[d] \in X
    <3>1. CASE d = f.entry
      <4>1. t[d] = d
        BY <3>1 DEF IsTree
      <4> QED
        BY <2>3, <4>1
    <3>2. CASE d # f.entry
      <4>1. d \in U /\ t[d] \in U
        BY <2>1, <2>3
      <4>2. Below(t[d])
        BY <3>2, <4>1
      <4> QED
        BY <4>1, <4>2
    <3> QED
      BY <3>1, <3>2
  <2>4. \A Y : c \in Y /\ (\A d \in Y \cap Held(f, t) : t[d] \in Y) => U \subseteq Y
    BY <1>1, UpFacts
  <2> HIDE DEF X, U
  <2> QED
    BY <2>2, <2>3, <2>4
<1>4. ASSUME NEW n \in U, n # c
      PROVE  \E j \in DOMAIN Kids(f, t, n) : Kids(f, t, n)[j] \in U
  <2>1. PICK d \in U : d # f.entry /\ t[d] = n
    BY <1>3, <1>4
  <2>2. d \in Reachable(f) /\ d \in Blocks(f)
    BY <1>1, <2>1, UpFacts
  <2>3. d \in Range(Kids(f, t, n))
    <3> DEFINE S == {e \in Blocks(f) \ {f.entry} : t[e] = n}
    <3>1. d \in S /\ d \in Range(f.order)
      BY <2>1, <2>2
    <3> HIDE DEF S
    <3>2. Range(Filtered(f.order, S)) = Range(f.order) \cap S
      BY <1>1, FilteredFacts
    <3> QED
      BY <3>1, <3>2 DEF Kids, S
  <2> HIDE DEF U
  <2> QED
    BY <2>1, <2>3 DEF Range
<1> QED
  BY <1>2, <1>4

\* AccessInv with what it rests on.
LEMMA AccessFacts ==
  ASSUME TypeInv
  PROVE  /\ TypedFor(fn) /\ CodeFits(fn)
         /\ \A i : IsMemory(i) <=> IsMem(fn, Vars, i)
         /\ \A b : dom_children(b) = Kids(fn, idom, b)
         /\ \A k \in 1 .. Len(frames) : frames[k] \in Calls(fn, Vars)
         /\ \A k \in 1 .. Len(frames) : frames[k].block \in Blocks(fn)
<1>1. TypedFor(fn) /\ CodeFits(fn) /\ frames \in Seq(Calls(fn, Vars))
  BY DEF TypeInv, TypedFor
<1>2. ASSUME NEW k \in 1 .. Len(frames)
      PROVE  frames[k] \in Calls(fn, Vars) /\ frames[k].block \in Blocks(fn)
  <2>1. frames[k] \in Calls(fn, Vars)
    BY <1>1
  <2>2. frames[k].block \in Range(fn.order)
    BY <2>1 DEF Calls
  <2> QED
    BY <1>1, <2>1, <2>2, ListsHold
<1> QED
  BY <1>1, <1>2 DEF IsMemory, IsMem, dom_children, Kids

\* AccessInv holds at first, and every step of Next keeps it.
LEMMA AccessFrontiersDone ==
  TypeInv /\ DominanceInv /\ AccessInv /\ FrontiersDone => AccessInv'
<1> SUFFICES ASSUME DominanceInv, FrontiersDone PROVE AccessInv'
  OBVIOUS
<1>1. pc = "frontiers" /\ pc' = "phis" /\ fn' = fn /\ idom' = idom
  BY DEF FrontiersDone
<1>2. Spanned(fn, idom)
  BY <1>1, FunctionFacts, ExactTreeSpans DEF DominanceInv, Gathering
<1> QED
  BY <1>1, <1>2 DEF AccessInv

LEMMA AccessInsertPhis ==
  TypeInv /\ TypeInv' /\ AccessInv /\ InsertPhis => AccessInv'
<1> SUFFICES ASSUME TypeInv, TypeInv', AccessInv, InsertPhis PROVE AccessInv'
  OBVIOUS
<1>1. /\ pc = "phis" /\ pc' = "phis" /\ idom' = idom
      /\ \E c, u : fn' = [fn EXCEPT !.code = c, !.users = u]
  BY DEF InsertPhis
<1>2. IsRecord(fn)
  BY AccessFacts, CodeParts
<1>3. fn'.entry = fn.entry /\ fn'.order = fn.order /\ fn'.block = fn.block
  BY <1>1, <1>2 DEF IsRecord
<1>4. \A b : Up(fn', idom, b) = Up(fn, idom, b) /\ Kids(fn', idom, b) = Kids(fn, idom, b)
  BY <1>3 DEF Up, Kids, Blocks
<1>5. Spanned(fn', idom)
  BY <1>1, <1>3, <1>4 DEF AccessInv, Spanned
<1> QED
  BY <1>1, <1>5 DEF AccessInv

LEMMA AccessStartRename == TypeInv /\ AccessInv /\ StartRename => AccessInv'
<1> SUFFICES ASSUME AccessInv, StartRename PROVE AccessInv'
  OBVIOUS
<1> DEFINE x == Frame(fn.entry)
<1>1. /\ pc = "phis" /\ pc' = "rename" /\ fn' = fn /\ idom' = idom /\ worklist' = worklist
      /\ frames' = <<x>>
  BY DEF StartRename
<1>2. x.block = fn.entry /\ x.next = 1 /\ x.child = 0
  BY DEF Frame
<1> HIDE DEF x
<1>3. Spanned(fn, idom)
  BY <1>1 DEF AccessInv
<1>4. Len(<<x>>) = 1 /\ <<x>>[1] = x
  OBVIOUS
<1>5. Passed(fn, Vars, x)
  BY <1>2 DEF Passed
<1>6. \A c \in Range(fn.order) : WillReach(fn, idom, x, c)
  BY <1>2, <1>3 DEF Spanned, WillReach
<1>7. Renaming(fn, Vars, idom, <<x>>)
  BY <1>2, <1>4, <1>5, <1>6 DEF Renaming
<1>8. Vars' = Vars
  BY <1>1 DEF Vars
<1> QED
  BY <1>1, <1>3, <1>7, <1>8 DEF AccessInv

\* A call in the middle of its block.
LEMMA InTheBlock ==
  ASSUME TypeInv, AccessInv, InBody
  PROVE  /\ pc = "rename" /\ Renaming(fn, Vars, idom, frames) /\ Spanned(fn, idom)
         /\ Len(frames) \in Nat \ {0} /\ frames # <<>> /\ Top = frames[Len(frames)]
         /\ Body[Top.next] \in Instrs(fn) /\ Top.next \in Nat \ {0} /\ Top.block \in Blocks(fn)
         /\ Top.next \in 1 .. Len(Body) /\ Body = Ins(fn, Top.block)
         /\ Top.child = 0 => Passed(fn, Vars, Top)
         /\ Top \in Calls(fn, Vars)
<1>1. pc = "rename" /\ Top.next <= Len(Body)
  BY DEF InBody, InCall
<1>2. Renaming(fn, Vars, idom, frames) /\ Spanned(fn, idom)
  BY <1>1 DEF AccessInv
<1>3. /\ Len(frames) \in Nat \ {0} /\ Top = frames[Len(frames)] /\ frames # <<>>
      /\ Body[Top.next] \in Instrs(fn) /\ Top.next \in Nat \ {0} /\ Top.block \in Blocks(fn)
      /\ Top \in Calls(fn, Vars) /\ Top.next \in 1 .. Len(Body)
  BY <1>1, TopFacts
<1>4. Len(frames) \in 1 .. Len(frames)
  BY <1>3
<1>5. Top.child = 0 => Passed(fn, Vars, Top)
  BY <1>2, <1>3, <1>4 DEF Renaming
<1> QED
  BY <1>1, <1>2, <1>3, <1>5 DEF Body

LEMMA AccessKeepInstr == TypeInv /\ TypeInv' /\ AccessInv /\ KeepInstr => AccessInv'
<1> SUFFICES ASSUME TypeInv, TypeInv', AccessInv, KeepInstr PROVE AccessInv'
  OBVIOUS
<1> DEFINE x == [Top EXCEPT !.next = Top.next + 1]
           C == Calls(fn, Vars)
           n == Len(frames)
<1>1. /\ InBody /\ ~IsMemory(Body[Top.next]) /\ pc' = pc /\ fn' = fn /\ idom' = idom
      /\ worklist' = worklist /\ frames' = Append(Front(frames), x)
  BY DEF KeepInstr, SetCall
<1>2. /\ pc = "rename" /\ Renaming(fn, Vars, idom, frames) /\ Spanned(fn, idom)
      /\ frames # <<>> /\ Top = frames[n] /\ Top \in C /\ Top.next \in Nat \ {0}
      /\ Body = Ins(fn, Top.block) /\ Top.next \in 1 .. Len(Body)
      /\ (Top.child = 0 => Passed(fn, Vars, Top))
  BY <1>1, InTheBlock
<1>3. /\ frames \in Seq(C) /\ CodeFits(fn) /\ ~IsMem(fn, Vars, Body[Top.next])
      /\ \A k \in 1 .. n : frames[k].block \in Blocks(fn)
  BY <1>1, AccessFacts DEF TypedFor
<1>4. x \in C /\ x.block = Top.block /\ x.child = Top.child /\ x.next = Top.next + 1
  BY <1>2 DEF Calls
<1> HIDE DEF x, C
<1>5. /\ frames' \in Seq(C) /\ Len(frames') = n /\ frames'[n] = x /\ n \in Nat \ {0}
      /\ \A k \in 1 .. n : k # n => frames'[k] = frames[k]
  <2>1. Append(Front(frames), x) \in Seq(C)
        /\ Len(Append(Front(frames), x)) = Len(frames) /\ Append(Front(frames), x)[Len(frames)] = x
        /\ \A k \in 1 .. Len(frames) : k # Len(frames) => Append(Front(frames), x)[k] = frames[k]
    BY <1>2, <1>3, <1>4, GoesOn
  <2>2. n \in Nat \ {0}
    BY <1>2, <1>3, FrontFacts
  <2> QED
    BY <1>1, <2>1, <2>2
<1> HIDE DEF n
<1>6. ASSUME x.child = 0 PROVE Passed(fn, Vars, x)
  <2>1. ASSUME NEW j \in 1 .. Len(Body), j < Top.next + 1 PROVE ~IsMem(fn, Vars, Body[j])
    <3>1. CASE j = Top.next
      BY <1>3, <3>1
    <3>2. CASE j # Top.next
      <4>1. j < Top.next
        BY <1>2, <2>1, <3>2
      <4> QED
        BY <1>2, <1>4, <1>6, <4>1 DEF Passed
    <3> QED
      BY <3>1, <3>2
  <2> QED
    BY <1>2, <1>4, <2>1 DEF Passed
<1>7. ASSUME NEW k \in 1 .. n
      PROVE  /\ frames'[k].block = frames[k].block /\ frames'[k].child = frames[k].child
             /\ frames'[k].block \in Blocks(fn)
             /\ frames'[k].child = 0 => Passed(fn, Vars, frames'[k])
  <2>1. CASE k = n
    BY <1>2, <1>3, <1>4, <1>5, <1>6, <2>1
  <2>2. CASE k # n
    <3>1. frames'[k] = frames[k] /\ frames[k].child # 0
      BY <1>2, <1>5, <2>2 DEF Renaming, n
    <3> QED
      BY <1>3, <3>1 DEF n
  <2> QED
    BY <2>1, <2>2
<1>8. Renaming(fn, Vars, idom, frames')
  <2>1. Keeps(fn, fn)
    BY <1>3, KeepsItself
  <2>2. \A b \in Blocks(fn) : Range(Ins(fn, b)) \subseteq Range(Ins(fn, b))
    OBVIOUS
  <2> QED
    BY <1>2, <1>3, <1>5, <1>7, <2>1, <2>2, RenamingKept DEF n
<1>9. Vars' = Vars
  BY <1>1 DEF Vars
<1> QED
  BY <1>1, <1>2, <1>8, <1>9 DEF AccessInv

\* What has been passed depends on the block and on how far the call is.
LEMMA PassedAlike ==
  ASSUME NEW f, NEW V, NEW c, NEW d, c.block = d.block, c.next = d.next, Passed(f, V, c)
  PROVE  Passed(f, V, d)
BY DEF Passed

\* A step that takes the access that rename has come to out of its block.
LEMMA AccessDrops ==
  ASSUME TypeInv, AccessInv, InBody, IsMemory(Body[Top.next]),
         NEW g, Keeps(fn, g), g.block = WithoutInstr(fn, Top.block, Body[Top.next]).block,
         NEW later \in Seq(Calls(fn, Vars)), Len(later) = Len(frames),
         \A k \in 1 .. Len(frames) : /\ later[k].block = frames[k].block
                                     /\ later[k].next = frames[k].next
                                     /\ later[k].child = frames[k].child
  PROVE  Renaming(g, Vars, idom, later) /\ Spanned(g, idom)
<1> DEFINE n == Len(frames)
           C == Calls(fn, Vars)
           i == Body[Top.next]
           b == Top.block
           h == WithoutInstr(fn, b, i)
<1>1. /\ Renaming(fn, Vars, idom, frames) /\ Spanned(fn, idom)
      /\ n \in Nat \ {0} /\ Top = frames[n] /\ i \in Instrs(fn) /\ b \in Blocks(fn)
      /\ Top.next \in Nat
      /\ (Top.child = 0 => Passed(fn, Vars, Top))
  BY InTheBlock
<1>2. /\ CodeFits(fn) /\ frames \in Seq(C) /\ IsMem(fn, Vars, i)
      /\ \A k \in 1 .. n : frames[k].block \in Blocks(fn)
  BY AccessFacts DEF TypedFor
<1>3. /\ Ins(h, b) = Filtered(Ins(fn, b), Instrs(fn) \ {i})
      /\ \A c \in Blocks(fn) : c # b => Ins(h, c) = Ins(fn, c)
  <2> HIDE DEF i, b
  <2> QED
    BY <1>1, <1>2, WithoutFacts
<1>4. \A c : Ins(g, c) = Ins(h, c)
  BY DEF Ins
<1> HIDE DEF h, i, C
<1>5. ASSUME NEW c \in Blocks(fn) PROVE Range(Ins(g, c)) \subseteq Range(Ins(fn, c))
  <2>1. CASE c = b
    <3> DEFINE S == Instrs(fn) \ {i}
               s == Ins(fn, b)
    <3>1. s \in Seq(Instrs(fn))
      BY <1>1, <1>2, BodiesHold
    <3> HIDE DEF S, s
    <3>2. Range(Filtered(s, S)) = Range(s) \cap S
      BY <3>1, FilteredFacts
    <3> QED
      BY <1>3, <1>4, <2>1, <3>2 DEF S, s
  <2>2. CASE c # b
    BY <1>3, <1>4, <2>2
  <2> QED
    BY <2>1, <2>2
<1>6. ASSUME NEW k \in 1 .. n, later[k].child = 0 PROVE Passed(g, Vars, later[k])
  <2>1. frames[k].child = 0
    BY <1>6
  <2>2. k = n
    BY <2>1, <1>1 DEF Renaming
  <2>3. Passed(fn, Vars, Top)
    BY <1>1, <2>1, <2>2
  <2>4. Passed(g, Vars, Top)
    BY <1>1, <1>2, <1>3, <1>4, <2>3, PassedKept
  <2> QED
    BY <1>1, <2>2, <2>4, PassedAlike
<1>7. \A k \in 1 .. n : /\ later[k].block = frames[k].block /\ later[k].block \in Blocks(fn)
                        /\ later[k].child = frames[k].child
  BY <1>2
<1>8. later \in Seq(C)
  BY DEF C
<1>9. Renaming(g, Vars, idom, later)
  <2> HIDE DEF b
  <2> QED
    BY <1>1, <1>2, <1>5, <1>6, <1>7, <1>8, RenamingKept
<1>10. Spanned(g, idom)
  BY <1>1, <1>2, KeptAccess
<1> QED
  BY <1>9, <1>10

LEMMA AccessDropAlloca == TypeInv /\ AccessInv /\ DropAlloca => AccessInv'
<1> SUFFICES ASSUME TypeInv, AccessInv, DropAlloca PROVE AccessInv'
  OBVIOUS
<1> DEFINE i == Body[Top.next]
<1>1. /\ InBody /\ fn.code[i].op = "alloca" /\ fn' = WithoutInstr(fn, Top.block, i)
      /\ pc' = pc /\ idom' = idom /\ worklist' = worklist /\ frames' = frames
  BY DEF DropAlloca
<1>2. IsMemory(i) /\ frames \in Seq(Calls(fn, Vars))
  BY <1>1, AccessFacts DEF IsMemory, TypedFor
<1>3. pc = "rename" /\ Keeps(fn, fn')
  BY <1>1, DropFacts
<1>4. Renaming(fn', Vars, idom, frames) /\ Spanned(fn', idom)
  BY <1>1, <1>2, <1>3, AccessDrops
<1>5. Vars' = Vars
  BY <1>1 DEF Vars
<1> QED
  BY <1>1, <1>3, <1>4, <1>5 DEF AccessInv

LEMMA AccessDropStore == TypeInv /\ TypeInv' /\ AccessInv /\ DropStore => AccessInv'
<1> SUFFICES ASSUME TypeInv, TypeInv', AccessInv, DropStore PROVE AccessInv'
  OBVIOUS
<1> DEFINE i == Body[Top.next]
           v == fn.code[i].args[1]
           x == [Top EXCEPT !.pushed = [Top.pushed EXCEPT ![v] = Top.pushed[v] + 1]]
           C == Calls(fn, Vars)
           n == Len(frames)
<1>1. /\ InBody /\ IsMemory(i) /\ fn.code[i].op = "store" /\ fn' = WithoutInstr(fn, Top.block, i)
      /\ pc' = pc /\ idom' = idom /\ worklist' = worklist
  BY DEF DropStore
<1>2. frames' = Append(Front(frames), x)
  BY DEF DropStore, SetCall
<1>3. /\ pc = "rename" /\ frames # <<>> /\ Top = frames[n] /\ Top \in C
      /\ n \in Nat \ {0}
  BY <1>1, InTheBlock
<1>4. frames \in Seq(C) /\ v \in Vars
  BY <1>1, AccessFacts DEF TypedFor, IsMemory
<1>5. x \in C /\ x.block = Top.block /\ x.child = Top.child /\ x.next = Top.next
  <2>1. Top.pushed \in [Vars -> Nat]
    BY <1>3 DEF Calls
  <2> HIDE DEF v
  <2>2. [Top.pushed EXCEPT ![v] = Top.pushed[v] + 1] \in [Vars -> Nat]
    BY <1>4, <2>1
  <2> QED
    BY <1>3, <2>2 DEF Calls
<1>6. Keeps(fn, fn')
  BY <1>1, DropFacts
<1> HIDE DEF x, C, i, v
<1>7. /\ Append(Front(frames), x) \in Seq(C)
      /\ Len(Append(Front(frames), x)) = Len(frames) /\ Append(Front(frames), x)[Len(frames)] = x
      /\ \A k \in 1 .. Len(frames) : k # Len(frames) => Append(Front(frames), x)[k] = frames[k]
  BY <1>3, <1>4, <1>5, GoesOn
<1>8. \A k \in 1 .. Len(frames) : /\ frames'[k].block = frames[k].block
                                  /\ frames'[k].next = frames[k].next
                                  /\ frames'[k].child = frames[k].child
  BY <1>2, <1>3, <1>5, <1>7
<1>9. /\ frames' \in Seq(Calls(fn, Vars)) /\ Len(frames') = Len(frames)
  BY <1>2, <1>7 DEF C
<1>10. Renaming(fn', Vars, idom, frames') /\ Spanned(fn', idom)
  BY <1>1, <1>6, <1>8, <1>9, AccessDrops DEF i
<1>11. Vars' = Vars
  BY <1>1 DEF Vars
<1> QED
  BY <1>1, <1>3, <1>10, <1>11 DEF AccessInv

LEMMA AccessDropLoad == TypeInv /\ TypeInv' /\ AccessInv /\ DropLoad => AccessInv'
<1> SUFFICES ASSUME TypeInv, TypeInv', AccessInv, DropLoad PROVE AccessInv'
  OBVIOUS
<1>1. /\ InBody /\ IsMemory(Body[Top.next])
      /\ pc' = pc /\ idom' = idom /\ worklist' = worklist /\ frames' = frames
  BY DEF DropLoad
<1>2. pc = "rename" /\ frames \in Seq(Calls(fn, Vars))
  BY <1>1, AccessFacts DEF InBody, InCall, TypedFor
<1>3. Keeps(fn, fn') /\ fn'.block = WithoutInstr(fn, Top.block, Body[Top.next]).block
  BY LoadFacts
<1>4. Renaming(fn', Vars, idom, frames) /\ Spanned(fn', idom)
  BY <1>1, <1>2, <1>3, AccessDrops
<1>5. Vars' = Vars
  BY <1>1 DEF Vars
<1> QED
  BY <1>1, <1>2, <1>4, <1>5 DEF AccessInv

\* The last call of rename, and the ones below it.
LEMMA TheCalls ==
  ASSUME TypeInv, AccessInv, pc = "rename"
  PROVE  LET n == Len(frames)
         IN  /\ n \in Nat \ {0} /\ frames # <<>> /\ Top = frames[n] /\ Top.child \in Nat
             /\ frames \in Seq(Calls(fn, Vars)) /\ Top \in Calls(fn, Vars) /\ CodeFits(fn)
             /\ Top.block \in Blocks(fn) /\ Range(fn.order) \subseteq Blocks(fn)
             /\ Renaming(fn, Vars, idom, frames) /\ Spanned(fn, idom)
             /\ \A k \in 1 .. n : k # n => frames[k].child # 0 /\ Clean(fn, Vars, frames[k].block)
             /\ \A k \in 1 .. n : frames[k].block \in Blocks(fn)
             /\ IF Top.child = 0 THEN Passed(fn, Vars, Top) ELSE Clean(fn, Vars, Top.block)
<1> DEFINE n == Len(frames)
<1>1. /\ n \in Nat \ {0} /\ frames # <<>> /\ Top = frames[n] /\ Top.child \in Nat
      /\ Top \in Calls(fn, Vars) /\ Top.block \in Blocks(fn)
  BY TopFacts
<1>2. /\ frames \in Seq(Calls(fn, Vars)) /\ CodeFits(fn)
      /\ \A k \in 1 .. n : frames[k].block \in Blocks(fn)
  BY AccessFacts DEF TypedFor
<1>3. Renaming(fn, Vars, idom, frames) /\ Spanned(fn, idom)
  BY DEF AccessInv
<1>4. Range(fn.order) \subseteq Blocks(fn)
  BY <1>2, FunctionParts DEF CodeFits
<1>5. \A k \in 1 .. n : IF frames[k].child = 0 THEN k = n /\ Passed(fn, Vars, frames[k])
                        ELSE Clean(fn, Vars, frames[k].block)
  BY <1>3 DEF Renaming
<1>6. n \in 1 .. n
  BY <1>1
<1> HIDE DEF n
<1>7. IF Top.child = 0 THEN Passed(fn, Vars, Top) ELSE Clean(fn, Vars, Top.block)
  BY <1>1, <1>5, <1>6
<1>8. \A k \in 1 .. n : k # n => frames[k].child # 0 /\ Clean(fn, Vars, frames[k].block)
  BY <1>5
<1> QED
  BY <1>1, <1>2, <1>3, <1>4, <1>7, <1>8 DEF n

\* The blocks that are clean stay clean when only operands change.
LEMMA CleanKept ==
  ASSUME NEW f, CodeFits(f), NEW g, Keeps(f, g), g.block = f.block, NEW V,
         NEW b \in Blocks(f), Clean(f, V, b)
  PROVE  Clean(g, V, b)
<1>1. Ins(g, b) = Ins(f, b)
  BY DEF Ins
<1>2. \A i \in Range(Ins(f, b)) : i \in Instrs(f)
  BY BodiesHold
<1> QED
  BY <1>1, <1>2, KeptAccess DEF Clean

LEMMA AccessWireSuccessors == TypeInv /\ AccessInv /\ WireSuccessors => AccessInv'
<1> SUFFICES ASSUME TypeInv, AccessInv, WireSuccessors PROVE AccessInv'
  OBVIOUS
<1> DEFINE x == [Top EXCEPT !.child = 1]
           C == Calls(fn, Vars)
           n == Len(frames)
<1>1. /\ pc = "rename" /\ pc' = "rename" /\ idom' = idom /\ worklist' = worklist
      /\ frames' = Append(Front(frames), x) /\ Top.next > Len(Body) /\ Top.child = 0
  BY DEF WireSuccessors, InCall, SetCall
<1>2. /\ n \in Nat \ {0} /\ frames # <<>> /\ Top = frames[n] /\ Top \in C
      /\ frames \in Seq(C) /\ CodeFits(fn) /\ Top.block \in Blocks(fn)
      /\ Range(fn.order) \subseteq Blocks(fn)
      /\ Renaming(fn, Vars, idom, frames) /\ Spanned(fn, idom) /\ Passed(fn, Vars, Top)
      /\ \A k \in 1 .. n : k # n => frames[k].child # 0 /\ Clean(fn, Vars, frames[k].block)
      /\ \A k \in 1 .. n : frames[k].block \in Blocks(fn)
  BY <1>1, TheCalls
<1>3. Keeps(fn, fn') /\ fn'.block = fn.block
  BY WireFacts
<1>4. x \in C /\ x.block = Top.block /\ x.child = 1
  BY <1>2 DEF Calls
<1> HIDE DEF x, C
<1>5. /\ Append(Front(frames), x) \in Seq(C)
      /\ Len(Append(Front(frames), x)) = Len(frames) /\ Append(Front(frames), x)[Len(frames)] = x
      /\ \A k \in 1 .. Len(frames) : k # Len(frames) => Append(Front(frames), x)[k] = frames[k]
  BY <1>2, <1>4, GoesOn
<1>6. /\ Len(frames') = n /\ frames'[n] = x /\ n \in 1 .. n
      /\ \A k \in 1 .. n : k # n => frames'[k] = frames[k]
  BY <1>1, <1>2, <1>5
<1> HIDE DEF n
<1>7. Clean(fn, Vars, Top.block)
  <2> DEFINE s == Ins(fn, Top.block)
  <2>1. s \in Seq(Instrs(fn)) /\ Top.next > Len(s)
    BY <1>1, <1>2, BodiesHold DEF Body
  <2>2. Top.next \in Nat
    BY <1>2 DEF Calls, C
  <2>3. \A j \in 1 .. Len(s) : ~IsMem(fn, Vars, s[j])
    BY <1>2, <2>1, <2>2 DEF Passed
  <2>4. \A i \in Range(s) : \E j \in 1 .. Len(s) : s[j] = i
    BY <2>1 DEF Range
  <2> QED
    BY <2>3, <2>4 DEF Clean
<1>8. \A b \in Blocks(fn) : Clean(fn, Vars, b) => Clean(fn', Vars, b)
  BY <1>2, <1>3, CleanKept
<1>9. ASSUME NEW k \in 1 .. n
      PROVE  frames'[k].child # 0 /\ Clean(fn', Vars, frames'[k].block)
  <2>1. CASE k = n
    BY <1>2, <1>4, <1>6, <1>7, <1>8, <2>1
  <2>2. CASE k # n
    BY <1>2, <1>6, <1>8, <2>2
  <2> QED
    BY <2>1, <2>2
<1>10. ASSUME NEW c \in Range(fn.order), ~Clean(fn', Vars, c)
       PROVE  \E k \in 1 .. n : WillReach(fn', idom, frames'[k], c)
  <2>1. ~Clean(fn, Vars, c)
    BY <1>2, <1>8, <1>10
  <2>2. PICK k \in 1 .. n : WillReach(fn, idom, frames[k], c)
    BY <1>2, <2>1 DEF Renaming, n
  <2>3. CASE k # n
    <3>1. WillReach(fn, idom, frames'[k], c)
      BY <1>6, <2>2, <2>3
    <3> QED
      BY <1>2, <1>3, <3>1, KeptAccess
  <2>4. CASE k = n
    <3>1. Top.block \in Up(fn, idom, c)
      BY <1>1, <1>2, <2>2, <2>4 DEF WillReach
    <3>2. Top.block # c
      BY <1>7, <2>1
    <3>3. PICK j \in DOMAIN Kids(fn, idom, Top.block) :
            Kids(fn, idom, Top.block)[j] \in Up(fn, idom, c)
      BY <1>2, <3>1, <3>2 DEF Spanned
    <3>4. j >= 1
      <4> DEFINE S == {d \in Blocks(fn) \ {fn.entry} : idom[d] = Top.block}
      <4>1. fn.order \in Seq(Blocks(fn))
        BY <1>2, CodeParts
      <4> HIDE DEF S
      <4>2. Filtered(fn.order, S) \in Seq(Blocks(fn))
        BY <4>1, FilteredFacts
      <4>3. j \in DOMAIN Filtered(fn.order, S)
        BY DEF Kids, S
      <4> QED
        BY <4>2, <4>3
    <3>5. WillReach(fn, idom, x, c)
      BY <1>4, <3>3, <3>4 DEF WillReach
    <3>6. WillReach(fn', idom, x, c)
      BY <1>2, <1>3, <3>5, KeptAccess
    <3> QED
      BY <1>6, <3>6
  <2> QED
    BY <2>3, <2>4
<1>11. Range(fn'.order) = Range(fn.order) /\ Spanned(fn', idom)
  BY <1>2, <1>3, KeptAccess
<1>12. Renaming(fn', Vars, idom, frames')
  BY <1>6, <1>9, <1>10, <1>11 DEF Renaming
<1>13. Vars' = Vars
  BY <1>1 DEF Vars
<1> QED
  BY <1>1, <1>11, <1>12, <1>13 DEF AccessInv

LEMMA AccessRenameChild == TypeInv /\ TypeInv' /\ AccessInv /\ RenameChild => AccessInv'
<1> SUFFICES ASSUME TypeInv, TypeInv', AccessInv, RenameChild PROVE AccessInv'
  OBVIOUS
<1> DEFINE kids == Kids(fn, idom, Top.block)
           c == kids[Top.child]
           x == [Top EXCEPT !.child = Top.child + 1]
           y == Frame(c)
           C == Calls(fn, Vars)
           n == Len(frames)
<1>1. /\ pc = "rename" /\ pc' = "rename" /\ idom' = idom /\ fn' = fn
      /\ worklist' = worklist
      /\ frames' = Append(Append(Front(frames), x), y) /\ Top.child \in DOMAIN kids
  <2>1. dom_children(Top.block) = kids
    BY AccessFacts
  <2> QED
    BY <2>1 DEF RenameChild, InCall
<1>2. /\ n \in Nat \ {0} /\ frames # <<>> /\ Top = frames[n] /\ Top \in C /\ Top.child \in Nat
      /\ frames \in Seq(C) /\ CodeFits(fn)
      /\ Renaming(fn, Vars, idom, frames) /\ Spanned(fn, idom)
      /\ \A k \in 1 .. n : k # n => frames[k].child # 0 /\ Clean(fn, Vars, frames[k].block)
      /\ IF Top.child = 0 THEN Passed(fn, Vars, Top) ELSE Clean(fn, Vars, Top.block)
  BY <1>1, TheCalls
<1>3. kids \in Seq(Blocks(fn)) /\ Range(kids) \subseteq Range(fn.order)
  <2> DEFINE S == {d \in Blocks(fn) \ {fn.entry} : idom[d] = Top.block}
  <2>1. fn.order \in Seq(Blocks(fn))
    BY <1>2, CodeParts
  <2> HIDE DEF S
  <2>2. Filtered(fn.order, S) \in Seq(Blocks(fn)) /\ Range(Filtered(fn.order, S)) \subseteq Range(fn.order)
    BY <2>1, FilteredFacts
  <2> QED
    BY <2>2 DEF Kids, S
<1> HIDE DEF kids
<1>4. Top.child # 0 /\ c \in Range(fn.order)
  <2>1. DOMAIN kids = 1 .. Len(kids) /\ Len(kids) \in Nat
    BY <1>3
  <2>2. Top.child # 0
    BY <1>1, <2>1
  <2>3. c \in Range(kids)
    BY <1>1 DEF Range
  <2> QED
    BY <1>3, <2>2, <2>3
<1>5. y \in C /\ y.block = c /\ y.next = 1 /\ y.child = 0
  <2>1. TypedFor(fn)
    BY AccessFacts
  <2> HIDE DEF c
  <2> QED
    BY <1>4, <2>1, EnteredFacts DEF Frame
<1>6. x \in C /\ x.block = Top.block /\ x.child = Top.child + 1
  BY <1>2 DEF Calls
<1> HIDE DEF x, y, C
<1>7. LET r == Append(Append(Front(frames), x), y)
      IN  /\ r \in Seq(C) /\ r # <<>> /\ Len(r) = Len(frames) + 1
          /\ r[Len(frames)] = x /\ r[Len(frames) + 1] = y
          /\ \A k \in 1 .. Len(frames) : k # Len(frames) => r[k] = frames[k]
  BY <1>2, <1>5, <1>6, CallsAnother
<1>8. /\ Len(frames') = n + 1 /\ frames'[n] = x /\ frames'[n + 1] = y
      /\ \A k \in 1 .. n : k # n => frames'[k] = frames[k]
  BY <1>1, <1>7
<1>9. n \in 1 .. n + 1 /\ n + 1 \in 1 .. n + 1 /\ \A k \in 1 .. n : k \in 1 .. n + 1
  BY <1>2
<1> HIDE DEF n
<1>10. ASSUME NEW k \in 1 .. n + 1
       PROVE  IF frames'[k].child = 0 THEN k = n + 1 /\ Passed(fn, Vars, frames'[k])
              ELSE Clean(fn, Vars, frames'[k].block)
  <2>1. CASE k = n + 1
    <3>1. Passed(fn, Vars, y)
      BY <1>5 DEF Passed
    <3> QED
      BY <1>5, <1>8, <2>1, <3>1
  <2>2. CASE k = n
    <3>1. frames'[k] = x
      BY <1>8, <2>2
    <3>2. Top.child + 1 # 0
      BY <1>2
    <3> QED
      BY <1>2, <1>4, <1>6, <3>1, <3>2
  <2>3. CASE k # n /\ k # n + 1
    <3>1. k \in 1 .. n /\ k # n
      BY <1>2, <2>3
    <3> QED
      BY <1>2, <1>8, <3>1
  <2> QED
    BY <2>1, <2>2, <2>3
<1>11. ASSUME NEW d \in Range(fn.order), ~Clean(fn, Vars, d)
       PROVE  \E k \in 1 .. n + 1 : WillReach(fn, idom, frames'[k], d)
  <2>1. PICK k \in 1 .. n : WillReach(fn, idom, frames[k], d)
    BY <1>2, <1>11 DEF Renaming, n
  <2>2. CASE k # n
    BY <1>8, <1>9, <2>1, <2>2
  <2>3. CASE k = n
    <3>1. PICK j \in DOMAIN kids : j >= Top.child /\ kids[j] \in Up(fn, idom, d)
      BY <1>2, <1>4, <2>1, <2>3 DEF WillReach, kids
    <3>2. CASE j = Top.child
      <4>1. WillReach(fn, idom, y, d)
        BY <1>5, <3>1, <3>2 DEF WillReach
      <4> QED
        BY <1>8, <1>9, <4>1
    <3>3. CASE j # Top.child
      <4>1. j >= Top.child + 1 /\ Top.child + 1 # 0
        BY <1>2, <1>3, <3>1, <3>3
      <4>2. WillReach(fn, idom, x, d)
        BY <1>6, <3>1, <4>1 DEF WillReach, kids
      <4> QED
        BY <1>8, <1>9, <4>2
    <3> QED
      BY <3>2, <3>3
  <2> QED
    BY <2>2, <2>3
<1>12. Renaming(fn, Vars, idom, frames')
  BY <1>8, <1>10, <1>11 DEF Renaming
<1>13. Vars' = Vars
  BY <1>1 DEF Vars
<1> QED
  BY <1>1, <1>2, <1>12, <1>13 DEF AccessInv

LEMMA AccessReturn == TypeInv /\ AccessInv /\ Return => AccessInv'
<1> SUFFICES ASSUME TypeInv, AccessInv, Return PROVE AccessInv'
  OBVIOUS
<1> DEFINE kids == Kids(fn, idom, Top.block)
           n == Len(frames)
           m == Len(frames')
<1>1. /\ pc = "rename" /\ idom' = idom /\ fn' = fn /\ worklist' = worklist
      /\ frames' = Front(frames) /\ Top.child > Len(kids)
      /\ pc' = IF n = 1 THEN "place" ELSE "rename"
  <2>1. dom_children(Top.block) = kids
    BY AccessFacts
  <2> QED
    BY <2>1 DEF Return, InCall
<1>2. /\ n \in Nat \ {0} /\ frames # <<>> /\ Top = frames[n] /\ Top.child \in Nat
      /\ frames \in Seq(Calls(fn, Vars)) /\ CodeFits(fn)
      /\ Renaming(fn, Vars, idom, frames) /\ Spanned(fn, idom)
      /\ \A k \in 1 .. n : k # n => frames[k].child # 0 /\ Clean(fn, Vars, frames[k].block)
  BY <1>1, TheCalls
<1>3. kids \in Seq(Blocks(fn))
  <2> DEFINE S == {d \in Blocks(fn) \ {fn.entry} : idom[d] = Top.block}
  <2>1. fn.order \in Seq(Blocks(fn))
    BY <1>2, CodeParts
  <2> HIDE DEF S
  <2>2. Filtered(fn.order, S) \in Seq(Blocks(fn))
    BY <2>1, FilteredFacts
  <2> QED
    BY <2>2 DEF Kids, S
<1> HIDE DEF kids
<1>4. m = n - 1 /\ \A k \in 1 .. m : frames'[k] = frames[k] /\ k \in 1 .. n /\ k # n
  <2>1. /\ Len(Front(frames)) = Len(frames) - 1
        /\ \A k \in 1 .. Len(frames) - 1 : Front(frames)[k] = frames[k]
    BY <1>2, FrontFacts
  <2>2. \A k \in 1 .. n - 1 : k \in 1 .. n /\ k # n
    BY <1>2
  <2> QED
    BY <1>1, <2>1, <2>2
<1> HIDE DEF m, n
<1>5. \A k \in 1 .. m : frames'[k].child # 0 /\ Clean(fn, Vars, frames'[k].block)
  BY <1>2, <1>4
<1>6. ASSUME NEW d \in Range(fn.order), ~Clean(fn, Vars, d)
      PROVE  \E k \in 1 .. m : WillReach(fn, idom, frames'[k], d)
  <2>1. PICK k \in 1 .. n : WillReach(fn, idom, frames[k], d)
    BY <1>2, <1>6 DEF Renaming, n
  <2>2. k # n
    <3>1. SUFFICES ASSUME k = n PROVE FALSE
      OBVIOUS
    <3>2. Len(kids) \in Nat /\ Top.child # 0
      BY <1>1, <1>2, <1>3
    <3>3. PICK j \in DOMAIN kids : j >= Top.child
      BY <1>2, <2>1, <3>1, <3>2 DEF WillReach, kids
    <3> QED
      BY <1>1, <1>2, <1>3, <3>3
  <2>3. k \in 1 .. m
    BY <1>2, <1>4, <2>2
  <2> QED
    BY <1>4, <2>1, <2>3
<1>7. Renaming(fn, Vars, idom, frames')
  BY <1>5, <1>6 DEF Renaming, m
<1>8. CASE n = 1
  <2>1. \A d \in Range(fn.order) : Clean(fn, Vars, d)
    BY <1>4, <1>6, <1>8
  <2>2. pc' = "place" /\ Vars' = Vars
    BY <1>1, <1>8 DEF Vars
  <2> QED
    BY <1>1, <2>1, <2>2 DEF AccessInv
<1>9. CASE n # 1
  <2>1. pc' = "rename" /\ Vars' = Vars
    BY <1>1, <1>9 DEF Vars
  <2> QED
    BY <1>1, <1>2, <1>7, <2>1 DEF AccessInv
<1> QED
  BY <1>8, <1>9

LEMMA AccessAddPhiInstrs == TypeInv /\ AccessInv /\ AddPhiInstrs => AccessInv'
<1> SUFFICES ASSUME TypeInv, AccessInv, AddPhiInstrs PROVE AccessInv'
  OBVIOUS
<1>1. /\ pc = "place" /\ pc' = "verify" /\ fn' = PhisPlaced /\ worklist' = worklist
  BY DEF AddPhiInstrs
<1>2. /\ CodeFits(fn) /\ phis \in [Blocks(fn) -> Seq(Vars \X Instrs(fn))]
      /\ \A b \in Blocks(fn) : \A p \in Range(phis[b]) : IsPhi(fn, p[2])
  BY DEF TypeInv, TypedFor
<1>3. /\ Keeps(fn, fn')
      /\ \A b \in Blocks(fn) : \A i \in Range(Ins(fn', b)) :
           i \in Range(Ins(fn, b)) \/ (i \in Instrs(fn) /\ IsPhi(fn, i))
  BY <1>1, <1>2, PlacedFacts
<1>4. /\ \A i \in Instrs(fn) : IsMem(fn', Vars, i) <=> IsMem(fn, Vars, i)
      /\ Range(fn'.order) = Range(fn.order) /\ Range(fn.order) \subseteq Blocks(fn)
  BY <1>2, <1>3, KeptAccess
<1>5. ASSUME NEW b \in Range(fn.order) PROVE Clean(fn', Vars, b)
  <2>1. b \in Blocks(fn) /\ Clean(fn, Vars, b)
    BY <1>1, <1>4 DEF AccessInv
  <2>2. ASSUME NEW i \in Range(Ins(fn', b)) PROVE ~IsMem(fn', Vars, i)
    <3>1. CASE i \in Range(Ins(fn, b))
      <4>1. i \in Instrs(fn)
        BY <1>2, <2>1, <3>1, BodiesHold
      <4> QED
        BY <1>4, <2>1, <3>1, <4>1 DEF Clean
    <3>2. CASE i \in Instrs(fn) /\ IsPhi(fn, i)
      <4>1. ~IsMem(fn, Vars, i)
        BY <3>2 DEF IsMem, IsPhi
      <4> QED
        BY <1>4, <3>2, <4>1
    <3> QED
      BY <1>3, <2>1, <3>1, <3>2
  <2> QED
    BY <2>2 DEF Clean
<1>6. Vars' = Vars
  BY <1>1 DEF Vars
<1> QED
  BY <1>1, <1>4, <1>5, <1>6 DEF AccessInv

\* Every step keeps what rename has done and will do.
LEMMA AccessStep ==
  /\ DominanceInv /\ TypeInv /\ TypeInv' /\ AccessInv /\ [Next]_vars
  => AccessInv'
<1> SUFFICES ASSUME DominanceInv, TypeInv, TypeInv', AccessInv, [Next]_vars PROVE AccessInv'
  OBVIOUS
<1>1. CASE ComputeIdom \/ IdomRoundDone \/ ComputeFrontier
  <2>1. pc' \in {"idoms", "frontiers", "crashed"}
    BY <1>1 DEF ComputeIdom, IdomRoundDone, ComputeFrontier
  <2> QED
    BY <2>1 DEF AccessInv
<1>4. CASE FrontiersDone
  BY <1>4, AccessFrontiersDone
<1>5. CASE InsertPhis
  BY <1>5, AccessInsertPhis
<1>6. CASE StartRename
  BY <1>6, AccessStartRename
<1>7. CASE KeepInstr
  BY <1>7, AccessKeepInstr
<1>8. CASE DropAlloca
  BY <1>8, AccessDropAlloca
<1>9. CASE DropStore
  BY <1>9, AccessDropStore
<1>10. CASE DropLoad
  BY <1>10, AccessDropLoad
<1>11. CASE WireSuccessors
  BY <1>11, AccessWireSuccessors
<1>12. CASE RenameChild
  BY <1>12, AccessRenameChild
<1>13. CASE Return
  BY <1>13, AccessReturn
<1>14. CASE AddPhiInstrs
  BY <1>14, AccessAddPhiInstrs
<1>15. CASE verify_ssa
  BY <1>15 DEF verify_ssa, AccessInv, Vars
<1>16. CASE UNCHANGED vars
  BY <1>16 DEF vars, AccessInv, Vars
<1> QED
  BY <1>1, <1>4, <1>5, <1>6, <1>7, <1>8, <1>9, <1>10, <1>11, <1>12, <1>13,
     <1>14, <1>15, <1>16 DEF Next

\* What rename has done and will do is an invariant.
THEOREM AccessInvariant == Spec => []AccessInv
<1>1. Init => AccessInv
  BY DEF Init, AccessInv
<1>2. /\ DominanceInv /\ TypeInv /\ TypeInv' /\ AccessInv /\ [Next]_vars
      => AccessInv'
  BY AccessStep
<1> QED
  BY <1>1, <1>2, DominanceInvariant, TypeInvariant, PTL DEF Spec

\* Whatever the graph, rename comes to every block and takes out every load
\* and every store of a promoted variable and every alloca: none is left.
THEOREM NothingIsAccessed == Spec => []NoAccessLeft
<1>1. TypeInv /\ AccessInv => NoAccessLeft
  <2> SUFFICES ASSUME TypeInv, AccessInv, pc = "done", NEW i \in Placed(fn)
               PROVE  ~IsMemory(i)
    BY DEF NoAccessLeft
  <2>1. PICK b \in Range(fn.order) : i \in Range(Ins(fn, b))
    BY DEF Placed
  <2>2. Clean(fn, Vars, b)
    BY DEF AccessInv
  <2> QED
    BY <2>1, <2>2, AccessFacts DEF Clean
<1> QED
  BY <1>1, AccessInvariant, TypeInvariant, PTL

-----------------------------------------------------------------------------
\* The phis of a variable are the iterated frontier of its stores.

\* A variable has one phi in a block at most.
OnePhi(v, list) == \A j, k \in DOMAIN list : list[j][1] = v /\ list[k][1] = v => j = k

\* What stands still to be done about the phis of a variable is on its worklist.
PhiInv ==
  pc = "phis" =>
    /\ \A n \in Blocks(fn) : df[n] \subseteq Range(fn.order)
    /\ \A v \in Vars :
         /\ worklist[v] \subseteq DefBlocks(v) \cup HasPhi(v)
         /\ \A n \in DefBlocks(v) \cup HasPhi(v) : n \in worklist[v] \/ df[n] \subseteq HasPhi(v)
         /\ \A S : WantsNoMore(v, S) => HasPhi(v) \subseteq S
         /\ \A b \in Blocks(fn) : OnePhi(v, phis[b])

\* When the frontiers are there no block has a phi, and every store is to be done.
LEMMA PhiFrontiersDone == TypeInv /\ DominanceInv /\ FrontiersDone => PhiInv'
<1> SUFFICES ASSUME TypeInv, DominanceInv, FrontiersDone PROVE PhiInv'
  OBVIOUS
<1>1. /\ pc = "frontiers" /\ fn' = fn /\ df' = df /\ phis' = phis
      /\ worklist' = [v \in Promotable |-> DefBlocks(v)]
  BY DEF FrontiersDone
<1>2. \A b \in Blocks(fn) : phis[b] = <<>>
  <2>1. Vars = {} /\ phis \in [Blocks(fn) -> Seq(Vars \X Instrs(fn))]
    BY <1>1 DEF TypeInv, TypedFor
  <2>2. \A b \in Blocks(fn) : phis[b] \in Seq({})
    BY <2>1
  <2>3. \A s \in Seq({}) : s = <<>>
    OBVIOUS
  <2> QED
    BY <2>2, <2>3
<1>3. \A b \in Blocks(fn) : Range(phis[b]) = {} /\ DOMAIN phis[b] = {}
  BY <1>2 DEF Range
<1>4. \A v : HasPhi(v)' = {} /\ DefBlocks(v)' = DefBlocks(v)
  BY <1>1, <1>3 DEF HasPhi, DefBlocks, Uses
<1>5. \A n \in Blocks(fn) : df[n] \subseteq Range(fn.order)
  <2>1. Gathered(fn, idom, df, at) /\ fn.order \in Seq(Blocks(fn))
    BY <1>1, CodeParts DEF DominanceInv, Gathering, TypeInv, TypedFor
  <2> QED
    BY <2>1 DEF Gathered, Range
<1>6. Vars' = Promotable /\ \A v \in Promotable : worklist'[v] = DefBlocks(v)
  BY <1>1 DEF Vars
<1> QED
  BY <1>1, <1>3, <1>4, <1>5, <1>6 DEF PhiInv, OnePhi

\* insert_phi: the blocks that get a phi are to be done, but those with a store,
\* which have been or still are (mem2reg.hpp 141-152).
LEMMA PhiInsertPhis == TypeInv /\ PhiInv /\ InsertPhis => PhiInv'
<1> SUFFICES ASSUME TypeInv, PhiInv, InsertPhis PROVE PhiInv'
  OBVIOUS
<1>0. PICK v \in Least({u \in Vars : worklist[u] # {}}) : \E n \in worklist[v] :
       LET ys == Filtered(fn.order, df[n] \ HasPhi(v))
           id(y) == Len(fn.code) + CHOOSE k \in DOMAIN ys : ys[k] = y
       IN  /\ phis' = [b \in Blocks(fn) |->
                         IF b \in Range(ys) THEN Append(phis[b], <<v, id(b)>>) ELSE phis[b]]
           /\ fn' = [fn EXCEPT !.code = fn.code \o [k \in DOMAIN ys |-> NewPhi(v, ys[k])],
                               !.users = fn.users \o [k \in DOMAIN ys |-> <<>>]]
           /\ worklist' = [worklist EXCEPT ![v] = (worklist[v] \ {n}) \cup (Range(ys) \ DefBlocks(v))]
  BY DEF InsertPhis
<1>1. PICK n \in worklist[v] :
       LET ys == Filtered(fn.order, df[n] \ HasPhi(v))
           id(y) == Len(fn.code) + CHOOSE k \in DOMAIN ys : ys[k] = y
       IN  /\ phis' = [b \in Blocks(fn) |->
                         IF b \in Range(ys) THEN Append(phis[b], <<v, id(b)>>) ELSE phis[b]]
           /\ fn' = [fn EXCEPT !.code = fn.code \o [k \in DOMAIN ys |-> NewPhi(v, ys[k])],
                               !.users = fn.users \o [k \in DOMAIN ys |-> <<>>]]
           /\ worklist' = [worklist EXCEPT ![v] = (worklist[v] \ {n}) \cup (Range(ys) \ DefBlocks(v))]
  BY <1>0
<1> DEFINE ys == Filtered(fn.order, df[n] \ HasPhi(v))
           id(y) == Len(fn.code) + CHOOSE k \in DOMAIN ys : ys[k] = y
           B == Blocks(fn)
           Y == Range(ys)
<1>2. /\ pc = "phis" /\ pc' = "phis" /\ df' = df
      /\ phis' = [b \in B |-> IF b \in Y THEN Append(phis[b], <<v, id(b)>>) ELSE phis[b]]
      /\ worklist' = [worklist EXCEPT ![v] = (worklist[v] \ {n}) \cup (Y \ DefBlocks(v))]
  BY <1>1 DEF InsertPhis
<1>3. /\ TypedFor(fn) /\ CodeFits(fn) /\ v \in Vars /\ v \in Instrs(fn) /\ fn.order \in Seq(B)
      /\ Range(fn.order) \subseteq B
      /\ worklist \in [Vars -> SUBSET B] /\ phis \in [B -> Seq(Vars \X Instrs(fn))]
      /\ n \in B
  BY CodeParts, ListsHold DEF TypeInv, TypedFor, Least
<1>4. Y = df[n] \ HasPhi(v) /\ Y \subseteq B /\ ys \in Seq(B)
  <2> DEFINE S == df[n] \ HasPhi(v)
  <2>1. S \subseteq Range(fn.order)
    BY <1>2, <1>3 DEF PhiInv
  <2> HIDE DEF S
  <2>2. Filtered(fn.order, S) \in Seq(B) /\ Range(Filtered(fn.order, S)) = Range(fn.order) \cap S
    BY <1>3, FilteredFacts
  <2> QED
    BY <1>3, <2>1, <2>2 DEF S
<1>5. Keeps(fn, fn') /\ fn'.block = fn.block
  <2> DEFINE g == [fn EXCEPT !.code = fn.code \o [k \in DOMAIN ys |-> NewPhi(v, ys[k])],
                             !.users = fn.users \o [k \in DOMAIN ys |-> <<>>]]
  <2>1. fn' = g
    BY <1>1
  <2> HIDE DEF ys
  <2>2. Keeps(fn, g) /\ g.block = fn.block
    BY <1>3, <1>4, InsertedFacts
  <2> QED
    BY <2>1, <2>2
<1> HIDE DEF ys, id, Y
<1>6. Blocks(fn') = B /\ fn'.order = fn.order /\ Vars' = Vars
  <2>1. DOMAIN worklist' = DOMAIN worklist
    BY <1>2
  <2> QED
    BY <1>5, <2>1 DEF Keeps, Vars
<1>7. ASSUME NEW u PROVE DefBlocks(u)' = DefBlocks(u)
  <2>1. ASSUME NEW b \in Range(fn.order), NEW i \in Range(Ins(fn, b))
        PROVE  Uses(i, "store", u)' <=> Uses(i, "store", u)
    <3>1. i \in Instrs(fn)
      BY <1>3, <2>1, BodiesHold
    <3>2. SameAccess(fn.code[i], fn'.code[i])
      BY <1>5, <3>1 DEF Keeps
    <3> QED
      BY <3>2 DEF SameAccess, Uses
  <2>2. \A b : Ins(fn', b) = Ins(fn, b)
    BY <1>5 DEF Ins
  <2> QED
    BY <1>6, <2>1, <2>2 DEF DefBlocks
<1>8. ASSUME NEW u \in Vars PROVE HasPhi(u)' = IF u = v THEN HasPhi(u) \cup Y ELSE HasPhi(u)
  <2>1. ASSUME NEW b \in B
        PROVE  b \in HasPhi(u)' <=> b \in HasPhi(u) \/ (u = v /\ b \in Y)
    <3> DEFINE l == phis[b]
               e == <<v, id(b)>>
    <3>1. b \in HasPhi(u)' <=> \E p \in Range(phis'[b]) : p[1] = u
      BY <1>6 DEF HasPhi
    <3>2. b \in HasPhi(u) <=> \E p \in Range(l) : p[1] = u
      BY DEF HasPhi
    <3>3. CASE b \in Y
      <4>1. phis'[b] = Append(l, e) /\ e[1] = v
        BY <1>2, <3>3
      <4>2. l \in Seq(Vars \X Instrs(fn))
        BY <1>3
      <4> HIDE DEF l, e
      <4> DEFINE T == (Vars \X Instrs(fn)) \cup {e}
      <4>4. e \in T /\ (Vars \X Instrs(fn)) \subseteq T
        OBVIOUS
      <4>5. l \in Seq(T)
        BY <4>2, <4>4, SeqWider
      <4> HIDE DEF T
      <4>3. Range(Append(l, e)) = Range(l) \cup {e}
        BY <4>4, <4>5, RangeOfAppend
      <4> QED
        BY <3>1, <3>2, <3>3, <4>1, <4>3
    <3>4. CASE b \notin Y
      BY <1>2, <3>1, <3>2, <3>4
    <3> QED
      BY <3>3, <3>4
  <2>2. HasPhi(u) \subseteq B /\ HasPhi(u)' \subseteq B
    BY <1>6 DEF HasPhi
  <2> QED
    BY <1>4, <2>1, <2>2
<1>9. \A u \in Vars : worklist'[u] = IF u = v THEN (worklist[v] \ {n}) \cup (Y \ DefBlocks(v))
                                     ELSE worklist[u]
  BY <1>2, <1>3
<1>10. ASSUME NEW u \in Vars
       PROVE  /\ worklist'[u] \subseteq DefBlocks(u)' \cup HasPhi(u)'
              /\ \A m \in DefBlocks(u)' \cup HasPhi(u)' :
                   m \in worklist'[u] \/ df'[m] \subseteq HasPhi(u)'
              /\ \A S : WantsNoMore(u, S)' => HasPhi(u)' \subseteq S
  <2>1. /\ worklist[u] \subseteq DefBlocks(u) \cup HasPhi(u)
        /\ \A m \in DefBlocks(u) \cup HasPhi(u) : m \in worklist[u] \/ df[m] \subseteq HasPhi(u)
        /\ \A S : WantsNoMore(u, S) => HasPhi(u) \subseteq S
    BY <1>2 DEF PhiInv
  <2>2. \A S : WantsNoMore(u, S)' <=> WantsNoMore(u, S)
    BY <1>2, <1>7 DEF WantsNoMore
  <2>3. CASE u # v
    <3>1. HasPhi(u)' = HasPhi(u) /\ worklist'[u] = worklist[u]
      BY <1>8, <1>9, <2>3
    <3> QED
      BY <1>2, <1>7, <2>1, <2>2, <3>1
  <2>4. CASE u = v
    <3>1. /\ HasPhi(u)' = HasPhi(u) \cup Y /\ DefBlocks(u)' = DefBlocks(u)
          /\ worklist'[u] = (worklist[u] \ {n}) \cup (Y \ DefBlocks(u))
      BY <1>7, <1>8, <1>9, <2>4
    <3>2. ASSUME NEW m \in DefBlocks(u)' \cup HasPhi(u)', m \notin worklist'[u]
          PROVE  df'[m] \subseteq HasPhi(u)'
      <4>1. CASE m = n
        BY <1>2, <1>4, <2>4, <3>1, <4>1
      <4>2. CASE m # n
        <5>1. m \in DefBlocks(u) \cup HasPhi(u) /\ m \notin worklist[u]
          BY <3>1, <3>2, <4>2
        <5> QED
          BY <1>2, <2>1, <3>1, <5>1
      <4> QED
        BY <4>1, <4>2
    <3>3. ASSUME NEW S, WantsNoMore(u, S) PROVE HasPhi(u)' \subseteq S
      <4>1. n \in DefBlocks(u) \cup HasPhi(u)
        BY <1>1, <2>1, <2>4
      <4>2. HasPhi(u) \subseteq S
        BY <2>1, <3>3
      <4>3. df[n] \subseteq S
        BY <3>3, <4>1, <4>2 DEF WantsNoMore
      <4> QED
        BY <1>4, <2>4, <3>1, <4>2, <4>3
    <3> QED
      BY <2>1, <2>2, <3>1, <3>2, <3>3
  <2> QED
    BY <2>3, <2>4
<1>11. ASSUME NEW u \in Vars, NEW b \in B PROVE OnePhi(u, phis'[b])
  <2> DEFINE l == phis[b]
             e == <<v, id(b)>>
  <2>1. OnePhi(u, l)
    BY <1>2 DEF PhiInv
  <2>2. CASE b \in Y
    <3>1. phis'[b] = Append(l, e) /\ e[1] = v
      BY <1>2, <2>2
    <3>2. l \in Seq(Vars \X Instrs(fn))
      BY <1>3
    <3>3. \A k \in DOMAIN l : l[k][1] # v
      BY <1>4, <2>2 DEF HasPhi, Range
    <3> HIDE DEF l, e
    <3>4. /\ Len(l) \in Nat /\ DOMAIN l = 1 .. Len(l) /\ DOMAIN Append(l, e) = 1 .. Len(l) + 1
          /\ Append(l, e)[Len(l) + 1] = e
          /\ \A k \in 1 .. Len(l) : Append(l, e)[k] = l[k]
      BY <3>2
    <3>5. \A k \in 1 .. Len(l) + 1 : k \in 1 .. Len(l) \/ k = Len(l) + 1
      BY <3>4
    <3>6. CASE u = v
      <4>1. \A k \in DOMAIN Append(l, e) : Append(l, e)[k][1] = u => k = Len(l) + 1
        BY <3>3, <3>4, <3>5, <3>6
      <4> QED
        BY <3>1, <4>1 DEF OnePhi
    <3>7. CASE u # v
      <4>1. \A k \in DOMAIN Append(l, e) :
              Append(l, e)[k][1] = u => k \in DOMAIN l /\ l[k][1] = u
        BY <3>1, <3>4, <3>5, <3>7
      <4> QED
        BY <2>1, <3>1, <4>1 DEF OnePhi
    <3> QED
      BY <3>6, <3>7
  <2>3. CASE b \notin Y
    BY <1>2, <2>1, <2>3
  <2> QED
    BY <2>2, <2>3
<1>12. \A m \in B : df'[m] \subseteq Range(fn'.order)
  BY <1>2, <1>6 DEF PhiInv
<1> QED
  BY <1>6, <1>10, <1>11, <1>12 DEF PhiInv

\* Every step keeps what the worklists know.
LEMMA PhiStep ==
  DominanceInv /\ TypeInv /\ PhiInv /\ [Next]_vars => PhiInv'
<1> SUFFICES ASSUME DominanceInv, TypeInv, PhiInv, [Next]_vars PROVE PhiInv'
  OBVIOUS
<1>1. CASE FrontiersDone
  BY <1>1, PhiFrontiersDone
<1>2. CASE InsertPhis
  BY <1>2, PhiInsertPhis
<1>3. CASE ComputeIdom \/ IdomRoundDone \/ ComputeFrontier \/ StartRename
  <2>1. pc' # "phis"
    BY <1>3 DEF ComputeIdom, IdomRoundDone, ComputeFrontier, StartRename
  <2> QED
    BY <2>1 DEF PhiInv
<1>4. CASE KeepInstr \/ DropAlloca \/ DropStore \/ DropLoad \/ WireSuccessors \/ RenameChild
           \/ Return
  <2>1. pc' \in {"rename", "place"}
    BY <1>4 DEF KeepInstr, DropAlloca, DropStore, DropLoad, WireSuccessors, RenameChild,
                Return, InBody, InCall
  <2> QED
    BY <2>1 DEF PhiInv
<1>5. CASE AddPhiInstrs \/ verify_ssa
  <2>1. pc' \in {"verify", "refused", "done"}
    BY <1>5 DEF AddPhiInstrs, verify_ssa
  <2> QED
    BY <2>1 DEF PhiInv
<1>6. CASE UNCHANGED vars
  BY <1>6 DEF vars, PhiInv, WantsNoMore, DefBlocks, HasPhi, Uses, Vars
<1> QED
  BY <1>1, <1>2, <1>3, <1>4, <1>5, <1>6 DEF Next

\* The worklists know all that is still to be done about the phis.
THEOREM PhiInvariant == Spec => []PhiInv
<1>1. Init => PhiInv
  BY DEF Init, PhiInv
<1>2. DominanceInv /\ TypeInv /\ PhiInv /\ [Next]_vars => PhiInv'
  BY PhiStep
<1> QED
  BY <1>1, <1>2, DominanceInvariant, TypeInvariant, PTL DEF Spec

\* For every graph and every set of stores, and whatever the order in which
\* blocks are taken, a variable gets its phis in the iterated frontier of its
\* stores, one in a block: the least set that wants no more.
THEOREM PhisAreExact == Spec => []PhisExact
<1>1. PhiInv => PhisExact
  <2> SUFFICES ASSUME PhiInv, pc = "phis", NEW v \in Vars
               PROVE  /\ \A S \in SUBSET Range(fn.order) : WantsNoMore(v, S) => HasPhi(v) \subseteq S
                      /\ (\A u \in Vars : worklist[u] = {}) => WantsNoMore(v, HasPhi(v))
                      /\ \A b \in HasPhi(v) : OnePhi(v, phis[b])
    BY DEF PhisExact, OnePhi
  <2>1. /\ \A n \in DefBlocks(v) \cup HasPhi(v) : n \in worklist[v] \/ df[n] \subseteq HasPhi(v)
        /\ \A S : WantsNoMore(v, S) => HasPhi(v) \subseteq S
        /\ \A b \in Blocks(fn) : OnePhi(v, phis[b])
    BY DEF PhiInv
  <2>2. HasPhi(v) \subseteq Blocks(fn)
    BY DEF HasPhi
  <2> QED
    BY <2>1, <2>2 DEF WantsNoMore
<1> QED
  BY <1>1, PhiInvariant, PTL

-----------------------------------------------------------------------------
\* Lists without some of their elements.

LEMMA FilteredEmpty ==
  ASSUME NEW S
  PROVE  Filtered(<<>>, S) = <<>>
<1>1. PICK taken : Filtered(<<>>, S) = taken[Len(<<>>)] /\ taken[0] = <<>>
  <2>1. <<>> \in Seq({}) /\ Len(<<>>) = 0
    OBVIOUS
  <2> DEFINE list == <<>>
  <2> HIDE DEF list
  <2>2. list \in Seq({})
    BY <2>1 DEF list
  <2>3. PICK taken : Filtered(list, S) = taken[Len(list)] /\ taken[0] = <<>>
    BY <2>2, FilteredSteps
  <2> QED
    BY <2>3 DEF list
<1>2. Len(<<>>) = 0
  OBVIOUS
<1> QED
  BY <1>1, <1>2

LEMMA FilteredAppend ==
  ASSUME NEW T, NEW list \in Seq(T), NEW e \in T, NEW S
  PROVE  Filtered(Append(list, e), S) =
           IF e \in S THEN Append(Filtered(list, S), e) ELSE Filtered(list, S)
<1> DEFINE long == Append(list, e)
           L == Len(list)
<1>1. /\ long \in Seq(T) /\ Len(long) = L + 1 /\ long[L + 1] = e /\ L \in Nat
      /\ \A n \in 1 .. L : long[n] = list[n]
  OBVIOUS
<1> HIDE DEF long
<1>2. PICK a : /\ Filtered(list, S) = a[L] /\ a[0] = <<>>
               /\ \A n \in 1 .. L :
                    a[n] = IF list[n] \in S THEN Append(a[n - 1], list[n]) ELSE a[n - 1]
  BY FilteredSteps
<1>3. PICK b : /\ Filtered(long, S) = b[L + 1] /\ b[0] = <<>>
               /\ \A n \in 1 .. L + 1 :
                    b[n] = IF long[n] \in S THEN Append(b[n - 1], long[n]) ELSE b[n - 1]
  BY <1>1, FilteredSteps
<1> DEFINE N == {n \in Nat : n <= L => a[n] = b[n]}
<1>4. 0 \in N
  BY <1>2, <1>3
<1>5. ASSUME NEW n \in Nat, n \in N PROVE n + 1 \in N
  <2> SUFFICES ASSUME n + 1 <= L PROVE a[n + 1] = b[n + 1]
    OBVIOUS
  <2>1. n + 1 \in 1 .. L /\ n + 1 \in 1 .. L + 1 /\ (n + 1) - 1 = n /\ a[n] = b[n]
    BY <1>1, <1>5
  <2>2. a[n + 1] = IF list[n + 1] \in S THEN Append(a[n], list[n + 1]) ELSE a[n]
    BY <1>2, <2>1
  <2>3. b[n + 1] = IF long[n + 1] \in S THEN Append(b[n], long[n + 1]) ELSE b[n]
    BY <1>3, <2>1
  <2> QED
    BY <1>1, <2>1, <2>2, <2>3
<1>6. Nat \subseteq N
  <2> HIDE DEF N
  <2> QED
    BY <1>4, <1>5, NatSetInduction
<1>7. a[L] = b[L]
  BY <1>1, <1>6
<1>8. L + 1 \in 1 .. L + 1 /\ (L + 1) - 1 = L
  BY <1>1
<1>9. b[L + 1] = IF e \in S THEN Append(b[L], e) ELSE b[L]
  BY <1>1, <1>3, <1>8
<1> QED
  BY <1>2, <1>3, <1>7, <1>9 DEF long

\* The first m + 1 elements of a list, and those after the first m.
LEMMA ListSteps ==
  ASSUME NEW T, NEW list \in Seq(T), NEW m \in Nat, m < Len(list)
  PROVE  /\ SubSeq(list, 1, m) \in Seq(T) /\ SubSeq(list, m + 2, Len(list)) \in Seq(T)
         /\ m + 1 \in 1 .. Len(list) /\ list[m + 1] \in T
         /\ SubSeq(list, 1, m + 1) = Append(SubSeq(list, 1, m), list[m + 1])
         /\ SubSeq(list, m + 1, Len(list)) = <<list[m + 1]>> \o SubSeq(list, m + 2, Len(list))
<1>1. Len(list) \in Nat /\ m + 1 \in 1 .. Len(list) /\ (m + 1) - 1 = m /\ (m + 1) + 1 = m + 2
  OBVIOUS
<1>2. list[m + 1] \in T
  BY <1>1
<1>3. SubSeq(list, 1, m) \in Seq(T) /\ SubSeq(list, m + 2, Len(list)) \in Seq(T)
  <2>1. \A i \in 1 .. m : list[i] \in T
    OBVIOUS
  <2>2. \A i \in m + 2 .. Len(list) : list[i] \in T
    OBVIOUS
  <2> QED
    BY <1>1, <2>1, <2>2, SubSeqProperties
<1>4. SubSeq(list, 1, m + 1) = SubSeq(list, 1, (m + 1) - 1) \o <<list[m + 1]>>
  <2>1. 1 \in 1 .. Len(list) /\ m + 1 \in 1 .. Len(list)
    BY <1>1
  <2> QED
    BY <2>1, SubSeqRecursiveSecond
<1>5. Append(SubSeq(list, 1, m), list[m + 1]) = SubSeq(list, 1, m) \o <<list[m + 1]>>
  BY <1>2, <1>3, AppendIsConcat
<1>6. SubSeq(list, m + 1, Len(list)) = <<list[m + 1]>> \o SubSeq(list, (m + 1) + 1, Len(list))
  <2>1. Len(list) \in m + 1 .. Len(list)
    BY <1>1
  <2> QED
    BY <1>1, <2>1, SubSeqRecursiveFirst
<1> QED
  BY <1>1, <1>2, <1>3, <1>4, <1>5, <1>6

LEMMA ConcatAppend ==
  ASSUME NEW T, NEW s \in Seq(T), NEW t \in Seq(T), NEW e \in T
  PROVE  s \o Append(t, e) = Append(s \o t, e)
<1> DEFINE one == <<e>>
<1>1. one \in Seq(T) /\ Append(t, e) = t \o one
  BY AppendIsConcat
<1>2. s \o t \in Seq(T)
  BY ConcatProperties
<1>3. Append(s \o t, e) = (s \o t) \o one
  BY <1>2, AppendIsConcat
<1> HIDE DEF one
<1>4. (s \o t) \o one = s \o (t \o one)
  BY <1>1, ConcatAssociative
<1> QED
  BY <1>1, <1>3, <1>4

LEMMA FilteredConcat ==
  ASSUME NEW T, NEW s \in Seq(T), NEW t \in Seq(T), NEW S
  PROVE  Filtered(s \o t, S) = Filtered(s, S) \o Filtered(t, S)
<1> DEFINE Splits(l) == Filtered(s \o l, S) = Filtered(s, S) \o Filtered(l, S)
           N == {m \in Nat : m <= Len(t) => Splits(SubSeq(t, 1, m))}
<1>1. Splits(<<>>)
  <2>1. Filtered(s, S) \in Seq(T)
    BY FilteredFacts
  <2>2. Filtered(s, S) \o <<>> = Filtered(s, S) /\ s \o <<>> = s
    BY <2>1, ConcatEmptySeq
  <2> QED
    BY <2>2, FilteredEmpty
<1>2. 0 \in N
  <2>1. SubSeq(t, 1, 0) = <<>>
    BY SubSeqEmpty
  <2> QED
    BY <1>1, <2>1
<1>3. ASSUME NEW m \in Nat, m \in N PROVE m + 1 \in N
  <2> SUFFICES ASSUME m + 1 <= Len(t) PROVE Splits(SubSeq(t, 1, m + 1))
    OBVIOUS
  <2>1. m < Len(t) /\ m <= Len(t)
    OBVIOUS
  <2>2. /\ SubSeq(t, 1, m) \in Seq(T) /\ t[m + 1] \in T
        /\ SubSeq(t, 1, m + 1) = Append(SubSeq(t, 1, m), t[m + 1])
    BY <2>1, ListSteps
  <2>3. Splits(SubSeq(t, 1, m))
    BY <1>3, <2>1
  <2> DEFINE p == SubSeq(t, 1, m)
             e == t[m + 1]
  <2>4. p \in Seq(T) /\ e \in T /\ Filtered(s \o p, S) = Filtered(s, S) \o Filtered(p, S)
    BY <2>2, <2>3
  <2> HIDE DEF p, e
  <2>5. Filtered(Append(p, e), S) = IF e \in S THEN Append(Filtered(p, S), e) ELSE Filtered(p, S)
    BY <2>4, FilteredAppend
  <2>6. s \o Append(p, e) = Append(s \o p, e) /\ s \o p \in Seq(T)
    BY <2>4, ConcatAppend, ConcatProperties
  <2> DEFINE q == s \o p
  <2>7. q \in Seq(T)
    BY <2>6
  <2>15. e \in T
    BY <2>4
  <2>16. Filtered(q, S) = Filtered(s, S) \o Filtered(p, S)
    BY <2>4
  <2> HIDE DEF q
  <2>8. Filtered(Append(q, e), S) = IF e \in S THEN Append(Filtered(q, S), e) ELSE Filtered(q, S)
    BY <2>7, <2>15, FilteredAppend
  <2> DEFINE fs == Filtered(s, S)
             fp == Filtered(p, S)
  <2>9. fs \in Seq(T) /\ fp \in Seq(T)
    <3>1. fs \in Seq(T)
      BY FilteredFacts
    <3>2. fp \in Seq(T)
      BY <2>4, FilteredFacts
    <3> QED
      BY <3>1, <3>2
  <2>10. Filtered(q, S) = fs \o fp
    BY <2>16
  <2>11. Filtered(p, S) = fp
    OBVIOUS
  <2> HIDE DEF fs, fp
  <2>12. fs \o Append(fp, e) = Append(fs \o fp, e)
    BY <2>4, <2>9, ConcatAppend
  <2>13. Filtered(Append(q, e), S) = fs \o Filtered(Append(p, e), S)
    BY <2>5, <2>8, <2>10, <2>11, <2>12
  <2>14. Filtered(s \o Append(p, e), S) = Filtered(s, S) \o Filtered(Append(p, e), S)
    BY <2>6, <2>13 DEF q, fs
  <2> QED
    BY <2>2, <2>14 DEF p, e
<1>4. Nat \subseteq N
  <2> HIDE DEF N
  <2> QED
    BY <1>2, <1>3, NatSetInduction
<1>5. Len(t) \in Nat /\ SubSeq(t, 1, Len(t)) = t
  BY SubSeqFull
<1>6. Splits(SubSeq(t, 1, Len(t)))
  BY <1>4, <1>5
<1> QED
  BY <1>5, <1>6

\* A list that loses what stands between two lists.
LEMMA FilteredAround ==
  ASSUME NEW T, NEW a \in Seq(T), NEW b \in Seq(T), NEW c \in Seq(T), NEW S
  PROVE  Range(a) \subseteq S /\ Range(c) \subseteq S /\ Filtered(b, S) = <<>>
           => Filtered(a \o (b \o c), S) = a \o c
<1> DEFINE x == b \o c
<1>1. Filtered(a \o x, S) = Filtered(a, S) \o (Filtered(b, S) \o Filtered(c, S))
  <2>1. x \in Seq(T)
    BY ConcatProperties
  <2>2. Filtered(x, S) = Filtered(b, S) \o Filtered(c, S)
    BY FilteredConcat
  <2> HIDE DEF x
  <2>4. a \in Seq(T) /\ x \in Seq(T)
    BY <2>1
  <2>3. Filtered(a \o x, S) = Filtered(a, S) \o Filtered(x, S)
    BY ONLY <2>4, FilteredConcat
  <2> QED
    BY <2>2, <2>3
<1>2. (Range(a) \subseteq S => Filtered(a, S) = a) /\ (Range(c) \subseteq S => Filtered(c, S) = c)
  BY FilteredAll
<1>3. <<>> \o c = c
  BY ConcatEmptySeq
<1> QED
  BY <1>1, <1>2, <1>3

LEMMA FilteredSingle ==
  ASSUME NEW T, NEW i \in T, NEW S, i \notin S
  PROVE  <<i>> \in Seq(T) /\ Filtered(<<i>>, S) = <<>>
<1>1. <<i>> = Append(<<>>, i) /\ <<>> \in Seq(T) /\ <<i>> \in Seq(T)
  OBVIOUS
<1>2. Filtered(Append(<<>>, i), S) = Filtered(<<>>, S)
  BY <1>1, FilteredAppend
<1> QED
  BY <1>1, <1>2, FilteredEmpty

\* Where an element that stays stands in the list that is left: after those
\* before it that stay.
LEMMA WhereLeft ==
  ASSUME NEW T, NEW list \in Seq(T), NEW S, NEW m \in Nat, m < Len(list), list[m + 1] \in S
  PROVE  LET n == Len(Filtered(SubSeq(list, 1, m), S))
         IN  /\ n \in Nat /\ n + 1 \in 1 .. Len(Filtered(list, S))
             /\ Filtered(list, S)[n + 1] = list[m + 1]
             /\ Len(Filtered(SubSeq(list, 1, m + 1), S)) = n + 1
<1> DEFINE a == SubSeq(list, 1, m)
           e == list[m + 1]
           c == SubSeq(list, m + 2, Len(list))
           F(l) == Filtered(l, S)
<1>1. /\ a \in Seq(T) /\ c \in Seq(T) /\ e \in T /\ SubSeq(list, 1, m + 1) = Append(a, e)
      /\ SubSeq(list, m + 1, Len(list)) = <<e>> \o c
  BY ListSteps
<1>2. list = SubSeq(list, 1, m + 1) \o c
  <2>1. /\ 1 \in 1 .. Len(list) + 1 /\ m + 1 \in 0 .. Len(list) /\ 1 - 1 = 0
        /\ Len(list) \in m + 1 .. Len(list) /\ (m + 1) + 1 = m + 2
    OBVIOUS
  <2>2. SubSeq(list, 1, m + 1) \o SubSeq(list, (m + 1) + 1, Len(list)) = SubSeq(list, 1, Len(list))
    BY <2>1, ConcatAdjacentSubSeq
  <2> QED
    BY <2>1, <2>2, SubSeqFull
<1> HIDE DEF a, c, e
<1>3. F(a) \in Seq(T) /\ F(c) \in Seq(T) /\ Append(a, e) \in Seq(T)
  BY <1>1, FilteredFacts
<1>4. F(Append(a, e)) = Append(F(a), e)
  <2>1. a \in Seq(T) /\ e \in T
    BY <1>1
  <2>2. Filtered(Append(a, e), S) = IF e \in S THEN Append(Filtered(a, S), e) ELSE Filtered(a, S)
    BY ONLY <2>1, FilteredAppend
  <2>3. e \in S
    BY DEF e
  <2> QED
    BY <2>2, <2>3
<1> DEFINE b == Append(a, e)
<1>5. F(list) = Append(F(a), e) \o F(c)
  <2>1. b \in Seq(T) /\ list = b \o c
    BY <1>1, <1>2, <1>3
  <2> HIDE DEF b
  <2>2. F(b \o c) = F(b) \o F(c)
    BY <1>1, <2>1, FilteredConcat
  <2> QED
    BY <1>4, <2>1, <2>2 DEF b
<1> HIDE DEF F
<1>6. /\ Len(F(a)) \in Nat /\ Len(F(c)) \in Nat /\ Append(F(a), e) \in Seq(T)
      /\ Len(Append(F(a), e)) = Len(F(a)) + 1 /\ Append(F(a), e)[Len(F(a)) + 1] = e
  BY <1>1, <1>3
<1>7. /\ Len(F(list)) = (Len(F(a)) + 1) + Len(F(c))
      /\ F(list)[Len(F(a)) + 1] = e
  BY <1>3, <1>5, <1>6, ConcatProperties
<1>8. Len(F(SubSeq(list, 1, m + 1))) = Len(F(a)) + 1
  BY <1>1, <1>4, <1>6
<1> QED
  BY <1>6, <1>7, <1>8 DEF a, e, F

-----------------------------------------------------------------------------
\* A list of different elements keeps them different.
LEMMA FilteredOnce ==
  ASSUME NEW T, NEW list \in Seq(T), NoTwice(list), NEW S
  PROVE  NoTwice(Filtered(list, S))
<1> DEFINE p(m) == SubSeq(list, 1, m)
           Good(l) == NoTwice(Filtered(l, S))
           N == {m \in Nat : m <= Len(list) => Good(p(m))}
<1>1. 0 \in N
  <2>1. p(0) = <<>> /\ Filtered(<<>>, S) = <<>>
    BY SubSeqEmpty, FilteredEmpty
  <2>2. NoTwice(<<>>)
    BY DEF NoTwice
  <2> QED
    BY <2>1, <2>2
<1>2. ASSUME NEW m \in Nat, m \in N PROVE m + 1 \in N
  <2> SUFFICES ASSUME m + 1 <= Len(list) PROVE Good(p(m + 1))
    OBVIOUS
  <2> DEFINE a == p(m)
             e == list[m + 1]
             F == Filtered(a, S)
  <2>1. m < Len(list) /\ m <= Len(list)
    OBVIOUS
  <2>2. a \in Seq(T) /\ e \in T /\ p(m + 1) = Append(a, e) /\ m + 1 \in 1 .. Len(list)
    BY <2>1, ListSteps
  <2>3. e \notin Range(a)
    <3>1. Len(a) = m /\ \A k \in 1 .. m : a[k] = list[k] /\ k \in 1 .. Len(list) /\ k # m + 1
      BY <2>1
    <3> QED
      BY <2>2, <3>1 DEF Range, NoTwice
  <2>4. NoTwice(F)
    BY <1>2, <2>1
  <2>5. F \in Seq(T) /\ Range(F) \subseteq Range(a)
    <3>1. a \in Seq(T)
      BY <2>2
    <3> HIDE DEF a
    <3> QED
      BY <3>1, FilteredFacts
  <2>6. Filtered(p(m + 1), S) = IF e \in S THEN Append(F, e) ELSE F
    <3>1. a \in Seq(T) /\ e \in T
      BY <2>2
    <3> HIDE DEF a, e
    <3>2. Filtered(Append(a, e), S) = IF e \in S THEN Append(Filtered(a, S), e) ELSE Filtered(a, S)
      BY <3>1, FilteredAppend
    <3> QED
      BY <2>2, <3>2
  <2>7. NoTwice(Append(F, e))
    <3> HIDE DEF F, e
    <3>1. \A k \in 1 .. Len(F) : F[k] # e
      <4>1. DOMAIN F = 1 .. Len(F)
        BY <2>5
      <4>2. e \notin Range(F)
        BY <2>3, <2>5
      <4> QED
        BY <4>1, <4>2 DEF Range
    <3>2. /\ Len(Append(F, e)) = Len(F) + 1 /\ Len(F) \in Nat /\ Append(F, e)[Len(F) + 1] = e
          /\ \A k \in 1 .. Len(F) : Append(F, e)[k] = F[k]
          /\ \A k \in 1 .. Len(F) + 1 : k \in 1 .. Len(F) \/ k = Len(F) + 1
      BY <2>2, <2>5, AppendProperties
    <3> QED
      BY <2>4, <3>1, <3>2 DEF NoTwice
  <2> QED
    BY <2>4, <2>6, <2>7
<1>3. Nat \subseteq N
  <2> HIDE DEF N
  <2> QED
    BY <1>1, <1>2, NatSetInduction
<1>4. Len(list) \in Nat /\ p(Len(list)) = list
  BY SubSeqFull
<1>5. Good(p(Len(list)))
  BY <1>3, <1>4
<1> QED
  BY <1>4, <1>5

-----------------------------------------------------------------------------
\* The dominator tree.

\* The blocks strictly above b.
Above(f, t, b) == Up(f, t, b) \ {b}

\* The finished dominator tree of a function whose blocks can all be reached.
Tree(f, t) ==
  /\ GraphHere(f) /\ IsTree(f, t) /\ Fixed(f, t) /\ LosesNone(f, t)
  /\ Range(f.order) = Reachable(f)

LEMMA AboveFacts ==
  ASSUME NEW f, NEW t, Tree(f, t), NEW b \in Range(f.order)
  PROVE  /\ b \in Up(f, t, b) /\ Up(f, t, b) \subseteq Range(f.order)
         /\ b # f.entry => Above(f, t, b) = Up(f, t, t[b]) /\ t[b] \in Range(f.order)
         /\ b = f.entry => Above(f, t, b) = {}
         /\ f.entry \in Range(f.order) /\ Range(f.order) \subseteq Blocks(f)
         /\ \A c \in Above(f, t, b) : b \notin Up(f, t, c) /\ Up(f, t, c) \subseteq Above(f, t, b)
         /\ \A c \in Up(f, t, b) : Up(f, t, c) \subseteq Up(f, t, b) /\ Above(f, t, c) \subseteq Above(f, t, b)
<1>1. /\ Held(f, t) = Range(f.order) /\ GraphHere(f) /\ IsTree(f, t) /\ Fixed(f, t)
      /\ Range(f.order) = Reachable(f)
  BY DEF Tree, Fixed
<1>2. f.entry \in Range(f.order) /\ Range(f.order) \subseteq Blocks(f)
  BY <1>1, HeldFacts
<1>3. b \in Up(f, t, b) /\ Up(f, t, b) \subseteq Range(f.order)
  BY <1>1, UpFacts
<1>4. \A c \in Range(f.order) : Num(f, c) \in Nat
  BY <1>1, NumberFacts
<1>5. /\ b # f.entry => Up(f, t, b) = {b} \cup Up(f, t, t[b]) /\ b \notin Up(f, t, t[b])
                        /\ t[b] \in Range(f.order)
      /\ b = f.entry => Up(f, t, b) = {b}
  BY <1>1, FixedFacts, UpwardFacts
<1>6. /\ \A c \in Up(f, t, b) : Num(f, c) <= Num(f, b) /\ (c # b => Num(f, c) < Num(f, b))
      /\ \A c \in Up(f, t, b) : Up(f, t, c) \subseteq Up(f, t, b)
  BY <1>1, UpwardFacts
<1>7. ASSUME NEW c \in Above(f, t, b) PROVE b \notin Up(f, t, c)
  <2>1. c \in Up(f, t, b) /\ c # b /\ c \in Held(f, t)
    BY <1>1, <1>3, <1>7 DEF Above
  <2>2. \A a \in Up(f, t, c) : Num(f, a) <= Num(f, c)
    BY <1>1, <2>1, UpwardFacts
  <2>3. Num(f, c) < Num(f, b) /\ Num(f, c) \in Nat /\ Num(f, b) \in Nat
    BY <1>1, <1>4, <1>6, <2>1
  <2> QED
    BY <2>2, <2>3
<1> QED
  BY <1>2, <1>3, <1>5, <1>6, <1>7 DEF Above

\* Of two blocks above a third one is above the other.
LEMMA UpIsChain ==
  ASSUME NEW f, NEW t, Tree(f, t), NEW b \in Range(f.order),
         NEW c \in Up(f, t, b), NEW d \in Up(f, t, b)
  PROVE  c \in Up(f, t, d) \/ d \in Up(f, t, c)
<1>1. Held(f, t) = Range(f.order) /\ GraphHere(f) /\ IsTree(f, t)
  BY DEF Tree, Fixed
<1> DEFINE U == Up(f, t, b)
           X == {x \in U : \A y \in U : x \in Up(f, t, y) \/ y \in Up(f, t, x)}
<1>2. b \in U /\ U \subseteq Range(f.order) /\ \A x \in U : t[x] \in U
  BY <1>1, UpFacts
<1>3. b \in X
  BY <1>2
<1>4. ASSUME NEW x \in X PROVE t[x] \in X
  <2>1. x \in U /\ x \in Range(f.order) /\ t[x] \in U
    BY <1>2
  <2> SUFFICES ASSUME NEW y \in U PROVE t[x] \in Up(f, t, y) \/ y \in Up(f, t, t[x])
    BY <2>1
  <2>2. y \in Range(f.order)
    BY <1>2
  <2>3. CASE x \in Up(f, t, y)
    BY <1>1, <2>2, <2>3, UpFacts
  <2>4. CASE y \in Up(f, t, x) /\ x # f.entry
    <3>1. Up(f, t, x) = {x} \cup Up(f, t, t[x]) /\ t[x] \in Up(f, t, x)
      BY <1>1, <2>1, <2>4, UpwardFacts, UpFacts
    <3> QED
      BY <2>4, <3>1
  <2>5. CASE y \in Up(f, t, x) /\ x = f.entry
    BY <1>1, <2>5 DEF IsTree
  <2> QED
    BY <2>3, <2>4, <2>5
<1> HIDE DEF X
<1>5. U \subseteq X
  BY <1>1, <1>3, <1>4, UpFacts
<1> QED
  BY <1>5 DEF X

\* The children of a block.
LEMMA KidsFacts ==
  ASSUME NEW f, NEW t, Tree(f, t), NoTwice(f.order), NEW b \in Range(f.order)
  PROVE  /\ Kids(f, t, b) \in Seq(Blocks(f)) /\ Len(Kids(f, t, b)) \in Nat
         /\ DOMAIN Kids(f, t, b) = 1 .. Len(Kids(f, t, b))
         /\ \A j \in DOMAIN Kids(f, t, b) :
              LET c == Kids(f, t, b)[j]
              IN  /\ c \in Range(f.order) /\ c # f.entry /\ t[c] = b
                  /\ Above(f, t, c) = Up(f, t, b) /\ c \notin Up(f, t, b)
         /\ \A c \in Range(f.order) : c # f.entry /\ t[c] = b => c \in Range(Kids(f, t, b))
         /\ \A j, k \in DOMAIN Kids(f, t, b) : Kids(f, t, b)[j] = Kids(f, t, b)[k] => j = k
         /\ \A j, k \in DOMAIN Kids(f, t, b) : \A c \in Range(f.order) :
              Kids(f, t, b)[j] \in Up(f, t, c) /\ Kids(f, t, b)[k] \in Up(f, t, c) => j = k
<1> DEFINE K == Kids(f, t, b)
           S == {c \in Blocks(f) \ {f.entry} : t[c] = b}
<1>1. f.order \in Seq(Blocks(f)) /\ Range(f.order) \subseteq Blocks(f)
  BY FunctionParts DEF Tree, GraphHere, Graph
<1>2. K \in Seq(Blocks(f)) /\ Range(K) = Range(f.order) \cap S /\ NoTwice(K)
  BY <1>1, FilteredFacts, FilteredOnce DEF Kids
<1> HIDE DEF K
<1>3. Len(K) \in Nat /\ DOMAIN K = 1 .. Len(K)
  BY <1>2
<1>4. ASSUME NEW j \in DOMAIN K
      PROVE  /\ K[j] \in Range(f.order) /\ K[j] # f.entry /\ t[K[j]] = b
             /\ Above(f, t, K[j]) = Up(f, t, b) /\ K[j] \notin Up(f, t, b)
  <2>1. K[j] \in Range(f.order) /\ K[j] # f.entry /\ t[K[j]] = b
    BY <1>2 DEF Range
  <2>2. Above(f, t, K[j]) = Up(f, t, b)
    BY <2>1, AboveFacts
  <2> QED
    BY <2>1, <2>2 DEF Above
<1>5. \A c \in Range(f.order) : c # f.entry /\ t[c] = b => c \in Range(K)
  BY <1>1, <1>2
<1>6. ASSUME NEW j \in DOMAIN K, NEW k \in DOMAIN K, K[j] = K[k] PROVE j = k
  BY <1>2, <1>3, <1>6 DEF NoTwice
<1>7. ASSUME NEW j \in DOMAIN K, NEW k \in DOMAIN K, NEW c \in Range(f.order),
             K[j] \in Up(f, t, c), K[k] \in Up(f, t, c)
      PROVE  j = k
  <2> SUFFICES ASSUME K[j] # K[k] PROVE FALSE
    BY <1>6
  <2>1. K[j] \in Up(f, t, K[k]) \/ K[k] \in Up(f, t, K[j])
    BY <1>7, UpIsChain
  <2>2. K[j] \in Above(f, t, K[k]) \/ K[k] \in Above(f, t, K[j])
    BY <2>1 DEF Above
  <2> QED
    BY <1>4, <2>2
<1> QED
  BY <1>2, <1>3, <1>4, <1>5, <1>6, <1>7 DEF K

\* An edge leads to a block that what is strictly above it is above the
\* other end of, too.
LEMMA EdgeFacts ==
  ASSUME NEW f, NEW t, Tree(f, t), NEW b \in Range(f.order), NEW s \in Range(Succ(f, b))
  PROVE  /\ s \in Range(f.order) /\ b \in Range(Pred(f, s))
         /\ Above(f, t, s) \subseteq Up(f, t, b)
<1>1. /\ GraphHere(f) /\ Graph(f) /\ IsTree(f, t) /\ Fixed(f, t) /\ Range(f.order) = Reachable(f)
  BY DEF Tree, GraphHere
<1>2. s \in Reachable(f) /\ b \in Range(Pred(f, s))
  BY <1>1, GraphFacts
<1>3. CASE s = f.entry
  BY <1>1, <1>2, <1>3, AboveFacts
<1>4. CASE s # f.entry
  <2>1. Above(f, t, s) = Up(f, t, t[s])
    BY <1>1, <1>2, <1>4, AboveFacts
  <2>2. \A n : n \in Up(f, t, t[s]) => n \in Up(f, t, b)
    BY <1>1, <1>2, <1>4, FixedFacts
  <2> QED
    BY <1>1, <1>2, <2>1, <2>2
<1> QED
  BY <1>3, <1>4

-----------------------------------------------------------------------------
\* What the function given is relied on for.

LEMMA GivenFacts ==
  ASSUME NEW f \in Functions
  PROVE  /\ IsFunction(f) /\ GraphHere(f) /\ IsRecord(f)
         /\ Instrs(f) = 1 .. Len(f.code) /\ Len(f.code) \in Nat /\ 0 \notin Instrs(f)
         /\ Instrs(f) \subseteq Nat
         /\ NoTwice(f.order) /\ Range(f.order) \subseteq Blocks(f)
         /\ \A b \in Blocks(f) : /\ Ins(f, b) \in Seq(Instrs(f)) /\ NoTwice(Ins(f, b))
                                 /\ Len(Ins(f, b)) \in Nat /\ DOMAIN Ins(f, b) = 1 .. Len(Ins(f, b))
         /\ \A i \in Instrs(f) : /\ IsCode(f, i) /\ ~IsPhi(f, i) /\ MatchesOpcode(f.code[i])
                                 /\ f.code[i].op \in {"load", "store"} =>
                                      f.code[f.code[i].args[1]].op \in {"alloca", "param"}
         /\ AddressesOnly(f) /\ ReadsDefined(f) /\ EnteredOnce(f)
         /\ BranchesResolved(f) /\ UsersComplete(f)
<1>1. /\ IsFunction(f) /\ GraphHere(f) /\ IsRecord(f) /\ Numbered(f) /\ CellsAreNamed(f)
      /\ \A i \in Instrs(f) : MatchesOpcode(f.code[i])
  BY FunctionsAssumption, FunctionFacts
<1>2. /\ Unphied(f) /\ ListedOnce(f) /\ AddressesOnly(f) /\ ReadsDefined(f) /\ EnteredOnce(f)
      /\ BranchesResolved(f) /\ UsersComplete(f)
  BY RenamingAssumption
<1>3. /\ Range(f.order) \subseteq Blocks(f) /\ f.order \in Seq(Blocks(f))
      /\ \A b \in Blocks(f) : Ins(f, b) \in Seq(Instrs(f))
      /\ \A i \in Instrs(f) : IsCode(f, i)
  BY <1>1, FunctionParts
<1>4. f.code \in Seq(Range(f.code))
  BY <1>1 DEF Numbered
<1>5. Instrs(f) = 1 .. Len(f.code) /\ Len(f.code) \in Nat
  BY <1>4 DEF Instrs
<1>6. 0 \notin Instrs(f) /\ Instrs(f) \subseteq Nat
  BY <1>5
<1>7. NoTwice(f.order)
  BY <1>2, <1>3 DEF ListedOnce, IsInjective, NoTwice
<1>8. \A b \in Blocks(f) : /\ NoTwice(Ins(f, b)) /\ Len(Ins(f, b)) \in Nat
                           /\ DOMAIN Ins(f, b) = 1 .. Len(Ins(f, b))
  BY <1>2, <1>3 DEF ListedOnce, IsInjective, NoTwice
<1>9. \A i \in Instrs(f) : ~IsPhi(f, i)
  BY <1>2 DEF Unphied
<1> QED
  BY <1>1, <1>2, <1>3, <1>5, <1>6, <1>7, <1>8, <1>9 DEF CellsAreNamed

\* An instruction stands in one place.
LEMMA PlaceFacts ==
  ASSUME NEW f \in Functions, NEW b \in Blocks(f), NEW k \in 1 .. Len(Ins(f, b))
  PROVE  /\ Ins(f, b)[k] \in Instrs(f) /\ f.code[Ins(f, b)[k]].parent = b
         /\ \A c \in Blocks(f) : \A m \in 1 .. Len(Ins(f, c)) :
              Ins(f, c)[m] = Ins(f, b)[k] => c = b /\ m = k
<1>1. Ins(f, b)[k] \in Instrs(f) /\ k \in DOMAIN Ins(f, b)
  BY GivenFacts
<1>2. \A c \in Blocks(f) : \A m \in 1 .. Len(Ins(f, c)) : f.code[Ins(f, c)[m]].parent = c
  BY GivenFacts DEF BranchesResolved
<1>3. NoTwice(Ins(f, b))
  BY GivenFacts
<1> QED
  BY <1>1, <1>2, <1>3 DEF NoTwice

-----------------------------------------------------------------------------
\* The names that a place in the function may rely on.

\* The instructions that come before place k of block b on every way to it.
Avail(f, t, b, k) == {Ins(f, b)[j] : j \in 1 .. k - 1} \cup
                     UNION {Range(Ins(f, c)) : c \in Above(f, t, b)}

\* Those and the phis, where P lists the pairs <<variable, phi>> of each block.
Ids(P, b) == {p[2] : p \in Range(P[b])}
Named(f, t, P, b, k) == Avail(f, t, b, k) \cup UNION {Ids(P, c) : c \in Up(f, t, b)}

End(f, b) == Len(Ins(f, b)) + 1

LEMMA AvailFacts ==
  ASSUME NEW f \in Functions, NEW t, Tree(f, t), NEW b \in Range(f.order),
         NEW k \in 1 .. End(f, b)
  PROVE  /\ Avail(f, t, b, k) \subseteq Placed(f) \cap Instrs(f)
         /\ k # End(f, b) => /\ Ins(f, b)[k] \notin Avail(f, t, b, k)
                             /\ Avail(f, t, b, k + 1) = Avail(f, t, b, k) \cup {Ins(f, b)[k]}
         /\ \A c \in Above(f, t, b) : \A m \in 1 .. End(f, c) :
              Avail(f, t, c, m) \subseteq Avail(f, t, b, k)
         /\ \A i \in Avail(f, t, b, k) :
              \/ \E j \in 1 .. k - 1 : i = Ins(f, b)[j]
              \/ \E c \in Above(f, t, b) : \E m \in 1 .. Len(Ins(f, c)) : i = Ins(f, c)[m]
         /\ \A j \in 1 .. k : Avail(f, t, b, j) \subseteq Avail(f, t, b, k)
<1>1. /\ Range(f.order) \subseteq Blocks(f)
      /\ \A c \in Blocks(f) : /\ Ins(f, c) \in Seq(Instrs(f)) /\ Len(Ins(f, c)) \in Nat
                              /\ DOMAIN Ins(f, c) = 1 .. Len(Ins(f, c))
  BY GivenFacts
<1>2. /\ Above(f, t, b) \subseteq Range(f.order) /\ b \notin Above(f, t, b)
      /\ \A c \in Above(f, t, b) : Up(f, t, c) \subseteq Above(f, t, b) /\ c \in Up(f, t, c)
  BY AboveFacts DEF Above
<1>3. b \in Blocks(f) /\ k \in Nat /\ \A j \in 1 .. k - 1 : j \in 1 .. Len(Ins(f, b))
  BY <1>1 DEF End
<1>4. \A c \in Range(f.order) : \A m \in 1 .. Len(Ins(f, c)) :
         Ins(f, c)[m] \in Instrs(f) /\ Ins(f, c)[m] \in Range(Ins(f, c))
  BY <1>1, PlaceFacts DEF Range
<1>5. Avail(f, t, b, k) \subseteq Placed(f) \cap Instrs(f)
  <2>1. \A c \in Range(f.order) : Range(Ins(f, c)) \subseteq Placed(f) \cap Instrs(f)
    BY <1>1 DEF Placed, Range
  <2>2. \A j \in 1 .. k - 1 : Ins(f, b)[j] \in Range(Ins(f, b))
    BY <1>3, <1>4
  <2> QED
    BY <1>2, <2>1, <2>2 DEF Avail
<1>6. ASSUME k # End(f, b)
      PROVE  /\ Ins(f, b)[k] \notin Avail(f, t, b, k)
             /\ Avail(f, t, b, k + 1) = Avail(f, t, b, k) \cup {Ins(f, b)[k]}
  <2>1. k \in 1 .. Len(Ins(f, b)) /\ (k + 1) - 1 = k
        /\ 1 .. k = (1 .. k - 1) \cup {k}
    BY <1>3, <1>1, <1>6 DEF End
  <2>2. \A j \in 1 .. k - 1 : Ins(f, b)[j] # Ins(f, b)[k]
    BY <1>3, <2>1, PlaceFacts
  <2>3. ASSUME NEW c \in Above(f, t, b), Ins(f, b)[k] \in Range(Ins(f, c)) PROVE FALSE
    <3>1. c \in Blocks(f) /\ c # b
      BY <1>1, <1>2
    <3>2. PICK m \in 1 .. Len(Ins(f, c)) : Ins(f, c)[m] = Ins(f, b)[k]
      BY <1>1, <2>3, <3>1 DEF Range
    <3> QED
      BY <1>3, <2>1, <3>1, <3>2, PlaceFacts
  <2> QED
    BY <2>1, <2>2, <2>3 DEF Avail
<1>7. ASSUME NEW c \in Above(f, t, b), NEW m \in 1 .. End(f, c)
      PROVE  Avail(f, t, c, m) \subseteq Avail(f, t, b, k)
  <2>1. c \in Blocks(f) /\ c \in Range(f.order)
    BY <1>1, <1>2
  <2>2. \A j \in 1 .. m - 1 : j \in 1 .. Len(Ins(f, c))
    BY <1>1, <2>1 DEF End
  <2>3. \A j \in 1 .. m - 1 : Ins(f, c)[j] \in Range(Ins(f, c))
    BY <1>4, <2>1, <2>2
  <2>4. Above(f, t, c) \subseteq Above(f, t, b)
    BY <1>2 DEF Above
  <2> QED
    BY <2>3, <2>4 DEF Avail
<1>8. ASSUME NEW i \in Avail(f, t, b, k)
      PROVE  \/ \E j \in 1 .. k - 1 : i = Ins(f, b)[j]
             \/ \E c \in Above(f, t, b) : \E m \in 1 .. Len(Ins(f, c)) : i = Ins(f, c)[m]
  <2>1. CASE \E c \in Above(f, t, b) : i \in Range(Ins(f, c))
    <3>1. PICK c \in Above(f, t, b) : i \in Range(Ins(f, c))
      BY <2>1
    <3>2. c \in Blocks(f)
      BY <1>1, <1>2
    <3> QED
      BY <1>1, <3>1, <3>2 DEF Range
  <2> QED
    BY <1>8, <2>1 DEF Avail
<1>9. \A j \in 1 .. k : Avail(f, t, b, j) \subseteq Avail(f, t, b, k)
  BY <1>3 DEF Avail
<1> QED
  BY <1>5, <1>6, <1>7, <1>8, <1>9

-----------------------------------------------------------------------------
\* The names that rename gives to the values of the variables.

Has(P, v, b) == \E p \in Range(P[b]) : p[1] = v
PhiOf(P, v, b) == (CHOOSE p \in Range(P[b]) : p[1] = v)[2]

\* The numbers that are left for phis.
Later(f) == {j \in Nat : j > Len(f.code)}

\* A variable has one phi in a block at most, and a phi stands in one place.
OnePhiEach(f, P) ==
  \A b, c \in Blocks(f) : \A p \in Range(P[b]), q \in Range(P[c]) :
    /\ p[2] = q[2] => b = c /\ p = q
    /\ b = c /\ p[1] = q[1] => p = q

\* What is settled when rename starts: the function given, its allocas V, its
\* dominator tree t and the phis P.
Setting(f, V, t, P) ==
  /\ f \in Functions /\ Tree(f, t)
  /\ V = {i \in Placed(f) : f.code[i].op = "alloca"}
  /\ P \in [Blocks(f) -> Seq(V \X Later(f))]
  /\ OnePhiEach(f, P)

IsLoad(f, V, i) == f.code[i].op = "load" /\ f.code[i].args[1] \in V
IsStore(f, V, i) == f.code[i].op = "store" /\ f.code[i].args[1] \in V

\* d[b][k][v] is the name that variable v has at place k of block b, 0 for
\* none; r is the name that replaces the result of an instruction, n how many
\* instructions of a block rename has come past, w the blocks it has entered.
Ghosts(f, V, r, d, n, w) ==
  /\ r \in [Nat -> Nat] /\ d \in [Blocks(f) -> [Nat -> [V -> Nat]]]
  /\ n \in [Blocks(f) -> Nat] /\ w \subseteq Range(f.order)
  /\ \A b \in Range(f.order) : n[b] <= Len(Ins(f, b))

\* The names at the head of a block.
Joined(f, V, t, P, d, b) ==
  [v \in V |-> IF Has(P, v, b) THEN PhiOf(P, v, b)
               ELSE IF b = f.entry THEN 0 ELSE d[t[b]][End(f, t[b])][v]]

\* What an instruction makes of the names.
After(f, V, r, d, b, k) ==
  LET i == Ins(f, b)[k]
  IN  IF IsStore(f, V, i)
      THEN [d[b][k] EXCEPT ![f.code[i].args[1]] = r[f.code[i].args[2]]]
      ELSE d[b][k]
NameOf(f, V, d, b, k) ==
  LET i == Ins(f, b)[k]
      v == f.code[i].args[1]
  IN  IF IsLoad(f, V, i) /\ d[b][k][v] # 0 THEN d[b][k][v] ELSE i

Flow(f, V, r, d, b, k) ==
  d[b][k + 1] = After(f, V, r, d, b, k) /\ r[Ins(f, b)[k]] = NameOf(f, V, d, b, k)

\* A name that a variable has at a place is one the place may rely on, and is
\* not replaced itself.
Lasting(f, V, t, P, r, d, b, k) ==
  \A v \in V : d[b][k][v] # 0 => d[b][k][v] \in Named(f, t, P, b, k) /\ r[d[b][k][v]] = d[b][k][v]

Values(f, V, t, P, r, d, b, m) ==
  /\ d[b][1] = Joined(f, V, t, P, d, b)
  /\ \A k \in 1 .. m : Flow(f, V, r, d, b, k)
  /\ \A k \in 1 .. m + 1 : Lasting(f, V, t, P, r, d, b, k)

\* The instructions that rename has come past, and the blocks it is through with.
Gone(f, n, w) == UNION {{Ins(f, b)[j] : j \in 1 .. n[b]} : b \in w}
Full(f, n, w) == {b \in w : n[b] = Len(Ins(f, b))}

Names(f, V, t, P, r, d, n, w) ==
  /\ \A b \in w : Values(f, V, t, P, r, d, b, n[b])
  /\ \A i \in Nat : i \notin Gone(f, n, w) => r[i] = i
  /\ \A b \in w : Above(f, t, b) \subseteq Full(f, n, w)

-----------------------------------------------------------------------------

LEMMA SettingFacts ==
  ASSUME NEW f, NEW V, NEW t, NEW P, Setting(f, V, t, P)
  PROVE  /\ f \in Functions /\ Tree(f, t)
         /\ V \subseteq Instrs(f) /\ \A v \in V : f.code[v].op = "alloca"
         /\ \A b \in Blocks(f) :
              /\ P[b] \in Seq(V \X Later(f)) /\ Len(P[b]) \in Nat /\ DOMAIN P[b] = 1 .. Len(P[b])
              /\ \A j \in 1 .. Len(P[b]) : P[b][j] \in V \X Later(f) /\ P[b][j] \in Range(P[b])
              /\ \A p \in Range(P[b]) : p[1] \in V /\ p[2] \in Later(f) /\ p[2] \in Ids(P, b)
              /\ Ids(P, b) \subseteq Later(f)
         /\ Later(f) \cap Instrs(f) = {} /\ 0 \notin Later(f) /\ Later(f) \subseteq Nat
         /\ \A b \in Blocks(f) : \A v : Has(P, v, b) =>
              PhiOf(P, v, b) \in Ids(P, b) /\ <<v, PhiOf(P, v, b)>> \in Range(P[b])
         /\ \A b \in Blocks(f) : \A p \in Range(P[b]) :
              Has(P, p[1], b) /\ PhiOf(P, p[1], b) = p[2]
         /\ \A b, c \in Blocks(f) : b # c => Ids(P, b) \cap Ids(P, c) = {}
<1>1. /\ f \in Functions /\ Tree(f, t) /\ V = {i \in Placed(f) : f.code[i].op = "alloca"}
      /\ P \in [Blocks(f) -> Seq(V \X Later(f))] /\ OnePhiEach(f, P)
  BY DEF Setting
<1>2. /\ Range(f.order) \subseteq Blocks(f) /\ Instrs(f) = 1 .. Len(f.code) /\ Len(f.code) \in Nat
      /\ \A b \in Blocks(f) : Ins(f, b) \in Seq(Instrs(f))
  BY <1>1, GivenFacts
<1>3. V \subseteq Instrs(f) /\ \A v \in V : f.code[v].op = "alloca"
  <2>1. \A b \in Blocks(f) : Range(Ins(f, b)) \subseteq Instrs(f)
    BY <1>2 DEF Range
  <2> QED
    BY <1>1, <1>2, <2>1 DEF Placed
<1>4. Later(f) \cap Instrs(f) = {} /\ 0 \notin Later(f) /\ Later(f) \subseteq Nat
  BY <1>2 DEF Later
<1>5. ASSUME NEW b \in Blocks(f)
      PROVE  /\ P[b] \in Seq(V \X Later(f)) /\ Len(P[b]) \in Nat /\ DOMAIN P[b] = 1 .. Len(P[b])
             /\ \A j \in 1 .. Len(P[b]) : P[b][j] \in V \X Later(f) /\ P[b][j] \in Range(P[b])
             /\ \A p \in Range(P[b]) : p \in V \X Later(f)
  <2> DEFINE l == P[b]
             T == V \X Later(f)
  <2>1. l \in Seq(T)
    BY <1>1
  <2> HIDE DEF l, T
  <2>2. Len(l) \in Nat /\ DOMAIN l = 1 .. Len(l) /\ \A j \in 1 .. Len(l) : l[j] \in T
    BY <2>1
  <2> QED
    BY <2>1, <2>2 DEF l, T, Range
<1>6. \A b \in Blocks(f) : \A p \in Range(P[b]) :
        p[1] \in V /\ p[2] \in Later(f) /\ p[2] \in Ids(P, b) /\ p = <<p[1], p[2]>>
  BY <1>5 DEF Ids
<1>7. \A b \in Blocks(f) : Ids(P, b) \subseteq Later(f)
  BY <1>6 DEF Ids
<1>8. ASSUME NEW b \in Blocks(f), NEW v, Has(P, v, b)
      PROVE  PhiOf(P, v, b) \in Ids(P, b) /\ <<v, PhiOf(P, v, b)>> \in Range(P[b])
  <2> DEFINE q == CHOOSE p \in Range(P[b]) : p[1] = v
  <2>1. q \in Range(P[b]) /\ q[1] = v
    BY <1>8 DEF Has
  <2>2. PhiOf(P, v, b) = q[2]
    BY DEF PhiOf
  <2> HIDE DEF q
  <2> QED
    BY <1>6, <2>1, <2>2
<1>9. ASSUME NEW b \in Blocks(f), NEW p \in Range(P[b])
      PROVE  Has(P, p[1], b) /\ PhiOf(P, p[1], b) = p[2]
  <2>1. Has(P, p[1], b)
    BY DEF Has
  <2> DEFINE q == CHOOSE x \in Range(P[b]) : x[1] = p[1]
  <2>2. q \in Range(P[b]) /\ q[1] = p[1]
    OBVIOUS
  <2>3. PhiOf(P, p[1], b) = q[2]
    BY DEF PhiOf
  <2> HIDE DEF q
  <2>4. q = p
    BY <1>1, <2>2 DEF OnePhiEach
  <2> QED
    BY <2>1, <2>3, <2>4
<1>10. \A b, c \in Blocks(f) : b # c => Ids(P, b) \cap Ids(P, c) = {}
  BY <1>1 DEF OnePhiEach, Ids
<1> QED
  BY <1>1, <1>3, <1>4, <1>5, <1>6, <1>7, <1>8, <1>9, <1>10

\* What the names of a place are.
LEMMA NamedFacts ==
  ASSUME NEW f, NEW V, NEW t, NEW P, Setting(f, V, t, P), NEW b \in Range(f.order),
         NEW k \in 1 .. End(f, b)
  PROVE  /\ Named(f, t, P, b, k) \subseteq Nat \ {0}
         /\ Avail(f, t, b, k) \subseteq Named(f, t, P, b, k)
         /\ \A c \in Above(f, t, b) : \A m \in 1 .. End(f, c) :
              Named(f, t, P, c, m) \subseteq Named(f, t, P, b, k)
         /\ \A j \in 1 .. k : Named(f, t, P, b, j) \subseteq Named(f, t, P, b, k)
         /\ Ids(P, b) \subseteq Named(f, t, P, b, k)
         /\ \A i \in Instrs(f) : i \in Named(f, t, P, b, k) => i \in Avail(f, t, b, k)
         /\ \A c \in Blocks(f) : c \notin Up(f, t, b) => Ids(P, c) \cap Named(f, t, P, b, k) = {}
<1>1. f \in Functions /\ Tree(f, t)
  BY SettingFacts
<1>2. /\ b \in Up(f, t, b) /\ Up(f, t, b) \subseteq Range(f.order)
      /\ \A c \in Up(f, t, b) : Up(f, t, c) \subseteq Up(f, t, b)
      /\ Above(f, t, b) \subseteq Up(f, t, b)
      /\ Range(f.order) \subseteq Blocks(f)
  BY <1>1, AboveFacts DEF Above
<1>3. /\ Avail(f, t, b, k) \subseteq Instrs(f)
      /\ \A c \in Above(f, t, b) : \A m \in 1 .. End(f, c) :
           Avail(f, t, c, m) \subseteq Avail(f, t, b, k)
      /\ \A j \in 1 .. k : Avail(f, t, b, j) \subseteq Avail(f, t, b, k)
  BY <1>1, AvailFacts
<1>4. /\ \A c \in Blocks(f) : Ids(P, c) \subseteq Later(f)
      /\ Later(f) \cap Instrs(f) = {} /\ 0 \notin Later(f) /\ Later(f) \subseteq Nat
      /\ \A c, e \in Blocks(f) : c # e => Ids(P, c) \cap Ids(P, e) = {}
  BY SettingFacts
<1>5. 0 \notin Instrs(f) /\ Instrs(f) \subseteq Nat
  BY <1>1, GivenFacts
<1>6. UNION {Ids(P, c) : c \in Up(f, t, b)} \subseteq Later(f)
  BY <1>2, <1>4
<1>7. Named(f, t, P, b, k) \subseteq Nat \ {0}
  BY <1>3, <1>4, <1>5, <1>6 DEF Named
<1>8. \A c \in Above(f, t, b) : \A m \in 1 .. End(f, c) :
        Named(f, t, P, c, m) \subseteq Named(f, t, P, b, k)
  BY <1>2, <1>3 DEF Named
<1>9. \A i \in Instrs(f) : i \in Named(f, t, P, b, k) => i \in Avail(f, t, b, k)
  BY <1>4, <1>6 DEF Named
<1>10. ASSUME NEW c \in Blocks(f), c \notin Up(f, t, b), NEW x \in Ids(P, c), x \in Named(f, t, P, b, k)
       PROVE  FALSE
  <2>1. x \notin Avail(f, t, b, k)
    BY <1>3, <1>4
  <2>2. PICK e \in Up(f, t, b) : x \in Ids(P, e)
    BY <1>10, <2>1 DEF Named
  <2> QED
    BY <1>2, <1>4, <1>10, <2>2
<1> QED
  BY <1>2, <1>3, <1>7, <1>8, <1>9, <1>10 DEF Named

\* What an instruction reads comes before it on every way.
LEMMA OperandsAvail ==
  ASSUME NEW f \in Functions, NEW t, Tree(f, t), NEW b \in Range(f.order),
         NEW k \in 1 .. Len(Ins(f, b)), NEW a \in Range(f.code[Ins(f, b)[k]].args)
  PROVE  a \in Avail(f, t, b, k)
<1>1. /\ GraphHere(f) /\ IsTree(f, t) /\ Fixed(f, t) /\ LosesNone(f, t)
      /\ Range(f.order) = Reachable(f)
  BY DEF Tree
<1>2. k \in DOMAIN Ins(f, b) /\ Range(f.order) \subseteq Blocks(f) /\ ReadsDefined(f)
  BY GivenFacts
<1>3. DefinedBefore(f, a, b, k)
  BY <1>1, <1>2 DEF ReadsDefined
<1>4. CASE \E j \in 1 .. k - 1 : Ins(f, b)[j] = a
  BY <1>4 DEF Avail
<1>5. CASE \E c \in Range(f.order) : StrictlyDominates(f, c, b) /\ a \in Range(Ins(f, c))
  <2>1. PICK c \in Range(f.order) : StrictlyDominates(f, c, b) /\ a \in Range(Ins(f, c))
    BY <1>5
  <2>2. c \in Up(f, t, b) /\ c # b
    BY <1>1, <2>1, FixedIsExact DEF StrictlyDominates
  <2> QED
    BY <2>1, <2>2 DEF Avail, Above
<1> QED
  BY <1>3, <1>4, <1>5 DEF DefinedBefore

-----------------------------------------------------------------------------
\* What is named where rename has been it has come past.
LEMMA GoneFacts ==
  ASSUME NEW f, NEW V, NEW t, NEW P, Setting(f, V, t, P),
         NEW r, NEW d, NEW n, NEW w, Ghosts(f, V, r, d, n, w), Names(f, V, t, P, r, d, n, w),
         NEW b \in w, NEW k \in 1 .. n[b] + 1
  PROVE  /\ b \in Range(f.order) /\ b \in Blocks(f) /\ n[b] \in Nat /\ k \in 1 .. End(f, b)
         /\ Avail(f, t, b, k) \subseteq Gone(f, n, w)
         /\ \A i \in Named(f, t, P, b, k) : i \in Instrs(f) => i \in Gone(f, n, w)
         /\ \A v \in V : d[b][k][v] # 0 =>
              d[b][k][v] \in Named(f, t, P, b, k) /\ r[d[b][k][v]] = d[b][k][v]
<1>1. f \in Functions /\ Tree(f, t)
  BY SettingFacts
<1>2. b \in Range(f.order) /\ n[b] \in Nat /\ n[b] <= Len(Ins(f, b)) /\ b \in Blocks(f)
  <2>1. b \in Range(f.order) /\ Range(f.order) \subseteq Blocks(f)
    BY <1>1, GivenFacts DEF Ghosts
  <2> QED
    BY <2>1 DEF Ghosts
<1>3. k \in 1 .. End(f, b)
  BY <1>1, <1>2, GivenFacts DEF End
<1>4. Avail(f, t, b, k) \subseteq Gone(f, n, w)
  <2>1. ASSUME NEW i \in Avail(f, t, b, k) PROVE i \in Gone(f, n, w)
    <3>1. \/ \E j \in 1 .. k - 1 : i = Ins(f, b)[j]
          \/ \E c \in Above(f, t, b) : \E m \in 1 .. Len(Ins(f, c)) : i = Ins(f, c)[m]
      BY <1>1, <1>2, <1>3, AvailFacts
    <3>2. CASE \E j \in 1 .. k - 1 : i = Ins(f, b)[j]
      <4>1. PICK j \in 1 .. k - 1 : i = Ins(f, b)[j]
        BY <3>2
      <4>2. j \in 1 .. n[b]
        BY <1>2
      <4> QED
        BY <4>1, <4>2 DEF Gone
    <3>3. CASE \E c \in Above(f, t, b) : \E m \in 1 .. Len(Ins(f, c)) : i = Ins(f, c)[m]
      <4>1. PICK c \in Above(f, t, b) : \E m \in 1 .. Len(Ins(f, c)) : i = Ins(f, c)[m]
        BY <3>3
      <4>2. c \in w /\ n[c] = Len(Ins(f, c))
        BY DEF Names, Full
      <4> QED
        BY <4>1, <4>2 DEF Gone
    <3> QED
      BY <3>1, <3>2, <3>3
  <2> QED
    BY <2>1
<1>5. \A i \in Named(f, t, P, b, k) : i \in Instrs(f) => i \in Gone(f, n, w)
  BY <1>2, <1>3, <1>4, NamedFacts
<1>6. Lasting(f, V, t, P, r, d, b, k)
  BY DEF Names, Values
<1> QED
  BY <1>2, <1>3, <1>4, <1>5, <1>6 DEF Lasting

\* What is named instead of an instruction where rename has been.
LEMMA RenamedFacts ==
  ASSUME NEW f, NEW V, NEW t, NEW P, Setting(f, V, t, P),
         NEW r, NEW d, NEW n, NEW w, Ghosts(f, V, r, d, n, w), Names(f, V, t, P, r, d, n, w),
         NEW b \in w, NEW k \in 1 .. n[b] + 1, NEW a \in Avail(f, t, b, k)
  PROVE  /\ r[a] \in Named(f, t, P, b, k) /\ r[r[a]] = r[a]
         /\ f.code[a].op # "load" => r[a] = a
<1>1. f \in Functions /\ Tree(f, t)
  BY SettingFacts
<1>2. b \in Range(f.order) /\ b \in Blocks(f) /\ n[b] \in Nat /\ k \in 1 .. End(f, b)
  BY GoneFacts
<1>3. \/ \E j \in 1 .. k - 1 : a = Ins(f, b)[j]
      \/ \E c \in Above(f, t, b) : \E m \in 1 .. Len(Ins(f, c)) : a = Ins(f, c)[m]
  BY <1>1, <1>2, AvailFacts
<1>4. PICK c, j : /\ c \in w /\ j \in 1 .. n[c] /\ a = Ins(f, c)[j]
                  /\ Named(f, t, P, c, j) \subseteq Named(f, t, P, b, k)
  <2>1. CASE \E j \in 1 .. k - 1 : a = Ins(f, b)[j]
    <3>1. PICK j \in 1 .. k - 1 : a = Ins(f, b)[j]
      BY <2>1
    <3>2. j \in 1 .. n[b] /\ j \in 1 .. k
      BY <1>2
    <3>3. Named(f, t, P, b, j) \subseteq Named(f, t, P, b, k)
      BY <1>2, <3>2, NamedFacts
    <3> QED
      BY <3>1, <3>2, <3>3
  <2>2. CASE \E c \in Above(f, t, b) : \E m \in 1 .. Len(Ins(f, c)) : a = Ins(f, c)[m]
    <3>0. PICK c \in Above(f, t, b) : \E m \in 1 .. Len(Ins(f, c)) : a = Ins(f, c)[m]
      BY <2>2
    <3>1. PICK m \in 1 .. Len(Ins(f, c)) : a = Ins(f, c)[m]
      BY <3>0
    <3>2. c \in w /\ n[c] = Len(Ins(f, c))
      BY DEF Names, Full
    <3>3. c \in Blocks(f)
      BY <1>1, <3>2, GivenFacts DEF Ghosts
    <3>4. m \in 1 .. End(f, c)
      BY <1>1, <3>3, GivenFacts DEF End
    <3>5. Named(f, t, P, c, m) \subseteq Named(f, t, P, b, k)
      BY <1>2, <3>4, NamedFacts
    <3> QED
      BY <3>1, <3>2, <3>5
  <2> QED
    BY <1>3, <2>1, <2>2
<1>5. Flow(f, V, r, d, c, j)
  BY <1>4 DEF Names, Values
<1>6. c \in Range(f.order) /\ n[c] \in Nat /\ j \in 1 .. n[c] + 1
  BY <1>4, <1>1, GivenFacts DEF Ghosts
<1>7. \A v \in V : d[c][j][v] # 0 =>
        d[c][j][v] \in Named(f, t, P, c, j) /\ r[d[c][j][v]] = d[c][j][v]
  <2>1. c \in w /\ j \in 1 .. n[c] + 1
    BY <1>4, <1>6
  <2> QED
    BY <2>1, GoneFacts
<1>8. r[a] = IF IsLoad(f, V, a) /\ d[c][j][f.code[a].args[1]] # 0
             THEN d[c][j][f.code[a].args[1]] ELSE a
  BY <1>4, <1>5 DEF Flow, NameOf
<1>9. a \in Named(f, t, P, b, k)
  BY <1>2, NamedFacts
<1> QED
  BY <1>4, <1>7, <1>8, <1>9 DEF IsLoad

-----------------------------------------------------------------------------
\* Rename enters a block.

Adding(w, c) == w \cup {c}
Entering(f, V, t, P, d, c) == [d EXCEPT ![c] = [d[c] EXCEPT ![1] = Joined(f, V, t, P, d, c)]]

LEMMA NamesEnter ==
  ASSUME NEW f, NEW V, NEW t, NEW P, Setting(f, V, t, P),
         NEW r, NEW d, NEW n, NEW w, Ghosts(f, V, r, d, n, w), Names(f, V, t, P, r, d, n, w),
         NEW c \in Range(f.order), c \notin w, n[c] = 0, Above(f, t, c) \subseteq Full(f, n, w),
         NEW e, e = Entering(f, V, t, P, d, c)
  PROVE  /\ Ghosts(f, V, r, e, n, Adding(w, c)) /\ Names(f, V, t, P, r, e, n, Adding(w, c))
         /\ e[c][1] = Joined(f, V, t, P, d, c)
         /\ \A b \in Blocks(f) : b # c => e[b] = d[b]
<1> USE DEF Adding
<1> DEFINE j == Joined(f, V, t, P, d, c)
           u == w \cup {c}
<1>1. f \in Functions /\ Tree(f, t)
  BY SettingFacts
<1>2. /\ Range(f.order) \subseteq Blocks(f) /\ f.entry \in Range(f.order)
      /\ \A b \in Range(f.order) : b # f.entry => /\ t[b] \in Range(f.order) /\ t[b] \in Above(f, t, b)
                                                  /\ t[b] # b
      /\ \A b \in Blocks(f) : Len(Ins(f, b)) \in Nat
  <2>1. Range(f.order) \subseteq Blocks(f) /\ \A b \in Blocks(f) : Len(Ins(f, b)) \in Nat
    BY <1>1, GivenFacts
  <2>2. ASSUME NEW b \in Range(f.order), b # f.entry
        PROVE  t[b] \in Range(f.order) /\ t[b] \in Above(f, t, b) /\ t[b] # b
    <3>1. Above(f, t, b) = Up(f, t, t[b]) /\ t[b] \in Range(f.order)
      BY <1>1, <2>2, AboveFacts
    <3>2. t[b] \in Up(f, t, t[b])
      BY <1>1, <3>1, AboveFacts
    <3> QED
      BY <3>1, <3>2 DEF Above
  <2>3. f.entry \in Range(f.order)
    BY <1>1, AboveFacts
  <2> QED
    BY <2>1, <2>2, <2>3
<1>3. /\ r \in [Nat -> Nat] /\ d \in [Blocks(f) -> [Nat -> [V -> Nat]]]
      /\ n \in [Blocks(f) -> Nat] /\ w \subseteq Range(f.order) /\ c \in Blocks(f)
  BY <1>2 DEF Ghosts
<1>4. \A v \in V : Has(P, v, c) => /\ PhiOf(P, v, c) \in Ids(P, c) /\ PhiOf(P, v, c) \in Later(f)
                                   /\ PhiOf(P, v, c) \in Nat /\ PhiOf(P, v, c) \notin Instrs(f)
  <2>1. /\ Ids(P, c) \subseteq Later(f) /\ Later(f) \cap Instrs(f) = {} /\ Later(f) \subseteq Nat
        /\ \A v : Has(P, v, c) => PhiOf(P, v, c) \in Ids(P, c)
    BY <1>3, SettingFacts
  <2> QED
    BY <2>1
<1>5. ASSUME c # f.entry
      PROVE  LET m == End(f, t[c])
             IN  /\ t[c] \in Blocks(f) /\ m \in Nat /\ \A v \in V : d[t[c]][m][v] \in Nat
                 /\ \A v \in V : d[t[c]][m][v] # 0 =>
                      d[t[c]][m][v] \in Named(f, t, P, c, 1) /\ r[d[t[c]][m][v]] = d[t[c]][m][v]
  <2> DEFINE m == End(f, t[c])
             b == t[c]
  <2>1. b \in Above(f, t, c) /\ b \in Range(f.order) /\ b \in Blocks(f) /\ m \in Nat
    BY <1>2, <1>5 DEF End
  <2>2. b \in w /\ n[b] = Len(Ins(f, b))
    BY <2>1 DEF Full
  <2>3. m \in 1 .. n[b] + 1 /\ m \in 1 .. End(f, b)
    BY <1>2, <2>1, <2>2 DEF End
  <2>4. \A v \in V : d[b][m][v] # 0 =>
          d[b][m][v] \in Named(f, t, P, b, m) /\ r[d[b][m][v]] = d[b][m][v]
    <3> HIDE DEF b, m
    <3> QED
      BY <2>2, <2>3, GoneFacts
  <2>5. 1 \in 1 .. End(f, c)
    BY <1>2, <1>3 DEF End
  <2>6. Named(f, t, P, b, m) \subseteq Named(f, t, P, c, 1)
    <3> HIDE DEF b, m
    <3> QED
      BY <2>1, <2>3, <2>5, NamedFacts
  <2>7. \A v \in V : d[b][m][v] \in Nat
    <3> HIDE DEF b, m
    <3> QED
      BY <1>3, <2>1
  <2> QED
    BY <2>1, <2>4, <2>6, <2>7
<1>6. j \in [V -> Nat]
  BY <1>4, <1>5 DEF Joined
<1>7. /\ e \in [Blocks(f) -> [Nat -> [V -> Nat]]] /\ e[c][1] = j
      /\ \A b \in Blocks(f) : b # c => e[b] = d[b]
  <2> HIDE DEF j
  <2>1. e = [d EXCEPT ![c] = [d[c] EXCEPT ![1] = j]]
    BY DEF Entering, j
  <2> QED
    BY <1>3, <1>6, <2>1
<1>8. Ghosts(f, V, r, e, n, u)
  BY <1>3, <1>7 DEF Ghosts
<1>9. Gone(f, n, u) = Gone(f, n, w) /\ Full(f, n, w) \subseteq Full(f, n, u)
  <2>1. {Ins(f, c)[k] : k \in 1 .. n[c]} = {}
    BY <1>3
  <2> QED
    BY <2>1 DEF Gone, Full
<1>10. \A i \in Nat : i \notin Gone(f, n, u) => r[i] = i
  BY <1>9 DEF Names
<1>11. \A b \in u : Above(f, t, b) \subseteq Full(f, n, u)
  BY <1>9 DEF Names
<1>12. \A i \in Nat : i \notin Instrs(f) => r[i] = i
  <2>1. Gone(f, n, w) \subseteq Instrs(f)
    <3>1. ASSUME NEW b \in w, NEW k \in 1 .. n[b] PROVE Ins(f, b)[k] \in Instrs(f)
      <4>1. b \in Blocks(f) /\ b \in Range(f.order)
        BY <1>2, <1>3
      <4>2. n[b] \in Nat /\ n[b] <= Len(Ins(f, b)) /\ Len(Ins(f, b)) \in Nat
        BY <1>2, <1>3, <4>1 DEF Ghosts
      <4>3. k \in 1 .. Len(Ins(f, b))
        BY <4>2
      <4> QED
        BY <1>1, <4>1, <4>3, PlaceFacts
    <3> QED
      BY <3>1 DEF Gone
  <2> QED
    BY <2>1 DEF Names
<1>13. ASSUME NEW b \in w PROVE Values(f, V, t, P, r, e, b, n[b])
  <2>1. b # c /\ b \in Range(f.order) /\ b \in Blocks(f) /\ e[b] = d[b]
    BY <1>2, <1>3, <1>7
  <2>2. Values(f, V, t, P, r, d, b, n[b])
    BY DEF Names
  <2>3. b # f.entry => e[t[b]] = d[t[b]]
    <3> SUFFICES ASSUME b # f.entry PROVE e[t[b]] = d[t[b]]
      OBVIOUS
    <3>1. t[b] \in w
      BY <1>2, <2>1 DEF Names, Full
    <3> QED
      BY <1>2, <1>3, <1>7, <3>1
  <2>4. Joined(f, V, t, P, e, b) = Joined(f, V, t, P, d, b)
    BY <2>3 DEF Joined
  <2>5. /\ \A k : Flow(f, V, r, d, b, k) => Flow(f, V, r, e, b, k)
        /\ \A k : Lasting(f, V, t, P, r, d, b, k) => Lasting(f, V, t, P, r, e, b, k)
    BY <2>1 DEF Flow, After, NameOf, Lasting
  <2> QED
    BY <2>1, <2>2, <2>4, <2>5 DEF Values
<1>14. Values(f, V, t, P, r, e, c, n[c])
  <2>1. Joined(f, V, t, P, e, c) = j
    <3>1. c # f.entry => e[t[c]] = d[t[c]]
      BY <1>2, <1>7
    <3> QED
      BY <3>1 DEF Joined
  <2>2. Lasting(f, V, t, P, r, e, c, 1)
    <3> SUFFICES ASSUME NEW v \in V, j[v] # 0
                 PROVE  j[v] \in Named(f, t, P, c, 1) /\ r[j[v]] = j[v]
      BY <1>7 DEF Lasting
    <3>1. j[v] = IF Has(P, v, c) THEN PhiOf(P, v, c)
                 ELSE IF c = f.entry THEN 0 ELSE d[t[c]][End(f, t[c])][v]
      BY DEF Joined
    <3> HIDE DEF j
    <3>2. CASE Has(P, v, c)
      <4>1. 1 \in 1 .. End(f, c)
        BY <1>2, <1>3 DEF End
      <4>2. Ids(P, c) \subseteq Named(f, t, P, c, 1)
        BY <4>1, NamedFacts
      <4> QED
        BY <1>4, <1>12, <3>1, <3>2, <4>2
    <3>3. CASE ~Has(P, v, c)
      BY <1>5, <3>1, <3>3
    <3> QED
      BY <3>2, <3>3
  <2>3. /\ \A k \in 1 .. n[c] : Flow(f, V, r, e, c, k)
        /\ \A k \in 1 .. n[c] + 1 : k = 1
    OBVIOUS
  <2> HIDE DEF j
  <2> QED
    BY <1>7, <2>1, <2>2, <2>3 DEF Values
<1>15. Names(f, V, t, P, r, e, n, u)
  BY <1>10, <1>11, <1>13, <1>14 DEF Names
<1> QED
  BY <1>7, <1>8, <1>15

-----------------------------------------------------------------------------
\* Rename comes past an instruction.

Renaming2(f, V, r, d, b, k) == [r EXCEPT ![Ins(f, b)[k]] = NameOf(f, V, d, b, k)]
Counting(n, b, k) == [n EXCEPT ![b] = k]
Flowing(f, V, r, d, b, k) == [d EXCEPT ![b] = [d[b] EXCEPT ![k + 1] = After(f, V, r, d, b, k)]]

\* The instruction that rename comes to.
LEMMA NextFacts ==
  ASSUME NEW f, NEW V, NEW t, NEW P, Setting(f, V, t, P),
         NEW r, NEW d, NEW n, NEW w, Ghosts(f, V, r, d, n, w), Names(f, V, t, P, r, d, n, w),
         NEW b \in w, n[b] < Len(Ins(f, b)), NEW k, k = n[b] + 1
  PROVE  LET i == Ins(f, b)[k]
         IN  /\ b \in Range(f.order) /\ b \in Blocks(f) /\ k \in Nat /\ k \in 1 .. Len(Ins(f, b))
             /\ k \in 1 .. End(f, b) /\ k + 1 \in 1 .. End(f, b) /\ k - 1 = n[b] /\ k \in 1 .. n[b] + 1
             /\ i \in Instrs(f) /\ i \in Nat /\ i # 0 /\ i \notin Gone(f, n, w) /\ r[i] = i
             /\ \A c \in w : \A m \in 1 .. n[c] + 1 :
                  i \notin Named(f, t, P, c, m) /\ i \notin Avail(f, t, c, m)
             /\ \A c \in w : \A m \in 1 .. n[c] : Ins(f, c)[m] # i
             /\ \A c \in w : \A m \in 1 .. n[c] : m \in 1 .. Len(Ins(f, c)) /\ m \in 1 .. n[c] + 1
             /\ \A c \in w : n[c] \in Nat /\ c \in Range(f.order) /\ c \in Blocks(f)
<1> DEFINE i == Ins(f, b)[k]
<1>1. f \in Functions /\ Tree(f, t)
  BY SettingFacts
<1>2. \A c \in w : /\ n[c] \in Nat /\ c \in Range(f.order) /\ c \in Blocks(f)
                   /\ n[c] <= Len(Ins(f, c)) /\ Len(Ins(f, c)) \in Nat
  <2>1. Range(f.order) \subseteq Blocks(f) /\ \A c \in Blocks(f) : Len(Ins(f, c)) \in Nat
    BY <1>1, GivenFacts
  <2> QED
    BY <2>1 DEF Ghosts
<1>3. \A c \in w : \A m \in 1 .. n[c] : m \in 1 .. Len(Ins(f, c)) /\ m \in 1 .. n[c] + 1
  BY <1>2
<1>4. /\ b \in Range(f.order) /\ b \in Blocks(f) /\ k \in Nat /\ k \in 1 .. Len(Ins(f, b))
      /\ k \in 1 .. End(f, b) /\ k + 1 \in 1 .. End(f, b) /\ k - 1 = n[b] /\ k \in 1 .. n[b] + 1
  BY <1>2 DEF End
<1>5. i \in Instrs(f) /\ i \in Nat /\ i # 0
  <2>1. i \in Instrs(f)
    BY <1>1, <1>4, PlaceFacts
  <2> QED
    BY <1>1, <2>1, GivenFacts
<1>6. ASSUME NEW c \in w, NEW m \in 1 .. n[c], Ins(f, c)[m] = i PROVE FALSE
  <2>1. c \in Blocks(f) /\ m \in 1 .. Len(Ins(f, c))
    BY <1>2, <1>3
  <2>2. c = b /\ m = k
    BY <1>1, <1>4, <1>6, <2>1, PlaceFacts
  <2> QED
    BY <1>2, <2>2
<1>7. i \notin Gone(f, n, w)
  BY <1>6 DEF Gone
<1>8. ASSUME NEW c \in w, NEW m \in 1 .. n[c] + 1
      PROVE  i \notin Named(f, t, P, c, m) /\ i \notin Avail(f, t, c, m)
  <2>1. \A x \in Named(f, t, P, c, m) : x \in Instrs(f) => x \in Gone(f, n, w)
    BY GoneFacts
  <2>2. Avail(f, t, c, m) \subseteq Gone(f, n, w)
    BY GoneFacts
  <2> QED
    BY <1>5, <1>7, <2>1, <2>2
<1>9. r[i] = i
  BY <1>5, <1>7 DEF Names
<1> QED
  BY <1>2, <1>3, <1>4, <1>5, <1>6, <1>7, <1>8, <1>9

LEMMA NamesStep ==
  ASSUME NEW f, NEW V, NEW t, NEW P, Setting(f, V, t, P),
         NEW r, NEW d, NEW n, NEW w, Ghosts(f, V, r, d, n, w), Names(f, V, t, P, r, d, n, w),
         NEW b \in w, n[b] < Len(Ins(f, b)), NEW k, k = n[b] + 1,
         NEW q, q = Renaming2(f, V, r, d, b, k), NEW e, e = Flowing(f, V, r, d, b, k),
         NEW m, m = Counting(n, b, k)
  PROVE  /\ Ghosts(f, V, q, e, m, w) /\ Names(f, V, t, P, q, e, m, w)
         /\ m[b] = k /\ \A c \in Blocks(f) : c # b => m[c] = n[c] /\ e[c] = d[c]
         /\ \A j \in Nat : j # k + 1 => e[b][j] = d[b][j]
         /\ e[b][k + 1] = After(f, V, r, d, b, k)
         /\ q[Ins(f, b)[k]] = NameOf(f, V, d, b, k)
         /\ \A j \in Nat : j # Ins(f, b)[k] => q[j] = r[j]
<1> USE DEF Counting
<1> DEFINE i == Ins(f, b)[k]
           new == After(f, V, r, d, b, k)
           name == NameOf(f, V, d, b, k)
<1>1. f \in Functions /\ Tree(f, t) /\ V \subseteq Instrs(f)
  BY SettingFacts
<1>2. /\ b \in Range(f.order) /\ b \in Blocks(f) /\ k \in Nat /\ k \in 1 .. Len(Ins(f, b))
      /\ k \in 1 .. End(f, b) /\ k + 1 \in 1 .. End(f, b) /\ k - 1 = n[b] /\ k \in 1 .. n[b] + 1
      /\ i \in Instrs(f) /\ i \in Nat /\ i # 0 /\ i \notin Gone(f, n, w) /\ r[i] = i
  BY NextFacts
<1>3. /\ \A c \in w : \A j \in 1 .. n[c] + 1 :
           i \notin Named(f, t, P, c, j) /\ i \notin Avail(f, t, c, j)
      /\ \A c \in w : \A j \in 1 .. n[c] : Ins(f, c)[j] # i
      /\ \A c \in w : \A j \in 1 .. n[c] : j \in 1 .. Len(Ins(f, c)) /\ j \in 1 .. n[c] + 1
      /\ \A c \in w : n[c] \in Nat /\ c \in Range(f.order) /\ c \in Blocks(f)
  BY NextFacts
<1>4. /\ r \in [Nat -> Nat] /\ d \in [Blocks(f) -> [Nat -> [V -> Nat]]]
      /\ n \in [Blocks(f) -> Nat] /\ w \subseteq Range(f.order) /\ Range(f.order) \subseteq Blocks(f)
      /\ \A c \in Range(f.order) : n[c] <= Len(Ins(f, c))
  BY <1>1, GivenFacts DEF Ghosts
<1>5. \A c \in w : \A j \in 1 .. Len(Ins(f, c)) : IsStore(f, V, Ins(f, c)[j]) =>
         /\ f.code[Ins(f, c)[j]].args[1] \in V
         /\ f.code[Ins(f, c)[j]].args[2] \in Nat
         /\ f.code[Ins(f, c)[j]].args[2] \in Avail(f, t, c, j)
  <2> SUFFICES ASSUME NEW c \in w, NEW j \in 1 .. Len(Ins(f, c)), IsStore(f, V, Ins(f, c)[j])
               PROVE  /\ f.code[Ins(f, c)[j]].args[1] \in V
                      /\ f.code[Ins(f, c)[j]].args[2] \in Nat
                      /\ f.code[Ins(f, c)[j]].args[2] \in Avail(f, t, c, j)
    OBVIOUS
  <2> DEFINE s == Ins(f, c)[j]
             a == f.code[s].args
  <2>1. s \in Instrs(f) /\ c \in Range(f.order)
    BY <1>1, <1>3, PlaceFacts
  <2>2. MatchesOpcode(f.code[s]) /\ IsCode(f, s) /\ f.code[s].op = "store" /\ a[1] \in V
    BY <1>1, <2>1, GivenFacts DEF IsStore
  <2>3. a \in Seq(Instrs(f)) /\ Len(a) = 2
    BY <2>2 DEF MatchesOpcode, IsCode
  <2>4. a[2] \in Range(a) /\ a[2] \in Instrs(f)
    <3>1. PICK z, T : z = a /\ T = Instrs(f)
      OBVIOUS
    <3>2. z \in Seq(T) /\ Len(z) = 2
      BY <2>3, <3>1
    <3>3. 2 \in 1 .. Len(z) /\ DOMAIN z = 1 .. Len(z)
      BY <3>2
    <3>4. z[2] \in T
      BY ONLY <3>2, <3>3, ElementOfSeq
    <3> QED
      BY <3>1, <3>3, <3>4 DEF Range
  <2>5. a[2] \in Avail(f, t, c, j)
    BY <1>1, <2>1, <2>4, OperandsAvail
  <2> QED
    BY <1>1, <2>2, <2>4, <2>5, GivenFacts
<1>6. name \in Nat /\ (name = i \/ (name # 0 /\ name \in Named(f, t, P, b, k) /\ r[name] = name))
  <2>1. CASE IsLoad(f, V, i) /\ d[b][k][f.code[i].args[1]] # 0
    <3>1. f.code[i].args[1] \in V /\ name = d[b][k][f.code[i].args[1]]
      BY <2>1 DEF IsLoad, NameOf
    <3>2. \A v \in V : d[b][k][v] # 0 =>
            d[b][k][v] \in Named(f, t, P, b, k) /\ r[d[b][k][v]] = d[b][k][v]
      BY <1>2, GoneFacts
    <3>3. \A v \in V : d[b][k][v] \in Nat
      BY <1>2, <1>4
    <3> QED
      BY <2>1, <3>1, <3>2, <3>3
  <2>2. CASE ~(IsLoad(f, V, i) /\ d[b][k][f.code[i].args[1]] # 0)
    BY <1>2, <2>2 DEF NameOf
  <2> QED
    BY <2>1, <2>2
<1>7. new \in [V -> Nat] /\ \A v \in V : new[v] # 0 => /\ new[v] \in Named(f, t, P, b, k)
                                                       /\ r[new[v]] = new[v] /\ new[v] # i
  <2>1. \A v \in V : d[b][k][v] # 0 =>
          d[b][k][v] \in Named(f, t, P, b, k) /\ r[d[b][k][v]] = d[b][k][v]
    BY <1>2, GoneFacts
  <2>2. d[b][k] \in [V -> Nat] /\ i \notin Named(f, t, P, b, k)
    BY <1>2, <1>3, <1>4
  <2>3. CASE IsStore(f, V, i)
    <3> DEFINE a == f.code[i].args[2]
               u == f.code[i].args[1]
    <3>1. u \in V /\ a \in Nat /\ a \in Avail(f, t, b, k)
      BY <1>2, <1>5, <2>3
    <3>2. r[a] \in Named(f, t, P, b, k) /\ r[r[a]] = r[a] /\ r[a] \in Nat
      <4> HIDE DEF a
      <4>1. r[a] \in Nat
        BY <1>4, <3>1
      <4> QED
        BY <1>2, <3>1, <4>1, RenamedFacts
    <3>3. new = [d[b][k] EXCEPT ![u] = r[a]]
      BY <2>3 DEF After
    <3> HIDE DEF a, u, new
    <3> QED
      BY <2>1, <2>2, <3>1, <3>2, <3>3
  <2>4. CASE ~IsStore(f, V, i)
    <3>1. new = d[b][k]
      BY <2>4 DEF After
    <3> HIDE DEF new
    <3> QED
      BY <2>1, <2>2, <3>1
  <2> QED
    BY <2>3, <2>4
<1> HIDE DEF new, name
<1>8. /\ e \in [Blocks(f) -> [Nat -> [V -> Nat]]] /\ e[b][k + 1] = new
      /\ \A c \in Blocks(f) : c # b => e[c] = d[c]
      /\ \A j \in Nat : j # k + 1 => e[b][j] = d[b][j]
  <2>1. e = [d EXCEPT ![b] = [d[b] EXCEPT ![k + 1] = new]]
    BY DEF Flowing, new
  <2>2. k + 1 \in Nat /\ b \in Blocks(f)
    BY <1>2
  <2>3. new \in [V -> Nat]
    BY <1>7
  <2>4. d[b] \in [Nat -> [V -> Nat]] /\ d \in [Blocks(f) -> [Nat -> [V -> Nat]]]
    BY <1>4, <2>2
  <2> DEFINE x == [d[b] EXCEPT ![k + 1] = new]
             T == [V -> Nat]
  <2>5. x \in [Nat -> T] /\ x[k + 1] = new /\ \A j \in Nat : j # k + 1 => x[j] = d[b][j]
    <3> DEFINE db == d[b]
    <3>1. db \in [Nat -> T] /\ new \in T
      BY <2>3, <2>4
    <3> HIDE DEF db, T, new, i
    <3>2. [db EXCEPT ![k + 1] = new] \in [Nat -> T]
      BY <2>2, <3>1
    <3>3. [db EXCEPT ![k + 1] = new][k + 1] = new
      BY <2>2, <3>1
    <3>4. \A j \in Nat : j # k + 1 => [db EXCEPT ![k + 1] = new][j] = db[j]
      BY <2>2, <3>1
    <3> QED
      BY <3>2, <3>3, <3>4 DEF db
  <2>6. e = [d EXCEPT ![b] = x] /\ d \in [Blocks(f) -> [Nat -> T]]
    BY <2>1, <2>4
  <2> HIDE DEF x, T
  <2>7. e[b] = x /\ e \in [Blocks(f) -> [Nat -> T]] /\ \A c \in Blocks(f) : c # b => e[c] = d[c]
    BY <2>2, <2>5, <2>6
  <2> QED
    BY <2>5, <2>7 DEF T
<1>9. q \in [Nat -> Nat] /\ q[i] = name /\ \A j \in Nat : j # i => q[j] = r[j]
  <2>1. q = [r EXCEPT ![i] = name]
    BY DEF Renaming2, name
  <2> HIDE DEF i
  <2> QED
    BY <1>2, <1>4, <1>6, <2>1
<1>10. m \in [Blocks(f) -> Nat] /\ m[b] = k /\ \A c \in Blocks(f) : c # b => m[c] = n[c]
  BY <1>2, <1>4
<1>11. Ghosts(f, V, q, e, m, w)
  <2>1. \A c \in Range(f.order) : m[c] <= Len(Ins(f, c))
    BY <1>2, <1>4, <1>10
  <2> QED
    BY <1>4, <1>8, <1>9, <1>10, <2>1 DEF Ghosts
<1>12. \A c \in w : \A j \in 1 .. n[c] + 1 : e[c][j] = d[c][j]
  <2> SUFFICES ASSUME NEW c \in w, NEW j \in 1 .. n[c] + 1 PROVE e[c][j] = d[c][j]
    OBVIOUS
  <2>1. CASE c = b
    <3>1. j \in Nat /\ j # k + 1
      BY <1>2, <2>1
    <3> QED
      BY <1>8, <2>1, <3>1
  <2>2. CASE c # b
    BY <1>3, <1>8, <2>2
  <2> QED
    BY <2>1, <2>2
<1>13. ASSUME NEW x \in Nat, x # i, r[x] = x PROVE q[x] = x
  BY <1>9, <1>13
\* What holds of a place that rename has been at stays.
<1>14. ASSUME NEW c \in w, NEW j \in 1 .. n[c] + 1
       PROVE  Lasting(f, V, t, P, q, e, c, j)
  <2> SUFFICES ASSUME NEW v \in V, e[c][j][v] # 0
               PROVE  e[c][j][v] \in Named(f, t, P, c, j) /\ q[e[c][j][v]] = e[c][j][v]
    BY DEF Lasting
  <2>1. e[c][j][v] = d[c][j][v] /\ d[c][j][v] # 0
    BY <1>12
  <2>2. d[c][j][v] \in Named(f, t, P, c, j) /\ r[d[c][j][v]] = d[c][j][v]
    BY <2>1, GoneFacts
  <2>3. d[c][j][v] \in Nat
    <3>1. c \in Blocks(f) /\ j \in Nat
      BY <1>3
    <3>2. d[c] \in [Nat -> [V -> Nat]]
      BY <1>4, <3>1
    <3>3. d[c][j] \in [V -> Nat]
      BY <3>1, <3>2
    <3> QED
      BY <3>3
  <2>4. d[c][j][v] # i
    BY <1>3, <2>2
  <2> QED
    BY <1>13, <2>1, <2>2, <2>3, <2>4
<1>15. ASSUME NEW c \in w, NEW j \in 1 .. n[c]
       PROVE  Flow(f, V, q, e, c, j)
  <2> DEFINE s == Ins(f, c)[j]
  <2>1. Flow(f, V, r, d, c, j)
    BY DEF Names, Values
  <2>2. j \in 1 .. n[c] + 1 /\ j + 1 \in 1 .. n[c] + 1 /\ j \in 1 .. Len(Ins(f, c))
    BY <1>3
  <2>3. e[c][j] = d[c][j] /\ e[c][j + 1] = d[c][j + 1]
    BY <1>12, <2>2
  <2>4. s \in Nat /\ s # i
    <3>1. s \in Instrs(f)
      BY <1>1, <1>3, <2>2, PlaceFacts
    <3> QED
      BY <1>1, <1>3, <3>1, GivenFacts
  <2>5. q[s] = r[s]
    BY <1>9, <2>4
  <2>6. IsStore(f, V, s) => q[f.code[s].args[2]] = r[f.code[s].args[2]]
    <3> SUFFICES ASSUME IsStore(f, V, s) PROVE q[f.code[s].args[2]] = r[f.code[s].args[2]]
      OBVIOUS
    <3>1. f.code[s].args[2] \in Nat /\ f.code[s].args[2] \in Avail(f, t, c, j)
      BY <1>5, <2>2
    <3>2. f.code[s].args[2] # i
      BY <1>3, <2>2, <3>1
    <3> QED
      BY <1>9, <3>1, <3>2
  <2>7. After(f, V, q, e, c, j) = After(f, V, r, d, c, j)
    BY <2>3, <2>6 DEF After
  <2>8. NameOf(f, V, e, c, j) = NameOf(f, V, d, c, j)
    BY <2>3 DEF NameOf
  <2> QED
    BY <2>1, <2>3, <2>5, <2>7, <2>8 DEF Flow
\* And holds of the place it comes to.
<1>16. Flow(f, V, q, e, b, k)
  <2>1. e[b][k] = d[b][k]
    BY <1>2, <1>12
  <2>2. IsStore(f, V, i) => q[f.code[i].args[2]] = r[f.code[i].args[2]]
    <3> SUFFICES ASSUME IsStore(f, V, i) PROVE q[f.code[i].args[2]] = r[f.code[i].args[2]]
      OBVIOUS
    <3>1. f.code[i].args[2] \in Nat /\ f.code[i].args[2] \in Avail(f, t, b, k)
      BY <1>2, <1>5
    <3>2. f.code[i].args[2] # i
      BY <1>2, <1>3, <3>1
    <3> QED
      BY <1>9, <3>1, <3>2
  <2>3. After(f, V, q, e, b, k) = After(f, V, r, d, b, k)
    BY <2>1, <2>2 DEF After
  <2>4. NameOf(f, V, e, b, k) = NameOf(f, V, d, b, k)
    BY <2>1 DEF NameOf
  <2> QED
    BY <1>8, <1>9, <2>3, <2>4 DEF Flow, new, name
<1>17. Lasting(f, V, t, P, q, e, b, k + 1)
  <2> SUFFICES ASSUME NEW v \in V, new[v] # 0
               PROVE  new[v] \in Named(f, t, P, b, k + 1) /\ q[new[v]] = new[v]
    BY <1>8 DEF Lasting
  <2>1. new[v] \in Named(f, t, P, b, k) /\ r[new[v]] = new[v] /\ new[v] # i /\ new[v] \in Nat
    BY <1>7
  <2>2. Named(f, t, P, b, k) \subseteq Named(f, t, P, b, k + 1)
    <3>1. k \in 1 .. k + 1
      BY <1>2
    <3> QED
      BY <1>2, <3>1, NamedFacts
  <2> QED
    BY <1>13, <2>1, <2>2
<1>18. ASSUME NEW c \in w PROVE Values(f, V, t, P, q, e, c, m[c])
  <2>1. e[c][1] = Joined(f, V, t, P, e, c)
    <3>1. d[c][1] = Joined(f, V, t, P, d, c)
      BY DEF Names, Values
    <3>2. e[c][1] = d[c][1]
      <4>1. 1 \in 1 .. n[c] + 1
        BY <1>3
      <4> QED
        BY <1>12, <4>1
    <3>3. c # f.entry => e[t[c]][End(f, t[c])] = d[t[c]][End(f, t[c])]
      <4> SUFFICES ASSUME c # f.entry PROVE e[t[c]][End(f, t[c])] = d[t[c]][End(f, t[c])]
        OBVIOUS
      <4>1. t[c] \in Above(f, t, c) /\ t[c] \in Range(f.order)
        <5>1. Above(f, t, c) = Up(f, t, t[c]) /\ t[c] \in Range(f.order)
          BY <1>1, <1>3, AboveFacts
        <5>2. t[c] \in Up(f, t, t[c])
          BY <1>1, <5>1, AboveFacts
        <5> QED
          BY <5>1, <5>2
      <4>2. t[c] \in w /\ n[t[c]] = Len(Ins(f, t[c]))
        BY <4>1 DEF Names, Full
      <4>3. End(f, t[c]) \in 1 .. n[t[c]] + 1
        BY <1>3, <4>2 DEF End
      <4> QED
        BY <1>12, <4>2, <4>3
    <3> QED
      BY <3>1, <3>2, <3>3 DEF Joined
  <2>2. CASE c # b
    <3>1. m[c] = n[c]
      BY <1>3, <1>10, <2>2
    <3> QED
      BY <1>14, <1>15, <2>1, <3>1 DEF Values
  <2>3. CASE c = b
    <3>1. m[c] = n[c] + 1 /\ k = n[c] + 1 /\ n[c] \in Nat
      BY <1>3, <1>10, <2>3
    <3>2. \A j \in 1 .. m[c] : j \in 1 .. n[c] \/ j = k
      BY <3>1
    <3>3. \A j \in 1 .. m[c] + 1 : j \in 1 .. n[c] + 1 \/ j = k + 1
      BY <3>1
    <3>4. \A j \in 1 .. m[c] : Flow(f, V, q, e, c, j)
      BY <1>15, <1>16, <2>3, <3>2
    <3>5. \A j \in 1 .. m[c] + 1 : Lasting(f, V, t, P, q, e, c, j)
      BY <1>14, <1>17, <2>3, <3>3
    <3> QED
      BY <2>1, <3>4, <3>5 DEF Values
  <2> QED
    BY <2>2, <2>3
<1>19. ASSUME NEW x \in Nat, x \notin Gone(f, m, w) PROVE q[x] = x
  <2>1. x # i
    <3>1. i \in Gone(f, m, w)
      BY <1>2, <1>10 DEF Gone
    <3> QED
      BY <1>19, <3>1
  <2>2. Gone(f, n, w) \subseteq Gone(f, m, w)
    <3>1. \A c \in w : \A j \in 1 .. n[c] : j \in 1 .. m[c]
      BY <1>2, <1>3, <1>10
    <3> QED
      BY <3>1 DEF Gone
  <2>3. r[x] = x
    BY <1>19, <2>2 DEF Names
  <2> QED
    BY <1>13, <2>1, <2>3
<1>20. \A c \in w : Above(f, t, c) \subseteq Full(f, m, w)
  <2>1. Full(f, n, w) \subseteq Full(f, m, w)
    BY <1>3, <1>10 DEF Full
  <2> QED
    BY <2>1 DEF Names
<1>21. Names(f, V, t, P, q, e, m, w)
  BY <1>18, <1>19, <1>20 DEF Names
<1> QED
  BY <1>8, <1>9, <1>10, <1>11, <1>21 DEF new, name

-----------------------------------------------------------------------------
\* What is left of the blocks.

\* The instructions that stay, those of them among the first m of a block, and
\* the instructions after the first m.
Kept(f, V) == {i \in Instrs(f) : ~IsMem(f, V, i)}
Left(f, V, b, m) == Filtered(SubSeq(Ins(f, b), 1, m), Kept(f, V))
Rest(f, b, m) == SubSeq(Ins(f, b), m + 1, Len(Ins(f, b)))

Lists(f, V, n, g) ==
  \A b \in Range(f.order) : Ins(g, b) = Left(f, V, b, n[b]) \o Rest(f, b, n[b])

\* The lists of a block, before and after the instruction i that comes next.
LEMMA LeftFacts ==
  ASSUME NEW f \in Functions, NEW V, NEW b \in Blocks(f), NEW m \in Nat, m < Len(Ins(f, b))
  PROVE  LET i == Ins(f, b)[m + 1]
             a == Left(f, V, b, m)
             c == Rest(f, b, m + 1)
         IN  /\ i \in Instrs(f) /\ a \in Seq(Instrs(f)) /\ c \in Seq(Instrs(f)) /\ Len(a) \in Nat
             /\ Rest(f, b, m) = <<i>> \o c
             /\ i \notin Range(a) /\ i \notin Range(c)
             /\ Left(f, V, b, m + 1) = IF i \in Kept(f, V) THEN Append(a, i) ELSE a
<1> DEFINE list == Ins(f, b)
           T == Instrs(f)
           S == Kept(f, V)
           i == list[m + 1]
           p == SubSeq(list, 1, m)
           a == Left(f, V, b, m)
           c == Rest(f, b, m + 1)
<1>1. list \in Seq(T) /\ NoTwice(list) /\ Len(list) \in Nat /\ m < Len(list)
  BY GivenFacts
<1>2. a = Filtered(p, S) /\ c = SubSeq(list, m + 2, Len(list)) /\ (m + 1) + 1 = m + 2
      /\ Rest(f, b, m) = SubSeq(list, m + 1, Len(list))
      /\ Left(f, V, b, m + 1) = Filtered(SubSeq(list, 1, m + 1), S)
  BY DEF Left, Rest
<1> HIDE DEF list, T, S, a, c
<1>3. /\ p \in Seq(T) /\ c \in Seq(T) /\ m + 1 \in 1 .. Len(list) /\ i \in T
      /\ SubSeq(list, 1, m + 1) = Append(p, i)
      /\ SubSeq(list, m + 1, Len(list)) = <<i>> \o c
  BY <1>1, <1>2, ListSteps
<1>4. /\ Range(p) \subseteq {list[j] : j \in 1 .. m} /\ Range(c) \subseteq {list[j] : j \in m + 2 .. Len(list)}
  <2>1. Len(p) = m /\ \A j \in 1 .. m : p[j] = list[j]
    BY <1>1
  <2>2. \A j \in 1 .. Len(c) : Len(c) = Len(list) - (m + 1) /\ c[j] = list[j + (m + 1)]
    <3>1. list \in Seq(T) /\ m \in Nat /\ m < Len(list) /\ Len(list) \in Nat
      BY <1>1
    <3>2. c = SubSeq(list, m + 2, Len(list))
      BY <1>2
    <3> QED
      BY ONLY <3>1, <3>2
  <2>3. \A j \in 1 .. Len(c) : c[j] \in {list[l] : l \in m + 2 .. Len(list)}
    <3> SUFFICES ASSUME NEW j \in 1 .. Len(c) PROVE c[j] \in {list[l] : l \in m + 2 .. Len(list)}
      OBVIOUS
    <3>1. j + (m + 1) \in m + 2 .. Len(list)
      BY <1>1, <2>2
    <3> QED
      BY <2>2, <3>1
  <2>4. DOMAIN c = 1 .. Len(c) /\ DOMAIN p = 1 .. Len(p)
    BY <1>3
  <2> HIDE DEF p
  <2> QED
    BY <2>1, <2>3, <2>4 DEF Range
<1>5. i \notin Range(p) /\ i \notin Range(c)
  <2>1. \A j \in 1 .. Len(list) : list[j] = i => j = m + 1
    BY <1>1, <1>3 DEF NoTwice
  <2>2. \A j \in 1 .. m : j \in 1 .. Len(list) /\ j # m + 1
    BY <1>1
  <2>3. \A j \in m + 2 .. Len(list) : j \in 1 .. Len(list) /\ j # m + 1
    BY <1>1
  <2> HIDE DEF i, p
  <2> QED
    BY <1>4, <2>1, <2>2, <2>3
<1> HIDE DEF p, i
<1>6. a \in Seq(T) /\ Range(a) \subseteq Range(p)
  BY <1>2, <1>3, FilteredFacts
<1>7. Len(a) \in Nat
  BY <1>6
<1>8. Left(f, V, b, m + 1) = IF i \in S THEN Append(a, i) ELSE a
  <2>1. Filtered(Append(p, i), S) = IF i \in S THEN Append(Filtered(p, S), i) ELSE Filtered(p, S)
    BY <1>3, FilteredAppend
  <2> QED
    BY <1>2, <1>3, <2>1
<1>9. i \notin Range(a)
  BY <1>5, <1>6
<1>10. Rest(f, b, m) = <<i>> \o c
  BY <1>2, <1>3
<1> QED
  BY <1>3, <1>5, <1>6, <1>7, <1>8, <1>9, <1>10 DEF list, T, S, a, c, i

\* Where rename is in a block that it has come past all instructions of.
LEMMA RestFacts ==
  ASSUME NEW f \in Functions, NEW V, NEW b \in Blocks(f), NEW m, m = Len(Ins(f, b))
  PROVE  /\ Left(f, V, b, m) \in Seq(Instrs(f)) /\ Len(Left(f, V, b, m)) \in Nat
         /\ Left(f, V, b, m) \o Rest(f, b, m) = Left(f, V, b, m)
         /\ Left(f, V, b, m) = Filtered(Ins(f, b), Kept(f, V))
<1> DEFINE list == Ins(f, b)
           a == Left(f, V, b, m)
<1>1. list \in Seq(Instrs(f)) /\ Len(list) \in Nat /\ m = Len(list)
  BY GivenFacts
<1>2. a = Filtered(SubSeq(list, 1, m), Kept(f, V)) /\ Rest(f, b, m) = SubSeq(list, m + 1, Len(list))
  BY DEF Left, Rest
<1> HIDE DEF list, a
<1>3. SubSeq(list, 1, m) = list /\ SubSeq(list, m + 1, Len(list)) = <<>>
  BY <1>1
<1>4. a \in Seq(Instrs(f))
  BY <1>1, <1>2, <1>3, FilteredFacts
<1>5. a \o <<>> = a /\ Len(a) \in Nat
  BY <1>4
<1> QED
  BY <1>1, <1>2, <1>3, <1>4, <1>5 DEF list, a

\* The instruction that rename finds is the one that it has not come past yet.
LEMMA ListsNext ==
  ASSUME NEW f \in Functions, NEW V, NEW n, NEW g, Lists(f, V, n, g),
         NEW b \in Range(f.order), n[b] \in Nat, n[b] <= Len(Ins(f, b))
  PROVE  /\ Len(Left(f, V, b, n[b])) + 1 <= Len(Ins(g, b)) => n[b] < Len(Ins(f, b))
         /\ n[b] < Len(Ins(f, b)) =>
              /\ Len(Left(f, V, b, n[b])) + 1 <= Len(Ins(g, b))
              /\ Ins(g, b)[Len(Left(f, V, b, n[b])) + 1] = Ins(f, b)[n[b] + 1]
<1> DEFINE m == n[b]
           a == Left(f, V, b, m)
           c == Rest(f, b, m + 1)
           i == Ins(f, b)[m + 1]
           T == Instrs(f)
<1>1. b \in Blocks(f) /\ m \in Nat /\ m <= Len(Ins(f, b)) /\ Len(Ins(f, b)) \in Nat
  BY GivenFacts
<1>2. Ins(g, b) = a \o Rest(f, b, m)
  BY DEF Lists
<1> HIDE DEF m
<1>3. CASE m < Len(Ins(f, b))
  <2>1. a \in Seq(T) /\ c \in Seq(T) /\ i \in T /\ Rest(f, b, m) = <<i>> \o c
    BY <1>1, <1>3, LeftFacts
  <2> HIDE DEF a, c, i, T
  <2>2. /\ Len(a \o (<<i>> \o c)) = Len(a) + (1 + Len(c)) /\ Len(a) \in Nat /\ Len(c) \in Nat
        /\ (a \o (<<i>> \o c))[Len(a) + 1] = i
    <3> DEFINE x == <<i>> \o c
    <3>1. x \in Seq(T) /\ Len(x) = 1 + Len(c) /\ x[1] = i /\ Len(a) \in Nat /\ Len(c) \in Nat
      BY <2>1
    <3> HIDE DEF x
    <3>2. Len(a \o x) = Len(a) + Len(x) /\ (a \o x)[Len(a) + 1] = x[1]
      BY <2>1, <3>1
    <3> QED
      BY <3>1, <3>2 DEF x
  <2>3. Len(a) + 1 <= Len(a) + (1 + Len(c))
    BY <2>2
  <2> QED
    BY <1>2, <1>3, <2>1, <2>2, <2>3 DEF a, i, m
<1>4. CASE m = Len(Ins(f, b))
  <2>1. Ins(g, b) = a /\ Len(a) \in Nat
    BY <1>1, <1>2, <1>4, RestFacts
  <2>2. ~(Len(a) + 1 <= Len(a)) /\ ~(m < Len(Ins(f, b)))
    BY <1>1, <1>4, <2>1
  <2> QED
    BY <2>1, <2>2 DEF m
<1> QED
  BY <1>1, <1>3, <1>4

\* Rename comes past an instruction that stays where it is.
LEMMA ListsKeep ==
  ASSUME NEW f \in Functions, NEW V, NEW n \in [Blocks(f) -> Nat], NEW g, Lists(f, V, n, g),
         NEW b \in Range(f.order), n[b] < Len(Ins(f, b)), Ins(f, b)[n[b] + 1] \in Kept(f, V),
         NEW m, m = Counting(n, b, n[b] + 1),
         NEW h, \A c \in Blocks(f) : Ins(h, c) = Ins(g, c)
  PROVE  /\ Lists(f, V, m, h)
         /\ Len(Left(f, V, b, n[b] + 1)) = Len(Left(f, V, b, n[b])) + 1
<1> USE DEF Counting
<1> DEFINE k == n[b]
           a == Left(f, V, b, k)
           c == Rest(f, b, k + 1)
           i == Ins(f, b)[k + 1]
           T == Instrs(f)
<1>1. b \in Blocks(f) /\ k \in Nat /\ Range(f.order) \subseteq Blocks(f)
  BY GivenFacts
<1>2. a \in Seq(T) /\ c \in Seq(T) /\ i \in T /\ Rest(f, b, k) = <<i>> \o c
      /\ Left(f, V, b, k + 1) = Append(a, i)
  <2>1. k < Len(Ins(f, b)) /\ i \in Kept(f, V)
    OBVIOUS
  <2> HIDE DEF k
  <2>2. a \in Seq(T) /\ c \in Seq(T) /\ i \in T /\ Rest(f, b, k) = <<i>> \o c
    BY <1>1, <2>1, LeftFacts
  <2>3. Left(f, V, b, k + 1) = IF i \in Kept(f, V) THEN Append(a, i) ELSE a
    BY <1>1, <2>1, LeftFacts
  <2> HIDE DEF a, i
  <2> QED
    BY <2>1, <2>2, <2>3
<1>3. Ins(g, b) = a \o Rest(f, b, k)
  BY DEF Lists
<1>4. m[b] = k + 1 /\ \A x \in Range(f.order) : x # b => m[x] = n[x]
  BY <1>1
<1> HIDE DEF a, c, i, T, k
<1>5. a \o (<<i>> \o c) = Append(a, i) \o c /\ Len(Append(a, i)) = Len(a) + 1
  <2> DEFINE one == <<i>>
  <2>1. one \in Seq(T) /\ Append(a, i) = a \o one /\ Len(Append(a, i)) = Len(a) + 1
    BY <1>2
  <2> HIDE DEF one
  <2>3. a \in Seq(T) /\ one \in Seq(T) /\ c \in Seq(T)
    BY <1>2, <2>1
  <2>2. a \o (one \o c) = (a \o one) \o c
    BY ONLY <2>3, ConcatAssociative
  <2> QED
    BY <2>1, <2>2 DEF one
<1>6. Ins(h, b) = Left(f, V, b, m[b]) \o Rest(f, b, m[b])
  BY <1>1, <1>2, <1>3, <1>4, <1>5 DEF c
<1>7. \A x \in Range(f.order) : x # b => Ins(h, x) = Left(f, V, x, m[x]) \o Rest(f, x, m[x])
  BY <1>1, <1>4 DEF Lists
<1> QED
  BY <1>2, <1>5, <1>6, <1>7 DEF Lists, a, k

\* Rename takes out the instruction that it comes to.
LEMMA ListsDrop ==
  ASSUME NEW f \in Functions, NEW V, NEW n \in [Blocks(f) -> Nat], NEW g, Lists(f, V, n, g),
         NEW b \in Range(f.order), n[b] < Len(Ins(f, b)), Ins(f, b)[n[b] + 1] \notin Kept(f, V),
         NEW m, m = Counting(n, b, n[b] + 1), Instrs(f) \subseteq Instrs(g),
         NEW h, Ins(h, b) = Filtered(Ins(g, b), Instrs(g) \ {Ins(f, b)[n[b] + 1]}),
         \A c \in Blocks(f) : c # b => Ins(h, c) = Ins(g, c)
  PROVE  Lists(f, V, m, h) /\ Left(f, V, b, n[b] + 1) = Left(f, V, b, n[b])
<1> USE DEF Counting
<1> DEFINE k == n[b]
           a == Left(f, V, b, k)
           c == Rest(f, b, k + 1)
           i == Ins(f, b)[k + 1]
           T == Instrs(f)
           G == Instrs(g)
<1>1. b \in Blocks(f) /\ k \in Nat /\ Range(f.order) \subseteq Blocks(f)
  BY GivenFacts
<1>2. a \in Seq(T) /\ c \in Seq(T) /\ i \in T /\ Rest(f, b, k) = <<i>> \o c
      /\ Left(f, V, b, k + 1) = a /\ i \notin Range(a) /\ i \notin Range(c)
  <2>1. k < Len(Ins(f, b)) /\ i \notin Kept(f, V)
    OBVIOUS
  <2> HIDE DEF k
  <2>2. a \in Seq(T) /\ c \in Seq(T) /\ i \in T /\ Rest(f, b, k) = <<i>> \o c
    BY <1>1, <2>1, LeftFacts
  <2>3. i \notin Range(a) /\ i \notin Range(c)
    BY <1>1, <2>1, LeftFacts
  <2>4. Left(f, V, b, k + 1) = IF i \in Kept(f, V) THEN Append(a, i) ELSE a
    BY <1>1, <2>1, LeftFacts
  <2> HIDE DEF a, i
  <2> QED
    BY <2>1, <2>2, <2>3, <2>4
<1>3. Ins(g, b) = a \o Rest(f, b, k) /\ T \subseteq G
  BY DEF Lists
<1>4. m[b] = k + 1 /\ \A x \in Range(f.order) : x # b => m[x] = n[x]
  BY <1>1
<1>5. Ins(h, b) = Filtered(Ins(g, b), G \ {i})
  OBVIOUS
<1> HIDE DEF a, c, i, T, G, k
<1>6. a \in Seq(G) /\ c \in Seq(G) /\ i \in G
  BY <1>2, <1>3, SeqWider
<1>7. Filtered(a \o (<<i>> \o c), G \ {i}) = a \o c
  <2>1. i \notin Range(a) /\ i \notin Range(c)
    BY <1>2
  <2> QED
    <3> DEFINE one == <<i>>
               S == G \ {i}
    <3>1. one \in Seq(G) /\ Filtered(one, S) = <<>>
      BY <1>6, FilteredSingle
    <3>2. Range(a) \subseteq S /\ Range(c) \subseteq S
      BY <1>6, <2>1 DEF Range
    <3>3. a \in Seq(G) /\ c \in Seq(G)
      BY <1>6
    <3> HIDE DEF one, S
    <3>4. Filtered(a \o (one \o c), S) = a \o c
      BY <3>1, <3>2, <3>3, FilteredAround
    <3> QED
      BY <3>4 DEF one, S
<1>8. Ins(h, b) = Left(f, V, b, m[b]) \o Rest(f, b, m[b])
  BY <1>2, <1>3, <1>4, <1>5, <1>7 DEF c
<1>9. \A x \in Range(f.order) : x # b => Ins(h, x) = Left(f, V, x, m[x]) \o Rest(f, x, m[x])
  BY <1>1, <1>4 DEF Lists
<1> QED
  BY <1>2, <1>8, <1>9 DEF Lists, a, k

-----------------------------------------------------------------------------
\* The way of rename over the dominator tree.

\* A call will still call itself for a child that c is below.
WillEnter(f, t, call, c) ==
  \E j \in DOMAIN Kids(f, t, call.block) :
    j >= call.child /\ Kids(f, t, call.block)[j] \in Up(f, t, c)

\* No block is entered twice, the calls that wait lead to different parts of
\* the tree, and every block that has not been entered will be.
Tours(f, t, w, calls) ==
  /\ \A k \in 1 .. Len(calls) : \A c \in w : ~WillEnter(f, t, calls[k], c)
  /\ \A k, m \in 1 .. Len(calls) : k < m =>
       \A c \in Range(f.order) : WillEnter(f, t, calls[k], c) => calls[m].block \notin Up(f, t, c)
  /\ \A c \in Range(f.order) : c \in w \/ \E k \in 1 .. Len(calls) : WillEnter(f, t, calls[k], c)

\* Calls that have the same children to come.
LEMMA ToursSame ==
  ASSUME NEW f, NEW t, NEW w, NEW calls, Tours(f, t, w, calls),
         NEW later, Len(later) = Len(calls),
         \A k \in 1 .. Len(calls) : /\ later[k].block = calls[k].block
                                    /\ \A c : WillEnter(f, t, later[k], c) <=> WillEnter(f, t, calls[k], c)
  PROVE  Tours(f, t, w, later)
BY DEF Tours

LEMMA WillEnterFacts ==
  ASSUME NEW f \in Functions, NEW t, Tree(f, t), NEW call, call.block \in Range(f.order),
         NEW c \in Range(f.order), WillEnter(f, t, call, c)
  PROVE  call.block \in Above(f, t, c)
<1> DEFINE b == call.block
           K == Kids(f, t, b)
<1>1. NoTwice(f.order)
  BY GivenFacts
<1>2. PICK j \in DOMAIN K : K[j] \in Up(f, t, c)
  BY DEF WillEnter
<1>3. K[j] \in Range(f.order) /\ Above(f, t, K[j]) = Up(f, t, b) /\ K[j] \notin Up(f, t, b)
  BY <1>1, KidsFacts
<1> HIDE DEF K
<1>4. b \in Up(f, t, b)
  BY AboveFacts
<1>5. Above(f, t, K[j]) \subseteq Above(f, t, c)
  BY <1>2, AboveFacts
<1> QED
  BY <1>3, <1>4, <1>5

\* The last call calls rename for c, the next child of its block.
CallsFor(f, V, t, P, calls, later, c) ==
  /\ Len(calls) \in Nat \ {0} /\ Len(later) = Len(calls) + 1
  /\ calls[Len(calls)].child \in DOMAIN Kids(f, t, calls[Len(calls)].block)
  /\ c = Kids(f, t, calls[Len(calls)].block)[calls[Len(calls)].child]
  /\ \A j \in 1 .. Len(calls) : j # Len(calls) => later[j] = calls[j]
  /\ later[Len(calls)].block = calls[Len(calls)].block
  /\ later[Len(calls)].next = calls[Len(calls)].next
  /\ later[Len(calls)].child = calls[Len(calls)].child + 1
  /\ later[Len(calls)].pushed = calls[Len(calls)].pushed
  /\ later[Len(calls) + 1].block = c
  /\ later[Len(calls) + 1].next = 1
  /\ later[Len(calls) + 1].child = 0
  /\ later[Len(calls) + 1].pushed = [v \in V |-> IF Has(P, v, c) THEN 1 ELSE 0]

\* The last call returns, and takes off the stacks what it has pushed.
Returns(f, V, t, s, calls, z, later) ==
  /\ Len(calls) \in Nat \ {0} /\ Len(later) = Len(calls) - 1
  /\ \A j \in 1 .. Len(calls) - 1 : later[j] = calls[j]
  /\ calls[Len(calls)].child \in Nat
  /\ calls[Len(calls)].child > Len(Kids(f, t, calls[Len(calls)].block))
  /\ s \in [V -> Seq(Nat)]
  /\ z = [v \in V |-> Popped(s[v], calls[Len(calls)].pushed[v])]

\* The calls are in blocks of the list.
Inside(f, calls) == \A k \in 1 .. Len(calls) : calls[k].block \in Range(f.order)

\* The block c that a call is for.
NextIn(f, t, w, c, top) ==
  /\ c \in Range(f.order) /\ c \notin w /\ Above(f, t, c) = Up(f, t, top.block)
  /\ c # f.entry /\ t[c] = top.block /\ top.child \in Nat \ {0}

\* Rename calls itself for a child.
LEMMA ToursEnter ==
  ASSUME NEW f \in Functions, NEW V, NEW t, Tree(f, t), NEW P, NEW w, w \subseteq Range(f.order),
         NEW calls, Tours(f, t, w, calls), Inside(f, calls),
         NEW c, NEW later, CallsFor(f, V, t, P, calls, later, c),
         NEW top, top = calls[Len(calls)]
  PROVE  NextIn(f, t, w, c, top) /\ Tours(f, t, Adding(w, c), later)
<1> USE DEF CallsFor, Inside, Adding
<1>0. top.block \in Range(f.order) /\ top.child \in Nat /\ top.child \in Nat \ {0}
  <2>1. top.block \in Range(f.order) /\ NoTwice(f.order)
    BY GivenFacts
  <2>2. DOMAIN Kids(f, t, top.block) = 1 .. Len(Kids(f, t, top.block)) /\ Len(Kids(f, t, top.block)) \in Nat
    BY <2>1, KidsFacts
  <2> QED
    BY <2>1, <2>2
<1> DEFINE N == Len(calls)
           b == top.block
           K == Kids(f, t, b)
           u == w \cup {c}
<1>1. NoTwice(f.order) /\ b \in Range(f.order) /\ N \in Nat \ {0}
  BY <1>0, GivenFacts
<1>2. /\ c \in Range(f.order) /\ Above(f, t, c) = Up(f, t, b) /\ c \notin Up(f, t, b)
      /\ c # f.entry /\ t[c] = b
  BY <1>1, KidsFacts
<1>3. c \in Up(f, t, c) /\ b \in Up(f, t, b)
  BY <1>1, <1>2, AboveFacts
<1>4. WillEnter(f, t, top, c)
  BY <1>0, <1>3 DEF WillEnter
<1>5. c \notin w
  BY <1>1, <1>4 DEF Tours
<1>6. Spanned(f, t)
  BY ExactTreeSpans DEF Tree
<1>7. \A j \in DOMAIN K : \A x \in Range(f.order) : K[j] \in Up(f, t, x) /\ c \in Up(f, t, x) => j = top.child
  BY <1>1, KidsFacts
<1>8. \A x \in Range(f.order) : WillEnter(f, t, later[N], x) =>
        WillEnter(f, t, top, x) /\ c \notin Up(f, t, x)
  <2> SUFFICES ASSUME NEW x \in Range(f.order), WillEnter(f, t, later[N], x)
               PROVE  WillEnter(f, t, top, x) /\ c \notin Up(f, t, x)
    OBVIOUS
  <2>1. PICK j \in DOMAIN K : j >= top.child + 1 /\ K[j] \in Up(f, t, x)
    BY DEF WillEnter
  <2>2. j \in Nat
    BY <1>1, KidsFacts
  <2>3. j >= top.child /\ j # top.child
    BY <1>0, <2>1, <2>2
  <2>4. WillEnter(f, t, top, x)
    BY <2>1, <2>3 DEF WillEnter
  <2> QED
    BY <1>7, <2>1, <2>3, <2>4
<1>9. \A x \in Range(f.order) : WillEnter(f, t, later[N + 1], x) => c \in Above(f, t, x)
  BY <1>2, WillEnterFacts
<1>10. \A x \in Range(f.order) : c \in Up(f, t, x) => WillEnter(f, t, top, x) /\ b \in Up(f, t, x)
  <2> SUFFICES ASSUME NEW x \in Range(f.order), c \in Up(f, t, x)
               PROVE  WillEnter(f, t, top, x) /\ b \in Up(f, t, x)
    OBVIOUS
  <2>1. WillEnter(f, t, top, x)
    BY <1>0 DEF WillEnter
  <2>2. Up(f, t, c) \subseteq Up(f, t, x)
    BY AboveFacts
  <2> QED
    BY <1>2, <1>3, <2>1, <2>2 DEF Above
<1> HIDE DEF K
<1>11. \A k \in 1 .. N + 1 : \/ k \in 1 .. N /\ k # N /\ k < N /\ later[k] = calls[k]
                             \/ k = N
                             \/ k = N + 1
  BY <1>1
<1>12. /\ \A k \in 1 .. N : \A x \in w : ~WillEnter(f, t, calls[k], x)
       /\ \A k, m \in 1 .. N : k < m =>
            \A x \in Range(f.order) : WillEnter(f, t, calls[k], x) => calls[m].block \notin Up(f, t, x)
       /\ \A x \in Range(f.order) : x \in w \/ \E k \in 1 .. N : WillEnter(f, t, calls[k], x)
  BY DEF Tours
<1>13. N \in 1 .. N /\ calls[N] = top /\ later[N].block = b /\ later[N + 1].block = c
  BY <1>1
<1>14. ASSUME NEW k \in 1 .. N + 1, NEW x \in u, WillEnter(f, t, later[k], x) PROVE FALSE
  <2>1. x \in Range(f.order)
    BY <1>2
  <2>2. CASE k \in 1 .. N /\ k < N /\ later[k] = calls[k]
    <3>1. x = c
      BY <1>12, <1>14, <2>2
    <3>2. b \notin Up(f, t, c)
      BY <1>12, <1>13, <1>14, <2>1, <2>2, <3>1
    <3> QED
      BY <1>2, <1>3, <1>10, <3>2
  <2>3. CASE k = N
    BY <1>3, <1>8, <1>12, <1>13, <1>14, <2>1, <2>3
  <2>4. CASE k = N + 1
    <3>1. c \in Above(f, t, x)
      BY <1>9, <1>14, <2>1, <2>4
    <3>2. x # c /\ x \in w /\ c \in Up(f, t, x)
      BY <3>1 DEF Above
    <3> QED
      BY <1>10, <1>12, <1>13, <2>1, <3>2
  <2> QED
    BY <1>11, <2>2, <2>3, <2>4
<1>15. ASSUME NEW k \in 1 .. N + 1, NEW m \in 1 .. N + 1, k < m,
              NEW x \in Range(f.order), WillEnter(f, t, later[k], x), later[m].block \in Up(f, t, x)
       PROVE  FALSE
  <2>1. k \in 1 .. N
    BY <1>1, <1>15
  <2>2. CASE m = N + 1
    <3>1. c \in Up(f, t, x)
      BY <1>13, <1>15, <2>2
    <3>2. CASE k = N
      BY <1>8, <1>15, <3>1, <3>2
    <3>3. CASE k # N
      <4>1. k < N /\ later[k] = calls[k]
        BY <1>1, <2>1, <3>3
      <4> QED
        BY <1>10, <1>12, <1>13, <1>15, <2>1, <3>1, <4>1
    <3> QED
      BY <3>2, <3>3
  <2>3. CASE m # N + 1
    <3>1. m \in 1 .. N /\ k < N /\ k # N
      BY <1>1, <1>15, <2>1, <2>3
    <3>2. later[k] = calls[k] /\ later[m].block = calls[m].block
      BY <1>13, <2>1, <3>1
    <3> QED
      BY <1>12, <1>15, <2>1, <3>1, <3>2
  <2> QED
    BY <2>2, <2>3
<1>16. ASSUME NEW x \in Range(f.order), x \notin u
       PROVE  \E k \in 1 .. N + 1 : WillEnter(f, t, later[k], x)
  <2>1. PICK k \in 1 .. N : WillEnter(f, t, calls[k], x)
    BY <1>12, <1>16
  <2>2. k \in 1 .. N + 1 /\ N \in 1 .. N + 1 /\ N + 1 \in 1 .. N + 1
    BY <1>1
  <2>3. CASE k # N
    BY <2>1, <2>2, <2>3
  <2>4. CASE k = N
    <3>1. PICK j \in DOMAIN Kids(f, t, b) : j >= top.child /\ Kids(f, t, b)[j] \in Up(f, t, x)
      BY <1>13, <2>1, <2>4 DEF WillEnter
    <3>2. j \in Nat
      BY <1>1, KidsFacts
    <3>3. CASE j = top.child
      <4>1. c \in Up(f, t, x) /\ c # x
        BY <1>16, <3>1, <3>3
      <4>2. PICK l \in DOMAIN Kids(f, t, c) : Kids(f, t, c)[l] \in Up(f, t, x)
        BY <1>6, <4>1 DEF Spanned
      <4>3. l \in Nat
        BY <1>1, <1>2, KidsFacts
      <4>4. l >= 0
        BY <4>3
      <4>5. WillEnter(f, t, later[N + 1], x)
        BY <4>2, <4>4 DEF WillEnter
      <4> QED
        BY <2>2, <4>5
    <3>4. CASE j # top.child
      <4>1. j >= top.child + 1
        BY <1>0, <3>1, <3>2, <3>4
      <4>2. WillEnter(f, t, later[N], x)
        BY <3>1, <4>1 DEF WillEnter
      <4> QED
        BY <2>2, <4>2
    <3> QED
      BY <3>3, <3>4
  <2> QED
    BY <2>3, <2>4
<1>17. Tours(f, t, u, later)
  BY <1>14, <1>15, <1>16 DEF Tours
<1> QED
  BY <1>0, <1>2, <1>5, <1>17 DEF NextIn

\* A call returns.
LEMMA ToursReturn ==
  ASSUME NEW f \in Functions, NEW V, NEW t, Tree(f, t), NEW w, NEW s, NEW z,
         NEW calls, Tours(f, t, w, calls), NEW top, top = calls[Len(calls)], top.block \in Range(f.order),
         NEW later, Returns(f, V, t, s, calls, z, later)
  PROVE  Tours(f, t, w, later) /\ top.child # 0
<1> USE DEF Returns
<1> DEFINE N == Len(calls)
           K == Kids(f, t, top.block)
<1>1. NoTwice(f.order) /\ N \in Nat \ {0}
  BY GivenFacts
<1>2. DOMAIN K = 1 .. Len(K) /\ Len(K) \in Nat
  BY <1>1, KidsFacts
<1>3. \A x : ~WillEnter(f, t, top, x)
  <2>1. \A j \in DOMAIN K : ~(j >= top.child)
    BY <1>2
  <2> QED
    BY <2>1 DEF WillEnter
<1>4. \A k \in 1 .. N : k = N \/ k \in 1 .. N - 1
  BY <1>1
<1>5. \A k \in 1 .. N - 1 : k \in 1 .. N
  BY <1>1
<1>6. top.child # 0
  BY <1>2
<1> QED
  BY <1>3, <1>4, <1>5, <1>6 DEF Tours

\* The call for the entry, and the end.
LEMMA ToursStart ==
  ASSUME NEW f \in Functions, NEW t, Tree(f, t),
         NEW calls, Len(calls) = 1, calls[1].block = f.entry, calls[1].child = 0
  PROVE  Tours(f, t, {f.entry}, calls)
<1>1. NoTwice(f.order) /\ f.entry \in Range(f.order)
  <2>1. Held(f, t) = Range(f.order) /\ GraphHere(f) /\ IsTree(f, t)
    BY DEF Tree, Fixed
  <2> QED
    BY <2>1, GivenFacts, HeldFacts
<1>2. Spanned(f, t)
  BY ExactTreeSpans DEF Tree
<1>3. ~WillEnter(f, t, calls[1], f.entry)
  <2>1. Above(f, t, f.entry) = {}
    BY <1>1, AboveFacts
  <2> QED
    BY <1>1, <2>1, WillEnterFacts
<1>4. ASSUME NEW x \in Range(f.order), x # f.entry
      PROVE  WillEnter(f, t, calls[1], x)
  <2>1. PICK j \in DOMAIN Kids(f, t, f.entry) : Kids(f, t, f.entry)[j] \in Up(f, t, x)
    BY <1>2, <1>4 DEF Spanned
  <2>2. j \in Nat
    BY <1>1, KidsFacts
  <2>3. j >= 0
    BY <2>2
  <2> QED
    BY <2>1, <2>3 DEF WillEnter
<1>5. 1 .. Len(calls) = {1}
  OBVIOUS
<1> QED
  BY <1>3, <1>4, <1>5 DEF Tours

LEMMA ToursEnd ==
  ASSUME NEW f, NEW t, NEW w, w \subseteq Range(f.order), NEW calls, Len(calls) = 0, Tours(f, t, w, calls)
  PROVE  w = Range(f.order)
<1>1. 1 .. Len(calls) = {}
  OBVIOUS
<1>2. \A c \in Range(f.order) : c \in w
  BY <1>1 DEF Tours
<1> QED
  BY <1>2

-----------------------------------------------------------------------------
\* Where the calls of rename are in their blocks.
Stands(f, V, n, w, calls) ==
  /\ \A b \in w : n[b] < Len(Ins(f, b)) =>
       calls[Len(calls)].block = b /\ calls[Len(calls)].child = 0 /\ Len(calls) # 0
  /\ \A b \in Range(f.order) : b \notin w => n[b] = 0
  /\ \A k \in 1 .. Len(calls) :
       /\ calls[k].block \in w
       /\ calls[k].next = Len(Left(f, V, calls[k].block, n[calls[k].block])) + 1
       /\ k # Len(calls) => calls[k].child # 0
       /\ calls[k].child # 0 => n[calls[k].block] = Len(Ins(f, calls[k].block))

\* The name on top of a stack, 0 for none.
TopOf(list) == IF list = <<>> THEN 0 ELSE Last(list)

\* The stacks of a call hold the names at its place on top; without what it
\* has pushed they are the stacks it was called with.
Level(V, d, n, call, here, below) ==
  \A v \in V : /\ d[call.block][n[call.block] + 1][v] = TopOf(here[v])
               /\ call.pushed[v] <= Len(here[v])
               /\ Popped(here[v], call.pushed[v]) = below[v]

StackAt(N, s, h, k) == IF k = N THEN s ELSE h[k + 1]
Heights(V, d, n, calls, s, h) ==
  \A k \in 1 .. Len(calls) : Level(V, d, n, calls[k], StackAt(Len(calls), s, h, k), h[k])

\* A list that gets longer by one and is made shorter by one more.
LEMMA PushedFacts ==
  ASSUME NEW T, NEW s \in Seq(T), NEW x \in T, NEW p \in Nat, p <= Len(s)
  PROVE  /\ TopOf(Append(s, x)) = x
         /\ p + 1 <= Len(Append(s, x))
         /\ Popped(Append(s, x), p + 1) = Popped(s, p)
         /\ Popped(s, 0) = s
<1>1. /\ Append(s, x) \in Seq(T) /\ Len(Append(s, x)) = Len(s) + 1 /\ Append(s, x) # <<>>
      /\ Append(s, x)[Len(s) + 1] = x /\ Len(s) \in Nat
      /\ \A k \in 1 .. Len(s) : Append(s, x)[k] = s[k]
  OBVIOUS
<1>2. TopOf(Append(s, x)) = x
  BY <1>1 DEF TopOf, Last
<1>3. Popped(s, 0) = s
  <2>1. Len(s) - 0 = Len(s) /\ SubSeq(s, 1, Len(s)) = s
    BY <1>1
  <2> QED
    BY <2>1 DEF Popped
<1>4. Popped(Append(s, x), p + 1) = Popped(s, p)
  <2> DEFINE l == Append(s, x)
             m == Len(s) - p
  <2>1. Len(l) - (p + 1) = m /\ m \in Nat /\ m <= Len(s) /\ m <= Len(l)
    BY <1>1
  <2>2. l \in Seq(T) /\ \A k \in 1 .. Len(s) : l[k] = s[k]
    BY <1>1
  <2>3. Popped(l, p + 1) = SubSeq(l, 1, m) /\ Popped(s, p) = SubSeq(s, 1, m)
    BY <2>1 DEF Popped
  <2> HIDE DEF l, m
  <2>4. SubSeq(l, 1, m) = [k \in 1 .. m |-> l[k]]
    BY <2>1, <2>2
  <2>5. SubSeq(s, 1, m) = [k \in 1 .. m |-> s[k]]
    BY <2>1, <2>2
  <2>6. \A k \in 1 .. m : l[k] = s[k]
    BY <1>1, <2>1, <2>2
  <2>7. SubSeq(l, 1, m) = SubSeq(s, 1, m)
    BY <2>4, <2>5, <2>6
  <2> QED
    BY <2>3, <2>7 DEF l
<1>5. p + 1 <= Len(Append(s, x))
  BY <1>1
<1> QED
  BY <1>2, <1>3, <1>4, <1>5

LEMMA LevelSame ==
  ASSUME NEW V, NEW d, NEW n, NEW call, NEW here, NEW below, Level(V, d, n, call, here, below),
         NEW e, NEW m, NEW later, later.block = call.block, later.pushed = call.pushed,
         e[call.block][m[call.block] + 1] = d[call.block][n[call.block] + 1]
  PROVE  Level(V, e, m, later, here, below)
BY DEF Level

\* A step that leaves the stacks and the names of the places as they are.
LEMMA HeightsSame ==
  ASSUME NEW V, NEW d, NEW n, NEW calls, NEW s, NEW h, Heights(V, d, n, calls, s, h),
         NEW e, NEW m, NEW later, Len(later) = Len(calls),
         \A k \in 1 .. Len(calls) :
           /\ later[k].block = calls[k].block /\ later[k].pushed = calls[k].pushed
           /\ e[calls[k].block][m[calls[k].block] + 1] = d[calls[k].block][n[calls[k].block] + 1]
  PROVE  Heights(V, e, m, later, s, h)
<1> SUFFICES ASSUME NEW k \in 1 .. Len(calls)
             PROVE  Level(V, e, m, later[k], StackAt(Len(calls), s, h, k), h[k])
  BY DEF Heights
<1>1. Level(V, d, n, calls[k], StackAt(Len(calls), s, h, k), h[k])
  BY DEF Heights
<1> QED
  BY <1>1, LevelSame

\* Where the calls below the last one are nothing has changed.
Elsewhere(calls, d, n, e, m) ==
  \A j \in 1 .. Len(calls) : j # Len(calls) =>
    e[calls[j].block][m[calls[j].block] + 1] = d[calls[j].block][n[calls[j].block] + 1]

\* A value is pushed for variable v, which is x from now on.
Pushed(s, v, x) == [s EXCEPT ![v] = Append(s[v], x)]
Pushes(V, calls, later, v) ==
  /\ v \in V /\ Len(later) = Len(calls)
  /\ \A j \in 1 .. Len(calls) : j # Len(calls) => later[j] = calls[j]
  /\ DOMAIN calls[Len(calls)] = {"block", "next", "child", "pushed"}
  /\ calls[Len(calls)].pushed \in [V -> Nat]
  /\ later[Len(calls)] = [calls[Len(calls)] EXCEPT !.pushed[v] = @ + 1]
Takes(V, b, v, x, d, n, e, m) ==
  \A u \in V : e[b][m[b] + 1][u] = IF u = v THEN x ELSE d[b][n[b] + 1][u]

LEMMA HeightsPush ==
  ASSUME NEW V, NEW d, NEW n, NEW calls, NEW T, NEW s \in [V -> Seq(T)], NEW h,
         Heights(V, d, n, calls, s, h), Len(calls) \in Nat \ {0}, NEW v, NEW x \in T,
         NEW e, NEW m, NEW later, Pushes(V, calls, later, v), Elsewhere(calls, d, n, e, m),
         NEW b, b = calls[Len(calls)].block, Takes(V, b, v, x, d, n, e, m)
  PROVE  Heights(V, e, m, later, Pushed(s, v, x), h)
<1> DEFINE N == Len(calls)
           z == [s EXCEPT ![v] = Append(s[v], x)]
           top == calls[N]
<1>p. /\ v \in V /\ Len(later) = N
      /\ \A j \in 1 .. N : j # N => later[j] = calls[j]
      /\ DOMAIN top = {"block", "next", "child", "pushed"}
      /\ top.pushed \in [V -> Nat]
      /\ later[N] = [top EXCEPT !.pushed[v] = @ + 1]
  BY DEF Pushes
<1>q. \A j \in 1 .. N : j # N =>
        e[calls[j].block][m[calls[j].block] + 1] = d[calls[j].block][n[calls[j].block] + 1]
  BY DEF Elsewhere
<1>r. \A u \in V : e[b][m[b] + 1][u] = IF u = v THEN x ELSE d[b][n[b] + 1][u]
  BY DEF Takes
<1>0. N \in Nat \ {0} /\ N \in 1 .. N /\ top.pushed \in [V -> Nat] /\ top.block = b
  BY <1>p
<1>1. later[N].block = b /\ later[N].pushed = [top.pushed EXCEPT ![v] = top.pushed[v] + 1]
  BY <1>p
<1>2. z[v] = Append(s[v], x) /\ \A u \in V : u # v => z[u] = s[u]
  BY <1>p
<1> HIDE DEF z
<1>3. ASSUME NEW k \in 1 .. N, k # N
      PROVE  Level(V, e, m, later[k], StackAt(N, z, h, k), h[k])
  <2>1. Level(V, d, n, calls[k], StackAt(N, s, h, k), h[k])
    BY DEF Heights
  <2>2. StackAt(N, z, h, k) = StackAt(N, s, h, k)
    BY <1>3 DEF StackAt
  <2>3. later[k] = calls[k] /\ e[calls[k].block][m[calls[k].block] + 1] = d[calls[k].block][n[calls[k].block] + 1]
    BY <1>3, <1>p, <1>q
  <2> QED
    BY <2>1, <2>2, <2>3, LevelSame
<1>4. Level(V, e, m, later[N], z, h[N])
  <2>1. Level(V, d, n, top, s, h[N])
    BY <1>0 DEF Heights, StackAt
  <2>2. \A u \in V : /\ d[b][n[b] + 1][u] = TopOf(s[u]) /\ top.pushed[u] <= Len(s[u])
                     /\ Popped(s[u], top.pushed[u]) = h[N][u] /\ top.pushed[u] \in Nat
    BY <1>0, <2>1 DEF Level
  <2>3. s[v] \in Seq(T) /\ top.pushed[v] \in Nat /\ top.pushed[v] <= Len(s[v])
    BY <1>0, <1>p, <2>2
  <2>4. /\ TopOf(Append(s[v], x)) = x /\ top.pushed[v] + 1 <= Len(Append(s[v], x))
        /\ Popped(Append(s[v], x), top.pushed[v] + 1) = Popped(s[v], top.pushed[v])
    <3> DEFINE l == s[v]
               p == top.pushed[v]
    <3> HIDE DEF l, p
    <3>1. l \in Seq(T) /\ p \in Nat /\ p <= Len(l)
      BY <2>3 DEF l, p
    <3>2. /\ TopOf(Append(l, x)) = x /\ p + 1 <= Len(Append(l, x))
          /\ Popped(Append(l, x), p + 1) = Popped(l, p)
      BY <3>1, PushedFacts
    <3> QED
      BY <3>2 DEF l, p
  <2>5. /\ later[N].pushed[v] = top.pushed[v] + 1
        /\ \A u \in V : u # v => later[N].pushed[u] = top.pushed[u]
    BY <1>0, <1>1, <1>p
  <2> SUFFICES ASSUME NEW u \in V
               PROVE  /\ e[b][m[b] + 1][u] = TopOf(z[u]) /\ later[N].pushed[u] <= Len(z[u])
                      /\ Popped(z[u], later[N].pushed[u]) = h[N][u]
    BY <1>1 DEF Level
  <2>6. CASE u = v
    BY <1>2, <1>p, <1>r, <2>2, <2>4, <2>5, <2>6
  <2>7. CASE u # v
    BY <1>2, <1>r, <2>2, <2>5, <2>7
  <2> QED
    BY <2>6, <2>7
<1>5. \A k \in 1 .. N : Level(V, e, m, later[k], StackAt(N, z, h, k), h[k])
  BY <1>3, <1>4 DEF StackAt
<1> QED
  BY <1>5, <1>p DEF Heights, Pushed, z

LEMMA UpToNext ==
  ASSUME NEW N \in Nat
  PROVE  \A k \in 1 .. N + 1 : k \in 1 .. N \/ k = N + 1
OBVIOUS

\* The stacks that calls have found, one after the other.
History(V) == [Nat -> [V -> Seq(Nat)]]

\* The stacks when the phis of c have been pushed.
PhisPushed(V, P, s, c) == [v \in V |-> IF Has(P, v, c) THEN Append(s[v], PhiOf(P, v, c)) ELSE s[v]]

\* The names at the head of c are its phis, and what is on top of the stacks.
Joins(V, P, d, e, n, calls, s, c) ==
  /\ n[c] = 0 /\ s \in [V -> Seq(Nat)]
  /\ \A v \in V : Has(P, v, c) => PhiOf(P, v, c) \in Nat
  /\ \A k \in 1 .. Len(calls) : e[calls[k].block][n[calls[k].block] + 1] = d[calls[k].block][n[calls[k].block] + 1]
  /\ \A v \in V : e[c][1][v] = IF Has(P, v, c) THEN PhiOf(P, v, c) ELSE TopOf(s[v])

\* A block is entered: what is pushed are its phis.
LEMMA HeightsEnter ==
  ASSUME NEW f, NEW V, NEW t, NEW d, NEW n, NEW calls, NEW s,
         NEW h \in History(V), Heights(V, d, n, calls, s, h),
         NEW P, NEW c, NEW later, CallsFor(f, V, t, P, calls, later, c),
         NEW e, Joins(V, P, d, e, n, calls, s, c),
         NEW z, z = PhisPushed(V, P, s, c), NEW g, g = Counting(h, Len(calls) + 1, s)
  PROVE  /\ g \in History(V)
         /\ Heights(V, e, n, later, z, g)
<1> USE DEF CallsFor, Joins, PhisPushed, Counting, History
<1> DEFINE N == Len(calls)
           T == Nat
<1>0. N \in Nat /\ \A k \in 1 .. N : later[k].block = calls[k].block /\ later[k].pushed = calls[k].pushed
  OBVIOUS
<1>1. g \in [Nat -> [V -> Seq(T)]] /\ g[N + 1] = s /\ \A k \in 1 .. N : g[k] = h[k]
  BY <1>0
<1>2. ASSUME NEW k \in 1 .. N
      PROVE  Level(V, e, n, later[k], StackAt(N + 1, z, g, k), g[k])
  <2>1. Level(V, d, n, calls[k], StackAt(N, s, h, k), h[k])
    BY DEF Heights
  <2>2. k # N + 1 /\ k + 1 \in 1 .. N + 1 /\ (k # N => k + 1 \in 1 .. N)
    BY <1>0
  <2>3. StackAt(N + 1, z, g, k) = StackAt(N, s, h, k)
    BY <1>1, <2>2 DEF StackAt
  <2>4. g[k] = h[k]
    BY <1>1
  <2> DEFINE x == calls[k]
             y == later[k]
             here == StackAt(N, s, h, k)
             below == h[k]
  <2>5. /\ y.block = x.block /\ y.pushed = x.pushed
        /\ e[x.block][n[x.block] + 1] = d[x.block][n[x.block] + 1]
    BY <1>0
  <2>6. Level(V, d, n, x, here, below)
    BY <2>1
  <2> HIDE DEF x, y, here, below
  <2>7. Level(V, e, n, y, here, below)
    BY ONLY <2>5, <2>6, LevelSame
  <2> QED
    BY <2>3, <2>4, <2>7 DEF y, here, below
<1>3. Level(V, e, n, later[N + 1], z, s)
  <2>5. PICK y : y = later[N + 1]
    OBVIOUS
  <2>6. y.block = c /\ n[y.block] + 1 = 1
    BY <2>5
  <2>7. ASSUME \A v \in V : /\ e[c][1][v] = TopOf(z[v]) /\ y.pushed[v] <= Len(z[v])
                            /\ Popped(z[v], y.pushed[v]) = s[v]
        PROVE  Level(V, e, n, y, z, s)
    BY ONLY <2>6, <2>7 DEF Level
  <2> SUFFICES ASSUME NEW v \in V
               PROVE  /\ e[c][1][v] = TopOf(z[v]) /\ later[N + 1].pushed[v] <= Len(z[v])
                      /\ Popped(z[v], later[N + 1].pushed[v]) = s[v]
    BY <2>5, <2>7
  <2> DEFINE l == s[v]
             x == PhiOf(P, v, c)
  <2>1. l \in Seq(T) /\ Len(l) \in Nat
    OBVIOUS
  <2>2. Popped(l, 0) = l
    <3> HIDE DEF l
    <3>1. Len(l) - 0 = Len(l) /\ SubSeq(l, 1, Len(l)) = l
      BY <2>1
    <3> QED
      BY <3>1 DEF Popped
  <2>3. CASE Has(P, v, c)
    <3>1. x \in T /\ z[v] = Append(l, x) /\ later[N + 1].pushed[v] = 1 /\ e[c][1][v] = x
      BY <2>3
    <3> HIDE DEF l, x, T, CallsFor, Joins, PhisPushed, Counting, History
    <3>a. l \in Seq(T) /\ x \in T /\ 0 \in Nat /\ 0 <= Len(l)
      BY <2>1, <3>1
    <3>2. TopOf(Append(l, x)) = x /\ 0 + 1 <= Len(Append(l, x)) /\ Popped(Append(l, x), 0 + 1) = Popped(l, 0)
      BY <3>a, PushedFacts
    <3>3. 0 + 1 = 1
      OBVIOUS
    <3> QED
      BY <2>2, <3>1, <3>2, <3>3 DEF l
  <2>4. CASE ~Has(P, v, c)
    <3>1. z[v] = l /\ later[N + 1].pushed[v] = 0 /\ e[c][1][v] = TopOf(l)
      BY <2>4
    <3>2. 0 <= Len(l)
      BY <2>1
    <3> HIDE DEF l
    <3> QED
      BY <2>2, <3>1, <3>2 DEF l
  <2> QED
    BY <2>3, <2>4
<1>4. \A k \in 1 .. N + 1 : k \in 1 .. N \/ k = N + 1
  BY <1>0, UpToNext
<1>5. Level(V, e, n, later[N + 1], StackAt(N + 1, z, g, N + 1), g[N + 1])
  BY <1>1, <1>3 DEF StackAt
<1>6. \A k \in 1 .. N + 1 : Level(V, e, n, later[k], StackAt(N + 1, z, g, k), g[k])
  BY <1>2, <1>4, <1>5
<1> QED
  BY <1>1, <1>6 DEF Heights

\* A call returns.
LEMMA HeightsReturn ==
  ASSUME NEW f, NEW V, NEW t, NEW d, NEW n, NEW calls, NEW s,
         NEW h \in History(V), Heights(V, d, n, calls, s, h),
         NEW z, NEW later, Returns(f, V, t, s, calls, z, later)
  PROVE  Heights(V, d, n, later, z, h)
<1> USE DEF Returns, History
<1> DEFINE N == Len(calls)
           T == Nat
<1>0. N \in Nat \ {0}
  OBVIOUS
<1>1. N \in 1 .. N /\ \A k \in 1 .. N - 1 : k \in 1 .. N /\ k # N /\ (k = N - 1 => k + 1 = N)
  BY <1>0
<1>2. Level(V, d, n, calls[N], s, h[N])
  BY <1>1 DEF Heights, StackAt
<1>3. z = h[N]
  <2>1. \A v \in V : z[v] = h[N][v]
    BY <1>2 DEF Level
  <2>2. h[N] \in [V -> Seq(T)]
    OBVIOUS
  <2>3. h[N] = [v \in V |-> h[N][v]]
    BY <2>2
  <2>4. z = [v \in V |-> z[v]]
    OBVIOUS
  <2> QED
    BY <2>1, <2>3, <2>4
<1> SUFFICES ASSUME NEW k \in 1 .. N - 1
             PROVE  Level(V, d, n, later[k], StackAt(N - 1, z, h, k), h[k])
  BY DEF Heights
<1>4. Level(V, d, n, calls[k], h[k + 1], h[k])
  BY <1>1 DEF Heights, StackAt
<1>5. StackAt(N - 1, z, h, k) = h[k + 1]
  BY <1>1, <1>3 DEF StackAt
<1>6. Level(V, d, n, later[k], h[k + 1], h[k])
  BY <1>4, LevelSame
<1> QED
  BY <1>5, <1>6

-----------------------------------------------------------------------------
\* The code of the instructions that are left.

\* Instruction c does what i does, and reads by its name what i reads.
Renamed(f, r, i, c) ==
  /\ c.args = [m \in DOMAIN f.code[i].args |-> r[f.code[i].args[m]]]
  /\ c.op = f.code[i].op /\ c.ty = f.code[i].ty /\ c.k = f.code[i].k /\ c.tgt = f.code[i].tgt

Rewritten(f, r, g) ==
  \A b \in Range(f.order) : \A u \in Range(Ins(g, b)) :
    Renamed(f, r, u, g.code[u]) /\ \A a \in Range(g.code[u].args) : u \in Range(g.users[a])

\* What a phi has learnt are the names at the ends of blocks.
Learnt(f, P, d, n, w, g) ==
  \A b \in Range(f.order) : \A p \in Range(P[b]) :
    /\ p[2] \in Instrs(g) /\ IsPhi(g, p[2]) /\ g.code[p[2]].args = <<>>
    /\ \A q \in DOMAIN g.code[p[2]].inc :
         /\ q \in w /\ n[q] = Len(Ins(f, q))
         /\ g.code[p[2]].inc[q] = d[q][End(f, q)][p[1]] /\ d[q][End(f, q)][p[1]] # 0

\* What is left of a block was there.
LEMMA ListsRange ==
  ASSUME NEW f \in Functions, NEW V, NEW n, NEW g, Lists(f, V, n, g),
         NEW b \in Range(f.order), n[b] \in Nat, n[b] <= Len(Ins(f, b))
  PROVE  Range(Ins(g, b)) \subseteq Range(Ins(f, b)) /\ Range(Ins(f, b)) \subseteq Instrs(f)
<1> DEFINE list == Ins(f, b)
           T == Instrs(f)
           m == n[b]
           p == SubSeq(list, 1, m)
           c == SubSeq(list, m + 1, Len(list))
           a == Filtered(p, Kept(f, V))
<1>1. list \in Seq(T) /\ Len(list) \in Nat /\ m \in Nat /\ m <= Len(list) /\ b \in Blocks(f)
  BY GivenFacts
<1>2. Ins(g, b) = a \o c
  BY DEF Lists, Left, Rest
<1>3. Range(list) \subseteq T
  BY <1>1 DEF Range
<1> HIDE DEF list, T, m
<1>4. p \in Seq(T) /\ c \in Seq(T) /\ Range(p) \subseteq Range(list) /\ Range(c) \subseteq Range(list)
  <2>1. p \in Seq(T) /\ Len(p) = m /\ \A j \in 1 .. m : p[j] = list[j] /\ j \in DOMAIN list
    BY <1>1
  <2>2. c \in Seq(T) /\ Len(c) = Len(list) - m /\ \A j \in 1 .. Len(c) : c[j] = list[j + m] /\ j + m \in DOMAIN list
    <3>1. CASE m = Len(list)
      BY <1>1, <3>1
    <3>2. CASE m < Len(list)
      <4>1. c \in Seq(T) /\ Len(c) = Len(list) - m /\ \A j \in 1 .. Len(c) : c[j] = list[j + m]
        BY <1>1, <3>2
      <4>2. \A j \in 1 .. Len(list) - m : j + m \in 1 .. Len(list)
        BY <1>1
      <4>3. DOMAIN list = 1 .. Len(list)
        BY <1>1
      <4> QED
        BY <4>1, <4>2, <4>3
    <3> QED
      BY <1>1, <3>1, <3>2
  <2> HIDE DEF p, c
  <2>3. DOMAIN p = 1 .. Len(p) /\ DOMAIN c = 1 .. Len(c)
    BY <2>1, <2>2
  <2> QED
    BY <2>1, <2>2, <2>3 DEF Range
<1> HIDE DEF p, c
<1>5. a \in Seq(T) /\ Range(a) \subseteq Range(p)
  BY <1>4, FilteredFacts
<1> HIDE DEF a
<1>6. Range(a \o c) = Range(a) \cup Range(c)
  BY <1>4, <1>5, ConcatFacts
<1> QED
  BY <1>2, <1>3, <1>4, <1>5, <1>6 DEF list, T

\* No other instruction is named by the one that rename comes to.
LEMMA OthersNamed ==
  ASSUME NEW f, NEW V, NEW t, NEW P, Setting(f, V, t, P),
         NEW r, NEW d, NEW n, NEW w, Ghosts(f, V, r, d, n, w), Names(f, V, t, P, r, d, n, w),
         NEW b \in w, n[b] < Len(Ins(f, b)), NEW k, k = n[b] + 1
  PROVE  \A a \in Nat : a # Ins(f, b)[k] => r[a] # Ins(f, b)[k]
<1> DEFINE i == Ins(f, b)[k]
<1> SUFFICES ASSUME NEW a \in Nat, a # i, r[a] = i PROVE FALSE
  OBVIOUS
<1>1. /\ i # 0 /\ \A c \in w : \A m \in 1 .. n[c] + 1 : i \notin Named(f, t, P, c, m)
      /\ \A c \in w : \A m \in 1 .. n[c] : m \in 1 .. n[c] + 1
  BY NextFacts
<1>2. CASE a \notin Gone(f, n, w)
  BY <1>2 DEF Names
<1>3. CASE a \in Gone(f, n, w)
  <2>1. PICK c \in w : a \in {Ins(f, c)[j] : j \in 1 .. n[c]}
    BY <1>3 DEF Gone
  <2>2. PICK j \in 1 .. n[c] : a = Ins(f, c)[j]
    BY <2>1
  <2>3. Flow(f, V, r, d, c, j)
    BY DEF Names, Values
  <2>4. r[a] = NameOf(f, V, d, c, j)
    BY <2>2, <2>3 DEF Flow
  <2>5. IsLoad(f, V, a) /\ d[c][j][f.code[a].args[1]] # 0 /\ i = d[c][j][f.code[a].args[1]]
    BY <2>2, <2>4 DEF NameOf
  <2>6. f.code[a].args[1] \in V /\ j \in 1 .. n[c] + 1
    BY <1>1, <2>5 DEF IsLoad
  <2>8. \A v \in V : d[c][j][v] # 0 => d[c][j][v] \in Named(f, t, P, c, j)
    BY <2>6, GoneFacts
  <2>7. i \in Named(f, t, P, c, j)
    BY <2>5, <2>6, <2>8
  <2> QED
    BY <1>1, <2>6, <2>7
<1> QED
  BY <1>2, <1>3

\* An instruction is taken out.
LEMMA WithoutKeeps ==
  ASSUME NEW f \in Functions, NEW r, NEW g, CodeFits(g), Rewritten(f, r, g), NEW b, NEW i \in Instrs(g),
         NEW h, h = WithoutInstr(g, b, i),
         \A c \in Range(f.order) : Range(Ins(h, c)) \subseteq Range(Ins(g, c)) \ {i},
         \A c \in Range(f.order) : Range(Ins(g, c)) \subseteq Instrs(g)
  PROVE  /\ Rewritten(f, r, h) /\ h.code = g.code /\ DOMAIN h.users = Instrs(g)
         /\ \A v \in Instrs(g) : h.users[v] \in Seq(Instrs(g))
<1>1. /\ g.users \in [Instrs(g) -> Seq(Instrs(g))]
      /\ \A u \in Instrs(g) : g.code[u].args \in Seq(Instrs(g))
      /\ DOMAIN g = {"entry", "order", "block", "code", "users"}
  BY DEF CodeFits, IsFunction, IsCode
<1>2. /\ h.code = g.code
      /\ h.users = [v \in Instrs(g) |-> IF v \in Range(g.code[i].args)
                                        THEN Filtered(g.users[v], Instrs(g) \ {i})
                                        ELSE g.users[v]]
  BY <1>1 DEF WithoutInstr
<1>3. ASSUME NEW v \in Instrs(g)
      PROVE  /\ h.users[v] \in Seq(Instrs(g))
             /\ \A u \in Instrs(g) : u # i /\ u \in Range(g.users[v]) => u \in Range(h.users[v])
  <2> DEFINE l == g.users[v]
             S == Instrs(g) \ {i}
  <2>1. l \in Seq(Instrs(g))
    BY <1>1
  <2> HIDE DEF l, S
  <2>2. Filtered(l, S) \in Seq(Instrs(g)) /\ Range(Filtered(l, S)) = Range(l) \cap S
    BY <2>1, FilteredFacts
  <2>3. h.users[v] = Filtered(l, S) \/ h.users[v] = l
    BY <1>2 DEF l, S
  <2> QED
    BY <2>1, <2>2, <2>3 DEF l, S
<1>4. Rewritten(f, r, h)
  <2> SUFFICES ASSUME NEW c \in Range(f.order), NEW u \in Range(Ins(h, c))
               PROVE  /\ Renamed(f, r, u, h.code[u])
                      /\ \A a \in Range(h.code[u].args) : u \in Range(h.users[a])
    BY DEF Rewritten
  <2>1. u \in Range(Ins(g, c)) /\ u # i /\ u \in Instrs(g)
    OBVIOUS
  <2>2. Renamed(f, r, u, g.code[u]) /\ \A a \in Range(g.code[u].args) : u \in Range(g.users[a])
    BY <2>1 DEF Rewritten
  <2>3. Range(g.code[u].args) \subseteq Instrs(g)
    BY <1>1, <2>1 DEF Range
  <2> QED
    BY <1>2, <1>3, <2>1, <2>2, <2>3
<1>5. DOMAIN h.users = Instrs(g)
  BY <1>2
<1> QED
  BY <1>2, <1>3, <1>4, <1>5

\* The users of an instruction that is out read x instead.
Replaceable(f, r, h, i, x) ==
  /\ f \in Functions /\ Rewritten(f, r, h) /\ i \in Instrs(h) /\ x \in Instrs(h) /\ x # i
  /\ DOMAIN h = {"entry", "order", "block", "code", "users"}
  /\ \A v \in Instrs(h) : h.users[v] \in Seq(Instrs(h))
  /\ \A u \in Instrs(h) : h.code[u].args \in Seq(Instrs(h)) /\ DOMAIN h.code[u] = {"op", "ty", "args", "k", "tgt", "inc", "parent"}
  /\ \A c \in Range(f.order) : Range(Ins(h, c)) \subseteq Instrs(f)
  /\ Instrs(f) \subseteq Nat /\ Instrs(f) \subseteq Instrs(h)
  /\ r \in [Nat -> Nat] /\ i \in Nat /\ r[i] = i /\ \A a \in Nat : a # i => r[a] # i

\* Instruction c is d, or d where x is read instead of i.
Rereads(c, d, i, x) == c = [d EXCEPT !.args = Replaced(d.args, i, x)] \/ c = d

LEMMA ReplacedKeeps ==
  ASSUME NEW f, NEW r, NEW h, NEW i, NEW s, Replaceable(f, r, h, i, s),
         NEW q, q = Counting(r, i, s), NEW g, g = UsesReplaced(h, i, s)
  PROVE  /\ Rewritten(f, q, g) /\ g.block = h.block /\ Instrs(g) = Instrs(h)
         /\ \A u \in Instrs(h) : Rereads(g.code[u], h.code[u], i, s)
<1> USE DEF Replaceable, Counting
<1>1. /\ g.block = h.block
      /\ g.code = [u \in Instrs(h) |-> IF u \in Range(h.users[i])
                                       THEN [h.code[u] EXCEPT !.args = Replaced(h.code[u].args, i, s)]
                                       ELSE h.code[u]]
      /\ g.users = [v \in Instrs(h) |-> IF v = i THEN <<>>
                                        ELSE IF v = s THEN h.users[s] \o h.users[i]
                                        ELSE h.users[v]]
  BY DEF UsesReplaced
<1>2. Instrs(g) = Instrs(h)
  BY <1>1 DEF Instrs
<1>3. \A u \in Instrs(h) : g.code[u] = [h.code[u] EXCEPT !.args = Replaced(h.code[u].args, i, s)]
                           \/ g.code[u] = h.code[u]
  BY <1>1
<1>4. /\ \A v \in Instrs(h) : v # i /\ v # s => g.users[v] = h.users[v]
      /\ Range(g.users[s]) = Range(h.users[s]) \cup Range(h.users[i])
  <2>1. g.users[s] = h.users[s] \o h.users[i]
    BY <1>1
  <2> DEFINE a == h.users[s]
             c == h.users[i]
  <2>2. a \in Seq(Instrs(h)) /\ c \in Seq(Instrs(h))
    OBVIOUS
  <2> HIDE DEF a, c
  <2>3. Range(a \o c) = Range(a) \cup Range(c)
    BY <2>2, ConcatFacts
  <2> QED
    BY <1>1, <2>1, <2>3 DEF a, c
<1>5. ASSUME NEW c \in Range(f.order), NEW u \in Range(Ins(g, c))
      PROVE  Renamed(f, q, u, g.code[u]) /\ \A a \in Range(g.code[u].args) : u \in Range(g.users[a])
  <2> DEFINE x == f.code[u].args
             y == h.code[u].args
  <2>1. u \in Range(Ins(h, c)) /\ u \in Instrs(f) /\ u \in Instrs(h)
    <3>1. Ins(g, c) = Ins(h, c)
      BY <1>1 DEF Ins
    <3> QED
      BY <3>1
  <2>2. Renamed(f, r, u, h.code[u]) /\ \A a \in Range(y) : u \in Range(h.users[a])
    BY <2>1 DEF Rewritten
  <2>3. x \in Seq(Instrs(f)) /\ "args" \in DOMAIN f.code[u]
    BY <2>1, GivenFacts DEF IsCode
  <2>4. y = [m \in DOMAIN x |-> r[x[m]]] /\ y \in Seq(Instrs(h))
    BY <2>1, <2>2, <2>3 DEF Renamed
  <2>5. \A m \in DOMAIN x : x[m] \in Nat
    BY <2>3
  <2>6. Replaced(y, i, s) = [m \in DOMAIN x |-> q[x[m]]]
    <3>1. \A m \in DOMAIN x : (IF r[x[m]] = i THEN s ELSE r[x[m]]) = q[x[m]]
      BY <2>5
    <3>2. Replaced(y, i, s) = [m \in DOMAIN x |-> IF r[x[m]] = i THEN s ELSE r[x[m]]]
      BY <2>4 DEF Replaced
    <3> QED
      BY <3>1, <3>2
  <2>7. u \notin Range(h.users[i]) => y = [m \in DOMAIN x |-> q[x[m]]]
    <3> SUFFICES ASSUME u \notin Range(h.users[i]) PROVE y = [m \in DOMAIN x |-> q[x[m]]]
      OBVIOUS
    <3>1. i \notin Range(y)
      BY <2>2
    <3>2. \A m \in DOMAIN x : r[x[m]] # i
      BY <2>4, <3>1 DEF Range
    <3>3. \A m \in DOMAIN x : q[x[m]] = r[x[m]]
      BY <2>5, <3>2
    <3> QED
      BY <2>4, <3>3
  <2>8. g.code[u].args = [m \in DOMAIN x |-> q[x[m]]]
    <3>1. CASE u \in Range(h.users[i])
      <4>1. g.code[u] = [h.code[u] EXCEPT !.args = Replaced(y, i, s)]
        BY <1>1, <2>1, <3>1
      <4> QED
        BY <2>1, <2>6, <4>1
    <3>2. CASE u \notin Range(h.users[i])
      BY <1>1, <2>1, <2>7, <3>2
    <3> QED
      BY <3>1, <3>2
  <2>9. Renamed(f, q, u, g.code[u])
    <3>1. /\ g.code[u].op = h.code[u].op /\ g.code[u].ty = h.code[u].ty
          /\ g.code[u].k = h.code[u].k /\ g.code[u].tgt = h.code[u].tgt
      <4>1. DOMAIN h.code[u] = {"op", "ty", "args", "k", "tgt", "inc", "parent"}
        BY <2>1
      <4>2. CASE u \in Range(h.users[i])
        <5>1. PICK z : z = Replaced(h.code[u].args, i, s)
          OBVIOUS
        <5>2. g.code[u] = [h.code[u] EXCEPT !.args = z]
          BY <1>1, <2>1, <4>2, <5>1
        <5> QED
          BY <4>1, <5>2
      <4>3. CASE u \notin Range(h.users[i])
        BY <1>1, <2>1, <4>3
      <4> QED
        BY <4>2, <4>3
    <3> QED
      BY <2>2, <2>8, <3>1 DEF Renamed
  <2>10. ASSUME NEW a \in Range(g.code[u].args) PROVE u \in Range(g.users[a])
    <3>1. PICK m \in DOMAIN x : a = q[x[m]]
      BY <2>8 DEF Range
    <3>2. CASE x[m] = i
      <4>1. a = s /\ i \in Range(y)
        BY <2>4, <2>5, <3>1, <3>2 DEF Range
      <4> QED
        BY <1>4, <2>2, <4>1
    <3>3. CASE x[m] # i
      <4>1. a = r[x[m]] /\ a # i /\ a \in Range(y) /\ a \in Instrs(h)
        <5>1. a = r[x[m]] /\ a # i
          BY <2>5, <3>1, <3>3
        <5>2. DOMAIN y = DOMAIN x /\ y[m] = a
          BY <2>4, <5>1
        <5>3. a \in Range(y) /\ a \in Instrs(h)
          <6>1. y \in Seq(Instrs(h))
            BY <2>4
          <6> HIDE DEF x, y
          <6>2. m \in DOMAIN y /\ y[m] = a
            BY <5>2
          <6>3. y[m] \in Instrs(h)
            BY <6>1, <6>2
          <6> QED
            BY <6>2, <6>3 DEF Range
        <5> QED
          BY <5>1, <5>3
      <4> QED
        BY <1>4, <2>2, <4>1
    <3> QED
      BY <3>2, <3>3
  <2> QED
    BY <2>9, <2>10
<1> QED
  <2>1. Rewritten(f, q, g)
    BY <1>5 DEF Rewritten
  <2>2. \A u \in Instrs(h) : Rereads(g.code[u], h.code[u], i, s)
    BY <1>3 DEF Rereads
  <2> QED
    BY <1>1, <1>2, <2>1, <2>2

-----------------------------------------------------------------------------
LEMMA LearntLater ==
  ASSUME NEW f, NEW P, NEW d, NEW n, NEW w, NEW g, Learnt(f, P, d, n, w, g),
         NEW e, NEW m, NEW u, w \subseteq u,
         \A q \in w : n[q] = Len(Ins(f, q)) => m[q] = n[q] /\ e[q] = d[q],
         NEW h, Instrs(g) \subseteq Instrs(h),
         \A i \in Instrs(g) : IsPhi(g, i) /\ g.code[i].args = <<>> =>
           h.code[i].op = g.code[i].op /\ h.code[i].args = <<>> /\ h.code[i].inc = g.code[i].inc
  PROVE  Learnt(f, P, e, m, u, h)
<1> SUFFICES ASSUME NEW b \in Range(f.order), NEW p \in Range(P[b])
             PROVE  /\ p[2] \in Instrs(h) /\ IsPhi(h, p[2]) /\ h.code[p[2]].args = <<>>
                    /\ \A q \in DOMAIN h.code[p[2]].inc :
                         /\ q \in u /\ m[q] = Len(Ins(f, q))
                         /\ h.code[p[2]].inc[q] = e[q][End(f, q)][p[1]] /\ e[q][End(f, q)][p[1]] # 0
  BY DEF Learnt
<1>1. /\ p[2] \in Instrs(g) /\ IsPhi(g, p[2]) /\ g.code[p[2]].args = <<>>
      /\ \A q \in DOMAIN g.code[p[2]].inc :
           /\ q \in w /\ n[q] = Len(Ins(f, q))
           /\ g.code[p[2]].inc[q] = d[q][End(f, q)][p[1]] /\ d[q][End(f, q)][p[1]] # 0
  BY DEF Learnt
<1>2. h.code[p[2]].op = g.code[p[2]].op /\ h.code[p[2]].args = <<>> /\ h.code[p[2]].inc = g.code[p[2]].inc
  BY <1>1
<1>3. p[2] \in Instrs(h) /\ IsPhi(h, p[2])
  BY <1>1, <1>2 DEF IsPhi
<1> QED
  BY <1>1, <1>2, <1>3

\* WireSuccessors: the phis in wanted learn what is on top of the stacks.
Wiring(g, s, wanted, b) ==
  LET wires(i) == {p \in wanted : p[2] = i /\ s[p[1]] # <<>>}
      value(i) == Last(s[(CHOOSE p \in wires(i) : TRUE)[1]])
  IN  [g EXCEPT !.code = [i \in Instrs(g) |->
         IF wires(i) = {} THEN g.code[i]
         ELSE [g.code[i] EXCEPT !.inc = Wired(g.code[i].inc, b, value(i))]]]

\* Function h is g when the phis have learnt the names at the end of block b.
WiresIn(f, V, P, d, n, w, g, s, b, h) ==
  /\ b \in w /\ n[b] = Len(Ins(f, b))
  /\ \A v \in V : d[b][End(f, b)][v] = TopOf(s[v])
  /\ \A v \in V : s[v] # <<>> => Last(s[v]) # 0
  /\ DOMAIN g = {"entry", "order", "block", "code", "users"}
  /\ \A i \in Instrs(g) : DOMAIN g.code[i] = {"op", "ty", "args", "k", "tgt", "inc", "parent"}
  /\ \E wanted \in SUBSET UNION {Range(P[c]) : c \in Blocks(f)} : h = Wiring(g, s, wanted, b)

LEMMA LearntWired ==
  ASSUME NEW f, NEW V, NEW t, NEW P, Setting(f, V, t, P), NEW d, NEW n, NEW w, NEW g, Learnt(f, P, d, n, w, g),
         NEW s, NEW b, NEW h, WiresIn(f, V, P, d, n, w, g, s, b, h)
  PROVE  /\ Learnt(f, P, d, n, w, h)
         /\ h.block = g.block /\ h.users = g.users /\ h.order = g.order /\ Instrs(h) = Instrs(g)
         /\ \A i \in Instrs(f) : i \in Instrs(g) => h.code[i] = g.code[i]
<1>a. PICK wanted \in SUBSET UNION {Range(P[c]) : c \in Blocks(f)} : h = Wiring(g, s, wanted, b)
  BY DEF WiresIn
<1>b. /\ b \in w /\ n[b] = Len(Ins(f, b))
      /\ \A v \in V : d[b][End(f, b)][v] = TopOf(s[v])
      /\ \A v \in V : s[v] # <<>> => Last(s[v]) # 0
      /\ DOMAIN g = {"entry", "order", "block", "code", "users"}
      /\ \A i \in Instrs(g) : DOMAIN g.code[i] = {"op", "ty", "args", "k", "tgt", "inc", "parent"}
  BY DEF WiresIn
<1> DEFINE wires(i) == {p \in wanted : p[2] = i /\ s[p[1]] # <<>>}
           value(i) == Last(s[(CHOOSE p \in wires(i) : TRUE)[1]])
<1>1. h = [g EXCEPT !.code = [i \in Instrs(g) |->
            IF wires(i) = {} THEN g.code[i]
            ELSE [g.code[i] EXCEPT !.inc = Wired(g.code[i].inc, b, value(i))]]]
  BY <1>a DEF Wiring
<1>2. \A p \in wanted : \E c \in Blocks(f) : p \in Range(P[c]) /\ p[1] \in V /\ p[2] \notin Instrs(f)
  <2>1. \A c \in Blocks(f) : \A p \in Range(P[c]) : p[1] \in V /\ p[2] \in Later(f)
    BY SettingFacts
  <2>2. Later(f) \cap Instrs(f) = {}
    BY SettingFacts
  <2> QED
    BY <2>1, <2>2
<1>3. \A p, q \in wanted : p[2] = q[2] => p = q
  BY <1>2 DEF Setting, OnePhiEach
<1> HIDE DEF wires, value
<1>4. /\ h.block = g.block /\ h.users = g.users /\ h.order = g.order
      /\ h.code = [i \in Instrs(g) |->
            IF wires(i) = {} THEN g.code[i]
            ELSE [g.code[i] EXCEPT !.inc = Wired(g.code[i].inc, b, value(i))]]
  BY <1>1, <1>b
<1>5. Instrs(h) = Instrs(g)
  BY <1>4 DEF Instrs
<1>6. \A i \in Instrs(f) : i \in Instrs(g) => h.code[i] = g.code[i]
  <2> SUFFICES ASSUME NEW i \in Instrs(f), i \in Instrs(g) PROVE h.code[i] = g.code[i]
    OBVIOUS
  <2>1. wires(i) = {}
    BY <1>2 DEF wires
  <2> QED
    BY <1>4, <2>1
<1>7. ASSUME NEW i \in Instrs(g), NEW p \in wires(i)
      PROVE  /\ p \in wanted /\ p[2] = i /\ s[p[1]] # <<>> /\ p[1] \in V
             /\ value(i) = d[b][End(f, b)][p[1]] /\ value(i) # 0
  <2>1. p \in wanted /\ p[2] = i /\ s[p[1]] # <<>> /\ p[1] \in V
    BY <1>2 DEF wires
  <2>2. \A q \in wires(i) : q = p
    BY <1>3, <2>1 DEF wires
  <2>3. (CHOOSE q \in wires(i) : TRUE) = p
    BY <2>2
  <2>4. value(i) = Last(s[p[1]])
    BY <2>3 DEF value
  <2>5. TopOf(s[p[1]]) = Last(s[p[1]])
    BY <2>1 DEF TopOf
  <2> QED
    BY <1>b, <2>1, <2>4, <2>5
<1>8. ASSUME NEW c \in Range(f.order), NEW p \in Range(P[c])
      PROVE  /\ p[2] \in Instrs(h) /\ IsPhi(h, p[2]) /\ h.code[p[2]].args = <<>>
             /\ \A q \in DOMAIN h.code[p[2]].inc :
                  /\ q \in w /\ n[q] = Len(Ins(f, q))
                  /\ h.code[p[2]].inc[q] = d[q][End(f, q)][p[1]] /\ d[q][End(f, q)][p[1]] # 0
  <2> DEFINE i == p[2]
             inc == g.code[i].inc
  <2>1. /\ i \in Instrs(g) /\ IsPhi(g, i) /\ g.code[i].args = <<>>
        /\ \A q \in DOMAIN inc :
             /\ q \in w /\ n[q] = Len(Ins(f, q))
             /\ inc[q] = d[q][End(f, q)][p[1]] /\ d[q][End(f, q)][p[1]] # 0
    BY <1>8 DEF Learnt
  <2>2. CASE wires(i) = {}
    <3>1. h.code[i] = g.code[i]
      BY <1>4, <2>1, <2>2
    <3> QED
      BY <1>5, <2>1, <3>1 DEF IsPhi
  <2>3. CASE wires(i) # {}
    <3>1. h.code[i] = [g.code[i] EXCEPT !.inc = Wired(inc, b, value(i))]
      BY <1>4, <2>1, <2>3
    <3>2. h.code[i].op = g.code[i].op /\ h.code[i].args = <<>> /\ h.code[i].inc = Wired(inc, b, value(i))
      <4>1. DOMAIN g.code[i] = {"op", "ty", "args", "k", "tgt", "inc", "parent"}
        BY <1>b, <2>1
      <4> QED
        BY <2>1, <3>1, <4>1
    <3>3. PICK p1 \in wires(i) : TRUE
      BY <2>3
    <3>4. p1 \in wanted /\ p1[2] = i /\ value(i) = d[b][End(f, b)][p1[1]] /\ value(i) # 0
      BY <1>7, <2>1
    <3>5. p1 = p
      <4>1. PICK c1 \in Blocks(f) : p1 \in Range(P[c1])
        BY <1>2, <3>4
      <4>2. c \in Blocks(f)
        BY SettingFacts, GivenFacts
      <4> QED
        BY <3>4, <4>1, <4>2 DEF Setting, OnePhiEach
    <3>6. h.code[i].inc = [q \in DOMAIN inc \cup {b} |-> IF q = b THEN value(i) ELSE inc[q]]
      BY <3>2 DEF Wired
    <3>7. \A q \in DOMAIN h.code[i].inc :
            /\ q \in w /\ n[q] = Len(Ins(f, q))
            /\ h.code[i].inc[q] = d[q][End(f, q)][p[1]] /\ d[q][End(f, q)][p[1]] # 0
      <4> SUFFICES ASSUME NEW q \in DOMAIN h.code[i].inc
                   PROVE  /\ q \in w /\ n[q] = Len(Ins(f, q))
                          /\ h.code[i].inc[q] = d[q][End(f, q)][p[1]] /\ d[q][End(f, q)][p[1]] # 0
        OBVIOUS
      <4> HIDE DEF i, inc
      <4>1. CASE q = b
        <5>1. h.code[i].inc[q] = value(i)
          BY <3>6, <4>1
        <5> QED
          BY <1>b, <3>4, <3>5, <4>1, <5>1
      <4>2. CASE q # b
        <5>1. q \in DOMAIN inc /\ h.code[i].inc[q] = inc[q]
          BY <3>6, <4>2
        <5> QED
          BY <2>1, <5>1
      <4> QED
        BY <4>1, <4>2
    <3> HIDE DEF i
    <3> QED
      BY <1>5, <2>1, <3>2, <3>7 DEF IsPhi, i
  <2> QED
    BY <2>2, <2>3
<1> QED
  BY <1>4, <1>5, <1>6, <1>8 DEF Learnt

-----------------------------------------------------------------------------
\* What Stands becomes in the steps of rename.

\* The last call goes on in its block b and comes past place k.
Onward(f, V, b, k, calls, later) ==
  /\ Len(later) = Len(calls)
  /\ \A j \in 1 .. Len(calls) :
       /\ later[j].block = calls[j].block /\ later[j].child = calls[j].child
       /\ j # Len(calls) => later[j].next = calls[j].next
  /\ later[Len(calls)].next = Len(Left(f, V, b, k)) + 1

LEMMA StandsGoOn ==
  ASSUME NEW f, NEW V, NEW n \in [Blocks(f) -> Nat], NEW w, NEW calls, Stands(f, V, n, w, calls),
         w \subseteq Range(f.order), Range(f.order) \subseteq Blocks(f),
         NEW N \in Nat \ {0}, N = Len(calls),
         NEW b \in w, n[b] < Len(Ins(f, b)), Len(Ins(f, b)) \in Nat,
         NEW k, k = n[b] + 1, NEW m, m = Counting(n, b, k),
         NEW later, Onward(f, V, b, k, calls, later)
  PROVE  Stands(f, V, m, w, later)
<1> USE DEF Counting
<1>0. /\ Len(later) = N /\ later[N].next = Len(Left(f, V, b, k)) + 1
      /\ \A j \in 1 .. N : later[j].block = calls[j].block /\ later[j].child = calls[j].child
      /\ \A j \in 1 .. N : j # N => later[j].next = calls[j].next
  BY DEF Onward
<1>a. Len(later) = N /\ later[N].block = calls[N].block /\ later[N].child = calls[N].child
  <2>1. N \in 1 .. N
    OBVIOUS
  <2> QED
    BY <1>0, <2>1
<1>1. calls[N].block = b /\ calls[N].child = 0 /\ N \in 1 .. N
  BY DEF Stands
<1>2. m[b] = k /\ \A c \in Blocks(f) : c # b => m[c] = n[c]
  OBVIOUS
<1>3. \A c \in Range(f.order) : c \notin w => m[c] = 0
  BY <1>2 DEF Stands
<1>4. \A c \in w : m[c] < Len(Ins(f, c)) => later[N].block = c /\ later[N].child = 0 /\ N # 0
  <2> SUFFICES ASSUME NEW c \in w, m[c] < Len(Ins(f, c))
               PROVE  later[N].block = c /\ later[N].child = 0
    OBVIOUS
  <2>1. c = b \/ n[c] < Len(Ins(f, c))
    BY <1>2
  <2>2. calls[N].block = c
    BY <1>1, <2>1 DEF Stands
  <2> QED
    BY <1>1, <1>a, <2>2
<1>5. ASSUME NEW j \in 1 .. N
      PROVE  /\ later[j].block \in w
             /\ later[j].next = Len(Left(f, V, later[j].block, m[later[j].block])) + 1
             /\ j # N => later[j].child # 0
             /\ later[j].child # 0 => m[later[j].block] = Len(Ins(f, later[j].block))
  <2>1. /\ calls[j].block \in w
        /\ calls[j].next = Len(Left(f, V, calls[j].block, n[calls[j].block])) + 1
        /\ j # N => calls[j].child # 0
        /\ calls[j].child # 0 => n[calls[j].block] = Len(Ins(f, calls[j].block))
    BY DEF Stands
  <2>2. later[j].block = calls[j].block /\ later[j].child = calls[j].child
    BY <1>0
  <2>3. CASE j = N
    BY <1>0, <1>1, <1>2, <2>1, <2>2, <2>3
  <2>4. CASE j # N
    <3>1. calls[j].block # b
      BY <2>1, <2>4
    <3>2. m[calls[j].block] = n[calls[j].block]
      BY <1>2, <2>1, <3>1
    <3>3. later[j].next = calls[j].next
      BY <1>0, <2>4
    <3> QED
      BY <2>1, <2>2, <2>4, <3>2, <3>3
  <2> QED
    BY <2>3, <2>4
<1> QED
  BY <1>a, <1>3, <1>4, <1>5 DEF Stands

\* A call has wired the successors of its block.
LEMMA StandsWired ==
  ASSUME NEW f, NEW V, NEW n, NEW w, NEW calls, Stands(f, V, n, w, calls),
         NEW N \in Nat \ {0}, N = Len(calls), calls[N].child = 0,
         n[calls[N].block] = Len(Ins(f, calls[N].block)), Len(Ins(f, calls[N].block)) \in Nat,
         NEW later, Len(later) = N,
         \A j \in 1 .. N : j # N => later[j] = calls[j],
         later[N].block = calls[N].block, later[N].next = calls[N].next, later[N].child = 1
  PROVE  Stands(f, V, n, w, later)
<1>1. \A c \in w : ~(n[c] < Len(Ins(f, c)))
  <2> SUFFICES ASSUME NEW c \in w, n[c] < Len(Ins(f, c)) PROVE FALSE
    OBVIOUS
  <2>1. calls[N].block = c
    BY DEF Stands
  <2> QED
    BY <2>1
<1>2. \A c \in Range(f.order) : c \notin w => n[c] = 0
  BY DEF Stands
<1>3. ASSUME NEW j \in 1 .. N
      PROVE  /\ later[j].block \in w
             /\ later[j].next = Len(Left(f, V, later[j].block, n[later[j].block])) + 1
             /\ j # N => later[j].child # 0
             /\ later[j].child # 0 => n[later[j].block] = Len(Ins(f, later[j].block))
  <2>1. /\ calls[j].block \in w
        /\ calls[j].next = Len(Left(f, V, calls[j].block, n[calls[j].block])) + 1
        /\ j # N => calls[j].child # 0
        /\ calls[j].child # 0 => n[calls[j].block] = Len(Ins(f, calls[j].block))
    BY DEF Stands
  <2> QED
    BY <2>1
<1> QED
  BY <1>1, <1>2, <1>3 DEF Stands

\* A call calls another.
LEMMA StandsEnter ==
  ASSUME NEW f, NEW V, NEW t, NEW P, NEW n, NEW w, NEW calls, Stands(f, V, n, w, calls),
         NEW c, NEW later, CallsFor(f, V, t, P, calls, later, c),
         NEW top, top = calls[Len(calls)], top.child \in Nat \ {0},
         c \notin w, n[c] = 0, Len(Left(f, V, c, 0)) = 0
  PROVE  /\ Stands(f, V, n, Adding(w, c), later)
         /\ \A b \in w : ~(n[b] < Len(Ins(f, b)))
<1> USE DEF CallsFor, Adding
<1> DEFINE N == Len(calls)
<1>1. \A b \in w : ~(n[b] < Len(Ins(f, b)))
  BY DEF Stands
<1>2. \A b \in Range(f.order) : b \notin w => n[b] = 0
  BY DEF Stands
<1>3. ASSUME NEW j \in 1 .. N
      PROVE  /\ later[j].block \in w
             /\ later[j].next = Len(Left(f, V, later[j].block, n[later[j].block])) + 1
             /\ later[j].child # 0
             /\ n[later[j].block] = Len(Ins(f, later[j].block))
  <2>1. /\ calls[j].block \in w
        /\ calls[j].next = Len(Left(f, V, calls[j].block, n[calls[j].block])) + 1
        /\ j # N => calls[j].child # 0
        /\ calls[j].child # 0 => n[calls[j].block] = Len(Ins(f, calls[j].block))
    BY DEF Stands
  <2> QED
    BY <2>1
<1>4. \A j \in 1 .. N + 1 : j \in 1 .. N \/ j = N + 1
  BY UpToNext
<1>5. ASSUME NEW j \in 1 .. N + 1
      PROVE  /\ later[j].block \in w \cup {c}
             /\ later[j].next = Len(Left(f, V, later[j].block, n[later[j].block])) + 1
             /\ j # N + 1 => later[j].child # 0
             /\ later[j].child # 0 => n[later[j].block] = Len(Ins(f, later[j].block))
  <2>1. CASE j = N + 1
    BY <2>1
  <2>2. CASE j \in 1 .. N
    BY <1>3, <2>2
  <2> QED
    BY <1>4, <2>1, <2>2
<1>6. Len(later) = N + 1 /\ N + 1 # 0 /\ later[N + 1].block = c /\ later[N + 1].child = 0
  OBVIOUS
<1>7. \A b \in w \cup {c} : n[b] < Len(Ins(f, b)) =>
        /\ later[Len(later)].block = b /\ later[Len(later)].child = 0
        /\ Len(later) # 0
  BY <1>1, <1>6
<1>8. \A b \in Range(f.order) : b \notin w \cup {c} => n[b] = 0
  BY <1>2
<1>9. Stands(f, V, n, w \cup {c}, later)
  BY ONLY <1>5, <1>6, <1>7, <1>8 DEF Stands
<1> QED
  BY <1>1, <1>9

\* A call returns.
LEMMA StandsReturn ==
  ASSUME NEW f, NEW V, NEW t, NEW s, NEW z, NEW n, NEW w, NEW calls, Stands(f, V, n, w, calls),
         NEW later, Returns(f, V, t, s, calls, z, later),
         NEW top, top = calls[Len(calls)], top.child # 0
  PROVE  /\ Stands(f, V, n, w, later)
         /\ \A b \in w : ~(n[b] < Len(Ins(f, b)))
<1> USE DEF Returns
<1> DEFINE N == Len(calls)
<1>1. \A b \in w : ~(n[b] < Len(Ins(f, b)))
  BY DEF Stands
<1>2. \A b \in Range(f.order) : b \notin w => n[b] = 0
  BY DEF Stands
<1>3. ASSUME NEW j \in 1 .. N - 1
      PROVE  /\ later[j].block \in w
             /\ later[j].next = Len(Left(f, V, later[j].block, n[later[j].block])) + 1
             /\ later[j].child # 0
             /\ later[j].child # 0 => n[later[j].block] = Len(Ins(f, later[j].block))
  <2>1. j \in 1 .. N /\ j # N /\ later[j] = calls[j]
    OBVIOUS
  <2>2. /\ calls[j].block \in w
        /\ calls[j].next = Len(Left(f, V, calls[j].block, n[calls[j].block])) + 1
        /\ calls[j].child # 0
        /\ calls[j].child # 0 => n[calls[j].block] = Len(Ins(f, calls[j].block))
    BY <2>1 DEF Stands
  <2> QED
    BY <2>1, <2>2
<1> QED
  BY <1>1, <1>2, <1>3 DEF Stands

-----------------------------------------------------------------------------
\* What rename has done, with all it rests on.

\* Function g is what is left of f: the same graph and the same accesses.
Kin(f, g) ==
  /\ Keeps(f, g)
  /\ \A b \in Blocks(f) : Succ(g, b) = Succ(f, b) /\ Pred(g, b) = Pred(f, b)

Certified(f, V, t, P, r, d, n, w, h, g, s, calls) ==
  /\ Setting(f, V, t, P) /\ Ghosts(f, V, r, d, n, w) /\ Names(f, V, t, P, r, d, n, w)
  /\ Stands(f, V, n, w, calls) /\ Tours(f, t, w, calls)
  /\ h \in History(V) /\ Heights(V, d, n, calls, s, h)
  /\ Lists(f, V, n, g) /\ Rewritten(f, r, g) /\ Learnt(f, P, d, n, w, g)

\* The last call of rename, and the block it is in.
LEMMA RenamePlace ==
  ASSUME TypeInv, pc = "rename", NEW f, Kin(f, fn), NEW P, NEW r, NEW d, NEW n, NEW w, NEW h,
         Certified(f, Vars, idom, P, r, d, n, w, h, fn, stacks, frames)
  PROVE  LET N == Len(frames)
             b == Top.block
         IN  /\ f \in Functions /\ CodeFits(f) /\ CodeFits(fn)
             /\ N \in Nat \ {0} /\ frames # <<>> /\ Top = frames[N]
             /\ frames \in Seq(Calls(fn, Vars)) /\ Top \in Calls(fn, Vars)
             /\ Top.child \in Nat /\ Top.next \in Nat /\ Top.pushed \in [Vars -> Nat]
             /\ \A k \in 1 .. N : frames[k].block \in w /\ frames[k].block \in Range(f.order)
             /\ fn.order = f.order /\ Blocks(fn) = Blocks(f) /\ Range(f.order) \subseteq Blocks(f)
             /\ Instrs(f) \subseteq Instrs(fn)
             /\ b \in w /\ b \in Range(f.order) /\ b \in Blocks(f)
             /\ n[b] \in Nat /\ Len(Ins(f, b)) \in Nat /\ n[b] <= Len(Ins(f, b))
             /\ Top.next = Len(Left(f, Vars, b, n[b])) + 1
             /\ IF Top.next <= Len(Body)
                THEN n[b] < Len(Ins(f, b)) /\ Body[Top.next] = Ins(f, b)[n[b] + 1]
                ELSE n[b] = Len(Ins(f, b))
             /\ \A i \in Instrs(f) : IsMemory(i) <=> i \notin Kept(f, Vars)
             /\ \A c : dom_children(c) = Kids(f, idom, c)
             /\ stacks \in [Vars -> Seq(Nat)]
<1> DEFINE N == Len(frames)
           b == Top.block
<1>1. Setting(f, Vars, idom, P) /\ Ghosts(f, Vars, r, d, n, w) /\ Stands(f, Vars, n, w, frames)
      /\ Lists(f, Vars, n, fn)
  BY DEF Certified
<1>2. f \in Functions /\ Keeps(f, fn)
  BY <1>1 DEF Setting, Kin
<1>3. CodeFits(f)
  BY <1>2, FunctionsAssumption DEF CodeFits, MatchesOpcode
<1>4. /\ fn.order = f.order /\ Blocks(fn) = Blocks(f) /\ Instrs(f) \subseteq Instrs(fn)
      /\ Range(f.order) \subseteq Blocks(f)
  BY <1>2, GivenFacts DEF Keeps
<1>5. /\ TypedFor(fn) /\ frames # <<>> /\ N \in Nat \ {0} /\ Top = frames[N] /\ Top \in Calls(fn, Vars)
      /\ Top.child \in Nat /\ Top.next \in Nat /\ Top.pushed \in [Vars -> Nat]
  BY TopFacts
<1>6. CodeFits(fn) /\ frames \in Seq(Calls(fn, Vars)) /\ stacks \in [Vars -> Seq(Instrs(fn))]
  BY <1>5 DEF TypedFor
<1>7. \A k \in 1 .. N : frames[k].block \in w /\ frames[k].block \in Range(f.order)
  BY <1>1 DEF Stands, Ghosts
<1>8. N \in 1 .. N
  BY <1>5
<1>9. b \in w /\ b \in Range(f.order) /\ b \in Blocks(f)
  BY <1>4, <1>5, <1>7, <1>8
<1>10. n[b] \in Nat /\ Len(Ins(f, b)) \in Nat /\ n[b] <= Len(Ins(f, b))
  BY <1>1, <1>2, <1>9, GivenFacts DEF Ghosts
<1>11. Top.next = Len(Left(f, Vars, b, n[b])) + 1
  BY <1>1, <1>5, <1>8 DEF Stands
<1>12. IF Top.next <= Len(Body)
       THEN n[b] < Len(Ins(f, b)) /\ Body[Top.next] = Ins(f, b)[n[b] + 1]
       ELSE n[b] = Len(Ins(f, b))
  <2>1. /\ Len(Left(f, Vars, b, n[b])) + 1 <= Len(Ins(fn, b)) => n[b] < Len(Ins(f, b))
        /\ n[b] < Len(Ins(f, b)) =>
              /\ Len(Left(f, Vars, b, n[b])) + 1 <= Len(Ins(fn, b))
              /\ Ins(fn, b)[Len(Left(f, Vars, b, n[b])) + 1] = Ins(f, b)[n[b] + 1]
    BY <1>1, <1>2, <1>9, <1>10, ListsNext
  <2>2. Body = Ins(fn, b)
    BY DEF Body
  <2> HIDE DEF b
  <2>3. ~(n[b] < Len(Ins(f, b))) => n[b] = Len(Ins(f, b))
    BY <1>10
  <2> QED
    BY <1>11, <2>1, <2>2, <2>3
<1>13. /\ \A i \in Instrs(f) : IsMem(fn, Vars, i) <=> IsMem(f, Vars, i)
       /\ \A c : Kids(fn, idom, c) = Kids(f, idom, c)
  BY <1>2, <1>3, KeptAccess
<1>14. /\ \A i : IsMemory(i) <=> IsMem(fn, Vars, i)
       /\ \A c : dom_children(c) = Kids(fn, idom, c)
  BY AccessFacts
<1>15. \A i \in Instrs(f) : IsMemory(i) <=> i \notin Kept(f, Vars)
  BY <1>13, <1>14 DEF Kept
<1>16. stacks \in [Vars -> Seq(Nat)]
  <2>1. Instrs(fn) \subseteq Nat
    BY <1>6, CodeParts
  <2>2. \A v \in Vars : stacks[v] \in Seq(Nat)
    BY <1>6, <2>1, SeqWider
  <2> QED
    BY <1>6, <2>2
<1> QED
  BY <1>2, <1>3, <1>4, <1>5, <1>6, <1>7, <1>9, <1>10, <1>11, <1>12, <1>13, <1>14, <1>15, <1>16

\* Function u has the phis of g.
SamePhis(g, u) ==
  /\ Instrs(g) \subseteq Instrs(u)
  /\ \A i \in Instrs(g) : IsPhi(g, i) /\ g.code[i].args = <<>> =>
       u.code[i].op = g.code[i].op /\ u.code[i].args = <<>> /\ u.code[i].inc = g.code[i].inc

\* Rename comes past place k of block b, which the last call is in.
Passes(f, V, r, d, n, w, calls, b, k, q, e, m, later) ==
  /\ Len(calls) \in Nat \ {0} /\ b \in w /\ n[b] < Len(Ins(f, b)) /\ k = n[b] + 1
  /\ q = Renaming2(f, V, r, d, b, k) /\ e = Flowing(f, V, r, d, b, k)
  /\ m = Counting(n, b, k) /\ Onward(f, V, b, k, calls, later)

\* Where that leaves it.
LEMMA Passing ==
  ASSUME NEW f, NEW V, NEW t, NEW P, NEW r, NEW d, NEW n, NEW w, NEW h, NEW g, NEW s, NEW calls,
         Certified(f, V, t, P, r, d, n, w, h, g, s, calls),
         NEW b, NEW k, NEW q, NEW e, NEW m, NEW later,
         Passes(f, V, r, d, n, w, calls, b, k, q, e, m, later)
  PROVE  /\ Setting(f, V, t, P) /\ Ghosts(f, V, q, e, m, w) /\ Names(f, V, t, P, q, e, m, w)
         /\ Stands(f, V, m, w, later) /\ Tours(f, t, w, later)
         /\ \A u : SamePhis(g, u) => Learnt(f, P, e, m, w, u)
         /\ b = calls[Len(calls)].block
         /\ Elsewhere(calls, d, n, e, m)
         /\ m[b] = k /\ e[b][k + 1] = After(f, V, r, d, b, k)
<1> DEFINE N == Len(calls)
<1>0. /\ N \in Nat \ {0} /\ b \in w /\ n[b] < Len(Ins(f, b)) /\ k = n[b] + 1
      /\ q = Renaming2(f, V, r, d, b, k) /\ e = Flowing(f, V, r, d, b, k)
      /\ m = Counting(n, b, k) /\ Onward(f, V, b, k, calls, later)
  BY DEF Passes
<1>1. /\ Setting(f, V, t, P) /\ Ghosts(f, V, r, d, n, w) /\ Names(f, V, t, P, r, d, n, w)
      /\ Stands(f, V, n, w, calls) /\ Tours(f, t, w, calls) /\ Learnt(f, P, d, n, w, g)
  BY DEF Certified
<1>2. /\ Ghosts(f, V, q, e, m, w) /\ Names(f, V, t, P, q, e, m, w)
      /\ m[b] = k /\ \A c \in Blocks(f) : c # b => m[c] = n[c] /\ e[c] = d[c]
      /\ e[b][k + 1] = After(f, V, r, d, b, k)
  <2>1. Setting(f, V, t, P)
    BY <1>1
  <2>2. Ghosts(f, V, r, d, n, w)
    BY <1>1
  <2>3. Names(f, V, t, P, r, d, n, w)
    BY <1>1
  <2> QED
    BY <1>0, <2>1, <2>2, <2>3, NamesStep
<1>3. f \in Functions /\ w \subseteq Range(f.order) /\ Range(f.order) \subseteq Blocks(f)
      /\ n \in [Blocks(f) -> Nat] /\ b \in Blocks(f) /\ Len(Ins(f, b)) \in Nat
  BY <1>0, <1>1, SettingFacts, GivenFacts DEF Ghosts
<1>4. Stands(f, V, m, w, later)
  BY <1>0, <1>1, <1>3, StandsGoOn
<1>5. Tours(f, t, w, later)
  <2>1. \A j \in 1 .. N : \A c : WillEnter(f, t, later[j], c) <=> WillEnter(f, t, calls[j], c)
    BY <1>0 DEF WillEnter, Onward
  <2>2. Len(later) = N /\ \A j \in 1 .. N : later[j].block = calls[j].block
    BY <1>0 DEF Onward
  <2> QED
    BY <1>1, <2>1, <2>2, ToursSame
<1>6. \A j \in 1 .. N : calls[j].block \in w /\ (calls[j].child # 0 => calls[j].block # b)
      /\ (j # N => calls[j].child # 0)
  BY <1>0, <1>1 DEF Stands
<1>7. b = calls[N].block
  BY <1>0, <1>1 DEF Stands
<1>8. \A j \in 1 .. N : j # N => calls[j].block # b /\ calls[j].block \in Blocks(f)
  BY <1>3, <1>6
<1>9. \A c \in w : n[c] = Len(Ins(f, c)) => m[c] = n[c] /\ e[c] = d[c]
  BY <1>0, <1>2, <1>3
<1>10. ASSUME NEW u, SamePhis(g, u)
       PROVE  Learnt(f, P, e, m, w, u)
  <2>1. \A i \in Instrs(g) : IsPhi(g, i) /\ g.code[i].args = <<>> =>
          u.code[i].op = g.code[i].op /\ u.code[i].args = <<>> /\ u.code[i].inc = g.code[i].inc
    BY <1>10 DEF SamePhis
  <2>2. Instrs(g) \subseteq Instrs(u) /\ w \subseteq w
    BY <1>10 DEF SamePhis
  <2>3. Learnt(f, P, d, n, w, g)
    BY <1>1
  <2> QED
    BY <1>9, <2>1, <2>2, <2>3, LearntLater
<1>11. Elsewhere(calls, d, n, e, m)
  BY <1>2, <1>8 DEF Elsewhere
<1> QED
  BY <1>1, <1>2, <1>4, <1>5, <1>7, <1>10, <1>11
=============================================================================
