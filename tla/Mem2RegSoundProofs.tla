------------------------- MODULE Mem2RegSoundProofs -------------------------
(***************************************************************************)
(* What promotion makes of a function is that function on names: the steps *)
(* of rename, the phis they complete, and the runs before and after.       *)
(***************************************************************************)
EXTENDS Mem2RegProofs

-----------------------------------------------------------------------------
\* The steps of rename, one by one.

\* The instruction that rename comes to, when it is neither stored nor loaded.
LEMMA OrdinaryFlow ==
  ASSUME NEW f, NEW V, NEW t, NEW P, Setting(f, V, t, P),
         NEW r, NEW d, NEW n, NEW w, Ghosts(f, V, r, d, n, w), Names(f, V, t, P, r, d, n, w),
         NEW b \in w, n[b] < Len(Ins(f, b)), NEW k, k = n[b] + 1,
         ~IsLoad(f, V, Ins(f, b)[k]), ~IsStore(f, V, Ins(f, b)[k])
  PROVE  After(f, V, r, d, b, k) = d[b][k] /\ Renaming2(f, V, r, d, b, k) = r
<1> DEFINE i == Ins(f, b)[k]
<1>1. NameOf(f, V, d, b, k) = i /\ After(f, V, r, d, b, k) = d[b][k]
  BY DEF NameOf, After
<1>2. r[i] = i /\ i \in Nat
  BY NextFacts
<1>3. r \in [Nat -> Nat]
  BY DEF Ghosts
<1> HIDE DEF i
<1>4. [r EXCEPT ![i] = i] = r
  BY <1>2, <1>3
<1> QED
  BY <1>1, <1>4 DEF Renaming2, i

\* The calls of rename when the last one goes on and becomes x.
LEMMA TopGoesOn ==
  ASSUME NEW C, NEW calls \in Seq(C), calls # <<>>, NEW x \in C, NEW V, NEW f, NEW b, NEW k,
         NEW later, later = Append(Front(calls), x),
         x.block = Last(calls).block, x.child = Last(calls).child, x.next = Len(Left(f, V, b, k)) + 1
  PROVE  /\ Onward(f, V, b, k, calls, later)
         /\ later \in Seq(C) /\ Len(later) = Len(calls) /\ later[Len(calls)] = x
         /\ \A j \in 1 .. Len(calls) : j # Len(calls) => later[j] = calls[j]
<1>1. /\ later \in Seq(C) /\ Len(later) = Len(calls) /\ later[Len(calls)] = x
      /\ \A j \in 1 .. Len(calls) : j # Len(calls) => later[j] = calls[j]
  BY GoesOn
<1>2. Last(calls) = calls[Len(calls)]
  BY DEF Last
<1> QED
  BY <1>1, <1>2 DEF Onward

SamePushes(calls, later) == \A j \in 1 .. Len(calls) : later[j].pushed = calls[j].pushed

\* An instruction that stays.
LEMMA CertifiedKeep ==
  ASSUME NEW f, NEW V, NEW t, NEW P, NEW r, NEW d, NEW n, NEW w, NEW h, NEW g, NEW s, NEW calls,
         Certified(f, V, t, P, r, d, n, w, h, g, s, calls),
         NEW N \in Nat \ {0}, N = Len(calls),
         NEW b \in w, n[b] < Len(Ins(f, b)), NEW k, k = n[b] + 1, Ins(f, b)[k] \in Kept(f, V),
         NEW later, Onward(f, V, b, k, calls, later),
         SamePushes(calls, later)
  PROVE  \E q, e, m, u, z : Certified(f, V, t, P, q, e, m, u, z, g, s, later)
<1>1. PICK e : e = Flowing(f, V, r, d, b, k)
  OBVIOUS
<1>2. PICK m : m = Counting(n, b, k)
  OBVIOUS
<1>3. /\ Setting(f, V, t, P) /\ Ghosts(f, V, r, d, n, w) /\ Names(f, V, t, P, r, d, n, w)
  BY DEF Certified
<1>a. Lists(f, V, n, g)
  BY DEF Certified
<1>b. Heights(V, d, n, calls, s, h)
  BY DEF Certified
<1>c. Rewritten(f, r, g) /\ h \in History(V)
  BY DEF Certified
<1>4. f \in Functions /\ b \in Range(f.order) /\ n \in [Blocks(f) -> Nat]
  BY <1>3, SettingFacts DEF Ghosts
<1>5. ~IsLoad(f, V, Ins(f, b)[k]) /\ ~IsStore(f, V, Ins(f, b)[k])
  BY DEF Kept, IsMem, IsLoad, IsStore
<1>6. After(f, V, r, d, b, k) = d[b][k] /\ Renaming2(f, V, r, d, b, k) = r
  BY <1>3, <1>5, OrdinaryFlow
<1>7. Lists(f, V, m, g)
  BY <1>2, <1>a, <1>4, ListsKeep
<1>8. /\ Ghosts(f, V, r, e, m, w) /\ Names(f, V, t, P, r, e, m, w)
      /\ Stands(f, V, m, w, later) /\ Tours(f, t, w, later)
      /\ b = calls[N].block /\ Elsewhere(calls, d, n, e, m)
      /\ m[b] = k /\ e[b][k + 1] = After(f, V, r, d, b, k)
      /\ \A u : SamePhis(g, u) => Learnt(f, P, e, m, w, u)
  <2>1. PICK q : q = Renaming2(f, V, r, d, b, k)
    OBVIOUS
  <2>2. /\ Setting(f, V, t, P) /\ Ghosts(f, V, q, e, m, w) /\ Names(f, V, t, P, q, e, m, w)
        /\ Stands(f, V, m, w, later) /\ Tours(f, t, w, later)
        /\ \A u : SamePhis(g, u) => Learnt(f, P, e, m, w, u)
        /\ b = calls[Len(calls)].block
        /\ Elsewhere(calls, d, n, e, m)
        /\ m[b] = k /\ e[b][k + 1] = After(f, V, r, d, b, k)
    <3>1. Passes(f, V, r, d, n, w, calls, b, k, q, e, m, later)
      BY <1>1, <1>2, <2>1 DEF Passes
    <3> QED
      BY <3>1, Passing
  <2>3. q = r
    BY <1>6, <2>1
  <2> QED
    BY <2>2, <2>3
<1>9. Learnt(f, P, e, m, w, g)
  BY <1>8 DEF SamePhis
<1>10. Heights(V, e, m, later, s, h)
  <2>1. ASSUME NEW j \in 1 .. N
        PROVE  /\ later[j].block = calls[j].block /\ later[j].pushed = calls[j].pushed
               /\ e[calls[j].block][m[calls[j].block] + 1] = d[calls[j].block][n[calls[j].block] + 1]
    <3>1. later[j].block = calls[j].block
      BY DEF Onward
    <3>2. e[calls[j].block][m[calls[j].block] + 1] = d[calls[j].block][n[calls[j].block] + 1]
      BY <1>6, <1>8 DEF Elsewhere
    <3> QED
      BY <3>1, <3>2 DEF SamePushes
  <2>2. Len(later) = Len(calls)
    BY DEF Onward
  <2> QED
    BY <1>b, <2>1, <2>2, HeightsSame
<1> QED
  BY <1>3, <1>7, <1>8, <1>9, <1>10, <1>c DEF Certified

-----------------------------------------------------------------------------
\* Function u is g without instruction i, which rename has come to in block b.
TakesOut(f, V, n, w, b, k, i, g, u) ==
  /\ f \in Functions /\ CodeFits(f) /\ Kin(f, g) /\ CodeFits(g)
  /\ n \in [Blocks(f) -> Nat] /\ w \subseteq Range(f.order)
  /\ \A c \in Range(f.order) : n[c] <= Len(Ins(f, c))
  /\ b \in w /\ n[b] < Len(Ins(f, b)) /\ k = n[b] + 1
  /\ i = Ins(f, b)[k] /\ i \notin Kept(f, V)
  /\ u = WithoutInstr(g, b, i)

LEMMA TakenOut ==
  ASSUME NEW f, NEW V, NEW n, NEW w, NEW b, NEW k, NEW i, NEW g, NEW u,
         TakesOut(f, V, n, w, b, k, i, g, u), Lists(f, V, n, g)
  PROVE  /\ \A m : m = Counting(n, b, k) => Lists(f, V, m, u)
         /\ Left(f, V, b, k) = Left(f, V, b, n[b])
         /\ \A r : Rewritten(f, r, g) => Rewritten(f, r, u)
         /\ SamePhis(g, u) /\ u.code = g.code /\ Instrs(u) = Instrs(g)
         /\ \A v \in Instrs(g) : u.users[v] \in Seq(Instrs(g))
         /\ DOMAIN u = {"entry", "order", "block", "code", "users"}
         /\ \A c \in Range(f.order) : Range(Ins(u, c)) \subseteq Instrs(f)
         /\ i \in Range(Ins(g, b)) /\ i \in Instrs(f) /\ i \in Instrs(g)
<1>1. /\ f \in Functions /\ CodeFits(f) /\ Kin(f, g) /\ CodeFits(g)
      /\ n \in [Blocks(f) -> Nat] /\ w \subseteq Range(f.order)
      /\ \A c \in Range(f.order) : n[c] <= Len(Ins(f, c))
      /\ b \in w /\ n[b] < Len(Ins(f, b)) /\ k = n[b] + 1
      /\ i = Ins(f, b)[k] /\ i \notin Kept(f, V)
      /\ u = WithoutInstr(g, b, i)
  BY DEF TakesOut
<1>2. /\ Blocks(g) = Blocks(f) /\ Instrs(f) \subseteq Instrs(g) /\ g.order = f.order
  BY <1>1 DEF Kin, Keeps
<1>3. /\ b \in Range(f.order) /\ Range(f.order) \subseteq Blocks(f) /\ b \in Blocks(f)
      /\ n[b] \in Nat /\ Len(Ins(f, b)) \in Nat /\ k \in 1 .. Len(Ins(f, b))
  BY <1>1, GivenFacts
<1>4. i \in Instrs(f) /\ i \in Instrs(g)
  BY <1>1, <1>2, <1>3, PlaceFacts
<1>5. /\ Keeps(g, u) /\ u.code = g.code
      /\ Ins(u, b) = Filtered(Ins(g, b), Instrs(g) \ {i})
      /\ \A c \in Blocks(g) : c # b => Ins(u, c) = Ins(g, c)
  <2>1. u = WithoutInstr(g, b, i) /\ CodeFits(g) /\ b \in Blocks(g) /\ i \in Instrs(g)
    BY <1>1, <1>2, <1>3, <1>4
  <2>2. /\ Keeps(g, WithoutInstr(g, b, i)) /\ WithoutInstr(g, b, i).code = g.code
        /\ Ins(WithoutInstr(g, b, i), b) = Filtered(Ins(g, b), Instrs(g) \ {i})
        /\ \A c \in Blocks(g) : c # b => Ins(WithoutInstr(g, b, i), c) = Ins(g, c)
    BY <2>1, WithoutFacts
  <2> QED
    BY <2>1, <2>2
<1>6. Instrs(u) = Instrs(g)
  BY <1>5 DEF Instrs
<1>7. \A c \in Range(f.order) : Range(Ins(g, c)) \subseteq Range(Ins(f, c)) /\ Range(Ins(f, c)) \subseteq Instrs(f)
  BY <1>1, <1>3, ListsRange
<1>8. /\ \A m : m = Counting(n, b, k) => Lists(f, V, m, u)
      /\ Left(f, V, b, k) = Left(f, V, b, n[b])
  <2> SUFFICES ASSUME NEW m, m = Counting(n, b, k)
               PROVE  Lists(f, V, m, u) /\ Left(f, V, b, k) = Left(f, V, b, n[b])
    OBVIOUS
  <2>1. Ins(u, b) = Filtered(Ins(g, b), Instrs(g) \ {Ins(f, b)[n[b] + 1]})
    BY <1>1, <1>5
  <2>2. \A c \in Blocks(f) : c # b => Ins(u, c) = Ins(g, c)
    BY <1>2, <1>5
  <2>3. m = Counting(n, b, n[b] + 1) /\ Ins(f, b)[n[b] + 1] \notin Kept(f, V)
    BY <1>1
  <2>4. Lists(f, V, m, u) /\ Left(f, V, b, n[b] + 1) = Left(f, V, b, n[b])
    BY <1>1, <1>2, <1>3, <2>1, <2>2, <2>3, ListsDrop
  <2> QED
    BY <1>1, <2>4
<1>9. i \in Range(Ins(g, b))
  <2>1. Len(Left(f, V, b, n[b])) + 1 <= Len(Ins(g, b))
        /\ Ins(g, b)[Len(Left(f, V, b, n[b])) + 1] = i
    BY <1>1, <1>3, ListsNext
  <2>2. Len(Left(f, V, b, n[b])) \in Nat
    BY <1>1, <1>3, LeftFacts
  <2>3. Ins(g, b) \in Seq(Instrs(g))
    BY <1>1, <1>2, <1>3, BodiesHold
  <2> QED
    BY <2>1, <2>2, <2>3 DEF Range
<1>10. ASSUME NEW c \in Range(f.order)
       PROVE  /\ Range(Ins(u, c)) \subseteq Range(Ins(g, c)) \ {i}
              /\ Range(Ins(g, c)) \subseteq Instrs(g)
  <2>1. Range(Ins(g, c)) \subseteq Instrs(g)
    BY <1>2, <1>7
  <2>2. CASE c = b
    <3>1. Ins(g, b) \in Seq(Instrs(g))
      BY <1>1, <1>2, <1>3, BodiesHold
    <3>2. Range(Ins(u, b)) = Range(Ins(g, b)) \cap (Instrs(g) \ {i})
      BY <1>5, <3>1, FilteredFacts
    <3> QED
      BY <2>1, <2>2, <3>2
  <2>3. CASE c # b
    <3>1. Ins(u, c) = Ins(g, c)
      BY <1>2, <1>3, <1>5, <2>3
    <3>2. i \notin Range(Ins(f, c))
      <4>1. SUFFICES ASSUME i \in Range(Ins(f, c)) PROVE FALSE
        OBVIOUS
      <4>2. PICK j \in 1 .. Len(Ins(f, c)) : Ins(f, c)[j] = i
        BY <1>1, <1>3, <4>1, GivenFacts DEF Range
      <4> QED
        BY <1>1, <1>3, <2>3, <4>2, PlaceFacts
    <3> QED
      BY <1>7, <2>1, <3>1, <3>2
  <2> QED
    BY <2>2, <2>3
<1>11. /\ \A r : Rewritten(f, r, g) => Rewritten(f, r, u)
       /\ \A v \in Instrs(g) : u.users[v] \in Seq(Instrs(g))
  <2>1. \A c \in Range(f.order) : Range(Ins(u, c)) \subseteq Range(Ins(g, c)) \ {i}
    BY <1>10
  <2>2. \A c \in Range(f.order) : Range(Ins(g, c)) \subseteq Instrs(g)
    BY <1>10
  <2>3. ASSUME NEW r, Rewritten(f, r, g) PROVE Rewritten(f, r, u)
    BY <1>1, <1>4, <2>1, <2>2, <2>3, WithoutKeeps
  <2>4. u.users \in [Instrs(u) -> Seq(Instrs(u))]
    BY <1>5, FunctionParts DEF Keeps
  <2> QED
    BY <1>6, <2>3, <2>4
<1>12. DOMAIN u = {"entry", "order", "block", "code", "users"}
  BY <1>5, FunctionParts DEF Keeps
<1>13. SamePhis(g, u)
  BY <1>5, <1>6 DEF SamePhis
<1>14. \A c \in Range(f.order) : Range(Ins(u, c)) \subseteq Instrs(f)
  BY <1>7, <1>10
<1> QED
  BY <1>4, <1>5, <1>6, <1>8, <1>9, <1>11, <1>12, <1>13, <1>14

-----------------------------------------------------------------------------
\* The stacks when the names stay what they were.
LEMMA HeightsStay ==
  ASSUME NEW f, NEW V, NEW d, NEW n, NEW calls, NEW s, NEW h, Heights(V, d, n, calls, s, h),
         NEW b, NEW k, NEW later, Onward(f, V, b, k, calls, later), SamePushes(calls, later),
         NEW e, NEW m, Elsewhere(calls, d, n, e, m),
         b = calls[Len(calls)].block, k = n[b] + 1, m[b] = k, e[b][k + 1] = d[b][k]
  PROVE  Heights(V, e, m, later, s, h)
<1>1. ASSUME NEW j \in 1 .. Len(calls)
      PROVE  /\ later[j].block = calls[j].block /\ later[j].pushed = calls[j].pushed
             /\ e[calls[j].block][m[calls[j].block] + 1] = d[calls[j].block][n[calls[j].block] + 1]
  <2>1. later[j].block = calls[j].block
    BY DEF Onward
  <2>2. CASE j = Len(calls)
    BY <2>1, <2>2 DEF SamePushes
  <2>3. CASE j # Len(calls)
    BY <2>1, <2>3 DEF SamePushes, Elsewhere
  <2> QED
    BY <2>2, <2>3
<1>2. Len(later) = Len(calls)
  BY DEF Onward
<1>3. \A j \in 1 .. Len(calls) :
        /\ later[j].block = calls[j].block /\ later[j].pushed = calls[j].pushed
        /\ e[calls[j].block][m[calls[j].block] + 1] = d[calls[j].block][n[calls[j].block] + 1]
  BY <1>1
<1>4. Heights(V, d, n, calls, s, h)
  OBVIOUS
<1> QED
  BY ONLY <1>2, <1>3, <1>4, HeightsSame

\* An instruction that is taken out, and leaves no name.
LEMMA CertifiedOut ==
  ASSUME NEW f, NEW V, NEW t, NEW P, NEW r, NEW d, NEW n, NEW w, NEW h, NEW g, NEW s, NEW calls,
         Certified(f, V, t, P, r, d, n, w, h, g, s, calls), Len(calls) \in Nat \ {0},
         NEW b, NEW k, NEW i, NEW u, TakesOut(f, V, n, w, b, k, i, g, u),
         NEW later, Onward(f, V, b, k, calls, later), SamePushes(calls, later),
         NameOf(f, V, d, b, k) = i, ~IsStore(f, V, i)
  PROVE  \E q, e, m, o, z : Certified(f, V, t, P, q, e, m, o, z, u, s, later)
<1>1. PICK e : e = Flowing(f, V, r, d, b, k)
  OBVIOUS
<1>2. PICK m : m = Counting(n, b, k)
  OBVIOUS
<1>3. /\ Setting(f, V, t, P) /\ Ghosts(f, V, r, d, n, w) /\ Names(f, V, t, P, r, d, n, w)
  BY DEF Certified
<1>a. Lists(f, V, n, g)
  BY DEF Certified
<1>b. Heights(V, d, n, calls, s, h)
  BY DEF Certified
<1>c. Rewritten(f, r, g) /\ h \in History(V)
  BY DEF Certified
<1>4. b \in w /\ n[b] < Len(Ins(f, b)) /\ k = n[b] + 1 /\ i = Ins(f, b)[k]
  BY DEF TakesOut
<1>5. r[i] = i /\ i \in Nat
  BY <1>3, <1>4, NextFacts
<1>6. After(f, V, r, d, b, k) = d[b][k]
  BY <1>4 DEF After
<1>7. Renaming2(f, V, r, d, b, k) = r
  <2>1. r \in [Nat -> Nat]
    BY <1>3 DEF Ghosts
  <2>2. [r EXCEPT ![i] = i] = r
    BY <1>5, <2>1
  <2> QED
    BY <1>4, <2>2 DEF Renaming2
<1>8. /\ Lists(f, V, m, u) /\ SamePhis(g, u) /\ Rewritten(f, r, u)
  BY <1>2, <1>a, <1>c, TakenOut
<1>9. Passes(f, V, r, d, n, w, calls, b, k, r, e, m, later)
  BY <1>1, <1>2, <1>4, <1>7 DEF Passes
<1>10. /\ Ghosts(f, V, r, e, m, w) /\ Names(f, V, t, P, r, e, m, w)
       /\ Stands(f, V, m, w, later) /\ Tours(f, t, w, later)
       /\ b = calls[Len(calls)].block /\ Elsewhere(calls, d, n, e, m)
       /\ m[b] = k /\ e[b][k + 1] = d[b][k]
       /\ Learnt(f, P, e, m, w, u)
  BY <1>6, <1>8, <1>9, Passing
<1>11. Heights(V, e, m, later, s, h)
  BY <1>b, <1>4, <1>10, HeightsStay
<1> QED
  BY <1>3, <1>c, <1>8, <1>10, <1>11 DEF Certified

\* Instruction i stores to v what is x by now, and the stacks s become z.
Stores(f, V, r, i, v, x, s, z) ==
  /\ IsStore(f, V, i) /\ v = f.code[i].args[1] /\ x = r[f.code[i].args[2]] /\ x \in Nat
  /\ s \in [V -> Seq(Nat)] /\ z = Pushed(s, v, x)

LEMMA CertifiedStore ==
  ASSUME NEW f, NEW V, NEW t, NEW P, NEW r, NEW d, NEW n, NEW w, NEW h, NEW g, NEW s, NEW calls,
         Certified(f, V, t, P, r, d, n, w, h, g, s, calls), Len(calls) \in Nat \ {0},
         NEW b, NEW k, NEW i, NEW u, TakesOut(f, V, n, w, b, k, i, g, u),
         NEW v, NEW x, NEW z, Stores(f, V, r, i, v, x, s, z),
         NEW later, Onward(f, V, b, k, calls, later), Pushes(V, calls, later, v)
  PROVE  \E q, e, m, o, y : Certified(f, V, t, P, q, e, m, o, y, u, z, later)
<1>1. PICK e : e = Flowing(f, V, r, d, b, k)
  OBVIOUS
<1>2. PICK m : m = Counting(n, b, k)
  OBVIOUS
<1>3. /\ Setting(f, V, t, P) /\ Ghosts(f, V, r, d, n, w) /\ Names(f, V, t, P, r, d, n, w)
  BY DEF Certified
<1>a. Lists(f, V, n, g)
  BY DEF Certified
<1>b. Heights(V, d, n, calls, s, h)
  BY DEF Certified
<1>c. Rewritten(f, r, g) /\ h \in History(V)
  BY DEF Certified
<1>4. b \in w /\ n[b] < Len(Ins(f, b)) /\ k = n[b] + 1 /\ i = Ins(f, b)[k]
  BY DEF TakesOut
<1>5. r[i] = i /\ i \in Nat
  BY <1>3, <1>4, NextFacts
<1>6. After(f, V, r, d, b, k) = [d[b][k] EXCEPT ![v] = x] /\ NameOf(f, V, d, b, k) = i
  BY <1>4 DEF After, NameOf, IsStore, IsLoad, Stores
<1>7. Renaming2(f, V, r, d, b, k) = r
  <2>1. r \in [Nat -> Nat]
    BY <1>3 DEF Ghosts
  <2>2. [r EXCEPT ![i] = i] = r
    BY <1>5, <2>1
  <2> QED
    BY <1>4, <1>6, <2>2 DEF Renaming2
<1>8. /\ Lists(f, V, m, u) /\ SamePhis(g, u) /\ Rewritten(f, r, u)
  BY <1>2, <1>a, <1>c, TakenOut
<1>9. Passes(f, V, r, d, n, w, calls, b, k, r, e, m, later)
  BY <1>1, <1>2, <1>4, <1>7 DEF Passes
<1>10. /\ Ghosts(f, V, r, e, m, w) /\ Names(f, V, t, P, r, e, m, w)
       /\ Stands(f, V, m, w, later) /\ Tours(f, t, w, later)
       /\ b = calls[Len(calls)].block /\ Elsewhere(calls, d, n, e, m)
       /\ m[b] = k /\ e[b][k + 1] = After(f, V, r, d, b, k)
       /\ Learnt(f, P, e, m, w, u)
  BY <1>8, <1>9, Passing
<1>11. v \in V /\ k \in Nat /\ b \in Blocks(f)
  BY <1>3, <1>4, NextFacts DEF Pushes
<1>12. Takes(V, b, v, x, d, n, e, m)
  <2>1. PICK c : c = d[b][k]
    OBVIOUS
  <2>2. c \in [V -> Nat]
    BY <1>3, <1>11, <2>1 DEF Ghosts
  <2>3. e[b][m[b] + 1] = [c EXCEPT ![v] = x] /\ d[b][n[b] + 1] = c
    BY <1>4, <1>6, <1>10, <2>1
  <2> QED
    BY <1>11, <2>2, <2>3 DEF Takes
<1>13. Heights(V, e, m, later, z, h)
  <2>1. s \in [V -> Seq(Nat)] /\ x \in Nat /\ z = Pushed(s, v, x)
    BY DEF Stores
  <2>2. b = calls[Len(calls)].block /\ Elsewhere(calls, d, n, e, m)
    BY <1>10
  <2>3. Heights(V, e, m, later, Pushed(s, v, x), h)
    BY <1>b, <1>12, <2>1, <2>2, HeightsPush
  <2> QED
    BY <2>1, <2>3
<1> QED
  BY <1>3, <1>c, <1>8, <1>10, <1>13 DEF Certified

-----------------------------------------------------------------------------
\* Instruction i loads v, whose name at place k of block b is x, and function a
\* is u where the users of i read x.
Loads(f, V, d, b, k, i, v, x, g, u, a) ==
  /\ IsLoad(f, V, i) /\ v = f.code[i].args[1] /\ x = d[b][k][v] /\ x # 0
  /\ x \in Instrs(g) /\ a = UsesReplaced(u, i, x)

\* What is asked of the function for the users of a load to be replaced.
LEMMA LoadReplaceable ==
  ASSUME NEW f, NEW V, NEW t, NEW P, Setting(f, V, t, P),
         NEW r, NEW d, NEW n, NEW w, Ghosts(f, V, r, d, n, w), Names(f, V, t, P, r, d, n, w),
         NEW b, NEW k, NEW i, NEW g, NEW u, TakesOut(f, V, n, w, b, k, i, g, u), Lists(f, V, n, g),
         NEW v, NEW x, NEW a, Loads(f, V, d, b, k, i, v, x, g, u, a), Rewritten(f, r, g)
  PROVE  Replaceable(f, r, u, i, x)
<1>1. b \in w /\ n[b] < Len(Ins(f, b)) /\ k = n[b] + 1 /\ i = Ins(f, b)[k]
  BY DEF TakesOut
<1>2. r[i] = i /\ i \in Nat /\ i \notin Named(f, t, P, b, k) /\ k \in 1 .. n[b] + 1
  BY <1>1, NextFacts
<1>3. \A c \in Nat : c # i => r[c] # i
  BY <1>1, OthersNamed
<1>4. x # i
  <2>1. v \in V /\ x = d[b][k][v] /\ x # 0
    BY DEF Loads, IsLoad
  <2>2. x \in Named(f, t, P, b, k)
    BY <1>1, <1>2, <2>1, GoneFacts
  <2> QED
    BY <1>2, <2>2
<1>5. /\ u.code = g.code /\ Instrs(u) = Instrs(g)
      /\ \A y \in Instrs(g) : u.users[y] \in Seq(Instrs(g))
      /\ DOMAIN u = {"entry", "order", "block", "code", "users"}
      /\ \A c \in Range(f.order) : Range(Ins(u, c)) \subseteq Instrs(f)
      /\ i \in Instrs(g)
  BY TakenOut
<1>6. Rewritten(f, r, u)
  BY TakenOut
<1>7. \A y \in Instrs(g) : g.code[y].args \in Seq(Instrs(g)) /\ DOMAIN g.code[y] = {"op", "ty", "args", "k", "tgt", "inc", "parent"}
  BY DEF TakesOut, CodeFits, IsFunction, IsCode
<1>8. Instrs(f) \subseteq Instrs(g) /\ f \in Functions
  BY DEF TakesOut, Kin, Keeps
<1>9. Instrs(f) \subseteq Nat
  BY <1>8, GivenFacts
<1>10. r \in [Nat -> Nat]
  BY DEF Ghosts
<1>11. x \in Instrs(g)
  BY DEF Loads
<1> QED
  BY <1>2, <1>3, <1>4, <1>5, <1>6, <1>7, <1>8, <1>9, <1>10, <1>11 DEF Replaceable

\* The phis have no users among the instructions that stand in a block.
LEMMA ReplacedPhis ==
  ASSUME NEW g, NEW u, NEW a, NEW i, NEW x, SamePhis(g, u), Instrs(a) = Instrs(u),
         \A y \in Instrs(u) : Rereads(a.code[y], u.code[y], i, x),
         \A y \in Instrs(u) : DOMAIN u.code[y] = {"op", "ty", "args", "k", "tgt", "inc", "parent"}
  PROVE  SamePhis(g, a)
<1>1. Instrs(g) \subseteq Instrs(a)
  BY DEF SamePhis
<1>2. ASSUME NEW y \in Instrs(g), IsPhi(g, y), g.code[y].args = <<>>
      PROVE  a.code[y].op = g.code[y].op /\ a.code[y].args = <<>> /\ a.code[y].inc = g.code[y].inc
  <2>1. y \in Instrs(u) /\ u.code[y].op = g.code[y].op /\ u.code[y].args = <<>>
        /\ u.code[y].inc = g.code[y].inc
    BY <1>2 DEF SamePhis
  <2>2. Replaced(<<>>, i, x) = <<>>
    BY DEF Replaced
  <2>3. CASE a.code[y] = u.code[y]
    BY <2>1, <2>3
  <2>4. CASE a.code[y] = [u.code[y] EXCEPT !.args = Replaced(u.code[y].args, i, x)]
    <3>1. DOMAIN u.code[y] = {"op", "ty", "args", "k", "tgt", "inc", "parent"}
      BY <2>1
    <3>2. a.code[y] = [u.code[y] EXCEPT !.args = <<>>]
      BY <2>1, <2>2, <2>4
    <3> QED
      BY <2>1, <3>1, <3>2
  <2> QED
    BY <2>1, <2>3, <2>4 DEF Rereads
<1> QED
  BY <1>1, <1>2 DEF SamePhis

LEMMA CertifiedLoad ==
  ASSUME NEW f, NEW V, NEW t, NEW P, NEW r, NEW d, NEW n, NEW w, NEW h, NEW g, NEW s, NEW calls,
         Certified(f, V, t, P, r, d, n, w, h, g, s, calls), Len(calls) \in Nat \ {0},
         NEW b, NEW k, NEW i, NEW u, TakesOut(f, V, n, w, b, k, i, g, u),
         NEW v, NEW x, NEW a, Loads(f, V, d, b, k, i, v, x, g, u, a),
         NEW later, Onward(f, V, b, k, calls, later), SamePushes(calls, later)
  PROVE  \E q, e, m, o, z : Certified(f, V, t, P, q, e, m, o, z, a, s, later)
<1>1. PICK e : e = Flowing(f, V, r, d, b, k)
  OBVIOUS
<1>2. PICK m : m = Counting(n, b, k)
  OBVIOUS
<1>q. PICK q : q = Counting(r, i, x)
  OBVIOUS
<1>3. /\ Setting(f, V, t, P) /\ Ghosts(f, V, r, d, n, w) /\ Names(f, V, t, P, r, d, n, w)
  BY DEF Certified
<1>a. Lists(f, V, n, g)
  BY DEF Certified
<1>b. Heights(V, d, n, calls, s, h)
  BY DEF Certified
<1>c. Rewritten(f, r, g) /\ h \in History(V)
  BY DEF Certified
<1>4. b \in w /\ n[b] < Len(Ins(f, b)) /\ k = n[b] + 1 /\ i = Ins(f, b)[k]
  BY DEF TakesOut
<1>5. IsLoad(f, V, i) /\ v = f.code[i].args[1] /\ x = d[b][k][v] /\ x # 0 /\ a = UsesReplaced(u, i, x)
  BY DEF Loads
<1>6. After(f, V, r, d, b, k) = d[b][k] /\ NameOf(f, V, d, b, k) = x
  BY <1>4, <1>5 DEF After, NameOf, IsLoad, IsStore
<1>7. Renaming2(f, V, r, d, b, k) = q
  BY <1>q, <1>4, <1>6 DEF Renaming2, Counting
<1>8. /\ Lists(f, V, m, u) /\ SamePhis(g, u) /\ u.code = g.code /\ Instrs(u) = Instrs(g)
  BY <1>2, <1>a, TakenOut
<1>9. Replaceable(f, r, u, i, x)
  BY <1>3, <1>a, <1>c, LoadReplaceable
<1>10. /\ Rewritten(f, q, a) /\ a.block = u.block /\ Instrs(a) = Instrs(u)
       /\ \A y \in Instrs(u) : Rereads(a.code[y], u.code[y], i, x)
  <2>1. q = Counting(r, i, x) /\ a = UsesReplaced(u, i, x)
    BY <1>q, <1>5
  <2> QED
    BY <1>9, <2>1, ReplacedKeeps
<1>11. SamePhis(g, a)
  <2>1. \A y \in Instrs(u) : DOMAIN u.code[y] = {"op", "ty", "args", "k", "tgt", "inc", "parent"}
    BY <1>8 DEF TakesOut, CodeFits, IsFunction, IsCode
  <2> QED
    BY <1>8, <1>10, <2>1, ReplacedPhis
<1>12. Lists(f, V, m, a)
  BY <1>8, <1>10 DEF Lists, Ins
<1>13. Passes(f, V, r, d, n, w, calls, b, k, q, e, m, later)
  BY <1>1, <1>2, <1>4, <1>7 DEF Passes
<1>14. /\ Ghosts(f, V, q, e, m, w) /\ Names(f, V, t, P, q, e, m, w)
       /\ Stands(f, V, m, w, later) /\ Tours(f, t, w, later)
       /\ b = calls[Len(calls)].block /\ Elsewhere(calls, d, n, e, m)
       /\ m[b] = k /\ e[b][k + 1] = d[b][k]
       /\ Learnt(f, P, e, m, w, a)
  BY <1>6, <1>11, <1>13, Passing
<1>15. Heights(V, e, m, later, s, h)
  BY <1>b, <1>4, <1>14, HeightsStay
<1> QED
  BY <1>3, <1>c, <1>10, <1>12, <1>14, <1>15 DEF Certified

-----------------------------------------------------------------------------
\* The last call has wired the successors of its block b.
WiresOn(calls, later, b) ==
  /\ Len(calls) \in Nat \ {0} /\ Len(later) = Len(calls)
  /\ \A j \in 1 .. Len(calls) : j # Len(calls) => later[j] = calls[j]
  /\ calls[Len(calls)].block = b /\ calls[Len(calls)].child = 0
  /\ later[Len(calls)].block = b /\ later[Len(calls)].child = 1
  /\ later[Len(calls)].next = calls[Len(calls)].next
  /\ later[Len(calls)].pushed = calls[Len(calls)].pushed

LEMMA CertifiedWire ==
  ASSUME NEW f, NEW V, NEW t, NEW P, NEW r, NEW d, NEW n, NEW w, NEW h, NEW g, NEW s, NEW calls,
         Certified(f, V, t, P, r, d, n, w, h, g, s, calls),
         NEW b, NEW u, WiresIn(f, V, P, d, n, w, g, s, b, u), Instrs(f) \subseteq Instrs(g),
         NEW later, WiresOn(calls, later, b)
  PROVE  Certified(f, V, t, P, r, d, n, w, h, u, s, later)
<1>1. /\ Setting(f, V, t, P) /\ Ghosts(f, V, r, d, n, w) /\ Names(f, V, t, P, r, d, n, w)
  BY DEF Certified
<1>2. Lists(f, V, n, g) /\ Learnt(f, P, d, n, w, g)
  BY DEF Certified
<1>3. Heights(V, d, n, calls, s, h)
  BY DEF Certified
<1>4. Rewritten(f, r, g) /\ h \in History(V)
  BY DEF Certified
<1>5. Stands(f, V, n, w, calls) /\ Tours(f, t, w, calls)
  BY DEF Certified
<1>6. f \in Functions /\ Tree(f, t)
  BY <1>1, SettingFacts
<1>7. PICK N \in Nat \ {0} : N = Len(calls)
  BY DEF WiresOn
<1>8. /\ Len(later) = N /\ \A j \in 1 .. N : j # N => later[j] = calls[j]
      /\ calls[N].block = b /\ calls[N].child = 0 /\ later[N].block = b /\ later[N].child = 1
      /\ later[N].next = calls[N].next /\ later[N].pushed = calls[N].pushed
  BY <1>7 DEF WiresOn
<1>9. b \in w /\ n[b] = Len(Ins(f, b))
  BY DEF WiresIn
<1>10. b \in Range(f.order) /\ b \in Blocks(f) /\ Len(Ins(f, b)) \in Nat
  BY <1>1, <1>6, <1>9, GivenFacts DEF Ghosts
<1>11. /\ Learnt(f, P, d, n, w, u) /\ u.block = g.block /\ u.users = g.users
       /\ \A i \in Instrs(f) : u.code[i] = g.code[i]
  <2>1. /\ Learnt(f, P, d, n, w, u) /\ u.block = g.block /\ u.users = g.users
        /\ \A i \in Instrs(f) : i \in Instrs(g) => u.code[i] = g.code[i]
    BY <1>1, <1>2, LearntWired
  <2> QED
    BY <2>1
<1>12. Stands(f, V, n, w, later)
  BY <1>5, <1>7, <1>8, <1>9, <1>10, StandsWired
<1>13. Tours(f, t, w, later)
  <2>1. NoTwice(f.order)
    BY <1>6, GivenFacts
  <2>2. DOMAIN Kids(f, t, b) = 1 .. Len(Kids(f, t, b)) /\ Len(Kids(f, t, b)) \in Nat
    BY <1>6, <1>10, <2>1, KidsFacts
  <2>3. \A c : WillEnter(f, t, later[N], c) <=> WillEnter(f, t, calls[N], c)
    <3>1. \A j \in DOMAIN Kids(f, t, b) : j >= 1 /\ j >= 0
      BY <2>2
    <3> QED
      BY <1>8, <3>1 DEF WillEnter
  <2>4. \A k \in 1 .. Len(calls) : /\ later[k].block = calls[k].block
                                   /\ \A c : WillEnter(f, t, later[k], c) <=> WillEnter(f, t, calls[k], c)
    BY <1>7, <1>8, <2>3
  <2>5. Len(later) = Len(calls)
    BY <1>7, <1>8
  <2> QED
    BY <1>5, <2>4, <2>5, ToursSame
<1>14. Heights(V, d, n, later, s, h)
  <2>1. Len(later) = Len(calls)
    BY <1>7, <1>8
  <2>2. \A k \in 1 .. Len(calls) :
           /\ later[k].block = calls[k].block /\ later[k].pushed = calls[k].pushed
           /\ d[calls[k].block][n[calls[k].block] + 1] = d[calls[k].block][n[calls[k].block] + 1]
    BY <1>7, <1>8
  <2> QED
    BY <1>3, <2>1, <2>2, HeightsSame
<1>15. Lists(f, V, n, u)
  BY <1>2, <1>11 DEF Lists, Ins
<1>16. Rewritten(f, r, u)
  <2> SUFFICES ASSUME NEW c \in Range(f.order), NEW y \in Range(Ins(u, c))
               PROVE  Renamed(f, r, y, u.code[y]) /\ \A x \in Range(u.code[y].args) : y \in Range(u.users[x])
    BY DEF Rewritten
  <2>1. Ins(u, c) = Ins(g, c)
    BY <1>11 DEF Ins
  <2>2. n[c] \in Nat /\ n[c] <= Len(Ins(f, c))
    BY <1>1, <1>6, GivenFacts DEF Ghosts
  <2>3. y \in Range(Ins(g, c)) /\ y \in Instrs(f)
    BY <1>2, <1>6, <2>1, <2>2, ListsRange
  <2> QED
    BY <1>4, <1>11, <2>3 DEF Rewritten
<1> QED
  BY <1>1, <1>4, <1>11, <1>12, <1>13, <1>14, <1>15, <1>16 DEF Certified

-----------------------------------------------------------------------------
LEMMA LeftNone ==
  ASSUME NEW f, NEW V, NEW b
  PROVE  Len(Left(f, V, b, 0)) = 0
<1>1. SubSeq(Ins(f, b), 1, 0) = <<>>
  OBVIOUS
<1>2. Left(f, V, b, 0) = <<>>
  BY <1>1, FilteredEmpty DEF Left
<1> QED
  BY <1>2

\* The tree and the calls when a block is entered.
LEMMA EnterFacts ==
  ASSUME NEW f, NEW V, NEW t, NEW P, NEW r, NEW d, NEW n, NEW w, NEW calls,
         Setting(f, V, t, P), Ghosts(f, V, r, d, n, w), Names(f, V, t, P, r, d, n, w),
         Stands(f, V, n, w, calls), Tours(f, t, w, calls),
         NEW c, NEW later, CallsFor(f, V, t, P, calls, later, c),
         NEW b, b = calls[Len(calls)].block
  PROVE  /\ c \in Range(f.order) /\ c \notin w /\ c # f.entry /\ t[c] = b /\ n[c] = 0
         /\ b \in w /\ n[b] = Len(Ins(f, b)) /\ Above(f, t, c) \subseteq Full(f, n, w)
         /\ Tours(f, t, Adding(w, c), later) /\ Stands(f, V, n, Adding(w, c), later)
<1>1. f \in Functions /\ Tree(f, t)
  BY SettingFacts
<1>2. PICK top : top = calls[Len(calls)]
  OBVIOUS
<1>3. w \subseteq Range(f.order)
  BY DEF Ghosts
<1>4. Inside(f, calls)
  BY <1>3 DEF Stands, Inside
<1>5. top.block = b /\ b \in w
  BY <1>2 DEF Stands, CallsFor
<1>6. /\ c \in Range(f.order) /\ c \notin w /\ Above(f, t, c) = Up(f, t, top.block)
      /\ c # f.entry /\ t[c] = top.block /\ top.child \in Nat \ {0}
      /\ Tours(f, t, Adding(w, c), later)
  <2>1. NextIn(f, t, w, c, top) /\ Tours(f, t, Adding(w, c), later)
    BY <1>1, <1>2, <1>3, <1>4, ToursEnter
  <2> QED
    BY <2>1 DEF NextIn
<1>7. n[c] = 0
  BY <1>6 DEF Stands
<1>8. n[b] = Len(Ins(f, b))
  BY <1>2, <1>5, <1>6 DEF Stands, CallsFor
<1>9. Above(f, t, c) \subseteq Full(f, n, w)
  <2>1. Above(f, t, b) \subseteq Full(f, n, w)
    BY <1>5 DEF Names
  <2>2. Up(f, t, b) \subseteq Above(f, t, b) \cup {b}
    BY DEF Above
  <2>3. b \in Full(f, n, w)
    BY <1>5, <1>8 DEF Full
  <2> QED
    BY <1>5, <1>6, <2>1, <2>2, <2>3
<1>10. Stands(f, V, n, Adding(w, c), later)
  <2>1. Len(Left(f, V, c, 0)) = 0
    BY LeftNone
  <2> QED
    BY <1>2, <1>6, <1>7, <2>1, StandsEnter
<1> QED
  BY <1>5, <1>6, <1>7, <1>8, <1>9, <1>10

LEMMA CertifiedEnter ==
  ASSUME NEW f, NEW V, NEW t, NEW P, NEW r, NEW d, NEW n, NEW w, NEW h, NEW g, NEW s, NEW calls,
         Certified(f, V, t, P, r, d, n, w, h, g, s, calls), s \in [V -> Seq(Nat)],
         NEW c, NEW later, CallsFor(f, V, t, P, calls, later, c),
         NEW z, z = PhisPushed(V, P, s, c)
  PROVE  \E q, e, m, o, y : Certified(f, V, t, P, q, e, m, o, y, g, z, later)
<1>1. /\ Setting(f, V, t, P) /\ Ghosts(f, V, r, d, n, w) /\ Names(f, V, t, P, r, d, n, w)
      /\ Stands(f, V, n, w, calls) /\ Tours(f, t, w, calls)
  BY DEF Certified
<1>2. Lists(f, V, n, g) /\ Learnt(f, P, d, n, w, g)
  BY DEF Certified
<1>3. Heights(V, d, n, calls, s, h)
  BY DEF Certified
<1>4. Rewritten(f, r, g)
  BY DEF Certified
<1>h. h \in History(V)
  BY DEF Certified
<1>5. PICK b : b = calls[Len(calls)].block
  OBVIOUS
<1>6. /\ c \in Range(f.order) /\ c \notin w /\ c # f.entry /\ t[c] = b /\ n[c] = 0
      /\ b \in w /\ n[b] = Len(Ins(f, b)) /\ Above(f, t, c) \subseteq Full(f, n, w)
      /\ Tours(f, t, Adding(w, c), later) /\ Stands(f, V, n, Adding(w, c), later)
  BY <1>1, <1>5, EnterFacts
<1>7. PICK e : e = Entering(f, V, t, P, d, c)
  OBVIOUS
<1>8. /\ Ghosts(f, V, r, e, n, Adding(w, c)) /\ Names(f, V, t, P, r, e, n, Adding(w, c))
      /\ e[c][1] = Joined(f, V, t, P, d, c)
      /\ \A x \in Blocks(f) : x # c => e[x] = d[x]
  BY <1>1, <1>6, <1>7, NamesEnter
<1>11. w \subseteq Range(f.order) /\ Range(f.order) \subseteq Blocks(f)
  BY <1>1, SettingFacts, GivenFacts DEF Ghosts
<1>12. \A k \in 1 .. Len(calls) : e[calls[k].block][n[calls[k].block] + 1] = d[calls[k].block][n[calls[k].block] + 1]
  <2>1. \A k \in 1 .. Len(calls) : calls[k].block \in w
    BY <1>1 DEF Stands
  <2> QED
    BY <1>6, <1>8, <1>11, <2>1
<1>13. \A v \in V : Has(P, v, c) => PhiOf(P, v, c) \in Nat
  <2>1. c \in Blocks(f)
    BY <1>6, <1>11
  <2>2. \A v : Has(P, v, c) => PhiOf(P, v, c) \in Ids(P, c)
    BY <1>1, <2>1, SettingFacts
  <2>3. Ids(P, c) \subseteq Later(f) /\ Later(f) \subseteq Nat
    BY <1>1, <2>1, SettingFacts
  <2> QED
    BY <2>2, <2>3
<1>14. \A v \in V : e[c][1][v] = IF Has(P, v, c) THEN PhiOf(P, v, c) ELSE TopOf(s[v])
  <2>1. Level(V, d, n, calls[Len(calls)], s, h[Len(calls)])
    <3>1. Len(calls) \in 1 .. Len(calls)
      BY DEF CallsFor
    <3> QED
      BY <1>3, <3>1 DEF Heights, StackAt
  <2>2. \A v \in V : d[b][End(f, b)][v] = TopOf(s[v])
    BY <1>5, <1>6, <2>1 DEF Level, End
  <2> QED
    BY <1>6, <1>8, <2>2 DEF Joined
<1>15. PICK y : y = Counting(h, Len(calls) + 1, s)
  OBVIOUS
<1>16. Joins(V, P, d, e, n, calls, s, c)
  BY <1>6, <1>12, <1>13, <1>14 DEF Joins
<1>17. y \in History(V) /\ Heights(V, e, n, later, z, y)
  BY <1>3, <1>h, <1>15, <1>16, HeightsEnter
<1>18. Learnt(f, P, e, n, Adding(w, c), g)
  <2>1. \A q \in w : q \in Adding(w, c) /\ e[q] = d[q]
    BY <1>6, <1>8, <1>11 DEF Adding
  <2> QED
    BY <1>2, <2>1 DEF Learnt
<1>19. Certified(f, V, t, P, r, e, n, Adding(w, c), y, g, z, later)
  BY <1>1, <1>2, <1>4, <1>6, <1>8, <1>17, <1>18 DEF Certified
<1> QED
  BY <1>19

LEMMA CertifiedReturn ==
  ASSUME NEW f, NEW V, NEW t, NEW P, NEW r, NEW d, NEW n, NEW w, NEW h, NEW g, NEW s, NEW calls,
         Certified(f, V, t, P, r, d, n, w, h, g, s, calls),
         NEW z, NEW later, Returns(f, V, t, s, calls, z, later)
  PROVE  Certified(f, V, t, P, r, d, n, w, h, g, z, later)
<1>1. /\ Setting(f, V, t, P) /\ Ghosts(f, V, r, d, n, w) /\ Names(f, V, t, P, r, d, n, w)
      /\ Stands(f, V, n, w, calls) /\ Tours(f, t, w, calls)
  BY DEF Certified
<1>2. Lists(f, V, n, g) /\ Learnt(f, P, d, n, w, g)
  BY DEF Certified
<1>3. Heights(V, d, n, calls, s, h)
  BY DEF Certified
<1>4. Rewritten(f, r, g)
  BY DEF Certified
<1>h. h \in History(V)
  BY DEF Certified
<1>5. f \in Functions /\ Tree(f, t) /\ w \subseteq Range(f.order)
  BY <1>1, SettingFacts DEF Ghosts
<1>6. PICK top : top = calls[Len(calls)]
  OBVIOUS
<1>7. top.block \in w /\ top.block \in Range(f.order)
  BY <1>1, <1>5, <1>6 DEF Stands, Returns
<1>8. Tours(f, t, w, later) /\ top.child # 0
  BY <1>1, <1>5, <1>6, <1>7, ToursReturn
<1>9. Stands(f, V, n, w, later)
  BY <1>1, <1>6, <1>8, StandsReturn
<1>10. Heights(V, d, n, later, z, h)
  BY <1>3, <1>h, HeightsReturn
<1> QED
  BY <1>1, <1>2, <1>4, <1>h, <1>8, <1>9, <1>10 DEF Certified

-----------------------------------------------------------------------------
\* What rename starts with: the function has got its phis, and the call for the
\* entry has pushed those of the entry.
Starts(f, V, P, g, calls, z) ==
  /\ \A b \in Blocks(f) : Ins(g, b) = Ins(f, b)
  /\ \A i \in Instrs(f) : g.code[i] = f.code[i] /\ g.users[i] = f.users[i]
  /\ \A b \in Range(f.order) : \A p \in Range(P[b]) :
       /\ p[2] \in Instrs(g) /\ IsPhi(g, p[2])
       /\ g.code[p[2]].args = <<>> /\ g.code[p[2]].inc = <<>>
  /\ Len(calls) = 1 /\ calls[1].block = f.entry /\ calls[1].next = 1 /\ calls[1].child = 0
  /\ calls[1].pushed = [v \in V |-> IF Has(P, v, f.entry) THEN 1 ELSE 0]
  /\ z = PhisPushed(V, P, [v \in V |-> <<>>], f.entry)

LEMMA CertifiedStart ==
  ASSUME NEW f, NEW V, NEW t, NEW P, Setting(f, V, t, P), NEW g, NEW calls, NEW z,
         Starts(f, V, P, g, calls, z)
  PROVE  \E r, d, n, w, h : Certified(f, V, t, P, r, d, n, w, h, g, z, calls)
<1>1. f \in Functions /\ Tree(f, t)
  BY SettingFacts
<1>2. PICK c : c = f.entry
  OBVIOUS
<1>3. /\ Range(f.order) \subseteq Blocks(f) /\ c \in Range(f.order) /\ c \in Blocks(f)
      /\ \A b \in Blocks(f) : Ins(f, b) \in Seq(Instrs(f)) /\ Len(Ins(f, b)) \in Nat
  <2>1. /\ Range(f.order) \subseteq Blocks(f)
        /\ \A b \in Blocks(f) : Ins(f, b) \in Seq(Instrs(f)) /\ Len(Ins(f, b)) \in Nat
    BY <1>1, GivenFacts
  <2>2. Held(f, t) = Range(f.order) /\ GraphHere(f) /\ IsTree(f, t)
    BY <1>1 DEF Tree, Fixed
  <2>3. c \in Range(f.order)
    BY <1>2, <2>2, HeldFacts
  <2> QED
    BY <2>1, <2>3
<1>4. PICK r : r = [i \in Nat |-> i]
  OBVIOUS
<1>5. PICK d : d = [b \in Blocks(f) |-> [k \in Nat |-> [v \in V |-> 0]]]
  OBVIOUS
<1>6. PICK n : n = [b \in Blocks(f) |-> 0]
  OBVIOUS
<1>7. Ghosts(f, V, r, d, n, {})
  BY <1>3, <1>4, <1>5, <1>6 DEF Ghosts
<1>8. Names(f, V, t, P, r, d, n, {})
  BY <1>4 DEF Names
<1>9. c \notin {} /\ n[c] = 0 /\ Above(f, t, c) \subseteq Full(f, n, {})
  <2>1. Above(f, t, c) = {}
    BY <1>1, <1>2, <1>3, AboveFacts
  <2> QED
    BY <1>3, <1>6, <2>1
<1>10. PICK e : e = Entering(f, V, t, P, d, c)
  OBVIOUS
<1>11. PICK w : w = Adding({}, c)
  OBVIOUS
<1>12. /\ Ghosts(f, V, r, e, n, w) /\ Names(f, V, t, P, r, e, n, w)
       /\ e[c][1] = Joined(f, V, t, P, d, c)
  BY <1>3, <1>7, <1>8, <1>9, <1>10, <1>11, NamesEnter
<1>13. w = {f.entry}
  BY <1>2, <1>11 DEF Adding
<1>14. /\ Len(calls) = 1 /\ calls[1].block = c /\ calls[1].next = 1 /\ calls[1].child = 0
       /\ calls[1].pushed = [v \in V |-> IF Has(P, v, c) THEN 1 ELSE 0]
       /\ z = PhisPushed(V, P, [v \in V |-> <<>>], c)
  BY <1>2 DEF Starts
<1>15. Stands(f, V, n, w, calls)
  <2>1. Len(Left(f, V, c, 0)) = 0
    BY LeftNone
  <2>2. \A b \in Range(f.order) : n[b] = 0
    BY <1>3, <1>6
  <2>3. \A k \in 1 .. Len(calls) : k = 1 /\ k = Len(calls)
    BY <1>14
  <2>4. \A b \in w : b = c
    BY <1>2, <1>13
  <2> QED
    BY <1>2, <1>3, <1>13, <1>14, <2>1, <2>2, <2>3, <2>4 DEF Stands
<1>16. Tours(f, t, w, calls)
  BY <1>1, <1>2, <1>13, <1>14, ToursStart
<1>17. PICK s : s = [v \in V |-> <<>>]
  OBVIOUS
<1>18. PICK h : h = [k \in Nat |-> s]
  OBVIOUS
<1>19. h \in History(V)
  <2>1. s \in [V -> Seq(Nat)]
    BY <1>17
  <2> QED
    BY <1>18, <2>1 DEF History
<1>20. Heights(V, e, n, calls, z, h)
  <2>1. ASSUME NEW v \in V
        PROVE  /\ e[c][n[c] + 1][v] = TopOf(z[v]) /\ calls[1].pushed[v] <= Len(z[v])
               /\ Popped(z[v], calls[1].pushed[v]) = h[1][v]
    <3>1. h[1][v] = <<>> /\ s[v] = <<>>
      BY <1>17, <1>18
    <3>2. n[c] + 1 = 1
      BY <1>9
    <3>3. TopOf(<<>>) = 0 /\ Popped(<<>>, 0) = <<>> /\ Len(<<>>) = 0
      BY DEF TopOf, Popped
    <3>4. CASE Has(P, v, c)
      <4>1. PICK x : x = PhiOf(P, v, c)
        OBVIOUS
      <4>2. e[c][1][v] = x /\ calls[1].pushed[v] = 1 /\ z[v] = Append(<<>>, x)
        BY <1>12, <1>14, <3>4, <4>1 DEF Joined, PhisPushed
      <4>3. /\ TopOf(Append(<<>>, x)) = x /\ 0 + 1 <= Len(Append(<<>>, x))
            /\ Popped(Append(<<>>, x), 0 + 1) = Popped(<<>>, 0)
        <5>1. <<>> \in Seq({x}) /\ x \in {x} /\ 0 \in Nat /\ 0 <= Len(<<>>)
          OBVIOUS
        <5> QED
          BY <5>1, PushedFacts
      <4> QED
        BY <3>1, <3>2, <3>3, <4>2, <4>3
    <3>5. CASE ~Has(P, v, c)
      <4>1. e[c][1][v] = 0 /\ calls[1].pushed[v] = 0 /\ z[v] = <<>>
        BY <1>2, <1>12, <1>14, <3>5 DEF Joined, PhisPushed
      <4> QED
        BY <3>1, <3>2, <3>3, <4>1
    <3> QED
      BY <3>4, <3>5
  <2>2. \A k \in 1 .. Len(calls) : k = 1 /\ k = Len(calls)
    BY <1>14
  <2>3. Level(V, e, n, calls[1], z, h[1])
    BY <1>14, <2>1 DEF Level
  <2> QED
    BY <2>2, <2>3 DEF Heights, StackAt
<1>21. Lists(f, V, n, g)
  <2> SUFFICES ASSUME NEW b \in Range(f.order)
               PROVE  Ins(g, b) = Left(f, V, b, n[b]) \o Rest(f, b, n[b])
    BY DEF Lists
  <2>1. b \in Blocks(f) /\ n[b] = 0 /\ Ins(g, b) = Ins(f, b)
    BY <1>3, <1>6 DEF Starts
  <2>2. PICK list : list = Ins(f, b)
    OBVIOUS
  <2>3. list \in Seq(Instrs(f))
    BY <1>3, <2>1, <2>2
  <2>4. SubSeq(list, 0 + 1, Len(list)) = list /\ SubSeq(list, 1, 0) = <<>> /\ <<>> \o list = list
    BY <2>3
  <2>5. Left(f, V, b, 0) = <<>> /\ Rest(f, b, 0) = list
    BY <2>2, <2>4, FilteredEmpty DEF Left, Rest
  <2> QED
    BY <2>1, <2>2, <2>4, <2>5
<1>22. Rewritten(f, r, g)
  <2> SUFFICES ASSUME NEW b \in Range(f.order), NEW u \in Range(Ins(g, b))
               PROVE  Renamed(f, r, u, g.code[u]) /\ \A a \in Range(g.code[u].args) : u \in Range(g.users[a])
    BY DEF Rewritten
  <2>1. b \in Blocks(f) /\ u \in Range(Ins(f, b)) /\ u \in Instrs(f)
    <3>1. b \in Blocks(f) /\ u \in Range(Ins(f, b)) /\ Ins(f, b) \in Seq(Instrs(f))
      BY <1>3 DEF Starts
    <3> QED
      BY <3>1 DEF Range
  <2>2. g.code[u] = f.code[u]
    BY <2>1 DEF Starts
  <2>3. PICK x : x = f.code[u].args
    OBVIOUS
  <2>4. x \in Seq(Instrs(f)) /\ Instrs(f) \subseteq Nat
    BY <1>1, <2>1, <2>3, GivenFacts DEF IsCode
  <2>5. [m \in DOMAIN x |-> r[x[m]]] = x
    <3>1. \A m \in DOMAIN x : r[x[m]] = x[m]
      BY <1>4, <2>4
    <3>2. x = [m \in DOMAIN x |-> x[m]]
      BY <2>4
    <3> QED
      BY <3>1, <3>2
  <2>6. Renamed(f, r, u, g.code[u])
    BY <2>2, <2>3, <2>5 DEF Renamed
  <2>7. ASSUME NEW a \in Range(x) PROVE u \in Range(g.users[a])
    <3>1. a \in Instrs(f)
      BY <2>4, <2>7 DEF Range
    <3>2. u \in Range(f.users[a])
      BY <1>1, <2>1, <2>3, <2>7, GivenFacts DEF UsersComplete, Reads
    <3> QED
      BY <3>1, <3>2 DEF Starts
  <2> QED
    BY <2>2, <2>3, <2>6, <2>7
<1>23. Learnt(f, P, e, n, w, g)
  BY DEF Learnt, Starts
<1>24. Certified(f, V, t, P, r, e, n, w, h, g, z, calls)
  BY <1>12, <1>15, <1>16, <1>19, <1>20, <1>21, <1>22, <1>23 DEF Certified
<1> QED
  BY <1>24

-----------------------------------------------------------------------------
\* The steps of rename as the code takes them.

\* What rename has done to function f so far, as far as it is certified.
Renames(f) ==
  /\ Kin(f, fn)
  /\ \E r, d, n, w, h : Certified(f, Vars, idom, phis, r, d, n, w, h, fn, stacks, frames)

\* What is kept twice is kept.
LEMMA KinKept ==
  ASSUME NEW f, NEW g, NEW h, Kin(f, g), Keeps(g, h),
         \A b \in Blocks(f) : Succ(h, b) = Succ(g, b) /\ Pred(h, b) = Pred(g, b)
  PROVE  Kin(f, h)
<1>1. Keeps(f, g)
  BY DEF Kin
<1>2. /\ h.entry = f.entry /\ h.order = f.order /\ Blocks(h) = Blocks(f)
      /\ Instrs(f) \subseteq Instrs(h) /\ IsFunction(h) /\ Numbered(h)
  BY <1>1 DEF Keeps
<1>3. ASSUME NEW i \in Instrs(f) PROVE SameAccess(f.code[i], h.code[i])
  <2>1. SameAccess(f.code[i], g.code[i]) /\ SameAccess(g.code[i], h.code[i])
    BY <1>1 DEF Keeps
  <2> QED
    BY <2>1 DEF SameAccess
<1>4. ASSUME NEW i \in Instrs(h) \ Instrs(f) PROVE IsPhi(h, i)
  <2>1. CASE i \in Instrs(g)
    <3>1. IsPhi(g, i) /\ SameAccess(g.code[i], h.code[i])
      BY <1>1, <1>4, <2>1 DEF Keeps
    <3> QED
      BY <3>1 DEF IsPhi, SameAccess
  <2>2. CASE i \notin Instrs(g)
    BY <1>4, <2>2 DEF Keeps
  <2> QED
    BY <2>1, <2>2
<1>5. Keeps(f, h)
  BY <1>2, <1>3, <1>4 DEF Keeps
<1>6. \A b \in Blocks(f) : Succ(h, b) = Succ(f, b) /\ Pred(h, b) = Pred(f, b)
  BY DEF Kin
<1> QED
  BY <1>5, <1>6 DEF Kin

\* A step of rename leaves what it goes by as it is.
LEMMA RenamesGoOn ==
  ASSUME NEW f, worklist' = worklist, idom' = idom, phis' = phis, Kin(f, fn'),
         \E r, d, n, w, h : Certified(f, Vars, idom, phis, r, d, n, w, h, fn', stacks', frames')
  PROVE  Renames(f)'
<1>1. Vars' = Vars
  BY DEF Vars
<1> QED
  BY <1>1 DEF Renames

\* What becomes of the last call of rename.
LEMMA CallParts ==
  ASSUME NEW f, NEW V, NEW c \in Calls(f, V)
  PROVE  /\ c.next \in Nat \ {0} /\ c.child \in Nat /\ c.pushed \in [V -> Nat]
         /\ DOMAIN c = {"block", "next", "child", "pushed"}
BY DEF Calls

NextOn(c) == [c EXCEPT !.next = c.next + 1]
ChildOn(c, m) == [c EXCEPT !.child = m]

LEMMA CallGoesOn ==
  ASSUME NEW f, NEW V, NEW c \in Calls(f, V), NEW x, x = NextOn(c)
  PROVE  x \in Calls(f, V) /\ x.block = c.block /\ x.child = c.child
         /\ x.next = c.next + 1 /\ x.pushed = c.pushed
BY DEF Calls, NextOn

LEMMA CallTurns ==
  ASSUME NEW f, NEW V, NEW c \in Calls(f, V), NEW m \in Nat, NEW x, x = ChildOn(c, m)
  PROVE  x \in Calls(f, V) /\ x.block = c.block /\ x.child = m
         /\ x.next = c.next /\ x.pushed = c.pushed
BY DEF Calls, ChildOn

PushedOn(c, v) == [c EXCEPT !.pushed[v] = @ + 1]

LEMMA CallPushes ==
  ASSUME NEW f, NEW V, NEW c \in Calls(f, V), NEW v \in V, NEW x, x = PushedOn(c, v)
  PROVE  x \in Calls(f, V) /\ x.block = c.block /\ x.child = c.child /\ x.next = c.next
<1>1. c.pushed \in [V -> Nat]
  BY DEF Calls
<1>2. [c.pushed EXCEPT ![v] = c.pushed[v] + 1] \in [V -> Nat]
  BY <1>1
<1>3. x = [c EXCEPT !.pushed = [c.pushed EXCEPT ![v] = c.pushed[v] + 1]]
  BY DEF PushedOn
<1> QED
  BY <1>2, <1>3 DEF Calls

\* In the list of calls the last one has become x.
ReplacesLast(C, calls, x, later) ==
  calls \in Seq(C) /\ calls # <<>> /\ x \in C /\ later = Append(Front(calls), x)
Instead(calls, x, later) ==
  /\ Len(later) = Len(calls) /\ Len(calls) \in Nat \ {0} /\ later[Len(calls)] = x
  /\ \A j \in 1 .. Len(calls) : j # Len(calls) => later[j] = calls[j]

LEMMA LastReplaced ==
  ASSUME NEW C, NEW calls, NEW x, NEW later, ReplacesLast(C, calls, x, later)
  PROVE  Instead(calls, x, later)
<1>1. calls \in Seq(C) /\ calls # <<>> /\ x \in C /\ later = Append(Front(calls), x)
  BY DEF ReplacesLast
<1>2. Len(calls) \in Nat \ {0}
  BY <1>1, FrontFacts
<1> QED
  BY <1>1, <1>2, GoesOn DEF Instead

LEMMA RenamesKeepInstr ==
  ASSUME NEW f, TypeInv, Renames(f), KeepInstr
  PROVE  Renames(f)'
<1>1. Kin(f, fn)
  BY DEF Renames
<1>2. PICK r, d, n, w, h : Certified(f, Vars, idom, phis, r, d, n, w, h, fn, stacks, frames)
  BY DEF Renames
<1>3. PICK V, t, P, g, s, calls : V = Vars /\ t = idom /\ P = phis /\ g = fn /\ s = stacks /\ calls = frames
  OBVIOUS
<1>4. PICK x : x = NextOn(Top)
  OBVIOUS
<1>5. PICK b : b = Top.block
  OBVIOUS
<1>6. /\ pc = "rename" /\ Top.next <= Len(Body) /\ ~IsMemory(Body[Top.next])
      /\ fn' = fn /\ idom' = idom /\ worklist' = worklist /\ phis' = phis /\ stacks' = stacks
      /\ frames' = Append(Front(frames), x)
  BY <1>4 DEF KeepInstr, InBody, InCall, SetCall, NextOn
<1>7. /\ f \in Functions /\ Len(frames) \in Nat \ {0} /\ frames # <<>> /\ Top = frames[Len(frames)]
      /\ frames \in Seq(Calls(fn, Vars)) /\ Top \in Calls(fn, Vars)
      /\ b \in w /\ b \in Blocks(f) /\ n[b] \in Nat /\ Top.next = Len(Left(f, Vars, b, n[b])) + 1
      /\ n[b] < Len(Ins(f, b)) /\ Body[Top.next] = Ins(f, b)[n[b] + 1]
      /\ \A i \in Instrs(f) : IsMemory(i) <=> i \notin Kept(f, Vars)
      /\ Top.next \in Nat
  BY <1>1, <1>2, <1>5, <1>6, RenamePlace
<1>8. PICK k : k = n[b] + 1
  OBVIOUS
<1>9. Ins(f, b)[k] \in Instrs(f) /\ Ins(f, b)[k] \in Kept(f, Vars)
  <2>1. k \in 1 .. Len(Ins(f, b))
    <3>1. Len(Ins(f, b)) \in Nat
      BY <1>7, GivenFacts
    <3> QED
      BY <1>7, <1>8, <3>1
  <2>2. Ins(f, b)[k] \in Instrs(f)
    BY <1>7, <2>1, PlaceFacts
  <2> QED
    BY <1>6, <1>7, <1>8, <2>2
<1>10. x \in Calls(fn, Vars) /\ x.block = Top.block /\ x.child = Top.child /\ x.next = Top.next + 1
       /\ x.pushed = Top.pushed
  BY <1>4, <1>7, CallGoesOn
<1>11. x.next = Len(Left(f, Vars, b, k)) + 1
  <2>1. Left(f, Vars, b, k) = Append(Left(f, Vars, b, n[b]), Ins(f, b)[k])
        /\ Left(f, Vars, b, n[b]) \in Seq(Instrs(f))
    BY <1>7, <1>8, <1>9, LeftFacts
  <2>2. Len(Left(f, Vars, b, k)) = Len(Left(f, Vars, b, n[b])) + 1
    BY <1>9, <2>1
  <2> QED
    BY <1>7, <1>10, <2>2
<1>12. Last(frames) = Top
  BY DEF Top
<1>13. Instead(frames, x, frames')
  <2>1. PICK C : C = Calls(fn, Vars)
    OBVIOUS
  <2>2. ReplacesLast(C, frames, x, frames')
    BY <1>6, <1>7, <1>10, <2>1 DEF ReplacesLast
  <2> QED
    BY <2>2, LastReplaced
<1>14. SamePushes(frames, frames') /\ Onward(f, Vars, b, k, frames, frames')
  BY <1>7, <1>10, <1>11, <1>13 DEF SamePushes, Onward, Instead
<1>15. PICK later : later = frames'
  OBVIOUS
<1>16. \E q, e, m, u, z : Certified(f, V, t, P, q, e, m, u, z, g, s, later)
  <2>1. Certified(f, V, t, P, r, d, n, w, h, g, s, calls)
    BY <1>2, <1>3
  <2>2. Onward(f, V, b, k, calls, later) /\ SamePushes(calls, later)
    BY <1>3, <1>14, <1>15
  <2>3. Len(calls) \in Nat \ {0} /\ Ins(f, b)[k] \in Kept(f, V)
    BY <1>3, <1>7, <1>9
  <2> QED
    BY <1>7, <1>8, <2>1, <2>2, <2>3, CertifiedKeep
<1>17. \E q, e, m, u, z : Certified(f, Vars, idom, phis, q, e, m, u, z, fn', stacks', frames')
  BY <1>3, <1>6, <1>15, <1>16
<1> QED
  BY <1>1, <1>6, <1>17, RenamesGoOn

-----------------------------------------------------------------------------
\* The edges stay when an instruction is taken out.
LEMMA EdgesWithout ==
  ASSUME NEW f, CodeFits(f), NEW b \in Blocks(f), NEW i, NEW g, g = WithoutInstr(f, b, i)
  PROVE  \A c \in Blocks(f) : Succ(g, c) = Succ(f, c) /\ Pred(g, c) = Pred(f, c)
<1>1. IsRecord(f) /\ f.block \in [Blocks(f) -> BlocksOf(Blocks(f), Instrs(f))]
  BY CodeParts
<1>2. g.block = [f.block EXCEPT ![b].ins = Filtered(f.block[b].ins, Instrs(f) \ {i})]
  BY <1>1 DEF WithoutInstr, IsRecord
<1>3. f.block[b] \in [ins : Seq(Instrs(f)), succ : Seq(Blocks(f)), pred : Seq(Blocks(f))]
  BY <1>1 DEF BlocksOf
<1>4. g.block[b].succ = f.block[b].succ /\ g.block[b].pred = f.block[b].pred
  BY <1>1, <1>2, <1>3
<1>5. \A c \in Blocks(f) : c # b => g.block[c] = f.block[c]
  BY <1>1, <1>2
<1> QED
  BY <1>4, <1>5 DEF Succ, Pred

\* What the steps that take an instruction out have in common: i is the
\* instruction at place k of block b.
ComesTo(f, n, b, k, i) == b = Top.block /\ k = n[b] + 1 /\ i = Body[Top.next]

LEMMA RenamesDrop ==
  ASSUME NEW f, TypeInv, InBody, IsMemory(Body[Top.next]), Kin(f, fn),
         NEW r, NEW d, NEW n, NEW w, NEW h,
         Certified(f, Vars, idom, phis, r, d, n, w, h, fn, stacks, frames),
         NEW b, NEW k, NEW i, ComesTo(f, n, b, k, i), NEW u, u = WithoutInstr(fn, b, i)
  PROVE  /\ TakesOut(f, Vars, n, w, b, k, i, fn, u) /\ Kin(f, u)
         /\ i \in Instrs(f) /\ i = Ins(f, b)[k] /\ i \in Range(Ins(fn, b))
         /\ Len(frames) \in Nat \ {0} /\ frames # <<>> /\ Top = frames[Len(frames)]
         /\ frames \in Seq(Calls(fn, Vars)) /\ Top \in Calls(fn, Vars)
         /\ stacks \in [Vars -> Seq(Nat)]
         /\ Len(Left(f, Vars, b, k)) + 1 = Top.next
         /\ Onward(f, Vars, b, k, frames, frames) /\ SamePushes(frames, frames)
<1>1. b = Top.block /\ k = n[b] + 1 /\ i = Body[Top.next]
  BY DEF ComesTo
<1>2. pc = "rename" /\ Top.next <= Len(Body)
  BY DEF InBody, InCall
<1>3. /\ f \in Functions /\ CodeFits(f) /\ CodeFits(fn)
      /\ Len(frames) \in Nat \ {0} /\ frames # <<>> /\ Top = frames[Len(frames)]
      /\ frames \in Seq(Calls(fn, Vars)) /\ Top \in Calls(fn, Vars)
      /\ Blocks(fn) = Blocks(f) /\ Instrs(f) \subseteq Instrs(fn)
      /\ b \in w /\ b \in Blocks(f) /\ b \in Range(f.order)
      /\ n[b] \in Nat /\ Len(Ins(f, b)) \in Nat
      /\ Top.next = Len(Left(f, Vars, b, n[b])) + 1
      /\ n[b] < Len(Ins(f, b)) /\ i = Ins(f, b)[n[b] + 1]
      /\ \A j \in Instrs(f) : IsMemory(j) <=> j \notin Kept(f, Vars)
      /\ stacks \in [Vars -> Seq(Nat)]
  BY <1>1, <1>2, RenamePlace
<1>4. k \in 1 .. Len(Ins(f, b)) /\ i = Ins(f, b)[k]
  BY <1>1, <1>3
<1>5. i \in Instrs(f) /\ i \notin Kept(f, Vars)
  <2>1. i \in Instrs(f)
    BY <1>3, <1>4, PlaceFacts
  <2> QED
    BY <1>1, <1>3, <2>1
<1>6. Keeps(fn, u)
  BY <1>1, DropFacts
<1>7. Kin(f, u)
  <2>1. \A c \in Blocks(f) : Succ(u, c) = Succ(fn, c) /\ Pred(u, c) = Pred(fn, c)
    BY <1>3, EdgesWithout
  <2> QED
    BY <1>6, <2>1, KinKept
<1>8. TakesOut(f, Vars, n, w, b, k, i, fn, u)
  <2>1. Ghosts(f, Vars, r, d, n, w)
    BY DEF Certified
  <2>2. /\ n \in [Blocks(f) -> Nat] /\ w \subseteq Range(f.order)
        /\ \A c \in Range(f.order) : n[c] <= Len(Ins(f, c))
    BY <2>1 DEF Ghosts
  <2> QED
    BY <1>1, <1>3, <1>4, <1>5, <2>2 DEF TakesOut
<1>9. Left(f, Vars, b, k) = Left(f, Vars, b, n[b]) /\ i \in Range(Ins(fn, b))
  <2>1. Lists(f, Vars, n, fn)
    BY DEF Certified
  <2> QED
    BY <1>8, <2>1, TakenOut
<1>10. Len(Left(f, Vars, b, k)) + 1 = Top.next
  BY <1>3, <1>9
<1>11. Onward(f, Vars, b, k, frames, frames)
  BY <1>3, <1>10 DEF Onward
<1>12. SamePushes(frames, frames)
  BY DEF SamePushes
<1> QED
  BY <1>3, <1>4, <1>5, <1>7, <1>8, <1>9, <1>10, <1>11, <1>12

LEMMA RenamesDropAlloca ==
  ASSUME NEW f, TypeInv, Renames(f), DropAlloca
  PROVE  Renames(f)'
<1>1. Kin(f, fn)
  BY DEF Renames
<1>2. PICK r, d, n, w, h : Certified(f, Vars, idom, phis, r, d, n, w, h, fn, stacks, frames)
  BY DEF Renames
<1>3. PICK V, t, P, g, s, calls : V = Vars /\ t = idom /\ P = phis /\ g = fn /\ s = stacks /\ calls = frames
  OBVIOUS
<1>4. PICK b, i : b = Top.block /\ i = Body[Top.next]
  OBVIOUS
<1>5. PICK k : k = n[b] + 1
  OBVIOUS
<1>6. PICK u : u = WithoutInstr(fn, b, i)
  OBVIOUS
<1>7. /\ InBody /\ fn.code[i].op = "alloca" /\ fn' = u
      /\ idom' = idom /\ worklist' = worklist /\ phis' = phis /\ stacks' = stacks /\ frames' = frames
  BY <1>4, <1>6 DEF DropAlloca
<1>8. ComesTo(f, n, b, k, i) /\ IsMemory(Body[Top.next])
  BY <1>4, <1>5, <1>7 DEF ComesTo, IsMemory
<1>9. /\ TakesOut(f, Vars, n, w, b, k, i, fn, u) /\ Kin(f, u)
      /\ i \in Instrs(f) /\ i = Ins(f, b)[k] /\ Len(frames) \in Nat \ {0}
      /\ Onward(f, Vars, b, k, frames, frames) /\ SamePushes(frames, frames)
  BY <1>1, <1>2, <1>6, <1>7, <1>8, RenamesDrop
<1>10. f.code[i].op = "alloca"
  <2>1. SameAccess(f.code[i], fn.code[i])
    BY <1>1, <1>9 DEF Kin, Keeps
  <2> QED
    BY <1>7, <2>1 DEF SameAccess
<1>11. NameOf(f, V, d, b, k) = i /\ ~IsStore(f, V, i)
  BY <1>9, <1>10 DEF NameOf, IsLoad, IsStore
<1>12. \E q, e, m, o, z : Certified(f, V, t, P, q, e, m, o, z, u, s, calls)
  <2>1. Certified(f, V, t, P, r, d, n, w, h, g, s, calls)
    BY <1>2, <1>3
  <2>2. Onward(f, V, b, k, calls, calls) /\ SamePushes(calls, calls)
    BY <1>3, <1>9
  <2>3. Len(calls) \in Nat \ {0} /\ TakesOut(f, V, n, w, b, k, i, g, u)
    BY <1>3, <1>9
  <2> QED
    BY <1>11, <2>1, <2>2, <2>3, CertifiedOut
<1>13. \E q, e, m, o, z : Certified(f, Vars, idom, phis, q, e, m, o, z, fn', stacks', frames')
  BY <1>3, <1>7, <1>12
<1>14. Kin(f, fn')
  BY <1>7, <1>9
<1> QED
  BY <1>7, <1>13, <1>14, RenamesGoOn

-----------------------------------------------------------------------------
\* The operands of the access that rename has come to.
LEMMA AccessRenamed ==
  ASSUME NEW f \in Functions, NEW r, NEW g, Rewritten(f, r, g), Kin(f, g),
         NEW b \in Range(f.order), NEW i \in Instrs(f), i \in Range(Ins(g, b)),
         g.code[i].op \in {"load", "store"}
  PROVE  /\ f.code[i].op = g.code[i].op /\ g.code[i].args[1] = f.code[i].args[1]
         /\ g.code[i].op = "store" => g.code[i].args[2] = r[f.code[i].args[2]]
                                      /\ f.code[i].args[2] \in Instrs(f)
<1>1. SameAccess(f.code[i], g.code[i])
  BY DEF Kin, Keeps
<1>2. f.code[i].op = g.code[i].op /\ g.code[i].args[1] = f.code[i].args[1]
  BY <1>1 DEF SameAccess
<1>3. ASSUME g.code[i].op = "store"
      PROVE  g.code[i].args[2] = r[f.code[i].args[2]] /\ f.code[i].args[2] \in Instrs(f)
  <2>1. g.code[i].args = [m \in DOMAIN f.code[i].args |-> r[f.code[i].args[m]]]
    BY DEF Rewritten, Renamed
  <2>2. f.code[i].args \in Seq(Instrs(f)) /\ Len(f.code[i].args) = 2
    BY <1>2, <1>3, GivenFacts DEF IsCode, MatchesOpcode
  <2>3. 2 \in DOMAIN f.code[i].args
    BY <2>2
  <2> QED
    BY <2>1, <2>2, <2>3
<1> QED
  BY <1>2, <1>3

LEMMA RenamesDropStore ==
  ASSUME NEW f, TypeInv, Renames(f), DropStore
  PROVE  Renames(f)'
<1>1. Kin(f, fn)
  BY DEF Renames
<1>2. PICK r, d, n, w, h : Certified(f, Vars, idom, phis, r, d, n, w, h, fn, stacks, frames)
  BY DEF Renames
<1>3. PICK V, t, P, g, s, calls : V = Vars /\ t = idom /\ P = phis /\ g = fn /\ s = stacks /\ calls = frames
  OBVIOUS
<1>4. PICK b, i : b = Top.block /\ i = Body[Top.next]
  OBVIOUS
<1>5. PICK k : k = n[b] + 1
  OBVIOUS
<1>6. PICK u : u = WithoutInstr(fn, b, i)
  OBVIOUS
<1>7. PICK v, x : v = fn.code[i].args[1] /\ x = fn.code[i].args[2]
  OBVIOUS
<1>25. PICK c : c = PushedOn(Top, v)
  OBVIOUS
<1>8. /\ InBody /\ IsMemory(i) /\ fn.code[i].op = "store" /\ fn' = u
      /\ idom' = idom /\ worklist' = worklist /\ phis' = phis
      /\ stacks' = Pushed(stacks, v, x) /\ frames' = Append(Front(frames), c)
  BY <1>4, <1>6, <1>7, <1>25 DEF DropStore, SetCall, Pushed, PushedOn
<1>9. ComesTo(f, n, b, k, i) /\ IsMemory(Body[Top.next])
  BY <1>4, <1>5, <1>8 DEF ComesTo
<1>10. /\ TakesOut(f, Vars, n, w, b, k, i, fn, u) /\ Kin(f, u)
      /\ i \in Instrs(f) /\ i = Ins(f, b)[k] /\ i \in Range(Ins(fn, b))
      /\ Len(frames) \in Nat \ {0} /\ frames # <<>> /\ Top = frames[Len(frames)]
      /\ frames \in Seq(Calls(fn, Vars)) /\ Top \in Calls(fn, Vars)
      /\ stacks \in [Vars -> Seq(Nat)]
      /\ Len(Left(f, Vars, b, k)) + 1 = Top.next
  BY <1>1, <1>2, <1>6, <1>8, <1>9, RenamesDrop
<1>11. f \in Functions /\ b \in Range(f.order)
  BY <1>10 DEF TakesOut
<1>12. f.code[i].op = "store" /\ v = f.code[i].args[1] /\ x = r[f.code[i].args[2]]
       /\ f.code[i].args[2] \in Instrs(f)
  <2>1. Rewritten(f, r, fn)
    BY <1>2 DEF Certified
  <2>3. /\ f \in Functions /\ Rewritten(f, r, g) /\ Kin(f, g) /\ b \in Range(f.order)
        /\ i \in Instrs(f) /\ i \in Range(Ins(g, b)) /\ g.code[i].op = "store"
    BY <1>1, <1>3, <1>8, <1>10, <1>11, <2>1
  <2>4. /\ f.code[i].op = g.code[i].op /\ g.code[i].args[1] = f.code[i].args[1]
        /\ g.code[i].args[2] = r[f.code[i].args[2]] /\ f.code[i].args[2] \in Instrs(f)
    BY ONLY <2>3, AccessRenamed
  <2> QED
    BY <1>3, <1>7, <2>3, <2>4
<1>13. v \in V
  BY <1>3, <1>7, <1>8 DEF IsMemory
<1>14. x \in Nat
  <2>1. r \in [Nat -> Nat] /\ f.code[i].args[2] \in Nat
    BY <1>2, <1>11, <1>12, GivenFacts DEF Certified, Ghosts
  <2> QED
    BY <1>12, <2>1
<1>15. PICK z : z = Pushed(s, v, x)
  OBVIOUS
<1>16. Stores(f, V, r, i, v, x, s, z)
  <2>1. IsStore(f, V, i)
    BY <1>12, <1>13 DEF IsStore
  <2> QED
    BY <1>3, <1>10, <1>12, <1>14, <1>15, <2>1 DEF Stores
<1>17. c \in Calls(fn, Vars) /\ c.block = Top.block /\ c.child = Top.child /\ c.next = Top.next
       /\ DOMAIN Top = {"block", "next", "child", "pushed"} /\ Top.pushed \in [Vars -> Nat]
  <2>1. v \in Vars
    BY <1>3, <1>13
  <2>2. c \in Calls(fn, Vars) /\ c.block = Top.block /\ c.child = Top.child /\ c.next = Top.next
    BY <1>10, <1>25, <2>1, CallPushes
  <2>3. DOMAIN Top = {"block", "next", "child", "pushed"} /\ Top.pushed \in [Vars -> Nat]
    BY <1>10, CallParts
  <2> QED
    BY <2>2, <2>3
<1>18. Instead(frames, c, frames')
  <2>1. PICK C : C = Calls(fn, Vars)
    OBVIOUS
  <2>2. ReplacesLast(C, frames, c, frames')
    BY <1>8, <1>10, <1>17, <2>1 DEF ReplacesLast
  <2> QED
    BY <2>2, LastReplaced
<1>19. PICK later : later = frames'
  OBVIOUS
<1>20. Onward(f, V, b, k, calls, later)
  BY <1>3, <1>10, <1>17, <1>18, <1>19 DEF Onward, Instead
<1>21. Pushes(V, calls, later, v)
  BY <1>3, <1>10, <1>13, <1>17, <1>18, <1>19, <1>25 DEF Pushes, Instead, PushedOn
<1>22. \E q, e, m, o, y : Certified(f, V, t, P, q, e, m, o, y, u, z, later)
  <2>1. Certified(f, V, t, P, r, d, n, w, h, g, s, calls)
    BY <1>2, <1>3
  <2>2. Len(calls) \in Nat \ {0} /\ TakesOut(f, V, n, w, b, k, i, g, u)
    BY <1>3, <1>10
  <2> QED
    BY <1>16, <1>20, <1>21, <2>1, <2>2, CertifiedStore
<1>23. \E q, e, m, o, y : Certified(f, Vars, idom, phis, q, e, m, o, y, fn', stacks', frames')
  BY <1>3, <1>8, <1>15, <1>19, <1>22
<1>24. Kin(f, fn')
  BY <1>8, <1>10
<1> QED
  BY <1>8, <1>23, <1>24, RenamesGoOn

\* What is on top of the stack of a variable that is loaded.
LEMMA TopOfStack ==
  ASSUME NEW V, NEW d, NEW n, NEW calls, NEW s, NEW h, Heights(V, d, n, calls, s, h),
         NEW N \in Nat \ {0}, N = Len(calls), NEW b, b = calls[N].block, NEW k, k = n[b] + 1, NEW v \in V
  PROVE  d[b][k][v] = TopOf(s[v])
<1>1. N \in 1 .. N
  OBVIOUS
<1>2. Level(V, d, n, calls[N], StackAt(N, s, h, N), h[N])
  BY <1>1 DEF Heights
<1>3. Level(V, d, n, calls[N], s, h[N])
  BY <1>2 DEF StackAt
<1> QED
  BY <1>3 DEF Level

LEMMA RenamesDropLoad ==
  ASSUME NEW f, TypeInv, Renames(f), DropLoad
  PROVE  Renames(f)'
<1>1. Kin(f, fn)
  BY DEF Renames
<1>2. PICK r, d, n, w, h : Certified(f, Vars, idom, phis, r, d, n, w, h, fn, stacks, frames)
  BY DEF Renames
<1>3. PICK V, t, P, g, s, calls : V = Vars /\ t = idom /\ P = phis /\ g = fn /\ s = stacks /\ calls = frames
  OBVIOUS
<1>4. PICK b, i : b = Top.block /\ i = Body[Top.next]
  OBVIOUS
<1>5. PICK k : k = n[b] + 1
  OBVIOUS
<1>6. PICK u : u = WithoutInstr(fn, b, i)
  OBVIOUS
<1>7. PICK v : v = fn.code[i].args[1]
  OBVIOUS
<1>8. /\ InBody /\ IsMemory(i) /\ fn.code[i].op = "load"
      /\ idom' = idom /\ worklist' = worklist /\ phis' = phis /\ stacks' = stacks /\ frames' = frames
      /\ fn' = IF stacks[v] = <<>> THEN u ELSE UsesReplaced(u, i, Last(stacks[v]))
  BY <1>4, <1>6, <1>7 DEF DropLoad
<1>9. ComesTo(f, n, b, k, i) /\ IsMemory(Body[Top.next])
  BY <1>4, <1>5, <1>8 DEF ComesTo
<1>10. /\ TakesOut(f, Vars, n, w, b, k, i, fn, u) /\ Kin(f, u)
      /\ i \in Instrs(f) /\ i = Ins(f, b)[k] /\ i \in Range(Ins(fn, b))
      /\ Len(frames) \in Nat \ {0} /\ Top = frames[Len(frames)]
      /\ stacks \in [Vars -> Seq(Nat)]
      /\ Onward(f, Vars, b, k, frames, frames) /\ SamePushes(frames, frames)
  BY <1>1, <1>2, <1>6, <1>8, <1>9, RenamesDrop
<1>11. f \in Functions /\ b \in Range(f.order)
  BY <1>10 DEF TakesOut
<1>12. f.code[i].op = "load" /\ v = f.code[i].args[1]
  <2>1. Rewritten(f, r, fn)
    BY <1>2 DEF Certified
  <2>3. /\ f \in Functions /\ Rewritten(f, r, g) /\ Kin(f, g) /\ b \in Range(f.order)
        /\ i \in Instrs(f) /\ i \in Range(Ins(g, b)) /\ g.code[i].op = "load"
    BY <1>1, <1>3, <1>8, <1>10, <1>11, <2>1
  <2>4. /\ f.code[i].op = g.code[i].op /\ g.code[i].args[1] = f.code[i].args[1]
    BY ONLY <2>3, AccessRenamed
  <2> QED
    BY <1>3, <1>7, <2>3, <2>4
<1>13. v \in V
  BY <1>3, <1>7, <1>8 DEF IsMemory
<1>14. IsLoad(f, V, i) /\ ~IsStore(f, V, i)
  BY <1>12, <1>13 DEF IsLoad, IsStore
<1>15. d[b][k][v] = TopOf(s[v])
  <2>1. Heights(V, d, n, calls, s, h)
    BY <1>2, <1>3 DEF Certified
  <2>2. Len(calls) \in Nat \ {0} /\ b = calls[Len(calls)].block
    BY <1>3, <1>4, <1>10
  <2> QED
    BY <1>5, <1>13, <2>1, <2>2, TopOfStack
<1>16. Certified(f, V, t, P, r, d, n, w, h, g, s, calls)
  BY <1>2, <1>3
<1>17. Len(calls) \in Nat \ {0} /\ TakesOut(f, V, n, w, b, k, i, g, u)
       /\ Onward(f, V, b, k, calls, calls) /\ SamePushes(calls, calls)
  BY <1>3, <1>10
<1>18. CASE stacks[v] = <<>>
  <2>1. NameOf(f, V, d, b, k) = i
    BY <1>3, <1>10, <1>12, <1>15, <1>18 DEF NameOf, TopOf
  <2>2. \E q, e, m, o, z : Certified(f, V, t, P, q, e, m, o, z, u, s, calls)
    BY <1>14, <1>16, <1>17, <2>1, CertifiedOut
  <2>3. \E q, e, m, o, z : Certified(f, Vars, idom, phis, q, e, m, o, z, fn', stacks', frames')
    BY <1>3, <1>8, <1>18, <2>2
  <2>4. Kin(f, fn')
    BY <1>8, <1>10, <1>18
  <2> QED
    BY <1>8, <2>3, <2>4, RenamesGoOn
<1>19. CASE stacks[v] # <<>>
  <2>1. PICK x, a : x = Last(stacks[v]) /\ a = UsesReplaced(u, i, x)
    OBVIOUS
  <2>2. d[b][k][v] = x
    BY <1>3, <1>15, <1>19, <2>1 DEF TopOf
  <2>3. TypedFor(fn) /\ CodeFits(fn)
    BY <1>10 DEF TypeInv, TypedFor
  <2>4. x \in Instrs(fn) /\ x # 0
    <3>1. x \in Instrs(fn)
      BY <1>3, <1>13, <1>19, <2>1, <2>3, ListsHold
    <3>2. Instrs(fn) = 1 .. Len(fn.code)
      BY <2>3, CodeParts
    <3> QED
      BY <3>1, <3>2
  <2>5. Loads(f, V, d, b, k, i, v, x, g, u, a)
    BY <1>3, <1>12, <1>14, <2>1, <2>2, <2>4 DEF Loads
  <2>6. \E q, e, m, o, z : Certified(f, V, t, P, q, e, m, o, z, a, s, calls)
    BY <1>16, <1>17, <2>5, CertifiedLoad
  <2>7. fn' = a
    BY <1>8, <1>19, <2>1
  <2>8. \E q, e, m, o, z : Certified(f, Vars, idom, phis, q, e, m, o, z, fn', stacks', frames')
    BY <1>3, <1>8, <2>6, <2>7
  <2>9. Kin(f, fn')
    <3>1. Keeps(fn, fn') /\ fn'.block = WithoutInstr(fn, b, i).block
      BY <1>4, LoadFacts
    <3>2. \A c \in Blocks(f) : Succ(fn', c) = Succ(u, c) /\ Pred(fn', c) = Pred(u, c)
      BY <1>6, <3>1 DEF Succ, Pred
    <3>3. \A c \in Blocks(f) : Succ(fn', c) = Succ(fn, c) /\ Pred(fn', c) = Pred(fn, c)
      BY <1>1, <1>10, <3>2 DEF Kin
    <3> QED
      BY <1>1, <3>1, <3>3, KinKept
  <2> QED
    BY <1>8, <2>8, <2>9, RenamesGoOn
<1> QED
  BY <1>18, <1>19

-----------------------------------------------------------------------------
\* The phis of the successors of a block are phis that are listed.
LEMMA WiredAsListed ==
  ASSUME TypeInv, WireSuccessors, NEW f, Kin(f, fn), NEW P, P = phis, NEW b, b = Top.block
  PROVE  \E wanted \in SUBSET UNION {Range(P[c]) : c \in Blocks(f)} : fn' = Wiring(fn, stacks, wanted, b)
<1>1. PICK wanted : wanted = UNION {Range(phis[s]) : s \in Range(Succ(fn, b))}
  OBVIOUS
<1>2. fn' = Wiring(fn, stacks, wanted, b)
  BY <1>1 DEF WireSuccessors, Wiring
<1>3. TypedFor(fn) /\ b \in Blocks(fn) /\ Blocks(fn) = Blocks(f)
  BY TopFacts DEF WireSuccessors, InCall, Kin, Keeps
<1>4. Succ(fn, b) \in Seq(Blocks(fn))
  BY <1>3, FunctionParts DEF TypedFor, CodeFits
<1>5. Range(Succ(fn, b)) \subseteq Blocks(f)
  BY <1>3, <1>4 DEF Range
<1>6. wanted \subseteq UNION {Range(P[c]) : c \in Blocks(f)}
  BY <1>1, <1>5
<1> QED
  BY <1>2, <1>6

LEMMA RenamesWireSuccessors ==
  ASSUME NEW f, TypeInv, Renames(f), WireSuccessors
  PROVE  Renames(f)'
<1>1. Kin(f, fn)
  BY DEF Renames
<1>2. PICK r, d, n, w, h : Certified(f, Vars, idom, phis, r, d, n, w, h, fn, stacks, frames)
  BY DEF Renames
<1>3. PICK V, t, P, g, s, calls : V = Vars /\ t = idom /\ P = phis /\ g = fn /\ s = stacks /\ calls = frames
  OBVIOUS
<1>4. PICK b, x : b = Top.block /\ x = ChildOn(Top, 1)
  OBVIOUS
<1>5. /\ pc = "rename" /\ Top.next > Len(Body) /\ Top.child = 0
      /\ idom' = idom /\ worklist' = worklist /\ phis' = phis /\ stacks' = stacks
      /\ frames' = Append(Front(frames), x)
  BY <1>4 DEF WireSuccessors, InCall, SetCall, ChildOn
<1>6. ~(Top.next <= Len(Body))
  <2>1. Top.next \in Nat /\ Len(Body) \in Nat
    BY <1>5, TopFacts
  <2> QED
    BY <1>5, <2>1
<1>7. /\ f \in Functions /\ CodeFits(fn) /\ Len(frames) \in Nat \ {0} /\ frames # <<>> /\ Top = frames[Len(frames)]
      /\ frames \in Seq(Calls(fn, Vars)) /\ Top \in Calls(fn, Vars)
      /\ Instrs(f) \subseteq Instrs(fn)
      /\ b \in w /\ n[b] = Len(Ins(f, b))
  BY <1>1, <1>2, <1>4, <1>5, <1>6, RenamePlace
<1>8. x \in Calls(fn, Vars) /\ x.block = Top.block /\ x.child = 1 /\ x.next = Top.next /\ x.pushed = Top.pushed
  <2>1. PICK top : top = Top
    OBVIOUS
  <2>2. top \in Calls(fn, Vars) /\ 1 \in Nat /\ x = ChildOn(top, 1)
    BY <1>4, <1>7, <2>1
  <2> QED
    BY <2>1, <2>2, CallTurns
<1>9. Instead(frames, x, frames')
  <2>1. PICK C : C = Calls(fn, Vars)
    OBVIOUS
  <2>2. ReplacesLast(C, frames, x, frames')
    BY <1>5, <1>7, <1>8, <2>1 DEF ReplacesLast
  <2> QED
    BY <2>2, LastReplaced
<1>10. PICK later, u : later = frames' /\ u = fn'
  OBVIOUS
<1>11. WiresOn(calls, later, b)
  BY <1>3, <1>4, <1>5, <1>7, <1>8, <1>9, <1>10 DEF WiresOn, Instead
<1>12. WiresIn(f, V, P, d, n, w, g, s, b, u)
  <2>1. \E wanted \in SUBSET UNION {Range(P[c]) : c \in Blocks(f)} : u = Wiring(g, s, wanted, b)
    BY <1>1, <1>3, <1>4, <1>10, WiredAsListed
  <2>2. ASSUME NEW v \in V PROVE d[b][End(f, b)][v] = TopOf(s[v])
    <3>1. Heights(V, d, n, calls, s, h)
      BY <1>2, <1>3 DEF Certified
    <3>2. Len(calls) \in Nat \ {0} /\ b = calls[Len(calls)].block /\ End(f, b) = n[b] + 1
      BY <1>3, <1>4, <1>7 DEF End
    <3> QED
      BY <3>1, <3>2, TopOfStack
  <2>3. TypedFor(fn)
    BY DEF TypeInv
  <2>4. IsRecord(fn) /\ Instrs(fn) = 1 .. Len(fn.code) /\ \A i \in Instrs(fn) : Shaped(fn.code[i], Blocks(fn), Instrs(fn))
    BY <1>7, CodeParts
  <2>5. \A v \in V : s[v] # <<>> => Last(s[v]) # 0
    <3>1. \A v \in V : s[v] # <<>> => Last(s[v]) \in Instrs(fn)
      BY <1>3, <2>3, ListsHold
    <3> QED
      BY <2>4, <3>1
  <2>6. DOMAIN g = {"entry", "order", "block", "code", "users"}
    BY <1>3, <2>4 DEF IsRecord
  <2>7. \A i \in Instrs(g) : DOMAIN g.code[i] = {"op", "ty", "args", "k", "tgt", "inc", "parent"}
    BY <1>3, <2>4 DEF Shaped
  <2> QED
    BY <1>7, <2>1, <2>2, <2>5, <2>6, <2>7 DEF WiresIn
<1>13. Certified(f, V, t, P, r, d, n, w, h, u, s, later)
  <2>1. Certified(f, V, t, P, r, d, n, w, h, g, s, calls)
    BY <1>2, <1>3
  <2>2. Instrs(f) \subseteq Instrs(g)
    BY <1>3, <1>7
  <2> QED
    BY <1>11, <1>12, <2>1, <2>2, CertifiedWire
<1>14. \E q, e, m, o, y : Certified(f, Vars, idom, phis, q, e, m, o, y, fn', stacks', frames')
  BY <1>3, <1>5, <1>10, <1>13
<1>15. Kin(f, fn')
  <2>1. Keeps(fn, fn') /\ fn'.block = fn.block
    BY WireFacts
  <2>2. \A c \in Blocks(f) : Succ(fn', c) = Succ(fn, c) /\ Pred(fn', c) = Pred(fn, c)
    BY <2>1 DEF Succ, Pred
  <2> QED
    BY <1>1, <2>1, <2>2, KinKept
<1> QED
  BY <1>5, <1>14, <1>15, RenamesGoOn

\* The stacks when the phis of a block have been pushed, and the call for it.
LEMMA EnteredAsListed ==
  ASSUME TypeInv, NEW f, Kin(f, fn), NEW P, P = phis, NEW c \in Blocks(f)
  PROVE  /\ Entered(stacks, c) = PhisPushed(Vars, P, stacks, c)
         /\ Frame(c).block = c /\ Frame(c).next = 1 /\ Frame(c).child = 0
         /\ Frame(c).pushed = [v \in Vars |-> IF Has(P, v, c) THEN 1 ELSE 0]
<1>1. Blocks(fn) = Blocks(f)
  BY DEF Kin, Keeps
<1>2. \A v : c \in HasPhi(v) <=> Has(P, v, c)
  BY <1>1 DEF HasPhi, Has
<1>3. DOMAIN stacks = Vars
  BY DEF TypeInv, TypedFor
<1>4. Entered(stacks, c) = PhisPushed(Vars, P, stacks, c)
  BY <1>2, <1>3 DEF Entered, PhisPushed, PhiOf
<1>5. Frame(c).pushed = [v \in Vars |-> IF Has(P, v, c) THEN 1 ELSE 0]
  BY <1>2 DEF Frame
<1>6. Frame(c).block = c /\ Frame(c).next = 1 /\ Frame(c).child = 0
  BY DEF Frame
<1> QED
  BY <1>4, <1>5, <1>6

LEMMA RenamesRenameChild ==
  ASSUME NEW f, TypeInv, Renames(f), RenameChild
  PROVE  Renames(f)'
<1>1. Kin(f, fn)
  BY DEF Renames
<1>2. PICK r, d, n, w, h : Certified(f, Vars, idom, phis, r, d, n, w, h, fn, stacks, frames)
  BY DEF Renames
<1>3. PICK V, t, P, g, s, calls : V = Vars /\ t = idom /\ P = phis /\ g = fn /\ s = stacks /\ calls = frames
  OBVIOUS
<1>4. PICK c : c = dom_children(Top.block)[Top.child]
  OBVIOUS
<1>5. PICK x, y : x = ChildOn(Top, Top.child + 1) /\ y = Frame(c)
  OBVIOUS
<1>6. /\ pc = "rename" /\ Top.child \in DOMAIN dom_children(Top.block)
      /\ fn' = fn /\ idom' = idom /\ worklist' = worklist /\ phis' = phis
      /\ stacks' = Entered(stacks, c)
      /\ frames' = Append(Append(Front(frames), x), y)
  BY <1>4, <1>5 DEF RenameChild, InCall, ChildOn
<1>7. /\ f \in Functions /\ Len(frames) \in Nat \ {0} /\ frames # <<>> /\ Top = frames[Len(frames)]
      /\ frames \in Seq(Calls(fn, Vars)) /\ Top \in Calls(fn, Vars) /\ Top.child \in Nat
      /\ fn.order = f.order /\ Range(f.order) \subseteq Blocks(f)
      /\ Top.block \in Range(f.order)
      /\ \A e : dom_children(e) = Kids(f, idom, e)
      /\ stacks \in [Vars -> Seq(Nat)]
  BY <1>1, <1>2, <1>6, RenamePlace
<1>8. /\ c = Kids(f, t, Top.block)[Top.child] /\ Top.child \in DOMAIN Kids(f, t, Top.block)
  BY <1>3, <1>4, <1>6, <1>7
<1>9. c \in Range(f.order)
  <2>1. Tree(f, t) /\ NoTwice(f.order)
    BY <1>2, <1>3, <1>7, GivenFacts DEF Certified, Setting
  <2> QED
    BY <1>7, <1>8, <2>1, KidsFacts
<1>10. TypedFor(fn)
  BY DEF TypeInv
<1>11. y \in Calls(fn, Vars) /\ x \in Calls(fn, Vars) /\ x.block = Top.block /\ x.child = Top.child + 1
       /\ x.next = Top.next /\ x.pushed = Top.pushed
  <2>1. y \in Calls(fn, Vars)
    BY <1>5, <1>7, <1>9, <1>10, EnteredFacts
  <2>2. PICK m : m = Top.child + 1
    OBVIOUS
  <2>3. m \in Nat
    BY <1>7, <2>2
  <2>5. x = ChildOn(Top, m)
    BY <1>5, <2>2
  <2>6. Top \in Calls(fn, Vars)
    BY <1>7
  <2>4. x \in Calls(fn, Vars) /\ x.block = Top.block /\ x.child = m /\ x.next = Top.next /\ x.pushed = Top.pushed
    BY <2>3, <2>5, <2>6, CallTurns
  <2> QED
    BY <2>1, <2>2, <2>4
<1>12. /\ Entered(stacks, c) = PhisPushed(Vars, P, stacks, c)
       /\ y.block = c /\ y.next = 1 /\ y.child = 0
       /\ y.pushed = [v \in Vars |-> IF Has(P, v, c) THEN 1 ELSE 0]
  BY <1>1, <1>3, <1>5, <1>7, <1>9, EnteredAsListed
<1>13. PICK later : later = frames'
  OBVIOUS
<1>14. /\ Len(later) = Len(frames) + 1 /\ later[Len(frames)] = x /\ later[Len(frames) + 1] = y
       /\ \A k \in 1 .. Len(frames) : k # Len(frames) => later[k] = frames[k]
  <2>1. PICK C : C = Calls(fn, Vars)
    OBVIOUS
  <2>2. PICK list : list = frames
    OBVIOUS
  <2>3. list \in Seq(C) /\ list # <<>> /\ x \in C /\ y \in C
    BY <1>7, <1>11, <2>1, <2>2
  <2>4. later = Append(Append(Front(list), x), y)
    BY <1>6, <1>13, <2>2
  <2>5. /\ Len(later) = Len(list) + 1 /\ later[Len(list)] = x /\ later[Len(list) + 1] = y
        /\ \A k \in 1 .. Len(list) : k # Len(list) => later[k] = list[k]
    BY ONLY <2>3, <2>4, CallsAnother
  <2> QED
    BY <2>2, <2>5
<1>15. CallsFor(f, V, t, P, calls, later, c)
  BY <1>3, <1>7, <1>8, <1>11, <1>12, <1>14 DEF CallsFor
<1>16. PICK z : z = PhisPushed(V, P, s, c)
  OBVIOUS
<1>17. \E q, e, m, o, a : Certified(f, V, t, P, q, e, m, o, a, g, z, later)
  <2>1. Certified(f, V, t, P, r, d, n, w, h, g, s, calls)
    BY <1>2, <1>3
  <2>2. s \in [V -> Seq(Nat)]
    BY <1>3, <1>7
  <2> QED
    BY <1>15, <1>16, <2>1, <2>2, CertifiedEnter
<1>18. \E q, e, m, o, a : Certified(f, Vars, idom, phis, q, e, m, o, a, fn', stacks', frames')
  BY <1>3, <1>6, <1>12, <1>13, <1>16, <1>17
<1>19. Kin(f, fn')
  BY <1>1, <1>6
<1> QED
  BY <1>6, <1>18, <1>19, RenamesGoOn

LEMMA RenamesReturn ==
  ASSUME NEW f, TypeInv, Renames(f), Return
  PROVE  Renames(f)'
<1>1. Kin(f, fn)
  BY DEF Renames
<1>2. PICK r, d, n, w, h : Certified(f, Vars, idom, phis, r, d, n, w, h, fn, stacks, frames)
  BY DEF Renames
<1>3. PICK V, t, P, g, s, calls : V = Vars /\ t = idom /\ P = phis /\ g = fn /\ s = stacks /\ calls = frames
  OBVIOUS
<1>4. /\ pc = "rename" /\ Top.child > Len(dom_children(Top.block))
      /\ fn' = fn /\ idom' = idom /\ worklist' = worklist /\ phis' = phis
      /\ stacks' = [v \in Vars |-> Popped(stacks[v], Top.pushed[v])]
      /\ frames' = Front(frames)
  BY DEF Return, InCall
<1>5. /\ f \in Functions /\ Len(frames) \in Nat \ {0} /\ frames # <<>> /\ Top = frames[Len(frames)]
      /\ frames \in Seq(Calls(fn, Vars)) /\ Top.child \in Nat
      /\ \A e : dom_children(e) = Kids(f, idom, e)
      /\ stacks \in [Vars -> Seq(Nat)]
  BY <1>1, <1>2, <1>4, RenamePlace
<1>6. PICK later, z : later = frames' /\ z = stacks'
  OBVIOUS
<1>7. Len(later) = Len(frames) - 1 /\ \A k \in 1 .. Len(frames) - 1 : later[k] = frames[k]
  BY <1>4, <1>5, <1>6, FrontFacts
<1>8. Returns(f, V, t, s, calls, z, later)
  BY <1>3, <1>4, <1>5, <1>6, <1>7 DEF Returns
<1>9. Certified(f, V, t, P, r, d, n, w, h, g, z, later)
  <2>1. Certified(f, V, t, P, r, d, n, w, h, g, s, calls)
    BY <1>2, <1>3
  <2> QED
    BY <1>8, <2>1, CertifiedReturn
<1>10. \E q, e, m, o, a : Certified(f, Vars, idom, phis, q, e, m, o, a, fn', stacks', frames')
  BY <1>3, <1>4, <1>6, <1>9
<1>11. Kin(f, fn')
  BY <1>1, <1>4
<1> QED
  BY <1>4, <1>10, <1>11, RenamesGoOn

-----------------------------------------------------------------------------
\* What comes before rename: the phis.

\* The phis that function g has been given, which stand nowhere yet, are those
\* in P; all else of it is as in f.
Prepared(f, V, P, g) ==
  /\ Kin(f, g)
  /\ \A b \in Blocks(f) : Ins(g, b) = Ins(f, b)
  /\ \A i \in Instrs(f) : g.code[i] = f.code[i] /\ g.users[i] = f.users[i]
  /\ P \in [Blocks(f) -> Seq(V \X Later(f))]
  /\ \A b \in Blocks(f) : \A p \in Range(P[b]) :
       /\ p[2] \in Instrs(g) /\ IsPhi(g, p[2])
       /\ g.code[p[2]].args = <<>> /\ g.code[p[2]].inc = <<>>
  /\ OnePhiEach(f, P)

\* Function h is g with a new phi id[b] of variable v for each block b in Y, and
\* Q lists it.
MorePhis(f, V, P, g, v, Y, id, Q, h) ==
  /\ v \in V /\ Y \subseteq Blocks(f)
  /\ Keeps(g, h) /\ h.block = g.block
  /\ \A i \in Instrs(g) : h.code[i] = g.code[i] /\ h.users[i] = g.users[i]
  /\ \A b \in Y : /\ id[b] \in Instrs(h) \ Instrs(g) /\ IsPhi(h, id[b]) /\ id[b] \in Later(f)
                  /\ h.code[id[b]].args = <<>> /\ h.code[id[b]].inc = <<>>
                  /\ ~Has(P, v, b)
  /\ \A b, c \in Y : id[b] = id[c] => b = c
  /\ Q = [b \in Blocks(f) |-> IF b \in Y THEN Append(P[b], <<v, id[b]>>) ELSE P[b]]

LEMMA PreparedMore ==
  ASSUME NEW f, NEW V, NEW P, NEW g, Prepared(f, V, P, g),
         NEW v, NEW Y, NEW id, NEW Q, NEW h, MorePhis(f, V, P, g, v, Y, id, Q, h)
  PROVE  Prepared(f, V, Q, h)
<1>1. /\ Kin(f, g) /\ Keeps(g, h) /\ h.block = g.block /\ v \in V /\ Y \subseteq Blocks(f)
      /\ Instrs(f) \subseteq Instrs(g) /\ Instrs(g) \subseteq Instrs(h)
  BY DEF Prepared, MorePhis, Kin, Keeps
<1>2. Kin(f, h)
  <2>1. \A b \in Blocks(f) : Succ(h, b) = Succ(g, b) /\ Pred(h, b) = Pred(g, b)
    BY <1>1 DEF Succ, Pred
  <2> QED
    BY <1>1, <2>1, KinKept
<1>3. \A b \in Blocks(f) : Ins(h, b) = Ins(f, b)
  BY <1>1 DEF Ins, Prepared
<1>4. \A i \in Instrs(f) : h.code[i] = f.code[i] /\ h.users[i] = f.users[i]
  BY <1>1 DEF Prepared, MorePhis
<1>5. \A b \in Y : <<v, id[b]>> \in V \X Later(f)
  BY <1>1 DEF MorePhis
<1>6. P \in [Blocks(f) -> Seq(V \X Later(f))]
  BY DEF Prepared
<1>7. ASSUME NEW b \in Blocks(f)
      PROVE  /\ b \in Y => Q[b] \in Seq(V \X Later(f)) /\ Range(Q[b]) = Range(P[b]) \cup {<<v, id[b]>>}
             /\ b \notin Y => Q[b] = P[b]
  <2>1. Q[b] = IF b \in Y THEN Append(P[b], <<v, id[b]>>) ELSE P[b]
    BY DEF MorePhis
  <2>2. P[b] \in Seq(V \X Later(f))
    BY <1>6
  <2>3. ASSUME b \in Y PROVE Q[b] \in Seq(V \X Later(f)) /\ Range(Q[b]) = Range(P[b]) \cup {<<v, id[b]>>}
    <3>1. <<v, id[b]>> \in V \X Later(f)
      BY <1>5, <2>3
    <3>2. Q[b] = Append(P[b], <<v, id[b]>>)
      BY <2>1, <2>3
    <3> QED
      BY <2>2, <3>1, <3>2, RangeOfAppend
  <2> QED
    BY <2>1, <2>3
<1>8. Q \in [Blocks(f) -> Seq(V \X Later(f))]
  <2>1. \A b \in Blocks(f) : Q[b] \in Seq(V \X Later(f))
    BY <1>6, <1>7
  <2>2. Q = [b \in Blocks(f) |-> Q[b]]
    BY DEF MorePhis
  <2> QED
    BY <2>1, <2>2
<1>9. \A b \in Blocks(f) : \A p \in Range(Q[b]) : p \in Range(P[b]) \/ (b \in Y /\ p = <<v, id[b]>>)
  BY <1>7
<1>10. ASSUME NEW b \in Blocks(f), NEW p \in Range(P[b])
       PROVE  p[2] \in Instrs(g) /\ h.code[p[2]] = g.code[p[2]] /\ p[2] \in Instrs(h)
  BY <1>1 DEF Prepared, MorePhis
<1>11. ASSUME NEW b \in Blocks(f), NEW p \in Range(Q[b])
       PROVE  /\ p[2] \in Instrs(h) /\ IsPhi(h, p[2])
              /\ h.code[p[2]].args = <<>> /\ h.code[p[2]].inc = <<>>
  <2>1. CASE p \in Range(P[b])
    <3>1. /\ p[2] \in Instrs(g) /\ IsPhi(g, p[2])
          /\ g.code[p[2]].args = <<>> /\ g.code[p[2]].inc = <<>>
      BY <2>1 DEF Prepared
    <3> QED
      BY <1>10, <2>1, <3>1 DEF IsPhi
  <2>2. CASE b \in Y /\ p = <<v, id[b]>>
    <3>1. p[2] = id[b]
      BY <2>2
    <3> QED
      BY <2>2, <3>1 DEF MorePhis
  <2> QED
    BY <1>9, <2>1, <2>2
<1>12. OnePhiEach(f, Q)
  <2> SUFFICES ASSUME NEW b \in Blocks(f), NEW c \in Blocks(f), NEW p \in Range(Q[b]), NEW q \in Range(Q[c])
               PROVE  /\ p[2] = q[2] => b = c /\ p = q
                      /\ b = c /\ p[1] = q[1] => p = q
    BY DEF OnePhiEach
  <2>1. CASE p \in Range(P[b]) /\ q \in Range(P[c])
    BY <2>1 DEF Prepared, OnePhiEach
  <2>2. CASE p \in Range(P[b]) /\ c \in Y /\ q = <<v, id[c]>>
    <3>1. p[2] \in Instrs(g) /\ q[2] = id[c] /\ q[1] = v
      BY <1>10, <2>2
    <3>2. id[c] \notin Instrs(g) /\ ~Has(P, v, c)
      BY <2>2 DEF MorePhis
    <3>3. b = c => p[1] # v
      BY <2>2, <3>2 DEF Has
    <3> QED
      BY <3>1, <3>2, <3>3
  <2>3. CASE q \in Range(P[c]) /\ b \in Y /\ p = <<v, id[b]>>
    <3>1. q[2] \in Instrs(g) /\ p[2] = id[b] /\ p[1] = v
      BY <1>10, <2>3
    <3>2. id[b] \notin Instrs(g) /\ ~Has(P, v, b)
      BY <2>3 DEF MorePhis
    <3>3. b = c => q[1] # v
      BY <2>3, <3>2 DEF Has
    <3> QED
      BY <3>1, <3>2, <3>3
  <2>4. CASE b \in Y /\ p = <<v, id[b]>> /\ c \in Y /\ q = <<v, id[c]>>
    <3>1. p[2] = id[b] /\ q[2] = id[c]
      BY <2>4
    <3>2. id[b] = id[c] => b = c
      BY <2>4 DEF MorePhis
    <3> QED
      BY <2>4, <3>1, <3>2
  <2> QED
    BY <1>9, <2>1, <2>2, <2>3, <2>4
<1> QED
  BY <1>2, <1>3, <1>4, <1>8, <1>11, <1>12 DEF Prepared

\* A new phi, without incoming values so far.
Unwired(f, g, j) == /\ j \in Instrs(g) \ Instrs(f) /\ j \in Nat /\ IsPhi(g, j)
                    /\ g.code[j].args = <<>> /\ g.code[j].inc = <<>>
Inserted(f, v, ys, g) ==
  g = [f EXCEPT !.code = f.code \o [k \in DOMAIN ys |-> NewPhi(v, ys[k])],
                !.users = f.users \o [k \in DOMAIN ys |-> <<>>]]

\* The code of a function that has got phis.
LEMMA InsertedCode ==
  ASSUME CodeFits(fn), NEW v \in Instrs(fn), NEW ys \in Seq(Blocks(fn)), NEW g,
         Inserted(fn, v, ys, g)
  PROVE  /\ Keeps(fn, g) /\ g.block = fn.block
         /\ \A i \in Instrs(fn) : g.code[i] = fn.code[i] /\ g.users[i] = fn.users[i]
         /\ \A k \in DOMAIN ys : Unwired(fn, g, Len(fn.code) + k)
<1> DEFINE L == Len(fn.code)
           m == Len(ys)
           new == [k \in DOMAIN ys |-> NewPhi(v, ys[k])]
           none == [k \in DOMAIN ys |-> <<>>]
<1>1. /\ IsRecord(fn) /\ L \in Nat /\ Instrs(fn) = 1 .. L /\ Len(fn.users) = L
      /\ fn.code \in Seq(Range(fn.code)) /\ fn.users \in Seq(Seq(Instrs(fn)))
  BY CodeParts
<1>2. m \in Nat /\ DOMAIN ys = 1 .. m
  OBVIOUS
<1>3. Keeps(fn, g) /\ g.block = fn.block /\ \A k \in DOMAIN ys : L + k \in Instrs(g) /\ IsPhi(g, L + k)
  BY InsertedFacts DEF Inserted
<1>4. g.code = fn.code \o new /\ g.users = fn.users \o none
  <2>1. g = [fn EXCEPT !.code = fn.code \o new, !.users = fn.users \o none]
    BY DEF Inserted
  <2> HIDE DEF new, none
  <2> QED
    BY <1>1, <2>1 DEF IsRecord
<1>5. ASSUME NEW s, NEW t, s \in Seq(Range(s)), t \in Seq(Range(t)), Len(s) = L, Len(t) = m
      PROVE  /\ \A i \in 1 .. L : (s \o t)[i] = s[i]
             /\ \A k \in 1 .. m : (s \o t)[L + k] = t[k]
  <2>1. PICK A, B : A = Range(s) /\ B = Range(t)
    OBVIOUS
  <2>2. s \in Seq(A) /\ t \in Seq(B)
    BY <1>5, <2>1
  <2>3. /\ \A i \in 1 .. Len(s) : (s \o t)[i] = s[i]
        /\ \A k \in 1 .. Len(t) : (s \o t)[Len(s) + k] = t[k]
    BY ONLY <2>2
  <2> HIDE DEF L, m
  <2> QED
    BY <1>5, <2>3
<1>6. new \in Seq(Range(new)) /\ Len(new) = m /\ none \in Seq(Range(none)) /\ Len(none) = m
  <2>1. new \in [1 .. m -> Range(new)] /\ none \in [1 .. m -> Range(none)]
    BY <1>2 DEF Range
  <2> HIDE DEF m, new, none
  <2> QED
    BY <1>2, <2>1, FunctionIsSeq
<1>7. fn.users \in Seq(Range(fn.users))
  <2> DEFINE s == fn.users
  <2>1. s \in Seq(Seq(Instrs(fn)))
    BY <1>1
  <2> HIDE DEF s
  <2>2. s \in [1 .. Len(s) -> Range(s)] /\ Len(s) \in Nat
    BY <2>1 DEF Range
  <2> QED
    BY <2>2, FunctionIsSeq DEF s
<1> HIDE DEF L, m
<1> HIDE DEF new, none
<1>8. ASSUME NEW i \in Instrs(fn) PROVE g.code[i] = fn.code[i] /\ g.users[i] = fn.users[i]
  <2>1. i \in 1 .. L
    BY <1>1
  <2>2. Len(fn.code) = L
    BY DEF L
  <2>3. (fn.code \o new)[i] = fn.code[i]
    BY <1>1, <1>5, <1>6, <2>1, <2>2
  <2>4. (fn.users \o none)[i] = fn.users[i]
    BY <1>1, <1>5, <1>6, <1>7, <2>1
  <2> QED
    BY <1>4, <2>3, <2>4
<1>9. ASSUME NEW k \in DOMAIN ys
      PROVE  g.code[L + k] = NewPhi(v, ys[k]) /\ L + k \notin Instrs(fn) /\ L + k \in Nat
  <2>1. k \in 1 .. m
    BY <1>2
  <2>2. g.code[L + k] = new[k]
    <3>1. Len(fn.code) = L
      BY DEF L
    <3>3. /\ fn.code \in Seq(Range(fn.code)) /\ new \in Seq(Range(new))
          /\ Len(fn.code) = L /\ Len(new) = m
      BY <1>1, <1>6, <3>1
    <3>4. \A j \in 1 .. m : (fn.code \o new)[L + j] = new[j]
      BY <1>5, <3>3
    <3>2. (fn.code \o new)[L + k] = new[k]
      BY <2>1, <3>4
    <3> QED
      BY <1>4, <3>2
  <2>3. new[k] = NewPhi(v, ys[k])
    BY DEF new
  <2>4. L + k \notin 1 .. L /\ L + k \in Nat
    <3>1. L \in Nat /\ m \in Nat
      BY <1>1, <1>2
    <3> QED
      BY <2>1, <3>1
  <2>5. Instrs(fn) = 1 .. L
    BY <1>1
  <2> QED
    BY <2>2, <2>3, <2>4, <2>5
<1>10. \A k \in DOMAIN ys : NewPhi(v, ys[k]).args = <<>> /\ NewPhi(v, ys[k]).inc = <<>>
  BY DEF NewPhi
<1>11. \A k \in DOMAIN ys : Unwired(fn, g, L + k)
  BY <1>3, <1>9, <1>10 DEF Unwired
<1> QED
  BY <1>3, <1>8, <1>11 DEF L

-----------------------------------------------------------------------------
\* The tree t, the frontiers D and the variables V that are promoted in f.
Framed(f, V, t, D) ==
  /\ f \in Functions /\ Tree(f, t)
  /\ Gathered(f, t, D, Len(f.order) + 1)
  /\ V = {i \in Placed(f) : f.code[i].op = "alloca"}

\* A block with a store of a variable or a phi for it has a phi for it all over
\* its frontier.
Defines(f, v, b) == \E i \in Range(Ins(f, b)) : f.code[i].op = "store" /\ f.code[i].args[1] = v
Closed(f, V, D, P) ==
  \A v \in V : \A b \in Range(f.order) :
    Defines(f, v, b) \/ Has(P, v, b) => \A c \in D[b] : Has(P, v, c)

\* What the phases up to rename leave of function f.
Phases(f) ==
  /\ pc \in {"idoms", "frontiers"} => fn = f /\ phis = [b \in Blocks(f) |-> <<>>]
  /\ pc \in {"phis", "rename", "place"} => Framed(f, Vars, idom, df)
  /\ pc = "phis" => Prepared(f, Vars, phis, fn) /\ stacks = [v \in Vars |-> <<>>]
  /\ pc \in {"rename", "place"} => Closed(f, Vars, df, phis) /\ phis[f.entry] = <<>> /\ Renames(f)

LEMMA GatheredAll ==
  ASSUME NEW f, NEW t, NEW D, NEW k, k > Len(f.order), Len(f.order) \in Nat, k \in Nat, Gathered(f, t, D, k)
  PROVE  Gathered(f, t, D, Len(f.order) + 1)
<1>1. \A j \in 1 .. Len(f.order) : j < k /\ j < Len(f.order) + 1
  OBVIOUS
<1> QED
  BY <1>1 DEF Gathered

LEMMA PreparedNone ==
  ASSUME NEW f, CodeFits(f), NEW V, NEW P, P = [b \in Blocks(f) |-> <<>>]
  PROVE  Prepared(f, V, P, f)
<1>1. Kin(f, f)
  BY KeepsItself DEF Kin
<1>2. P \in [Blocks(f) -> Seq(V \X Later(f))]
  OBVIOUS
<1>3. \A b \in Blocks(f) : Range(P[b]) = {}
  BY DEF Range
<1> QED
  BY <1>1, <1>2, <1>3 DEF Prepared, OnePhiEach

LEMMA PhasesFrontiersDone ==
  ASSUME NEW f, TypeInv, DominanceInv, Phases(f), FrontiersDone
  PROVE  Phases(f)'
<1>1. /\ pc = "frontiers" /\ pc' = "phis" /\ fn' = fn /\ idom' = idom /\ df' = df /\ phis' = phis
      /\ at > Len(fn.order)
      /\ worklist' = [v \in Promotable |-> DefBlocks(v)]
      /\ stacks' = [v \in Promotable |-> <<>>]
  BY DEF FrontiersDone
<1>2. fn = f /\ phis = [b \in Blocks(f) |-> <<>>]
  BY <1>1 DEF Phases
<1>3. Gathering /\ f \in Functions
  BY <1>1, <1>2 DEF DominanceInv, Gathering
<1>4. Vars' = Promotable
  BY <1>1 DEF Vars
<1>5. CodeFits(f) /\ Len(f.order) \in Nat
  BY <1>2, CodeParts DEF TypeInv, TypedFor
<1>6. Tree(f, idom)
  BY <1>2, <1>3, FunctionFacts DEF Gathering, Tree
<1>7. Gathered(f, idom, df, Len(f.order) + 1)
  BY <1>1, <1>2, <1>3, <1>5, GatheredAll DEF Gathering
<1>8. Promotable = {i \in Placed(f) : f.code[i].op = "alloca"}
  BY <1>2 DEF Promotable
<1>9. Framed(f, Promotable, idom, df)
  BY <1>3, <1>6, <1>7, <1>8 DEF Framed
<1>10. Prepared(f, Promotable, phis, f)
  BY <1>2, <1>5, PreparedNone
<1> QED
  BY <1>1, <1>2, <1>4, <1>9, <1>10 DEF Phases

\* The phis that a step of insert_phi makes.
LEMMA InsertedAsListed ==
  ASSUME NEW f, TypeInv, PhiInv, f \in Functions, Prepared(f, Vars, phis, fn), InsertPhis,
         NEW V, V = Vars
  PROVE  /\ Vars' = V
         /\ \E v, Y, id : MorePhis(f, V, phis, fn, v, Y, id, phis', fn')
<1>0. PICK v \in Least({u \in Vars : worklist[u] # {}}) : \E n \in worklist[v] :
       LET ys == Filtered(fn.order, df[n] \ HasPhi(v))
           id(y) == Len(fn.code) + CHOOSE k \in DOMAIN ys : ys[k] = y
       IN  /\ phis' = [b \in Blocks(fn) |->
                         IF b \in Range(ys) THEN Append(phis[b], <<v, id(b)>>) ELSE phis[b]]
           /\ fn' = [fn EXCEPT !.code = fn.code \o [k \in DOMAIN ys |-> NewPhi(v, ys[k])],
                               !.users = fn.users \o [k \in DOMAIN ys |-> <<>>]]
           /\ worklist' = [worklist EXCEPT ![v] = (worklist[v] \ {n}) \cup (Range(ys) \ DefBlocks(v))]
  BY DEF InsertPhis
<1>1. PICK n \in worklist[v] :
       LET ys == Filtered(fn.order, df[n] \ HasPhi(v))
           id(y) == Len(fn.code) + CHOOSE k \in DOMAIN ys : ys[k] = y
       IN  /\ phis' = [b \in Blocks(fn) |->
                         IF b \in Range(ys) THEN Append(phis[b], <<v, id(b)>>) ELSE phis[b]]
           /\ fn' = [fn EXCEPT !.code = fn.code \o [k \in DOMAIN ys |-> NewPhi(v, ys[k])],
                               !.users = fn.users \o [k \in DOMAIN ys |-> <<>>]]
           /\ worklist' = [worklist EXCEPT ![v] = (worklist[v] \ {n}) \cup (Range(ys) \ DefBlocks(v))]
  BY <1>0
<1> DEFINE ys == Filtered(fn.order, df[n] \ HasPhi(v))
           num(y) == CHOOSE k \in DOMAIN ys : ys[k] = y
           id == [y \in Range(ys) |-> Len(fn.code) + num(y)]
<1>2. /\ TypedFor(fn) /\ CodeFits(fn) /\ v \in Vars /\ v \in Instrs(fn) /\ fn.order \in Seq(Blocks(fn))
      /\ worklist \in [Vars -> SUBSET Blocks(fn)]
  BY CodeParts DEF TypeInv, TypedFor, Least
<1>3. ys \in Seq(Blocks(fn)) /\ Range(ys) = Range(fn.order) \cap (df[n] \ HasPhi(v))
  <2> DEFINE S == df[n] \ HasPhi(v)
  <2> HIDE DEF S
  <2>1. Filtered(fn.order, S) \in Seq(Blocks(fn)) /\ Range(Filtered(fn.order, S)) = Range(fn.order) \cap S
    BY <1>2, FilteredFacts
  <2> QED
    BY <2>1 DEF S
<1>4. /\ phis' = [b \in Blocks(fn) |-> IF b \in Range(ys) THEN Append(phis[b], <<v, Len(fn.code) + num(b)>>) ELSE phis[b]]
      /\ fn' = [fn EXCEPT !.code = fn.code \o [k \in DOMAIN ys |-> NewPhi(v, ys[k])],
                          !.users = fn.users \o [k \in DOMAIN ys |-> <<>>]]
      /\ worklist' = [worklist EXCEPT ![v] = (worklist[v] \ {n}) \cup (Range(ys) \ DefBlocks(v))]
  BY <1>1
<1>5. Vars' = V
  BY <1>4 DEF Vars
<1> HIDE DEF ys
<1>6. /\ Keeps(fn, fn') /\ fn'.block = fn.block
      /\ \A i \in Instrs(fn) : fn'.code[i] = fn.code[i] /\ fn'.users[i] = fn.users[i]
      /\ \A k \in DOMAIN ys : Unwired(fn, fn', Len(fn.code) + k)
  <2> PICK g : g = fn'
    OBVIOUS
  <2>1. Inserted(fn, v, ys, g)
    BY <1>4 DEF Inserted
  <2>2. /\ Keeps(fn, g) /\ g.block = fn.block
        /\ \A i \in Instrs(fn) : g.code[i] = fn.code[i] /\ g.users[i] = fn.users[i]
        /\ \A k \in DOMAIN ys : Unwired(fn, g, Len(fn.code) + k)
    BY <1>2, <1>3, <2>1, InsertedCode
  <2> QED
    BY <2>2
<1>7. ASSUME NEW y \in Range(ys) PROVE num(y) \in DOMAIN ys /\ ys[num(y)] = y
  <2>1. \E k \in DOMAIN ys : ys[k] = y
    BY DEF Range
  <2> QED
    BY <2>1
<1> HIDE DEF num
<1>8. Kin(f, fn) /\ Blocks(fn) = Blocks(f) /\ Instrs(f) \subseteq Instrs(fn)
  BY DEF Prepared, Kin, Keeps
<1>9. ASSUME NEW y \in Range(ys)
      PROVE  /\ id[y] = Len(fn.code) + num(y)
             /\ id[y] \in Instrs(fn') \ Instrs(fn) /\ id[y] \in Later(f) /\ IsPhi(fn', id[y])
             /\ fn'.code[id[y]].args = <<>> /\ fn'.code[id[y]].inc = <<>>
             /\ ~Has(phis, v, y)
  <2>1. id[y] = Len(fn.code) + num(y)
    OBVIOUS
  <2> HIDE DEF id
  <2>2. /\ id[y] \in Instrs(fn') \ Instrs(fn) /\ id[y] \in Nat /\ IsPhi(fn', id[y])
        /\ fn'.code[id[y]].args = <<>> /\ fn'.code[id[y]].inc = <<>>
    BY <1>6, <1>7, <2>1 DEF Unwired
  <2>3. id[y] > Len(f.code)
    <3>1. Instrs(f) = 1 .. Len(f.code) /\ Len(f.code) \in Nat
      BY GivenFacts
    <3>2. Instrs(fn) = 1 .. Len(fn.code) /\ Len(fn.code) \in Nat
      BY <1>2, CodeParts
    <3>3. Len(f.code) <= Len(fn.code)
      BY <1>8, <3>1, <3>2
    <3>4. num(y) \in Nat \ {0}
      <4>1. num(y) \in DOMAIN ys /\ DOMAIN ys = 1 .. Len(ys)
        BY <1>3, <1>7
      <4> QED
        BY <4>1
    <3> QED
      BY <2>1, <3>1, <3>2, <3>3, <3>4
  <2>4. y \notin HasPhi(v) /\ y \in Blocks(fn)
    BY <1>3, <1>9 DEF Range
  <2> QED
    BY <2>1, <2>2, <2>3, <2>4 DEF Later, Has, HasPhi
<1>10. \A b, c \in Range(ys) : id[b] = id[c] => b = c
  <2> SUFFICES ASSUME NEW b \in Range(ys), NEW c \in Range(ys), id[b] = id[c] PROVE b = c
    OBVIOUS
  <2>1. Len(fn.code) + num(b) = Len(fn.code) + num(c) /\ Len(fn.code) \in Nat
    BY <1>2, <1>9, CodeParts
  <2>2. num(b) \in Nat /\ num(c) \in Nat /\ ys[num(b)] = b /\ ys[num(c)] = c
    <3>1. DOMAIN ys \subseteq Nat
      BY <1>3
    <3> QED
      BY <1>7, <3>1
  <2>3. num(b) = num(c)
    BY <2>1, <2>2
  <2> QED
    BY <2>2, <2>3
<1>11. phis' = [b \in Blocks(f) |-> IF b \in Range(ys) THEN Append(phis[b], <<v, id[b]>>) ELSE phis[b]]
  BY <1>4, <1>8, <1>9
<1> HIDE DEF id
<1>12. Range(ys) \subseteq Blocks(f)
  BY <1>3, <1>8 DEF Range
<1> DEFINE Y == Range(ys)
<1> HIDE DEF Y
<1>13. MorePhis(f, V, phis, fn, v, Y, id, phis', fn')
  BY <1>2, <1>6, <1>9, <1>10, <1>11, <1>12 DEF MorePhis, Y
<1> QED
  BY <1>5, <1>13

-----------------------------------------------------------------------------
LEMMA PhasesInsertPhis ==
  ASSUME NEW f, TypeInv, PhiInv, Phases(f), InsertPhis
  PROVE  Phases(f)'
<1>1. pc = "phis" /\ pc' = pc /\ idom' = idom /\ df' = df /\ stacks' = stacks
  BY DEF InsertPhis
<1>2. /\ Framed(f, Vars, idom, df) /\ Prepared(f, Vars, phis, fn)
      /\ stacks = [v \in Vars |-> <<>>] /\ f \in Functions
  BY <1>1 DEF Phases, Framed
<1>3. PICK V : V = Vars
  OBVIOUS
<1>4. Vars' = V /\ \E v, Y, id : MorePhis(f, V, phis, fn, v, Y, id, phis', fn')
  BY <1>2, <1>3, InsertedAsListed
<1>5. PICK P : P = phis
  OBVIOUS
<1>6. PICK g : g = fn
  OBVIOUS
<1>7. PICK Q : Q = phis'
  OBVIOUS
<1>8. PICK h : h = fn'
  OBVIOUS
<1>9. PICK v, Y, id : MorePhis(f, V, P, g, v, Y, id, Q, h)
  BY <1>4, <1>5, <1>6, <1>7, <1>8
<1>10. Prepared(f, V, P, g)
  BY <1>2, <1>3, <1>5, <1>6
<1>11. Prepared(f, V, Q, h)
  BY <1>9, <1>10, PreparedMore
<1>12. Framed(f, Vars', idom', df')
  BY <1>1, <1>2, <1>3, <1>4
<1>13. Prepared(f, Vars', phis', fn') /\ stacks' = [u \in Vars' |-> <<>>]
  BY <1>1, <1>2, <1>3, <1>4, <1>7, <1>8, <1>11
<1> QED
  BY <1>1, <1>12, <1>13 DEF Phases

\* When the worklists are empty nothing is left to do about the phis.
LEMMA PhisClosed ==
  ASSUME NEW f \in Functions, PhiInv, pc = "phis", Prepared(f, Vars, phis, fn),
         \A v \in Vars : worklist[v] = {}
  PROVE  Closed(f, Vars, df, phis)
<1> SUFFICES ASSUME NEW v \in Vars, NEW b \in Range(f.order), Defines(f, v, b) \/ Has(phis, v, b)
             PROVE  \A c \in df[b] : Has(phis, v, c)
  BY DEF Closed
<1>1. /\ fn.order = f.order /\ Blocks(fn) = Blocks(f) /\ Ins(fn, b) = Ins(f, b)
      /\ b \in Blocks(f) /\ Range(Ins(f, b)) \subseteq Instrs(f)
      /\ \A i \in Instrs(f) : fn.code[i] = f.code[i]
  <2>1. b \in Blocks(f) /\ Ins(f, b) \in Seq(Instrs(f))
    BY GivenFacts
  <2> QED
    BY <2>1 DEF Prepared, Kin, Keeps, Range
<1>2. b \in DefBlocks(v) \cup HasPhi(v)
  <2>1. CASE Defines(f, v, b)
    <3>1. PICK i \in Range(Ins(f, b)) : f.code[i].op = "store" /\ f.code[i].args[1] = v
      BY <2>1 DEF Defines
    <3> QED
      BY <1>1, <3>1 DEF DefBlocks, Uses
  <2>2. CASE Has(phis, v, b)
    BY <1>1, <2>2 DEF Has, HasPhi
  <2> QED
    BY <2>1, <2>2
<1>3. \A n \in DefBlocks(v) \cup HasPhi(v) : n \in worklist[v] \/ df[n] \subseteq HasPhi(v)
  BY DEF PhiInv
<1>4. df[b] \subseteq HasPhi(v)
  BY <1>2, <1>3
<1> QED
  BY <1>4 DEF HasPhi, Has

\* The entry gets no phi.
LEMMA EntryUnphied ==
  ASSUME NEW f \in Functions, TypeInv, PhiInv, pc = "phis",
         Framed(f, Vars, idom, df), Prepared(f, Vars, phis, fn)
  PROVE  phis[f.entry] = <<>>
<1>1. /\ fn.order = f.order /\ Blocks(fn) = Blocks(f) /\ fn.entry = f.entry
  BY DEF Prepared, Kin, Keeps
<1>2. f.entry \in Range(f.order) /\ Range(f.order) \subseteq Blocks(f) /\ f.entry \in Blocks(f)
  BY <1>1, GivenFacts DEF TypeInv, TypedFor
<1>3. phis[f.entry] \in Seq(Vars \X Later(f))
  BY <1>2 DEF Prepared
<1> SUFFICES ASSUME phis[f.entry] # <<>> PROVE FALSE
  OBVIOUS
<1>4. PICK p : p \in Vars \X Later(f) /\ p \in Range(phis[f.entry])
  <2>1. PICK s : s = phis[f.entry]
    OBVIOUS
  <2>2. s \in Seq(Vars \X Later(f)) /\ s # <<>>
    BY <1>3, <2>1
  <2>3. 1 \in DOMAIN s /\ s[1] \in Vars \X Later(f)
    BY <2>2
  <2> QED
    BY <2>1, <2>3 DEF Range
<1>5. PICK v \in Vars : f.entry \in HasPhi(v)
  <2>1. p[1] \in Vars
    BY <1>4
  <2> QED
    BY <1>1, <1>2, <1>4, <2>1 DEF HasPhi
<1>6. Len(Pred(f, f.entry)) < 2
  <2>1. v \in Placed(f) /\ f.code[v].op = "alloca"
    BY DEF Framed
  <2>2. EnteredOnce(f)
    BY GivenFacts
  <2> QED
    BY <2>1, <2>2 DEF EnteredOnce
<1>7. ~(Len(Pred(f, f.entry)) >= 2)
  <2>1. Pred(f, f.entry) \in Seq(Blocks(f))
    <3>1. GraphHere(f)
      BY GivenFacts
    <3>2. f.entry \in Reachable(f)
      BY <3>1, GraphFacts DEF GraphHere
    <3> QED
      BY <3>1, <3>2, GraphFacts DEF GraphHere
  <2> QED
    BY <1>6, <2>1
<1>8. ASSUME NEW n \in Blocks(f) PROVE f.entry \notin df[n]
  BY <1>7 DEF Framed, Gathered, InFrontier
<1> DEFINE S == Range(fn.order) \ {f.entry}
<1>9. DefBlocks(v) \subseteq Blocks(f)
  BY <1>1, <1>2 DEF DefBlocks
<1>10. WantsNoMore(v, S)
  <2>1. \A n \in DefBlocks(v) \cup S : n \in Blocks(f)
    BY <1>1, <1>2, <1>9
  <2>2. \A n \in Blocks(fn) : df[n] \subseteq Range(fn.order)
    BY DEF PhiInv
  <2> QED
    BY <1>1, <1>8, <2>1, <2>2 DEF WantsNoMore
<1>11. HasPhi(v) \subseteq S
  <2> HIDE DEF S
  <2> QED
    BY <1>10 DEF PhiInv
<1> QED
  BY <1>5, <1>11

LEMMA PhasesStartRename ==
  ASSUME NEW f, TypeInv, PhiInv, Phases(f), StartRename
  PROVE  Phases(f)'
<1>1. /\ pc = "phis" /\ pc' = "rename" /\ fn' = fn /\ idom' = idom /\ df' = df
      /\ worklist' = worklist /\ phis' = phis /\ \A v \in Vars : worklist[v] = {}
      /\ stacks' = Entered(stacks, fn.entry) /\ frames' = <<Frame(fn.entry)>>
  BY DEF StartRename
<1>2. /\ Framed(f, Vars, idom, df) /\ Prepared(f, Vars, phis, fn)
      /\ stacks = [v \in Vars |-> <<>>] /\ f \in Functions
  BY <1>1 DEF Phases, Framed
<1>3. Vars' = Vars
  BY <1>1 DEF Vars
<1>4. Closed(f, Vars, df, phis) /\ phis[f.entry] = <<>>
  BY <1>1, <1>2, PhisClosed, EntryUnphied
<1>5. PICK V : V = Vars
  OBVIOUS
<1>6. PICK t : t = idom
  OBVIOUS
<1>7. PICK P : P = phis
  OBVIOUS
<1>8. PICK g : g = fn
  OBVIOUS
<1>9. PICK s : s = stacks
  OBVIOUS
<1>10. Setting(f, V, t, P)
  BY <1>2, <1>5, <1>6, <1>7 DEF Framed, Prepared, Setting
<1>11. Kin(f, g) /\ g.entry = f.entry /\ f.entry \in Blocks(f) /\ Range(f.order) \subseteq Blocks(f)
  <2>1. Kin(f, g) /\ g.entry = f.entry
    BY <1>2, <1>8 DEF Prepared, Kin, Keeps
  <2>2. f.entry \in Range(f.order) /\ Range(f.order) \subseteq Blocks(f)
    <3>1. f.entry \in Range(f.order)
      BY <1>2, <1>8, <2>1 DEF TypeInv, TypedFor, Prepared, Kin, Keeps
    <3> QED
      BY <1>2, <3>1, GivenFacts
  <2> QED
    BY <2>1, <2>2
<1>12. PICK z : z = Entered(stacks, f.entry)
  OBVIOUS
<1>13. PICK x : x = Frame(f.entry)
  OBVIOUS
<1>14. /\ z = PhisPushed(V, P, s, f.entry)
       /\ x.block = f.entry /\ x.next = 1 /\ x.child = 0
       /\ x.pushed = [v \in V |-> IF Has(P, v, f.entry) THEN 1 ELSE 0]
  BY <1>5, <1>7, <1>8, <1>9, <1>11, <1>12, <1>13, EnteredAsListed
<1>15. Starts(f, V, P, g, <<x>>, z)
  <2>1. s = [v \in V |-> <<>>]
    BY <1>2, <1>5, <1>9
  <2>2. Prepared(f, V, P, g)
    BY <1>2, <1>5, <1>7, <1>8
  <2>3. Len(<<x>>) = 1 /\ <<x>>[1] = x
    OBVIOUS
  <2> QED
    BY <1>11, <1>14, <2>1, <2>2, <2>3 DEF Starts, Prepared
<1>16. \E r, d, n, w, h : Certified(f, V, t, P, r, d, n, w, h, g, z, <<x>>)
  BY <1>10, <1>15, CertifiedStart
<1>17. stacks' = z /\ frames' = <<x>>
  BY <1>1, <1>8, <1>11, <1>12, <1>13
<1>18. Renames(f)'
  BY <1>1, <1>3, <1>5, <1>6, <1>7, <1>8, <1>11, <1>16, <1>17 DEF Renames
<1> QED
  BY <1>1, <1>2, <1>3, <1>4, <1>18 DEF Phases

-----------------------------------------------------------------------------
\* The steps of rename leave the tree, the frontiers and the lists of phis alone.
LEMMA PhasesRename ==
  ASSUME NEW f, TypeInv, Phases(f),
         KeepInstr \/ DropAlloca \/ DropStore \/ DropLoad \/ WireSuccessors \/ RenameChild \/ Return
  PROVE  Phases(f)'
<1>1. /\ pc = "rename" /\ pc' \in {"rename", "place"} /\ idom' = idom /\ df' = df
      /\ worklist' = worklist /\ phis' = phis
  BY DEF KeepInstr, DropAlloca, DropStore, DropLoad, WireSuccessors, RenameChild, Return, InBody, InCall
<1>2. Vars' = Vars
  BY <1>1 DEF Vars
<1>3. /\ Framed(f, Vars, idom, df) /\ Closed(f, Vars, df, phis) /\ phis[f.entry] = <<>>
      /\ Renames(f)
  BY <1>1 DEF Phases
<1>4. Renames(f)'
  BY <1>3, RenamesKeepInstr, RenamesDropAlloca, RenamesDropStore, RenamesDropLoad,
     RenamesWireSuccessors, RenamesRenameChild, RenamesReturn
<1> QED
  BY <1>1, <1>2, <1>3, <1>4 DEF Phases

LEMMA PhasesStep ==
  ASSUME NEW f, TypeInv, DominanceInv, PhiInv, Phases(f), [Next]_vars
  PROVE  Phases(f)'
<1>1. CASE ComputeIdom
  <2>1. pc = "idoms" /\ pc' = pc /\ fn' = fn /\ phis' = phis
    BY <1>1 DEF ComputeIdom
  <2> QED
    BY <2>1 DEF Phases
<1>2. CASE IdomRoundDone
  <2>1. pc = "idoms" /\ pc' \in {"idoms", "crashed", "frontiers"} /\ fn' = fn /\ phis' = phis
    BY <1>2 DEF IdomRoundDone
  <2> QED
    BY <2>1 DEF Phases
<1>3. CASE ComputeFrontier
  <2>1. pc = "frontiers" /\ pc' = pc /\ fn' = fn /\ phis' = phis
    BY <1>3 DEF ComputeFrontier
  <2> QED
    BY <2>1 DEF Phases
<1>4. CASE AddPhiInstrs \/ verify_ssa
  <2>1. pc' \in {"verify", "refused", "done"}
    BY <1>4 DEF AddPhiInstrs, verify_ssa
  <2> QED
    BY <2>1 DEF Phases
<1>5. CASE UNCHANGED vars
  <2>1. /\ fn' = fn /\ pc' = pc /\ idom' = idom /\ df' = df /\ worklist' = worklist
        /\ phis' = phis /\ stacks' = stacks /\ frames' = frames
    BY <1>5 DEF vars
  <2>2. Vars' = Vars
    BY <2>1 DEF Vars
  <2> QED
    BY <2>1, <2>2 DEF Phases, Renames
<1> QED
  BY <1>1, <1>2, <1>3, <1>4, <1>5, PhasesFrontiersDone, PhasesInsertPhis, PhasesStartRename,
     PhasesRename DEF Next

-----------------------------------------------------------------------------
\* What rename has done when it is through.

\* The names of all places, and the names that replace what comes before them.
Through(f, V, t, P, r, d) ==
  /\ d \in [Blocks(f) -> [Nat -> [V -> Nat]]]
  /\ \A b \in Range(f.order) :
       /\ d[b][1] = Joined(f, V, t, P, d, b)
       /\ \A k \in 1 .. Len(Ins(f, b)) : Flow(f, V, r, d, b, k)
       /\ \A k \in 1 .. End(f, b) :
            /\ Lasting(f, V, t, P, r, d, b, k)
            /\ \A a \in Avail(f, t, b, k) :
                 r[a] \in Named(f, t, P, b, k) /\ (f.code[a].op # "load" => r[a] = a)

LEMMA ThroughFacts ==
  ASSUME NEW f, NEW V, NEW t, NEW P, Setting(f, V, t, P),
         NEW r, NEW d, NEW n, NEW w, Ghosts(f, V, r, d, n, w), Names(f, V, t, P, r, d, n, w),
         w = Range(f.order), \A b \in w : n[b] = Len(Ins(f, b))
  PROVE  Through(f, V, t, P, r, d)
<1>1. d \in [Blocks(f) -> [Nat -> [V -> Nat]]]
  BY DEF Ghosts
<1>2. ASSUME NEW b \in Range(f.order)
      PROVE  /\ d[b][1] = Joined(f, V, t, P, d, b)
             /\ \A k \in 1 .. Len(Ins(f, b)) : Flow(f, V, r, d, b, k)
             /\ \A k \in 1 .. End(f, b) : Lasting(f, V, t, P, r, d, b, k)
  <2>1. Values(f, V, t, P, r, d, b, Len(Ins(f, b)))
    BY DEF Names
  <2> QED
    BY <2>1 DEF Values, End
<1>3. ASSUME NEW b \in Range(f.order), NEW k \in 1 .. End(f, b), NEW a \in Avail(f, t, b, k)
      PROVE  r[a] \in Named(f, t, P, b, k) /\ (f.code[a].op # "load" => r[a] = a)
  <2>1. k \in 1 .. n[b] + 1 /\ b \in w
    BY DEF End
  <2> QED
    BY <2>1, RenamedFacts
<1> QED
  BY <1>1, <1>2, <1>3 DEF Through

\* Where a variable is not stored to its name stays the same.
LEMMA NameStays ==
  ASSUME NEW f, NEW V, NEW t, NEW P, Setting(f, V, t, P), NEW r, NEW d, Through(f, V, t, P, r, d),
         NEW b \in Range(f.order), NEW v \in V, ~Defines(f, v, b)
  PROVE  d[b][End(f, b)][v] = d[b][1][v]
<1>1. b \in Blocks(f) /\ Len(Ins(f, b)) \in Nat /\ DOMAIN Ins(f, b) = 1 .. Len(Ins(f, b))
  BY GivenFacts DEF Setting
<1>2. d[b] \in [Nat -> [V -> Nat]]
  BY <1>1 DEF Through
<1>3. ASSUME NEW k \in 1 .. Len(Ins(f, b)) PROVE d[b][k + 1][v] = d[b][k][v]
  <2>1. d[b][k + 1] = After(f, V, r, d, b, k)
    BY DEF Through, Flow
  <2>2. d[b][k] \in [V -> Nat]
    <3>1. k \in Nat
      OBVIOUS
    <3> QED
      BY <1>2, <3>1
  <2> DEFINE i == Ins(f, b)[k]
  <2>3. CASE IsStore(f, V, i)
    <3>1. i \in Range(Ins(f, b))
      BY <1>1 DEF Range
    <3>2. f.code[i].args[1] # v
      BY <2>3, <3>1 DEF Defines, IsStore
    <3>3. d[b][k + 1] = [d[b][k] EXCEPT ![f.code[i].args[1]] = r[f.code[i].args[2]]]
      BY <2>1, <2>3 DEF After
    <3> HIDE DEF i
    <3> QED
      BY <2>2, <3>2, <3>3
  <2>4. CASE ~IsStore(f, V, i)
    BY <2>1, <2>4 DEF After
  <2> QED
    BY <2>3, <2>4
<1> DEFINE N == {k \in Nat : k <= Len(Ins(f, b)) => d[b][k + 1][v] = d[b][1][v]}
<1>4. 0 \in N
  OBVIOUS
<1>5. ASSUME NEW k \in Nat, k \in N PROVE k + 1 \in N
  <2> SUFFICES ASSUME k + 1 <= Len(Ins(f, b)) PROVE d[b][(k + 1) + 1][v] = d[b][1][v]
    OBVIOUS
  <2>1. k + 1 \in 1 .. Len(Ins(f, b)) /\ k <= Len(Ins(f, b))
    BY <1>1
  <2> QED
    BY <1>3, <1>5, <2>1
<1> HIDE DEF N
<1>6. Nat \subseteq N
  BY <1>4, <1>5, NatSetInduction
<1> QED
  BY <1>1, <1>6 DEF N, End

\* The block above a block is above the ones it is entered from; if it is not
\* the one, there are others.
LEMMA OtherEdges ==
  ASSUME NEW f, NEW t, Tree(f, t), NEW b \in Range(f.order), NEW s \in Range(Succ(f, b)),
         s # f.entry, b # t[s]
  PROVE  Len(Pred(f, s)) >= 2
<1>1. /\ GraphHere(f) /\ IsTree(f, t) /\ Fixed(f, t) /\ Range(f.order) = Reachable(f)
      /\ Held(f, t) = Reachable(f)
  BY DEF Tree, Fixed
<1>2. s \in Reachable(f) \ {f.entry} /\ b \in Reachable(f) /\ b \in Range(Pred(f, s))
  BY <1>1, EdgeFacts
<1>3. /\ t[s] \in Reachable(f)
      /\ \A n : n \in Up(f, t, t[s]) <=> \A q \in Range(Pred(f, s)) \cap Reachable(f) : n \in Up(f, t, q)
  BY <1>1, <1>2, FixedFacts
<1>4. Pred(f, s) \in Seq(Blocks(f)) /\ Len(Pred(f, s)) \in Nat
  BY <1>1, <1>2, GraphFacts DEF GraphHere
<1> SUFFICES ASSUME ~(Len(Pred(f, s)) >= 2) PROVE FALSE
  OBVIOUS
<1>5. Range(Pred(f, s)) = {b}
  <2>1. PICK p : p = Pred(f, s)
    OBVIOUS
  <2>2. p \in Seq(Blocks(f)) /\ Len(p) \in Nat /\ ~(Len(p) >= 2) /\ b \in Range(p)
    BY <1>2, <1>4, <2>1
  <2>3. \A j \in DOMAIN p : j = 1
    BY <2>2
  <2>4. Range(p) = {b}
    BY <2>2, <2>3 DEF Range
  <2> QED
    BY <2>1, <2>4
<1>6. \A n : n \in Up(f, t, t[s]) <=> n \in Up(f, t, b)
  BY <1>2, <1>3, <1>5
<1>7. b \in Up(f, t, b) /\ t[s] \in Up(f, t, t[s])
  BY <1>1, <1>2, <1>3, UpFacts
<1>8. b \in Up(f, t, t[s]) /\ t[s] \in Up(f, t, b)
  BY <1>6, <1>7
<1>9. Num(f, b) < Num(f, t[s]) /\ Num(f, t[s]) < Num(f, b)
  BY <1>1, <1>2, <1>3, <1>8, UpwardFacts
<1>10. Num(f, b) \in Nat /\ Num(f, t[s]) \in Nat
  BY <1>1, <1>2, <1>3, NumberFacts
<1> QED
  BY <1>9, <1>10

\* A variable without a phi in a block has at the end of each block that leads
\* there the name that it has at the end of the one above.
LEMMA EdgesAgree ==
  ASSUME NEW f, NEW V, NEW t, NEW P, Setting(f, V, t, P), NEW r, NEW d, Through(f, V, t, P, r, d),
         NEW D, Framed(f, V, t, D), Closed(f, V, D, P),
         NEW b \in Range(f.order), NEW s \in Range(Succ(f, b)), s # f.entry,
         NEW v \in V, ~Has(P, v, s)
  PROVE  d[b][End(f, b)][v] = d[t[s]][End(f, t[s])][v]
<1>1. /\ Tree(f, t) /\ GraphHere(f) /\ IsTree(f, t) /\ Fixed(f, t) /\ Range(f.order) = Reachable(f)
      /\ Held(f, t) = Reachable(f) /\ Range(f.order) \subseteq Blocks(f)
  BY GivenFacts DEF Setting, Tree, Fixed
<1> DEFINE a == t[s]
           last(c) == d[c][End(f, c)][v]
<1>2. /\ s \in Range(f.order) /\ Above(f, t, s) \subseteq Up(f, t, b) /\ b \in Range(Pred(f, s))
  BY <1>1, EdgeFacts
<1>3. /\ Above(f, t, s) = Up(f, t, a) /\ a \in Range(f.order)
  BY <1>1, <1>2, AboveFacts
<1>4. a \in Up(f, t, a) /\ \A c \in Above(f, t, a) : Up(f, t, c) \subseteq Above(f, t, a)
  BY <1>1, <1>3, AboveFacts
<1>5. a \in Up(f, t, b)
  BY <1>2, <1>3, <1>4
<1>6. CASE b = a
  BY <1>6
<1>7. CASE b # a
  <2>1. Len(Pred(f, s)) >= 2
    BY <1>1, <1>7, OtherEdges
  <2>2. Climb(f, t, b, s) = Up(f, t, b) \ Up(f, t, a)
    BY <1>1, <1>5, ClimbFacts
  <2> DEFINE Y == {c \in Up(f, t, b) : last(c) = last(b) \/ c \in Above(f, t, a)}
  <2>3. /\ b \in Up(f, t, b) /\ Up(f, t, b) \subseteq Range(f.order)
        /\ \A c \in Up(f, t, b) : t[c] \in Up(f, t, b)
        /\ \A X : b \in X /\ (\A c \in X \cap Held(f, t) : t[c] \in X) => Up(f, t, b) \subseteq X
    BY <1>1, UpFacts
  <2>4. ASSUME NEW c \in Up(f, t, b), c \notin Up(f, t, a)
        PROVE  c # f.entry /\ last(c) = last(t[c])
    <3>1. c \in Range(f.order) /\ c \in Blocks(f)
      BY <1>1, <2>3
    <3>2. InFrontier(f, t, c, s)
      BY <1>2, <2>1, <2>2, <2>4 DEF InFrontier
    <3>3. s \in D[c]
      <4>1. PICK j \in 1 .. Len(f.order) : f.order[j] = s
        <5>1. f.order \in Seq(Blocks(f))
          BY <1>1 DEF GraphHere, Graph, IsFunction
        <5> QED
          BY <1>2, <5>1 DEF Range
      <4>2. j < Len(f.order) + 1
        OBVIOUS
      <4> QED
        BY <3>1, <3>2, <4>1, <4>2 DEF Framed, Gathered
    <3>4. ~Defines(f, v, c) /\ ~Has(P, v, c)
      BY <3>1, <3>3 DEF Closed
    <3>5. c # f.entry
      <4>1. f.entry \in Up(f, t, a)
        BY <1>1, <1>3, ExactTreeSpans DEF Spanned, Tree
      <4> QED
        BY <2>4, <4>1
    <3>6. last(c) = d[c][1][v]
      BY <3>1, <3>4, NameStays
    <3>7. d[c][1] = Joined(f, V, t, P, d, c)
      BY <3>1 DEF Through
    <3>8. d[c][1][v] = last(t[c])
      BY <3>4, <3>5, <3>7 DEF Joined
    <3> QED
      BY <3>5, <3>6, <3>8
  <2> HIDE DEF last
  <2>5. ASSUME NEW c \in Y PROVE t[c] \in Y
    <3>1. c \in Up(f, t, b) /\ t[c] \in Up(f, t, b) /\ c \in Range(f.order)
      BY <2>3
    <3>2. CASE c \in Above(f, t, a)
      <4>1. t[c] \in Up(f, t, c)
        BY <1>1, <3>1, UpFacts
      <4> QED
        BY <1>4, <3>1, <3>2, <4>1
    <3>3. CASE c = a
      <4>1. CASE a = f.entry
        <5>1. t[c] = c
          BY <1>1, <3>3, <4>1 DEF IsTree
        <5> QED
          BY <5>1
      <4>2. CASE a # f.entry
        <5>1. Above(f, t, a) = Up(f, t, t[a]) /\ t[a] \in Range(f.order)
          BY <1>1, <1>3, <4>2, AboveFacts
        <5>2. t[a] \in Above(f, t, a)
          BY <1>1, <5>1, AboveFacts
        <5> QED
          BY <3>1, <3>3, <5>2
      <4> QED
        BY <4>1, <4>2
    <3>4. CASE c \notin Up(f, t, a)
      <4>1. last(c) = last(b)
        BY <3>4 DEF Above
      <4>2. last(t[c]) = last(b)
        BY <2>4, <3>1, <3>4, <4>1
      <4> QED
        BY <3>1, <4>2
    <3> QED
      BY <3>2, <3>3, <3>4 DEF Above
  <2>6. b \in Y
    BY <2>3
  <2> HIDE DEF Y
  <2>7. Up(f, t, b) \subseteq Y
    BY <2>3, <2>5, <2>6
  <2>8. a \in Y /\ a \notin Above(f, t, a)
    BY <1>5, <2>7 DEF Above
  <2>9. last(a) = last(b)
    BY <2>8 DEF Y
  <2> QED
    BY <2>9 DEF last
<1> QED
  BY <1>6, <1>7

-----------------------------------------------------------------------------
\* The phis of a block in the order in which they are listed.
PhiList(P, b) == [n \in DOMAIN P[b] |-> P[b][n][2]]

\* Function h is g when the phis in P stand in their blocks.
Places(g, P, h) ==
  /\ \A b \in Blocks(g) : /\ Ins(h, b) = PhiList(P, b) \o Ins(g, b)
                          /\ Succ(h, b) = Succ(g, b) /\ Pred(h, b) = Pred(g, b)
  /\ \A i \in Instrs(g) :
       /\ h.code[i].op = g.code[i].op /\ h.code[i].inc = g.code[i].inc
       /\ (\A b \in Blocks(g) : i \notin Ids(P, b)) => h.code[i] = g.code[i]

LEMMA PlacedAsListed ==
  ASSUME CodeFits(fn)
  PROVE  Places(fn, phis, PhisPlaced)
<1> DEFINE g == PhisPlaced
           I == Instrs(fn)
           B == Blocks(fn)
           new(b) == PhiList(phis, b)
           ids == UNION {Range(new(b)) : b \in B}
           from(i) == Filtered(fn.order, DOMAIN fn.code[i].inc)
           all == FlattenSeq([k \in DOMAIN fn.order |-> new(fn.order[k])])
           reads(v) == Filtered(all, {i \in ids : v \in Incoming(fn, i)})
           args(i) == [n \in DOMAIN from(i) |-> fn.code[i].inc[from(i)[n]]]
           with(i) == [fn.code[i] EXCEPT !.args = args(i)]
           code == [i \in I |-> IF i \in ids THEN with(i) ELSE fn.code[i]]
           users == [v \in I |-> fn.users[v] \o reads(v)]
           block == [b \in B |-> [fn.block[b] EXCEPT !.ins = new(b) \o fn.block[b].ins]]
<1>1. /\ IsRecord(fn) /\ fn.block \in [B -> BlocksOf(B, I)]
      /\ \A i \in I : Shaped(fn.code[i], B, I)
  BY CodeParts
<1>2. g = [fn EXCEPT !.code = code, !.users = users, !.block = block]
  BY DEF PhisPlaced, Incoming, PhiList
<1> HIDE DEF g, new
<1>3. ASSUME NEW b \in B
      PROVE  /\ block[b].ins = new(b) \o fn.block[b].ins
             /\ block[b].succ = fn.block[b].succ /\ block[b].pred = fn.block[b].pred
  <2> DEFINE s == new(b) \o fn.block[b].ins
  <2>1. fn.block[b] \in BlocksOf(B, I)
    BY <1>1
  <2>2. block[b] = [fn.block[b] EXCEPT !.ins = s]
    OBVIOUS
  <2> HIDE DEF s, block
  <2>3. block[b].ins = s /\ block[b].succ = fn.block[b].succ /\ block[b].pred = fn.block[b].pred
    BY <2>1, <2>2 DEF BlocksOf
  <2> QED
    BY <2>3 DEF s
<1>4. ASSUME NEW i \in I
      PROVE  /\ code[i].op = fn.code[i].op /\ code[i].inc = fn.code[i].inc
             /\ i \notin ids => code[i] = fn.code[i]
  <2> DEFINE x == args(i)
  <2>1. Shaped(fn.code[i], B, I)
    BY <1>1
  <2>2. code[i] = IF i \in ids THEN [fn.code[i] EXCEPT !.args = x] ELSE fn.code[i]
    OBVIOUS
  <2> HIDE DEF x, code, ids
  <2> QED
    BY <2>1, <2>2 DEF Shaped
<1>5. ids = UNION {Ids(phis, b) : b \in B}
  <2>1. \A b \in B : Range(new(b)) = Ids(phis, b)
    BY DEF new, PhiList, Ids, Range
  <2> QED
    BY <2>1
<1>6. \A i : i \in ids => \E b \in B : i \in Ids(phis, b)
  BY <1>5
<1> HIDE DEF code, users, block, ids
<1>7. g.code = code /\ g.block = block
  BY <1>1, <1>2 DEF IsRecord
<1>8. \A b \in B : /\ Ins(g, b) = new(b) \o Ins(fn, b)
                   /\ Succ(g, b) = Succ(fn, b) /\ Pred(g, b) = Pred(fn, b)
  BY <1>3, <1>7 DEF Ins, Succ, Pred
<1>9. \A i \in I :
       /\ g.code[i].op = fn.code[i].op /\ g.code[i].inc = fn.code[i].inc
       /\ (\A b \in B : i \notin Ids(phis, b)) => g.code[i] = fn.code[i]
  BY <1>4, <1>6, <1>7
<1> QED
  BY <1>8, <1>9 DEF Places, new, g

-----------------------------------------------------------------------------
\* What the pass has made of a function.

All(f, V, b) == Left(f, V, b, Len(Ins(f, b)))

\* The edges into a block agree on the names of variables without a phi in it.
Meeting(f, V, t, P, d) ==
  \A b \in Range(f.order) : \A s \in Range(Succ(f, b)) : s # f.entry =>
    \A v \in V : ~Has(P, v, s) => d[b][End(f, b)][v] = d[t[s]][End(f, t[s])][v]

\* The phis know the names at the ends of the blocks they have learnt them from.
Incomings(f, P, d, g) ==
  \A b \in Range(f.order) : \A p \in Range(P[b]) :
    /\ p[2] \in Instrs(g) /\ IsPhi(g, p[2])
    /\ \A q \in DOMAIN g.code[p[2]].inc :
         g.code[p[2]].inc[q] = d[q][End(f, q)][p[1]] /\ d[q][End(f, q)][p[1]] # 0

\* Function g is f on names: its phis, and what is left of its blocks.
Promoted(f, V, t, P, r, d, g) ==
  /\ Setting(f, V, t, P) /\ Through(f, V, t, P, r, d) /\ P[f.entry] = <<>>
  /\ Meeting(f, V, t, P, d) /\ Incomings(f, P, d, g)
  /\ Kin(f, g)
  /\ \A b \in Range(f.order) : Ins(g, b) = PhiList(P, b) \o All(f, V, b)
  /\ \A b \in Range(f.order) : \A u \in Range(All(f, V, b)) : Renamed(f, r, u, g.code[u])

\* What is left when rename is through.
LEMMA RenameIsThrough ==
  ASSUME NEW f, NEW V, NEW t, NEW P, NEW r, NEW d, NEW n, NEW w, NEW h, NEW g, NEW s, NEW calls,
         Certified(f, V, t, P, r, d, n, w, h, g, s, calls), Len(calls) = 0
  PROVE  /\ Setting(f, V, t, P) /\ Through(f, V, t, P, r, d)
         /\ \A b \in Range(f.order) : Ins(g, b) = All(f, V, b)
         /\ \A b \in Range(f.order) : \A u \in Range(All(f, V, b)) :
              u \in Instrs(f) /\ Renamed(f, r, u, g.code[u])
         /\ Incomings(f, P, d, g)
<1>1. /\ Setting(f, V, t, P) /\ Ghosts(f, V, r, d, n, w) /\ Names(f, V, t, P, r, d, n, w)
      /\ Stands(f, V, n, w, calls) /\ Tours(f, t, w, calls) /\ Lists(f, V, n, g)
      /\ Rewritten(f, r, g) /\ Learnt(f, P, d, n, w, g) /\ f \in Functions
  BY DEF Certified, Setting
<1>2. w = Range(f.order)
  BY <1>1, ToursEnd DEF Ghosts
<1>3. ASSUME NEW b \in Range(f.order)
      PROVE  n[b] = Len(Ins(f, b)) /\ b \in Blocks(f) /\ n[b] \in Nat
  <2>1. b \in Blocks(f) /\ Len(Ins(f, b)) \in Nat
    BY <1>1, GivenFacts
  <2>2. ~(n[b] < Len(Ins(f, b)))
    BY <1>1, <1>2 DEF Stands
  <2>3. n[b] \in Nat /\ n[b] <= Len(Ins(f, b))
    BY <1>1, <2>1 DEF Ghosts
  <2> QED
    BY <2>1, <2>2, <2>3
<1>4. Through(f, V, t, P, r, d)
  BY <1>1, <1>2, <1>3, ThroughFacts
<1>5. ASSUME NEW b \in Range(f.order) PROVE Ins(g, b) = All(f, V, b)
  <2>1. Ins(g, b) = Left(f, V, b, n[b]) \o Rest(f, b, n[b])
    BY <1>1 DEF Lists
  <2> QED
    BY <1>1, <1>3, <2>1, RestFacts DEF All
<1>6. ASSUME NEW b \in Range(f.order), NEW u \in Range(All(f, V, b))
      PROVE  u \in Instrs(f) /\ Renamed(f, r, u, g.code[u])
  <2>1. u \in Range(Ins(g, b))
    BY <1>5
  <2>2. Range(Ins(g, b)) \subseteq Range(Ins(f, b)) /\ Range(Ins(f, b)) \subseteq Instrs(f)
    BY <1>1, <1>3, ListsRange
  <2> QED
    BY <1>1, <2>1, <2>2 DEF Rewritten
<1>7. Incomings(f, P, d, g)
  BY <1>1 DEF Learnt, Incomings
<1> QED
  BY <1>1, <1>4, <1>5, <1>6, <1>7

\* And when the phis have been placed.
LEMMA PlacedPromoted ==
  ASSUME NEW f, NEW V, NEW t, NEW P, NEW r, NEW d, NEW n, NEW w, NEW e, NEW g, NEW s, NEW calls,
         Certified(f, V, t, P, r, d, n, w, e, g, s, calls), Len(calls) = 0,
         NEW D, Framed(f, V, t, D), Closed(f, V, D, P), P[f.entry] = <<>>,
         Kin(f, g), NEW h, Keeps(g, h), Places(g, P, h)
  PROVE  Promoted(f, V, t, P, r, d, h)
<1>1. /\ Setting(f, V, t, P) /\ Through(f, V, t, P, r, d)
      /\ \A b \in Range(f.order) : Ins(g, b) = All(f, V, b)
      /\ \A b \in Range(f.order) : \A u \in Range(All(f, V, b)) :
           u \in Instrs(f) /\ Renamed(f, r, u, g.code[u])
      /\ Incomings(f, P, d, g)
  BY RenameIsThrough
<1>2. /\ f \in Functions /\ Range(f.order) \subseteq Blocks(f) /\ Blocks(g) = Blocks(f)
      /\ Instrs(f) \subseteq Instrs(g) /\ Instrs(g) \subseteq Instrs(h)
  BY <1>1, GivenFacts DEF Setting, Kin, Keeps
<1>3. Meeting(f, V, t, P, d)
  BY <1>1, EdgesAgree DEF Meeting
<1>4. Kin(f, h)
  <2>1. \A b \in Blocks(f) : Succ(h, b) = Succ(g, b) /\ Pred(h, b) = Pred(g, b)
    BY <1>2 DEF Places
  <2> QED
    BY <2>1, KinKept
<1>5. \A b \in Range(f.order) : Ins(h, b) = PhiList(P, b) \o All(f, V, b)
  BY <1>1, <1>2 DEF Places
<1>6. ASSUME NEW b \in Range(f.order), NEW u \in Range(All(f, V, b))
      PROVE  Renamed(f, r, u, h.code[u])
  <2>1. u \in Instrs(f) /\ Renamed(f, r, u, g.code[u])
    BY <1>1
  <2>2. \A c \in Blocks(g) : u \notin Ids(P, c)
    <3>1. Later(f) \cap Instrs(f) = {} /\ \A c \in Blocks(f) : Ids(P, c) \subseteq Later(f)
      BY <1>1, SettingFacts
    <3> QED
      BY <1>2, <2>1, <3>1
  <2>3. h.code[u] = g.code[u]
    BY <1>2, <2>1, <2>2 DEF Places
  <2> QED
    BY <2>1, <2>3
<1>7. ASSUME NEW b \in Range(f.order), NEW p \in Range(P[b])
      PROVE  /\ p[2] \in Instrs(h) /\ IsPhi(h, p[2])
             /\ \A q \in DOMAIN h.code[p[2]].inc :
                  h.code[p[2]].inc[q] = d[q][End(f, q)][p[1]] /\ d[q][End(f, q)][p[1]] # 0
  <2>1. /\ p[2] \in Instrs(g) /\ IsPhi(g, p[2])
        /\ \A q \in DOMAIN g.code[p[2]].inc :
             g.code[p[2]].inc[q] = d[q][End(f, q)][p[1]] /\ d[q][End(f, q)][p[1]] # 0
    BY <1>1 DEF Incomings
  <2>2. h.code[p[2]].op = g.code[p[2]].op /\ h.code[p[2]].inc = g.code[p[2]].inc
    BY <2>1 DEF Places
  <2> QED
    BY <1>2, <2>1, <2>2 DEF IsPhi
<1>8. Incomings(f, P, d, h)
  BY <1>7 DEF Incomings
<1> QED
  BY <1>1, <1>3, <1>4, <1>5, <1>6, <1>8 DEF Promoted

LEMMA AddPhisPromotes ==
  ASSUME NEW f, TypeInv, Phases(f), AddPhiInstrs
  PROVE  \E P, r, d : Promoted(f, Vars, idom, P, r, d, fn')
<1>1. pc = "place" /\ fn' = PhisPlaced
  BY DEF AddPhiInstrs
<1>2. /\ Framed(f, Vars, idom, df) /\ Closed(f, Vars, df, phis) /\ phis[f.entry] = <<>>
      /\ Kin(f, fn)
  BY <1>1 DEF Phases, Renames
<1>3. PICK r, d, n, w, e : Certified(f, Vars, idom, phis, r, d, n, w, e, fn, stacks, frames)
  BY <1>1 DEF Phases, Renames
<1>4. Len(frames) = 0
  BY <1>1 DEF TypeInv
<1>5. CodeFits(fn) /\ Keeps(fn, PhisPlaced)
  <2>1. /\ CodeFits(fn) /\ phis \in [Blocks(fn) -> Seq(Vars \X Instrs(fn))]
        /\ \A b \in Blocks(fn) : \A p \in Range(phis[b]) : IsPhi(fn, p[2])
    BY DEF TypeInv, TypedFor
  <2> QED
    BY <2>1, PlacedFacts
<1>6. Places(fn, phis, PhisPlaced)
  BY <1>5, PlacedAsListed
<1>7. PICK V, t, D, P, g, s, calls, h :
        /\ V = Vars /\ t = idom /\ D = df /\ P = phis /\ g = fn /\ s = stacks
        /\ calls = frames /\ h = fn'
  OBVIOUS
<1>8. Keeps(g, h) /\ Places(g, P, h)
  BY <1>1, <1>5, <1>6, <1>7
<1>9. Certified(f, V, t, P, r, d, n, w, e, g, s, calls) /\ Len(calls) = 0
  BY <1>3, <1>4, <1>7
<1>10. Framed(f, V, t, D) /\ Closed(f, V, D, P) /\ P[f.entry] = <<>> /\ Kin(f, g)
  BY <1>2, <1>7
<1>11. Promoted(f, V, t, P, r, d, h)
  BY <1>8, <1>9, <1>10, PlacedPromoted
<1> QED
  BY <1>7, <1>11

-----------------------------------------------------------------------------
\* Every phi has a value from every way in.
Complete(f, P, g) ==
  \A b \in Range(f.order) : \A p \in Range(P[b]) :
    Range(Pred(f, b)) \subseteq DOMAIN g.code[p[2]].inc

LEMMA PhiListFacts ==
  ASSUME NEW f, NEW V, NEW t, NEW P, Setting(f, V, t, P), NEW b \in Range(f.order)
  PROVE  /\ PhiList(P, b) \in Seq(Later(f)) /\ Len(PhiList(P, b)) = Len(P[b]) /\ Len(P[b]) \in Nat
         /\ \A n \in 1 .. Len(P[b]) : PhiList(P, b)[n] = P[b][n][2] /\ P[b][n] \in Range(P[b])
         /\ All(f, V, b) \in Seq(Instrs(f)) /\ Len(All(f, V, b)) \in Nat
<1>1. /\ f \in Functions /\ b \in Blocks(f)
      /\ P[b] \in Seq(V \X Later(f)) /\ Len(P[b]) \in Nat /\ DOMAIN P[b] = 1 .. Len(P[b])
      /\ \A j \in 1 .. Len(P[b]) : P[b][j] \in V \X Later(f) /\ P[b][j] \in Range(P[b])
  <2>1. f \in Functions
    BY DEF Setting
  <2>2. b \in Blocks(f)
    BY <2>1, GivenFacts
  <2>3. P[b] \in Seq(V \X Later(f)) /\ DOMAIN P[b] = 1 .. Len(P[b])
    BY <2>2, SettingFacts
  <2>4. PICK s : s = P[b]
    OBVIOUS
  <2>5. s \in Seq(V \X Later(f))
    BY <2>3, <2>4
  <2>6. Len(s) \in Nat /\ \A j \in 1 .. Len(s) : s[j] \in V \X Later(f) /\ s[j] \in Range(s)
    BY <2>5 DEF Range
  <2> QED
    BY <2>1, <2>2, <2>3, <2>4, <2>6
<1>2. PhiList(P, b) \in [1 .. Len(P[b]) -> Later(f)]
  BY <1>1 DEF PhiList
<1>3. PhiList(P, b) \in Seq(Later(f)) /\ Len(PhiList(P, b)) = Len(P[b])
  BY <1>1, <1>2, FunctionIsSeq
<1>4. \A n \in 1 .. Len(P[b]) : PhiList(P, b)[n] = P[b][n][2]
  BY <1>1 DEF PhiList
<1>5. All(f, V, b) \in Seq(Instrs(f)) /\ Len(All(f, V, b)) \in Nat
  BY <1>1, RestFacts DEF All
<1> QED
  BY <1>1, <1>3, <1>4, <1>5

LEMMA VerifyCompletes ==
  ASSUME NEW f, NEW V, NEW t, NEW P, NEW r, NEW d, Promoted(f, V, t, P, r, d, fn),
         verify_ssa, pc' = "done"
  PROVE  Complete(f, P, fn)
<1> SUFFICES ASSUME NEW b \in Range(f.order), NEW p \in Range(P[b]), NEW q \in Range(Pred(f, b)),
                    q \notin DOMAIN fn.code[p[2]].inc
             PROVE  FALSE
  BY DEF Complete
<1>1. \A c, x \in Range(fn.order), i \in Instrs(fn) : ~Missing(fn, c, i, x)
  BY DEF verify_ssa
<1>2. /\ Setting(f, V, t, P) /\ fn.order = f.order /\ Pred(fn, b) = Pred(f, b)
      /\ Ins(fn, b) = PhiList(P, b) \o All(f, V, b)
      /\ p[2] \in Instrs(fn) /\ IsPhi(fn, p[2])
  <2>1. b \in Blocks(f)
    BY GivenFacts DEF Promoted, Setting
  <2> QED
    BY <2>1 DEF Promoted, Incomings, Kin, Keeps
<1>3. q \in Range(f.order)
  <2>1. Tree(f, t)
    BY <1>2 DEF Setting
  <2> QED
    BY <2>1 DEF Tree, GraphHere, Graph, Linked
<1>4. p[2] \in Range(Ins(fn, b))
  <2>1. PICK s, u : s = PhiList(P, b) /\ u = All(f, V, b)
    OBVIOUS
  <2>2. s \in Seq(Later(f)) /\ u \in Seq(Instrs(f)) /\ Len(s) = Len(P[b]) /\ Len(P[b]) \in Nat
    BY <1>2, <2>1, PhiListFacts
  <2>3. PICK n \in 1 .. Len(P[b]) : P[b][n] = p
    <3>1. DOMAIN P[b] = 1 .. Len(P[b])
      BY <1>2, SettingFacts, GivenFacts
    <3> QED
      BY <3>1 DEF Range
  <2>4. s[n] = p[2]
    BY <1>2, <2>1, <2>3, PhiListFacts
  <2>5. n \in DOMAIN (s \o u) /\ (s \o u)[n] = s[n]
    BY <2>2
  <2>6. p[2] \in Range(s \o u)
    BY <2>4, <2>5 DEF Range
  <2> QED
    BY <1>2, <2>1, <2>6
<1>5. Missing(fn, b, p[2], q)
  BY <1>2, <1>4 DEF Missing
<1> QED
  BY <1>1, <1>2, <1>3, <1>5

-----------------------------------------------------------------------------
\* The runs of the function given.

\* An address is the number of its instruction, and what has no result holds
\* nothing.
EnvFits(f, e) ==
  \A i \in Instrs(f) :
    /\ f.code[i].op \in {"alloca", "param"} => e[i] \in {Undefined, i}
    /\ f.code[i].op \in {"store", "br", "cond_br", "ret"} => e[i] = Undefined

RunFits(f, x) ==
  /\ Machine(f, x) /\ DOMAIN x.cell = Instrs(f) /\ EnvFits(f, x.env)
  /\ x.block \in Range(f.order) /\ x.pos \in 1 .. End(f, x.block)

LEMMA StartFits ==
  ASSUME NEW f \in Functions, NEW a
  PROVE  RunFits(f, Start(f, a))
<1> DEFINE x == Start(f, a)
<1>1. /\ Machine(f, x) /\ x.block = f.entry /\ x.pos = 1 /\ x.cell = Blank(f)
      /\ \A v \in Instrs(f) : x.env[v] = Undefined
  BY StartOfRun
<1> HIDE DEF x
<1>2. f.entry \in Range(f.order) /\ f.entry \in Blocks(f) /\ Len(Ins(f, f.entry)) \in Nat
  <2>1. f.entry \in Range(f.order)
    BY GivenFacts DEF GraphHere, Graph, Linked
  <2> QED
    BY <2>1, GivenFacts
<1>3. DOMAIN x.cell = Instrs(f)
  BY <1>1 DEF Blank
<1>4. EnvFits(f, x.env)
  BY <1>1 DEF EnvFits
<1>5. x.pos \in 1 .. End(f, x.block)
  BY <1>1, <1>2 DEF End
<1> QED
  BY <1>1, <1>2, <1>3, <1>4, <1>5 DEF RunFits, x

\* The instruction that a run of the function has come to.
LEMMA HereFacts ==
  ASSUME NEW f \in Functions, NEW x, RunFits(f, x), x.pos <= Len(Ins(f, x.block))
  PROVE  LET i == Here(f, x)
         IN  /\ x.block \in Range(f.order) /\ x.block \in Blocks(f)
             /\ x.pos \in 1 .. Len(Ins(f, x.block)) /\ i = Ins(f, x.block)[x.pos]
             /\ x.pos \in Nat /\ Len(Ins(f, x.block)) \in Nat
             /\ x.pos \in 1 .. End(f, x.block) /\ x.pos + 1 \in 1 .. End(f, x.block)
             /\ i \in Instrs(f) /\ i \in Placed(f) /\ ~IsPhi(f, i) /\ MatchesOpcode(f.code[i])
             /\ f.code[i].args \in Seq(Instrs(f)) /\ f.code[i].op \in Ops
             /\ IsTerminator(f.code[i].op) => x.pos = Len(Ins(f, x.block))
             /\ f.code[i].op = "br" => Len(Succ(f, x.block)) = 1
             /\ f.code[i].op = "cond_br" => Len(Succ(f, x.block)) = 2
             /\ Succ(f, x.block) \in Seq(Blocks(f))
             /\ Range(Succ(f, x.block)) \subseteq Range(f.order)
<1> DEFINE b == x.block
           k == x.pos
           i == Here(f, x)
<1>1. b \in Range(f.order) /\ k \in 1 .. End(f, b) /\ b \in Blocks(f)
  BY GivenFacts DEF RunFits
<1>2. Len(Ins(f, b)) \in Nat /\ DOMAIN Ins(f, b) = 1 .. Len(Ins(f, b)) /\ Ins(f, b) \in Seq(Instrs(f))
  BY <1>1, GivenFacts
<1>3. k \in 1 .. Len(Ins(f, b)) /\ k \in Nat /\ k + 1 \in 1 .. End(f, b)
  BY <1>1, <1>2 DEF End
<1>4. i = Ins(f, b)[k]
  BY DEF Here
<1>5. i \in Instrs(f) /\ i \in Placed(f)
  BY <1>1, <1>2, <1>3, <1>4 DEF Placed, Range
<1>6. IsCode(f, i) /\ ~IsPhi(f, i) /\ MatchesOpcode(f.code[i])
  BY <1>5, GivenFacts
<1>7. BranchesResolved(f) /\ GraphHere(f)
  BY GivenFacts
<1>8. /\ IsTerminator(f.code[i].op) <=> k = Len(Ins(f, b)) /\ HasTerminator(f, b)
      /\ f.code[i].op = "br" => Len(Succ(f, b)) = 1
      /\ f.code[i].op = "cond_br" => Len(Succ(f, b)) = 2
  BY <1>1, <1>2, <1>3, <1>4, <1>7 DEF BranchesResolved
<1>9. Succ(f, b) \in Seq(Blocks(f)) /\ Range(Succ(f, b)) \subseteq Range(f.order)
  BY <1>1, <1>7 DEF GraphHere, Graph, IsFunction, Linked, Succ, Blocks
<1>10. f.code[i].args \in Seq(Instrs(f)) /\ f.code[i].op \in Ops
  BY <1>6 DEF IsCode
<1> HIDE DEF i, b, k
<1> QED
  BY <1>1, <1>2, <1>3, <1>4, <1>5, <1>6, <1>8, <1>9, <1>10 DEF i, b, k

\* What a step puts where, by opcode.
LEMMA EnvFitsBound ==
  ASSUME NEW f, NEW e, EnvFits(f, e), DOMAIN e = Instrs(f), NEW i \in Instrs(f), NEW w,
         NEW u, Rebound(u, e, i, w),
         f.code[i].op \in {"alloca", "param"} => w = i,
         f.code[i].op \notin {"store", "br", "cond_br", "ret"}
  PROVE  EnvFits(f, u) /\ DOMAIN u = Instrs(f)
<1>1. u[i] = w /\ DOMAIN u = Instrs(f) /\ \A j \in Instrs(f) : j # i => u[j] = e[j]
  BY DEF Rebound
<1> QED
  BY <1>1 DEF EnvFits

LEMMA GotoFits ==
  ASSUME NEW f \in Functions, NEW x, RunFits(f, x), NEW s \in Range(f.order)
  PROVE  RunFits(f, Goto(x, s))
<1> DEFINE n == Goto(x, s)
<1>1. Machine(f, x)
  BY DEF RunFits
<1>2. /\ Machine(f, n) /\ n.env = x.env /\ n.cell = x.cell
      /\ x.entered = MaxBlocks => Halted(x, n) /\ n.status = "cut"
      /\ x.entered # MaxBlocks => n.block = s /\ n.pos = 1
  BY <1>1, GotoFacts
<1> HIDE DEF n
<1>3. s \in Blocks(f) /\ Len(Ins(f, s)) \in Nat
  BY GivenFacts
<1>4. 1 \in 1 .. End(f, s)
  BY <1>3 DEF End
<1>5. n.block \in Range(f.order) /\ n.pos \in 1 .. End(f, n.block)
  BY <1>2, <1>4 DEF RunFits, Halted, SamePlace
<1> QED
  BY <1>2, <1>5 DEF RunFits, n

LEMMA HaltFits ==
  ASSUME NEW f, NEW x, RunFits(f, x), NEW n, Machine(f, n), Halted(x, n)
  PROVE  RunFits(f, n)
BY DEF RunFits, Halted, SamePlace

LEMMA AdvanceFits ==
  ASSUME NEW f \in Functions, NEW x, RunFits(f, x), x.pos <= Len(Ins(f, x.block)),
         NEW n, Machine(f, n), Advanced(x, n), DOMAIN n.cell = Instrs(f), EnvFits(f, n.env)
  PROVE  RunFits(f, n)
<1>1. n.block = x.block /\ n.pos = x.pos + 1
  BY DEF Advanced, SamePlace
<1>2. x.block \in Range(f.order) /\ x.pos + 1 \in 1 .. End(f, x.block)
  BY HereFacts
<1> QED
  BY <1>1, <1>2 DEF RunFits

LEMMA StepFits ==
  ASSUME NEW f \in Functions, NEW x, RunFits(f, x), NEW n \in Steps(f, x)
  PROVE  RunFits(f, n)
<1>1. Machine(f, x) /\ EnvFits(f, x.env) /\ DOMAIN x.env = Instrs(f) /\ DOMAIN x.cell = Instrs(f)
  BY DEF RunFits, Machine
<1>2. CASE n = Stop(x, "stuck")
  BY <1>1, <1>2, StopFacts, HaltFits
<1>3. ASSUME x.pos <= Len(Ins(f, x.block)), NEW reply, n = Execute(f, x, reply)
      PROVE  RunFits(f, n)
  <2> DEFINE i == Here(f, x)
             c == f.code[i]
             to == Succ(f, x.block)
  <2>1. /\ i \in Instrs(f) /\ ~IsPhi(f, i) /\ c.op \in Ops
        /\ c.op = "br" => Len(to) = 1
        /\ c.op = "cond_br" => Len(to) = 2
        /\ to \in Seq(Blocks(f)) /\ Range(to) \subseteq Range(f.order)
    BY <1>3, HereFacts
  <2>2. ASSUME NEW w, n = Bind(f, x, w), c.op \notin Special \/ c.op \in {"load", "call"}
        PROVE  RunFits(f, n)
    <3>1. Machine(f, n) /\ Advanced(x, n) /\ n.cell = x.cell /\ Rebound(n.env, x.env, i, w)
      BY <1>1, <2>2, BindFacts
    <3>2. c.op \notin {"store", "br", "cond_br", "ret", "alloca", "param"}
      BY <2>2 DEF Special
    <3>3. EnvFits(f, n.env)
      BY <1>1, <2>1, <3>1, <3>2, EnvFitsBound
    <3> QED
      BY <1>1, <1>3, <3>1, <3>3, AdvanceFits
  <2>3. ASSUME NEW v, n = Allot(f, x, v), c.op \in {"alloca", "param"}
        PROVE  RunFits(f, n)
    <3>1. Machine(f, n) /\ Advanced(x, n) /\ Rebound(n.cell, x.cell, i, v) /\ Rebound(n.env, x.env, i, i)
      BY <1>1, <2>3, AllotFacts
    <3>2. DOMAIN n.cell = Instrs(f)
      BY <1>1, <3>1 DEF Rebound
    <3>3. EnvFits(f, n.env)
      BY <1>1, <2>1, <2>3, <3>1, EnvFitsBound
    <3> QED
      BY <1>3, <3>1, <3>2, <3>3, AdvanceFits
  <2>4. ASSUME NEW p, NEW w, n = Store(x, p, w) PROVE RunFits(f, n)
    <3>1. Machine(f, n) /\ Advanced(x, n) /\ n.env = x.env /\ Rebound(n.cell, x.cell, p, w)
      BY <1>1, <2>4, StoreFacts
    <3>2. DOMAIN n.cell = Instrs(f)
      BY <1>1, <3>1 DEF Rebound
    <3> QED
      BY <1>1, <1>3, <3>1, <3>2, AdvanceFits
  <2>5. ASSUME NEW w, n = Call(f, x, w), c.op = "call" PROVE RunFits(f, n)
    <3>1. Machine(f, n) /\ Advanced(x, n) /\ n.cell = x.cell /\ Rebound(n.env, x.env, i, w)
      BY <1>1, <2>5, CallFacts
    <3>2. EnvFits(f, n.env)
      BY <1>1, <2>1, <2>5, <3>1, EnvFitsBound
    <3> QED
      BY <1>1, <1>3, <3>1, <3>2, AdvanceFits
  <2>6. ASSUME NEW w, n = Returned(x, w) PROVE RunFits(f, n)
    BY <1>1, <2>6, ReturnedFacts, HaltFits
  <2>7. ASSUME NEW s, n = Stop(x, s) PROVE RunFits(f, n)
    BY <1>1, <2>7, StopFacts, HaltFits
  <2>8. c.op \in {"br", "cond_br"} =>
          Head(to) \in Range(f.order) /\ to[Len(to)] \in Range(f.order)
    <3> SUFFICES ASSUME c.op \in {"br", "cond_br"}
                 PROVE  Head(to) \in Range(f.order) /\ to[Len(to)] \in Range(f.order)
      OBVIOUS
    <3>1. PICK s : s = to
      OBVIOUS
    <3>2. s \in Seq(Blocks(f)) /\ Len(s) \in {1, 2} /\ Range(s) \subseteq Range(f.order)
      BY <2>1, <3>1
    <3>3. Head(s) \in Range(s) /\ s[Len(s)] \in Range(s)
      BY <3>2 DEF Range
    <3> QED
      BY <3>1, <3>2, <3>3
  <2>9. ASSUME NEW s \in Range(f.order), n = Goto(x, s) PROVE RunFits(f, n)
    BY <2>9, GotoFits
  <2> DEFINE p == Operand(f, x, 1)
             y == Operand(f, x, 2)
  <2>10. /\ c.op = "param" => n = Allot(f, x, x.args[c.k])
         /\ c.op = "alloca" => n = Allot(f, x, Undefined)
         /\ c.op = "load" => n = IF x.cell[p] = Undefined THEN Stop(x, "trap") ELSE Bind(f, x, x.cell[p])
         /\ c.op = "store" => n = Store(x, p, y)
         /\ c.op = "call" => n = Call(f, x, reply)
         /\ c.op = "ret" => n = Returned(x, IF c.args = <<>> THEN 0 ELSE p)
         /\ c.op = "br" => n = Goto(x, Head(to))
         /\ c.op = "cond_br" => n = Goto(x, IF p = 1 THEN Head(to) ELSE to[Len(to)])
         /\ c.op \notin Special => n = IF Compute(c, p, y) = None THEN Stop(x, "trap")
                                       ELSE Bind(f, x, Compute(c, p, y))
    BY <1>3, ExecuteFacts
  <2>11. c.op # "phi"
    BY <2>1 DEF IsPhi
  <2> HIDE DEF i, c, to, p, y
  <2>12. CASE c.op \in {"br", "cond_br"}
    BY <2>8, <2>9, <2>10, <2>12
  <2>13. CASE c.op \in {"param", "alloca"}
    BY <2>3, <2>10, <2>13
  <2>14. CASE c.op = "load"
    BY <2>2, <2>7, <2>10, <2>14
  <2>15. CASE c.op \notin Special
    BY <2>2, <2>7, <2>10, <2>15
  <2>16. CASE c.op \in {"store", "call", "ret"}
    BY <2>4, <2>5, <2>6, <2>10, <2>16
  <2> QED
    BY <2>11, <2>12, <2>13, <2>14, <2>15, <2>16 DEF Special
<1>4. CASE n = StepOver(f, x)
  <2>1. CASE Succ(f, x.block) = <<>>
    BY <1>2, <1>4, <2>1 DEF StepOver
  <2>2. CASE Succ(f, x.block) # <<>>
    <3>1. PICK s : s = Succ(f, x.block)
      OBVIOUS
    <3>2. s \in Seq(Blocks(f)) /\ Range(s) \subseteq Range(f.order)
      <4>1. x.block \in Range(f.order) /\ x.block \in Blocks(f)
        BY GivenFacts DEF RunFits
      <4>2. GraphHere(f)
        BY GivenFacts
      <4> QED
        BY <3>1, <4>1, <4>2 DEF GraphHere, Graph, IsFunction, Linked, Succ, Blocks
    <3>3. Head(s) \in Range(f.order)
      <4>1. Head(s) \in Range(s)
        BY <2>2, <3>1, <3>2 DEF Range
      <4> QED
        BY <3>2, <4>1
    <3>4. n = Goto(x, Head(s))
      BY <1>4, <2>2, <3>1 DEF StepOver
    <3> QED
      BY <3>3, <3>4, GotoFits
  <2> QED
    BY <2>1, <2>2
<1> QED
  BY <1>2, <1>3, <1>4, StepCases

-----------------------------------------------------------------------------
\* The run of the promoted function beside the one of the function given.

\* What a name holds where machine y is: a phi that y has not come to yet holds
\* what it will.
Read(P, g, y, a) ==
  IF \E j \in y.pos .. Len(P[y.block]) : P[y.block][j][2] = a
  THEN y.at_entry[g.code[a].inc[y.prev]] ELSE y.env[a]

\* The names at place k of block b hold the values e of the instructions and
\* the contents c of the variables.
Carries(f, V, t, P, r, d, g, b, k, e, c, y) ==
  /\ \A i \in Avail(f, t, b, k) \ V : e[i] # Undefined => Read(P, g, y, r[i]) = e[i]
  /\ \A v \in V \cap Avail(f, t, b, k) : c[v] # Undefined =>
       d[b][k][v] # 0 /\ Read(P, g, y, d[b][k][v]) = c[v]

\* Machine y is where x is: past the phis and what is left of what x has come
\* past, or at the phis of the block that x has entered.
PlaceOf(f, V, P, b, k) == Len(P[b]) + Len(Left(f, V, b, k - 1)) + 1
Past(f, V, P, x, y) == y.pos = PlaceOf(f, V, P, x.block, x.pos)
AtPhis(f, P, x, y) ==
  x.pos = 1 /\ y.pos \in 1 .. Len(P[x.block]) /\ y.prev \in Range(Pred(f, x.block))

Alike(f, V, x, y) ==
  /\ y.status = x.status /\ y.value = x.value /\ y.block = x.block /\ y.prev = x.prev
  /\ y.entered = x.entered /\ y.args = x.args /\ y.trace = x.trace
  /\ \A p \in Instrs(f) \ V : y.cell[p] = x.cell[p]

Match(f, V, t, P, r, d, g, x, y) ==
  /\ Machine(g, y) /\ DOMAIN y.cell = Instrs(g)
  /\ Alike(f, V, x, y) /\ y.pos \in Nat /\ (Past(f, V, P, x, y) \/ AtPhis(f, P, x, y))
  /\ Carries(f, V, t, P, r, d, g, x.block, x.pos, x.env, x.cell, y)

Joint(w, s, u) == w = s \o u

\* What both functions are at the block that a run is in.
LEMMA PromotedFacts ==
  ASSUME NEW f, NEW V, NEW t, NEW P, NEW r, NEW d, NEW g, Promoted(f, V, t, P, r, d, g),
         NEW b \in Range(f.order)
  PROVE  /\ f \in Functions /\ Setting(f, V, t, P) /\ Tree(f, t) /\ b \in Blocks(f)
         /\ Joint(Ins(g, b), PhiList(P, b), All(f, V, b))
         /\ Succ(g, b) = Succ(f, b) /\ Instrs(f) \subseteq Instrs(g) /\ g.entry = f.entry
         /\ Len(P[b]) \in Nat
<1>1. Setting(f, V, t, P) /\ Kin(f, g)
  BY DEF Promoted
<1>2. f \in Functions /\ Tree(f, t)
  BY <1>1 DEF Setting
<1>3. b \in Blocks(f)
  BY <1>2, GivenFacts
<1>4. Joint(Ins(g, b), PhiList(P, b), All(f, V, b))
  BY DEF Promoted, Joint
<1>5. Succ(g, b) = Succ(f, b) /\ Instrs(f) \subseteq Instrs(g) /\ g.entry = f.entry
  BY <1>1, <1>3 DEF Kin, Keeps
<1> QED
  BY <1>1, <1>2, <1>3, <1>4, <1>5, PhiListFacts

\* What stands where in the block of the promoted function.
LEMMA JointFacts ==
  ASSUME NEW S, NEW T, NEW s \in Seq(S), NEW u \in Seq(T), NEW w, Joint(w, s, u)
  PROVE  /\ Len(s) \in Nat /\ Len(u) \in Nat /\ Len(w) = Len(s) + Len(u)
         /\ \A n \in 1 .. Len(s) : w[n] = s[n]
         /\ \A n \in 1 .. Len(u) : w[Len(s) + n] = u[n]
BY DEF Joint

LEMMA WherePhis ==
  ASSUME NEW f, NEW V, NEW t, NEW P, NEW r, NEW d, NEW g, Promoted(f, V, t, P, r, d, g),
         NEW b \in Range(f.order), NEW n \in 1 .. Len(P[b])
  PROVE  n <= Len(Ins(g, b)) /\ Ins(g, b)[n] = P[b][n][2] /\ P[b][n] \in Range(P[b])
<1>1. PICK s, u, w : s = PhiList(P, b) /\ u = All(f, V, b) /\ w = Ins(g, b)
  OBVIOUS
<1>2. Setting(f, V, t, P) /\ Joint(w, s, u)
  BY <1>1, PromotedFacts
<1>3. /\ s \in Seq(Later(f)) /\ Len(s) = Len(P[b]) /\ Len(P[b]) \in Nat
      /\ s[n] = P[b][n][2] /\ P[b][n] \in Range(P[b])
      /\ u \in Seq(Instrs(f))
  BY <1>1, <1>2, PhiListFacts
<1>4. Len(u) \in Nat /\ Len(w) = Len(s) + Len(u) /\ w[n] = s[n]
  BY <1>2, <1>3, JointFacts
<1>5. n <= Len(w) /\ w[n] = P[b][n][2]
  BY <1>3, <1>4
<1> QED
  BY <1>1, <1>3, <1>5

LEMMA WhereKept ==
  ASSUME NEW f, NEW V, NEW t, NEW P, NEW r, NEW d, NEW g, Promoted(f, V, t, P, r, d, g),
         NEW b \in Range(f.order), NEW k \in 1 .. Len(Ins(f, b)), Ins(f, b)[k] \in Kept(f, V),
         NEW n, n = PlaceOf(f, V, P, b, k)
  PROVE  /\ n \in Nat /\ n <= Len(Ins(g, b)) /\ Ins(g, b)[n] = Ins(f, b)[k] /\ n > Len(P[b])
         /\ n + 1 = PlaceOf(f, V, P, b, k + 1)
         /\ Ins(f, b)[k] \in Range(All(f, V, b))
<1>1. PICK s, u, w, z, i : s = PhiList(P, b) /\ u = All(f, V, b) /\ w = Ins(g, b)
                           /\ z = Ins(f, b) /\ i = Ins(f, b)[k]
  OBVIOUS
<1>2. Setting(f, V, t, P) /\ Joint(w, s, u) /\ f \in Functions /\ b \in Blocks(f)
  BY <1>1, PromotedFacts
<1>3. s \in Seq(Later(f)) /\ Len(s) = Len(P[b]) /\ Len(P[b]) \in Nat /\ u \in Seq(Instrs(f))
  BY <1>1, <1>2, PhiListFacts
<1>4. z \in Seq(Instrs(f)) /\ Len(z) \in Nat
  BY <1>1, <1>2, GivenFacts
<1>5. PICK m : m = k - 1
  OBVIOUS
<1>6. m \in Nat /\ m < Len(z) /\ z[m + 1] = i /\ m + 1 = k /\ (k + 1) - 1 = k
  BY <1>1, <1>4, <1>5
<1>7. u = Filtered(z, Kept(f, V))
  BY <1>1, <1>2, RestFacts DEF All
<1>8. PICK l, j : l = Len(Left(f, V, b, m)) /\ j = l + 1
  OBVIOUS
<1>9. l \in Nat /\ j \in 1 .. Len(u) /\ u[j] = i /\ Len(Left(f, V, b, k)) = l + 1
  <2>1. PICK K : K = Kept(f, V)
    OBVIOUS
  <2>2. /\ l = Len(Filtered(SubSeq(z, 1, m), K)) /\ u = Filtered(z, K)
        /\ Len(Left(f, V, b, k)) = Len(Filtered(SubSeq(z, 1, m + 1), K))
    BY <1>1, <1>6, <1>7, <1>8, <2>1 DEF Left
  <2>3. z[m + 1] \in K
    BY <1>1, <1>6, <2>1
  <2>4. /\ Len(Filtered(SubSeq(z, 1, m), K)) \in Nat
        /\ Len(Filtered(SubSeq(z, 1, m), K)) + 1 \in 1 .. Len(Filtered(z, K))
        /\ Filtered(z, K)[Len(Filtered(SubSeq(z, 1, m), K)) + 1] = z[m + 1]
        /\ Len(Filtered(SubSeq(z, 1, m + 1), K)) = Len(Filtered(SubSeq(z, 1, m), K)) + 1
    BY <1>4, <1>6, <2>3, WhereLeft
  <2> QED
    BY <1>6, <1>8, <2>2, <2>4
<1>10. Len(u) \in Nat /\ Len(w) = Len(s) + Len(u) /\ w[Len(s) + j] = u[j]
  <2>1. Joint(w, s, u) /\ s \in Seq(Later(f)) /\ u \in Seq(Instrs(f)) /\ j \in 1 .. Len(u)
    BY <1>2, <1>3, <1>9
  <2> QED
    BY <2>1, JointFacts
<1>11. PICK p, a : p = Len(P[b]) /\ a = Len(Left(f, V, b, k))
  OBVIOUS
<1>12. n = p + l + 1 /\ Len(s) = p /\ p \in Nat /\ a = j /\ j = l + 1 /\ l \in Nat
  BY <1>3, <1>5, <1>8, <1>9, <1>11 DEF PlaceOf
<1>13. n = Len(s) + j /\ n \in Nat /\ n <= Len(w) /\ w[n] = i /\ n > p /\ n + 1 = p + a + 1
  <2>1. n = Len(s) + j /\ n \in Nat /\ n > p /\ n + 1 = p + a + 1
    BY <1>12
  <2>2. j <= Len(u) /\ Len(u) \in Nat
    BY <1>9, <1>10
  <2> QED
    BY <1>9, <1>10, <1>12, <2>1, <2>2
<1>14. i \in Range(u)
  BY <1>3, <1>9 DEF Range
<1>15. PlaceOf(f, V, P, b, k + 1) = p + a + 1
  BY <1>6, <1>11 DEF PlaceOf
<1> QED
  BY <1>1, <1>11, <1>12, <1>13, <1>14, <1>15

LEMMA WhereEnd ==
  ASSUME NEW f, NEW V, NEW t, NEW P, NEW r, NEW d, NEW g, Promoted(f, V, t, P, r, d, g),
         NEW b \in Range(f.order), NEW n, n = PlaceOf(f, V, P, b, End(f, b))
  PROVE  n \in Nat /\ ~(n <= Len(Ins(g, b))) /\ n > Len(P[b])
<1>1. PICK s, u, w, z : s = PhiList(P, b) /\ u = All(f, V, b) /\ w = Ins(g, b) /\ z = Len(Ins(f, b))
  OBVIOUS
<1>2. Setting(f, V, t, P) /\ Joint(w, s, u) /\ f \in Functions /\ b \in Blocks(f)
  BY <1>1, PromotedFacts
<1>3. s \in Seq(Later(f)) /\ Len(s) = Len(P[b]) /\ Len(P[b]) \in Nat /\ u \in Seq(Instrs(f))
  BY <1>1, <1>2, PhiListFacts
<1>4. z \in Nat
  BY <1>1, <1>2, GivenFacts
<1>5. End(f, b) - 1 = z
  BY <1>1, <1>4 DEF End
<1>6. n = Len(P[b]) + Len(u) + 1
  BY <1>1, <1>5 DEF All, PlaceOf
<1>7. Len(u) \in Nat /\ Len(w) = Len(s) + Len(u)
  BY <1>2, <1>3, JointFacts
<1>8. PICK p, l, a : p = Len(P[b]) /\ l = Len(u) /\ a = Len(w)
  OBVIOUS
<1>9. n = p + l + 1 /\ a = p + l /\ p \in Nat /\ l \in Nat
  BY <1>3, <1>6, <1>7, <1>8
<1>10. n \in Nat /\ ~(n <= a) /\ n > p
  BY <1>9
<1> QED
  BY <1>1, <1>8, <1>10

-----------------------------------------------------------------------------
LEMMA ReadPast ==
  ASSUME NEW P, NEW g, NEW y, y.pos \in Nat, Len(P[y.block]) \in Nat, y.pos > Len(P[y.block]), NEW a
  PROVE  Read(P, g, y, a) = y.env[a]
<1>1. y.pos .. Len(P[y.block]) = {}
  OBVIOUS
<1> QED
  BY <1>1 DEF Read

\* The names of a place are instructions of the promoted function.
LEMMA NamesHere ==
  ASSUME NEW f, NEW V, NEW t, NEW P, NEW r, NEW d, NEW g, Promoted(f, V, t, P, r, d, g),
         NEW b \in Range(f.order), NEW k \in 1 .. End(f, b)
  PROVE  /\ Named(f, t, P, b, k) \subseteq Instrs(g)
         /\ \A a \in Avail(f, t, b, k) : r[a] \in Named(f, t, P, b, k)
         /\ \A v \in V : d[b][k][v] # 0 => d[b][k][v] \in Named(f, t, P, b, k)
<1>1. Setting(f, V, t, P) /\ Tree(f, t) /\ f \in Functions /\ Instrs(f) \subseteq Instrs(g)
  BY PromotedFacts
<1>2. Avail(f, t, b, k) \subseteq Instrs(g)
  BY <1>1, AvailFacts
<1>3. \A c \in Up(f, t, b) : Ids(P, c) \subseteq Instrs(g)
  <2> SUFFICES ASSUME NEW c \in Up(f, t, b), NEW q \in Ids(P, c) PROVE q \in Instrs(g)
    OBVIOUS
  <2>1. c \in Range(f.order)
    BY <1>1, AboveFacts
  <2>2. PICK p \in Range(P[c]) : q = p[2]
    BY DEF Ids
  <2> QED
    BY <2>1, <2>2 DEF Promoted, Incomings
<1>4. Named(f, t, P, b, k) \subseteq Instrs(g)
  BY <1>2, <1>3 DEF Named
<1>5. Through(f, V, t, P, r, d)
  BY DEF Promoted
<1>6. \A a \in Avail(f, t, b, k) : r[a] \in Named(f, t, P, b, k)
  BY <1>5 DEF Through
<1>7. Lasting(f, V, t, P, r, d, b, k)
  BY <1>5 DEF Through
<1> QED
  BY <1>4, <1>6, <1>7 DEF Lasting

LEMMA CarriesSame ==
  ASSUME NEW f, NEW V, NEW t, NEW P, NEW r, NEW d, NEW g, Promoted(f, V, t, P, r, d, g),
         NEW b \in Range(f.order), NEW k \in 1 .. End(f, b),
         NEW e, NEW c, NEW y, Carries(f, V, t, P, r, d, g, b, k, e, c, y),
         NEW m, \A a \in Instrs(g) : Read(P, g, m, a) = Read(P, g, y, a)
  PROVE  Carries(f, V, t, P, r, d, g, b, k, e, c, m)
<1>1. \A a \in Named(f, t, P, b, k) : Read(P, g, m, a) = Read(P, g, y, a)
  BY NamesHere
<1>2. /\ \A a \in Avail(f, t, b, k) : r[a] \in Named(f, t, P, b, k)
      /\ \A v \in V : d[b][k][v] # 0 => d[b][k][v] \in Named(f, t, P, b, k)
  BY NamesHere
<1> QED
  BY <1>1, <1>2 DEF Carries

\* Machine y takes the value of phi q and is m then.
TakesPhi(P, g, y, q, m) ==
  /\ y.pos \in 1 .. Len(P[y.block]) /\ Len(P[y.block]) \in Nat /\ P[y.block][y.pos][2] = q
  /\ q \in DOMAIN y.env /\ SamePlace(y, m) /\ m.pos = y.pos + 1
  /\ Rebound(m.env, y.env, q, y.at_entry[g.code[q].inc[y.prev]])

LEMMA ReadStays ==
  ASSUME NEW P, NEW g, NEW y, NEW q, NEW m, TakesPhi(P, g, y, q, m), NEW a \in DOMAIN y.env
  PROVE  Read(P, g, m, a) = Read(P, g, y, a)
<1> DEFINE N == Len(P[y.block])
           w == y.at_entry[g.code[q].inc[y.prev]]
           listed(j) == P[y.block][j][2] = a
<1>1. /\ m.block = y.block /\ m.prev = y.prev /\ m.at_entry = y.at_entry /\ m.pos = y.pos + 1
      /\ y.pos \in 1 .. N /\ N \in Nat /\ (listed(y.pos) <=> q = a) /\ q \in DOMAIN y.env
  BY DEF TakesPhi, SamePlace
<1>2. \A c : c \in DOMAIN y.env => m.env[c] = IF c = q THEN w ELSE y.env[c]
  BY DEF TakesPhi, Rebound
<1>3. m.env[a] = IF a = q THEN w ELSE y.env[a]
  BY <1>2
<1>4. \A j \in y.pos .. N : j = y.pos \/ j \in m.pos .. N
  BY <1>1
<1>5. \A j \in m.pos .. N : j \in y.pos .. N
  BY <1>1
<1>6. Read(P, g, y, a) = IF \E j \in y.pos .. N : listed(j)
                         THEN y.at_entry[g.code[a].inc[y.prev]] ELSE y.env[a]
  BY DEF Read
<1>7. Read(P, g, m, a) = IF \E j \in m.pos .. N : listed(j)
                         THEN y.at_entry[g.code[a].inc[y.prev]] ELSE m.env[a]
  BY <1>1 DEF Read
<1>8. y.pos \in y.pos .. N
  BY <1>1
<1> HIDE DEF N, listed
<1>9. CASE \E j \in m.pos .. N : listed(j)
  BY <1>5, <1>6, <1>7, <1>9
<1>10. CASE ~(\E j \in m.pos .. N : listed(j)) /\ a = q
  BY <1>1, <1>3, <1>6, <1>7, <1>8, <1>10
<1>11. CASE ~(\E j \in m.pos .. N : listed(j)) /\ a # q
  <2>1. ~(\E j \in y.pos .. N : listed(j))
    BY <1>1, <1>4, <1>11
  <2> QED
    BY <1>3, <1>6, <1>7, <1>11, <2>1
<1> QED
  BY <1>9, <1>10, <1>11

\* The new run takes the value of a phi.
LEMMA MatchAtPhi ==
  ASSUME NEW f, NEW V, NEW t, NEW P, NEW r, NEW d, NEW g, Promoted(f, V, t, P, r, d, g),
         Complete(f, P, g), NEW x, x.block \in Range(f.order),
         NEW y, Match(f, V, t, P, r, d, g, x, y), AtPhis(f, P, x, y), NEW m \in Steps(g, y)
  PROVE  Match(f, V, t, P, r, d, g, x, m)
<1>0. PICK b, n, q, w : /\ b = x.block /\ n = y.pos /\ q = P[b][n][2]
                        /\ w = y.at_entry[g.code[q].inc[y.prev]]
  OBVIOUS
<1>1. /\ Machine(g, y) /\ DOMAIN y.cell = Instrs(g) /\ Alike(f, V, x, y) /\ n \in Nat
      /\ Carries(f, V, t, P, r, d, g, x.block, x.pos, x.env, x.cell, y)
  BY <1>0 DEF Match
<1>2. y.block = b
  BY <1>0, <1>1 DEF Alike
<1>3. x.pos = 1 /\ n \in 1 .. Len(P[b]) /\ y.prev \in Range(Pred(f, b))
  BY <1>0 DEF AtPhis
<1>4. b \in Range(f.order) /\ Len(P[b]) \in Nat
  BY <1>0, PromotedFacts
<1>5. n <= Len(Ins(g, b)) /\ Ins(g, b)[n] = q /\ P[b][n] \in Range(P[b])
  <2>1. n <= Len(Ins(g, b)) /\ Ins(g, b)[n] = P[b][n][2] /\ P[b][n] \in Range(P[b])
    BY <1>3, <1>4, WherePhis
  <2> QED
    BY <1>0, <2>1
<1>6. Here(g, y) = q
  BY <1>0, <1>2, <1>5 DEF Here
<1>7. q \in Instrs(g) /\ IsPhi(g, q)
  BY <1>0, <1>4, <1>5 DEF Promoted, Incomings
<1>8. y.prev \in DOMAIN g.code[q].inc
  BY <1>0, <1>3, <1>4, <1>5 DEF Complete
<1>9. PICK reply : m = Execute(g, y, reply)
  BY <1>0, <1>2, <1>5, <1>6, <1>7, StepCases
<1>10. m = Bind(g, y, w)
  <2>1. g.code[q].op = "phi"
    BY <1>7 DEF IsPhi
  <2>2. g.code[Here(g, y)].op = "phi" => Execute(g, y, reply) =
          IF y.prev \in DOMAIN g.code[Here(g, y)].inc
          THEN Bind(g, y, y.at_entry[g.code[Here(g, y)].inc[y.prev]])
          ELSE Stop(y, "stuck")
    BY ExecuteFacts
  <2>3. w = y.at_entry[g.code[q].inc[y.prev]]
    BY <1>0
  <2> QED
    BY ONLY <1>6, <1>8, <1>9, <2>1, <2>2, <2>3
<1>11. /\ Machine(g, m) /\ Advanced(y, m) /\ m.cell = y.cell /\ m.trace = y.trace
       /\ Rebound(m.env, y.env, q, w)
  BY <1>1, <1>6, <1>10, BindFacts
<1>12. TakesPhi(P, g, y, q, m)
  <2>1. /\ y.pos \in 1 .. Len(P[y.block]) /\ Len(P[y.block]) \in Nat
        /\ P[y.block][y.pos][2] = q
    BY <1>0, <1>2, <1>3, <1>4
  <2>2. q \in DOMAIN y.env /\ SamePlace(y, m) /\ m.pos = y.pos + 1
    BY <1>1, <1>7, <1>11 DEF Advanced, Machine
  <2>3. Rebound(m.env, y.env, q, y.at_entry[g.code[q].inc[y.prev]])
    BY <1>0, <1>11
  <2> QED
    BY <2>1, <2>2, <2>3 DEF TakesPhi
<1>13. Carries(f, V, t, P, r, d, g, x.block, x.pos, x.env, x.cell, m)
  <2>1. \A a \in DOMAIN y.env : Read(P, g, m, a) = Read(P, g, y, a)
    BY <1>12, ReadStays
  <2>2. DOMAIN y.env = Instrs(g)
    BY <1>1 DEF Machine
  <2>3. x.pos \in 1 .. End(f, x.block)
    <3>1. f \in Functions /\ b \in Blocks(f)
      BY <1>4, PromotedFacts
    <3>2. Len(Ins(f, b)) \in Nat
      BY <3>1, GivenFacts
    <3>3. 1 \in 1 .. Len(Ins(f, b)) + 1
      BY <3>2
    <3> QED
      BY <1>0, <1>3, <3>3 DEF End
  <2> QED
    BY <1>1, <2>1, <2>2, <2>3, CarriesSame
<1>14. Alike(f, V, x, m)
  BY <1>1, <1>11 DEF Alike, Advanced, SamePlace
<1>15. m.pos = n + 1 /\ m.prev = y.prev
  BY <1>0, <1>11 DEF Advanced, SamePlace
<1>16. m.pos \in Nat /\ (Past(f, V, P, x, m) \/ AtPhis(f, P, x, m))
  <2>1. PICK N : N = Len(P[b])
    OBVIOUS
  <2>2. n \in 1 .. N /\ N \in Nat
    BY <1>3, <1>4, <2>1
  <2>3. m.pos \in Nat /\ (m.pos \in 1 .. N \/ m.pos = N + 1)
    BY <1>15, <2>2
  <2>4. PlaceOf(f, V, P, b, 1) = N + 1
    BY <2>1, <2>2, LeftNone DEF PlaceOf
  <2> QED
    BY <1>0, <1>3, <1>15, <2>1, <2>3, <2>4 DEF Past, AtPhis
<1>17. Machine(g, m) /\ DOMAIN m.cell = Instrs(g)
  BY <1>1, <1>11
<1> QED
  BY <1>13, <1>14, <1>16, <1>17 DEF Match

-----------------------------------------------------------------------------
\* The names at a place and at the one after it.
LEMMA PlaceNames ==
  ASSUME NEW f, NEW V, NEW t, NEW P, NEW r, NEW d, NEW g, Promoted(f, V, t, P, r, d, g),
         NEW b \in Range(f.order), NEW k \in 1 .. Len(Ins(f, b))
  PROVE  /\ Flow(f, V, r, d, b, k) /\ d[b][k] \in [V -> Nat]
         /\ k \in 1 .. End(f, b) /\ k + 1 \in 1 .. End(f, b)
         /\ Ins(f, b)[k] \notin Avail(f, t, b, k)
         /\ Avail(f, t, b, k + 1) = Avail(f, t, b, k) \cup {Ins(f, b)[k]}
         /\ \A a \in Avail(f, t, b, k) :
              r[a] \in Named(f, t, P, b, k) /\ r[a] # 0 /\ (f.code[a].op # "load" => r[a] = a)
         /\ \A v \in V : d[b][k][v] # 0 => d[b][k][v] \in Named(f, t, P, b, k)
         /\ Ins(f, b)[k] \notin Named(f, t, P, b, k)
<1>1. Setting(f, V, t, P) /\ Through(f, V, t, P, r, d) /\ f \in Functions /\ b \in Blocks(f) /\ Tree(f, t)
  BY PromotedFacts DEF Promoted
<1>2. Len(Ins(f, b)) \in Nat
  BY <1>1, GivenFacts
<1>3. k \in 1 .. End(f, b) /\ k + 1 \in 1 .. End(f, b) /\ k # End(f, b) /\ k \in Nat
  BY <1>2 DEF End
<1>4. Ins(f, b)[k] \notin Avail(f, t, b, k) /\ Ins(f, b)[k] \in Instrs(f)
      /\ Avail(f, t, b, k + 1) = Avail(f, t, b, k) \cup {Ins(f, b)[k]}
  BY <1>1, <1>3, AvailFacts, PlaceFacts
<1>5. Flow(f, V, r, d, b, k)
  BY <1>1 DEF Through
<1>6. d[b][k] \in [V -> Nat]
  <2>1. d \in [Blocks(f) -> [Nat -> [V -> Nat]]]
    BY <1>1 DEF Through
  <2>2. d[b] \in [Nat -> [V -> Nat]]
    BY <1>1, <2>1
  <2> QED
    BY <1>3, <2>2
<1>7. Lasting(f, V, t, P, r, d, b, k)
      /\ \A a \in Avail(f, t, b, k) : r[a] \in Named(f, t, P, b, k) /\ (f.code[a].op # "load" => r[a] = a)
  BY <1>1, <1>3 DEF Through
<1>8. \A v \in V : d[b][k][v] # 0 => d[b][k][v] \in Named(f, t, P, b, k)
  BY <1>7 DEF Lasting
<1>9. Named(f, t, P, b, k) \subseteq Nat \ {0}
      /\ \A i \in Instrs(f) : i \in Named(f, t, P, b, k) => i \in Avail(f, t, b, k)
  BY <1>1, <1>3, NamedFacts
<1> QED
  BY <1>3, <1>4, <1>5, <1>6, <1>7, <1>8, <1>9

\* The old run goes on from place k of block b, where it holds e and its
\* variables c, and holds u and z then; the new run goes from y to m.
MovesOn(f, V, t, P, r, d, g, b, k, e, c, y, u, z, m) ==
  LET i == Ins(f, b)[k]
  IN  /\ \A a \in Named(f, t, P, b, k) : Read(P, g, m, a) = Read(P, g, y, a)
      /\ \A j \in Avail(f, t, b, k) : u[j] = e[j] \/ j \in V
      /\ i \notin V /\ u[i] # Undefined => Read(P, g, m, r[i]) = u[i]
      /\ \A v \in V : z[v] # Undefined =>
           \/ z[v] = c[v] /\ v # i /\ d[b][k + 1][v] = d[b][k][v]
           \/ d[b][k + 1][v] # 0 /\ Read(P, g, m, d[b][k + 1][v]) = z[v]

LEMMA CarriesOn ==
  ASSUME NEW f, NEW V, NEW t, NEW P, NEW r, NEW d, NEW g, Promoted(f, V, t, P, r, d, g),
         NEW b \in Range(f.order), NEW k \in 1 .. Len(Ins(f, b)),
         NEW e, NEW c, NEW y, Carries(f, V, t, P, r, d, g, b, k, e, c, y),
         NEW u, NEW z, NEW m, MovesOn(f, V, t, P, r, d, g, b, k, e, c, y, u, z, m)
  PROVE  Carries(f, V, t, P, r, d, g, b, k + 1, u, z, m)
<1>1. PICK i, A, N : i = Ins(f, b)[k] /\ A = Avail(f, t, b, k) /\ N = Named(f, t, P, b, k)
  OBVIOUS
<1>2. /\ Avail(f, t, b, k + 1) = A \cup {i}
      /\ \A a \in A : r[a] \in N
      /\ \A v \in V : d[b][k][v] # 0 => d[b][k][v] \in N
  BY <1>1, PlaceNames
<1>3. /\ \A a \in N : Read(P, g, m, a) = Read(P, g, y, a)
      /\ \A j \in A : u[j] = e[j] \/ j \in V
      /\ i \notin V /\ u[i] # Undefined => Read(P, g, m, r[i]) = u[i]
      /\ \A v \in V : z[v] # Undefined =>
           \/ z[v] = c[v] /\ v # i /\ d[b][k + 1][v] = d[b][k][v]
           \/ d[b][k + 1][v] # 0 /\ Read(P, g, m, d[b][k + 1][v]) = z[v]
  BY <1>1 DEF MovesOn
<1>4. /\ \A j \in A \ V : e[j] # Undefined => Read(P, g, y, r[j]) = e[j]
      /\ \A v \in V \cap A : c[v] # Undefined =>
           d[b][k][v] # 0 /\ Read(P, g, y, d[b][k][v]) = c[v]
  BY <1>1 DEF Carries
<1>5. ASSUME NEW j \in (A \cup {i}) \ V, u[j] # Undefined
      PROVE  Read(P, g, m, r[j]) = u[j]
  <2>1. CASE j = i
    BY <1>3, <1>5, <2>1
  <2>2. CASE j # i
    <3>1. j \in A /\ j \notin V /\ u[j] = e[j]
      BY <1>3, <1>5, <2>2
    <3>2. Read(P, g, y, r[j]) = e[j] /\ r[j] \in N
      BY <1>2, <1>4, <1>5, <3>1
    <3> QED
      BY <1>3, <3>1, <3>2
  <2> QED
    BY <2>1, <2>2
<1>6. ASSUME NEW v \in V \cap (A \cup {i}), z[v] # Undefined
      PROVE  d[b][k + 1][v] # 0 /\ Read(P, g, m, d[b][k + 1][v]) = z[v]
  <2>1. CASE d[b][k + 1][v] # 0 /\ Read(P, g, m, d[b][k + 1][v]) = z[v]
    BY <2>1
  <2>2. CASE z[v] = c[v] /\ v # i /\ d[b][k + 1][v] = d[b][k][v]
    <3>1. v \in A /\ c[v] # Undefined
      BY <1>6, <2>2
    <3>2. d[b][k][v] # 0 /\ Read(P, g, y, d[b][k][v]) = c[v]
      BY <1>4, <1>6, <3>1
    <3>3. d[b][k][v] \in N
      BY <1>2, <1>6, <3>2
    <3> QED
      BY <1>3, <2>2, <3>2, <3>3
  <2> QED
    BY <1>3, <1>6, <2>1, <2>2
<1> HIDE <1>2
<1>7. Avail(f, t, b, k + 1) = A \cup {i}
  BY <1>2
<1> QED
  BY <1>5, <1>6, <1>7 DEF Carries

\* An instruction that has gone takes no place.
LEMMA PlaceDropped ==
  ASSUME NEW f \in Functions, NEW V, NEW P, NEW b \in Blocks(f), NEW k \in 1 .. Len(Ins(f, b)),
         Ins(f, b)[k] \notin Kept(f, V)
  PROVE  PlaceOf(f, V, P, b, k + 1) = PlaceOf(f, V, P, b, k)
<1>1. PICK m : m = k - 1
  OBVIOUS
<1>2. Len(Ins(f, b)) \in Nat
  BY GivenFacts
<1>3. m \in Nat /\ m < Len(Ins(f, b)) /\ m + 1 = k /\ (k + 1) - 1 = k
  BY <1>1, <1>2
<1>4. Left(f, V, b, m + 1) = Left(f, V, b, m)
  <2>1. PICK j : j = Ins(f, b)[m + 1]
    OBVIOUS
  <2>2. j \notin Kept(f, V)
    BY <1>3, <2>1
  <2>3. m \in Nat /\ m < Len(Ins(f, b))
    BY <1>3
  <2>4. Left(f, V, b, m + 1) = IF j \in Kept(f, V) THEN Append(Left(f, V, b, m), j) ELSE Left(f, V, b, m)
    BY <2>1, <2>3, LeftFacts
  <2> QED
    BY ONLY <2>2, <2>4
<1>5. Left(f, V, b, (k + 1) - 1) = Left(f, V, b, k - 1)
  BY <1>1, <1>3, <1>4
<1> QED
  BY <1>5 DEF PlaceOf

\* The old run has come past an instruction that has gone.
LEMMA DroppedMatch ==
  ASSUME NEW f, NEW V, NEW t, NEW P, NEW r, NEW d, NEW g,
         NEW x, NEW y, Match(f, V, t, P, r, d, g, x, y), Past(f, V, P, x, y),
         NEW n, Advanced(x, n), n.trace = x.trace, \A p \in Instrs(f) \ V : n.cell[p] = x.cell[p],
         PlaceOf(f, V, P, x.block, x.pos + 1) = PlaceOf(f, V, P, x.block, x.pos),
         Carries(f, V, t, P, r, d, g, x.block, x.pos + 1, n.env, n.cell, y)
  PROVE  Match(f, V, t, P, r, d, g, n, y)
<1>1. /\ n.block = x.block /\ n.prev = x.prev /\ n.entered = x.entered /\ n.args = x.args
      /\ n.pos = x.pos + 1 /\ n.status = x.status /\ n.value = x.value
  BY DEF Advanced, SamePlace
<1>2. Alike(f, V, n, y)
  <2>1. Alike(f, V, x, y)
    BY DEF Match
  <2> QED
    BY <1>1, <2>1 DEF Alike
<1>3. Past(f, V, P, n, y)
  BY <1>1 DEF Past
<1>4. Carries(f, V, t, P, r, d, g, n.block, n.pos, n.env, n.cell, y)
  BY <1>1
<1>5. Machine(g, y) /\ DOMAIN y.cell = Instrs(g) /\ y.pos \in Nat
  BY DEF Match
<1> QED
  BY <1>2, <1>3, <1>4, <1>5 DEF Match

-----------------------------------------------------------------------------
\* The new run keeps up with the old one, which may have trapped or had no
\* value to go on with.
Follows(f, V, t, P, r, d, g, x, y) ==
  \/ Match(f, V, t, P, r, d, g, x, y)
  \/ x.status \in {"trap", "stuck"} /\ Continues(y.trace, x.trace)

LEMMA ReboundFacts ==
  ASSUME NEW I, NEW e, DOMAIN e = I, NEW i \in I, NEW w, NEW u, Rebound(u, e, i, w)
  PROVE  DOMAIN u = I /\ u[i] = w /\ \A j \in I : j # i => u[j] = e[j]
BY DEF Rebound

LEMMA StoppedFollows ==
  ASSUME NEW f, NEW V, NEW t, NEW P, NEW r, NEW d, NEW g, NEW x, Machine(f, x),
         NEW y, Continues(y.trace, x.trace), NEW s \in {"trap", "stuck"}, NEW n, n = Stop(x, s)
  PROVE  Follows(f, V, t, P, r, d, g, n, y)
<1>1. n.status = s /\ Halted(x, n)
  BY StopFacts
<1>2. n.trace = x.trace
  BY <1>1 DEF Halted
<1> QED
  BY <1>1, <1>2 DEF Follows

\* The place where the old run is.
AtPlace(f, x, b, k, i, c) ==
  b = x.block /\ k = x.pos /\ i = Here(f, x) /\ c = f.code[i] /\ k <= Len(Ins(f, b))

LEMMA HerePlace ==
  ASSUME NEW f, NEW V, NEW t, NEW P, NEW r, NEW d, NEW g, Promoted(f, V, t, P, r, d, g),
         NEW x, RunFits(f, x), NEW b, NEW k, NEW i, NEW c, AtPlace(f, x, b, k, i, c)
  PROVE  /\ f \in Functions /\ Tree(f, t) /\ b \in Range(f.order) /\ b \in Blocks(f)
         /\ k \in 1 .. Len(Ins(f, b)) /\ i = Ins(f, b)[k] /\ i \in Instrs(f) /\ i \in Placed(f)
         /\ c.args \in Seq(Instrs(f)) /\ c.op \in Ops /\ MatchesOpcode(c) /\ c.op # "phi"
         /\ \A n \in DOMAIN c.args :
              /\ c.args[n] \in Avail(f, t, b, k) /\ c.args[n] \in Instrs(f)
              /\ f.code[c.args[n]].op = "alloca" => c.op \in {"load", "store"} /\ n = 1
         /\ c.op = "alloca" <=> i \in V
         /\ V \subseteq Instrs(f) /\ Avail(f, t, b, k) \subseteq Instrs(f)
         /\ \A v \in V : f.code[v].op = "alloca"
         /\ \A v \in Avail(f, t, b, k) : f.code[v].op = "alloca" => v \in V
         /\ i \notin Avail(f, t, b, k)
<1>1. f \in Functions /\ Setting(f, V, t, P) /\ Tree(f, t)
  BY DEF Promoted, Setting
<1>2. /\ b \in Range(f.order) /\ b \in Blocks(f) /\ k \in 1 .. Len(Ins(f, b)) /\ i = Ins(f, b)[k]
      /\ i \in Instrs(f) /\ i \in Placed(f) /\ c.args \in Seq(Instrs(f)) /\ c.op \in Ops
      /\ MatchesOpcode(c) /\ ~IsPhi(f, i)
  BY <1>1, HereFacts DEF AtPlace
<1>3. c = f.code[i]
  BY DEF AtPlace
<1>4. c.op # "phi"
  BY <1>2, <1>3 DEF IsPhi
<1>5. \A n \in DOMAIN c.args : c.args[n] \in Range(c.args) /\ c.args[n] \in Instrs(f)
  BY <1>2 DEF Range
<1>6. \A n \in DOMAIN c.args : c.args[n] \in Avail(f, t, b, k)
  <2> SUFFICES ASSUME NEW n \in DOMAIN c.args PROVE c.args[n] \in Avail(f, t, b, k)
    OBVIOUS
  <2>1. c.args[n] \in Range(f.code[Ins(f, b)[k]].args)
    BY <1>2, <1>3, <1>5
  <2> QED
    BY <1>1, <1>2, <2>1, OperandsAvail
<1>7. \A n \in DOMAIN c.args : f.code[c.args[n]].op = "alloca" => c.op \in {"load", "store"} /\ n = 1
  <2>1. AddressesOnly(f)
    BY <1>1, GivenFacts
  <2> QED
    BY <1>2, <1>3, <2>1 DEF AddressesOnly
<1>8. V = {j \in Placed(f) : f.code[j].op = "alloca"}
  BY <1>1 DEF Setting
<1>9. V \subseteq Instrs(f)
  BY <1>1, SettingFacts
<1>10. Avail(f, t, b, k) \subseteq Placed(f) \cap Instrs(f)
  <2>1. Len(Ins(f, b)) \in Nat
    BY <1>1, <1>2, GivenFacts
  <2>2. k \in 1 .. End(f, b)
    BY <1>2, <2>1 DEF End
  <2> QED
    BY <1>1, <1>2, <2>2, AvailFacts
<1>11. i \notin Avail(f, t, b, k)
  BY <1>2, PlaceNames
<1> QED
  BY <1>1, <1>2, <1>3, <1>4, <1>5, <1>6, <1>7, <1>8, <1>9, <1>10, <1>11

\* What both runs hold where the old one is.
LEMMA MatchHere ==
  ASSUME NEW f, NEW V, NEW t, NEW P, NEW r, NEW d, NEW g,
         NEW x, RunFits(f, x), NEW y, Match(f, V, t, P, r, d, g, x, y),
         NEW b, NEW k, NEW i, NEW c, AtPlace(f, x, b, k, i, c)
  PROVE  /\ Machine(f, x) /\ DOMAIN x.env = Instrs(f) /\ DOMAIN x.cell = Instrs(f)
         /\ EnvFits(f, x.env) /\ y.trace = x.trace /\ Continues(x.trace, x.trace)
         /\ Carries(f, V, t, P, r, d, g, b, k, x.env, x.cell, y)
<1>1. Machine(f, x) /\ DOMAIN x.cell = Instrs(f) /\ EnvFits(f, x.env)
  BY DEF RunFits
<1>2. DOMAIN x.env = Instrs(f) /\ \E S : x.trace \in Seq(S)
  BY <1>1 DEF Machine
<1>3. Alike(f, V, x, y) /\ Carries(f, V, t, P, r, d, g, b, k, x.env, x.cell, y)
  BY DEF Match, AtPlace
<1>4. y.trace = x.trace
  BY <1>3 DEF Alike
<1> QED
  BY <1>1, <1>2, <1>3, <1>4, ContinuesFacts

\* The old run allots the cell of a variable.
LEMMA DroppedAlloca ==
  ASSUME NEW f, NEW V, NEW t, NEW P, NEW r, NEW d, NEW g, Promoted(f, V, t, P, r, d, g),
         NEW x, RunFits(f, x), NEW y, Match(f, V, t, P, r, d, g, x, y), Past(f, V, P, x, y),
         NEW b, NEW k, NEW i, NEW c, AtPlace(f, x, b, k, i, c), c.op = "alloca",
         NEW n, n = Allot(f, x, Undefined)
  PROVE  Match(f, V, t, P, r, d, g, n, y)
<1>1. /\ f \in Functions /\ b \in Range(f.order) /\ b \in Blocks(f)
      /\ k \in 1 .. Len(Ins(f, b)) /\ i = Ins(f, b)[k] /\ i \in Instrs(f) /\ i \in V
      /\ Avail(f, t, b, k) \subseteq Instrs(f) /\ V \subseteq Instrs(f) /\ i \notin Avail(f, t, b, k)
  BY HerePlace
<1>2. /\ Machine(f, x) /\ DOMAIN x.env = Instrs(f) /\ DOMAIN x.cell = Instrs(f)
      /\ Carries(f, V, t, P, r, d, g, b, k, x.env, x.cell, y)
  BY MatchHere
<1>3. b = x.block /\ k = x.pos /\ i = Here(f, x) /\ c = f.code[i]
  BY DEF AtPlace
<1>4. /\ Advanced(x, n) /\ n.trace = x.trace
      /\ Rebound(n.cell, x.cell, i, Undefined) /\ Rebound(n.env, x.env, i, i)
  BY <1>2, <1>3, AllotFacts
<1>5. n.cell[i] = Undefined /\ \A j \in Instrs(f) : j # i => n.cell[j] = x.cell[j]
  BY <1>1, <1>2, <1>4, ReboundFacts
<1>6. \A j \in Instrs(f) : j # i => n.env[j] = x.env[j]
  BY <1>1, <1>2, <1>4, ReboundFacts
<1>7. d[b][k + 1] = d[b][k]
  <2>1. Flow(f, V, r, d, b, k)
    BY <1>1, PlaceNames
  <2> QED
    BY <1>1, <1>3, <2>1 DEF Flow, After, IsStore
<1>8. MovesOn(f, V, t, P, r, d, g, b, k, x.env, x.cell, y, n.env, n.cell, y)
  BY <1>1, <1>5, <1>6, <1>7 DEF MovesOn
<1>9. Carries(f, V, t, P, r, d, g, b, k + 1, n.env, n.cell, y)
  BY <1>1, <1>2, <1>8, CarriesOn
<1>10. PlaceOf(f, V, P, b, k + 1) = PlaceOf(f, V, P, b, k)
  <2>1. i \notin Kept(f, V)
    BY <1>3 DEF Kept, IsMem
  <2> QED
    BY <1>1, <2>1, PlaceDropped
<1>11. \A p \in Instrs(f) \ V : n.cell[p] = x.cell[p]
  BY <1>1, <1>5
<1> QED
  BY <1>3, <1>4, <1>9, <1>10, <1>11, DroppedMatch

-----------------------------------------------------------------------------
\* The variable that an access reads or writes, and that the pass has promoted.
Accessed(f, V, t, x, b, k, c, v) ==
  /\ v = c.args[1] /\ v \in V /\ v \in Avail(f, t, b, k) /\ Operand(f, x, 1) = v
  /\ OperandsDefined(f, x)

LEMMA AccessPlace ==
  ASSUME NEW f, NEW V, NEW t, NEW P, NEW r, NEW d, NEW g, Promoted(f, V, t, P, r, d, g),
         NEW x, RunFits(f, x), NEW b, NEW k, NEW i, NEW c, AtPlace(f, x, b, k, i, c),
         c.op \in {"load", "store"}, i \notin Kept(f, V), OperandsDefined(f, x),
         NEW v, v = c.args[1]
  PROVE  Accessed(f, V, t, x, b, k, c, v)
<1>1. /\ i \in Instrs(f) /\ c.args \in Seq(Instrs(f)) /\ MatchesOpcode(c)
      /\ \A u \in V : f.code[u].op = "alloca"
      /\ \A n \in DOMAIN c.args : c.args[n] \in Avail(f, t, b, k) /\ c.args[n] \in Instrs(f)
  BY HerePlace
<1>2. c = f.code[i] /\ i = Here(f, x)
  BY DEF AtPlace
<1>3. IsMem(f, V, i)
  BY <1>1 DEF Kept
<1>4. v \in V
  BY <1>2, <1>3 DEF IsMem
<1>5. 1 \in DOMAIN c.args
  BY <1>1 DEF MatchesOpcode
<1>6. v \in Avail(f, t, b, k) /\ v \in Instrs(f) /\ f.code[v].op = "alloca"
  BY <1>1, <1>4, <1>5
<1>7. v \in Range(c.args)
  BY <1>5 DEF Range
<1>8. x.env[v] # Undefined
  BY <1>2, <1>7 DEF OperandsDefined
<1>9. EnvFits(f, x.env)
  BY DEF RunFits
<1>10. x.env[v] = v
  BY <1>6, <1>8, <1>9 DEF EnvFits
<1>11. Operand(f, x, 1) = v
  BY <1>2, <1>10 DEF Operand
<1> QED
  BY <1>4, <1>6, <1>11 DEF Accessed

\* The old run reads a variable.
LEMMA DroppedLoad ==
  ASSUME NEW f, NEW V, NEW t, NEW P, NEW r, NEW d, NEW g, Promoted(f, V, t, P, r, d, g),
         NEW x, RunFits(f, x), NEW y, Match(f, V, t, P, r, d, g, x, y), Past(f, V, P, x, y),
         NEW b, NEW k, NEW i, NEW c, AtPlace(f, x, b, k, i, c), c.op = "load",
         i \notin Kept(f, V), NEW v, Accessed(f, V, t, x, b, k, c, v),
         x.cell[v] # Undefined, NEW n, n = Bind(f, x, x.cell[v])
  PROVE  Match(f, V, t, P, r, d, g, n, y)
<1>1. /\ f \in Functions /\ b \in Range(f.order) /\ b \in Blocks(f)
      /\ k \in 1 .. Len(Ins(f, b)) /\ i = Ins(f, b)[k] /\ i \in Instrs(f) /\ (c.op = "alloca" <=> i \in V)
      /\ Avail(f, t, b, k) \subseteq Instrs(f) /\ V \subseteq Instrs(f) /\ i \notin Avail(f, t, b, k)
  BY HerePlace
<1>2. /\ Machine(f, x) /\ DOMAIN x.env = Instrs(f) /\ DOMAIN x.cell = Instrs(f)
      /\ Carries(f, V, t, P, r, d, g, b, k, x.env, x.cell, y)
  BY MatchHere
<1>3. b = x.block /\ k = x.pos /\ i = Here(f, x) /\ c = f.code[i]
  BY DEF AtPlace
<1> DEFINE w == x.cell[v]
<1> HIDE DEF w
<1>4. /\ Advanced(x, n) /\ n.trace = x.trace /\ n.cell = x.cell /\ Rebound(n.env, x.env, i, w)
  BY <1>2, <1>3, BindFacts DEF w
<1>5. n.env[i] = w /\ \A j \in Instrs(f) : j # i => n.env[j] = x.env[j]
  BY <1>1, <1>2, <1>4, ReboundFacts
<1>6. v \in V /\ v = c.args[1] /\ v \in Avail(f, t, b, k)
  BY DEF Accessed
<1>7. d[b][k + 1] = d[b][k] /\ r[i] = NameOf(f, V, d, b, k)
  <2>1. Flow(f, V, r, d, b, k)
    BY <1>1, PlaceNames
  <2> QED
    BY <1>1, <1>3, <2>1 DEF Flow, After, IsStore
<1>8. d[b][k][v] # 0 /\ Read(P, g, y, d[b][k][v]) = w
  BY <1>2, <1>6 DEF Carries, w
<1>9. r[i] = d[b][k][v]
  BY <1>1, <1>3, <1>6, <1>7, <1>8 DEF NameOf, IsLoad
<1>10. i \notin V
  BY <1>1
<1>11. \A u \in V : u # i
  BY <1>10
<1>12. MovesOn(f, V, t, P, r, d, g, b, k, x.env, x.cell, y, n.env, n.cell, y)
  <2>1. \A j \in Avail(f, t, b, k) : n.env[j] = x.env[j]
    BY <1>1, <1>5
  <2>2. Read(P, g, y, r[i]) = n.env[i]
    BY <1>5, <1>8, <1>9
  <2> QED
    BY <1>1, <1>4, <1>7, <1>11, <2>1, <2>2 DEF MovesOn
<1>13. Carries(f, V, t, P, r, d, g, b, k + 1, n.env, n.cell, y)
  BY <1>1, <1>2, <1>12, CarriesOn
<1>14. PlaceOf(f, V, P, b, k + 1) = PlaceOf(f, V, P, b, k)
  BY <1>1, PlaceDropped
<1>15. \A p \in Instrs(f) \ V : n.cell[p] = x.cell[p]
  BY <1>4
<1> QED
  BY <1>3, <1>4, <1>13, <1>14, <1>15, DroppedMatch

\* The old run writes a variable.
LEMMA DroppedStore ==
  ASSUME NEW f, NEW V, NEW t, NEW P, NEW r, NEW d, NEW g, Promoted(f, V, t, P, r, d, g),
         NEW x, RunFits(f, x), NEW y, Match(f, V, t, P, r, d, g, x, y), Past(f, V, P, x, y),
         NEW b, NEW k, NEW i, NEW c, AtPlace(f, x, b, k, i, c), c.op = "store",
         i \notin Kept(f, V), NEW v, Accessed(f, V, t, x, b, k, c, v),
         NEW w, w = Operand(f, x, 2), NEW n, n = Store(x, v, w)
  PROVE  Match(f, V, t, P, r, d, g, n, y)
<1>1. /\ f \in Functions /\ b \in Range(f.order) /\ b \in Blocks(f)
      /\ k \in 1 .. Len(Ins(f, b)) /\ i = Ins(f, b)[k] /\ i \in Instrs(f) /\ (c.op = "alloca" <=> i \in V)
      /\ Avail(f, t, b, k) \subseteq Instrs(f) /\ V \subseteq Instrs(f) /\ i \notin Avail(f, t, b, k)
      /\ c.args \in Seq(Instrs(f)) /\ MatchesOpcode(c)
      /\ \A m \in DOMAIN c.args :
              /\ c.args[m] \in Avail(f, t, b, k) /\ c.args[m] \in Instrs(f)
              /\ f.code[c.args[m]].op = "alloca" => c.op \in {"load", "store"} /\ m = 1
      /\ \A u \in V : f.code[u].op = "alloca"
  BY HerePlace
<1>2. /\ Machine(f, x) /\ DOMAIN x.env = Instrs(f) /\ DOMAIN x.cell = Instrs(f) /\ EnvFits(f, x.env)
      /\ Carries(f, V, t, P, r, d, g, b, k, x.env, x.cell, y)
  BY MatchHere
<1>3. b = x.block /\ k = x.pos /\ i = Here(f, x) /\ c = f.code[i]
  BY DEF AtPlace
<1>4. v \in V /\ v = c.args[1] /\ v \in Avail(f, t, b, k) /\ OperandsDefined(f, x)
  BY DEF Accessed
<1>5. /\ Advanced(x, n) /\ n.trace = x.trace /\ n.env = x.env /\ Rebound(n.cell, x.cell, v, w)
  BY <1>2, StoreFacts
<1>6. n.cell[v] = w /\ \A j \in Instrs(f) : j # v => n.cell[j] = x.cell[j]
  BY <1>1, <1>2, <1>4, <1>5, ReboundFacts
<1>7. 2 \in DOMAIN c.args
  BY <1>1 DEF MatchesOpcode
<1>8. PICK a : a = c.args[2]
  OBVIOUS
<1>9. a \in Avail(f, t, b, k) /\ a \notin V /\ a \in Range(c.args)
  <2>1. a \in Range(c.args)
    BY <1>7, <1>8 DEF Range
  <2>2. f.code[a].op # "alloca" /\ a \in Avail(f, t, b, k)
    BY <1>1, <1>7, <1>8
  <2> QED
    BY <1>1, <2>1, <2>2
<1>10. w = x.env[a] /\ x.env[a] # Undefined
  BY <1>3, <1>4, <1>8, <1>9 DEF Operand, OperandsDefined
<1>11. Read(P, g, y, r[a]) = w
  BY <1>2, <1>9, <1>10 DEF Carries
<1>12. r[a] # 0
  BY <1>1, <1>9, PlaceNames
<1>13. /\ d[b][k + 1][v] = r[a]
       /\ \A u \in V : u # v => d[b][k + 1][u] = d[b][k][u]
  <2>1. Flow(f, V, r, d, b, k) /\ d[b][k] \in [V -> Nat]
    BY <1>1, PlaceNames
  <2>2. IsStore(f, V, i)
    BY <1>3, <1>4 DEF IsStore
  <2>3. d[b][k + 1] = [d[b][k] EXCEPT ![v] = r[a]]
    BY <1>1, <1>3, <1>4, <1>8, <2>1, <2>2 DEF Flow, After
  <2> QED
    BY <1>4, <2>1, <2>3
<1>14. i \notin V
  BY <1>1
<1>15. n.env[i] = Undefined
  BY <1>1, <1>2, <1>3, <1>5 DEF EnvFits
<1>16. \A u \in V : n.cell[u] # Undefined =>
           \/ n.cell[u] = x.cell[u] /\ u # i /\ d[b][k + 1][u] = d[b][k][u]
           \/ d[b][k + 1][u] # 0 /\ Read(P, g, y, d[b][k + 1][u]) = n.cell[u]
  <2> SUFFICES ASSUME NEW u \in V
               PROVE  \/ n.cell[u] = x.cell[u] /\ u # i /\ d[b][k + 1][u] = d[b][k][u]
                      \/ d[b][k + 1][u] # 0 /\ Read(P, g, y, d[b][k + 1][u]) = n.cell[u]
    OBVIOUS
  <2>1. CASE u = v
    BY <1>6, <1>11, <1>12, <1>13, <2>1
  <2>2. CASE u # v
    BY <1>1, <1>6, <1>13, <1>14, <2>2
  <2> QED
    BY <2>1, <2>2
<1>17. MovesOn(f, V, t, P, r, d, g, b, k, x.env, x.cell, y, n.env, n.cell, y)
  BY <1>1, <1>5, <1>15, <1>16 DEF MovesOn
<1>18. Carries(f, V, t, P, r, d, g, b, k + 1, n.env, n.cell, y)
  BY <1>1, <1>2, <1>17, CarriesOn
<1>19. PlaceOf(f, V, P, b, k + 1) = PlaceOf(f, V, P, b, k)
  BY <1>1, PlaceDropped
<1>20. \A p \in Instrs(f) \ V : n.cell[p] = x.cell[p]
  BY <1>4, <1>6
<1> QED
  BY <1>3, <1>5, <1>18, <1>19, <1>20, DroppedMatch

\* The old run comes past an instruction that has gone.
LEMMA DroppedStep ==
  ASSUME NEW f, NEW V, NEW t, NEW P, NEW r, NEW d, NEW g, Promoted(f, V, t, P, r, d, g),
         NEW x, RunFits(f, x), NEW y, Match(f, V, t, P, r, d, g, x, y), Past(f, V, P, x, y),
         x.pos <= Len(Ins(f, x.block)), Here(f, x) \notin Kept(f, V), NEW n \in Steps(f, x)
  PROVE  Follows(f, V, t, P, r, d, g, n, y)
<1>1. PICK b, k, i, c : AtPlace(f, x, b, k, i, c)
  BY DEF AtPlace
<1>2. i = Here(f, x) /\ c = f.code[i]
  BY <1>1 DEF AtPlace
<1>3. i \in Instrs(f) /\ c.op # "phi" /\ MatchesOpcode(c)
  BY <1>1, HerePlace
<1>4. Machine(f, x) /\ Continues(y.trace, x.trace)
  BY <1>1, MatchHere
<1>5. CASE n = Stop(x, "stuck")
  BY <1>4, <1>5, StoppedFollows
<1>6. ASSUME OperandsDefined(f, x), NEW q, n = Execute(f, x, q)
      PROVE  Follows(f, V, t, P, r, d, g, n, y)
  <2>1. c.op \in {"alloca", "load", "store"}
    BY <1>2, <1>3 DEF Kept, IsMem
  <2>2. CASE c.op = "alloca"
    <3>1. n = Allot(f, x, Undefined)
      BY <1>2, <1>6, <2>2, ExecuteFacts
    <3> QED
      BY <1>1, <2>2, <3>1, DroppedAlloca DEF Follows
  <2>3. CASE c.op = "load"
    <3>1. PICK v : v = c.args[1]
      OBVIOUS
    <3>2. Accessed(f, V, t, x, b, k, c, v)
      BY <1>1, <1>2, <1>6, <2>3, <3>1, AccessPlace
    <3>3. Operand(f, x, 1) = v
      BY <3>2 DEF Accessed
    <3>4. n = IF x.cell[v] = Undefined THEN Stop(x, "trap") ELSE Bind(f, x, x.cell[v])
      BY <1>2, <1>6, <2>3, <3>3, ExecuteFacts
    <3>5. CASE x.cell[v] = Undefined
      <4>1. n = Stop(x, "trap")
        BY <3>4, <3>5
      <4> QED
        BY <1>4, <4>1, StoppedFollows
    <3>6. CASE x.cell[v] # Undefined
      <4>1. n = Bind(f, x, x.cell[v])
        BY <3>4, <3>6
      <4>2. Match(f, V, t, P, r, d, g, n, y)
        BY <1>1, <1>2, <2>3, <3>2, <3>6, <4>1, DroppedLoad
      <4> QED
        BY <4>2 DEF Follows
    <3> QED
      BY <3>5, <3>6
  <2>4. CASE c.op = "store"
    <3>1. PICK v, w : v = c.args[1] /\ w = Operand(f, x, 2)
      OBVIOUS
    <3>2. Accessed(f, V, t, x, b, k, c, v)
      BY <1>1, <1>2, <1>6, <2>4, <3>1, AccessPlace
    <3>3. Operand(f, x, 1) = v
      BY <3>2 DEF Accessed
    <3>4. n = Store(x, v, w)
      BY <1>2, <1>6, <2>4, <3>1, <3>3, ExecuteFacts
    <3>5. Match(f, V, t, P, r, d, g, n, y)
      BY <1>1, <1>2, <2>4, <3>1, <3>2, <3>4, DroppedStore
    <3> QED
      BY <3>5 DEF Follows
  <2> QED
    BY <2>1, <2>2, <2>3, <2>4
<1>7. \/ n = Stop(x, "stuck")
      \/ (OperandsDefined(f, x) \/ IsPhi(f, Here(f, x))) /\ \E q : n = Execute(f, x, q)
  BY StepCases
<1>8. ~IsPhi(f, Here(f, x))
  BY <1>2, <1>3 DEF IsPhi
<1> QED
  BY <1>5, <1>6, <1>7, <1>8

-----------------------------------------------------------------------------
\* Both runs end, or enter the same block.

LEMMA MatchHalts ==
  ASSUME NEW f, NEW V, NEW t, NEW P, NEW r, NEW d, NEW g,
         NEW x, NEW y, Match(f, V, t, P, r, d, g, x, y),
         NEW m, Halted(x, m), NEW n, Halted(y, n), Machine(g, n),
         n.status = m.status, n.value = m.value
  PROVE  Match(f, V, t, P, r, d, g, m, n)
<1>1. /\ m.block = x.block /\ m.prev = x.prev /\ m.entered = x.entered /\ m.args = x.args
      /\ m.pos = x.pos /\ m.env = x.env /\ m.cell = x.cell /\ m.trace = x.trace
  BY DEF Halted, SamePlace
<1>2. /\ n.block = y.block /\ n.prev = y.prev /\ n.entered = y.entered /\ n.args = y.args
      /\ n.pos = y.pos /\ n.env = y.env /\ n.cell = y.cell /\ n.trace = y.trace
      /\ n.at_entry = y.at_entry
  BY DEF Halted, SamePlace
<1>3. Alike(f, V, m, n)
  <2>1. Alike(f, V, x, y)
    BY DEF Match
  <2> QED
    BY <1>1, <1>2, <2>1 DEF Alike
<1>4. y.pos \in Nat /\ DOMAIN y.cell = Instrs(g) /\ (Past(f, V, P, x, y) \/ AtPhis(f, P, x, y))
  BY DEF Match
<1>5. Past(f, V, P, x, y) => Past(f, V, P, m, n)
  BY <1>1, <1>2 DEF Past
<1>6. AtPhis(f, P, x, y) => AtPhis(f, P, m, n)
  BY <1>1, <1>2 DEF AtPhis
<1>7. \A a : Read(P, g, n, a) = Read(P, g, y, a)
  BY <1>2 DEF Read
<1>8. Carries(f, V, t, P, r, d, g, m.block, m.pos, m.env, m.cell, n)
  <2>1. Carries(f, V, t, P, r, d, g, x.block, x.pos, x.env, x.cell, y)
    BY DEF Match
  <2>2. Carries(f, V, t, P, r, d, g, x.block, x.pos, x.env, x.cell, n)
    BY <1>7, <2>1 DEF Carries
  <2> QED
    BY <1>1, <2>2
<1> QED
  BY <1>2, <1>3, <1>4, <1>5, <1>6, <1>8 DEF Match

\* What a block may rely on is what the block above it leaves, and what each
\* block that leads there leaves.
LEMMA AvailEdge ==
  ASSUME NEW f, NEW V, NEW t, NEW P, Setting(f, V, t, P),
         NEW b \in Range(f.order), NEW s \in Range(Succ(f, b))
  PROVE  /\ Avail(f, t, s, 1) \subseteq Avail(f, t, b, End(f, b))
         /\ s = f.entry => Avail(f, t, s, 1) = {}
         /\ s # f.entry => /\ Avail(f, t, s, 1) \subseteq Avail(f, t, t[s], End(f, t[s]))
                           /\ t[s] \in Range(f.order)
                           /\ End(f, t[s]) \in 1 .. End(f, t[s])
                           /\ Ids(P, s) \cap Named(f, t, P, t[s], End(f, t[s])) = {}
<1>1. f \in Functions /\ Tree(f, t)
  BY SettingFacts
<1>2. s \in Range(f.order) /\ Above(f, t, s) \subseteq Up(f, t, b)
  BY <1>1, EdgeFacts
<1>3. \A c \in Range(f.order) : /\ c \in Blocks(f) /\ Len(Ins(f, c)) \in Nat
                                /\ DOMAIN Ins(f, c) = 1 .. Len(Ins(f, c))
  BY <1>1, GivenFacts
<1>4. Avail(f, t, s, 1) = UNION {Range(Ins(f, c)) : c \in Above(f, t, s)}
  <2>1. 1 .. 1 - 1 = {}
    OBVIOUS
  <2> QED
    BY <2>1 DEF Avail
<1>5. ASSUME NEW c \in Range(f.order), NEW e \in Up(f, t, c)
      PROVE  Range(Ins(f, e)) \subseteq Avail(f, t, c, End(f, c))
  <2>1. CASE e = c
    <3>1. \A j \in 1 .. Len(Ins(f, c)) : j \in 1 .. End(f, c) - 1
      BY <1>3 DEF End
    <3> QED
      BY <1>3, <2>1, <3>1 DEF Avail, Range
  <2>2. CASE e # c
    <3>1. e \in Above(f, t, c)
      BY <1>5, <2>2 DEF Above
    <3> QED
      BY <3>1 DEF Avail
  <2> QED
    BY <2>1, <2>2
<1>6. Avail(f, t, s, 1) \subseteq Avail(f, t, b, End(f, b))
  <2> SUFFICES ASSUME NEW i \in Avail(f, t, s, 1) PROVE i \in Avail(f, t, b, End(f, b))
    OBVIOUS
  <2>1. PICK c \in Above(f, t, s) : i \in Range(Ins(f, c))
    BY <1>4
  <2> QED
    BY <1>2, <1>5, <2>1
<1>7. s = f.entry => Avail(f, t, s, 1) = {}
  BY <1>1, <1>2, <1>4, AboveFacts
<1>8. ASSUME s # f.entry
      PROVE  /\ Avail(f, t, s, 1) \subseteq Avail(f, t, t[s], End(f, t[s]))
             /\ t[s] \in Range(f.order)
             /\ End(f, t[s]) \in 1 .. End(f, t[s])
             /\ Ids(P, s) \cap Named(f, t, P, t[s], End(f, t[s])) = {}
  <2>1. PICK u : u = t[s]
    OBVIOUS
  <2>2. u \in Range(f.order) /\ Above(f, t, s) = Up(f, t, u)
    BY <1>1, <1>2, <1>8, <2>1, AboveFacts
  <2>3. Avail(f, t, s, 1) \subseteq Avail(f, t, u, End(f, u))
    <3> SUFFICES ASSUME NEW i \in Avail(f, t, s, 1) PROVE i \in Avail(f, t, u, End(f, u))
      OBVIOUS
    <3>1. PICK c \in Above(f, t, s) : i \in Range(Ins(f, c))
      BY <1>4
    <3> QED
      BY <1>5, <2>2, <3>1
  <2>4. s \notin Up(f, t, u)
    BY <2>2 DEF Above
  <2>5. End(f, u) \in 1 .. End(f, u)
    BY <1>3, <2>2 DEF End
  <2>6. Ids(P, s) \cap Named(f, t, P, u, End(f, u)) = {}
    BY <1>2, <1>3, <2>2, <2>4, <2>5, NamedFacts
  <2> QED
    BY <2>1, <2>2, <2>3, <2>5, <2>6
<1> QED
  BY <1>6, <1>7, <1>8

\* A phi that stands in another block keeps what it holds.
LEMMA ReadOutside ==
  ASSUME NEW f, NEW V, NEW t, NEW P, Setting(f, V, t, P), NEW g, NEW n,
         n.block \in Blocks(f), n.pos \in Nat \ {0}, NEW a, a \notin Ids(P, n.block)
  PROVE  Read(P, g, n, a) = n.env[a]
<1>1. \A j \in 1 .. Len(P[n.block]) : P[n.block][j][2] # a
  <2>1. \A p \in Range(P[n.block]) : p[2] # a
    BY DEF Ids
  <2>2. PICK b \in Blocks(f) : b = n.block
    OBVIOUS
  <2>3. \A j \in 1 .. Len(P[b]) : P[b][j] \in Range(P[b])
    BY SettingFacts
  <2> QED
    BY <2>1, <2>2, <2>3
<1>2. \A j \in n.pos .. Len(P[n.block]) : j \in 1 .. Len(P[n.block])
  <2>1. Len(P[n.block]) \in Nat
    BY SettingFacts
  <2> QED
    BY <2>1
<1> QED
  BY <1>1, <1>2 DEF Read

Enters(y, n, s) ==
  n.block = s /\ n.pos = 1 /\ n.prev = y.block /\ n.at_entry = y.env /\ n.env = y.env

ReadsPhis(P, g, y, n, s) ==
  \A a \in Ids(P, s) : Read(P, g, n, a) = y.env[g.code[a].inc[y.block]]

\* At the head of a block machine n reads what a phi of it will hold.
LEMMA ReadPhi ==
  ASSUME NEW f, NEW V, NEW t, NEW P, Setting(f, V, t, P), NEW g, NEW s \in Blocks(f),
         NEW y, NEW n, Enters(y, n, s)
  PROVE  ReadsPhis(P, g, y, n, s)
<1>0. SUFFICES ASSUME NEW a \in Ids(P, s) PROVE Read(P, g, n, a) = y.env[g.code[a].inc[y.block]]
  BY DEF ReadsPhis
<1>1. n.block = s /\ n.pos = 1 /\ n.prev = y.block /\ n.at_entry = y.env
  BY DEF Enters
<1>2. PICK p \in Range(P[s]) : a = p[2]
  BY DEF Ids
<1>3. DOMAIN P[s] = 1 .. Len(P[s])
  BY SettingFacts
<1>4. PICK j \in 1 .. Len(P[s]) : P[s][j] = p
  BY <1>3 DEF Range
<1>5. \E l \in n.pos .. Len(P[n.block]) : P[n.block][l][2] = a
  BY <1>1, <1>2, <1>4
<1>6. Read(P, g, n, a) = n.at_entry[g.code[a].inc[n.prev]]
  BY <1>5 DEF Read
<1> QED
  BY <1>1, <1>6

-----------------------------------------------------------------------------
\* The values that names hold go with control from block b to s: phis get those
\* of the names at the end of b, all others have the same name in both blocks.
LEMMA CarriesEdge ==
  ASSUME NEW f, NEW V, NEW t, NEW P, NEW r, NEW d, NEW g, Promoted(f, V, t, P, r, d, g),
         Complete(f, P, g), NEW b \in Range(f.order), NEW s \in Range(Succ(f, b)),
         NEW e, NEW c, NEW y, Carries(f, V, t, P, r, d, g, b, End(f, b), e, c, y),
         y.block = b, y.pos \in Nat, y.pos > Len(P[b]), NEW n, Enters(y, n, s)
  PROVE  Carries(f, V, t, P, r, d, g, s, 1, e, c, n)
<1>1. Setting(f, V, t, P) /\ Tree(f, t) /\ f \in Functions /\ Len(P[b]) \in Nat
  BY PromotedFacts
<1>2. s \in Range(f.order) /\ b \in Range(Pred(f, s))
  BY <1>1, EdgeFacts
<1>3. s \in Blocks(f)
  BY <1>1, <1>2, GivenFacts
<1>4. n.block = s /\ n.pos = 1 /\ n.prev = b /\ n.at_entry = y.env /\ n.env = y.env
  BY DEF Enters
<1>5. \A a : Read(P, g, y, a) = y.env[a]
  BY <1>1, ReadPast
<1>6. \A a : a \notin Ids(P, s) => Read(P, g, n, a) = y.env[a]
  <2> SUFFICES ASSUME NEW a, a \notin Ids(P, s) PROVE Read(P, g, n, a) = y.env[a]
    OBVIOUS
  <2>1. n.pos \in Nat \ {0}
    BY <1>4
  <2>2. Read(P, g, n, a) = n.env[a]
    BY <1>1, <1>3, <1>4, <2>1, ReadOutside
  <2> QED
    BY <1>4, <2>2
<1>7. \A a \in Ids(P, s) : Read(P, g, n, a) = y.env[g.code[a].inc[b]]
  <2>1. ReadsPhis(P, g, y, n, s)
    BY <1>1, <1>3, ReadPhi
  <2> QED
    BY <2>1 DEF ReadsPhis
<1>8. CASE s = f.entry
  <2>1. Avail(f, t, s, 1) = {}
    BY <1>1, <1>8, AvailEdge
  <2> QED
    BY <2>1 DEF Carries
<1>9. CASE s # f.entry
  <2>1. PICK u, k : u = t[s] /\ k = End(f, u)
    OBVIOUS
  <2>2. /\ Avail(f, t, s, 1) \subseteq Avail(f, t, b, End(f, b))
        /\ Avail(f, t, s, 1) \subseteq Avail(f, t, u, k)
        /\ u \in Range(f.order) /\ k \in 1 .. End(f, u)
        /\ Ids(P, s) \cap Named(f, t, P, u, k) = {}
    BY <1>1, <1>9, <2>1, AvailEdge
  <2>3. /\ \A a \in Avail(f, t, u, k) : r[a] \in Named(f, t, P, u, k)
        /\ \A v \in V : d[u][k][v] # 0 => d[u][k][v] \in Named(f, t, P, u, k)
    BY <2>2, NamesHere
  <2>4. ASSUME NEW i \in Avail(f, t, s, 1) \ V, e[i] # Undefined
        PROVE  Read(P, g, n, r[i]) = e[i]
    <3>1. Read(P, g, y, r[i]) = e[i]
      BY <2>2, <2>4 DEF Carries
    <3>2. r[i] \notin Ids(P, s)
      BY <2>2, <2>3
    <3> QED
      BY <1>5, <1>6, <3>1, <3>2
  <2>5. ASSUME NEW v \in V \cap Avail(f, t, s, 1), c[v] # Undefined
        PROVE  d[s][1][v] # 0 /\ Read(P, g, n, d[s][1][v]) = c[v]
    <3>1. PICK q : q = d[b][End(f, b)][v]
      OBVIOUS
    <3>2. q # 0 /\ y.env[q] = c[v]
      <4>1. q # 0 /\ Read(P, g, y, q) = c[v]
        BY <2>2, <2>5, <3>1 DEF Carries
      <4> QED
        BY <1>5, <4>1
    <3>3. d[s][1] = Joined(f, V, t, P, d, s)
      BY <1>2 DEF Promoted, Through
    <3>4. d[s][1][v] = IF Has(P, v, s) THEN PhiOf(P, v, s) ELSE d[u][k][v]
      BY <1>9, <2>1, <3>3 DEF Joined
    <3>5. CASE Has(P, v, s)
      <4>1. PICK a : a = PhiOf(P, v, s)
        OBVIOUS
      <4>2. a \in Ids(P, s) /\ <<v, a>> \in Range(P[s])
        BY <1>1, <1>3, <3>5, <4>1, SettingFacts
      <4>3. a # 0
        <5>1. Ids(P, s) \subseteq Later(f) /\ 0 \notin Later(f)
          BY <1>1, <1>3, SettingFacts
        <5> QED
          BY <4>2, <5>1
      <4>4. PICK p : p = <<v, a>>
        OBVIOUS
      <4>5. p \in Range(P[s]) /\ p[1] = v /\ p[2] = a
        BY <4>2, <4>4
      <4>6. b \in DOMAIN g.code[a].inc
        BY <1>2, <4>5 DEF Complete
      <4>7. g.code[a].inc[b] = q
        BY <1>2, <3>1, <4>5, <4>6 DEF Promoted, Incomings
      <4>8. Read(P, g, n, a) = c[v]
        BY <1>7, <3>2, <4>2, <4>7
      <4> QED
        BY <3>4, <3>5, <4>1, <4>3, <4>8
    <3>6. CASE ~Has(P, v, s)
      <4>1. q = d[u][k][v]
        BY <1>9, <2>1, <3>1, <3>6 DEF Promoted, Meeting
      <4>2. q \in Named(f, t, P, u, k)
        BY <2>3, <3>2, <4>1
      <4>3. q \notin Ids(P, s)
        BY <2>2, <4>2
      <4>4. Read(P, g, n, q) = c[v]
        BY <1>6, <3>2, <4>3
      <4> QED
        BY <3>2, <3>4, <3>6, <4>1, <4>4
    <3> QED
      BY <3>5, <3>6
  <2> QED
    BY <2>4, <2>5 DEF Carries
<1> QED
  BY <1>8, <1>9

\* The runs go on to block s.
LEMMA MatchGoto ==
  ASSUME NEW f, NEW V, NEW t, NEW P, NEW r, NEW d, NEW g, Promoted(f, V, t, P, r, d, g),
         Complete(f, P, g), NEW x, RunFits(f, x), NEW y, Match(f, V, t, P, r, d, g, x, y),
         NEW b, b = x.block, NEW s \in Range(Succ(f, b)), y.pos > Len(P[b]),
         Carries(f, V, t, P, r, d, g, b, End(f, b), x.env, x.cell, y),
         NEW m, m = Goto(x, s), NEW n, n = Goto(y, s)
  PROVE  Match(f, V, t, P, r, d, g, m, n)
<1>1. /\ Machine(g, y) /\ DOMAIN y.cell = Instrs(g) /\ Alike(f, V, x, y) /\ y.pos \in Nat
  BY DEF Match
<1>2. Machine(f, x) /\ b \in Range(f.order)
  BY DEF RunFits
<1>3. /\ y.status = x.status /\ y.value = x.value /\ y.block = b /\ y.prev = x.prev
      /\ y.entered = x.entered /\ y.args = x.args /\ y.trace = x.trace
      /\ \A p \in Instrs(f) \ V : y.cell[p] = x.cell[p]
  BY <1>1 DEF Alike
<1>4. /\ m.env = x.env /\ m.cell = x.cell /\ m.trace = x.trace
      /\ m.args = x.args /\ m.value = x.value
      /\ x.entered = MaxBlocks => Halted(x, m) /\ m.status = "cut"
      /\ x.entered # MaxBlocks =>
           /\ m.status = x.status /\ m.prev = x.block /\ m.block = s /\ m.pos = 1
           /\ m.entered = x.entered + 1
  BY <1>2, GotoFacts
<1>5. /\ Machine(g, n)
      /\ n.env = y.env /\ n.cell = y.cell /\ n.trace = y.trace
      /\ n.args = y.args /\ n.value = y.value
      /\ y.entered = MaxBlocks => Halted(y, n) /\ n.status = "cut"
      /\ y.entered # MaxBlocks =>
           /\ n.status = y.status /\ n.prev = y.block /\ n.block = s /\ n.pos = 1
           /\ n.entered = y.entered + 1 /\ n.at_entry = y.env
  BY <1>1, GotoFacts
<1>6. CASE x.entered = MaxBlocks
  BY <1>3, <1>4, <1>5, <1>6, MatchHalts
<1>7. CASE x.entered # MaxBlocks
  <2>1. Enters(y, n, s)
    BY <1>3, <1>5, <1>7 DEF Enters
  <2>2. Carries(f, V, t, P, r, d, g, s, 1, x.env, x.cell, n)
    BY <1>1, <1>2, <1>3, <2>1, CarriesEdge
  <2>3. m.block = s /\ m.pos = 1 /\ m.prev = b /\ n.block = s /\ n.pos = 1 /\ n.prev = b
    BY <1>3, <1>4, <1>5, <1>7
  <2>4. Alike(f, V, m, n)
    BY <1>3, <1>4, <1>5, <1>7 DEF Alike
  <2>5. n.pos \in Nat /\ (Past(f, V, P, m, n) \/ AtPhis(f, P, m, n))
    <3>1. f \in Functions /\ Tree(f, t)
      BY <1>2, PromotedFacts
    <3>2. s \in Range(f.order) /\ b \in Range(Pred(f, s))
      BY <1>2, <3>1, EdgeFacts
    <3>3. Len(P[s]) \in Nat
      BY <3>2, PromotedFacts
    <3>4. PICK N : N = Len(P[s])
      OBVIOUS
    <3>5. PlaceOf(f, V, P, s, 1) = N + 1
      BY <3>3, <3>4, LeftNone DEF PlaceOf
    <3>6. 1 \in 1 .. N \/ 1 = N + 1
      BY <3>3, <3>4
    <3> QED
      BY <2>3, <3>2, <3>4, <3>5, <3>6 DEF Past, AtPhis
  <2>6. Carries(f, V, t, P, r, d, g, m.block, m.pos, m.env, m.cell, n)
    BY <1>4, <2>2, <2>3
  <2> QED
    BY <1>1, <1>5, <2>4, <2>5, <2>6 DEF Match
<1> QED
  BY <1>6, <1>7

-----------------------------------------------------------------------------
\* Both runs come to an instruction that is left.

LEMMA KeptHere ==
  ASSUME NEW f, NEW V, NEW t, NEW P, NEW r, NEW d, NEW g, Promoted(f, V, t, P, r, d, g),
         NEW x, RunFits(f, x), NEW y, Match(f, V, t, P, r, d, g, x, y), Past(f, V, P, x, y),
         NEW b, NEW k, NEW i, NEW c, AtPlace(f, x, b, k, i, c), i \in Kept(f, V)
  PROVE  /\ y.block = b /\ y.pos \in Nat /\ y.pos <= Len(Ins(g, b)) /\ Here(g, y) = i
         /\ y.pos > Len(P[b]) /\ PlaceOf(f, V, P, b, k + 1) = y.pos + 1
         /\ Renamed(f, r, i, g.code[i]) /\ i \in Instrs(g)
         /\ r[i] = i /\ d[b][k + 1] = d[b][k]
         /\ Succ(g, b) = Succ(f, b) /\ Machine(g, y) /\ DOMAIN y.cell = Instrs(g)
         /\ Instrs(f) \subseteq Instrs(g)
<1>1. /\ f \in Functions /\ b \in Range(f.order) /\ b \in Blocks(f)
      /\ k \in 1 .. Len(Ins(f, b)) /\ i = Ins(f, b)[k] /\ i \in Instrs(f)
  BY HerePlace
<1>2. b = x.block /\ k = x.pos /\ c = f.code[i]
  BY DEF AtPlace
<1>3. Machine(g, y) /\ DOMAIN y.cell = Instrs(g) /\ y.block = b
  BY <1>2 DEF Match, Alike
<1>4. PICK n : n = PlaceOf(f, V, P, b, k)
  OBVIOUS
<1>5. y.pos = n
  BY <1>2, <1>4 DEF Past
<1>6. /\ n \in Nat /\ n <= Len(Ins(g, b)) /\ Ins(g, b)[n] = i /\ n > Len(P[b])
      /\ n + 1 = PlaceOf(f, V, P, b, k + 1)
      /\ i \in Range(All(f, V, b))
  BY <1>1, <1>4, WhereKept
<1>7. Renamed(f, r, i, g.code[i])
  BY <1>1, <1>6 DEF Promoted
<1>8. ~IsMem(f, V, i)
  BY DEF Kept
<1>9. ~IsLoad(f, V, i) /\ ~IsStore(f, V, i)
  BY <1>8 DEF IsMem, IsLoad, IsStore
<1>10. Flow(f, V, r, d, b, k)
  BY <1>1, PlaceNames
<1>11. r[i] = i /\ d[b][k + 1] = d[b][k]
  BY <1>1, <1>9, <1>10 DEF Flow, NameOf, After
<1>12. Succ(g, b) = Succ(f, b) /\ Instrs(f) \subseteq Instrs(g)
  BY <1>1, PromotedFacts
<1>13. Here(g, y) = i
  BY <1>3, <1>5, <1>6 DEF Here
<1> QED
  BY <1>1, <1>3, <1>5, <1>6, <1>7, <1>11, <1>12, <1>13

\* They read the same operands.
LEMMA KeptOperands ==
  ASSUME NEW f, NEW V, NEW t, NEW P, NEW r, NEW d, NEW g, Promoted(f, V, t, P, r, d, g),
         NEW x, RunFits(f, x), NEW y, Match(f, V, t, P, r, d, g, x, y), Past(f, V, P, x, y),
         NEW b, NEW k, NEW i, NEW c, AtPlace(f, x, b, k, i, c), i \in Kept(f, V),
         OperandsDefined(f, x)
  PROVE  /\ OperandsDefined(g, y)
         /\ DOMAIN g.code[i].args = DOMAIN c.args
         /\ \A n \in DOMAIN c.args : Operand(g, y, n) = Operand(f, x, n)
<1>1. /\ i \in Instrs(f) /\ c.args \in Seq(Instrs(f))
      /\ \A n \in DOMAIN c.args :
              /\ c.args[n] \in Avail(f, t, b, k) /\ c.args[n] \in Instrs(f)
              /\ f.code[c.args[n]].op = "alloca" => c.op \in {"load", "store"} /\ n = 1
      /\ \A v \in V : f.code[v].op = "alloca"
      /\ b \in Range(f.order)
  BY HerePlace
<1>2. b = x.block /\ k = x.pos /\ c = f.code[i] /\ i = Here(f, x)
  BY DEF AtPlace
<1>3. /\ y.block = b /\ y.pos \in Nat /\ Here(g, y) = i /\ y.pos > Len(P[b])
      /\ Renamed(f, r, i, g.code[i])
  BY KeptHere
<1>4. Carries(f, V, t, P, r, d, g, b, k, x.env, x.cell, y)
  BY MatchHere
<1>5. Len(P[b]) \in Nat
  BY <1>1, PromotedFacts
<1>6. \A a : Read(P, g, y, a) = y.env[a]
  BY <1>3, <1>5, ReadPast
<1>7. ~IsMem(f, V, i)
  BY DEF Kept
<1>8. \A n \in DOMAIN c.args : c.args[n] \in Avail(f, t, b, k) \ V
  BY <1>1, <1>2, <1>7 DEF IsMem
<1>9. \A n \in DOMAIN c.args : x.env[c.args[n]] # Undefined
  BY <1>2 DEF OperandsDefined, Range
<1>10. \A n \in DOMAIN c.args : y.env[r[c.args[n]]] = x.env[c.args[n]]
  BY <1>4, <1>6, <1>8, <1>9 DEF Carries
<1>11. g.code[i].args = [n \in DOMAIN c.args |-> r[c.args[n]]]
  BY <1>2, <1>3 DEF Renamed
<1>12. PICK z : z = g.code[i].args
  OBVIOUS
<1>13. DOMAIN z = DOMAIN c.args /\ \A n \in DOMAIN c.args : z[n] = r[c.args[n]]
  BY <1>11, <1>12
<1>14. \A n \in DOMAIN c.args : y.env[z[n]] = x.env[c.args[n]]
  BY <1>10, <1>13
<1>15. OperandsDefined(g, y)
  <2>1. \A v \in Range(z) : \E n \in DOMAIN c.args : v = z[n]
    BY <1>13 DEF Range
  <2>2. \A v \in Range(z) : y.env[v] # Undefined
    BY <1>9, <1>14, <2>1
  <2> QED
    BY <1>3, <1>12, <2>2 DEF OperandsDefined
<1>16. \A n \in DOMAIN c.args : Operand(g, y, n) = Operand(f, x, n)
  BY <1>2, <1>3, <1>12, <1>14 DEF Operand
<1> QED
  BY <1>12, <1>13, <1>15, <1>16

\* Both runs go on to the next instruction, and their values and cells change
\* in the same way.
Moves(f, V, g, i, x, m, y, n) ==
  /\ Advanced(x, m) /\ Advanced(y, n) /\ Machine(g, n) /\ DOMAIN n.cell = Instrs(g)
  /\ n.trace = m.trace
  /\ \/ \E w : Rebound(m.env, x.env, i, w) /\ Rebound(n.env, y.env, i, w)
     \/ m.env = x.env /\ n.env = y.env /\ m.env[i] = Undefined
  /\ \A p \in Instrs(f) \ V : n.cell[p] = m.cell[p]
  /\ \A v \in V : m.cell[v] = x.cell[v]

LEMMA KeptAdvance ==
  ASSUME NEW f, NEW V, NEW t, NEW P, NEW r, NEW d, NEW g, Promoted(f, V, t, P, r, d, g),
         NEW x, RunFits(f, x), NEW y, Match(f, V, t, P, r, d, g, x, y), Past(f, V, P, x, y),
         NEW b, NEW k, NEW i, NEW c, AtPlace(f, x, b, k, i, c), i \in Kept(f, V),
         NEW m, NEW n, Moves(f, V, g, i, x, m, y, n)
  PROVE  Match(f, V, t, P, r, d, g, m, n)
<1>1. /\ f \in Functions /\ b \in Range(f.order)
      /\ k \in 1 .. Len(Ins(f, b)) /\ i = Ins(f, b)[k] /\ i \in Instrs(f) /\ (c.op = "alloca" <=> i \in V)
      /\ Avail(f, t, b, k) \subseteq Instrs(f) /\ i \notin Avail(f, t, b, k)
  BY HerePlace
<1>2. b = x.block /\ k = x.pos /\ c = f.code[i]
  BY DEF AtPlace
<1>3. /\ y.block = b /\ y.pos \in Nat /\ y.pos > Len(P[b])
      /\ PlaceOf(f, V, P, b, k + 1) = y.pos + 1
      /\ i \in Instrs(g) /\ r[i] = i /\ d[b][k + 1] = d[b][k]
      /\ Machine(g, y)
  BY KeptHere
<1>4. /\ DOMAIN x.env = Instrs(f)
      /\ Carries(f, V, t, P, r, d, g, b, k, x.env, x.cell, y)
  BY MatchHere
<1>5. DOMAIN y.env = Instrs(g)
  BY <1>3 DEF Machine
<1>6. /\ Advanced(x, m) /\ Advanced(y, n) /\ Machine(g, n) /\ DOMAIN n.cell = Instrs(g)
      /\ n.trace = m.trace
      /\ \A p \in Instrs(f) \ V : n.cell[p] = m.cell[p]
      /\ \A v \in V : m.cell[v] = x.cell[v]
  BY DEF Moves
<1>7. /\ \A j \in Instrs(f) : j # i => m.env[j] = x.env[j]
      /\ \A j \in Instrs(g) : j # i => n.env[j] = y.env[j]
      /\ m.env[i] # Undefined => n.env[i] = m.env[i]
  <2>1. ASSUME NEW w, Rebound(m.env, x.env, i, w), Rebound(n.env, y.env, i, w)
        PROVE  /\ \A j \in Instrs(f) : j # i => m.env[j] = x.env[j]
               /\ \A j \in Instrs(g) : j # i => n.env[j] = y.env[j]
               /\ m.env[i] = w /\ n.env[i] = w
    BY <1>1, <1>3, <1>4, <1>5, <2>1, ReboundFacts
  <2>2. CASE m.env = x.env /\ n.env = y.env /\ m.env[i] = Undefined
    BY <2>2
  <2> QED
    BY <2>1, <2>2 DEF Moves
<1>8. /\ n.block = b /\ n.pos = y.pos + 1
  BY <1>3, <1>6 DEF Advanced, SamePlace
<1>9. Len(P[b]) \in Nat
  BY <1>1, PromotedFacts
<1>10. \A a : Read(P, g, y, a) = y.env[a]
  BY <1>3, <1>9, ReadPast
<1>11. \A a : Read(P, g, n, a) = n.env[a]
  <2>1. PICK q : q = y.pos
    OBVIOUS
  <2>2. n.pos \in Nat /\ n.pos > Len(P[b])
    BY <1>3, <1>8, <1>9, <2>1
  <2> QED
    BY <1>8, <1>9, <2>2, ReadPast
<1>12. \A a \in Named(f, t, P, b, k) : Read(P, g, n, a) = Read(P, g, y, a)
  <2>1. Named(f, t, P, b, k) \subseteq Instrs(g)
    <3>1. k \in 1 .. End(f, b)
      BY <1>1, PlaceNames
    <3> QED
      BY <1>1, <3>1, NamesHere
  <2>2. i \notin Named(f, t, P, b, k)
    BY <1>1, PlaceNames
  <2> QED
    BY <1>7, <1>10, <1>11, <2>1, <2>2
<1>13. i \notin V
  <2>1. ~IsMem(f, V, i)
    BY DEF Kept
  <2> QED
    BY <1>1, <1>2, <2>1 DEF IsMem
<1>14. MovesOn(f, V, t, P, r, d, g, b, k, x.env, x.cell, y, m.env, m.cell, n)
  <2>1. \A j \in Avail(f, t, b, k) : m.env[j] = x.env[j]
    BY <1>1, <1>7
  <2>2. m.env[i] # Undefined => Read(P, g, n, r[i]) = m.env[i]
    BY <1>3, <1>7, <1>11
  <2>3. \A v \in V : m.cell[v] = x.cell[v] /\ v # i /\ d[b][k + 1][v] = d[b][k][v]
    BY <1>3, <1>6, <1>13
  <2> QED
    BY <1>1, <1>12, <2>1, <2>2, <2>3 DEF MovesOn
<1>15. Carries(f, V, t, P, r, d, g, b, k + 1, m.env, m.cell, n)
  BY <1>1, <1>4, <1>14, CarriesOn
<1>16. Alike(f, V, m, n)
  <2>1. Alike(f, V, x, y)
    BY DEF Match
  <2> QED
    BY <1>6, <2>1 DEF Alike, Advanced, SamePlace
<1>17. m.block = b /\ m.pos = k + 1
  BY <1>2, <1>6 DEF Advanced, SamePlace
<1>18. Past(f, V, P, m, n)
  BY <1>3, <1>8, <1>17 DEF Past
<1>19. n.pos \in Nat
  BY <1>3, <1>8
<1>20. Carries(f, V, t, P, r, d, g, m.block, m.pos, m.env, m.cell, n)
  BY <1>15, <1>17
<1> QED
  BY <1>6, <1>16, <1>18, <1>19, <1>20 DEF Match

-----------------------------------------------------------------------------
\* An access that is left goes to the cell of a parameter.
LEMMA KeptAddress ==
  ASSUME NEW f, NEW V, NEW t, NEW P, NEW r, NEW d, NEW g, Promoted(f, V, t, P, r, d, g),
         NEW x, RunFits(f, x), NEW b, NEW k, NEW i, NEW c, AtPlace(f, x, b, k, i, c),
         i \in Kept(f, V), OperandsDefined(f, x), c.op \in {"load", "store"}
  PROVE  Operand(f, x, 1) \in Instrs(f) \ V
<1>1. /\ f \in Functions /\ i \in Instrs(f) /\ c.args \in Seq(Instrs(f)) /\ MatchesOpcode(c)
      /\ \A n \in DOMAIN c.args : c.args[n] \in Avail(f, t, b, k) /\ c.args[n] \in Instrs(f)
      /\ \A v \in Avail(f, t, b, k) : f.code[v].op = "alloca" => v \in V
  BY HerePlace
<1>2. c = f.code[i] /\ i = Here(f, x)
  BY DEF AtPlace
<1>3. PICK p : p = c.args[1]
  OBVIOUS
<1>4. 1 \in DOMAIN c.args
  BY <1>1 DEF MatchesOpcode
<1>5. p \in Instrs(f) /\ p \in Avail(f, t, b, k) /\ p \in Range(c.args)
  BY <1>1, <1>3, <1>4 DEF Range
<1>6. p \notin V
  BY <1>2, <1>3 DEF Kept, IsMem
<1>7. f.code[p].op = "param"
  <2>1. f.code[p].op \in {"alloca", "param"}
    BY <1>1, <1>2, <1>3, GivenFacts
  <2> QED
    BY <1>1, <1>5, <1>6, <2>1
<1>8. x.env[p] # Undefined
  BY <1>2, <1>5 DEF OperandsDefined
<1>9. EnvFits(f, x.env)
  BY DEF RunFits
<1>10. x.env[p] = p
  BY <1>5, <1>7, <1>8, <1>9 DEF EnvFits
<1>11. Operand(f, x, 1) = p
  BY <1>2, <1>3, <1>10 DEF Operand
<1> QED
  BY <1>5, <1>6, <1>11

\* Nothing changes between a terminator and the end of the block.
LEMMA KeptTerminator ==
  ASSUME NEW f, NEW V, NEW t, NEW P, NEW r, NEW d, NEW g, Promoted(f, V, t, P, r, d, g),
         NEW x, RunFits(f, x), NEW y, Match(f, V, t, P, r, d, g, x, y), Past(f, V, P, x, y),
         NEW b, NEW k, NEW i, NEW c, AtPlace(f, x, b, k, i, c), i \in Kept(f, V),
         c.op \in {"br", "cond_br"}
  PROVE  Carries(f, V, t, P, r, d, g, b, End(f, b), x.env, x.cell, y)
<1>1. /\ f \in Functions /\ b \in Range(f.order)
      /\ k \in 1 .. Len(Ins(f, b)) /\ i = Ins(f, b)[k] /\ i \in Instrs(f) /\ (c.op = "alloca" <=> i \in V)
  BY HerePlace
<1>2. b = x.block /\ k = x.pos /\ c = f.code[i] /\ i = Here(f, x) /\ k <= Len(Ins(f, b))
  BY DEF AtPlace
<1>3. k = Len(Ins(f, b))
  <2>1. IsTerminator(c.op)
    BY DEF IsTerminator
  <2> QED
    BY <1>1, <1>2, <2>1, HereFacts
<1>4. k + 1 = End(f, b)
  BY <1>3 DEF End
<1>5. Carries(f, V, t, P, r, d, g, b, k, x.env, x.cell, y) /\ EnvFits(f, x.env)
  BY MatchHere
<1>6. x.env[i] = Undefined
  BY <1>1, <1>2, <1>5 DEF EnvFits
<1>7. d[b][k + 1] = d[b][k]
  BY KeptHere
<1>8. MovesOn(f, V, t, P, r, d, g, b, k, x.env, x.cell, y, x.env, x.cell, y)
  <2>1. i \notin V
    BY <1>1
  <2> QED
    BY <1>1, <1>6, <1>7, <2>1 DEF MovesOn
<1>9. Carries(f, V, t, P, r, d, g, b, k + 1, x.env, x.cell, y)
  BY <1>1, <1>5, <1>8, CarriesOn
<1> QED
  BY <1>4, <1>9

\* Both allot the cell of a parameter.
LEMMA KeptParam ==
  ASSUME NEW f, NEW V, NEW t, NEW P, NEW r, NEW d, NEW g, Promoted(f, V, t, P, r, d, g),
         NEW x, RunFits(f, x), NEW y, Match(f, V, t, P, r, d, g, x, y), Past(f, V, P, x, y),
         NEW b, NEW k, NEW i, NEW c, AtPlace(f, x, b, k, i, c), i \in Kept(f, V),
         NEW w, NEW m, m = Allot(f, x, w), NEW n, n = Allot(g, y, w)
  PROVE  Match(f, V, t, P, r, d, g, m, n)
<1>1. /\ i \in Instrs(f) /\ (c.op = "alloca" <=> i \in V) /\ V \subseteq Instrs(f)
  BY HerePlace
<1>2. c = f.code[i] /\ i = Here(f, x)
  BY DEF AtPlace
<1>3. /\ Here(g, y) = i /\ i \in Instrs(g) /\ Machine(g, y) /\ DOMAIN y.cell = Instrs(g)
      /\ Instrs(f) \subseteq Instrs(g)
  BY KeptHere
<1>4. /\ Machine(f, x) /\ DOMAIN x.cell = Instrs(f) /\ y.trace = x.trace
  BY MatchHere
<1>5. /\ Advanced(x, m) /\ m.trace = x.trace
      /\ Rebound(m.cell, x.cell, i, w) /\ Rebound(m.env, x.env, i, i)
  BY <1>2, <1>4, AllotFacts
<1>6. /\ Machine(g, n) /\ Advanced(y, n) /\ n.trace = y.trace
      /\ Rebound(n.cell, y.cell, i, w) /\ Rebound(n.env, y.env, i, i)
  BY <1>3, AllotFacts
<1>7. m.cell[i] = w /\ \A p \in Instrs(f) : p # i => m.cell[p] = x.cell[p]
  BY <1>1, <1>4, <1>5, ReboundFacts
<1>8. DOMAIN n.cell = Instrs(g) /\ n.cell[i] = w /\ \A p \in Instrs(g) : p # i => n.cell[p] = y.cell[p]
  BY <1>3, <1>6, ReboundFacts
<1>9. i \notin V
  <2>1. ~IsMem(f, V, i)
    BY DEF Kept
  <2> QED
    BY <1>1, <1>2, <2>1 DEF IsMem
<1>10. \A p \in Instrs(f) \ V : y.cell[p] = x.cell[p]
  BY DEF Match, Alike
<1>11. \A p \in Instrs(f) \ V : n.cell[p] = m.cell[p]
  BY <1>3, <1>7, <1>8, <1>10
<1>12. \A v \in V : m.cell[v] = x.cell[v]
  BY <1>1, <1>7, <1>9
<1>13. Moves(f, V, g, i, x, m, y, n)
  BY <1>4, <1>5, <1>6, <1>8, <1>11, <1>12 DEF Moves
<1> QED
  BY <1>13, KeptAdvance

\* Both write to the cell of a parameter.
LEMMA KeptStore ==
  ASSUME NEW f, NEW V, NEW t, NEW P, NEW r, NEW d, NEW g, Promoted(f, V, t, P, r, d, g),
         NEW x, RunFits(f, x), NEW y, Match(f, V, t, P, r, d, g, x, y), Past(f, V, P, x, y),
         NEW b, NEW k, NEW i, NEW c, AtPlace(f, x, b, k, i, c), i \in Kept(f, V), c.op = "store",
         NEW a \in Instrs(f) \ V, NEW w, NEW m, m = Store(x, a, w), NEW n, n = Store(y, a, w)
  PROVE  Match(f, V, t, P, r, d, g, m, n)
<1>1. i \in Instrs(f) /\ V \subseteq Instrs(f)
  BY HerePlace
<1>2. c = f.code[i] /\ i = Here(f, x)
  BY DEF AtPlace
<1>3. /\ Machine(g, y) /\ DOMAIN y.cell = Instrs(g) /\ Instrs(f) \subseteq Instrs(g)
  BY KeptHere
<1>4. /\ Machine(f, x) /\ DOMAIN x.cell = Instrs(f) /\ y.trace = x.trace /\ EnvFits(f, x.env)
  BY MatchHere
<1>5. /\ Advanced(x, m) /\ m.trace = x.trace /\ m.env = x.env /\ Rebound(m.cell, x.cell, a, w)
  BY <1>4, StoreFacts
<1>6. /\ Machine(g, n) /\ Advanced(y, n) /\ n.trace = y.trace /\ n.env = y.env
      /\ Rebound(n.cell, y.cell, a, w)
  BY <1>3, StoreFacts
<1>7. m.cell[a] = w /\ \A p \in Instrs(f) : p # a => m.cell[p] = x.cell[p]
  BY <1>4, <1>5, ReboundFacts
<1>8. DOMAIN n.cell = Instrs(g) /\ n.cell[a] = w /\ \A p \in Instrs(g) : p # a => n.cell[p] = y.cell[p]
  BY <1>3, <1>6, ReboundFacts
<1>9. m.env[i] = Undefined
  BY <1>1, <1>2, <1>4, <1>5 DEF EnvFits
<1>10. \A p \in Instrs(f) \ V : y.cell[p] = x.cell[p]
  BY DEF Match, Alike
<1>11. \A p \in Instrs(f) \ V : n.cell[p] = m.cell[p]
  BY <1>3, <1>7, <1>8, <1>10
<1>12. \A v \in V : m.cell[v] = x.cell[v]
  BY <1>1, <1>7
<1>13. Moves(f, V, g, i, x, m, y, n)
  BY <1>4, <1>5, <1>6, <1>8, <1>9, <1>11, <1>12 DEF Moves
<1> QED
  BY <1>13, KeptAdvance

\* Both give the result of an instruction the same value.
LEMMA KeptBind ==
  ASSUME NEW f, NEW V, NEW t, NEW P, NEW r, NEW d, NEW g, Promoted(f, V, t, P, r, d, g),
         NEW x, RunFits(f, x), NEW y, Match(f, V, t, P, r, d, g, x, y), Past(f, V, P, x, y),
         NEW b, NEW k, NEW i, NEW c, AtPlace(f, x, b, k, i, c), i \in Kept(f, V),
         NEW w, NEW m, NEW n, Advanced(x, m), Advanced(y, n), Machine(g, n),
         m.cell = x.cell, n.cell = y.cell, n.trace = m.trace,
         Rebound(m.env, x.env, i, w), Rebound(n.env, y.env, i, w)
  PROVE  Match(f, V, t, P, r, d, g, m, n)
<1>1. DOMAIN y.cell = Instrs(g) /\ \A p \in Instrs(f) \ V : y.cell[p] = x.cell[p]
  BY DEF Match, Alike
<1>2. Moves(f, V, g, i, x, m, y, n)
  BY <1>1 DEF Moves
<1> QED
  BY <1>2, KeptAdvance

-----------------------------------------------------------------------------
\* Machine x traps, or gives the result of its instruction the value l.
Results(f, x, l, none, m) == m = IF l = none THEN Stop(x, "trap") ELSE Bind(f, x, l)

\* Both runs trap, or give the result of an instruction the value l.
LEMMA KeptResult ==
  ASSUME NEW f, NEW V, NEW t, NEW P, NEW r, NEW d, NEW g, Promoted(f, V, t, P, r, d, g),
         NEW x, RunFits(f, x), NEW y, Match(f, V, t, P, r, d, g, x, y), Past(f, V, P, x, y),
         NEW b, NEW k, NEW i, NEW c, AtPlace(f, x, b, k, i, c), i \in Kept(f, V),
         NEW l, NEW none, NEW m, NEW n, Continues(n.trace, x.trace),
         Results(f, x, l, none, m), Results(g, y, l, none, n)
  PROVE  Follows(f, V, t, P, r, d, g, m, n)
<1>1. i = Here(f, x)
  BY DEF AtPlace
<1>2. Here(g, y) = i /\ Machine(g, y)
  BY KeptHere
<1>3. Machine(f, x) /\ y.trace = x.trace
  BY MatchHere
<1>4. CASE l = none
  <2>1. m = Stop(x, "trap")
    BY <1>4 DEF Results
  <2> QED
    BY <1>3, <2>1, StoppedFollows
<1>5. CASE l # none
  <2>1. m = Bind(f, x, l) /\ n = Bind(g, y, l)
    BY <1>5 DEF Results
  <2>2. Advanced(x, m) /\ m.cell = x.cell /\ m.trace = x.trace /\ Rebound(m.env, x.env, i, l)
    BY <1>1, <1>3, <2>1, BindFacts
  <2>3. /\ Machine(g, n) /\ Advanced(y, n) /\ n.cell = y.cell /\ n.trace = y.trace
        /\ Rebound(n.env, y.env, i, l)
    BY <1>2, <2>1, BindFacts
  <2>4. Match(f, V, t, P, r, d, g, m, n)
    BY <1>3, <2>2, <2>3, KeptBind
  <2> QED
    BY <2>4 DEF Follows
<1> QED
  BY <1>4, <1>5

\* A step that both runs take at an instruction that is left.
LEMMA KeptExecutes ==
  ASSUME NEW f, NEW V, NEW t, NEW P, NEW r, NEW d, NEW g, Promoted(f, V, t, P, r, d, g),
         Complete(f, P, g),
         NEW x, RunFits(f, x), NEW y, Match(f, V, t, P, r, d, g, x, y), Past(f, V, P, x, y),
         NEW b, NEW k, NEW i, NEW c, AtPlace(f, x, b, k, i, c), i \in Kept(f, V),
         OperandsDefined(f, x), NEW q, NEW p, c.op = "call" => p = q,
         NEW m, m = Execute(f, x, q), NEW n, n = Execute(g, y, p), Continues(n.trace, x.trace)
  PROVE  Follows(f, V, t, P, r, d, g, m, n)
<1>0. PICK h, u, v, w, z : /\ h = g.code[i] /\ u = Operand(f, x, 1) /\ v = Operand(f, x, 2)
                           /\ w = Operand(g, y, 1) /\ z = Operand(g, y, 2)
  OBVIOUS
<1>1. /\ f \in Functions /\ i \in Instrs(f) /\ c.args \in Seq(Instrs(f)) /\ MatchesOpcode(c)
      /\ c.op \in Ops /\ c.op # "phi" /\ b \in Range(f.order)
  BY HerePlace
<1>2. c = f.code[i] /\ i = Here(f, x) /\ b = x.block /\ k = x.pos
  BY DEF AtPlace
<1>3. /\ Here(g, y) = i /\ Machine(g, y) /\ y.block = b /\ y.pos > Len(P[b])
      /\ Renamed(f, r, i, h) /\ Succ(g, b) = Succ(f, b)
  BY <1>0, KeptHere
<1>4. /\ Machine(f, x) /\ y.trace = x.trace /\ Continues(x.trace, x.trace)
  BY MatchHere
<1>5. h.op = c.op /\ h.k = c.k /\ h.ty = c.ty
  BY <1>2, <1>3 DEF Renamed
<1>6. /\ DOMAIN h.args = DOMAIN c.args
      /\ \A l \in DOMAIN c.args : Operand(g, y, l) = Operand(f, x, l)
  BY <1>0, KeptOperands
<1>7. y.args = x.args /\ y.value = x.value /\ y.status = x.status
      /\ \A a \in Instrs(f) \ V : y.cell[a] = x.cell[a]
  BY DEF Match, Alike
<1>8. CASE c.op = "param"
  <2>1. PICK l : l = x.args[c.k]
    OBVIOUS
  <2>2. m = Allot(f, x, l)
    BY <1>2, <1>8, <2>1, ExecuteFacts
  <2>3. n = Allot(g, y, l)
    BY <1>0, <1>3, <1>5, <1>7, <1>8, <2>1, ExecuteFacts
  <2>4. Match(f, V, t, P, r, d, g, m, n)
    BY <2>2, <2>3, KeptParam
  <2> QED
    BY <2>4 DEF Follows
<1>9. CASE c.op = "load"
  <2>1. u \in Instrs(f) \ V
    BY <1>0, <1>9, KeptAddress
  <2>2. w = u
    <3>1. 1 \in DOMAIN c.args
      BY <1>1, <1>9 DEF MatchesOpcode
    <3> QED
      BY <1>0, <1>6, <3>1
  <2>3. PICK l : l = x.cell[u]
    OBVIOUS
  <2>4. y.cell[w] = l
    BY <1>7, <2>1, <2>2, <2>3
  <2>5. Results(f, x, l, Undefined, m)
    BY <1>0, <1>2, <1>9, <2>3, ExecuteFacts DEF Results
  <2>6. Results(g, y, l, Undefined, n)
    BY <1>0, <1>3, <1>5, <1>9, <2>4, ExecuteFacts DEF Results
  <2> QED
    BY <2>5, <2>6, KeptResult
<1>10. CASE c.op = "store"
  <2>1. u \in Instrs(f) \ V
    BY <1>0, <1>10, KeptAddress
  <2>2. w = u /\ z = v
    <3>1. 1 \in DOMAIN c.args /\ 2 \in DOMAIN c.args
      BY <1>1, <1>10 DEF MatchesOpcode
    <3> QED
      BY <1>0, <1>6, <3>1
  <2>3. m = Store(x, u, v)
    BY <1>0, <1>2, <1>10, ExecuteFacts
  <2>4. n = Store(y, u, v)
    BY <1>0, <1>3, <1>5, <1>10, <2>2, ExecuteFacts
  <2>5. Match(f, V, t, P, r, d, g, m, n)
    BY <1>10, <2>1, <2>3, <2>4, KeptStore
  <2> QED
    BY <2>5 DEF Follows
<1>11. CASE c.op = "call"
  <2>1. m = Call(f, x, q)
    BY <1>2, <1>11, ExecuteFacts
  <2>2. n = Call(g, y, q)
    BY <1>0, <1>3, <1>5, <1>11, ExecuteFacts
  <2>3. CallOf(g, y, q) = CallOf(f, x, q)
    <3>1. [l \in DOMAIN h.args |-> Operand(g, y, l)] = [l \in DOMAIN c.args |-> Operand(f, x, l)]
      BY <1>6
    <3> QED
      BY <1>0, <1>2, <1>3, <1>5, <3>1 DEF CallOf
  <2>4. PICK e : e = Append(x.trace, CallOf(f, x, q))
    OBVIOUS
  <2>5. /\ Advanced(x, m) /\ m.cell = x.cell /\ m.trace = e
        /\ Rebound(m.env, x.env, i, q)
    BY <1>2, <1>4, <2>1, <2>4, CallFacts
  <2>6. /\ Machine(g, n) /\ Advanced(y, n) /\ n.cell = y.cell /\ n.trace = e
        /\ Rebound(n.env, y.env, i, q)
    BY <1>3, <1>4, <2>2, <2>3, <2>4, CallFacts
  <2>7. Match(f, V, t, P, r, d, g, m, n)
    BY <2>5, <2>6, KeptBind
  <2> QED
    BY <2>7 DEF Follows
<1>12. CASE c.op = "ret"
  <2>1. PICK l : l = IF c.args = <<>> THEN 0 ELSE u
    OBVIOUS
  <2>2. h.args = <<>> <=> c.args = <<>>
    BY <1>1, <1>6
  <2>3. c.args # <<>> => w = u
    <3>1. c.args # <<>> => 1 \in DOMAIN c.args
      BY <1>1
    <3> QED
      BY <1>0, <1>6, <3>1
  <2>4. m = Returned(x, l)
    BY <1>0, <1>2, <1>12, <2>1, ExecuteFacts
  <2>5. n = Returned(y, l)
    BY <1>0, <1>3, <1>5, <1>12, <2>1, <2>2, <2>3, ExecuteFacts
  <2>6. Halted(x, m) /\ m.status = "ret" /\ m.value = l
    BY <1>4, <2>4, ReturnedFacts
  <2>7. Machine(g, n) /\ Halted(y, n) /\ n.status = "ret" /\ n.value = l
    BY <1>3, <2>5, ReturnedFacts
  <2>8. Match(f, V, t, P, r, d, g, m, n)
    BY <2>6, <2>7, MatchHalts
  <2> QED
    BY <2>8 DEF Follows
<1>13. CASE c.op \in {"br", "cond_br"}
  <2>1. PICK l : l = Succ(f, b)
    OBVIOUS
  <2>2. /\ l \in Seq(Blocks(f)) /\ (c.op = "br" => Len(l) = 1) /\ (c.op = "cond_br" => Len(l) = 2)
    BY <1>1, <1>2, <2>1, HereFacts DEF AtPlace
  <2>3. c.op = "cond_br" => w = u
    <3>1. c.op = "cond_br" => 1 \in DOMAIN c.args
      BY <1>1 DEF MatchesOpcode
    <3> QED
      BY <1>0, <1>6, <3>1
  <2>4. PICK s : s = IF c.op = "br" THEN Head(l) ELSE IF u = 1 THEN Head(l) ELSE l[Len(l)]
    OBVIOUS
  <2>5. s \in Range(l)
    <3>1. Head(l) \in Range(l) /\ l[Len(l)] \in Range(l)
      BY <1>13, <2>2 DEF Range
    <3> QED
      BY <2>4, <3>1
  <2>6. m = Goto(x, s)
    BY <1>0, <1>2, <1>13, <2>1, <2>4, ExecuteFacts
  <2>7. n = Goto(y, s)
    BY <1>0, <1>3, <1>5, <1>13, <2>1, <2>3, <2>4, ExecuteFacts
  <2>8. Carries(f, V, t, P, r, d, g, b, End(f, b), x.env, x.cell, y)
    BY <1>13, KeptTerminator
  <2>9. Match(f, V, t, P, r, d, g, m, n)
    BY <1>2, <1>3, <2>1, <2>5, <2>6, <2>7, <2>8, MatchGoto
  <2> QED
    BY <2>9 DEF Follows
<1>14. CASE IsFoldable(c.op)
  <2>1. PICK l : l = Compute(c, u, v)
    OBVIOUS
  <2>2. Compute(h, w, z) = l
    <3>1. CASE c.op \in Arithmetic \cup Comparisons
      <4>1. 1 \in DOMAIN c.args /\ 2 \in DOMAIN c.args
        BY <1>1, <3>1 DEF MatchesOpcode
      <4>2. w = u /\ z = v
        BY <1>0, <1>6, <4>1
      <4> QED
        BY <1>5, <2>1, <3>1, <4>2, ComputeFacts
    <3>2. CASE c.op \in {"neg", "lnot"}
      <4>1. 1 \in DOMAIN c.args
        BY <1>1, <3>2 DEF MatchesOpcode
      <4>2. w = u
        BY <1>0, <1>6, <4>1
      <4> QED
        BY <1>5, <2>1, <3>2, <4>2, ComputeFacts
    <3>3. CASE c.op \in {"iconst", "bconst"}
      BY <1>5, <2>1, <3>3, ComputeFacts
    <3> QED
      BY <1>14, <3>1, <3>2, <3>3 DEF IsFoldable
  <2>3. Results(f, x, l, None, m)
    BY <1>0, <1>2, <1>14, <2>1, ExecuteFacts DEF Results
  <2>4. Results(g, y, l, None, n)
    BY <1>0, <1>3, <1>5, <1>14, <2>2, ExecuteFacts DEF Results
  <2> QED
    BY <2>3, <2>4, KeptResult
<1>15. c.op # "alloca"
  <2>1. ~IsMem(f, V, i)
    BY DEF Kept
  <2> QED
    BY <1>2, <2>1 DEF IsMem
<1> QED
  BY <1>1, <1>8, <1>9, <1>10, <1>11, <1>12, <1>13, <1>14, <1>15 DEF Ops, IsFoldable

-----------------------------------------------------------------------------
\* The replies in the calls e of one run are those in the calls t of the other,
\* as far as t goes.
SameReply(e, t) == Len(e) \in DOMAIN t => e[Len(e)].reply = t[Len(e)].reply

\* Both runs have left the block.
LEMMA KeptEnd ==
  ASSUME NEW f, NEW V, NEW t, NEW P, NEW r, NEW d, NEW g, Promoted(f, V, t, P, r, d, g),
         Complete(f, P, g),
         NEW x, RunFits(f, x), NEW y, Match(f, V, t, P, r, d, g, x, y), Past(f, V, P, x, y),
         ~(x.pos <= Len(Ins(f, x.block))),
         NEW m \in Steps(f, x), NEW n \in Steps(g, y), Continues(n.trace, x.trace)
  PROVE  Follows(f, V, t, P, r, d, g, m, n)
<1>1. PICK b : b = x.block
  OBVIOUS
<1>2. Machine(f, x) /\ b \in Range(f.order) /\ x.pos \in 1 .. End(f, b)
  BY <1>1 DEF RunFits
<1>3. f \in Functions /\ b \in Blocks(f) /\ Succ(g, b) = Succ(f, b)
  BY <1>2, PromotedFacts
<1>4. x.pos = End(f, b)
  <2>1. Len(Ins(f, b)) \in Nat
    BY <1>3, GivenFacts
  <2> QED
    BY <1>1, <1>2, <2>1 DEF End
<1>5. y.block = b /\ Machine(g, y) /\ y.pos \in Nat
  BY <1>1 DEF Match, Alike
<1>6. Carries(f, V, t, P, r, d, g, b, End(f, b), x.env, x.cell, y)
  BY <1>1, <1>4 DEF Match
<1>7. y.pos = PlaceOf(f, V, P, b, End(f, b))
  BY <1>1, <1>4 DEF Past
<1>8. ~(y.pos <= Len(Ins(g, b))) /\ y.pos > Len(P[b])
  BY <1>2, <1>7, WhereEnd
<1>9. m = StepOver(f, x)
  BY StepCases
<1>10. n = StepOver(g, y)
  BY <1>5, <1>8, StepCases
<1>11. PICK l : l = Succ(f, b)
  OBVIOUS
<1>12. CASE l = <<>>
  <2>1. m = Stop(x, "stuck")
    BY <1>1, <1>9, <1>11, <1>12 DEF StepOver
  <2> QED
    BY <1>2, <2>1, StoppedFollows
<1>13. CASE l # <<>>
  <2>1. m = Goto(x, Head(l))
    BY <1>1, <1>9, <1>11, <1>13 DEF StepOver
  <2>2. n = Goto(y, Head(l))
    BY <1>3, <1>5, <1>10, <1>11, <1>13 DEF StepOver
  <2>3. Head(l) \in Range(l)
    <3>1. l \in Seq(Blocks(f))
      BY <1>3, <1>11, GivenFacts DEF IsFunction, Succ, Blocks
    <3> QED
      BY <1>13, <3>1, RangeOfTail
  <2>4. Match(f, V, t, P, r, d, g, m, n)
    BY <1>1, <1>6, <1>8, <1>11, <2>1, <2>2, <2>3, MatchGoto
  <2> QED
    BY <2>4 DEF Follows
<1> QED
  BY <1>12, <1>13

\* A step of the new run past its phis keeps up with the next one of the old
\* run, whose calls are the first of z.
LEMMA KeptStep ==
  ASSUME NEW f, NEW V, NEW t, NEW P, NEW r, NEW d, NEW g, Promoted(f, V, t, P, r, d, g),
         Complete(f, P, g),
         NEW x, RunFits(f, x), NEW y, Match(f, V, t, P, r, d, g, x, y), Past(f, V, P, x, y),
         x.pos <= Len(Ins(f, x.block)) => Here(f, x) \in Kept(f, V),
         NEW m \in Steps(f, x), NEW n \in Steps(g, y),
         NEW z, Continues(z, m.trace), SameReply(n.trace, z)
  PROVE  Follows(f, V, t, P, r, d, g, m, n)
<1>1. PICK b, k, i, c : b = x.block /\ k = x.pos /\ i = Here(f, x) /\ c = f.code[i]
  OBVIOUS
<1>2. Machine(f, x) /\ b \in Range(f.order)
  BY <1>1 DEF RunFits
<1>3. Machine(g, y) /\ y.trace = x.trace
  BY DEF Match, Alike
<1>4. Continues(n.trace, x.trace)
  BY <1>3, StepFacts
<1>5. CASE ~(x.pos <= Len(Ins(f, x.block)))
  BY <1>4, <1>5, KeptEnd
<1>6. CASE m = Stop(x, "stuck")
  BY <1>2, <1>4, <1>6, StoppedFollows
<1>7. ASSUME x.pos <= Len(Ins(f, x.block)), OperandsDefined(f, x) \/ IsPhi(f, Here(f, x)),
             NEW q, m = Execute(f, x, q)
      PROVE  Follows(f, V, t, P, r, d, g, m, n)
  <2>1. AtPlace(f, x, b, k, i, c) /\ i \in Kept(f, V)
    BY <1>1, <1>7 DEF AtPlace
  <2>2. c.op # "phi"
    BY <2>1, HerePlace
  <2>3. OperandsDefined(f, x)
    BY <1>1, <1>7, <2>2 DEF IsPhi
  <2>4. /\ y.block = b /\ y.pos <= Len(Ins(g, b)) /\ Here(g, y) = i /\ Renamed(f, r, i, g.code[i])
    BY <2>1, KeptHere
  <2>5. OperandsDefined(g, y)
    BY <2>1, <2>3, KeptOperands
  <2>6. PICK p : n = Execute(g, y, p)
    BY <2>4, <2>5, StepCases
  <2>7. ASSUME c.op = "call" PROVE p = q
    <3>1. g.code[i].op = "call"
      BY <1>1, <2>4, <2>7 DEF Renamed
    <3>2. m = Call(f, x, q)
      BY <1>1, <1>7, <2>7, ExecuteFacts
    <3>3. n = Call(g, y, p)
      BY <2>4, <2>6, <3>1, ExecuteFacts
    <3>4. m.trace = Append(x.trace, CallOf(f, x, q)) /\ \E S : x.trace \in Seq(S)
      BY <1>2, <3>2, CallFacts DEF Machine
    <3>5. n.trace = Append(x.trace, CallOf(g, y, p))
      BY <1>3, <3>3, CallFacts
    <3>6. PICK l : l = Len(x.trace) + 1
      OBVIOUS
    <3>7. Len(m.trace) = l /\ m.trace[l] = CallOf(f, x, q) /\ Len(x.trace) \in Nat
      BY <3>4, <3>6, AppendFacts
    <3>8. Len(n.trace) = l /\ n.trace[l] = CallOf(g, y, p)
      BY <3>4, <3>5, <3>6, AppendFacts
    <3>9. l \in DOMAIN z /\ z[l] = m.trace[l]
      <4>1. l \in 1 .. Len(m.trace)
        BY <3>6, <3>7
      <4>2. (\E S : z \in Seq(S)) /\ Len(m.trace) <= Len(z)
        BY DEF Continues
      <4>3. l \in 1 .. Len(z)
        BY <3>6, <3>7, <4>2
      <4>4. z[l] = m.trace[l]
        BY <4>1 DEF Continues
      <4> QED
        BY <4>2, <4>3, <4>4
    <3>10. CallOf(f, x, q).reply = q /\ CallOf(g, y, p).reply = p
      BY DEF CallOf
    <3> QED
      BY <3>7, <3>8, <3>9, <3>10 DEF SameReply
  <2> QED
    BY <1>4, <1>7, <2>1, <2>3, <2>6, <2>7, KeptExecutes
<1> QED
  BY <1>5, <1>6, <1>7, StepCases

\* Both runs start alike.
LEMMA StartsMatch ==
  ASSUME NEW f, NEW V, NEW t, NEW P, NEW r, NEW d, NEW g, Promoted(f, V, t, P, r, d, g),
         NEW a, NEW x, x = Start(f, a), NEW y, y = Start(g, a)
  PROVE  Match(f, V, t, P, r, d, g, x, y)
<1>0. PICK b : b = f.entry
  OBVIOUS
<1>1. f \in Functions /\ Tree(f, t) /\ b \in Range(f.order)
  <2>1. f \in Functions /\ Tree(f, t)
    BY DEF Promoted, Setting
  <2>2. RunFits(f, x)
    BY <2>1, StartFits
  <2>3. x.block = b
    BY <1>0, StartOfRun
  <2> QED
    BY <2>1, <2>2, <2>3 DEF RunFits
<1>2. /\ x.status = "run" /\ x.block = b /\ x.prev = b /\ x.pos = 1 /\ x.entered = 1
      /\ x.cell = Blank(f) /\ x.args = a /\ x.trace = <<>> /\ x.value = 0
      /\ \A v \in Instrs(f) : x.env[v] = Undefined
  BY <1>0, StartOfRun
<1>3. g.entry = b /\ Instrs(f) \subseteq Instrs(g) /\ Setting(f, V, t, P)
  <2>1. g.entry = f.entry /\ Instrs(f) \subseteq Instrs(g) /\ Setting(f, V, t, P)
    BY <1>1, PromotedFacts
  <2> QED
    BY <1>0, <2>1
<1>4. /\ Machine(g, y) /\ y.status = "run" /\ y.block = b /\ y.prev = b /\ y.pos = 1
      /\ y.entered = 1 /\ y.cell = Blank(g) /\ y.args = a /\ y.trace = <<>> /\ y.value = 0
  BY <1>3, StartOfRun
<1>5. DOMAIN y.cell = Instrs(g) /\ \A p \in Instrs(f) \ V : y.cell[p] = x.cell[p]
  BY <1>2, <1>3, <1>4 DEF Blank
<1>6. Alike(f, V, x, y)
  BY <1>2, <1>4, <1>5 DEF Alike
<1>7. Past(f, V, P, x, y)
  <2>1. P[b] = <<>>
    BY <1>0 DEF Promoted
  <2>2. Len(P[b]) = 0
    BY <2>1
  <2>3. PlaceOf(f, V, P, b, 1) = 1
    BY <2>2, LeftNone DEF PlaceOf
  <2> QED
    BY <1>2, <1>4, <2>3 DEF Past
<1>8. Carries(f, V, t, P, r, d, g, x.block, x.pos, x.env, x.cell, y)
  <2>1. Above(f, t, b) = {}
    BY <1>0, <1>1, AboveFacts
  <2>2. Avail(f, t, b, 1) = {}
    <3>1. 1 .. 1 - 1 = {}
      OBVIOUS
    <3> QED
      BY <2>1, <3>1 DEF Avail
  <2> QED
    BY <1>2, <2>2 DEF Carries
<1> QED
  BY <1>4, <1>5, <1>6, <1>7, <1>8 DEF Match

-----------------------------------------------------------------------------
\* Both runs.

LEMMA LeastNumber ==
  ASSUME NEW T \in SUBSET Nat, NEW n \in T
  PROVE  \E m \in T : \A j \in T : m <= j
<1> SUFFICES ASSUME \A m \in T : \E j \in T : ~(m <= j) PROVE FALSE
  OBVIOUS
<1> DEFINE S == {k \in Nat : \A j \in T : k <= j}
<1>1. 0 \in S
  OBVIOUS
<1>2. ASSUME NEW k \in Nat, k \in S PROVE k + 1 \in S
  <2>1. \A j \in T : k <= j
    BY <1>2
  <2>2. k \notin T
    BY <2>1
  <2>3. \A j \in T : k + 1 <= j
    BY <2>1, <2>2
  <2> QED
    BY <2>3
<1> HIDE DEF S
<1>3. Nat \subseteq S
  BY <1>1, <1>2, NatSetInduction
<1>4. n + 1 \in S
  BY <1>3
<1>5. n + 1 <= n
  BY <1>4 DEF S
<1> QED
  BY <1>5

\* Run x of f went through the states h[1], ..., h[n]; run y of g, if it has
\* been called, follows the first of them.
Ahead(f, V, t, P, r, d, g, x, y, h, n) ==
  /\ h[n] = x
  /\ \A k \in 1 .. n : RunFits(f, h[k]) /\ Continues(x.trace, h[k].trace)
  /\ \A k \in 1 .. n - 1 : h[k + 1] \in Steps(f, h[k])
  /\ y.status = "idle" => h[1] = Start(f, x.args)
  /\ y.status # "idle" => Machine(g, y) /\ Follows(f, V, t, P, r, d, g, h[1], y)

\* Run y has come to a state that run x went through.
OnTheWay(f, V, t, P, r, d, g, x, y) ==
  \E n, h : n \in Nat \ {0} /\ Ahead(f, V, t, P, r, d, g, x, y, h, n)

\* Run x is called.
LEMMA CalledOnTheWay ==
  ASSUME NEW f \in Functions, NEW V, NEW t, NEW P, NEW r, NEW d, NEW g,
         NEW a, NEW x, x = Start(f, a), NEW y, y.status = "idle"
  PROVE  OnTheWay(f, V, t, P, r, d, g, x, y)
<1> DEFINE h == [k \in {1} |-> x]
<1>1. RunFits(f, x)
  BY StartFits
<1>2. x.args = a
  BY StartOfRun
<1>3. Continues(x.trace, x.trace)
  BY <1>1, ContinuesFacts DEF RunFits, Machine
<1>4. h[1] = x /\ 1 .. 1 = {1} /\ 1 .. 1 - 1 = {}
  OBVIOUS
<1> HIDE DEF h
<1>5. Ahead(f, V, t, P, r, d, g, x, y, h, 1)
  BY <1>1, <1>2, <1>3, <1>4 DEF Ahead
<1> QED
  BY <1>5, 1 \in Nat \ {0} DEF OnTheWay

\* Run x goes on.
LEMMA GoneOnTheWay ==
  ASSUME NEW f \in Functions, NEW V, NEW t, NEW P, NEW r, NEW d, NEW g, NEW x, NEW y,
         OnTheWay(f, V, t, P, r, d, g, x, y), y.status = "idle", NEW m \in Steps(f, x)
  PROVE  OnTheWay(f, V, t, P, r, d, g, m, y)
<1>0. PICK n, h : n \in Nat \ {0} /\ Ahead(f, V, t, P, r, d, g, x, y, h, n)
  BY DEF OnTheWay
<1> DEFINE e == [k \in 1 .. n + 1 |-> IF k = n + 1 THEN m ELSE h[k]]
<1>1. /\ h[n] = x /\ h[1] = Start(f, x.args)
      /\ \A k \in 1 .. n : RunFits(f, h[k]) /\ Continues(x.trace, h[k].trace)
      /\ \A k \in 1 .. n - 1 : h[k + 1] \in Steps(f, h[k])
  BY <1>0 DEF Ahead
<1>2. RunFits(f, x) /\ Machine(f, x)
  BY <1>0, <1>1 DEF RunFits
<1>3. RunFits(f, m) /\ m.args = x.args /\ Continues(m.trace, x.trace)
  BY <1>2, StepFits, StepFacts
<1>4. Continues(m.trace, m.trace)
  BY <1>3, ContinuesFacts DEF RunFits, Machine
<1>5. /\ e[n + 1] = m /\ e[1] = h[1] /\ e[n] = h[n]
      /\ \A k \in 1 .. n : e[k] = h[k]
      /\ \A k \in 1 .. n + 1 : k \in 1 .. n \/ k = n + 1
      /\ \A k \in 1 .. n : (k \in 1 .. n - 1 /\ k + 1 \in 1 .. n) \/ k = n
  BY <1>0
<1> HIDE DEF e
<1>6. \A k \in 1 .. n + 1 : RunFits(f, e[k]) /\ Continues(m.trace, e[k].trace)
  <2>1. \A k \in 1 .. n : RunFits(f, h[k]) /\ Continues(m.trace, h[k].trace)
    BY <1>1, <1>3, ContinuesFacts
  <2> QED
    BY <1>3, <1>4, <1>5, <2>1
<1>7. \A k \in 1 .. n : e[k + 1] \in Steps(f, e[k])
  BY <1>1, <1>5
<1>8. (n + 1) - 1 = n /\ n + 1 \in Nat \ {0}
  BY <1>0
<1>9. Ahead(f, V, t, P, r, d, g, m, y, e, n + 1)
  BY <1>1, <1>3, <1>5, <1>6, <1>7, <1>8 DEF Ahead
<1> QED
  BY <1>8, <1>9 DEF OnTheWay

\* Run y is called.
LEMMA RestartedOnTheWay ==
  ASSUME NEW f, NEW V, NEW t, NEW P, NEW r, NEW d, NEW g, Promoted(f, V, t, P, r, d, g),
         NEW x, NEW y, OnTheWay(f, V, t, P, r, d, g, x, y), y.status = "idle",
         NEW m, m = Start(g, x.args)
  PROVE  OnTheWay(f, V, t, P, r, d, g, x, m)
<1>1. PICK n, h : n \in Nat \ {0} /\ Ahead(f, V, t, P, r, d, g, x, y, h, n)
  BY DEF OnTheWay
<1>2. h[1] = Start(f, x.args)
  BY <1>1 DEF Ahead
<1>3. Match(f, V, t, P, r, d, g, h[1], m)
  BY <1>2, StartsMatch
<1>4. m.status = "run" /\ Machine(g, m)
  BY StartOfRun
<1>5. Ahead(f, V, t, P, r, d, g, x, m, h, n)
  BY <1>1, <1>3, <1>4 DEF Ahead, Follows
<1> QED
  BY <1>1, <1>5 DEF OnTheWay

\* Run y has gone on to z, and keeps up with the next state of run x.
LEMMA NextAhead ==
  ASSUME NEW f, NEW V, NEW t, NEW P, NEW r, NEW d, NEW g, NEW x, NEW y, NEW h, NEW n \in Nat \ {0, 1},
         Ahead(f, V, t, P, r, d, g, x, y, h, n), NEW z, Machine(g, z), z.status # "idle",
         Follows(f, V, t, P, r, d, g, h[2], z)
  PROVE  \E e, l : l \in Nat \ {0} /\ l < n /\ Ahead(f, V, t, P, r, d, g, x, z, e, l)
<1> DEFINE l == n - 1
           e == [k \in 1 .. l |-> h[k + 1]]
<1>1. /\ h[n] = x
      /\ \A k \in 1 .. n : RunFits(f, h[k]) /\ Continues(x.trace, h[k].trace)
      /\ \A k \in 1 .. n - 1 : h[k + 1] \in Steps(f, h[k])
  BY DEF Ahead
<1>2. /\ l \in Nat \ {0} /\ l < n /\ e[l] = h[n] /\ e[1] = h[2]
      /\ \A k \in 1 .. l : e[k] = h[k + 1] /\ k + 1 \in 1 .. n
      /\ \A k \in 1 .. l - 1 : /\ e[k] = h[k + 1] /\ e[k + 1] = h[(k + 1) + 1]
                               /\ k + 1 \in 1 .. n - 1
  OBVIOUS
<1> HIDE DEF l, e
<1>3. \A k \in 1 .. l : RunFits(f, e[k]) /\ Continues(x.trace, e[k].trace)
  BY <1>1, <1>2
<1>4. \A k \in 1 .. l - 1 : e[k + 1] \in Steps(f, e[k])
  BY <1>1, <1>2
<1>5. Ahead(f, V, t, P, r, d, g, x, z, e, l)
  BY <1>1, <1>2, <1>3, <1>4 DEF Ahead
<1> QED
  BY <1>2, <1>5

\* Run y goes on.
LEMMA FollowedOnTheWay ==
  ASSUME NEW f, NEW V, NEW t, NEW P, NEW r, NEW d, NEW g, Promoted(f, V, t, P, r, d, g),
         Complete(f, P, g),
         NEW x, x.status # "run", NEW y, OnTheWay(f, V, t, P, r, d, g, x, y),
         NEW z \in Steps(g, y), SameReply(z.trace, x.trace)
  PROVE  OnTheWay(f, V, t, P, r, d, g, x, z)
<1>0. y.status = "run"
  BY StepCases
<1>1. PICK n, h : /\ n \in Nat \ {0} /\ Ahead(f, V, t, P, r, d, g, x, y, h, n)
                  /\ \A l, e : l \in Nat \ {0} /\ l < n => ~Ahead(f, V, t, P, r, d, g, x, y, e, l)
  <2> DEFINE T == {l \in Nat \ {0} : \E e : Ahead(f, V, t, P, r, d, g, x, y, e, l)}
  <2>1. PICK l \in T : TRUE
    BY DEF OnTheWay
  <2>2. PICK m \in T : \A j \in T : m <= j
    BY LeastNumber
  <2>3. \A e, j : j \in Nat \ {0} /\ j < m => ~Ahead(f, V, t, P, r, d, g, x, y, e, j)
    BY <2>2
  <2> QED
    BY <2>2, <2>3
<1>2. /\ h[n] = x /\ Machine(g, y) /\ Follows(f, V, t, P, r, d, g, h[1], y)
      /\ \A k \in 1 .. n : RunFits(f, h[k]) /\ Continues(x.trace, h[k].trace)
      /\ \A k \in 1 .. n - 1 : h[k + 1] \in Steps(f, h[k])
  BY <1>0, <1>1 DEF Ahead
<1>3. Machine(g, z) /\ Continues(z.trace, y.trace) /\ z.status # "idle"
  BY <1>2, StepFacts
<1>4. PICK u : u = h[1]
  OBVIOUS
<1>5. RunFits(f, u)
  BY <1>1, <1>2, <1>4
<1>6. ASSUME Follows(f, V, t, P, r, d, g, u, z) PROVE OnTheWay(f, V, t, P, r, d, g, x, z)
  <2>1. Ahead(f, V, t, P, r, d, g, x, z, h, n)
    BY <1>1, <1>3, <1>4, <1>6 DEF Ahead
  <2> QED
    BY <1>1, <2>1 DEF OnTheWay
<1>7. CASE ~Match(f, V, t, P, r, d, g, u, y)
  <2>1. u.status \in {"trap", "stuck"} /\ Continues(y.trace, u.trace)
    BY <1>2, <1>4, <1>7 DEF Follows
  <2>2. Continues(z.trace, u.trace)
    BY <1>3, <2>1, ContinuesFacts
  <2> QED
    BY <1>6, <2>1, <2>2 DEF Follows
<1>8. CASE Match(f, V, t, P, r, d, g, u, y) /\ AtPhis(f, P, u, y)
  <2>1. u.block \in Range(f.order)
    BY <1>5 DEF RunFits
  <2>2. Match(f, V, t, P, r, d, g, u, z)
    BY <1>8, <2>1, MatchAtPhi
  <2> QED
    BY <1>6, <2>2 DEF Follows
<1>9. CASE Match(f, V, t, P, r, d, g, u, y) /\ Past(f, V, P, u, y)
  <2>1. u.status = "run"
    BY <1>0, <1>9 DEF Match, Alike
  <2>2. n # 1
    BY <1>2, <1>4, <2>1
  <2>3. n \in Nat \ {0, 1} /\ 1 \in 1 .. n - 1 /\ 2 \in 1 .. n
    BY <1>1, <2>2
  <2>4. h[1 + 1] \in Steps(f, h[1])
    BY <1>2, <2>3
  <2>5. PICK m : m = h[2]
    OBVIOUS
  <2>6. m \in Steps(f, u) /\ Continues(x.trace, m.trace)
    BY <1>2, <1>4, <2>3, <2>4, <2>5
  <2>7. CASE u.pos <= Len(Ins(f, u.block)) /\ Here(f, u) \notin Kept(f, V)
    <3>1. Follows(f, V, t, P, r, d, g, m, y)
      BY <1>5, <1>9, <2>6, <2>7, DroppedStep
    <3>2. y.status # "idle"
      BY <1>0
    <3>3. \E e, l : l \in Nat \ {0} /\ l < n /\ Ahead(f, V, t, P, r, d, g, x, y, e, l)
      BY <1>1, <1>2, <2>3, <2>5, <3>1, <3>2, NextAhead
    <3> QED
      BY <1>1, <3>3
  <2>8. CASE u.pos <= Len(Ins(f, u.block)) => Here(f, u) \in Kept(f, V)
    <3>1. Follows(f, V, t, P, r, d, g, m, z)
      BY <1>5, <1>9, <2>6, <2>8, KeptStep
    <3>2. \E e, l : l \in Nat \ {0} /\ l < n /\ Ahead(f, V, t, P, r, d, g, x, z, e, l)
      BY <1>1, <1>3, <2>3, <2>5, <3>1, NextAhead
    <3> QED
      BY <3>2 DEF OnTheWay
  <2> QED
    BY <2>7, <2>8
<1>10. Match(f, V, t, P, r, d, g, u, y) => Past(f, V, P, u, y) \/ AtPhis(f, P, u, y)
  BY DEF Match
<1> QED
  BY <1>7, <1>8, <1>9, <1>10

-----------------------------------------------------------------------------
\* The invariant.

\* What the pass has made when it is through is the function on names, and the
\* second run, if there is one, keeps up with the first.
Made ==
  \E V, t, P, r, d :
    /\ Promoted(source, V, t, P, r, d, fn) /\ Complete(source, P, fn)
    /\ before.status # "idle" => OnTheWay(source, V, t, P, r, d, fn, before, after)

SoundInv ==
  /\ DominanceInv /\ TypeInv /\ PhiInv /\ source \in Functions /\ Phases(source)
  /\ pc = "verify" => \E P, r, d : Promoted(source, Vars, idom, P, r, d, fn)
  /\ pc = "done" => Made
  /\ pc # "done" => Uncalled
  /\ after.status # "idle" => before.status \notin {"idle", "run"}

LEMMA InitSound == SoundInit => SoundInv
<1> SUFFICES ASSUME SoundInit PROVE SoundInv
  OBVIOUS
<1>1. Init /\ source = fn /\ Uncalled
  BY DEF SoundInit
<1>2. DominanceInv /\ TypeInv /\ PhiInv
  BY <1>1, DominanceInit, TypeInit DEF Init, PhiInv
<1>3. before.status = "idle" /\ after.status = "idle"
  BY <1>1 DEF Uncalled, Idle
<1>4. fn \in Functions /\ pc = "idoms" /\ phis = [b \in Blocks(fn) |-> <<>>]
  BY <1>1 DEF Init
<1>5. Phases(source)
  BY <1>1, <1>4 DEF Phases
<1> QED
  BY <1>1, <1>2, <1>3, <1>4, <1>5 DEF SoundInv

\* The invariants of the pass outlast a step of it.
LEMMA PassSound ==
  ASSUME SoundInv, [Next]_vars, source' = source
  PROVE  DominanceInv' /\ TypeInv' /\ PhiInv' /\ Phases(source)'
<1>1. DominanceInv /\ TypeInv /\ PhiInv /\ Phases(source)
  BY DEF SoundInv
<1>2. DominanceInv'
  BY <1>1, DominanceStep
<1>3. TypeInv'
  BY <1>1, <1>2, TypeStep
<1>4. PhiInv'
  BY <1>1, PhiStep
<1>5. PICK f : f = source
  OBVIOUS
<1>6. Phases(f)'
  BY <1>1, <1>5, PhasesStep
<1>7. Phases(source)'
  BY <1>5, <1>6 DEF Phases
<1> QED
  BY <1>2, <1>3, <1>4, <1>7

LEMMA PromoteSound == SoundInv /\ Promote => SoundInv'
<1> SUFFICES ASSUME SoundInv, Promote PROVE SoundInv'
  OBVIOUS
<1>1. /\ pc # "done" /\ Next /\ source' = source /\ before' = before /\ after' = after
      /\ source \in Functions /\ Uncalled /\ TypeInv /\ Phases(source)
      /\ pc = "verify" => \E P, r, d : Promoted(source, Vars, idom, P, r, d, fn)
  BY DEF SoundInv, Promote
<1>2. DominanceInv' /\ TypeInv' /\ PhiInv' /\ Phases(source)'
  BY <1>1, PassSound
<1>3. Uncalled' /\ before'.status = "idle" /\ after'.status = "idle"
  BY <1>1 DEF Uncalled, Idle
<1>4. PICK f : f = source
  OBVIOUS
<1>5. CASE AddPhiInstrs
  <2>1. pc' = "verify" /\ idom' = idom /\ Vars' = Vars
    BY <1>5 DEF AddPhiInstrs, Vars
  <2>2. \E P, r, d : Promoted(f, Vars, idom, P, r, d, fn')
    BY <1>1, <1>4, <1>5, AddPhisPromotes
  <2>3. \E P, r, d : Promoted(source', Vars', idom', P, r, d, fn')
    BY <1>1, <1>4, <2>1, <2>2
  <2> QED
    BY <1>1, <1>2, <1>3, <2>1, <2>3 DEF SoundInv
<1>6. CASE verify_ssa
  <2>1. pc = "verify" /\ pc' \in {"refused", "done"} /\ fn' = fn
    BY <1>6 DEF verify_ssa
  <2>2. ASSUME pc' = "done" PROVE Made'
    <3>1. PICK V, t : V = Vars /\ t = idom
      OBVIOUS
    <3>2. PICK P, r, d : Promoted(f, V, t, P, r, d, fn)
      BY <1>1, <1>4, <2>1, <3>1
    <3>3. Complete(f, P, fn)
      BY <1>6, <2>2, <3>2, VerifyCompletes
    <3>4. Promoted(f, V, t, P, r, d, fn') /\ Complete(f, P, fn')
      BY <2>1, <3>2, <3>3
    <3> QED
      BY <1>1, <1>3, <1>4, <3>4 DEF Made
  <2> QED
    BY <1>1, <1>2, <1>3, <2>1, <2>2 DEF SoundInv
<1>7. CASE ~AddPhiInstrs /\ ~verify_ssa
  <2>1. pc' \notin {"verify", "done"}
    <3>1. CASE ComputeIdom \/ IdomRoundDone \/ ComputeFrontier \/ FrontiersDone \/ InsertPhis \/ StartRename
      BY <3>1 DEF ComputeIdom, IdomRoundDone, ComputeFrontier, FrontiersDone, InsertPhis, StartRename
    <3>2. CASE KeepInstr \/ DropAlloca \/ DropStore \/ DropLoad
      BY <3>2 DEF KeepInstr, DropAlloca, DropStore, DropLoad, InBody, InCall
    <3>3. CASE WireSuccessors \/ RenameChild \/ Return
      BY <3>3 DEF WireSuccessors, RenameChild, Return, InCall
    <3> QED
      BY <1>1, <1>7, <3>1, <3>2, <3>3 DEF Next
  <2> QED
    BY <1>1, <1>2, <1>3, <2>1 DEF SoundInv
<1> QED
  BY <1>5, <1>6, <1>7

LEMMA ObserveSound == SoundInv /\ Observe => SoundInv'
<1> SUFFICES ASSUME SoundInv, Observe PROVE SoundInv'
  OBVIOUS
<1>1. /\ pc = "done" /\ source \in Functions /\ Made
      /\ after.status # "idle" => before.status \notin {"idle", "run"}
  BY DEF SoundInv, Observe
<1>2. Compare(fn) /\ UNCHANGED vars
  BY DEF Observe, vars
<1>3. source' = source /\ fn' = fn /\ pc' = "done"
  BY <1>1, <1>2 DEF Compare, CallBefore, StepBefore, CallAfter, StepAfter, vars
<1>4. DominanceInv' /\ TypeInv' /\ PhiInv' /\ Phases(source)'
  BY <1>2, <1>3, PassSound
<1>5. PICK f, g : f = source /\ g = fn
  OBVIOUS
<1>6. PICK V, t, P, r, d :
        /\ Promoted(f, V, t, P, r, d, g) /\ Complete(f, P, g)
        /\ before.status # "idle" => OnTheWay(f, V, t, P, r, d, g, before, after)
  BY <1>1, <1>5 DEF Made
<1>7. /\ before'.status # "idle" => OnTheWay(f, V, t, P, r, d, g, before', after')
      /\ after'.status # "idle" => before'.status \notin {"idle", "run"}
  <2>1. CASE CallBefore
    <3>1. PICK a : before' = Start(f, a)
      BY <1>5, <2>1 DEF CallBefore
    <3>2. after' = after /\ before.status = "idle"
      BY <2>1 DEF CallBefore
    <3>3. after'.status = "idle"
      BY <1>1, <3>2
    <3> QED
      BY <1>1, <1>5, <3>1, <3>3, CalledOnTheWay
  <2>2. CASE StepBefore
    <3>1. before.status = "run" /\ before' \in Steps(f, before) /\ after' = after
      BY <1>5, <2>2 DEF StepBefore
    <3>2. after'.status = "idle" /\ after.status = "idle"
      BY <1>1, <3>1
    <3>3. OnTheWay(f, V, t, P, r, d, g, before, after)
      BY <1>6, <3>1
    <3>4. OnTheWay(f, V, t, P, r, d, g, before', after)
      BY <1>1, <1>5, <3>1, <3>2, <3>3, GoneOnTheWay
    <3> QED
      BY <3>1, <3>2, <3>4
  <2>3. CASE CallAfter(fn)
    <3>1. /\ before.status \notin {"idle", "run"} /\ after.status = "idle"
          /\ after' = Start(g, before.args) /\ before' = before
      BY <1>5, <2>3 DEF CallAfter
    <3>2. OnTheWay(f, V, t, P, r, d, g, before, after)
      BY <1>6, <3>1
    <3>3. OnTheWay(f, V, t, P, r, d, g, before, after')
      BY <1>6, <3>1, <3>2, RestartedOnTheWay
    <3> QED
      BY <3>1, <3>3
  <2>4. CASE StepAfter(fn)
    <3>1. /\ after.status = "run" /\ before' = before /\ after' \in Steps(g, after)
          /\ SameReply(after'.trace, before.trace)
      BY <1>5, <2>4 DEF StepAfter, SameReplies, SameReply
    <3>2. before.status \notin {"idle", "run"}
      BY <1>1, <3>1
    <3>3. OnTheWay(f, V, t, P, r, d, g, before, after)
      BY <1>6, <3>2
    <3>4. OnTheWay(f, V, t, P, r, d, g, before, after')
      BY <1>6, <3>1, <3>2, <3>3, FollowedOnTheWay
    <3> QED
      BY <3>1, <3>2, <3>4
  <2> QED
    BY <1>2, <2>1, <2>2, <2>3, <2>4 DEF Compare
<1>8. Made'
  BY <1>3, <1>5, <1>6, <1>7 DEF Made
<1> QED
  BY <1>1, <1>3, <1>4, <1>7, <1>8 DEF SoundInv

LEMMA StutterSound == SoundInv /\ UNCHANGED allvars => SoundInv'
<1> SUFFICES ASSUME SoundInv, UNCHANGED allvars PROVE SoundInv'
  OBVIOUS
<1>1. UNCHANGED vars /\ UNCHANGED <<source, before, after, fn, pc, idom, worklist>>
  BY DEF allvars, vars
<1>2. DominanceInv' /\ TypeInv' /\ PhiInv' /\ Phases(source)'
  BY <1>1, PassSound
<1>3. Made => Made'
  BY <1>1 DEF Made
<1>4. Vars' = Vars /\ (Uncalled => Uncalled')
  BY <1>1 DEF Vars, Uncalled
<1> QED
  BY <1>1, <1>2, <1>3, <1>4 DEF SoundInv

-----------------------------------------------------------------------------
\* The theorems.

\* The strengthening that the property follows from: rename has put, for every
\* value that came from memory, the name of what was stored there last, and
\* the second run keeps up with a state that the first one went through.
THEOREM SoundInvariant == SoundSpec => []SoundInv
<1>1. SoundInit => SoundInv
  BY InitSound
<1>2. SoundInv /\ [SoundNext]_allvars => SoundInv'
  BY PromoteSound, ObserveSound, StutterSound DEF SoundNext
<1> QED
  BY <1>1, <1>2, PTL DEF SoundSpec

\* Every function that lowering makes behaves on SSA values as it did with its
\* variables in memory: called with the same arguments and given the same
\* replies, the promoted function makes the calls of the other one and returns
\* what it returns (mem2reg.hpp 160-207).
THEOREM BehaviourIsPreserved == SoundSpec => []BehaviourPreserved
<1>1. SoundInv => BehaviourPreserved
  <2> SUFFICES ASSUME SoundInv, before.status # "idle", after.status # "idle"
               PROVE  SameCalls /\ SameEnd
    BY DEF BehaviourPreserved
  <2>0. pc = "done"
    BY DEF SoundInv, Uncalled, Idle
  <2>1. PICK V, t, P, r, d, n, h :
          n \in Nat \ {0} /\ Ahead(source, V, t, P, r, d, fn, before, after, h, n)
    BY <2>0 DEF SoundInv, Made, OnTheWay
  <2>2. /\ h[n] = before /\ Follows(source, V, t, P, r, d, fn, h[1], after)
        /\ Continues(before.trace, h[1].trace)
        /\ \A k \in 1 .. n - 1 : h[k + 1] \in Steps(source, h[k])
    BY <2>1 DEF Ahead
  <2>3. PICK x : x = h[1]
    OBVIOUS
  <2>4. x.status # "run" => n = 1
    <3>1. SUFFICES ASSUME x.status # "run", n # 1 PROVE FALSE
      OBVIOUS
    <3>2. 1 \in 1 .. n - 1
      BY <2>1, <3>1
    <3>3. h[1 + 1] \in Steps(source, x)
      BY <2>2, <2>3, <3>2
    <3> QED
      BY <3>1, <3>3, StepCases
  <2>5. n = 1 => x = before
    BY <2>2, <2>3
  <2>6. (\E S : before.trace \in Seq(S)) /\ (\E S : x.trace \in Seq(S))
    BY <2>2, <2>3 DEF Continues
  <2>7. CASE Match(source, V, t, P, r, d, fn, x, after)
    <3>1. after.trace = x.trace /\ after.status = x.status /\ after.value = x.value
      BY <2>7 DEF Match, Alike
    <3>2. \A k \in DOMAIN after.trace : after.trace[k] = before.trace[k]
      BY <2>2, <2>3, <2>6, <3>1 DEF Continues
    <3>3. SameCalls
      BY <3>2 DEF SameCalls
    <3>4. SameEnd
      BY <2>4, <2>5, <3>1 DEF SameEnd
    <3> QED
      BY <3>3, <3>4
  <2>8. CASE x.status \in {"trap", "stuck"} /\ Continues(after.trace, x.trace)
    <3>1. x = before
      BY <2>4, <2>5, <2>8
    <3>2. \A k \in DOMAIN before.trace : after.trace[k] = before.trace[k]
      BY <2>6, <2>8, <3>1 DEF Continues
    <3> QED
      BY <2>8, <3>1, <3>2 DEF SameCalls, SameEnd
  <2> QED
    BY <2>2, <2>3, <2>7, <2>8 DEF Follows
<1> QED
  BY <1>1, SoundInvariant, PTL
=============================================================================
