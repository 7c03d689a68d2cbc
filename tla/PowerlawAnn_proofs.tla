-------------------------- MODULE PowerlawAnn_proofs --------------------------
(***************************************************************************)
(* Proofs about powerlaw_ann_t and its graph, for any capacity, list       *)
(* lengths, levels, coordinates and labels, any number of inserts, calls   *)
(* and lives of the files, and a crash at any point.                       *)
(***************************************************************************)
EXTENDS PowerlawAnn, SharedLemmas

-----------------------------------------------------------------------------
(***************************************************************************)
(* The inductive invariant of the graph: its lists are allocated, and each *)
(* insert in progress holds an element of its own and walks over lists     *)
(* that are.                                                               *)
(***************************************************************************)
Vectors == DOMAIN Coordinates
AllLabels == Labels \cup UNION {ToSet(batch) : batch \in Batches}

\* The elements whose list on a layer is allocated.
At(h, layer) == {n \in 0 .. h.count - 1 : layer <= h.nodes[n].level}

NodeOk(h, node) ==
  /\ node = [label |-> node.label, vec |-> node.vec, level |-> node.level, links |-> node.links]
  /\ node.vec \in Vectors /\ node.level \in 0 .. MaxLevel
  /\ node.links = [layer \in DOMAIN node.links |-> node.links[layer]]
  /\ \A layer \in DOMAIN node.links :
       /\ layer \in 0 .. node.level
       /\ node.links[layer] \in Seq(At(h, layer)) /\ Len(node.links[layer]) <= Limit(layer)

LookupOk(h) ==
  /\ \A l \in DOMAIN h.lookup : l \in AllLabels /\ h.lookup[l] \in 0 .. h.count - 1
  /\ \A l, k \in DOMAIN h.lookup : h.lookup[l] = h.lookup[k] => l = k

IndexOk(h) ==
  /\ h = [nodes |-> h.nodes, count |-> h.count, lookup |-> h.lookup, entry |-> h.entry, top |-> h.top]
  /\ h.nodes = [n \in DOMAIN h.nodes |-> h.nodes[n]] /\ h.lookup = [l \in DOMAIN h.lookup |-> h.lookup[l]]
  /\ DOMAIN h.nodes \subseteq Nat /\ IsFiniteSet(DOMAIN h.nodes)
  /\ h.count \in Nat /\ 0 .. h.count - 1 \subseteq DOMAIN h.nodes
  /\ h.entry \in Nat /\ h.top \in -1 .. MaxLevel
  /\ h.top >= 0 => h.entry \in At(h, h.top)
  /\ \A n \in DOMAIN h.nodes : NodeOk(h, h.nodes[n])
  /\ \A n \in DOMAIN h.nodes : n >= h.count => h.nodes[n].level = 0
  /\ LookupOk(h)

Todos == Seq([label : AllLabels, vec : Vectors])
InsertStates ==
  [pc : {"idle"}, todo : Todos]
  \cup [pc : {"fill", "first", "enter"}, todo : Todos, id : Nat]
  \cup [pc : {"choose", "back", "raise"}, todo : Todos, id : Nat, ep : Nat, top : Int, at : Int, rest : Seq(Nat)]

InsertOk(h, i) ==
  /\ i \in InsertStates
  /\ i.pc # "idle" =>
       /\ i.todo # <<>> /\ i.id \in 0 .. h.count - 1
       /\ Head(i.todo).label \in DOMAIN h.lookup /\ h.lookup[Head(i.todo).label] = i.id
  /\ i.pc = "fill" => h.nodes[i.id].level = 0
  /\ i.pc = "first" => i.id = 0
  /\ i.pc \in {"choose", "back"} => i.at \in 0 .. h.nodes[i.id].level /\ i.ep \in At(h, i.at)
  /\ i.pc = "back" => i.rest # <<>> /\ ToSet(i.rest) \subseteq At(h, i.at)

ElementsApart == \A t, u \in Writers : ins[t].pc # "idle" /\ ins[u].pc # "idle" /\ ins[t].id = ins[u].id => t = u

HnswInv ==
  /\ IndexOk(index)
  /\ DOMAIN ins = Writers /\ ins = [t \in Writers |-> ins[t]]
  /\ \A t \in Writers : InsertOk(index, ins[t])
  /\ ElementsApart

-----------------------------------------------------------------------------
(***************************************************************************)
(* The inductive invariant of the application's calls and the background   *)
(* thread.                                                                 *)
(***************************************************************************)
Records == Seq([label : Labels, vec : Vectors])
ContentOk(c) ==
  c = [l \in DOMAIN c |-> c[l]] /\ \A l \in DOMAIN c : l \in AllLabels /\ c[l] \in Vectors

ApiTypes ==
  /\ max \in Nat /\ clock \in Vectors
  /\ delta \in Records /\ log \in [records : Records, tail : {"whole", "torn", "garbled"}]
  /\ user \in [pc : {"idle", "inserting", "check", "lock", "merging", "remove", "open", "write", "replaying",
                     "done", "threw"},
               call : {"none", "build", "consolidate", "save", "load"}]
  /\ bg \in {"wait", "flush", "apply", "merging", "remove", "ended"}
  /\ bgMu \in {"", USER, BG} /\ deltaMu \in {"", USER, BG}
  /\ stopBg \in BOOLEAN /\ quiet \in BOOLEAN
  /\ ContentOk(newest) /\ ContentOk(kept)

\* Who is where, and what that says of the locks and the buffer.
Merging == user.call \in {"consolidate", "save"}
Control ==
  /\ \A t \in Writers \ {USER, BG} : ins[t] = Idle
  /\ Working(USER) => user.pc \in {"inserting", "merging", "replaying"}
  /\ Working(BG) => bg = "merging"
  /\ bgMu = USER <=> user.pc \in {"merging", "remove"}
  /\ deltaMu = USER <=> user.pc = "merging"
  /\ bgMu = BG <=> bg \in {"flush", "apply", "merging", "remove"}
  /\ deltaMu = BG <=> bg = "merging"
  /\ user.pc = "idle" <=> user.call = "none"
  /\ user.pc = "inserting" => user.call = "build"
  /\ user.pc = "replaying" => user.call = "load"
  /\ user.pc \in {"check", "lock", "merging", "remove", "open", "write"} => Merging
  /\ user.pc \in {"remove", "open", "write"} \/ (user.pc = "done" /\ Merging) => delta = <<>>
  /\ bg = "ended" => stopBg
  /\ stopBg => user.pc = "idle"
  /\ newest = Nothing => delta = <<>> /\ bg \in {"wait", "ended"}
  /\ user.call = "load" => delta = <<>> /\ bg = "wait"
  /\ user.pc = "replaying" => newest = Nothing

\* The index file.
FileOk ==
  \/ db \in {Absent, Torn} /\ kept = Nothing
  \/ /\ db = [kind |-> "saved", index |-> db.index]
     /\ IndexOk(db.index) /\ kept = Content(db.index)

-----------------------------------------------------------------------------
(***************************************************************************)
(* Searching.  A search starts at an element whose list on the layer is    *)
(* allocated and meets no others.                                          *)
(***************************************************************************)
Fars(h, vec, layer) == {Far(h, vec, n) : n \in At(h, layer)}
SearchStates(h, vec, layer) ==
  [seen : SUBSET Nat, open : SUBSET Fars(h, vec, layer), best : (SUBSET Fars(h, vec, layer)) \ {{}}]

\* l2_dist: a square.
LEMMA DistLemma ==
  ASSUME NEW a \in Vectors, NEW b \in Vectors
  PROVE  L2Dist(a, b) \in Nat
<1> DEFINE d == Coordinates[a] - Coordinates[b]
<1>1. d \in Int
  BY HnswAssumption DEF Vectors
<1>2. \A x \in Int : x * x \in Nat
  <2>1. \A x \in Nat : x * x \in Nat
    OBVIOUS
  <2>2. \A x \in Int : x * x \in Int /\ x * x >= 0
    OBVIOUS
  <2> QED
    BY <2>2
<1> HIDE DEF d
<1>3. d * d \in Nat
  BY <1>1, <1>2
<1> QED
  BY <1>3 DEF L2Dist, d

\* What an element's distance is paired with.
LEMMA FarLemma ==
  ASSUME NEW h, IndexOk(h), NEW vec \in Vectors, NEW n \in DOMAIN h.nodes
  PROVE  /\ Far(h, vec, n) \in Nat \X Nat /\ Far(h, vec, n)[1] \in Nat
         /\ Far(h, vec, n)[2] = n
<1>1. h.nodes[n].vec \in Vectors /\ n \in Nat
  BY DEF IndexOk, NodeOk
<1>2. L2Dist(vec, h.nodes[n].vec) \in Nat
  BY <1>1, DistLemma
<1> QED
  BY <1>1, <1>2 DEF Far

\* The elements with a list on a layer are elements, and finitely many.
LEMMA AtLemma ==
  ASSUME NEW h, IndexOk(h), NEW layer
  PROVE  /\ At(h, layer) \subseteq DOMAIN h.nodes /\ At(h, layer) \subseteq Nat
         /\ IsFiniteSet(At(h, layer))
<1>1. At(h, layer) \subseteq DOMAIN h.nodes /\ DOMAIN h.nodes \subseteq Nat /\ IsFiniteSet(DOMAIN h.nodes)
  BY DEF At, IndexOk
<1> QED
  BY <1>1, FS_Subset

\* Links leads to elements with a list on the layer.
LEMMA LinksLemma ==
  ASSUME NEW h, IndexOk(h), NEW n \in DOMAIN h.nodes, NEW layer
  PROVE  /\ Links(h, n, layer) \in Seq(At(h, layer)) /\ Links(h, n, layer) \in Seq(Nat)
         /\ layer \in DOMAIN h.nodes[n].links => Len(Links(h, n, layer)) <= Limit(layer)
<1>0. At(h, layer) \subseteq Nat
  BY AtLemma
<1>1. CASE layer \in DOMAIN h.nodes[n].links
  <2>1. h.nodes[n].links[layer] \in Seq(At(h, layer)) /\ Len(h.nodes[n].links[layer]) <= Limit(layer)
    BY <1>1 DEF IndexOk, NodeOk
  <2> QED
    BY <1>0, <1>1, <2>1 DEF Links
<1>2. CASE layer \notin DOMAIN h.nodes[n].links
  BY <1>2 DEF Links
<1> QED
  BY <1>1, <1>2

\* A set of distances has a lowest.
LEMMA LowestLemma ==
  ASSUME NEW S \in SUBSET (Nat \X Nat), S # {}
  PROVE  Lowest(S) \in S
<1> DEFINE D == {x[1] : x \in S}
<1>1. D \in SUBSET Nat /\ D # {}
  OBVIOUS
<1>2. PICK d \in D : \A e \in D : d <= e
  BY <1>1, LeastNumber
<1> DEFINE T == {x \in S : x[1] = d}
           N == {x[2] : x \in T}
<1>3. T # {}
  OBVIOUS
<1>4. N \in SUBSET Nat /\ N # {}
  BY <1>3
<1>5. PICK n \in N : \A m \in N : n <= m
  BY <1>4, LeastNumber
<1>6. PICK x \in T : x[2] = n
  OBVIOUS
<1>7. ASSUME NEW y \in S PROVE x = y \/ Lower(x, y)
  <2>1. x \in Nat \X Nat /\ y \in Nat \X Nat /\ x[1] = d /\ x[2] = n /\ d \in Nat /\ n \in Nat
    BY <1>1, <1>4, <1>6
  <2>2. d <= y[1]
    BY <1>2
  <2>3. y[1] = d => n <= y[2]
    BY <1>5
  <2>4. y[1] \in Nat /\ y[2] \in Nat /\ x = <<x[1], x[2]>> /\ y = <<y[1], y[2]>>
    BY <2>1
  <2> QED
    BY <2>1, <2>2, <2>3, <2>4 DEF Lower
<1>8. \E z \in S : \A y \in S : z = y \/ Lower(z, y)
  BY <1>6, <1>7
<1> QED
  BY <1>8 DEF Lowest

\* What a search keeps are distances to elements with a list on the layer.
LEMMA FarsLemma ==
  ASSUME NEW h, IndexOk(h), NEW vec \in Vectors, NEW layer
  PROVE  /\ Fars(h, vec, layer) \in SUBSET (Nat \X Nat) /\ IsFiniteSet(Fars(h, vec, layer))
         /\ \A n \in At(h, layer) : Far(h, vec, n) \in Fars(h, vec, layer)
         /\ \A x \in Fars(h, vec, layer) : x[1] \in Nat /\ x[2] \in At(h, layer)
<1>1. \A n \in At(h, layer) : /\ Far(h, vec, n) \in Nat \X Nat /\ Far(h, vec, n)[1] \in Nat
                             /\ Far(h, vec, n)[2] = n
  BY AtLemma, FarLemma
<1>2. IsFiniteSet(Fars(h, vec, layer))
  <2> DEFINE S == At(h, layer)
             f == [n \in S |-> Far(h, vec, n)]
  <2>1. IsFiniteSet(S)
    BY AtLemma
  <2>2. f \in Surjection(S, Fars(h, vec, layer))
    BY DEF Surjection, Fars
  <2> QED
    BY <2>1, <2>2, FS_Surjection
<1>3. \A n \in At(h, layer) : Far(h, vec, n) \in Fars(h, vec, layer)
  BY DEF Fars
<1>4. \A x \in Fars(h, vec, layer) : \E n \in At(h, layer) : x = Far(h, vec, n)
  BY DEF Fars
<1> QED
  BY <1>1, <1>2, <1>3, <1>4

\* One neighbour met.
LEMMA MeetLemma ==
  ASSUME NEW h, IndexOk(h), NEW vec \in Vectors, NEW layer, NEW ef \in Nat \ {0},
         NEW s \in SearchStates(h, vec, layer), NEW n \in At(h, layer)
  PROVE  Meet(h, vec, ef, s, n) \in SearchStates(h, vec, layer)
<1> DEFINE x == Far(h, vec, n)
           best == s.best \cup {x}
           rest == best \ {Highest(best)}
<1>1. x \in Fars(h, vec, layer) /\ n \in Nat
  BY FarsLemma, AtLemma
<1>2. /\ s.seen \in SUBSET Nat /\ s.open \in SUBSET Fars(h, vec, layer)
      /\ s.best \in SUBSET Fars(h, vec, layer) /\ s.best # {}
      /\ s = [seen |-> s.seen, open |-> s.open, best |-> s.best]
  BY DEF SearchStates
<1>3. IsFiniteSet(best) /\ best \in SUBSET Fars(h, vec, layer) /\ best # {} /\ Cardinality(best) \in Nat
  BY <1>1, <1>2, FarsLemma, FS_Subset, FS_CardinalityType
<1>4. Cardinality(best) > ef => rest # {}
  <2> SUFFICES ASSUME Cardinality(best) > ef, rest = {} PROVE FALSE
    OBVIOUS
  <2>1. best \in SUBSET {Highest(best)}
    OBVIOUS
  <2>2. Cardinality(best) <= 1
    <3> DEFINE y == Highest(best)
    <3> HIDE DEF y
    <3>1. best \subseteq {y}
      BY <2>1 DEF y
    <3>2. IsFiniteSet({y}) /\ Cardinality({y}) = 1
      BY FS_Singleton
    <3> HIDE DEF best
    <3> QED
      BY <3>1, <3>2, FS_Subset
  <2> QED
    BY <1>3, <2>2
<1> HIDE DEF x
<1>5. CASE n \in s.seen
  BY <1>5 DEF Meet
<1>6. CASE n \notin s.seen /\ (Cardinality(s.best) < ef \/ x[1] < Highest(s.best)[1])
  <2> DEFINE b == IF Cardinality(best) > ef THEN rest ELSE best
  <2>1. b \in SUBSET Fars(h, vec, layer) /\ b # {}
    <3> HIDE DEF best
    <3> QED
      BY <1>3, <1>4
  <2>2. Meet(h, vec, ef, s, n) = [seen |-> s.seen \cup {n}, open |-> s.open \cup {x}, best |-> b]
    BY <1>6 DEF Meet, x
  <2> HIDE DEF b
  <2> QED
    BY <1>1, <1>2, <2>1, <2>2 DEF SearchStates
<1>7. CASE n \notin s.seen /\ ~(Cardinality(s.best) < ef \/ x[1] < Highest(s.best)[1])
  <2>1. Meet(h, vec, ef, s, n) = [s EXCEPT !.seen = @ \cup {n}]
    BY <1>7 DEF Meet, x
  <2>2. [s EXCEPT !.seen = @ \cup {n}] = [seen |-> s.seen \cup {n}, open |-> s.open, best |-> s.best]
    BY <1>2
  <2> QED
    BY <1>1, <1>2, <2>1, <2>2 DEF SearchStates
<1> QED
  BY <1>5, <1>6, <1>7

\* A list of neighbours met.
LEMMA MeetAllLemma ==
  ASSUME NEW h, IndexOk(h), NEW vec \in Vectors, NEW layer, NEW ef \in Nat \ {0},
         NEW s \in SearchStates(h, vec, layer), NEW q \in Seq(At(h, layer))
  PROVE  FoldLeft(LAMBDA t, n : Meet(h, vec, ef, t, n), s, q) \in SearchStates(h, vec, layer)
<1> DEFINE V == SearchStates(h, vec, layer)
           D == DOMAIN q
           F == [i \in D |-> [t \in V |-> Meet(h, vec, ef, t, q[i])]]
           C == [r \in SUBSET D |-> Max(r)]
           Step(g, r) == IF r = {} THEN s ELSE Meet(h, vec, ef, g[r \ {Max(r)}], q[Max(r)])
           P(g) == g = [r \in SUBSET D |-> Step(g, r)]
<1>1. D = 1 .. Len(q) /\ Len(q) \in Nat /\ IsFiniteSet(D) /\ \A i \in D : q[i] \in At(h, layer)
  BY FS_Interval
<1>2. \A r \in SUBSET D : r # {} => Max(r) \in r
  BY <1>1, GreatestIndex
<1>3. \A r \in SUBSET D : r # {} => C[r] \in r
  BY <1>2
<1>4. \A i \in D, t \in V : Meet(h, vec, ef, t, q[i]) \in V
  BY <1>1, MeetLemma
<1>5. F \in [D -> [V -> V]]
  <2> HIDE DEF V
  <2> QED
    BY <1>4
<1> HIDE DEF V
<1>6. s \in V
  BY DEF V
<1>20. TakesOff(C, D)
  BY <1>3 DEF TakesOff
<1>7. PICK f \in [SUBSET D -> V] : SetIterates(f, D, C, s, F)
  <2> HIDE DEF F, C, D
  <2> QED
    BY <1>1, <1>20, <1>5, <1>6, SetIteration
<1>8. \A r \in SUBSET D : f[r] = Step(f, r)
  <2> TAKE r \in SUBSET D
  <2>1. f[r] = IF r = {} THEN s ELSE F[C[r]][f[r \ {C[r]}]]
    <3> HIDE DEF F, C, D
    <3> QED
      BY <1>7 DEF SetIterates
  <2>2. CASE r = {}
    BY <2>1, <2>2
  <2>3. CASE r # {}
    <3>1. C[r] = Max(r) /\ Max(r) \in D /\ r \ {Max(r)} \in SUBSET D
      BY <1>2, <2>3
    <3>2. f[r \ {Max(r)}] \in V
      BY <3>1
    <3>3. F[Max(r)] = [t \in V |-> Meet(h, vec, ef, t, q[Max(r)])]
      BY <3>1
    <3>4. F[C[r]][f[r \ {C[r]}]] = Meet(h, vec, ef, f[r \ {Max(r)}], q[Max(r)])
      BY <3>1, <3>2, <3>3
    <3> QED
      BY <2>1, <2>3, <3>4
  <2> QED
    BY <2>2, <2>3
<1>9. P(f)
  <2>1. f = [r \in SUBSET D |-> f[r]]
    BY <1>7
  <2> HIDE DEF Step, D
  <2> QED
    BY <1>8, <2>1
<1>10. P(CHOOSE g : P(g))
  <2> HIDE DEF P
  <2> QED
    BY <1>9
<1> DEFINE iter == CHOOSE g : P(g)
<1>11. FoldLeft(LAMBDA t, n : Meet(h, vec, ef, t, n), s, q) = iter[D]
  BY DEF FoldLeft, MapThenFoldSet
<1> HIDE DEF iter
<1>12. iter = f
  <2>1. iter = [r \in SUBSET D |-> Step(iter, r)]
    BY <1>10 DEF iter
  <2>2. \A r \in SUBSET D : iter[r] = Step(iter, r)
    <3> HIDE DEF Step, D
    <3> QED
      BY <2>1
  <2>3. iter = [r \in SUBSET D |-> iter[r]]
    <3> HIDE DEF Step, D
    <3> QED
      BY <2>1
  <2>4. f = [r \in SUBSET D |-> f[r]]
    BY <1>7
  <2>5. iter[{}] = f[{}]
    BY <1>8, <2>2
  <2>6. ASSUME NEW r \in SUBSET D, r # {}, iter[r \ {C[r]}] = f[r \ {C[r]}]
        PROVE  iter[r] = f[r]
    <3>1. C[r] = Max(r)
      OBVIOUS
    <3>2. iter[r] = Step(iter, r) /\ f[r] = Step(f, r)
      BY <1>8, <2>2
    <3> QED
      BY <2>6, <3>1, <3>2
  <2> HIDE DEF C, D, F
  <2>7. AlikeOn(iter, f, D, C)
    BY <2>3, <2>4, <2>5, <2>6 DEF AlikeOn
  <2> QED
    BY <1>1, <1>20, <2>7, SameSetIteration
<1>13. f[D] \in V
  BY <1>7
<1> QED
  BY <1>11, <1>12, <1>13 DEF V

\* One round of search_layer.
LEMMA ExpandLemma ==
  ASSUME NEW h, IndexOk(h), NEW vec \in Vectors, NEW layer, NEW ef \in Nat \ {0},
         NEW s \in SearchStates(h, vec, layer)
  PROVE  ExpandNearest(h, vec, ef, layer, s) \in SearchStates(h, vec, layer)
<1> DEFINE x == Lowest(s.open)
           t == [s EXCEPT !.open = @ \ {x}]
           q == Links(h, x[2], layer)
<1>1. CASE s.open = {} \/ (x[1] > Highest(s.best)[1] /\ Cardinality(s.best) >= ef)
  BY <1>1 DEF ExpandNearest
<1>2. CASE ~(s.open = {} \/ (x[1] > Highest(s.best)[1] /\ Cardinality(s.best) >= ef))
  <2>1. s.open \in SUBSET Fars(h, vec, layer) /\ s.open # {}
    BY <1>2 DEF SearchStates
  <2>2. x \in s.open
    BY <2>1, FarsLemma, LowestLemma
  <2>3. x[2] \in DOMAIN h.nodes
    BY <2>1, <2>2, FarsLemma, AtLemma
  <2>4. q \in Seq(At(h, layer))
    BY <2>3, LinksLemma
  <2>5. t \in SearchStates(h, vec, layer)
    <3> HIDE DEF x
    <3> QED
      BY DEF SearchStates
  <2>6. ExpandNearest(h, vec, ef, layer, s) = FoldLeft(LAMBDA r, n : Meet(h, vec, ef, r, n), t, q)
    BY <1>2 DEF ExpandNearest
  <2> HIDE DEF t, q
  <2> QED
    BY <2>4, <2>5, <2>6, MeetAllLemma
<1> QED
  BY <1>1, <1>2

\* search_layer finds elements with a list on the layer, the entry point's among the rounds of
\* the search, and at least one.
LEMMA SearchLayerLemma ==
  ASSUME NEW h, IndexOk(h), NEW vec \in Vectors, NEW layer, NEW ef \in Nat \ {0}, NEW ep \in At(h, layer)
  PROVE  LET found == SearchLayer(h, vec, ep, ef, layer)
         IN found \in SUBSET Fars(h, vec, layer) /\ found # {} /\ IsFiniteSet(found)
<1> DEFINE V == SearchStates(h, vec, layer)
           x == Far(h, vec, ep)
           start == [seen |-> {ep}, open |-> {x}, best |-> {x}]
           F == [k \in Nat |-> [s \in V |-> ExpandNearest(h, vec, ef, layer, s)]]
           Step(g, k) == IF k = 0 THEN start ELSE ExpandNearest(h, vec, ef, layer, g[k - 1])
           P(g) == g = [k \in Nat |-> Step(g, k)]
<1>1. start \in V
  BY FarsLemma, AtLemma DEF SearchStates
<1>2. \A s \in V : ExpandNearest(h, vec, ef, layer, s) \in V
  BY ExpandLemma
<1> HIDE DEF V, start
<1>3. F \in [Nat -> [V -> V]]
  BY <1>2
<1>4. PICK f \in [Nat -> V] : Iterates(f, start, F)
  <2> HIDE DEF F
  <2> QED
    BY <1>1, <1>3, Iteration
<1>5. \A k \in Nat : f[k] = Step(f, k)
  <2> TAKE k \in Nat
  <2>1. f[k] = IF k = 0 THEN start ELSE F[k][f[k - 1]]
    <3> HIDE DEF F
    <3> QED
      BY <1>4 DEF Iterates
  <2>2. k # 0 => F[k][f[k - 1]] = ExpandNearest(h, vec, ef, layer, f[k - 1])
    OBVIOUS
  <2> QED
    BY <2>1, <2>2
<1>6. P(f)
  <2>1. f = [k \in Nat |-> f[k]]
    OBVIOUS
  <2> HIDE DEF Step
  <2> QED
    BY <1>5, <2>1
<1> DEFINE after == CHOOSE g : P(g)
<1>7. P(after)
  <2> HIDE DEF P
  <2> QED
    BY <1>6
<1>8. SearchLayer(h, vec, ep, ef, layer) = after[Cardinality(DOMAIN h.nodes)].best
  BY DEF SearchLayer, start
<1> HIDE DEF after
<1>9. after = f
  <2>1. /\ after = [k \in Nat |-> after[k]] /\ \A k \in Nat : after[k] = Step(after, k)
    <3> HIDE DEF Step
    <3> QED
      BY <1>7
  <2>2. f = [k \in Nat |-> f[k]]
    OBVIOUS
  <2>3. after[0] = f[0]
    BY <1>5, <2>1
  <2>4. ASSUME NEW k \in Nat, after[k] = f[k] PROVE after[k + 1] = f[k + 1]
    <3>1. k + 1 \in Nat /\ k + 1 # 0 /\ (k + 1) - 1 = k
      OBVIOUS
    <3>2. after[k + 1] = ExpandNearest(h, vec, ef, layer, after[k])
      BY <2>1, <3>1
    <3>3. f[k + 1] = ExpandNearest(h, vec, ef, layer, f[k])
      BY <1>5, <3>1
    <3> QED
      BY <2>4, <3>2, <3>3
  <2>5. SameSteps(after, f)
    BY <2>1, <2>2, <2>3, <2>4 DEF SameSteps
  <2> QED
    BY <2>5, SameIteration
<1>10. Cardinality(DOMAIN h.nodes) \in Nat
  BY FS_CardinalityType DEF IndexOk
<1>11. f[Cardinality(DOMAIN h.nodes)] \in V
  BY <1>10
<1>12. f[Cardinality(DOMAIN h.nodes)].best \in (SUBSET Fars(h, vec, layer)) \ {{}}
  BY <1>11 DEF V, SearchStates
<1> QED
  BY <1>8, <1>9, <1>12, FarsLemma, FS_Subset

\* One step of greedy_lower stays or follows a link.
LEMMA NearerLemma ==
  ASSUME NEW h, IndexOk(h), NEW vec, NEW layer, NEW n \in DOMAIN h.nodes
  PROVE  Nearer(h, vec, layer, n) \in {n} \cup At(h, layer)
<1> DEFINE links == Links(h, n, layer)
           away(o) == Far(h, vec, o)[1]
           I == {i \in 1 .. Len(links) : away(links[i]) < away(n) /\ \A x \in ToSet(links) : away(links[i]) <= away(x)}
           next == IF I # {} THEN Min(I) ELSE 0
<1>1. links \in Seq(At(h, layer)) /\ Len(links) \in Nat
  BY LinksLemma
<1>2. Nearer(h, vec, layer, n) = IF next = 0 THEN n ELSE links[next]
  BY DEF Nearer, SelectInSeq
<1>3. I \in SUBSET (1 .. Len(links))
  OBVIOUS
<1> HIDE DEF links, I
<1>4. I # {} => next \in I
  <2> SUFFICES ASSUME I # {} PROVE Min(I) \in I
    OBVIOUS
  <2>1. I \in SUBSET Nat
    BY <1>1, <1>3
  <2>2. \E x \in I : \A y \in I : x <= y
    BY <2>1, LeastNumber
  <2> QED
    BY <2>2 DEF Min
<1>5. CASE I = {}
  BY <1>2, <1>5
<1>6. CASE I # {}
  <2>1. next \in 1 .. Len(links)
    BY <1>3, <1>4, <1>6
  <2> HIDE DEF next
  <2>2. next # 0 /\ links[next] \in At(h, layer)
    BY <1>1, <2>1
  <2> QED
    BY <1>2, <2>2
<1> QED
  BY <1>5, <1>6

\* greedy_lower ends where it began or at an element with a list on the layer.
LEMMA GreedyLemma ==
  ASSUME NEW h, IndexOk(h), NEW vec, NEW layer, NEW ep \in DOMAIN h.nodes
  PROVE  GreedyLower(h, vec, ep, layer) \in {ep} \cup At(h, layer)
<1> DEFINE V == {ep} \cup At(h, layer)
           F == [k \in Nat |-> [s \in V |-> Nearer(h, vec, layer, s)]]
           Step(g, k) == IF k = 0 THEN ep ELSE Nearer(h, vec, layer, g[k - 1])
           P(g) == g = [k \in Nat |-> Step(g, k)]
<1>1. ep \in V
  OBVIOUS
<1>2. \A s \in V : Nearer(h, vec, layer, s) \in V
  <2> TAKE s \in V
  <2>1. s \in DOMAIN h.nodes
    BY AtLemma
  <2> QED
    BY <2>1, NearerLemma
<1> HIDE DEF V
<1>3. F \in [Nat -> [V -> V]]
  BY <1>2
<1>4. PICK f \in [Nat -> V] : Iterates(f, ep, F)
  <2> HIDE DEF F
  <2> QED
    BY <1>1, <1>3, Iteration
<1>5. \A k \in Nat : f[k] = Step(f, k)
  <2> TAKE k \in Nat
  <2>1. f[k] = IF k = 0 THEN ep ELSE F[k][f[k - 1]]
    <3> HIDE DEF F
    <3> QED
      BY <1>4 DEF Iterates
  <2>2. k # 0 => F[k][f[k - 1]] = Nearer(h, vec, layer, f[k - 1])
    OBVIOUS
  <2> QED
    BY <2>1, <2>2
<1>6. P(f)
  <2>1. f = [k \in Nat |-> f[k]]
    OBVIOUS
  <2> HIDE DEF Step
  <2> QED
    BY <1>5, <2>1
<1> DEFINE at == CHOOSE g : P(g)
<1>7. P(at)
  <2> HIDE DEF P
  <2> QED
    BY <1>6
<1>8. GreedyLower(h, vec, ep, layer) = at[Cardinality(DOMAIN h.nodes)]
  BY DEF GreedyLower
<1> HIDE DEF at
<1>9. at = f
  <2>1. /\ at = [k \in Nat |-> at[k]] /\ \A k \in Nat : at[k] = Step(at, k)
    <3> HIDE DEF Step
    <3> QED
      BY <1>7
  <2>2. f = [k \in Nat |-> f[k]]
    OBVIOUS
  <2>3. at[0] = f[0]
    BY <1>5, <2>1
  <2>4. ASSUME NEW k \in Nat, at[k] = f[k] PROVE at[k + 1] = f[k + 1]
    <3>1. k + 1 \in Nat /\ k + 1 # 0 /\ (k + 1) - 1 = k
      OBVIOUS
    <3>2. at[k + 1] = Nearer(h, vec, layer, at[k])
      BY <2>1, <3>1
    <3>3. f[k + 1] = Nearer(h, vec, layer, f[k])
      BY <1>5, <3>1
    <3> QED
      BY <2>4, <3>2, <3>3
  <2>5. SameSteps(at, f)
    BY <2>1, <2>2, <2>3, <2>4 DEF SameSteps
  <2> QED
    BY <2>5, SameIteration
<1>10. Cardinality(DOMAIN h.nodes) \in Nat
  BY FS_CardinalityType DEF IndexOk
<1> QED
  BY <1>8, <1>9, <1>10 DEF V

\* The descent from the top layer ends at an element with a list on the last layer, or on the
\* top one when that is lower.
LEMMA DescendLemma ==
  ASSUME NEW h, IndexOk(h), NEW vec, NEW top \in Nat, NEW last \in Nat, NEW ep \in At(h, top)
  PROVE  Descend(h, vec, ep, top, last) \in At(h, FirstLayer(last, top))
<1> DEFINE V == 0 .. h.count - 1
           Go(k, s) == GreedyLower(h, vec, s, top + 1 - k)
           F == [k \in Nat |-> [s \in V |-> Go(k, s)]]
           Step(g, k) == IF k = 0 THEN ep ELSE Go(k, g[k - 1])
           P(g) == g = [k \in Nat |-> Step(g, k)]
<1>0. V \subseteq DOMAIN h.nodes /\ \A n \in V : h.nodes[n].level \in Nat /\ h.count \in Nat
  <2>1. V \subseteq DOMAIN h.nodes /\ h.count \in Nat /\ \A n \in DOMAIN h.nodes : NodeOk(h, h.nodes[n])
    BY DEF IndexOk
  <2>2. \A x \in 0 .. MaxLevel : x \in Nat
    BY HnswAssumption
  <2> HIDE DEF V
  <2> QED
    BY <2>1, <2>2 DEF NodeOk
<1>1. ep \in V
  BY DEF At
<1>2. \A k \in Nat : \A s \in V : Go(k, s) \in V /\ Go(k, s) \in {s} \cup At(h, top + 1 - k)
  <2> TAKE k \in Nat
  <2> TAKE s \in V
  <2>1. s \in DOMAIN h.nodes
    BY <1>0
  <2>2. Go(k, s) \in {s} \cup At(h, top + 1 - k)
    BY <2>1, GreedyLemma
  <2> QED
    BY <2>2 DEF At
<1> HIDE DEF V, Go
<1>3. F \in [Nat -> [V -> V]]
  BY <1>2
<1>4. PICK f \in [Nat -> V] : Iterates(f, ep, F)
  <2> HIDE DEF F
  <2> QED
    BY <1>1, <1>3, Iteration
<1>5. \A k \in Nat : f[k] = Step(f, k)
  <2> TAKE k \in Nat
  <2>1. f[k] = IF k = 0 THEN ep ELSE F[k][f[k - 1]]
    <3> HIDE DEF F
    <3> QED
      BY <1>4 DEF Iterates
  <2>2. k # 0 => F[k][f[k - 1]] = Go(k, f[k - 1])
    OBVIOUS
  <2> QED
    BY <2>1, <2>2
<1>6. P(f)
  <2>1. f = [k \in Nat |-> f[k]]
    OBVIOUS
  <2> HIDE DEF Step
  <2> QED
    BY <1>5, <2>1
<1> DEFINE at == CHOOSE g : P(g)
<1>7. P(at)
  <2> HIDE DEF P
  <2> QED
    BY <1>6
<1>8. Descend(h, vec, ep, top, last) = IF top <= last THEN ep ELSE at[top - last]
  BY DEF Descend, Go
<1> HIDE DEF at
<1>9. at = f
  <2>1. /\ at = [k \in Nat |-> at[k]] /\ \A k \in Nat : at[k] = Step(at, k)
    <3> HIDE DEF Step
    <3> QED
      BY <1>7
  <2>2. f = [k \in Nat |-> f[k]]
    OBVIOUS
  <2>3. at[0] = f[0]
    BY <1>5, <2>1
  <2>4. ASSUME NEW k \in Nat, at[k] = f[k] PROVE at[k + 1] = f[k + 1]
    BY <1>5, <2>1, <2>4
  <2>5. SameSteps(at, f)
    BY <2>1, <2>2, <2>3, <2>4 DEF SameSteps
  <2> QED
    BY <2>5, SameIteration
<1> DEFINE Q == {k \in Nat : h.nodes[f[k]].level >= top - k}
<1>10. 0 \in Q
  BY <1>5 DEF At
<1>11. ASSUME NEW k \in Q PROVE k + 1 \in Q
  <2>1. k \in Nat /\ h.nodes[f[k]].level >= top - k /\ f[k] \in V
    OBVIOUS
  <2>2. f[k + 1] = Go(k + 1, f[k])
    BY <1>5, <2>1
  <2>3. f[k + 1] \in {f[k]} \cup At(h, top + 1 - (k + 1))
    BY <1>2, <2>1, <2>2
  <2>4. h.nodes[f[k]].level \in Nat /\ f[k + 1] \in V
    BY <1>0, <2>1
  <2>5. h.nodes[f[k + 1]].level >= top - (k + 1)
    BY <1>0, <2>1, <2>3, <2>4 DEF At
  <2> QED
    BY <2>1, <2>5
<1>12. Q = Nat
  <2>1. Q \in SUBSET Nat
    OBVIOUS
  <2> HIDE DEF Q
  <2> QED
    BY <1>10, <1>11, <2>1, InductiveSet
<1>13. CASE top <= last
  BY <1>8, <1>13 DEF FirstLayer
<1>14. CASE top > last
  <2>1. top - last \in Nat /\ FirstLayer(last, top) = last
    BY <1>14 DEF FirstLayer
  <2>2. h.nodes[f[top - last]].level >= top - (top - last) /\ f[top - last] \in V
    BY <1>12, <2>1
  <2>3. f[top - last] \in At(h, last)
    BY <2>2 DEF At, V
  <2> QED
    BY <1>8, <1>9, <1>14, <2>1, <2>3
<1> QED
  BY <1>13, <1>14

-----------------------------------------------------------------------------
(***************************************************************************)
(* Selecting neighbours and linking back.                                  *)
(***************************************************************************)
ListsUpTo(S, limit) == {q \in Seq(S) : Len(q) <= limit}
PassStates(found, S, limit, start) ==
  {s \in [kept : ListsUpTo(S, limit), rest : SUBSET found] : s.kept = <<>> => start = <<>> /\ s.rest = found}

\* One candidate of a pass; the first one is kept.
LEMMA JudgeLemma ==
  ASSUME NEW h, NEW limit \in Nat \ {0}, NEW diverse \in BOOLEAN, NEW S,
         NEW found \in SUBSET (Nat \X Nat), \A x \in found : x[2] \in S,
         NEW start, start = <<>> => diverse = TRUE /\ found # {},
         NEW s \in PassStates(found, S, limit, start)
  PROVE  /\ Judge(h, limit, diverse, s) \in PassStates(found, S, limit, start)
         /\ Judge(h, limit, diverse, s).kept # <<>>
<1> DEFINE x == Lowest(s.rest)
           good == Len(s.kept) < limit /\ (IF diverse THEN Apart(h, s.kept, x) ELSE x[2] \notin ToSet(s.kept))
           chosen == IF good THEN Append(s.kept, x[2]) ELSE s.kept
           rest == s.rest \ {x}
<1>1. /\ s.kept \in Seq(S) /\ Len(s.kept) \in Nat /\ Len(s.kept) <= limit /\ s.rest \in SUBSET found
      /\ s.kept = <<>> => start = <<>> /\ s.rest = found
  BY DEF PassStates, ListsUpTo
<1>2. CASE s.rest = {}
  <2>1. s.kept # <<>>
    BY <1>1, <1>2
  <2> QED
    BY <1>2, <2>1 DEF Judge
<1>3. CASE s.rest # {}
  <2>1. x \in s.rest /\ x[2] \in S
    BY <1>1, <1>3, LowestLemma
  <2>2. Judge(h, limit, diverse, s) = [kept |-> chosen, rest |-> rest]
    BY <1>3 DEF Judge
  <2>3. s.kept = <<>> => good
    <3> SUFFICES ASSUME s.kept = <<>> PROVE good
      OBVIOUS
    <3>1. diverse = TRUE
      BY <1>1
    <3>2. Apart(h, s.kept, x)
      BY DEF Apart, ToSet
    <3>3. Len(s.kept) < limit
      OBVIOUS
    <3> HIDE DEF x
    <3> QED
      BY <3>1, <3>2, <3>3
  <2>4. good => Len(s.kept) < limit
    OBVIOUS
  <2> HIDE DEF good, x
  <2>5. chosen \in Seq(S) /\ Len(chosen) <= limit /\ chosen # <<>>
    <3>1. CASE good
      <4>1. Append(s.kept, x[2]) \in Seq(S) /\ Len(Append(s.kept, x[2])) = Len(s.kept) + 1
        BY <1>1, <2>1
      <4>2. Append(s.kept, x[2]) # <<>>
        BY <1>1, <2>1, <4>1
      <4> QED
        BY <1>1, <2>4, <3>1, <4>1, <4>2
    <3>2. CASE ~good
      BY <1>1, <2>3, <3>2
    <3> QED
      BY <3>1, <3>2
  <2>6. rest \in SUBSET found
    BY <1>1
  <2> HIDE DEF chosen, rest
  <2> QED
    BY <2>2, <2>5, <2>6 DEF PassStates, ListsUpTo
<1> QED
  BY <1>2, <1>3

\* One pass over the candidates.
LEMMA PassLemma ==
  ASSUME NEW h, NEW limit \in Nat \ {0}, NEW diverse \in BOOLEAN, NEW S,
         NEW found \in SUBSET (Nat \X Nat), IsFiniteSet(found), \A x \in found : x[2] \in S,
         NEW chosen \in Seq(S), Len(chosen) <= limit, chosen = <<>> => diverse = TRUE /\ found # {}
  PROVE  /\ Pass(h, found, limit, diverse, chosen) \in Seq(S)
         /\ Len(Pass(h, found, limit, diverse, chosen)) <= limit
         /\ Pass(h, found, limit, diverse, chosen) # <<>>
<1> DEFINE V == PassStates(found, S, limit, chosen)
           start == [kept |-> chosen, rest |-> found]
           F == [k \in Nat |-> [s \in V |-> Judge(h, limit, diverse, s)]]
           Step(g, k) == IF k = 0 THEN start ELSE Judge(h, limit, diverse, g[k - 1])
           P(g) == g = [k \in Nat |-> Step(g, k)]
<1>1. start \in V
  BY DEF PassStates, ListsUpTo
<1>2. \A s \in V : Judge(h, limit, diverse, s) \in V /\ Judge(h, limit, diverse, s).kept # <<>>
  BY JudgeLemma
<1> HIDE DEF V, start
<1>3. F \in [Nat -> [V -> V]]
  BY <1>2
<1>4. PICK f \in [Nat -> V] : Iterates(f, start, F)
  <2> HIDE DEF F
  <2> QED
    BY <1>1, <1>3, Iteration
<1>5. \A k \in Nat : f[k] = Step(f, k)
  <2> TAKE k \in Nat
  <2>1. f[k] = IF k = 0 THEN start ELSE F[k][f[k - 1]]
    <3> HIDE DEF F
    <3> QED
      BY <1>4 DEF Iterates
  <2>2. k # 0 => F[k][f[k - 1]] = Judge(h, limit, diverse, f[k - 1])
    OBVIOUS
  <2> QED
    BY <2>1, <2>2
<1>6. P(f)
  <2>1. f = [k \in Nat |-> f[k]]
    OBVIOUS
  <2> HIDE DEF Step
  <2> QED
    BY <1>5, <2>1
<1> DEFINE after == CHOOSE g : P(g)
<1>7. P(after)
  <2> HIDE DEF P
  <2> QED
    BY <1>6
<1>8. Pass(h, found, limit, diverse, chosen) = after[Cardinality(found)].kept
  BY DEF Pass, start
<1> HIDE DEF after
<1>9. after = f
  <2>1. /\ after = [k \in Nat |-> after[k]] /\ \A k \in Nat : after[k] = Step(after, k)
    <3> HIDE DEF Step
    <3> QED
      BY <1>7
  <2>2. f = [k \in Nat |-> f[k]]
    OBVIOUS
  <2>3. after[0] = f[0]
    BY <1>5, <2>1
  <2>4. ASSUME NEW k \in Nat, after[k] = f[k] PROVE after[k + 1] = f[k + 1]
    <3>1. k + 1 \in Nat /\ k + 1 # 0 /\ (k + 1) - 1 = k
      OBVIOUS
    <3>2. after[k + 1] = Judge(h, limit, diverse, after[k])
      BY <2>1, <3>1
    <3>3. f[k + 1] = Judge(h, limit, diverse, f[k])
      BY <1>5, <3>1
    <3> QED
      BY <2>4, <3>2, <3>3
  <2>5. SameSteps(after, f)
    BY <2>1, <2>2, <2>3, <2>4 DEF SameSteps
  <2> QED
    BY <2>5, SameIteration
<1> DEFINE n == Cardinality(found)
<1>10. n \in Nat /\ (n = 0 => found = {})
  BY FS_CardinalityType, FS_EmptySet
<1> HIDE DEF n
<1>11. f[n] \in V
  BY <1>10
<1>12. f[n].kept # <<>>
  <2>1. CASE n = 0
    BY <1>5, <1>10, <2>1 DEF start
  <2>2. CASE n # 0
    <3>1. n - 1 \in Nat /\ f[n - 1] \in V
      BY <1>10, <2>2
    <3>2. f[n] = Judge(h, limit, diverse, f[n - 1])
      BY <1>5, <1>10, <2>2
    <3> QED
      BY <1>2, <3>1, <3>2
  <2> QED
    BY <2>1, <2>2
<1>13. f[n].kept \in Seq(S) /\ Len(f[n].kept) <= limit
  BY <1>11 DEF V, PassStates, ListsUpTo
<1> QED
  BY <1>8, <1>9, <1>12, <1>13 DEF n

\* Limit is what a list has room for.
LEMMA LimitLemma == \A layer : Limit(layer) \in Nat \ {0}
BY HnswAssumption DEF Limit

\* select_neighbours chooses at least one of the elements found, and no more than a list holds.
LEMMA SelectLemma ==
  ASSUME NEW h, IndexOk(h), NEW vec \in Vectors, NEW layer, NEW limit \in Nat \ {0},
         NEW found \in SUBSET Fars(h, vec, layer), found # {}
  PROVE  LET chosen == SelectNeighbours(h, found, limit)
         IN chosen \in Seq(At(h, layer)) /\ Len(chosen) <= limit /\ chosen # <<>>
<1>1. /\ found \in SUBSET (Nat \X Nat) /\ IsFiniteSet(found)
      /\ \A x \in found : x[2] \in At(h, layer)
  BY FarsLemma, FS_Subset
<1> DEFINE S == At(h, layer)
           first == Pass(h, found, limit, TRUE, <<>>)
<1>2. first \in Seq(S) /\ Len(first) <= limit /\ first # <<>>
  <2>1. <<>> \in Seq(S) /\ Len(<<>>) <= limit
    OBVIOUS
  <2> HIDE DEF S
  <2> QED
    BY <1>1, <2>1, PassLemma DEF S
<1> DEFINE second == Pass(h, found, limit, FALSE, first)
<1> HIDE DEF first
<1>3. second \in Seq(S) /\ Len(second) <= limit /\ second # <<>>
  <2> HIDE DEF S
  <2> QED
    BY <1>1, <1>2, PassLemma DEF S
<1> QED
  BY <1>3 DEF SelectNeighbours, first

\* A link back finds room or takes the place of another.
LEMMA WithBacklinkLemma ==
  ASSUME NEW h, IndexOk(h), NEW layer, NEW n \in At(h, layer), NEW new \in At(h, layer)
  PROVE  /\ WithBacklink(h, n, new, layer) \in Seq(At(h, layer))
         /\ (layer \notin DOMAIN h.nodes[n].links \/ Len(Links(h, n, layer)) <= Limit(layer))
              => Len(WithBacklink(h, n, new, layer)) <= Limit(layer)
<1> DEFINE links == Links(h, n, layer)
           away(o) == L2Dist(h.nodes[n].vec, h.nodes[o].vec)
           worst == SelectInSeq(links, LAMBDA o : \A x \in ToSet(links) : away(x) <= away(o))
<1>1. links \in Seq(At(h, layer)) /\ Len(links) \in Nat
  BY AtLemma, LinksLemma
<1>2. layer \notin DOMAIN h.nodes[n].links => links = <<>>
  BY DEF Links
<1>3. Limit(layer) \in Nat \ {0}
  BY LimitLemma
<1>4. WithBacklink(h, n, new, layer) \in {links, Append(links, new), [links EXCEPT ![worst] = new]}
  BY DEF WithBacklink
<1>5. Len(links) >= Limit(layer) => WithBacklink(h, n, new, layer) \in {links, [links EXCEPT ![worst] = new]}
  <2>1. ~(Len(links) < Limit(layer)) => WithBacklink(h, n, new, layer) \in {links, [links EXCEPT ![worst] = new]}
    BY DEF WithBacklink
  <2> HIDE DEF links, worst
  <2> QED
    BY <1>1, <1>3, <2>1
<1> HIDE DEF links, worst
<1>6. [links EXCEPT ![worst] = new] \in Seq(At(h, layer)) /\ Len([links EXCEPT ![worst] = new]) = Len(links)
  <2> DEFINE e == [links EXCEPT ![worst] = new]
  <2>1. DOMAIN links = 1 .. Len(links) /\ DOMAIN e = DOMAIN links
    BY <1>1
  <2>2. \A i \in DOMAIN links : e[i] \in At(h, layer)
    BY <1>1
  <2>3. e = [i \in 1 .. Len(links) |-> e[i]]
    BY <2>1
  <2> HIDE DEF e
  <2>4. e \in Seq(At(h, layer)) /\ Len(e) = Len(links)
    BY <1>1, <2>1, <2>2, <2>3
  <2> QED
    BY <2>4 DEF e
<1>7. Append(links, new) \in Seq(At(h, layer)) /\ Len(Append(links, new)) = Len(links) + 1
  BY <1>1
<1>8. WithBacklink(h, n, new, layer) \in Seq(At(h, layer))
  BY <1>1, <1>4, <1>6, <1>7
<1>9. layer \notin DOMAIN h.nodes[n].links \/ Len(links) <= Limit(layer) => Len(links) <= Limit(layer)
  BY <1>1, <1>2, <1>3
<1>10. Len(links) <= Limit(layer) => Len(WithBacklink(h, n, new, layer)) <= Limit(layer)
  <2>1. CASE Len(links) >= Limit(layer)
    BY <1>1, <1>5, <1>6, <2>1
  <2>2. CASE Len(links) < Limit(layer)
    BY <1>1, <1>3, <1>4, <1>6, <1>7, <2>2
  <2> QED
    BY <1>1, <1>3, <2>1, <2>2
<1> QED
  BY <1>8, <1>9, <1>10 DEF links

-----------------------------------------------------------------------------
(***************************************************************************)
(* One element of the graph changes: no list loses its elements.           *)
(***************************************************************************)
WithNode(h, n, node) ==
  [nodes |-> [h.nodes EXCEPT ![n] = node], count |-> h.count, lookup |-> h.lookup, entry |-> h.entry, top |-> h.top]

\* No list that was allocated is gone.
Keeps(h, g) ==
  /\ h.count \in Nat /\ g.count \in Nat /\ h.count <= g.count
  /\ \A n \in 0 .. h.count - 1 : /\ h.nodes[n].level \in Nat /\ g.nodes[n].level \in Nat
                                /\ h.nodes[n].level <= g.nodes[n].level

\* So its elements stay.
LEMMA KeepsLemma ==
  ASSUME NEW h, NEW g, Keeps(h, g), NEW layer \in Int
  PROVE  At(h, layer) \subseteq At(g, layer)
<1> SUFFICES ASSUME NEW n \in At(h, layer) PROVE n \in At(g, layer)
  OBVIOUS
<1>1. n \in 0 .. h.count - 1 /\ layer <= h.nodes[n].level
  BY DEF At
<1>2. n \in 0 .. g.count - 1 /\ layer <= g.nodes[n].level
  BY <1>1 DEF Keeps
<1> QED
  BY <1>2 DEF At

\* And an element that was well formed is.
LEMMA NodeStaysLemma ==
  ASSUME NEW h, NEW g, Keeps(h, g), NEW node, NodeOk(h, node)
  PROVE  NodeOk(g, node)
<1>1. \A layer \in DOMAIN node.links : node.links[layer] \in Seq(At(g, layer))
  <2> TAKE layer \in DOMAIN node.links
  <2>1. layer \in 0 .. node.level /\ node.links[layer] \in Seq(At(h, layer))
    BY DEF NodeOk
  <2>2. At(h, layer) \subseteq At(g, layer)
    BY <2>1, KeepsLemma
  <2> QED
    BY <2>1, <2>2
<1> QED
  BY <1>1 DEF NodeOk

\* The parts of a well-formed index.
LEMMA IndexParts ==
  ASSUME NEW h, IndexOk(h)
  PROVE  /\ h.count \in Nat /\ DOMAIN h.nodes \subseteq Nat /\ 0 .. h.count - 1 \subseteq DOMAIN h.nodes
         /\ \A n \in DOMAIN h.nodes :
              /\ NodeOk(h, h.nodes[n]) /\ h.nodes[n].vec \in Vectors
              /\ h.nodes[n].level \in 0 .. MaxLevel /\ h.nodes[n].level \in Nat
         /\ h.top \in Int /\ (h.top >= 0 => h.top \in Nat /\ h.entry \in At(h, h.top))
<1>1. \A x \in 0 .. MaxLevel : x \in Nat
  BY HnswAssumption
<1>2. \A x \in -1 .. MaxLevel : x \in Int /\ (x >= 0 => x \in Nat)
  BY HnswAssumption
<1> QED
  BY <1>1, <1>2 DEF IndexOk, NodeOk

\* The index stays well formed, and every list stays allocated.
LEMMA NodeUpdateLemma ==
  ASSUME NEW h, IndexOk(h), NEW n \in 0 .. h.count - 1, NEW node, NodeOk(h, node),
         node.level >= h.nodes[n].level
  PROVE  IndexOk(WithNode(h, n, node)) /\ Keeps(h, WithNode(h, n, node))
<1> DEFINE g == WithNode(h, n, node)
<1>1. /\ h.nodes = [x \in DOMAIN h.nodes |-> h.nodes[x]] /\ h.lookup = [l \in DOMAIN h.lookup |-> h.lookup[l]]
      /\ DOMAIN h.nodes \subseteq Nat /\ IsFiniteSet(DOMAIN h.nodes)
      /\ h.count \in Nat /\ 0 .. h.count - 1 \subseteq DOMAIN h.nodes
      /\ h.entry \in Nat /\ h.top \in -1 .. MaxLevel
      /\ h.top >= 0 => h.entry \in At(h, h.top)
      /\ \A x \in DOMAIN h.nodes : NodeOk(h, h.nodes[x])
      /\ \A x \in DOMAIN h.nodes : x >= h.count => h.nodes[x].level = 0
      /\ LookupOk(h)
  BY DEF IndexOk
<1>2. /\ g = [nodes |-> g.nodes, count |-> g.count, lookup |-> g.lookup, entry |-> g.entry, top |-> g.top]
      /\ g.count = h.count /\ g.lookup = h.lookup /\ g.entry = h.entry /\ g.top = h.top
      /\ DOMAIN g.nodes = DOMAIN h.nodes /\ g.nodes = [x \in DOMAIN g.nodes |-> g.nodes[x]]
      /\ n \in DOMAIN h.nodes /\ g.nodes[n] = node
      /\ \A x \in DOMAIN h.nodes : x # n => g.nodes[x] = h.nodes[x]
  BY <1>1 DEF WithNode
<1> HIDE DEF g
<1>3. Keeps(h, g)
  <2>1. node.level \in Nat
    BY HnswAssumption DEF NodeOk
  <2>2. \A x \in DOMAIN h.nodes : h.nodes[x].level \in Nat
    BY IndexParts
  <2> QED
    BY <1>1, <1>2, <2>1, <2>2 DEF Keeps
<1>4. \A x \in DOMAIN g.nodes : NodeOk(g, g.nodes[x])
  <2> TAKE x \in DOMAIN g.nodes
  <2>1. NodeOk(h, g.nodes[x])
    BY <1>1, <1>2
  <2> QED
    BY <1>3, <2>1, NodeStaysLemma
<1>5. \A x \in DOMAIN g.nodes : x >= g.count => g.nodes[x].level = 0
  BY <1>1, <1>2
<1>6. g.top >= 0 => g.entry \in At(g, g.top)
  <2>1. h.top \in Int
    BY IndexParts
  <2> QED
    BY <1>1, <1>2, <1>3, <2>1, KeepsLemma
<1>7. LookupOk(g)
  BY <1>1, <1>2 DEF LookupOk
<1>8. IndexOk(g)
  BY <1>1, <1>2, <1>4, <1>5, <1>6, <1>7 DEF IndexOk
<1> QED
  BY <1>3, <1>8 DEF g

-----------------------------------------------------------------------------
(***************************************************************************)
(* The steps of an insert.                                                 *)
(***************************************************************************)
StepsTo(h, g, i, j) ==
  /\ IndexOk(g) /\ Keeps(h, g)
  /\ \A n \in 0 .. h.count - 1 : g.nodes[n].level = h.nodes[n].level \/ (i.pc = "fill" /\ n = i.id)
  /\ \A l \in DOMAIN h.lookup : l \in DOMAIN g.lookup /\ g.lookup[l] = h.lookup[l]
  /\ InsertOk(g, j)
  /\ j.pc # "idle" => j.id = (IF i.pc # "idle" THEN i.id ELSE h.count)
StepOk(t) == StepsTo(index, index', ins[t], ins'[t]) /\ ins' = [ins EXCEPT ![t] = ins'[t]]

\* An insert in progress stays so while the index keeps its lists and its labels.
LEMMA InsertStaysLemma ==
  ASSUME NEW h, NEW g, IndexOk(h), Keeps(h, g), NEW i, InsertOk(h, i),
         \A l \in DOMAIN h.lookup : l \in DOMAIN g.lookup /\ g.lookup[l] = h.lookup[l],
         i.pc = "fill" => g.nodes[i.id].level = h.nodes[i.id].level
  PROVE  InsertOk(g, i)
<1>1. h.count \in Nat /\ g.count \in Nat /\ h.count <= g.count
  BY DEF Keeps
<1>2. i.pc # "idle" =>
        /\ i.todo # <<>> /\ i.id \in 0 .. g.count - 1
        /\ Head(i.todo).label \in DOMAIN g.lookup /\ g.lookup[Head(i.todo).label] = i.id
  BY <1>1 DEF InsertOk
<1>3. i.pc = "fill" => g.nodes[i.id].level = 0
  BY DEF InsertOk
<1>4. i.pc \in {"choose", "back"} => i.at \in 0 .. g.nodes[i.id].level /\ At(h, i.at) \subseteq At(g, i.at)
  <2> SUFFICES ASSUME i.pc \in {"choose", "back"}
               PROVE  i.at \in 0 .. g.nodes[i.id].level /\ At(h, i.at) \subseteq At(g, i.at)
    OBVIOUS
  <2>1. i.at \in 0 .. h.nodes[i.id].level /\ i.id \in 0 .. h.count - 1
    BY DEF InsertOk
  <2>2. i.at \in 0 .. g.nodes[i.id].level
    BY <2>1 DEF Keeps
  <2>3. i.at \in Int
    BY <2>1
  <2> QED
    BY <2>2, <2>3, KeepsLemma
<1> QED
  BY <1>2, <1>3, <1>4 DEF InsertOk

\* The graph's invariant is kept by a step that keeps its own insert.
LEMMA StepLemma ==
  ASSUME HnswInv, NEW t \in Writers, StepOk(t)
  PROVE  HnswInv'
<1>1. /\ IndexOk(index) /\ DOMAIN ins = Writers /\ ins = [u \in Writers |-> ins[u]]
      /\ \A u \in Writers : InsertOk(index, ins[u])
  BY DEF HnswInv
<1>2. DOMAIN ins' = Writers /\ ins' = [u \in Writers |-> ins'[u]] /\ \A u \in Writers \ {t} : ins'[u] = ins[u]
  BY <1>1 DEF StepOk, StepsTo
<1>3. \A u \in Writers : InsertOk(index', ins'[u])
  <2> TAKE u \in Writers
  <2>1. CASE u = t
    BY <2>1 DEF StepOk, StepsTo
  <2>2. CASE u # t
    <3>1. InsertOk(index, ins[u]) /\ ins'[u] = ins[u]
      BY <1>1, <1>2, <2>2
    <3>2. ins[u].pc = "fill" => index'.nodes[ins[u].id].level = index.nodes[ins[u].id].level
      <4> SUFFICES ASSUME ins[u].pc = "fill"
                   PROVE  index'.nodes[ins[u].id].level = index.nodes[ins[u].id].level
        OBVIOUS
      <4>1. ins[u].id \in 0 .. index.count - 1
        BY <3>1 DEF InsertOk
      <4>2. ~(ins[t].pc = "fill" /\ ins[u].id = ins[t].id)
        BY <2>2 DEF HnswInv, ElementsApart
      <4> QED
        BY <4>1, <4>2 DEF StepOk, StepsTo
    <3>3. InsertOk(index', ins[u])
      BY <1>1, <3>1, <3>2, InsertStaysLemma DEF StepOk, StepsTo
    <3> QED
      BY <3>1, <3>3
  <2> QED
    BY <2>1, <2>2
<1>4. ElementsApart'
  <2> SUFFICES ASSUME NEW u \in Writers, NEW w \in Writers, ins'[u].pc # "idle", ins'[w].pc # "idle",
                      ins'[u].id = ins'[w].id
               PROVE  u = w
    BY DEF ElementsApart
  <2>1. \A x \in Writers : ins[x].pc # "idle" => ins[x].id \in 0 .. index.count - 1
    BY <1>1 DEF InsertOk
  <2>2. index.count \in Nat
    BY DEF StepOk, StepsTo, Keeps
  <2>3. \A x \in Writers \ {t} : ins'[x].pc # "idle" => ins[x].pc # "idle" /\ ins'[x].id = ins[x].id /\ ins[x].id # index.count
    BY <1>2, <2>1, <2>2
  <2>4. \A x \in Writers \ {t} : ins'[x].pc # "idle" /\ ins'[t].pc # "idle" => ins'[x].id # ins'[t].id
    BY <2>3 DEF StepOk, StepsTo, HnswInv, ElementsApart
  <2> QED
    BY <1>2, <2>3, <2>4 DEF HnswInv, ElementsApart
<1> QED
  BY <1>2, <1>3, <1>4 DEF HnswInv, StepOk, StepsTo

\* The records an insert can be in.
LEMMA InsertParts ==
  ASSUME NEW h, NEW i, InsertOk(h, i)
  PROVE  /\ i.todo \in Todos
         /\ i.todo # <<>> => /\ Head(i.todo).label \in AllLabels /\ Head(i.todo).vec \in Vectors
                             /\ Tail(i.todo) \in Todos
         /\ i.pc # "idle" => i.id \in Nat
         /\ i.pc \in {"idle", "fill", "first", "enter", "choose", "back", "raise"}
         /\ i.pc = "idle" => i = [pc |-> "idle", todo |-> i.todo]
         /\ i.pc \in {"fill", "first", "enter"} => i = [pc |-> i.pc, todo |-> i.todo, id |-> i.id]
         /\ i.pc \in {"choose", "back", "raise"} =>
              /\ i = [pc |-> i.pc, todo |-> i.todo, id |-> i.id, ep |-> i.ep, top |-> i.top, at |-> i.at,
                      rest |-> i.rest]
              /\ i.ep \in Nat /\ i.top \in Int /\ i.at \in Int /\ i.rest \in Seq(Nat)
<1>1. i \in InsertStates
  BY DEF InsertOk
<1>2. i.todo \in Todos
  BY <1>1 DEF InsertStates
<1>3. i.todo # <<>> => /\ Head(i.todo).label \in AllLabels /\ Head(i.todo).vec \in Vectors
                       /\ Tail(i.todo) \in Todos
  <2> DEFINE s == i.todo
             R == [label : AllLabels, vec : Vectors]
  <2>1. s \in Seq(R)
    BY <1>2 DEF Todos
  <2> HIDE DEF s, R
  <2>2. s # <<>> => Head(s) \in R /\ Tail(s) \in Seq(R)
    BY <2>1
  <2>3. \A r \in R : r.label \in AllLabels /\ r.vec \in Vectors
    BY DEF R
  <2> QED
    BY <2>2, <2>3 DEF s, R, Todos
<1> QED
  BY <1>1, <1>2, <1>3 DEF InsertStates

\* An element changes in place.
Changed(h, g, n, node) ==
  /\ IndexOk(g) /\ Keeps(h, g) /\ g.lookup = h.lookup /\ g.count = h.count
  /\ g.nodes[n] = node /\ \A x \in 0 .. h.count - 1 : x # n => g.nodes[x] = h.nodes[x]
\* One element written.
LEMMA NodeChange ==
  ASSUME NEW h, IndexOk(h), NEW n \in 0 .. h.count - 1, NEW node, NodeOk(h, node),
         node.level >= h.nodes[n].level, NEW g, g = [h EXCEPT !.nodes[n] = node]
  PROVE  Changed(h, g, n, node)
<1>1. /\ h = [nodes |-> h.nodes, count |-> h.count, lookup |-> h.lookup, entry |-> h.entry, top |-> h.top]
      /\ h.nodes = [x \in DOMAIN h.nodes |-> h.nodes[x]] /\ n \in DOMAIN h.nodes
      /\ 0 .. h.count - 1 \subseteq DOMAIN h.nodes
  BY DEF IndexOk
<1>2. g = WithNode(h, n, node)
  BY <1>1 DEF WithNode
<1>3. IndexOk(g) /\ Keeps(h, g)
  BY <1>2, NodeUpdateLemma
<1> QED
  BY <1>1, <1>2, <1>3 DEF WithNode, Changed

\* An arithmetic fact.
LEMMA SelfLemma == \A x \in Nat : x >= x
OBVIOUS

\* It stays well formed with another vector,
LEMMA VecChange ==
  ASSUME NEW h, NEW old, NodeOk(h, old), NEW vec \in Vectors
  PROVE  NodeOk(h, [old EXCEPT !.vec = vec]) /\ [old EXCEPT !.vec = vec].level = old.level
<1> DEFINE new == [label |-> old.label, vec |-> vec, level |-> old.level, links |-> old.links]
<1>1. old = [label |-> old.label, vec |-> old.vec, level |-> old.level, links |-> old.links]
  BY DEF NodeOk
<1>2. [old EXCEPT !.vec = vec] = new
  BY <1>1
<1>3. NodeOk(h, new) /\ new.level = old.level
  BY DEF NodeOk
<1> QED
  BY <1>2, <1>3

\* and with another list on one of its layers.
LEMMA LinksChange ==
  ASSUME NEW h, NEW old, NodeOk(h, old), NEW layer \in 0 .. old.level,
         NEW q \in Seq(At(h, layer)), Len(q) <= Limit(layer)
  PROVE  /\ NodeOk(h, [old EXCEPT !.links = With(@, layer, q)])
         /\ [old EXCEPT !.links = With(@, layer, q)].level = old.level
<1> DEFINE links == With(old.links, layer, q)
           new == [label |-> old.label, vec |-> old.vec, level |-> old.level, links |-> links]
<1>1. old = [label |-> old.label, vec |-> old.vec, level |-> old.level, links |-> old.links]
  BY DEF NodeOk
<1>2. [old EXCEPT !.links = With(@, layer, q)] = new
  <2> HIDE DEF links
  <2>1. [old EXCEPT !.links = links] = new
    BY <1>1
  <2> QED
    BY <2>1 DEF links
<1>3. /\ DOMAIN links = DOMAIN old.links \cup {layer} /\ links = [x \in DOMAIN links |-> links[x]]
      /\ links[layer] = q /\ \A x \in DOMAIN old.links : x # layer => links[x] = old.links[x]
  BY DEF With
<1> HIDE DEF links
<1>4. \A x \in DOMAIN links : x \in 0 .. old.level /\ links[x] \in Seq(At(h, x)) /\ Len(links[x]) <= Limit(x)
  <2> TAKE x \in DOMAIN links
  <2>1. CASE x = layer
    BY <1>3, <2>1
  <2>2. CASE x # layer
    BY <1>3, <2>2 DEF NodeOk
  <2> QED
    BY <2>1, <2>2
<1>5. NodeOk(h, new) /\ new.level = old.level
  BY <1>3, <1>4 DEF NodeOk
<1> QED
  BY <1>2, <1>5

\* What is left of an insert that is done.
LEMMA DoneLemma ==
  ASSUME NEW h, NEW i, InsertOk(h, i), i.todo # <<>>, NEW g
  PROVE  InsertOk(g, [pc |-> "idle", todo |-> Tail(i.todo)])
<1> DEFINE j == [pc |-> "idle", todo |-> Tail(i.todo)]
<1>1. j \in InsertStates /\ j.pc = "idle"
  BY InsertParts DEF InsertStates
<1> QED
  BY <1>1 DEF InsertOk

\* A known label gets its new vector in place.
LEMMA ReserveKnownLemma ==
  ASSUME NEW h, IndexOk(h), NEW i, InsertOk(h, i), i.pc = "idle", i.todo # <<>>,
         Head(i.todo).label \in DOMAIN h.lookup, NEW g,
         g = [h EXCEPT !.nodes[h.lookup[Head(i.todo).label]].vec = Head(i.todo).vec]
  PROVE  StepsTo(h, g, i, [pc |-> "idle", todo |-> Tail(i.todo)])
<1> DEFINE n == h.lookup[Head(i.todo).label]
           node == [h.nodes[n] EXCEPT !.vec = Head(i.todo).vec]
<1>1. n \in 0 .. h.count - 1
  BY DEF IndexOk, LookupOk
<1>2. n \in DOMAIN h.nodes /\ NodeOk(h, h.nodes[n]) /\ Head(i.todo).vec \in Vectors /\ h.nodes[n].level \in Nat
  BY <1>1, IndexParts, InsertParts
<1>3. NodeOk(h, node) /\ node.level = h.nodes[n].level
  <2> HIDE DEF n
  <2> QED
    BY <1>2, VecChange
<1>4. g = [h EXCEPT !.nodes[n] = node]
  OBVIOUS
<1>5. Changed(h, g, n, node)
  <2> HIDE DEF n, node
  <2>2. node.level >= h.nodes[n].level
    BY <1>2, <1>3, SelfLemma, Zenon
  <2> QED
    BY <1>1, <1>3, <1>4, <2>2, NodeChange, Zenon
<1>6. InsertOk(g, [pc |-> "idle", todo |-> Tail(i.todo)])
  BY DoneLemma
<1> HIDE DEF node, n
<1> QED
  BY <1>3, <1>5, <1>6 DEF StepsTo, Changed

\* A function with one more argument.
Extended(f, x, v, w) ==
  /\ DOMAIN w = DOMAIN f \cup {x} /\ w[x] = v /\ w = [y \in DOMAIN w |-> w[y]]
  /\ \A y \in DOMAIN f : w[y] = f[y]
\* What With adds to a function.
LEMMA WithLemma ==
  ASSUME NEW f, NEW x, NEW v, x \notin DOMAIN f
  PROVE  Extended(f, x, v, With(f, x, v))
BY DEF With, Extended

\* A new label gets the next element.
LEMMA ReserveNewLemma ==
  ASSUME NEW h, IndexOk(h), NEW i, InsertOk(h, i), i.pc = "idle", i.todo # <<>>,
         Head(i.todo).label \notin DOMAIN h.lookup, h.count \in DOMAIN h.nodes, NEW g,
         g = [h EXCEPT !.count = @ + 1, !.lookup = With(@, Head(i.todo).label, h.count)]
  PROVE  StepsTo(h, g, i, [pc |-> "fill", todo |-> i.todo, id |-> h.count])
<1> DEFINE l == Head(i.todo).label
           w == With(h.lookup, l, h.count)
           j == [pc |-> "fill", todo |-> i.todo, id |-> h.count]
<1>1. /\ h = [nodes |-> h.nodes, count |-> h.count, lookup |-> h.lookup, entry |-> h.entry, top |-> h.top]
      /\ h.nodes = [n \in DOMAIN h.nodes |-> h.nodes[n]]
      /\ DOMAIN h.nodes \subseteq Nat /\ IsFiniteSet(DOMAIN h.nodes)
      /\ h.count \in Nat /\ 0 .. h.count - 1 \subseteq DOMAIN h.nodes
      /\ h.entry \in Nat /\ h.top \in -1 .. MaxLevel /\ (h.top >= 0 => h.entry \in At(h, h.top))
      /\ \A n \in DOMAIN h.nodes : NodeOk(h, h.nodes[n]) /\ h.nodes[n].level \in Nat
      /\ \A n \in DOMAIN h.nodes : n >= h.count => h.nodes[n].level = 0
      /\ LookupOk(h) /\ h.top \in Int
  BY IndexParts DEF IndexOk
<1>2a. Extended(h.lookup, l, h.count, w)
  BY WithLemma, Zenon
<1>3. g = [h EXCEPT !.count = @ + 1, !.lookup = w]
  OBVIOUS
<1> HIDE DEF w
<1>2. /\ DOMAIN w = DOMAIN h.lookup \cup {l} /\ w[l] = h.count
      /\ \A k \in DOMAIN h.lookup : w[k] = h.lookup[k]
      /\ w = [k \in DOMAIN w |-> w[k]]
  BY <1>2a DEF Extended
<1>4. /\ g.nodes = h.nodes /\ g.count = h.count + 1 /\ g.entry = h.entry /\ g.top = h.top /\ g.lookup = w
      /\ g = [nodes |-> g.nodes, count |-> g.count, lookup |-> g.lookup, entry |-> g.entry, top |-> g.top]
  BY <1>1, <1>3
<1>5. Keeps(h, g)
  BY <1>1, <1>4 DEF Keeps
<1>6. 0 .. g.count - 1 \subseteq DOMAIN g.nodes
  BY <1>1, <1>4
<1>7. \A n \in DOMAIN g.nodes : NodeOk(g, g.nodes[n])
  BY <1>1, <1>4, <1>5, NodeStaysLemma
<1>8. g.top >= 0 => g.entry \in At(g, g.top)
  BY <1>1, <1>4, <1>5, KeepsLemma
<1>9. LookupOk(g)
  <2>1. l \in AllLabels
    BY InsertParts
  <2>2. \A k \in DOMAIN h.lookup : k \in AllLabels /\ h.lookup[k] \in 0 .. h.count - 1
    BY <1>1 DEF LookupOk
  <2> HIDE DEF l
  <2>3. \A k \in DOMAIN g.lookup : k \in AllLabels /\ g.lookup[k] \in 0 .. g.count - 1
    BY <1>1, <1>2, <1>4, <2>1, <2>2
  <2>4. \A x, k \in DOMAIN g.lookup : g.lookup[x] = g.lookup[k] => x = k
    BY <1>1, <1>2, <1>4, <2>2 DEF LookupOk
  <2> QED
    BY <2>3, <2>4 DEF LookupOk
<1>10. \A n \in DOMAIN g.nodes : n >= g.count => g.nodes[n].level = 0
  BY <1>1, <1>4
<1>11. IndexOk(g)
  <2> HIDE DEF l
  <2> QED
    BY <1>1, <1>2, <1>4, <1>6, <1>7, <1>8, <1>9, <1>10 DEF IndexOk
<1>12. InsertOk(g, j)
  <2>1. i.todo \in Todos
    BY InsertParts
  <2>2. j \in InsertStates
    BY <1>1, <2>1 DEF InsertStates
  <2>3. g.nodes[h.count].level = 0 /\ h.count \in 0 .. g.count - 1
    BY <1>1, <1>4
  <2>4. Head(j.todo).label \in DOMAIN g.lookup /\ g.lookup[Head(j.todo).label] = j.id
    BY <1>2, <1>4
  <2>5. j.pc = "fill" /\ j.id = h.count /\ j.todo # <<>>
    OBVIOUS
  <2> HIDE DEF j
  <2> QED
    BY <2>2, <2>3, <2>4, <2>5 DEF InsertOk
<1>13. \A k \in DOMAIN h.lookup : k \in DOMAIN g.lookup /\ g.lookup[k] = h.lookup[k]
  BY <1>2, <1>4
<1>14. j.id = h.count
  OBVIOUS
<1> HIDE DEF l, j
<1> QED
  BY <1>4, <1>5, <1>11, <1>12, <1>13, <1>14 DEF StepsTo, j

\* The element is filled in, with a level of its own.
LEMMA FillLemma ==
  ASSUME NEW h, IndexOk(h), NEW i, InsertOk(h, i), i.pc = "fill", NEW level \in 0 .. MaxLevel, NEW g,
         g = [h EXCEPT !.nodes[i.id] = [label |-> Head(i.todo).label, vec |-> Head(i.todo).vec, level |-> level,
                                        links |-> [l \in 0 .. level |-> <<>>]]],
         NEW j, j = [i EXCEPT !.pc = IF i.id = 0 THEN "first" ELSE "enter"]
  PROVE  StepsTo(h, g, i, j)
<1> DEFINE node == [label |-> Head(i.todo).label, vec |-> Head(i.todo).vec, level |-> level,
                    links |-> [l \in 0 .. level |-> <<>>]]
<1>1. i.id \in 0 .. h.count - 1 /\ h.nodes[i.id].level = 0 /\ i.todo # <<>>
  BY DEF InsertOk
<1>2. NodeOk(h, node)
  <2>1. node.vec \in Vectors
    BY <1>1, InsertParts
  <2>2. \A layer \in 0 .. level : <<>> \in Seq(At(h, layer)) /\ Len(<<>>) <= Limit(layer)
    BY LimitLemma
  <2>3. /\ node = [label |-> node.label, vec |-> node.vec, level |-> node.level, links |-> node.links]
        /\ DOMAIN node.links = 0 .. level /\ \A layer \in 0 .. level : node.links[layer] = <<>>
        /\ node.links = [layer \in DOMAIN node.links |-> node.links[layer]] /\ node.level = level
    OBVIOUS
  <2> HIDE DEF node
  <2> QED
    BY <2>1, <2>2, <2>3 DEF NodeOk
<1>3. node.level >= h.nodes[i.id].level
  BY <1>1
<1>4. Changed(h, g, i.id, node)
  <2>1. g = [h EXCEPT !.nodes[i.id] = node]
    OBVIOUS
  <2> HIDE DEF node
  <2> QED
    BY <1>1, <1>2, <1>3, <2>1, NodeChange, Zenon
<1>5. j = [pc |-> j.pc, todo |-> i.todo, id |-> i.id] /\ j.pc = (IF i.id = 0 THEN "first" ELSE "enter")
  BY InsertParts
<1>6. InsertOk(g, j)
  <2>1. j \in InsertStates
    BY <1>5, InsertParts DEF InsertStates
  <2> QED
    BY <1>4, <1>5, <2>1 DEF InsertOk, Changed
<1> HIDE DEF node
<1> QED
  BY <1>4, <1>5, <1>6 DEF StepsTo, Changed

\* The entry point moves.
HeadMoved(h, g) == IndexOk(g) /\ Keeps(h, g) /\ g.lookup = h.lookup /\ g.nodes = h.nodes
\* A step that moves the entry point or the count alone.
LEMMA HeadChange ==
  ASSUME NEW h, IndexOk(h), NEW top \in 0 .. MaxLevel, NEW entry \in At(h, top), NEW g,
         g = [h EXCEPT !.entry = entry, !.top = top]
  PROVE  HeadMoved(h, g)
<1>1. /\ h = [nodes |-> h.nodes, count |-> h.count, lookup |-> h.lookup, entry |-> h.entry, top |-> h.top]
      /\ h.nodes = [n \in DOMAIN h.nodes |-> h.nodes[n]] /\ h.lookup = [k \in DOMAIN h.lookup |-> h.lookup[k]]
      /\ DOMAIN h.nodes \subseteq Nat /\ IsFiniteSet(DOMAIN h.nodes)
      /\ h.count \in Nat /\ 0 .. h.count - 1 \subseteq DOMAIN h.nodes
      /\ \A n \in DOMAIN h.nodes : NodeOk(h, h.nodes[n]) /\ h.nodes[n].level \in Nat
      /\ \A n \in DOMAIN h.nodes : n >= h.count => h.nodes[n].level = 0
      /\ LookupOk(h)
  BY IndexParts DEF IndexOk
<1>2. /\ g.nodes = h.nodes /\ g.count = h.count /\ g.entry = entry /\ g.top = top /\ g.lookup = h.lookup
      /\ g = [nodes |-> g.nodes, count |-> g.count, lookup |-> g.lookup, entry |-> g.entry, top |-> g.top]
  BY <1>1
<1>3. Keeps(h, g)
  BY <1>1, <1>2 DEF Keeps
<1>4. \A n \in DOMAIN g.nodes : NodeOk(g, g.nodes[n])
  BY <1>1, <1>2, <1>3, NodeStaysLemma
<1>5. g.entry \in At(g, g.top) /\ g.entry \in Nat /\ g.top \in -1 .. MaxLevel
  BY <1>2, HnswAssumption, AtLemma DEF At
<1>6. LookupOk(g)
  BY <1>1, <1>2 DEF LookupOk
<1>7. IndexOk(g)
  BY <1>1, <1>2, <1>4, <1>5, <1>6 DEF IndexOk
<1> QED
  BY <1>2, <1>3, <1>7 DEF HeadMoved

\* The first element makes itself the entry point.
LEMMA BecomeFirstLemma ==
  ASSUME NEW h, IndexOk(h), NEW i, InsertOk(h, i), i.pc = "first", NEW g,
         g = [h EXCEPT !.entry = 0, !.top = h.nodes[0].level]
  PROVE  StepsTo(h, g, i, [pc |-> "idle", todo |-> Tail(i.todo)])
<1>1. i.id = 0 /\ i.id \in 0 .. h.count - 1 /\ i.todo # <<>>
  BY DEF InsertOk
<1>2. h.nodes[0].level \in 0 .. MaxLevel /\ h.nodes[0].level \in Nat
  BY <1>1, IndexParts
<1>3. 0 \in At(h, h.nodes[0].level)
  BY <1>1, <1>2 DEF At
<1>4. HeadMoved(h, g)
  BY <1>2, <1>3, HeadChange, Zenon
<1>5. InsertOk(g, [pc |-> "idle", todo |-> Tail(i.todo)])
  BY <1>1, DoneLemma
<1> QED
  BY <1>4, <1>5 DEF StepsTo, HeadMoved

\* A higher level becomes the top.
LEMMA RaiseTopLemma ==
  ASSUME NEW h, IndexOk(h), NEW i, InsertOk(h, i), i.pc = "raise", NEW g,
         g = h \/ (h.nodes[i.id].level > h.top /\ g = [h EXCEPT !.entry = i.id, !.top = h.nodes[i.id].level])
  PROVE  StepsTo(h, g, i, [pc |-> "idle", todo |-> Tail(i.todo)])
<1>1. i.id \in 0 .. h.count - 1 /\ i.todo # <<>>
  BY DEF InsertOk
<1>2. h.nodes[i.id].level \in 0 .. MaxLevel /\ h.nodes[i.id].level \in Nat
  BY <1>1, IndexParts
<1>3. i.id \in At(h, h.nodes[i.id].level)
  BY <1>1, <1>2 DEF At
<1>4. HeadMoved(h, g)
  <2>1. CASE g = h
    BY <2>1, IndexParts DEF Keeps, HeadMoved
  <2>2. CASE g = [h EXCEPT !.entry = i.id, !.top = h.nodes[i.id].level]
    <3> DEFINE id == i.id
               top == h.nodes[i.id].level
    <3>1. g = [h EXCEPT !.entry = id, !.top = top]
      BY <2>2
    <3> HIDE DEF id, top
    <3>2. top \in 0 .. MaxLevel /\ id \in At(h, top)
      BY <1>2, <1>3 DEF id, top
    <3> QED
      BY <3>1, <3>2, HeadChange, Zenon
  <2> QED
    BY <2>1, <2>2
<1>5. InsertOk(g, [pc |-> "idle", todo |-> Tail(i.todo)])
  BY <1>1, DoneLemma
<1> QED
  BY <1>4, <1>5 DEF StepsTo, HeadMoved

\* The way down from the entry point ends on the layer the insert begins with.
LEMMA EnterLemma ==
  ASSUME NEW h, IndexOk(h), NEW i, InsertOk(h, i), i.pc = "enter",
         NEW first, first = FirstLayer(h.nodes[i.id].level, h.top),
         NEW ep, ep = Descend(h, Head(i.todo).vec, h.entry, h.top, h.nodes[i.id].level)
  PROVE  StepsTo(h, h, i, [pc |-> IF first < 0 THEN "raise" ELSE "choose", todo |-> i.todo, id |-> i.id,
                           ep |-> ep, top |-> h.top, at |-> first, rest |-> <<>>])
<1> DEFINE level == h.nodes[i.id].level
           j == [pc |-> IF first < 0 THEN "raise" ELSE "choose", todo |-> i.todo, id |-> i.id,
                 ep |-> ep, top |-> h.top, at |-> first, rest |-> <<>>]
<1>1. /\ i.id \in 0 .. h.count - 1 /\ i.todo # <<>> /\ i.id \in Nat /\ i.todo \in Todos
      /\ Head(i.todo).label \in DOMAIN h.lookup /\ h.lookup[Head(i.todo).label] = i.id
  BY InsertParts DEF InsertOk
<1>2. level \in Nat /\ h.top \in Int /\ h.entry \in Nat /\ h.top \in -1 .. MaxLevel
      /\ (h.top >= 0 => h.top \in Nat /\ h.entry \in At(h, h.top))
  BY <1>1, IndexParts DEF IndexOk
<1> HIDE DEF level
<1>3. first \in Int /\ (first >= 0 <=> h.top >= 0) /\ (first >= 0 => first \in 0 .. level) /\ (h.top < 0 => first < 0)
  BY <1>2 DEF FirstLayer, level
<1>4. first >= 0 => ep \in At(h, first)
  BY <1>2, <1>3, DescendLemma DEF level
<1>5. ep \in Nat
  <2>1. CASE first >= 0
    BY <1>4, <2>1, AtLemma
  <2>2. CASE h.top < 0
    <3>1. h.top <= level
      BY <1>2, <2>2
    <3>2. ep = h.entry
      BY <3>1 DEF Descend, level
    <3> QED
      BY <1>2, <3>2
  <2> QED
    BY <1>2, <1>3, <2>1, <2>2
<1>6. /\ j.pc = (IF first < 0 THEN "raise" ELSE "choose") /\ j.id = i.id /\ j.todo = i.todo /\ j.at = first /\ j.ep = ep
      /\ j \in InsertStates
  <2>1. <<>> \in Seq(Nat)
    OBVIOUS
  <2>2. \A x \in {"raise", "choose"} :
          [pc |-> x, todo |-> i.todo, id |-> i.id, ep |-> ep, top |-> h.top, at |-> first, rest |-> <<>>]
            \in InsertStates
    BY <1>1, <1>2, <1>3, <1>5, <2>1 DEF InsertStates
  <2> QED
    BY <2>2
<1> HIDE DEF j
<1>7. InsertOk(h, j)
  BY <1>1, <1>3, <1>4, <1>6 DEF InsertOk, level
<1>8. Keeps(h, h)
  BY IndexParts DEF Keeps
<1>9. StepsTo(h, h, i, j)
  BY <1>6, <1>7, <1>8 DEF StepsTo
<1> QED
  BY <1>9 DEF j

\* The node's list on a layer, and the neighbours it is still to be linked from.
LEMMA ChooseLemma ==
  ASSUME NEW h, IndexOk(h), NEW i, InsertOk(h, i), i.pc = "choose", NEW chosen,
         chosen = SelectNeighbours(h, SearchLayer(h, Head(i.todo).vec, i.ep, EfConstruction, i.at), Limit(i.at)),
         NEW g, g = [h EXCEPT !.nodes[i.id].links = With(@, i.at, chosen)],
         NEW j, j = [i EXCEPT !.pc = "back", !.ep = Head(chosen), !.rest = chosen]
  PROVE  StepsTo(h, g, i, j)
<1> DEFINE S == At(h, i.at)
           old == h.nodes[i.id]
           node == [old EXCEPT !.links = With(@, i.at, chosen)]
<1>1. /\ i.id \in 0 .. h.count - 1 /\ i.todo # <<>> /\ i.id \in Nat /\ i.todo \in Todos
      /\ Head(i.todo).label \in DOMAIN h.lookup /\ h.lookup[Head(i.todo).label] = i.id
      /\ i.at \in 0 .. h.nodes[i.id].level /\ i.ep \in S /\ Head(i.todo).vec \in Vectors
      /\ i = [pc |-> i.pc, todo |-> i.todo, id |-> i.id, ep |-> i.ep, top |-> i.top, at |-> i.at, rest |-> i.rest]
      /\ i.top \in Int /\ i.at \in Int
  BY InsertParts DEF InsertOk
<1>2. NodeOk(h, old) /\ old.level \in Nat
  BY <1>1, IndexParts
<1>3. chosen \in Seq(S) /\ Len(chosen) <= Limit(i.at) /\ chosen # <<>>
  <2> DEFINE found == SearchLayer(h, Head(i.todo).vec, i.ep, EfConstruction, i.at)
  <2>1. EfConstruction \in Nat \ {0} /\ Limit(i.at) \in Nat \ {0}
    BY HnswAssumption, LimitLemma
  <2>2. found \in SUBSET Fars(h, Head(i.todo).vec, i.at) /\ found # {}
    BY <1>1, <2>1, SearchLayerLemma
  <2>3. chosen = SelectNeighbours(h, found, Limit(i.at))
    OBVIOUS
  <2> HIDE DEF found
  <2> QED
    BY <1>1, <2>1, <2>2, <2>3, SelectLemma
<1>4. S \subseteq Nat /\ S \subseteq 0 .. h.count - 1
  BY AtLemma DEF At
<1> HIDE DEF S
<1>5. Head(chosen) \in S /\ ToSet(chosen) \subseteq S /\ chosen \in Seq(Nat) /\ Head(chosen) \in Nat
  BY <1>3, <1>4 DEF ToSet
<1>6. NodeOk(h, node) /\ node.level = old.level
  <2> HIDE DEF old
  <2> QED
    BY <1>1, <1>2, <1>3, LinksChange DEF S, old
<1>7. Changed(h, g, i.id, node)
  <2>1. g = [h EXCEPT !.nodes[i.id] = node]
    OBVIOUS
  <2>2. node.level >= h.nodes[i.id].level
    BY <1>2, <1>6, SelfLemma, Zenon
  <2> HIDE DEF node
  <2> QED
    BY <1>1, <1>6, <2>1, <2>2, NodeChange, Zenon
<1> HIDE DEF node
<1>8. /\ j.pc = "back" /\ j.ep = Head(chosen) /\ j.rest = chosen /\ j.id = i.id /\ j.todo = i.todo /\ j.at = i.at
      /\ j.top = i.top
      /\ j = [pc |-> j.pc, todo |-> j.todo, id |-> j.id, ep |-> j.ep, top |-> j.top, at |-> j.at, rest |-> j.rest]
  BY <1>1
<1>9. At(h, i.at) \subseteq At(g, i.at)
  BY <1>1, <1>7, KeepsLemma DEF Changed
<1>10. InsertOk(g, j)
  <2>1. j \in InsertStates
    BY <1>1, <1>5, <1>8 DEF InsertStates
  <2>2. j.id \in 0 .. g.count - 1 /\ j.todo # <<>> /\ Head(j.todo).label \in DOMAIN g.lookup
        /\ g.lookup[Head(j.todo).label] = j.id
    BY <1>1, <1>7, <1>8 DEF Changed
  <2>3. g.nodes[j.id].level = h.nodes[i.id].level
    BY <1>6, <1>7, <1>8 DEF Changed
  <2>4. j.at \in 0 .. g.nodes[j.id].level /\ j.ep \in At(g, j.at) /\ j.rest # <<>> /\ ToSet(j.rest) \subseteq At(g, j.at)
    BY <1>1, <1>3, <1>5, <1>8, <1>9, <2>3 DEF S
  <2> QED
    BY <1>8, <2>1, <2>2, <2>4 DEF InsertOk
<1>11. /\ IndexOk(g) /\ Keeps(h, g)
       /\ \A n \in 0 .. h.count - 1 : g.nodes[n].level = h.nodes[n].level
       /\ \A l \in DOMAIN h.lookup : l \in DOMAIN g.lookup /\ g.lookup[l] = h.lookup[l]
  BY <1>6, <1>7 DEF Changed
<1>12. i.pc # "idle"
  OBVIOUS
<1> HIDE DEF old
<1> QED
  BY <1>8, <1>10, <1>11, <1>12 DEF StepsTo

\* The neighbours still to be linked from.
TailFacts(s) ==
  /\ Tail(s) \in Seq(Nat) /\ ToSet(Tail(s)) \subseteq ToSet(s) /\ Len(Tail(s)) = Len(s) - 1
  /\ Len(s) \in Nat \ {0} /\ (Len(s) > 1 => Tail(s) # <<>>)
\* A list without its first neighbour.
LEMMA TailLemma ==
  ASSUME NEW s \in Seq(Nat), s # <<>>
  PROVE  TailFacts(s)
<1>1. Tail(s) \in Seq(Nat) /\ Len(Tail(s)) = Len(s) - 1 /\ Len(s) \in Nat \ {0}
  OBVIOUS
<1>2. Len(s) > 1 => Tail(s) # <<>>
  <2> DEFINE e == Tail(s)
             k == Len(s)
  <2>1. Len(e) = k - 1 /\ k \in Nat
    BY <1>1
  <2> HIDE DEF e, k
  <2>2. k > 1 => Len(e) # 0
    BY <2>1
  <2>3. k > 1 => e # <<>>
    BY <2>2
  <2> QED
    BY <2>3 DEF e, k
<1>3. ToSet(Tail(s)) \subseteq ToSet(s)
  BY DEF ToSet
<1> QED
  BY <1>1, <1>2, <1>3 DEF TailFacts

\* A link back, after which the insert goes on with the next neighbour, layer, or the top.
LEMMA BacklinkLemma ==
  ASSUME NEW h, IndexOk(h), NEW i, InsertOk(h, i), i.pc = "back", NEW n, n = Head(i.rest), NEW g,
         g = [h EXCEPT !.nodes[n].links = With(@, i.at, WithBacklink(h, n, i.id, i.at))],
         NEW j, j = [i EXCEPT !.rest = Tail(@), !.at = IF Len(i.rest) = 1 THEN @ - 1 ELSE @,
                     !.pc = IF Len(i.rest) > 1 THEN "back" ELSE IF i.at = 0 THEN "raise" ELSE "choose"]
  PROVE  StepsTo(h, g, i, j)
<1> DEFINE q == WithBacklink(h, n, i.id, i.at)
           old == h.nodes[n]
           node == [old EXCEPT !.links = With(@, i.at, q)]
           k == Len(i.rest)
<1>1. /\ i.id \in 0 .. h.count - 1 /\ i.todo # <<>> /\ i.id \in Nat /\ i.todo \in Todos
      /\ Head(i.todo).label \in DOMAIN h.lookup /\ h.lookup[Head(i.todo).label] = i.id
      /\ i.at \in 0 .. h.nodes[i.id].level /\ i.ep \in At(h, i.at)
      /\ i = [pc |-> i.pc, todo |-> i.todo, id |-> i.id, ep |-> i.ep, top |-> i.top, at |-> i.at, rest |-> i.rest]
      /\ i.top \in Int /\ i.at \in Int /\ i.ep \in Nat /\ i.rest \in Seq(Nat) /\ i.rest # <<>>
      /\ ToSet(i.rest) \subseteq At(h, i.at)
  BY InsertParts DEF InsertOk
<1>2. n \in At(h, i.at) /\ n \in 0 .. h.count - 1 /\ n \in DOMAIN h.nodes /\ i.id \in At(h, i.at) /\ i.at <= old.level
  <2>1. n \in ToSet(i.rest)
    BY <1>1 DEF ToSet
  <2>2. n \in At(h, i.at)
    BY <1>1, <2>1
  <2>3. n \in 0 .. h.count - 1 /\ i.at <= old.level
    BY <2>2 DEF At
  <2>4. n \in DOMAIN h.nodes
    BY <2>2, AtLemma
  <2>5. h.nodes[i.id].level \in Nat
    BY <1>1, IndexParts
  <2>6. i.at <= h.nodes[i.id].level
    BY <1>1, <2>5
  <2>7. i.id \in At(h, i.at)
    BY <1>1, <2>6 DEF At
  <2> QED
    BY <2>2, <2>3, <2>4, <2>7
<1>3. NodeOk(h, old) /\ old.level \in Nat /\ h.nodes[i.id].level \in Nat
  BY <1>1, <1>2, IndexParts
<1>4. q \in Seq(At(h, i.at)) /\ Len(q) <= Limit(i.at)
  BY <1>1, <1>2, WithBacklinkLemma, LinksLemma
<1> HIDE DEF q
<1>5. i.at \in 0 .. old.level
  BY <1>1, <1>2, <1>3
<1>6. NodeOk(h, node) /\ node.level = old.level
  <2> HIDE DEF old
  <2> QED
    BY <1>3, <1>4, <1>5, LinksChange
<1>7. Changed(h, g, n, node)
  <2>1. g = [h EXCEPT !.nodes[n] = node]
    BY DEF q
  <2>2. node.level >= h.nodes[n].level
    BY <1>3, <1>6, SelfLemma, Zenon
  <2> HIDE DEF node
  <2> QED
    BY <1>2, <1>6, <2>1, <2>2, NodeChange, Zenon
<1> HIDE DEF node
<1>8. /\ j.pc = (IF k > 1 THEN "back" ELSE IF i.at = 0 THEN "raise" ELSE "choose")
      /\ j.at = (IF k = 1 THEN i.at - 1 ELSE i.at)
      /\ j.rest = Tail(i.rest) /\ j.id = i.id /\ j.todo = i.todo /\ j.ep = i.ep /\ j.top = i.top
      /\ j = [pc |-> j.pc, todo |-> j.todo, id |-> j.id, ep |-> j.ep, top |-> j.top, at |-> j.at, rest |-> j.rest]
  BY <1>1
<1>9. /\ IndexOk(g) /\ Keeps(h, g)
      /\ \A x \in 0 .. h.count - 1 : g.nodes[x].level = h.nodes[x].level
      /\ g.lookup = h.lookup /\ g.count = h.count
  BY <1>6, <1>7 DEF Changed
<1> HIDE DEF old
<1>10. \A layer \in Int : At(h, layer) \subseteq At(g, layer)
  BY <1>9, KeepsLemma
<1>11. Tail(i.rest) \in Seq(Nat) /\ ToSet(Tail(i.rest)) \subseteq ToSet(i.rest) /\ Len(Tail(i.rest)) = k - 1
       /\ k \in Nat \ {0} /\ (k > 1 => Tail(i.rest) # <<>>)
  BY <1>1, TailLemma DEF TailFacts
<1> HIDE DEF k
<1>12. InsertOk(g, j)
  <2>1. j.id \in 0 .. g.count - 1 /\ j.todo # <<>> /\ Head(j.todo).label \in DOMAIN g.lookup
        /\ g.lookup[Head(j.todo).label] = j.id /\ g.nodes[j.id].level = h.nodes[i.id].level
    BY <1>1, <1>8, <1>9
  <2>2. j.at \in Int /\ j.pc \in {"back", "raise", "choose"}
    BY <1>1, <1>8, <1>11
  <2>3. j \in InsertStates
    BY <1>1, <1>8, <1>11, <2>2 DEF InsertStates
  <2>4. CASE k > 1
    <3>1. j.pc = "back" /\ j.at = i.at
      <4>1. k # 1
        BY <1>11, <2>4
      <4> QED
        BY <1>8, <2>4, <4>1
    <3>2. j.rest # <<>>
      BY <1>8, <1>11, <2>4
    <3>3. j.at \in 0 .. g.nodes[j.id].level /\ j.ep \in At(g, j.at) /\ ToSet(j.rest) \subseteq At(g, j.at)
      BY <1>1, <1>8, <1>10, <1>11, <2>1, <3>1
    <3> QED
      BY <2>1, <2>3, <3>1, <3>2, <3>3 DEF InsertOk
  <2>5. CASE k = 1 /\ i.at = 0
    <3>1. j.pc = "raise"
      BY <1>8, <2>5
    <3> QED
      BY <2>1, <2>3, <3>1 DEF InsertOk
  <2>6. CASE k = 1 /\ i.at # 0
    <3>1. j.pc = "choose" /\ j.at = i.at - 1
      BY <1>8, <2>6
    <3>2. j.at \in 0 .. g.nodes[j.id].level
      BY <1>1, <1>3, <2>1, <2>6, <3>1
    <3>3. At(h, i.at) \subseteq At(h, j.at)
      BY <1>1, <3>1, IndexParts DEF At
    <3>4. j.ep \in At(g, j.at)
      BY <1>1, <1>8, <1>10, <2>2, <3>3
    <3> QED
      BY <2>1, <2>3, <3>1, <3>2, <3>4 DEF InsertOk
  <2>7. k > 1 \/ k = 1
    BY <1>11
  <2> QED
    BY <2>4, <2>5, <2>6, <2>7
<1>13. i.pc # "idle"
  OBVIOUS
<1> QED
  BY <1>8, <1>9, <1>12, <1>13 DEF StepsTo

\* A thread's record changes by itself.
LEMMA InsChange ==
  ASSUME HnswInv, NEW t \in Writers, NEW j, ins' = [ins EXCEPT ![t] = j]
  PROVE  ins'[t] = j /\ ins' = [ins EXCEPT ![t] = ins'[t]]
BY DEF HnswInv

\* Every step of an insert keeps the graph's invariant.
LEMMA InsertStepOk ==
  ASSUME HnswInv, NEW t \in Writers, InsertStep(t)
  PROVE  StepOk(t)
<1> DEFINE i == ins[t]
           h == index
<1>1. IndexOk(h) /\ InsertOk(h, i)
  BY DEF HnswInv
<1>2. CASE Reserve(t)
  <2>1. i.pc = "idle" /\ i.todo # <<>>
    BY <1>2 DEF Reserve
  <2>2. CASE Head(i.todo).label \in DOMAIN h.lookup
    <3> DEFINE j == [pc |-> "idle", todo |-> Tail(i.todo)]
    <3>1. /\ index' = [h EXCEPT !.nodes[h.lookup[Head(i.todo).label]].vec = Head(i.todo).vec]
          /\ ins' = [ins EXCEPT ![t] = j]
      BY <1>2, <2>2 DEF Reserve, Done, Begin
    <3>2. StepsTo(h, index', i, j)
      BY <1>1, <2>1, <2>2, <3>1, ReserveKnownLemma, Zenon
    <3> HIDE DEF j
    <3> QED
      BY <3>1, <3>2, InsChange DEF StepOk
  <2>3. CASE Head(i.todo).label \notin DOMAIN h.lookup
    <3> DEFINE j == [pc |-> "fill", todo |-> i.todo, id |-> h.count]
    <3>1. /\ h.count \in DOMAIN h.nodes
          /\ index' = [h EXCEPT !.count = @ + 1, !.lookup = With(@, Head(i.todo).label, h.count)]
          /\ ins' = [ins EXCEPT ![t] = j]
      BY <1>2, <2>3 DEF Reserve
    <3>2. StepsTo(h, index', i, j)
      BY <1>1, <2>1, <2>3, <3>1, ReserveNewLemma, Zenon
    <3> HIDE DEF j
    <3> QED
      BY <3>1, <3>2, InsChange DEF StepOk
  <2> QED
    BY <2>2, <2>3
<1>3. CASE FillElement(t)
  <2>1. i.pc = "fill"
    BY <1>3 DEF FillElement
  <2>2. PICK level \in 0 .. MaxLevel :
          /\ index' = [h EXCEPT !.nodes[i.id] = [label |-> Head(i.todo).label, vec |-> Head(i.todo).vec, level |-> level,
                                                 links |-> [l \in 0 .. level |-> <<>>]]]
          /\ ins' = [ins EXCEPT ![t].pc = IF i.id = 0 THEN "first" ELSE "enter"]
    BY <1>3 DEF FillElement
  <2> DEFINE j == [i EXCEPT !.pc = IF i.id = 0 THEN "first" ELSE "enter"]
  <2>3. ins' = [ins EXCEPT ![t] = j]
    BY <2>2
  <2>4. StepsTo(h, index', i, j)
    BY <1>1, <2>1, <2>2, FillLemma, Zenon
  <2> HIDE DEF j
  <2> QED
    BY <2>3, <2>4, InsChange DEF StepOk
<1>4. CASE BecomeFirst(t)
  <2> DEFINE j == [pc |-> "idle", todo |-> Tail(i.todo)]
  <2>1. /\ i.pc = "first" /\ index' = [h EXCEPT !.entry = 0, !.top = h.nodes[0].level]
        /\ ins' = [ins EXCEPT ![t] = j]
    BY <1>4 DEF BecomeFirst, Done, Begin
  <2>2. StepsTo(h, index', i, j)
    BY <1>1, <2>1, BecomeFirstLemma, Zenon
  <2> HIDE DEF j
  <2> QED
    BY <2>1, <2>2, InsChange DEF StepOk
<1>5. CASE Enter(t)
  <2> DEFINE first == FirstLayer(h.nodes[i.id].level, h.top)
             ep == Descend(h, Head(i.todo).vec, h.entry, h.top, h.nodes[i.id].level)
             j == [pc |-> IF first < 0 THEN "raise" ELSE "choose", todo |-> i.todo, id |-> i.id,
                   ep |-> ep, top |-> h.top, at |-> first, rest |-> <<>>]
  <2>1. i.pc = "enter" /\ index' = h
    BY <1>5 DEF Enter
  <2>2. ins' = [ins EXCEPT ![t] = j]
    BY <1>5 DEF Enter
  <2>3. StepsTo(h, h, i, j)
    BY <1>1, <2>1, EnterLemma, Zenon
  <2> HIDE DEF j
  <2> QED
    BY <2>1, <2>2, <2>3, InsChange DEF StepOk
<1>6. CASE Choose(t)
  <2> DEFINE chosen == SelectNeighbours(h, SearchLayer(h, Head(i.todo).vec, i.ep, EfConstruction, i.at), Limit(i.at))
             j == [i EXCEPT !.pc = "back", !.ep = Head(chosen), !.rest = chosen]
  <2>1. i.pc = "choose" /\ index' = [h EXCEPT !.nodes[i.id].links = With(@, i.at, chosen)]
    BY <1>6 DEF Choose
  <2>2. ins' = [ins EXCEPT ![t] = j]
    BY <1>6 DEF Choose
  <2>3. StepsTo(h, index', i, j)
    BY <1>1, <2>1, ChooseLemma, Zenon
  <2> HIDE DEF j
  <2> QED
    BY <2>2, <2>3, InsChange DEF StepOk
<1>7. CASE Backlink(t)
  <2> DEFINE n == Head(i.rest)
             j == [i EXCEPT !.rest = Tail(@), !.at = IF Len(i.rest) = 1 THEN @ - 1 ELSE @,
                     !.pc = IF Len(i.rest) > 1 THEN "back" ELSE IF i.at = 0 THEN "raise" ELSE "choose"]
  <2>1. i.pc = "back" /\ index' = [h EXCEPT !.nodes[n].links = With(@, i.at, WithBacklink(h, n, i.id, i.at))]
    BY <1>7 DEF Backlink
  <2>2. ins' = [ins EXCEPT ![t] = j]
    BY <1>7 DEF Backlink
  <2>3. StepsTo(h, index', i, j)
    BY <1>1, <2>1, BacklinkLemma, Zenon
  <2> HIDE DEF j
  <2> QED
    BY <2>2, <2>3, InsChange DEF StepOk
<1>8. CASE RaiseTop(t)
  <2> DEFINE j == [pc |-> "idle", todo |-> Tail(i.todo)]
  <2>1. /\ i.pc = "raise" /\ ins' = [ins EXCEPT ![t] = j]
        /\ index' = h \/ (h.nodes[i.id].level > h.top /\ index' = [h EXCEPT !.entry = i.id, !.top = h.nodes[i.id].level])
    BY <1>8 DEF RaiseTop, Done, Begin
  <2>2. StepsTo(h, index', i, j)
    BY <1>1, <2>1, RaiseTopLemma, Zenon
  <2> HIDE DEF j
  <2> QED
    BY <2>1, <2>2, InsChange DEF StepOk
<1> QED
  BY <1>2, <1>3, <1>4, <1>5, <1>6, <1>7, <1>8 DEF InsertStep

\* So it keeps the invariant of the graph.
LEMMA InsertStepKeeps ==
  ASSUME HnswInv, NEW t \in Writers, InsertStep(t)
  PROVE  HnswInv'
BY InsertStepOk, StepLemma

\* What the invariant is for.
LEMMA ListsLemma == HnswInv => ListsStayAllocated
<1> SUFFICES ASSUME HnswInv PROVE ListsStayAllocated
  OBVIOUS
<1> DEFINE h == index
<1>1. IndexOk(h) /\ \A t \in Writers : InsertOk(h, ins[t])
  BY DEF HnswInv
<1>2. ASSUME NEW n \in DOMAIN h.nodes, NEW layer \in DOMAIN h.nodes[n].links
      PROVE  /\ layer <= h.nodes[n].level /\ Len(Links(h, n, layer)) <= Limit(layer)
             /\ \A o \in ToSet(Links(h, n, layer)) : o < h.count /\ layer <= h.nodes[o].level
  <2>1. layer \in 0 .. h.nodes[n].level /\ h.nodes[n].level \in Nat /\ h.count \in Nat
    BY <1>1, <1>2, IndexParts DEF NodeOk
  <2>2. Links(h, n, layer) \in Seq(At(h, layer)) /\ Len(Links(h, n, layer)) <= Limit(layer)
    BY <1>1, <1>2, LinksLemma
  <2>3. ToSet(Links(h, n, layer)) \subseteq At(h, layer)
    BY <2>2 DEF ToSet
  <2>4. \A o \in At(h, layer) : o < h.count /\ layer <= h.nodes[o].level
    BY <2>1 DEF At
  <2> QED
    BY <2>1, <2>2, <2>3, <2>4
<1>3. h.top >= 0 => h.nodes[h.entry].level >= h.top
  <2> SUFFICES ASSUME h.top >= 0 PROVE h.nodes[h.entry].level >= h.top
    OBVIOUS
  <2>1. h.entry \in At(h, h.top) /\ h.top \in Int
    BY <1>1, IndexParts
  <2>2. h.entry \in DOMAIN h.nodes /\ h.top <= h.nodes[h.entry].level
    BY <1>1, <2>1, AtLemma DEF At
  <2>3. h.nodes[h.entry].level \in Nat
    BY <1>1, <2>2, IndexParts
  <2> HIDE DEF h
  <2> QED
    BY <2>1, <2>2, <2>3
<1>4. ASSUME NEW t \in Writers, ins[t].pc = "choose" PROVE ins[t].at <= h.nodes[ins[t].ep].level
  <2>1. ins[t].ep \in At(h, ins[t].at)
    BY <1>1, <1>4 DEF InsertOk
  <2> QED
    BY <2>1 DEF At
<1> QED
  BY <1>2, <1>3, <1>4 DEF ListsStayAllocated

-----------------------------------------------------------------------------
(***************************************************************************)
(* The calls around the graph.                                             *)
(***************************************************************************)
LifeInv == HnswInv /\ ApiTypes /\ Control /\ FileOk

\* The index of a new object.
LEMMA NewIndexLemma ==
  ASSUME NEW capacity \in Nat
  PROVE  IndexOk(NewIndex(capacity))
<1> DEFINE h == NewIndex(capacity)
<1>1. /\ h = [nodes |-> h.nodes, count |-> h.count, lookup |-> h.lookup, entry |-> h.entry, top |-> h.top]
      /\ h.nodes = [n \in 0 .. capacity - 1 |-> Blank] /\ h.count = 0 /\ h.entry = 0 /\ h.top = -1
      /\ h.lookup = [l \in {} |-> 0]
  BY DEF NewIndex
<1> HIDE DEF h
<1>2. NodeOk(h, Blank) /\ Blank.level = 0
  <2>1. 0 \in Vectors /\ 0 \in 0 .. MaxLevel
    BY HnswAssumption DEF Vectors
  <2>2. <<>> \in Seq(At(h, 0)) /\ Len(<<>>) <= Limit(0)
    BY LimitLemma
  <2>3. /\ Blank = [label |-> Blank.label, vec |-> Blank.vec, level |-> Blank.level, links |-> Blank.links]
        /\ DOMAIN Blank.links = {0} /\ Blank.links[0] = <<>> /\ Blank.level = 0 /\ Blank.vec = 0 /\ Blank.label = 0
        /\ Blank.links = [layer \in DOMAIN Blank.links |-> Blank.links[layer]]
    BY DEF Blank
  <2>4. ASSUME NEW layer \in DOMAIN Blank.links
        PROVE  /\ layer \in 0 .. Blank.level /\ Blank.links[layer] \in Seq(At(h, layer))
               /\ Len(Blank.links[layer]) <= Limit(layer)
    <3>1. layer = 0 /\ Blank.links[layer] = <<>> /\ 0 \in 0 .. Blank.level
      BY <2>3
    <3> QED
      BY <2>2, <3>1
  <2>5. Blank.vec \in Vectors /\ Blank.level \in 0 .. MaxLevel
    BY <2>1, <2>3
  <2> QED
    BY <2>3, <2>4, <2>5 DEF NodeOk
<1>3. DOMAIN h.nodes = 0 .. capacity - 1 /\ \A n \in DOMAIN h.nodes : h.nodes[n] = Blank
  BY <1>1
<1>4. DOMAIN h.nodes \subseteq Nat /\ IsFiniteSet(DOMAIN h.nodes) /\ 0 .. h.count - 1 \subseteq DOMAIN h.nodes
  <2>1. 0 \in Int /\ capacity - 1 \in Int
    OBVIOUS
  <2>2. IsFiniteSet(0 .. capacity - 1)
    BY <2>1, FS_Interval
  <2>3. 0 .. h.count - 1 = {}
    BY <1>1
  <2> QED
    BY <1>3, <2>2, <2>3
<1>5. LookupOk(h)
  BY <1>1 DEF LookupOk
<1>6. h.nodes = [n \in DOMAIN h.nodes |-> h.nodes[n]] /\ h.lookup = [l \in DOMAIN h.lookup |-> h.lookup[l]]
  BY <1>1
<1>7. IndexOk(h)
  BY <1>1, <1>2, <1>3, <1>4, <1>5, <1>6, HnswAssumption DEF IndexOk
<1> QED
  BY <1>7 DEF h

\* An insert that has not begun.
LEMMA ToDoLemma ==
  ASSUME NEW h, NEW todo \in Todos
  PROVE  InsertOk(h, [pc |-> "idle", todo |-> todo])
<1> DEFINE j == [pc |-> "idle", todo |-> todo]
<1>1. j \in InsertStates /\ j.pc = "idle"
  BY DEF InsertStates
<1> QED
  BY <1>1 DEF InsertOk

\* A thread gets records to insert; the graph stays.
LEMMA BeginLemma ==
  ASSUME HnswInv, NEW t \in Writers, NEW todo \in Todos, Begin(t, todo), UNCHANGED index
  PROVE  HnswInv'
<1> DEFINE j == [pc |-> "idle", todo |-> todo]
<1>1. /\ IndexOk(index) /\ DOMAIN ins = Writers /\ ins = [u \in Writers |-> ins[u]]
      /\ \A u \in Writers : InsertOk(index, ins[u])
  BY DEF HnswInv
<1>2. ins' = [ins EXCEPT ![t] = j] /\ j.pc = "idle"
  BY DEF Begin
<1>3. InsertOk(index, j)
  BY ToDoLemma
<1> HIDE DEF j
<1>4. /\ DOMAIN ins' = Writers /\ ins' = [u \in Writers |-> ins'[u]] /\ ins'[t] = j
      /\ \A u \in Writers \ {t} : ins'[u] = ins[u]
  BY <1>1, <1>2
<1>5. \A u \in Writers : InsertOk(index', ins'[u])
  <2> TAKE u \in Writers
  <2>1. CASE u = t
    BY <1>3, <1>4, <2>1
  <2>2. CASE u # t
    BY <1>1, <1>4, <2>2
  <2> QED
    BY <2>1, <2>2
<1>6. ElementsApart'
  BY <1>2, <1>4 DEF HnswInv, ElementsApart
<1> QED
  BY <1>1, <1>4, <1>5, <1>6 DEF HnswInv

\* No insert is in progress.
LEMMA AllIdleLemma ==
  ASSUME IndexOk(index'), DOMAIN ins' = Writers, ins' = [t \in Writers |-> ins'[t]],
         \A t \in Writers : ins'[t].todo \in Todos /\ ins'[t] = [pc |-> "idle", todo |-> ins'[t].todo]
  PROVE  HnswInv'
<1>1. \A t \in Writers : InsertOk(index', ins'[t])
  BY ToDoLemma
<1>2. \A t \in Writers : ins'[t].pc = "idle"
  OBVIOUS
<1> QED
  BY <1>1, <1>2 DEF HnswInv, ElementsApart

\* Nor is one on a new object.
LEMMA FreshLemma ==
  ASSUME IndexOk(index'), ins' = [t \in Writers |-> Idle]
  PROVE  HnswInv'
<1>1. <<>> \in Todos
  BY DEF Todos
<1>2. DOMAIN ins' = Writers /\ ins' = [t \in Writers |-> ins'[t]]
  OBVIOUS
<1>3. \A t \in Writers : ins'[t].todo \in Todos /\ ins'[t] = [pc |-> "idle", todo |-> ins'[t].todo]
  BY <1>1 DEF Idle
<1> QED
  BY <1>2, <1>3, AllIdleLemma

\* The threads of an object, and what they hand to the graph.
LEMMA WritersLemma == USER \in Writers /\ BG \in Writers /\ USER # BG /\ Records \subseteq Todos /\ <<>> \in Records
<1>1. [label : Labels, vec : Vectors] \subseteq [label : AllLabels, vec : Vectors]
  BY DEF AllLabels
<1> DEFINE A == [label : Labels, vec : Vectors]
           B == [label : AllLabels, vec : Vectors]
<1>2. \A S, T : S \subseteq T => Seq(S) \subseteq Seq(T)
  OBVIOUS
<1>3. <<>> \in Seq(A)
  OBVIOUS
<1> HIDE DEF A, B
<1>4. Seq(A) \subseteq Seq(B)
  BY <1>1, <1>2 DEF A, B
<1>5. USER \in Writers /\ BG \in Writers /\ USER # BG
  BY PowerlawAssumption DEF USER, BG
<1> QED
  BY <1>3, <1>4, <1>5 DEF Records, Todos, A, B

\* The vectors are numbered from zero.
LEMMA ClockLemma == ApiTypes => clock \in Nat /\ clock \in Vectors
<1> SUFFICES ASSUME ApiTypes PROVE clock \in Nat /\ clock \in Vectors
  OBVIOUS
<1>1. clock \in Vectors
  BY DEF ApiTypes
<1>2. \A v \in Vectors : v \in Nat
  BY HnswAssumption DEF Vectors
<1> QED
  BY <1>1, <1>2, Zenon

\* What build hands to the graph.
LEMMA BatchLemma ==
  ASSUME ApiTypes, NEW batch \in Batches, clock + Len(batch) \in DOMAIN Coordinates
  PROVE  /\ batch \in Seq(ToSet(batch)) /\ ToSet(batch) \subseteq AllLabels /\ ToSet(batch) \cap Labels = {}
         /\ \A k \in 0 .. Len(batch) : clock + k \in Vectors
         /\ [i \in DOMAIN batch |-> [label |-> batch[i], vec |-> clock + i]] \in Todos
<1>1. batch \in Seq(ToSet(batch)) /\ ToSet(batch) \cap Labels = {}
  BY PowerlawAssumption
<1>2. ToSet(batch) \subseteq AllLabels
  BY DEF AllLabels
<1>3. clock \in Nat /\ Len(batch) \in Nat
  BY <1>1, ClockLemma
<1>4. \A k \in 0 .. Len(batch) : clock + k \in Vectors
  <2> TAKE k \in 0 .. Len(batch)
  <2>1. 0 .. (clock + Len(batch)) \subseteq DOMAIN Coordinates
    BY HnswAssumption
  <2>2. clock + k \in 0 .. (clock + Len(batch))
    BY <1>3
  <2> QED
    BY <2>1, <2>2 DEF Vectors
<1> DEFINE R == [label : AllLabels, vec : Vectors]
           s == [i \in DOMAIN batch |-> [label |-> batch[i], vec |-> clock + i]]
<1>5. \A i \in 1 .. Len(batch) : [label |-> batch[i], vec |-> clock + i] \in R
  BY <1>1, <1>2, <1>3, <1>4
<1>6. s \in Seq(R)
  <2>1. DOMAIN batch = 1 .. Len(batch)
    BY <1>1
  <2> DEFINE e(i) == [label |-> batch[i], vec |-> clock + i]
  <2>2. s = [i \in 1 .. Len(batch) |-> e(i)]
    BY <2>1
  <2>3. \A i \in 1 .. Len(batch) : e(i) \in R
    BY <1>5
  <2> HIDE DEF e, R
  <2> QED
    BY <1>3, <2>2, <2>3
<1> HIDE DEF s, R
<1>7. s \in Todos
  BY <1>6 DEF Todos, R
<1> QED
  BY <1>1, <1>2, <1>4, <1>7 DEF s

\* Nothing is in progress on an object nothing was handed to.
LEMMA RestLemma ==
  ASSUME LifeInv, user = AtRest, newest = Nothing, NEW t \in Writers
  PROVE  ins[t].pc = "idle" /\ ins[t].todo = <<>> /\ ins[t] = [pc |-> "idle", todo |-> <<>>]
<1>1. CASE t \notin {USER, BG}
  BY <1>1 DEF LifeInv, Control, Idle
<1>2. CASE t = USER
  <2>1. ~Working(USER)
    BY DEF LifeInv, Control, AtRest
  <2>2. InsertOk(index, ins[t])
    BY DEF LifeInv, HnswInv
  <2>3. ins[t].pc = "idle" /\ ins[t].todo = <<>>
    BY <1>2, <2>1 DEF Working
  <2> QED
    BY <2>2, <2>3, InsertParts
<1>3. CASE t = BG
  <2>1. ~Working(BG)
    BY DEF LifeInv, Control
  <2>2. InsertOk(index, ins[t])
    BY DEF LifeInv, HnswInv
  <2>3. ins[t].pc = "idle" /\ ins[t].todo = <<>>
    BY <1>3, <2>1 DEF Working
  <2> QED
    BY <2>2, <2>3, InsertParts
<1> QED
  BY <1>1, <1>2, <1>3

\* The graph's invariant, by call.
LEMMA LoadKeepsGraph ==
  ASSUME LifeInv, Load
  PROVE  HnswInv'
<1>1. newest = Nothing /\ user = AtRest /\ db.kind # "absent"
  BY DEF Load, Call
<1>2. PICK g \in Garbage :
        /\ Begin(USER, IF db.kind = "torn" THEN <<>> ELSE log.records \o g)
        /\ clock' = clock + Len(g) /\ clock' \in DOMAIN Coordinates
  BY DEF Load
<1> DEFINE todo == IF db.kind = "torn" THEN <<>> ELSE log.records \o g
<1>3. todo \in Todos
  <2>1. log.records \in Records /\ clock \in Nat
    BY HnswAssumption DEF LifeInv, ApiTypes, Vectors
  <2>2. g \in Records
    <3>1. CASE g = <<>>
      BY <3>1, WritersLemma
    <3>2. CASE \E l \in Labels : g = <<Record(l)>>
      <4>1. PICK l \in Labels : g = <<Record(l)>>
        BY <3>2
      <4>2. clock + 1 \in Vectors
        BY <1>2, <4>1 DEF Vectors
      <4>3. Record(l) \in [label : Labels, vec : Vectors]
        BY <4>2 DEF Record
      <4> QED
        BY <4>1, <4>3 DEF Records
    <3> QED
      BY <3>1, <3>2 DEF Garbage
  <2>3. log.records \o g \in Records
    BY <2>1, <2>2 DEF Records
  <2> QED
    BY <2>3, WritersLemma
<1>4. IndexOk(index')
  <2>1. CASE db.kind = "torn"
    <3>1. index' = NewIndex(max) /\ max \in Nat
      BY <2>1 DEF Load, LifeInv, ApiTypes
    <3> QED
      BY <3>1, NewIndexLemma
  <2>2. CASE db.kind # "torn"
    <3>1. index' = db.index
      BY <2>2 DEF Load
    <3>2. IndexOk(db.index)
      BY <1>1, <2>2 DEF LifeInv, FileOk, Absent, Torn
    <3> QED
      BY <3>1, <3>2
  <2> QED
    BY <2>1, <2>2
<1>5. ins' = [ins EXCEPT ![USER] = [pc |-> "idle", todo |-> todo]]
  BY <1>2 DEF Begin
<1> HIDE DEF todo
<1>6. DOMAIN ins = Writers /\ ins = [t \in Writers |-> ins[t]] /\ <<>> \in Todos
  BY WritersLemma DEF LifeInv, HnswInv
<1>7. DOMAIN ins' = Writers /\ ins' = [t \in Writers |-> ins'[t]]
  BY <1>5, <1>6
<1>8. \A t \in Writers : ins'[t].todo \in Todos /\ ins'[t] = [pc |-> "idle", todo |-> ins'[t].todo]
  <2> TAKE t \in Writers
  <2>1. CASE t = USER
    BY <1>3, <1>5, <1>6, <2>1, WritersLemma
  <2>2. CASE t # USER
    <3>1. ins'[t] = ins[t]
      BY <1>5, <1>6, <2>2
    <3>2. ins[t] = [pc |-> "idle", todo |-> <<>>]
      BY <1>1, RestLemma
    <3> QED
      BY <1>6, <3>1, <3>2
  <2> QED
    BY <2>1, <2>2
<1> QED
  BY <1>4, <1>7, <1>8, AllIdleLemma

\* The graph's invariant is kept by every call.
LEMMA GraphKept ==
  ASSUME LifeInv, [ApiNext]_<<hnswVars, apiVars>>
  PROVE  HnswInv'
<1>0. HnswInv /\ ApiTypes /\ USER \in Writers /\ BG \in Writers /\ Records \subseteq Todos /\ <<>> \in Todos
  BY WritersLemma DEF LifeInv
<1>1. CASE UNCHANGED hnswVars
  BY <1>0, <1>1 DEF HnswInv, hnswVars, ElementsApart
<1>2. ASSUME NEW batch \in Batches, Build(batch) PROVE HnswInv'
  <2> DEFINE todo == [i \in DOMAIN batch |-> [label |-> batch[i], vec |-> clock + i]]
  <2>1. Begin(USER, todo) /\ UNCHANGED index /\ clock + Len(batch) \in DOMAIN Coordinates
    BY <1>2 DEF Build
  <2>2. todo \in Todos
    BY <1>0, <2>1, BatchLemma
  <2> HIDE DEF todo
  <2> QED
    BY <1>0, <2>1, <2>2, BeginLemma
<1>3. CASE Inserting
  BY <1>0, <1>3, InsertStepKeeps DEF Inserting
<1>4. CASE ConsolidateLocks
  <2>1. Begin(USER, delta) /\ UNCHANGED index /\ delta \in Todos
    BY <1>0, <1>4 DEF ConsolidateLocks, ApiTypes
  <2> QED
    BY <1>0, <2>1, BeginLemma
<1>5. CASE Throws
  <2>1. Begin(USER, <<>>) /\ UNCHANGED index
    BY <1>5 DEF Throws, Begin, Idle
  <2> QED
    BY <1>0, <2>1, BeginLemma
<1>6. CASE Load
  BY <1>6, LoadKeepsGraph
<1>7. CASE BgApplies
  <2>1. Begin(BG, delta) /\ UNCHANGED index /\ delta \in Todos
    BY <1>0, <1>7 DEF BgApplies, ApiTypes
  <2> QED
    BY <1>0, <2>1, BeginLemma
<1>8. CASE BgInserts
  BY <1>0, <1>8, InsertStepKeeps DEF BgInserts
<1>9. CASE Reopen \/ ApiCrash
  <2>1. index' = NewIndex(max) /\ ins' = [t \in Writers |-> Idle] /\ max \in Nat
    BY <1>0, <1>9 DEF Reopen, ApiCrash, NewLife, ApiTypes
  <2> QED
    BY <2>1, FreshLemma, NewIndexLemma
<1>10. ASSUME NEW l \in Labels, Insert(l) PROVE UNCHANGED hnswVars
  BY <1>10 DEF Insert
<1>11. CASE BuildReturns \/ Consolidate \/ ConsolidateChecks \/ ConsolidateClears \/ ConsolidateRemoves
            \/ SaveOpens \/ SaveWrites \/ Return \/ LoadReturns
  BY <1>1, <1>11 DEF BuildReturns, Consolidate, ConsolidateChecks, ConsolidateClears, ConsolidateRemoves,
                     SaveOpens, SaveWrites, Return, LoadReturns
<1>12. CASE BgWakes \/ BgFlushes \/ BgClears \/ BgRemoves \/ Destroy
  BY <1>1, <1>12 DEF BgWakes, BgFlushes, BgClears, BgRemoves, Destroy
<1>13. CASE UNCHANGED <<hnswVars, apiVars>>
  BY <1>1, <1>13
<1> QED
  BY <1>1, <1>2, <1>3, <1>4, <1>5, <1>6, <1>7, <1>8, <1>9, <1>10, <1>11, <1>12, <1>13, Zenon DEF ApiNext

\* The index file.
LEMMA FileKept ==
  ASSUME LifeInv, [ApiNext]_<<hnswVars, apiVars>>
  PROVE  FileOk'
<1>0. FileOk /\ HnswInv
  BY DEF LifeInv
<1>1. CASE db' = db /\ kept' = kept
  BY <1>0, <1>1 DEF FileOk
<1>2. CASE SaveOpens
  BY <1>2 DEF SaveOpens, FileOk, Torn
<1>3. CASE SaveWrites
  <2>1. db' = [kind |-> "saved", index |-> index] /\ kept' = Content(index)
    BY <1>3 DEF SaveWrites
  <2>2. db'.index = index /\ IndexOk(index)
    BY <1>0, <2>1 DEF HnswInv
  <2> QED
    BY <2>1, <2>2 DEF FileOk
<1>4. ASSUME NEW l \in Labels, Insert(l) PROVE db' = db /\ kept' = kept
  BY <1>4 DEF Insert, ApiFiles
<1>5. ASSUME NEW batch \in Batches, Build(batch) PROVE db' = db /\ kept' = kept
  BY <1>5 DEF Build, ApiFiles
<1>6. CASE BuildReturns \/ Consolidate \/ ConsolidateChecks \/ ConsolidateLocks \/ ConsolidateClears \/ ConsolidateRemoves
           \/ Throws \/ Return \/ Load \/ LoadReturns
  BY <1>1, <1>6 DEF BuildReturns, Consolidate, ConsolidateChecks, ConsolidateLocks, ConsolidateClears,
                    ConsolidateRemoves, Throws, Return, Load, LoadReturns, ApiFiles
<1>7. CASE Inserting \/ BgInserts \/ UNCHANGED <<hnswVars, apiVars>>
  BY <1>1, <1>7 DEF Inserting, BgInserts, apiVars
<1>8. CASE BgWakes \/ BgFlushes \/ BgApplies \/ BgClears \/ BgRemoves \/ Destroy \/ Reopen \/ ApiCrash
  BY <1>1, <1>8 DEF BgWakes, BgFlushes, BgApplies, BgClears, BgRemoves, Destroy, Reopen, ApiCrash, NewLife, ApiFiles
<1> QED
  BY <1>1, <1>2, <1>3, <1>4, <1>5, <1>6, <1>7, <1>8, Zenon DEF ApiNext

\* What an index holds.
LEMMA ContentLemma ==
  ASSUME NEW h, IndexOk(h)
  PROVE  ContentOk(Content(h))
<1>1. \A l \in DOMAIN h.lookup : l \in AllLabels /\ h.lookup[l] \in DOMAIN h.nodes
  BY IndexParts DEF IndexOk, LookupOk
<1>2. \A l \in DOMAIN h.lookup : h.nodes[h.lookup[l]].vec \in Vectors
  BY <1>1, IndexParts
<1> QED
  BY <1>1, <1>2 DEF ContentOk, Content

\* The types, variable by variable.
LEMMA RecordLemma ==
  ASSUME ApiTypes, NEW l \in Labels, clock + 1 \in DOMAIN Coordinates
  PROVE  /\ Record(l) \in [label : Labels, vec : Vectors] /\ clock + 1 \in Vectors
         /\ Append(delta, Record(l)) \in Records /\ ContentOk(With(newest, l, clock + 1))
<1>1. clock + 1 \in Vectors
  BY DEF Vectors
<1>2. Record(l) \in [label : Labels, vec : Vectors]
  BY <1>1 DEF Record
<1>3. Append(delta, Record(l)) \in Records
  <2> DEFINE R == [label : Labels, vec : Vectors]
             r == Record(l)
  <2>1. delta \in Seq(R) /\ r \in R
    BY <1>2 DEF ApiTypes, Records
  <2> HIDE DEF R, r
  <2>2. Append(delta, r) \in Seq(R)
    BY <2>1
  <2> QED
    BY <2>2 DEF Records, R, r
<1>4. ContentOk(With(newest, l, clock + 1))
  <2>1. l \in AllLabels
    BY DEF AllLabels
  <2> QED
    BY <1>1, <2>1 DEF ApiTypes, ContentOk, With
<1> QED
  BY <1>1, <1>2, <1>3, <1>4

Logs == [records : Records, tail : {"whole", "torn", "garbled"}]
\* The delta file after a flush.
LEMMA AppendedLemma ==
  ASSUME log \in Logs, NEW s \in Records
  PROVE  Appended(s) \in Logs
<1>1. log.records \in Records /\ log.tail \in {"whole", "torn", "garbled"} /\ log = [records |-> log.records, tail |-> log.tail]
  BY DEF Logs
<1>2. log.records \o s \in Records
  BY <1>1 DEF Records
<1>3. [log EXCEPT !.records = @ \o s] = [records |-> log.records \o s, tail |-> log.tail]
  <2> DEFINE q == log.records \o s
  <2> HIDE DEF q
  <2>1. [log EXCEPT !.records = q] = [records |-> q, tail |-> log.tail]
    BY <1>1
  <2> QED
    BY <2>1 DEF q
<1>4. [log EXCEPT !.tail = "garbled"] = [records |-> log.records, tail |-> "garbled"]
  BY <1>1
<1> QED
  BY <1>1, <1>2, <1>3, <1>4 DEF Appended, Logs

\* The last place of a label in a batch.
IsLastPlace(batch, l, k) ==
  k \in 1 .. Len(batch) /\ batch[k] = l /\ \A j \in 1 .. Len(batch) : j > k => batch[j] # l
\* Which SelectLastInSeq finds.
LEMMA LastLemma ==
  ASSUME NEW batch, batch \in Seq(ToSet(batch)), NEW l \in ToSet(batch)
  PROVE  IsLastPlace(batch, l, LastPlace(batch, l))
<1> DEFINE I == {i \in 1 .. Len(batch) : batch[i] = l}
<1>1. I \in SUBSET (1 .. Len(batch)) /\ I # {} /\ Len(batch) \in Nat
  BY DEF ToSet
<1>2. Max(I) \in I /\ \A x \in I : x <= Max(I)
  <2> HIDE DEF I
  <2> QED
    BY <1>1, GreatestIndex
<1>3. LastPlace(batch, l) = Max(I)
  BY <1>1 DEF LastPlace, SelectLastInSeq
<1> DEFINE k == LastPlace(batch, l)
<1>4. k \in I /\ \A x \in I : x <= k
  BY <1>2, <1>3
<1> HIDE DEF k
<1> QED
  BY <1>1, <1>4 DEF IsLastPlace, k

\* A part of a flush.
LEMMA PrefixLemma ==
  ASSUME NEW S, NEW s \in Seq(S), NEW n \in 0 .. Len(s) - 1
  PROVE  SubSeq(s, 1, n) \in Seq(S)
<1>1. n \in Nat /\ n <= Len(s)
  OBVIOUS
<1>2. \A i \in 1 .. n : s[i] \in S
  BY <1>1
<1>3. SubSeq(s, 1, n) = [i \in 1 .. n |-> s[i]]
  BY <1>1
<1> QED
  BY <1>1, <1>2, <1>3

\* A step of the graph alone.
ApiSame ==
  /\ delta' = delta /\ bgMu' = bgMu /\ deltaMu' = deltaMu /\ bg' = bg /\ user' = user /\ stopBg' = stopBg
  /\ db' = db /\ log' = log /\ newest' = newest /\ kept' = kept /\ quiet' = quiet /\ clock' = clock /\ max' = max
\* It is what an insert's step leaves of the other variables.
LEMMA SameLemma == UNCHANGED apiVars => ApiSame
BY DEF apiVars, ApiSame
\* And it keeps the types.
LEMMA SameTypes == ApiTypes /\ ApiSame => ApiTypes'
BY DEF ApiTypes, ApiSame

\* The types, call by call.
LEMMA TypesKept ==
  ASSUME LifeInv, [ApiNext]_<<hnswVars, apiVars>>
  PROVE  ApiTypes'
<1>0. /\ ApiTypes /\ HnswInv /\ clock \in Nat /\ <<>> \in Records /\ delta \in Records
      /\ log \in Logs /\ log.records \in Records /\ EmptyLog \in Logs
      /\ ContentOk(Content(index)) /\ ContentOk(Nothing)
      /\ user \in [pc : {"idle", "inserting", "check", "lock", "merging", "remove", "open", "write", "replaying",
                          "done", "threw"},
                   call : {"none", "build", "consolidate", "save", "load"}]
  <2>1. <<>> \in Records
    BY WritersLemma
  <2> QED
    BY <2>1, ClockLemma, ContentLemma DEF LifeInv, ApiTypes, HnswInv, Logs, EmptyLog, ContentOk, Nothing
<1>1. ASSUME NEW l \in Labels, Insert(l) PROVE ApiTypes'
  <2>1. delta' \in Records /\ clock' \in Vectors /\ ContentOk(newest')
    BY <1>0, <1>1, RecordLemma DEF Insert
  <2>2. UNCHANGED <<bgMu, deltaMu, bg, user, stopBg, db, log, kept, quiet, max>>
    BY <1>1 DEF Insert, ApiFiles
  <2>3. stopBg' \in BOOLEAN /\ quiet' \in BOOLEAN
    BY <1>0, <2>2 DEF ApiTypes
  <2>4. max' \in Nat
    BY <1>0, <2>2 DEF ApiTypes
  <2>5. log' \in Logs
    BY <1>0, <2>2 DEF ApiTypes
  <2>6. user' = user /\ bg' = bg /\ bgMu' = bgMu /\ deltaMu' = deltaMu
    BY <1>0, <2>2 DEF ApiTypes
  <2>7. ContentOk(kept')
    BY <1>0, <2>2 DEF ApiTypes
  <2> QED
    BY <1>0, <2>1, <2>3, <2>4, <2>5, <2>6, <2>7 DEF ApiTypes, Logs
<1>2. ASSUME NEW batch \in Batches, Build(batch) PROVE ApiTypes'
  <2>1. /\ clock' = clock + Len(batch) /\ clock' \in DOMAIN Coordinates
        /\ newest' = [l \in ToSet(batch) \cup DOMAIN newest |->
                        IF l \in ToSet(batch) THEN clock + LastPlace(batch, l) ELSE newest[l]]
        /\ user' = [pc |-> "inserting", call |-> "build"]
        /\ UNCHANGED <<delta, bgMu, deltaMu, bg, stopBg, db, log, kept, quiet, max>>
    BY <1>2 DEF Build, Call, ApiFiles
  <2>2. \A l \in ToSet(batch) : l \in AllLabels /\ clock + LastPlace(batch, l) \in Vectors
    <3> TAKE l \in ToSet(batch)
    <3>1. IsLastPlace(batch, l, LastPlace(batch, l))
      BY <1>0, <2>1, BatchLemma, LastLemma
    <3> DEFINE k == LastPlace(batch, l)
    <3>2. k \in 1 .. Len(batch)
      BY <3>1 DEF IsLastPlace
    <3>3. \A j \in 0 .. Len(batch) : clock + j \in Vectors
      BY <1>0, <2>1, BatchLemma
    <3>4. ToSet(batch) \subseteq AllLabels
      BY <1>0, <2>1, BatchLemma
    <3> HIDE DEF k
    <3>5. k \in 0 .. Len(batch)
      BY <3>2
    <3> QED
      BY <3>3, <3>4, <3>5 DEF k
  <2>3. ContentOk(newest')
    BY <1>0, <2>1, <2>2 DEF ApiTypes, ContentOk
  <2> QED
    BY <1>0, <2>1, <2>3 DEF ApiTypes, Vectors
<1>3. CASE Inserting
  BY <1>0, <1>3, SameLemma, SameTypes DEF Inserting
<1>4. CASE BuildReturns
  BY <1>0, <1>4 DEF BuildReturns, ApiTypes, ApiFiles, Bounds, Goto, Call, Logs, LogAfterMerge, AfterMerge, apiVars, NewLife, AtRest
<1>5. CASE Consolidate
  <2>1. PICK name \in {"consolidate", "save"} : Call(name, "check")
    BY <1>5 DEF Consolidate
  <2>2. user' = [pc |-> "check", call |-> name]
    BY <2>1 DEF Call
  <2>3. UNCHANGED <<delta, bgMu, deltaMu, bg, stopBg, db, log, kept, quiet, newest, clock, max>>
    BY <1>5 DEF Consolidate, ApiFiles
  <2> QED
    BY <1>0, <2>2, <2>3 DEF ApiTypes
<1>6. CASE ConsolidateChecks
  BY <1>0, <1>6 DEF ConsolidateChecks, ApiTypes, ApiFiles, Bounds, Goto, Call, Logs, LogAfterMerge, AfterMerge, apiVars, NewLife, AtRest
<1>7. CASE ConsolidateLocks
  BY <1>0, <1>7 DEF ConsolidateLocks, ApiTypes, ApiFiles, Bounds, Goto, Call, Logs, LogAfterMerge, AfterMerge, apiVars, NewLife, AtRest
<1>8. CASE ConsolidateClears
  BY <1>0, <1>8 DEF ConsolidateClears, ApiTypes, ApiFiles, Bounds, Goto, Call, Logs, LogAfterMerge, AfterMerge, apiVars, NewLife, AtRest
<1>9. CASE ConsolidateRemoves
  BY <1>0, <1>9 DEF ConsolidateRemoves, ApiTypes, ApiFiles, Bounds, Goto, Call, Logs, LogAfterMerge, AfterMerge, apiVars, NewLife, AtRest
<1>10. CASE SaveOpens
  BY <1>0, <1>10 DEF SaveOpens, ApiTypes, ApiFiles, Bounds, Goto, Call, Logs, LogAfterMerge, AfterMerge, apiVars, NewLife, AtRest
<1>11. CASE SaveWrites
  BY <1>0, <1>11 DEF SaveWrites, ApiTypes, ApiFiles, Bounds, Goto, Call, Logs, LogAfterMerge, AfterMerge, apiVars, NewLife, AtRest
<1>12. CASE Throws
  BY <1>0, <1>12 DEF Throws, ApiTypes, ApiFiles, Bounds, Goto, Call, Logs, LogAfterMerge, AfterMerge, apiVars, NewLife, AtRest
<1>13. CASE Return
  BY <1>0, <1>13 DEF Return, ApiTypes, ApiFiles, Bounds, Goto, Call, Logs, LogAfterMerge, AfterMerge, apiVars, NewLife, AtRest
<1>14. CASE Load
  <2>1. PICK g \in Garbage : clock' = clock + Len(g) /\ clock' \in DOMAIN Coordinates
    BY <1>14 DEF Load
  <2>2. user' \in {[pc |-> "threw", call |-> "load"], [pc |-> "replaying", call |-> "load"]}
    BY <1>14 DEF Load, Call
  <2>3. UNCHANGED <<delta, bgMu, deltaMu, bg, stopBg, db, log, kept, quiet, newest, max>>
    BY <1>14 DEF Load, ApiFiles
  <2>4. clock' \in Vectors
    BY <2>1 DEF Vectors
  <2>5. stopBg' \in BOOLEAN /\ quiet' \in BOOLEAN /\ max' \in Nat
    BY <1>0, <2>3 DEF ApiTypes
  <2>6. delta' = delta /\ bg' = bg /\ bgMu' = bgMu /\ deltaMu' = deltaMu /\ log' \in Logs
    BY <1>0, <2>3 DEF ApiTypes
  <2>7. ContentOk(kept') /\ ContentOk(newest')
    BY <1>0, <2>3 DEF ApiTypes
  <2>8. user'.pc \in {"threw", "replaying"} /\ user'.call = "load" /\ user' = [pc |-> user'.pc, call |-> user'.call]
    BY <2>2
  <2>9. user' \in [pc : {"idle", "inserting", "check", "lock", "merging", "remove", "open", "write", "replaying",
                         "done", "threw"},
                  call : {"none", "build", "consolidate", "save", "load"}]
    BY <2>8
  <2> QED
    BY <1>0, <2>4, <2>5, <2>6, <2>7, <2>9 DEF ApiTypes, Logs
<1>15. CASE LoadReturns
  BY <1>0, <1>15 DEF LoadReturns, ApiTypes, ApiFiles, Bounds, Goto, Call, Logs, LogAfterMerge, AfterMerge, apiVars, NewLife, AtRest
<1>16. CASE BgWakes
  BY <1>0, <1>16 DEF BgWakes, ApiTypes, ApiFiles, Bounds, Goto, Call, Logs, LogAfterMerge, AfterMerge, apiVars, NewLife, AtRest
<1>17. CASE BgFlushes
  <2>1. log' \in Logs
    BY <1>0, <1>17, AppendedLemma DEF BgFlushes
  <2> QED
    BY <1>0, <1>17, <2>1 DEF BgFlushes, ApiTypes, ApiFiles, Bounds, Logs
<1>18. CASE BgApplies
  BY <1>0, <1>18 DEF BgApplies, ApiTypes, ApiFiles, Bounds, Goto, Call, Logs, LogAfterMerge, AfterMerge, apiVars, NewLife, AtRest
<1>19. CASE BgInserts
  BY <1>0, <1>19, SameLemma, SameTypes DEF BgInserts
<1>20. CASE BgClears
  BY <1>0, <1>20 DEF BgClears, ApiTypes, ApiFiles, Bounds, Goto, Call, Logs, LogAfterMerge, AfterMerge, apiVars, NewLife, AtRest
<1>21. CASE BgRemoves
  BY <1>0, <1>21 DEF BgRemoves, ApiTypes, ApiFiles, Bounds, Goto, Call, Logs, LogAfterMerge, AfterMerge, apiVars, NewLife, AtRest
<1>22. CASE Destroy
  BY <1>0, <1>22 DEF Destroy, ApiTypes, ApiFiles, Bounds, Goto, Call, Logs, LogAfterMerge, AfterMerge, apiVars, NewLife, AtRest
<1>23. CASE Reopen
  BY <1>0, <1>23 DEF Reopen, ApiTypes, ApiFiles, Bounds, Goto, Call, Logs, LogAfterMerge, AfterMerge, apiVars, NewLife, AtRest
<1>24. CASE ApiCrash
  <2>1. log' \in Logs
    <3>1. CASE UNCHANGED log
      BY <1>0, <3>1
    <3>2. ASSUME NEW n \in 0 .. Len(delta) - 1, NEW torn \in BOOLEAN,
                 log' = [Appended(SubSeq(delta, 1, n)) EXCEPT
                           !.tail = IF ~torn THEN @ ELSE IF log.tail = "whole" THEN "torn" ELSE "garbled"]
          PROVE  log' \in Logs
      <4> DEFINE a == Appended(SubSeq(delta, 1, n))
      <4>1. SubSeq(delta, 1, n) \in Records
        BY <1>0, PrefixLemma DEF Records
      <4>2. a \in Logs
        BY <1>0, <4>1, AppendedLemma
      <4> HIDE DEF a
      <4>3. [a EXCEPT !.tail = "torn"] \in Logs /\ [a EXCEPT !.tail = "garbled"] \in Logs /\ [a EXCEPT !.tail = @] \in Logs
        BY <4>2 DEF Logs
      <4>4. log' = [a EXCEPT !.tail = IF ~torn THEN @ ELSE IF log.tail = "whole" THEN "torn" ELSE "garbled"]
        BY <3>2 DEF a
      <4>5. log' \in {[a EXCEPT !.tail = "torn"], [a EXCEPT !.tail = "garbled"], [a EXCEPT !.tail = @]}
        BY <4>4
      <4> QED
        BY <4>3, <4>5
    <3> QED
      BY <1>24, <3>1, <3>2 DEF ApiCrash
  <2> QED
    BY <1>0, <1>24, <2>1 DEF ApiCrash, ApiTypes, NewLife, AtRest, Logs
<1>25. CASE UNCHANGED <<hnswVars, apiVars>>
  BY <1>0, <1>25, SameLemma, SameTypes
<1> QED
  BY <1>1, <1>2, <1>3, <1>4, <1>5, <1>6, <1>7, <1>8, <1>9, <1>10, <1>11, <1>12, <1>13, <1>14, <1>15, <1>16, <1>17, <1>18, <1>19, <1>20, <1>21, <1>22, <1>23, <1>24, <1>25, Zenon DEF ApiNext

\* Only the thread whose step it is has another insert after it.
OthersStay(t) == \A u \in Writers \ {t} : ins'[u] = ins[u]
\* So it does with a new sequence of records, and with a step.
LEMMA OthersLemma ==
  ASSUME HnswInv, NEW t \in Writers, NEW todo, Begin(t, todo) \/ InsertStep(t)
  PROVE  OthersStay(t)
<1>1. DOMAIN ins = Writers
  BY DEF HnswInv
<1>2. CASE Begin(t, todo)
  BY <1>1, <1>2 DEF Begin, OthersStay
<1>3. CASE InsertStep(t)
  BY <1>1, <1>3, InsertStepOk DEF StepOk, OthersStay
<1> QED
  BY <1>2, <1>3

\* Who is where, call by call.
LEMMA ControlKept ==
  ASSUME LifeInv, [ApiNext]_<<hnswVars, apiVars>>
  PROVE  Control'
<1>0. /\ Control /\ HnswInv /\ USER \in Writers /\ BG \in Writers /\ USER # BG /\ USER # "" /\ BG # ""
      /\ user = [pc |-> user.pc, call |-> user.call]
  BY WritersLemma DEF LifeInv, ApiTypes, USER, BG
<1>1. ASSUME NEW l \in Labels, Insert(l) PROVE Control'
  <2>1. newest' # Nothing
    <3>1. l \in DOMAIN newest'
      BY <1>1 DEF Insert, With
    <3> QED
      BY <3>1 DEF Nothing
  <2> QED
    BY <1>0, <1>1, <2>1 DEF Insert, Control, ApiFiles, hnswVars, AtRest, Merging, Working
<1>2. ASSUME NEW batch \in Batches, Build(batch) PROVE Control'
  <2>1. OthersStay(USER)
    BY <1>0, <1>2, OthersLemma DEF Build
  <2>2. newest' = Nothing => newest = Nothing
    <3>1. DOMAIN newest \subseteq DOMAIN newest'
      BY <1>2 DEF Build
    <3>2. newest = [l \in DOMAIN newest |-> newest[l]]
      BY DEF LifeInv, ApiTypes, ContentOk
    <3>3. newest' = Nothing => DOMAIN newest = {}
      BY <3>1 DEF Nothing
    <3> QED
      BY <3>2, <3>3 DEF Nothing
  <2>3. user' = [pc |-> "inserting", call |-> "build"] /\ user = AtRest /\ ~stopBg
        /\ UNCHANGED <<delta, bgMu, deltaMu, bg, stopBg>>
    BY <1>2 DEF Build, Call
  <2> QED
    BY <1>0, <2>1, <2>2, <2>3 DEF Control, AtRest, Merging, Working, OthersStay
<1>3. CASE Inserting
  <2>1. OthersStay(USER)
    BY <1>0, <1>3, OthersLemma DEF Inserting
  <2>2. ApiSame
    BY <1>3, SameLemma DEF Inserting
  <2> QED
    BY <1>0, <1>3, <2>1, <2>2 DEF Inserting, Control, Merging, Working, OthersStay, ApiSame
<1>4. CASE BuildReturns
  BY <1>0, <1>4 DEF BuildReturns, Control, ApiFiles, Bounds, Goto, Call, AfterMerge, NewLife, AtRest, Merging, Working, hnswVars
<1>5. CASE Consolidate
  <2>1. PICK name \in {"consolidate", "save"} : Call(name, "check")
    BY <1>5 DEF Consolidate
  <2>2. user' = [pc |-> "check", call |-> name] /\ user = AtRest /\ ~stopBg
    BY <2>1 DEF Call
  <2>3. UNCHANGED <<ins, delta, bgMu, deltaMu, bg, stopBg, newest>>
    BY <1>5 DEF Consolidate, hnswVars
  <2> QED
    BY <1>0, <2>2, <2>3 DEF Control, AtRest, Merging, Working
<1>6. CASE ConsolidateChecks
  BY <1>0, <1>6 DEF ConsolidateChecks, Control, ApiFiles, Bounds, Goto, Call, AfterMerge, NewLife, AtRest, Merging, Working, hnswVars
<1>7. CASE ConsolidateLocks
  <2>1. OthersStay(USER)
    BY <1>0, <1>7, OthersLemma DEF ConsolidateLocks
  <2> QED
    BY <1>0, <1>7, <2>1 DEF ConsolidateLocks, Control, ApiFiles, Bounds, Goto, Call, AfterMerge, NewLife, AtRest, Merging, Working, hnswVars, OthersStay
<1>8. CASE ConsolidateClears
  BY <1>0, <1>8 DEF ConsolidateClears, Control, ApiFiles, Bounds, Goto, Call, AfterMerge, NewLife, AtRest, Merging, Working, hnswVars
<1>9. CASE ConsolidateRemoves
  BY <1>0, <1>9 DEF ConsolidateRemoves, Control, ApiFiles, Bounds, Goto, Call, AfterMerge, NewLife, AtRest, Merging, Working, hnswVars
<1>10. CASE SaveOpens
  BY <1>0, <1>10 DEF SaveOpens, Control, ApiFiles, Bounds, Goto, Call, AfterMerge, NewLife, AtRest, Merging, Working, hnswVars
<1>11. CASE SaveWrites
  BY <1>0, <1>11 DEF SaveWrites, Control, ApiFiles, Bounds, Goto, Call, AfterMerge, NewLife, AtRest, Merging, Working, hnswVars
<1>12. CASE Throws
  <2>1. OthersStay(USER) /\ ins'[USER] = Idle
    BY <1>0, <1>12, OthersLemma DEF Throws, Begin, Idle, HnswInv
  <2>2. user' = [pc |-> "threw", call |-> user.call] /\ user.pc \in {"inserting", "merging", "replaying"}
    BY <1>0, <1>12 DEF Throws, Goto
  <2>3. /\ bgMu' = (IF bgMu = USER THEN "" ELSE bgMu) /\ deltaMu' = (IF deltaMu = USER THEN "" ELSE deltaMu)
        /\ UNCHANGED <<delta, bg, stopBg, newest>>
    BY <1>12 DEF Throws
  <2>4. ~Working(USER)'
    BY <2>1 DEF Working, Idle
  <2> QED
    BY <1>0, <2>1, <2>2, <2>3, <2>4 DEF Control, Merging, Working, OthersStay
<1>13. CASE Return
  BY <1>0, <1>13 DEF Return, Control, ApiFiles, Bounds, Goto, Call, AfterMerge, NewLife, AtRest, Merging, Working, hnswVars
<1>14. CASE Load
  <2>1. OthersStay(USER)
    BY <1>0, <1>14, OthersLemma DEF Load
  <2>2. user = AtRest /\ ~stopBg /\ newest = Nothing /\ UNCHANGED <<delta, bgMu, deltaMu, bg, stopBg, newest>>
    BY <1>14 DEF Load, Call
  <2>3. \/ user' = [pc |-> "replaying", call |-> "load"]
        \/ user' = [pc |-> "threw", call |-> "load"] /\ ~Working(USER)'
    <3>1. CASE db.kind = "torn"
      <4>1. ins'[USER] = [pc |-> "idle", todo |-> <<>>]
        BY <1>0, <1>14, <3>1 DEF Load, Begin, HnswInv
      <4> QED
        BY <1>14, <3>1, <4>1 DEF Load, Call, Working
    <3>2. CASE db.kind # "torn"
      BY <1>14, <3>2 DEF Load, Call
    <3> QED
      BY <3>1, <3>2
  <2>4. /\ bg' = "wait" /\ delta' = <<>> /\ ~stopBg' /\ newest' = Nothing
        /\ bgMu' \notin {USER, BG} /\ deltaMu' \notin {USER, BG}
    BY <1>0, <2>2 DEF Control, AtRest, Merging
  <2>5. ~Working(BG)' /\ \A t \in Writers \ {USER, BG} : ins'[t] = Idle
    BY <1>0, <2>1, <2>2, <2>4 DEF Control, OthersStay, Working
  <2>6. CASE user' = [pc |-> "replaying", call |-> "load"]
    <3>1. user'.pc = "replaying" /\ user'.call = "load"
      BY <2>6
    <3> QED
      BY <1>0, <2>4, <2>5, <3>1 DEF Control, Merging
  <2>7. CASE user' = [pc |-> "threw", call |-> "load"] /\ ~Working(USER)'
    <3>1. user'.pc = "threw" /\ user'.call = "load"
      BY <2>7
    <3> QED
      BY <1>0, <2>4, <2>5, <2>7, <3>1 DEF Control, Merging
  <2> QED
    BY <2>3, <2>6, <2>7
<1>15. CASE LoadReturns
  BY <1>0, <1>15 DEF LoadReturns, Control, ApiFiles, Bounds, Goto, Call, AfterMerge, NewLife, AtRest, Merging, Working, hnswVars
<1>16. CASE BgWakes
  BY <1>0, <1>16 DEF BgWakes, Control, ApiFiles, Bounds, Goto, Call, AfterMerge, NewLife, AtRest, Merging, Working, hnswVars
<1>17. CASE BgFlushes
  BY <1>0, <1>17 DEF BgFlushes, Control, ApiFiles, Bounds, Goto, Call, AfterMerge, NewLife, AtRest, Merging, Working, hnswVars
<1>18. CASE BgApplies
  <2>1. OthersStay(BG)
    BY <1>0, <1>18, OthersLemma DEF BgApplies
  <2> QED
    BY <1>0, <1>18, <2>1 DEF BgApplies, Control, ApiFiles, Bounds, Goto, Call, AfterMerge, NewLife, AtRest, Merging, Working, hnswVars, OthersStay
<1>19. CASE BgInserts
  <2>1. OthersStay(BG)
    BY <1>0, <1>19, OthersLemma DEF BgInserts
  <2>2. ApiSame
    BY <1>19, SameLemma DEF BgInserts
  <2> QED
    BY <1>0, <1>19, <2>1, <2>2 DEF BgInserts, Control, Merging, Working, OthersStay, ApiSame
<1>20. CASE BgClears
  BY <1>0, <1>20 DEF BgClears, Control, ApiFiles, Bounds, Goto, Call, AfterMerge, NewLife, AtRest, Merging, Working, hnswVars
<1>21. CASE BgRemoves
  BY <1>0, <1>21 DEF BgRemoves, Control, ApiFiles, Bounds, Goto, Call, AfterMerge, NewLife, AtRest, Merging, Working, hnswVars
<1>22. CASE Destroy
  BY <1>0, <1>22 DEF Destroy, Control, ApiFiles, Bounds, Goto, Call, AfterMerge, NewLife, AtRest, Merging, Working, hnswVars
<1>23. CASE Reopen
  BY <1>0, <1>23 DEF Reopen, Control, ApiFiles, Bounds, Goto, Call, AfterMerge, NewLife, AtRest, Merging, Working, hnswVars, Idle
<1>24. CASE ApiCrash
  BY <1>0, <1>24 DEF ApiCrash, Control, ApiFiles, Bounds, Goto, Call, AfterMerge, NewLife, AtRest, Merging, Working, hnswVars, Idle
<1>25. CASE UNCHANGED <<hnswVars, apiVars>>
  <2>1. ApiSame /\ ins' = ins
    BY <1>25, SameLemma DEF hnswVars
  <2> QED
    BY <1>0, <2>1 DEF ApiSame, Control, Merging, Working
<1> QED
  BY <1>1, <1>2, <1>3, <1>4, <1>5, <1>6, <1>7, <1>8, <1>9, <1>10, <1>11, <1>12, <1>13, <1>14, <1>15, <1>16, <1>17, <1>18, <1>19, <1>20, <1>21, <1>22, <1>23, <1>24, <1>25, Zenon DEF ApiNext

\* A new object over no files.
LEMMA LifeInit == ApiInit => LifeInv
<1> SUFFICES ASSUME ApiInit PROVE LifeInv
  OBVIOUS
<1>1. max \in Nat
  BY PowerlawAssumption DEF ApiInit
<1>2. \A t \in Writers : ins[t] = Idle
  BY DEF ApiInit
<1>3. HnswInv
  <2>1. IndexOk(index)
    BY <1>1, NewIndexLemma DEF ApiInit
  <2>2. <<>> \in Todos
    BY WritersLemma
  <2>3. \A t \in Writers : InsertOk(index, ins[t]) /\ ins[t].pc = "idle"
    BY <1>2, <2>2, ToDoLemma DEF Idle
  <2> QED
    BY <2>1, <2>3 DEF HnswInv, ElementsApart, ApiInit
<1>4. ApiTypes
  <2>1. <<>> \in Records /\ EmptyLog \in Logs
    BY WritersLemma DEF EmptyLog, Logs
  <2>2. 0 \in Vectors /\ ContentOk(Nothing)
    BY HnswAssumption DEF Vectors, ContentOk, Nothing
  <2> QED
    BY <1>1, <2>1, <2>2 DEF ApiInit, ApiTypes, AtRest, Logs
<1>5. Control
  <2>1. USER # "" /\ BG # "" /\ USER \in Writers /\ BG \in Writers
    BY WritersLemma DEF USER, BG
  <2> QED
    BY <1>2, <2>1 DEF ApiInit, Control, AtRest, Merging, Working, Idle
<1>6. FileOk
  BY DEF ApiInit, FileOk
<1> QED
  BY <1>3, <1>4, <1>5, <1>6 DEF LifeInv

\* Every step of either thread keeps the invariant.
LEMMA LifeStep == LifeInv /\ [ApiNext]_<<hnswVars, apiVars>> => LifeInv'
<1> SUFFICES ASSUME LifeInv, [ApiNext]_<<hnswVars, apiVars>> PROVE LifeInv'
  OBVIOUS
<1> QED
  BY GraphKept, TypesKept, ControlKept, FileKept DEF LifeInv

\* hnsw_index_t: the lists every search and insert comes to were allocated and are not longer than
\* max_m_ allows, whichever threads insert and whenever a process crashes and loads its files.
THEOREM AllocatedLists == ApiSpec => []ListsStayAllocated
<1>1. LifeInv => ListsStayAllocated
  BY ListsLemma DEF LifeInv
<1> QED
  BY LifeInit, LifeStep, <1>1, PTL DEF ApiSpec

-----------------------------------------------------------------------------
(***************************************************************************)
(* What the index holds.  A step of an insert changes the vector of its    *)
(* own label alone, and when the insert is done the label has it.          *)
(***************************************************************************)
\* An element that was filled in has the vector its insert was called with.
Wrote(h, i) == i.pc \notin {"idle", "fill"} => h.nodes[i.id].vec = Head(i.todo).vec
\* The index has the vector of a label.
Has(h, l, v) == l \in DOMAIN h.lookup /\ h.nodes[h.lookup[l]].vec = v
\* What a step of the insert i makes of the vectors of h.
Grows(h, g, i) ==
  /\ DOMAIN g.nodes = DOMAIN h.nodes
  /\ \A n \in DOMAIN h.nodes : g.nodes[n].vec = h.nodes[n].vec \/ g.nodes[n].vec = Head(i.todo).vec
  /\ \A l \in DOMAIN g.lookup : l \in DOMAIN h.lookup \/ l = Head(i.todo).label
VecsTo(h, g, i, j) ==
  /\ \A l \in DOMAIN h.lookup : l # Head(i.todo).label => g.nodes[h.lookup[l]].vec = h.nodes[h.lookup[l]].vec
  /\ \/ j.todo = i.todo
     \/ j.todo = Tail(i.todo) /\ Has(g, Head(i.todo).label, Head(i.todo).vec)
  /\ Wrote(g, j)
  /\ Grows(h, g, i)

\* An element's vector changes, or the element, or only its links.
SameVec(h, g, x) == g.nodes[x].vec = h.nodes[x].vec
VecsBut(h, g, n) ==
  g.lookup = h.lookup /\ DOMAIN g.nodes = DOMAIN h.nodes /\ \A x \in DOMAIN h.nodes : x # n => SameVec(h, g, x)
NodeSet(h, g, n, node) == VecsBut(h, g, n) /\ g.nodes[n] = node
VecSet(h, g, n, vec) == VecsBut(h, g, n) /\ g.nodes[n].vec = vec
\* An element written.
LEMMA VecOfNode ==
  ASSUME NEW h, IndexOk(h), NEW n \in DOMAIN h.nodes, NEW node, NEW g, g = [h EXCEPT !.nodes[n] = node]
  PROVE  NodeSet(h, g, n, node)
<1>1. /\ h = [nodes |-> h.nodes, count |-> h.count, lookup |-> h.lookup, entry |-> h.entry, top |-> h.top]
      /\ h.nodes = [x \in DOMAIN h.nodes |-> h.nodes[x]]
  BY DEF IndexOk
<1>2. g.lookup = h.lookup /\ g.nodes = [h.nodes EXCEPT ![n] = node]
  BY <1>1
<1> QED
  BY <1>1, <1>2 DEF SameVec, VecsBut, NodeSet

\* A vector written in place.
LEMMA VecOfVec ==
  ASSUME NEW h, IndexOk(h), NEW n \in DOMAIN h.nodes, NEW vec, NEW g, g = [h EXCEPT !.nodes[n].vec = vec]
  PROVE  VecSet(h, g, n, vec)
<1> DEFINE node == [h.nodes[n] EXCEPT !.vec = vec]
<1>1. node.vec = vec
  BY DEF IndexOk, NodeOk
<1>2. g = [h EXCEPT !.nodes[n] = node]
  OBVIOUS
<1> HIDE DEF node
<1>3. NodeSet(h, g, n, node)
  BY <1>2, VecOfNode, Zenon
<1> QED
  BY <1>1, <1>3 DEF NodeSet, VecSet

\* A list of links written.
LEMMA VecOfLinks ==
  ASSUME NEW h, IndexOk(h), NEW n \in DOMAIN h.nodes, NEW links, NEW g, g = [h EXCEPT !.nodes[n].links = links]
  PROVE  g.lookup = h.lookup /\ DOMAIN g.nodes = DOMAIN h.nodes /\ \A x \in DOMAIN h.nodes : SameVec(h, g, x)
<1> DEFINE node == [h.nodes[n] EXCEPT !.links = links]
<1>1. node.vec = h.nodes[n].vec
  <2> DEFINE old == h.nodes[n]
  <2>1. old = [label |-> old.label, vec |-> old.vec, level |-> old.level, links |-> old.links]
    BY DEF IndexOk, NodeOk
  <2> HIDE DEF old
  <2>2. [old EXCEPT !.links = links].vec = old.vec
    BY <2>1
  <2> QED
    BY <2>2 DEF old
<1>2. g = [h EXCEPT !.nodes[n] = node]
  OBVIOUS
<1> HIDE DEF node
<1>3. NodeSet(h, g, n, node)
  BY <1>2, VecOfNode, Zenon
<1> QED
  BY <1>1, <1>3 DEF SameVec, VecsBut, NodeSet

\* A label's element is its own.
LEMMA OwnElement ==
  ASSUME NEW h, IndexOk(h), NEW l \in DOMAIN h.lookup
  PROVE  /\ h.lookup[l] \in DOMAIN h.nodes /\ h.lookup[l] \in 0 .. h.count - 1
         /\ \A k \in DOMAIN h.lookup : k # l => h.lookup[k] # h.lookup[l]
BY DEF IndexOk, LookupOk

\* A known label gets its vector.
LEMMA KnownVecs ==
  ASSUME NEW h, IndexOk(h), NEW i, InsertOk(h, i), Head(i.todo).label \in DOMAIN h.lookup, NEW g,
         g = [h EXCEPT !.nodes[h.lookup[Head(i.todo).label]].vec = Head(i.todo).vec]
  PROVE  VecsTo(h, g, i, [pc |-> "idle", todo |-> Tail(i.todo)])
<1> DEFINE l == Head(i.todo).label
           n == h.lookup[l]
           j == [pc |-> "idle", todo |-> Tail(i.todo)]
<1>1. n \in DOMAIN h.nodes /\ \A k \in DOMAIN h.lookup : k # l => h.lookup[k] # n /\ h.lookup[k] \in DOMAIN h.nodes
  BY OwnElement
<1>2. VecSet(h, g, n, Head(i.todo).vec)
  <2> DEFINE vec == Head(i.todo).vec
  <2>1. g = [h EXCEPT !.nodes[n].vec = vec]
    OBVIOUS
  <2> HIDE DEF n, vec
  <2> QED
    BY <1>1, <2>1, VecOfVec, Zenon DEF vec
<1>3. \A k \in DOMAIN h.lookup : k # l => g.nodes[h.lookup[k]].vec = h.nodes[h.lookup[k]].vec
  <2> HIDE DEF n, l
  <2> QED
    BY <1>1, <1>2 DEF SameVec, VecsBut, VecSet
<1>4. Has(g, l, Head(i.todo).vec)
  <2> HIDE DEF l
  <2> QED
    BY <1>2 DEF Has, VecsBut, VecSet, l
<1>5. Wrote(g, j) /\ j.todo = Tail(i.todo)
  BY DEF Wrote
<1>7. Grows(h, g, i)
  <2> HIDE DEF n, l
  <2> QED
    BY <1>2 DEF Grows, VecSet, VecsBut, SameVec
<1> HIDE DEF j
<1>6. VecsTo(h, g, i, j)
  BY <1>3, <1>4, <1>5, <1>7 DEF VecsTo
<1> QED
  BY <1>6 DEF j

\* A new element gets its vector.
LEMMA FillVecs ==
  ASSUME NEW h, IndexOk(h), NEW i, InsertOk(h, i), i.pc = "fill", NEW node, node.vec = Head(i.todo).vec, NEW g,
         g = [h EXCEPT !.nodes[i.id] = node],
         NEW j, j = [i EXCEPT !.pc = IF i.id = 0 THEN "first" ELSE "enter"]
  PROVE  VecsTo(h, g, i, j)
<1>1. i.id \in 0 .. h.count - 1 /\ Head(i.todo).label \in DOMAIN h.lookup /\ h.lookup[Head(i.todo).label] = i.id
  BY DEF InsertOk
<1>2. \A k \in DOMAIN h.lookup : k # Head(i.todo).label => h.lookup[k] # i.id /\ h.lookup[k] \in DOMAIN h.nodes
  BY <1>1, OwnElement
<1>3. i.id \in DOMAIN h.nodes
  BY <1>1, OwnElement
<1>4. NodeSet(h, g, i.id, node)
  BY <1>3, VecOfNode, Zenon
<1>5. j.todo = i.todo /\ j.id = i.id
  BY InsertParts
<1>6. Grows(h, g, i)
  BY <1>3, <1>4 DEF Grows, NodeSet, VecsBut, SameVec
<1> QED
  BY <1>2, <1>4, <1>5, <1>6 DEF VecsTo, Wrote, SameVec, VecsBut, NodeSet

\* A new label gets an element.
LEMMA NewVecs ==
  ASSUME NEW h, IndexOk(h), NEW i, Head(i.todo).label \notin DOMAIN h.lookup, NEW g,
         g = [h EXCEPT !.count = @ + 1, !.lookup = With(@, Head(i.todo).label, h.count)]
  PROVE  VecsTo(h, g, i, [pc |-> "fill", todo |-> i.todo, id |-> h.count])
<1> DEFINE j == [pc |-> "fill", todo |-> i.todo, id |-> h.count]
           w == With(h.lookup, Head(i.todo).label, h.count)
<1>1. h = [nodes |-> h.nodes, count |-> h.count, lookup |-> h.lookup, entry |-> h.entry, top |-> h.top]
  BY DEF IndexOk
<1>2. g = [h EXCEPT !.count = @ + 1, !.lookup = w]
  OBVIOUS
<1>6. DOMAIN w = DOMAIN h.lookup \cup {Head(i.todo).label}
  BY DEF With
<1> HIDE DEF w
<1>3. g.nodes = h.nodes /\ g.lookup = w
  BY <1>1, <1>2
<1>7. Grows(h, g, i)
  BY <1>3, <1>6 DEF Grows
<1>4. j.todo = i.todo /\ Wrote(g, j)
  BY DEF Wrote
<1> HIDE DEF j
<1>5. VecsTo(h, g, i, j)
  BY <1>3, <1>4, <1>7 DEF VecsTo
<1> QED
  BY <1>5 DEF j

\* The steps after the element was filled in.
LEMMA GoOnVecs ==
  ASSUME NEW h, IndexOk(h), NEW i, InsertOk(h, i), Wrote(h, i), i.pc \notin {"idle", "fill"}, NEW g,
         g.lookup = h.lookup, DOMAIN g.nodes = DOMAIN h.nodes, \A x \in DOMAIN h.nodes : SameVec(h, g, x), NEW j,
         (j.todo = i.todo /\ j.id = i.id) \/ (j.todo = Tail(i.todo) /\ j.pc = "idle")
  PROVE  VecsTo(h, g, i, j)
<1>1. i.id \in 0 .. h.count - 1 /\ Head(i.todo).label \in DOMAIN h.lookup /\ h.lookup[Head(i.todo).label] = i.id
  BY DEF InsertOk
<1>2. \A l \in DOMAIN h.lookup : h.lookup[l] \in DOMAIN h.nodes
  BY OwnElement
<1>3. h.nodes[i.id].vec = Head(i.todo).vec
  BY DEF Wrote
<1>4. g.nodes[i.id].vec = Head(i.todo).vec
  BY <1>1, <1>2, <1>3 DEF SameVec
<1>5. \A l \in DOMAIN h.lookup : g.nodes[h.lookup[l]].vec = h.nodes[h.lookup[l]].vec
  BY <1>2 DEF SameVec
<1>6. Grows(h, g, i)
  BY DEF Grows, SameVec
<1> QED
  BY <1>1, <1>4, <1>5, <1>6 DEF VecsTo, Has, Wrote

\* Every step of an insert.
LEMMA InsertStepVecs ==
  ASSUME HnswInv, NEW t \in Writers, InsertStep(t), Wrote(index, ins[t])
  PROVE  VecsTo(index, index', ins[t], ins'[t])
<1> DEFINE i == ins[t]
           h == index
           done == [pc |-> "idle", todo |-> Tail(i.todo)]
<1>1. IndexOk(h) /\ InsertOk(h, i) /\ DOMAIN ins = Writers
  BY DEF HnswInv
<1>2. CASE Reserve(t)
  <2>1. CASE Head(i.todo).label \in DOMAIN h.lookup
    <3>1. index' = [h EXCEPT !.nodes[h.lookup[Head(i.todo).label]].vec = Head(i.todo).vec] /\ ins'[t] = done
      BY <1>1, <1>2, <2>1 DEF Reserve, Done, Begin
    <3>2. VecsTo(h, index', i, done)
      BY <1>1, <2>1, <3>1, KnownVecs, Zenon
    <3> QED
      BY <3>1, <3>2, Zenon
  <2>2. CASE Head(i.todo).label \notin DOMAIN h.lookup
    <3> DEFINE j == [pc |-> "fill", todo |-> i.todo, id |-> h.count]
    <3>1. index' = [h EXCEPT !.count = @ + 1, !.lookup = With(@, Head(i.todo).label, h.count)] /\ ins'[t] = j
      BY <1>1, <1>2, <2>2 DEF Reserve
    <3>2. VecsTo(h, index', i, j)
      BY <1>1, <2>2, <3>1, NewVecs, Zenon
    <3> QED
      BY <3>1, <3>2, Zenon
  <2> QED
    BY <2>1, <2>2
<1>3. CASE FillElement(t)
  <2>1. PICK level \in 0 .. MaxLevel :
          /\ index' = [h EXCEPT !.nodes[i.id] = [label |-> Head(i.todo).label, vec |-> Head(i.todo).vec, level |-> level,
                                                 links |-> [l \in 0 .. level |-> <<>>]]]
          /\ ins' = [ins EXCEPT ![t].pc = IF i.id = 0 THEN "first" ELSE "enter"]
    BY <1>3 DEF FillElement
  <2> DEFINE j == [i EXCEPT !.pc = IF i.id = 0 THEN "first" ELSE "enter"]
             node == [label |-> Head(i.todo).label, vec |-> Head(i.todo).vec, level |-> level,
                      links |-> [l \in 0 .. level |-> <<>>]]
  <2>2. ins'[t] = j /\ i.pc = "fill"
    BY <1>1, <1>3, <2>1 DEF FillElement
  <2>3. node.vec = Head(i.todo).vec /\ index' = [h EXCEPT !.nodes[i.id] = node]
    BY <2>1
  <2> HIDE DEF node
  <2>4. VecsTo(h, index', i, j)
    BY <1>1, <2>2, <2>3, FillVecs, Zenon
  <2> QED
    BY <2>2, <2>4, Zenon
<1>4. CASE BecomeFirst(t) \/ RaiseTop(t)
  <2>1. i.pc \notin {"idle", "fill"} /\ ins'[t] = done
    BY <1>1, <1>4 DEF BecomeFirst, RaiseTop, Done, Begin
  <2>2. index'.lookup = h.lookup /\ index'.nodes = h.nodes
    <3>1. h = [nodes |-> h.nodes, count |-> h.count, lookup |-> h.lookup, entry |-> h.entry, top |-> h.top]
      BY <1>1 DEF IndexOk
    <3>2. CASE BecomeFirst(t)
      BY <3>1, <3>2 DEF BecomeFirst
    <3>3. CASE RaiseTop(t)
      BY <3>1, <3>3 DEF RaiseTop
    <3> QED
      BY <1>4, <3>2, <3>3
  <2>3. ins'[t].todo = Tail(i.todo) /\ ins'[t].pc = "idle"
    BY <2>1
  <2>4. \A x \in DOMAIN h.nodes : SameVec(h, index', x)
    BY <2>2 DEF SameVec
  <2> QED
    BY <1>1, <2>1, <2>2, <2>3, <2>4, GoOnVecs
<1>5. CASE Enter(t)
  <2>1. i.pc = "enter" /\ index' = h
    BY <1>5 DEF Enter
  <2>2. ins'[t].todo = i.todo /\ ins'[t].id = i.id
    BY <1>1, <1>5 DEF Enter
  <2>3. \A x \in DOMAIN h.nodes : SameVec(h, index', x)
    BY <2>1 DEF SameVec
  <2> QED
    BY <1>1, <2>1, <2>2, <2>3, GoOnVecs
<1>6. ASSUME Choose(t) \/ Backlink(t)
      PROVE  VecsTo(index, index', ins[t], ins'[t])
  <2>1. i.pc \in {"choose", "back"} /\ ins'[t].todo = i.todo /\ ins'[t].id = i.id
    <3>1. i = [pc |-> i.pc, todo |-> i.todo, id |-> i.id, ep |-> i.ep, top |-> i.top, at |-> i.at, rest |-> i.rest]
      BY <1>1, <1>6, InsertParts DEF Choose, Backlink
    <3>2. CASE Choose(t)
      BY <1>1, <3>1, <3>2 DEF Choose
    <3>3. CASE Backlink(t)
      BY <1>1, <3>1, <3>3 DEF Backlink
    <3> QED
      BY <1>6, <3>2, <3>3
  <2>2. \E n \in DOMAIN h.nodes : \E links : index' = [h EXCEPT !.nodes[n].links = links]
    <3>1. CASE Choose(t)
      <4>1. i.id \in DOMAIN h.nodes
        BY <1>1, <2>1, IndexParts DEF InsertOk
      <4> QED
        BY <3>1, <4>1 DEF Choose
    <3>2. CASE Backlink(t)
      <4>1. i.rest # <<>> /\ i.rest \in Seq(Nat) /\ ToSet(i.rest) \subseteq At(h, i.at)
        BY <1>1, <3>2, InsertParts DEF Backlink, InsertOk
      <4>2. Head(i.rest) \in ToSet(i.rest)
        BY <4>1 DEF ToSet
      <4>3. Head(i.rest) \in DOMAIN h.nodes
        BY <1>1, <4>1, <4>2, AtLemma
      <4> QED
        BY <3>2, <4>3 DEF Backlink
    <3> QED
      BY <1>6, <3>1, <3>2
  <2>3. PICK n \in DOMAIN h.nodes : \E links : index' = [h EXCEPT !.nodes[n].links = links]
    BY <2>2
  <2>4. PICK links : index' = [h EXCEPT !.nodes[n].links = links]
    BY <2>3
  <2>5. /\ index'.lookup = h.lookup /\ DOMAIN index'.nodes = DOMAIN h.nodes
        /\ \A x \in DOMAIN h.nodes : SameVec(h, index', x)
    BY <1>1, <2>4, VecOfLinks
  <2> QED
    BY <1>1, <2>1, <2>5, GoOnVecs
<1> QED
  BY <1>2, <1>3, <1>4, <1>5, <1>6 DEF InsertStep


-----------------------------------------------------------------------------
(***************************************************************************)
(* Where the newest vector of a label is.                                  *)
(***************************************************************************)
\* What a sequence of records leaves of a label.
LabelsIn(s) == {s[i].label : i \in DOMAIN s}
IsLast(s, l, v) ==
  \E i \in DOMAIN s : s[i].label = l /\ s[i].vec = v /\ \A j \in DOMAIN s : j > i => s[j].label # l

\* The vector of a label is still to be inserted, or the index has it.
Pending(h, todo, l, v) == IsLast(todo, l, v) \/ (l \notin LabelsIn(todo) /\ Has(h, l, v))

\* Of the records src those in todo are still to be inserted.
InsertedFrom(h, src, todo) ==
  /\ LabelsIn(todo) \subseteq LabelsIn(src)
  /\ \A l \in Labels, v \in Vectors : IsLast(src, l, v) => Pending(h, todo, l, v)

InsertsWritten == \A t \in {USER, BG} : Wrote(index, ins[t])
MergesGoOn ==
  /\ user.pc = "merging" => InsertedFrom(index, delta, ins[USER].todo)
  /\ bg = "merging" => InsertedFrom(index, delta, ins[BG].todo)
  /\ user.pc = "inserting" => LabelsIn(ins[USER].todo) \cap Labels = {}

\* Every label handed over has its newest vector in the buffer, in what build still has to
\* insert, or in the index.
NewestIsSomewhere ==
  user.pc # "threw" =>
    \A l \in DOMAIN newest :
      IsLast(delta, l, newest[l]) \/ (l \notin LabelsIn(delta) /\ Pending(index, ins[USER].todo, l, newest[l]))

MergeInv == LifeInv /\ InsertsWritten /\ MergesGoOn /\ NewestIsSomewhere

\* What a sequence leaves of a label is in it, and nothing is left by an empty one.
LEMMA LastIn ==
  ASSUME NEW s, NEW l, NEW v, IsLast(s, l, v)
  PROVE  l \in LabelsIn(s)
BY DEF IsLast, LabelsIn

\* An empty sequence leaves nothing.
LEMMA NoneLast == LabelsIn(<<>>) = {} /\ \A l, v : ~IsLast(<<>>, l, v)
BY DEF IsLast, LabelsIn

\* Without its first record.
LEMMA TailLast ==
  ASSUME NEW R, NEW s \in Seq(R), s # <<>>
  PROVE  /\ LabelsIn(Tail(s)) \subseteq LabelsIn(s) /\ Head(s).label \in LabelsIn(s)
         /\ \A l \in LabelsIn(s) : l \in LabelsIn(Tail(s)) \/ l = Head(s).label
         /\ \A l, v : IsLast(s, l, v) =>
              IsLast(Tail(s), l, v) \/ (l = Head(s).label /\ v = Head(s).vec /\ l \notin LabelsIn(Tail(s)))
<1> DEFINE q == Tail(s)
<1>1. /\ Len(s) \in Nat /\ Len(s) > 0 /\ DOMAIN s = 1 .. Len(s) /\ DOMAIN q = 1 .. Len(s) - 1
      /\ \A i \in 1 .. Len(s) - 1 : q[i] = s[i + 1]
      /\ Head(s) = s[1]
  OBVIOUS
<1> HIDE DEF q
<1>2. LabelsIn(q) \subseteq LabelsIn(s) /\ Head(s).label \in LabelsIn(s)
  <2>1. ASSUME NEW l \in LabelsIn(q) PROVE l \in LabelsIn(s)
    <3>1. PICK i \in 1 .. Len(s) - 1 : q[i].label = l
      BY <1>1 DEF LabelsIn
    <3>2. i + 1 \in DOMAIN s /\ s[i + 1].label = l
      BY <1>1, <3>1
    <3> QED
      BY <3>2 DEF LabelsIn
  <2>2. 1 \in DOMAIN s
    BY <1>1
  <2> QED
    BY <1>1, <2>1, <2>2 DEF LabelsIn
<1>3. ASSUME NEW i \in 1 .. Len(s), i # 1 PROVE i - 1 \in 1 .. Len(s) - 1 /\ q[i - 1] = s[i]
  <2>1. i - 1 \in 1 .. Len(s) - 1 /\ (i - 1) + 1 = i
    BY <1>1, <1>3
  <2> QED
    BY <1>1, <2>1
<1>4. ASSUME NEW l \in LabelsIn(s) PROVE l \in LabelsIn(q) \/ l = Head(s).label
  <2>1. PICK i \in 1 .. Len(s) : s[i].label = l
    BY <1>1 DEF LabelsIn
  <2>2. CASE i = 1
    BY <1>1, <2>1, <2>2
  <2>3. CASE i # 1
    <3>1. i - 1 \in DOMAIN q /\ q[i - 1].label = l
      BY <1>1, <1>3, <2>1, <2>3
    <3> QED
      BY <3>1 DEF LabelsIn
  <2> QED
    BY <2>2, <2>3
<1>5. ASSUME NEW l, NEW v, IsLast(s, l, v)
      PROVE  IsLast(q, l, v) \/ (l = Head(s).label /\ v = Head(s).vec /\ l \notin LabelsIn(q))
  <2>1. PICK i \in 1 .. Len(s) : /\ s[i].label = l /\ s[i].vec = v
                                 /\ \A j \in 1 .. Len(s) : j > i => s[j].label # l
    BY <1>1, <1>5 DEF IsLast
  <2>2. ASSUME NEW j \in 1 .. Len(s) - 1, j > i - 1 PROVE q[j].label # l
    <3>1. j + 1 \in 1 .. Len(s) /\ j + 1 > i
      BY <1>1, <2>2
    <3> QED
      BY <1>1, <2>1, <3>1
  <2>3. CASE i = 1
    <3>1. \A j \in 1 .. Len(s) - 1 : q[j].label # l
      BY <1>1, <2>2, <2>3
    <3> QED
      BY <1>1, <2>1, <2>3, <3>1 DEF LabelsIn
  <2>4. CASE i # 1
    <3>1. i - 1 \in DOMAIN q /\ q[i - 1].label = l /\ q[i - 1].vec = v
      BY <1>1, <1>3, <2>1, <2>4
    <3> QED
      BY <1>1, <2>2, <3>1 DEF IsLast
  <2> QED
    BY <2>3, <2>4
<1> QED
  BY <1>2, <1>4, <1>5 DEF q

\* With one more record.
LEMMA AppendLast ==
  ASSUME NEW R, NEW s \in Seq(R), NEW r
  PROVE  /\ IsLast(Append(s, r), r.label, r.vec)
         /\ \A l : l # r.label => (l \in LabelsIn(Append(s, r)) => l \in LabelsIn(s))
         /\ \A l, v : l # r.label /\ IsLast(s, l, v) => IsLast(Append(s, r), l, v)
<1> DEFINE q == Append(s, r)
<1>1. /\ Len(s) \in Nat /\ DOMAIN s = 1 .. Len(s) /\ DOMAIN q = 1 .. Len(s) + 1
      /\ \A i \in 1 .. Len(s) : q[i] = s[i]
      /\ q[Len(s) + 1] = r
  OBVIOUS
<1> HIDE DEF q
<1>2. Len(s) + 1 \in 1 .. Len(s) + 1 /\ \A j \in 1 .. Len(s) + 1 : ~(j > Len(s) + 1)
  BY <1>1
<1>3. IsLast(q, r.label, r.vec)
  BY <1>1, <1>2 DEF IsLast
<1>4. \A i \in 1 .. Len(s) + 1 : i \in 1 .. Len(s) \/ i = Len(s) + 1
  BY <1>1
<1>5. \A l : l # r.label => (l \in LabelsIn(q) => l \in LabelsIn(s))
  BY <1>1, <1>4 DEF LabelsIn
<1>6. ASSUME NEW l, NEW v, l # r.label, IsLast(s, l, v) PROVE IsLast(q, l, v)
  <2>1. PICK i \in 1 .. Len(s) : /\ s[i].label = l /\ s[i].vec = v
                                 /\ \A j \in 1 .. Len(s) : j > i => s[j].label # l
    BY <1>1, <1>6 DEF IsLast
  <2>2. i \in 1 .. Len(s) + 1 /\ q[i].label = l /\ q[i].vec = v
    BY <1>1, <2>1
  <2>3. \A j \in 1 .. Len(s) + 1 : j > i => q[j].label # l
    BY <1>1, <1>4, <1>6, <2>1
  <2> QED
    BY <1>1, <2>2, <2>3 DEF IsLast
<1> QED
  BY <1>3, <1>5, <1>6 DEF q

\* An insert that steps has something to do.
LEMMA StepHasWork ==
  ASSUME HnswInv, NEW t \in Writers, InsertStep(t)
  PROVE  ins[t].todo # <<>> /\ ins[t].todo \in Todos
<1>1. InsertOk(index, ins[t])
  BY DEF HnswInv
<1>2. ins[t].todo \in Todos
  BY <1>1, InsertParts
<1>3. ins[t].pc # "idle" \/ ins[t].todo # <<>>
  BY DEF InsertStep, Reserve, FillElement, BecomeFirst, Enter, Choose, Backlink, RaiseTop
<1>4. ins[t].pc # "idle" => ins[t].todo # <<>>
  BY <1>1 DEF InsertOk
<1> QED
  BY <1>2, <1>3, <1>4

\* A label of another record keeps its vector.
LookupStays(h, g) == \A l \in DOMAIN h.lookup : l \in DOMAIN g.lookup /\ g.lookup[l] = h.lookup[l]
\* So the index still has it.
LEMMA HasStays ==
  ASSUME NEW h, NEW g, NEW i, NEW j, VecsTo(h, g, i, j), LookupStays(h, g), NEW l, NEW v, Has(h, l, v),
         l # Head(i.todo).label
  PROVE  Has(g, l, v)
BY DEF VecsTo, LookupStays, Has

\* What is still to be inserted, or is in the index, stays so.
LEMMA PendingStays ==
  ASSUME NEW h, NEW g, NEW i, NEW j, VecsTo(h, g, i, j), LookupStays(h, g), i.todo \in Todos, i.todo # <<>>,
         NEW l, NEW v, Pending(h, i.todo, l, v)
  PROVE  Pending(g, j.todo, l, v)
<1> DEFINE s == i.todo
           q == Tail(s)
<1>1. /\ LabelsIn(q) \subseteq LabelsIn(s) /\ Head(s).label \in LabelsIn(s)
      /\ IsLast(s, l, v) => IsLast(q, l, v) \/ (l = Head(s).label /\ v = Head(s).vec /\ l \notin LabelsIn(q))
  BY TailLast DEF Todos
<1>2. j.todo = s \/ (j.todo = q /\ Has(g, Head(s).label, Head(s).vec))
  BY DEF VecsTo
<1> HIDE DEF q
<1>3. CASE IsLast(s, l, v)
  BY <1>1, <1>2, <1>3 DEF Pending
<1>4. CASE l \notin LabelsIn(s) /\ Has(h, l, v)
  <2>1. Has(g, l, v)
    <3>1. l # Head(i.todo).label
      BY <1>1, <1>4
    <3> QED
      BY <1>4, <3>1, HasStays
  <2>2. l \notin LabelsIn(j.todo)
    BY <1>1, <1>2, <1>4
  <2> QED
    BY <2>1, <2>2 DEF Pending
<1> QED
  BY <1>3, <1>4 DEF Pending

\* And so does what a merge or a replay has left of its records.
LEMMA InsertedFromStays ==
  ASSUME NEW h, NEW g, NEW i, NEW j, VecsTo(h, g, i, j), LookupStays(h, g), i.todo \in Todos, i.todo # <<>>,
         NEW src, InsertedFrom(h, src, i.todo)
  PROVE  InsertedFrom(g, src, j.todo)
<1>1. LabelsIn(Tail(i.todo)) \subseteq LabelsIn(i.todo)
  BY TailLast DEF Todos
<1>2. j.todo = i.todo \/ j.todo = Tail(i.todo)
  BY DEF VecsTo
<1>3. \A l \in Labels, v \in Vectors : Pending(h, i.todo, l, v) => Pending(g, j.todo, l, v)
  BY PendingStays
<1>4. LabelsIn(j.todo) \subseteq LabelsIn(i.todo)
  BY <1>1, <1>2
<1> QED
  BY <1>3, <1>4 DEF InsertedFrom

\* So does what another thread still has to insert, when it is of other labels.
LEMMA PendingApart ==
  ASSUME NEW h, NEW g, NEW i, NEW j, VecsTo(h, g, i, j), LookupStays(h, g),
         NEW todo, NEW l, NEW v, Pending(h, todo, l, v), l # Head(i.todo).label
  PROVE  Pending(g, todo, l, v)
BY HasStays DEF Pending

\* Likewise of another thread's records.
LEMMA InsertedFromApart ==
  ASSUME NEW h, NEW g, NEW i, NEW j, VecsTo(h, g, i, j), LookupStays(h, g),
         NEW src, NEW todo, InsertedFrom(h, src, todo), Head(i.todo).label \notin LabelsIn(src)
  PROVE  InsertedFrom(g, src, todo)
<1>1. ASSUME NEW l \in Labels, NEW v \in Vectors, IsLast(src, l, v) PROVE Pending(g, todo, l, v)
  <2>1. l \in LabelsIn(src)
    BY <1>1, LastIn
  <2>2. Pending(h, todo, l, v) /\ l # Head(i.todo).label
    BY <1>1, <2>1 DEF InsertedFrom
  <2> QED
    BY <2>2, PendingApart
<1> QED
  BY <1>1 DEF InsertedFrom

\* And the element another thread filled in.
LEMMA WroteApart ==
  ASSUME NEW h, NEW g, NEW i, NEW j, VecsTo(h, g, i, j),
         NEW k, InsertOk(h, k), Wrote(h, k), k.pc = "idle" \/ Head(k.todo).label # Head(i.todo).label
  PROVE  Wrote(g, k)
<1>1. k.pc # "idle" => Head(k.todo).label \in DOMAIN h.lookup /\ h.lookup[Head(k.todo).label] = k.id
  BY DEF InsertOk
<1> QED
  BY <1>1 DEF VecsTo, Wrote

\* The buffer holds labels the application inserts one by one.
LEMMA DeltaLabels == ApiTypes => LabelsIn(delta) \subseteq Labels
<1> SUFFICES ASSUME ApiTypes PROVE LabelsIn(delta) \subseteq Labels
  OBVIOUS
<1> DEFINE R == [label : Labels, vec : Vectors]
<1>1. delta \in Seq(R)
  BY DEF ApiTypes, Records
<1>2. \A r \in R : r.label \in Labels
  OBVIOUS
<1> HIDE DEF R
<1>3. \A i \in DOMAIN delta : delta[i] \in R
  BY <1>1
<1> QED
  BY <1>2, <1>3 DEF LabelsIn

\* Between merges, and between the inserts of the other calls, a thread has nothing to insert.
LEMMA NothingToDo ==
  ASSUME LifeInv, NEW t \in {USER, BG}, ~Working(t)
  PROVE  ins[t].pc = "idle" /\ ins[t].todo = <<>>
BY DEF Working

\* While the background thread merges the application can only be in build, whose labels are others.
LEMMA BothInsert ==
  ASSUME LifeInv, MergesGoOn, bg = "merging"
  PROVE  /\ user.pc \notin {"merging", "replaying"} /\ LabelsIn(ins[USER].todo) \cap Labels = {}
         /\ LabelsIn(ins[BG].todo) \subseteq LabelsIn(delta) /\ LabelsIn(delta) \subseteq Labels
<1>1. user.pc \notin {"merging", "replaying"}
  BY WritersLemma DEF LifeInv, Control
<1>2. LabelsIn(ins[USER].todo) \cap Labels = {}
  <2>1. CASE user.pc = "inserting"
    BY <2>1 DEF MergesGoOn
  <2>2. CASE user.pc # "inserting"
    <3>1. ~Working(USER)
      BY <1>1, <2>2 DEF LifeInv, Control
    <3> QED
      BY <3>1, NothingToDo, NoneLast
  <2> QED
    BY <2>1, <2>2
<1>3. LabelsIn(ins[BG].todo) \subseteq LabelsIn(delta) /\ LabelsIn(delta) \subseteq Labels
  BY DeltaLabels DEF LifeInv, MergesGoOn, InsertedFrom
<1> QED
  BY <1>1, <1>2, <1>3

\* The label of the record an insert is at.
LEMMA HeadIn ==
  ASSUME NEW s \in Todos, s # <<>>
  PROVE  Head(s).label \in LabelsIn(s) /\ LabelsIn(Tail(s)) \subseteq LabelsIn(s)
BY TailLast DEF Todos

\* The insert of one thread leaves the other's as it was.
MergeParts == InsertsWritten /\ MergesGoOn /\ NewestIsSomewhere
\* The steps of the application.
LEMMA UserInserts ==
  ASSUME MergeInv, InsertStep(USER), ApiSame
  PROVE  MergeParts'
<1> DEFINE h == index
           g == index'
           i == ins[USER]
           j == ins'[USER]
           k == ins[BG]
<1>1. LifeInv /\ HnswInv /\ ApiTypes /\ InsertsWritten /\ MergesGoOn /\ NewestIsSomewhere /\ USER \in Writers /\ BG \in Writers
  BY WritersLemma DEF MergeInv, LifeInv
<1>2. i.todo # <<>> /\ i.todo \in Todos
  BY <1>1, StepHasWork
<1>3. Head(i.todo).label \in LabelsIn(i.todo) /\ LabelsIn(Tail(i.todo)) \subseteq LabelsIn(i.todo)
  BY <1>2, HeadIn
<1>4. VecsTo(h, g, i, j)
  BY <1>1, InsertStepVecs DEF InsertsWritten
<1>5. LookupStays(h, g) /\ ins'[BG] = k
  BY <1>1, InsertStepOk, OthersLemma, WritersLemma DEF StepOk, StepsTo, LookupStays, OthersStay
<1>6. InsertOk(h, k) /\ Wrote(h, k)
  BY <1>1 DEF HnswInv, InsertsWritten
<1>7. bg = "merging" => k.pc = "idle" \/ Head(k.todo).label # Head(i.todo).label
  <2> SUFFICES ASSUME bg = "merging", k.pc # "idle" PROVE Head(k.todo).label # Head(i.todo).label
    OBVIOUS
  <2>1. k.todo # <<>> /\ k.todo \in Todos
    BY <1>6, InsertParts DEF InsertOk
  <2>2. Head(k.todo).label \in LabelsIn(k.todo)
    BY <2>1, HeadIn
  <2> QED
    BY <1>1, <1>3, <2>2, BothInsert
<1>8. bg # "merging" => k.pc = "idle"
  BY <1>1 DEF LifeInv, Control, Working
<1> HIDE DEF h, g, i, j, k
<1>9. InsertsWritten'
  <2>1. Wrote(g, j)
    BY <1>4 DEF VecsTo
  <2>2. Wrote(g, k)
    BY <1>4, <1>6, <1>7, <1>8, WroteApart
  <2> QED
    BY <1>5, <2>1, <2>2 DEF InsertsWritten, g, j
<1>10. MergesGoOn'
  <2>1. user.pc = "merging" => InsertedFrom(g, delta, j.todo)
    <3>1. user.pc = "merging" => InsertedFrom(h, delta, i.todo)
      BY <1>1 DEF MergesGoOn, h, i
    <3> QED
      BY <1>2, <1>4, <1>5, <3>1, InsertedFromStays
  <2>2. bg = "merging" => InsertedFrom(g, delta, k.todo)
    <3> SUFFICES ASSUME bg = "merging" PROVE InsertedFrom(g, delta, k.todo)
      OBVIOUS
    <3>1. InsertedFrom(h, delta, k.todo)
      BY <1>1 DEF MergesGoOn, h, k
    <3>2. Head(i.todo).label \notin LabelsIn(delta)
      BY <1>1, <1>3, BothInsert DEF i
    <3> QED
      BY <1>4, <1>5, <3>1, <3>2, InsertedFromApart
  <2>3. user.pc = "inserting" => LabelsIn(j.todo) \cap Labels = {}
    <3>1. j.todo = i.todo \/ j.todo = Tail(i.todo)
      BY <1>4 DEF VecsTo
    <3>2. user.pc = "inserting" => LabelsIn(i.todo) \cap Labels = {}
      BY <1>1 DEF MergesGoOn, i
    <3> QED
      BY <1>3, <3>1, <3>2
  <2> QED
    BY <1>5, <2>1, <2>2, <2>3 DEF MergesGoOn, ApiSame, g, j
<1>11. NewestIsSomewhere'
  <2>1. \A l, v : Pending(h, i.todo, l, v) => Pending(g, j.todo, l, v)
    BY <1>2, <1>4, <1>5, PendingStays
  <2> QED
    BY <1>1, <2>1 DEF NewestIsSomewhere, ApiSame, h, g, i, j
<1> QED
  BY <1>9, <1>10, <1>11 DEF MergeParts

\* The steps of the background thread.
LEMMA BgInsertsOn ==
  ASSUME MergeInv, bg = "merging", InsertStep(BG), ApiSame
  PROVE  MergeParts'
<1> DEFINE h == index
           g == index'
           i == ins[BG]
           j == ins'[BG]
           k == ins[USER]
<1>1. LifeInv /\ HnswInv /\ ApiTypes /\ InsertsWritten /\ MergesGoOn /\ NewestIsSomewhere /\ USER \in Writers /\ BG \in Writers
  BY WritersLemma DEF MergeInv, LifeInv
<1>2. i.todo # <<>> /\ i.todo \in Todos
  BY <1>1, StepHasWork
<1>3. Head(i.todo).label \in LabelsIn(i.todo) /\ LabelsIn(Tail(i.todo)) \subseteq LabelsIn(i.todo)
  BY <1>2, HeadIn
<1>4. VecsTo(h, g, i, j)
  BY <1>1, InsertStepVecs DEF InsertsWritten
<1>5. LookupStays(h, g) /\ ins'[USER] = k
  BY <1>1, InsertStepOk, OthersLemma, WritersLemma DEF StepOk, StepsTo, LookupStays, OthersStay
<1>6. InsertOk(h, k) /\ Wrote(h, k)
  BY <1>1 DEF HnswInv, InsertsWritten
<1>7. /\ user.pc # "merging" /\ LabelsIn(k.todo) \cap Labels = {} /\ Head(i.todo).label \in LabelsIn(delta)
      /\ Head(i.todo).label \in Labels
  BY <1>1, <1>3, BothInsert
<1>8. k.pc = "idle" \/ Head(k.todo).label # Head(i.todo).label
  <2> SUFFICES ASSUME k.pc # "idle" PROVE Head(k.todo).label # Head(i.todo).label
    OBVIOUS
  <2>1. k.todo # <<>> /\ k.todo \in Todos
    BY <1>6, InsertParts DEF InsertOk
  <2>2. Head(k.todo).label \in LabelsIn(k.todo)
    BY <2>1, HeadIn
  <2> QED
    BY <1>7, <2>2
<1> HIDE DEF h, g, i, j, k
<1>9. InsertsWritten'
  <2>1. Wrote(g, j)
    BY <1>4 DEF VecsTo
  <2>2. Wrote(g, k)
    BY <1>4, <1>6, <1>8, WroteApart
  <2> QED
    BY <1>5, <2>1, <2>2 DEF InsertsWritten, g, j
<1>10. MergesGoOn'
  <2>1. InsertedFrom(g, delta, j.todo)
    <3>1. InsertedFrom(h, delta, i.todo)
      BY <1>1 DEF MergesGoOn, h, i
    <3> QED
      BY <1>2, <1>4, <1>5, <3>1, InsertedFromStays
  <2> QED
    BY <1>1, <1>5, <1>7, <2>1 DEF MergesGoOn, ApiSame, g, j, k
<1>11. NewestIsSomewhere'
  <2>1. \A l, v : l \notin LabelsIn(delta) /\ Pending(h, k.todo, l, v) => Pending(g, k.todo, l, v)
    BY <1>4, <1>5, <1>7, PendingApart
  <2> QED
    BY <1>1, <1>5, <2>1 DEF NewestIsSomewhere, ApiSame, h, g, k
<1> QED
  BY <1>9, <1>10, <1>11 DEF MergeParts

\* A step that leaves the graph, the buffer and what was handed over alone.
LEMMA QuietKeeps ==
  ASSUME MergeInv, index' = index, ins' = ins, delta' = delta, newest' = newest,
         user'.pc \in {"merging", "inserting"} => user'.pc = user.pc,
         bg' = "merging" => bg = "merging", user'.pc # "threw" => user.pc # "threw"
  PROVE  MergeParts'
<1>1. InsertsWritten'
  BY DEF MergeInv, InsertsWritten
<1>2. MergesGoOn'
  BY DEF MergeInv, MergesGoOn
<1>3. NewestIsSomewhere'
  BY DEF MergeInv, NewestIsSomewhere
<1> QED
  BY <1>1, <1>2, <1>3 DEF MergeParts

\* add.
LEMMA InsertKeeps ==
  ASSUME MergeInv, NEW l \in Labels, Insert(l)
  PROVE  MergeParts'
<1>1. /\ LifeInv /\ ApiTypes /\ Control /\ user.pc = "idle" /\ deltaMu = "" /\ bg # "merging"
      /\ InsertsWritten /\ NewestIsSomewhere
  BY DEF MergeInv, LifeInv, Control, Insert, AtRest, DeltaFree, BG
<1>2. /\ index' = index /\ ins' = ins /\ user' = user /\ bg' = bg
      /\ delta' = Append(delta, Record(l)) /\ newest' = With(newest, l, clock + 1)
  BY DEF Insert, hnswVars
<1>3. InsertsWritten' /\ MergesGoOn'
  BY <1>1, <1>2 DEF InsertsWritten, MergesGoOn
<1>4. /\ IsLast(delta', l, clock + 1)
      /\ \A k : k # l => (k \in LabelsIn(delta') => k \in LabelsIn(delta))
      /\ \A k, v : k # l /\ IsLast(delta, k, v) => IsLast(delta', k, v)
  <2>1. delta \in Records
    BY <1>1 DEF ApiTypes
  <2>2. Record(l).label = l /\ Record(l).vec = clock + 1
    BY DEF Record
  <2> DEFINE r == Record(l)
  <2> HIDE DEF r
  <2>3. /\ IsLast(Append(delta, r), r.label, r.vec)
        /\ \A k : k # r.label => (k \in LabelsIn(Append(delta, r)) => k \in LabelsIn(delta))
        /\ \A k, v : k # r.label /\ IsLast(delta, k, v) => IsLast(Append(delta, r), k, v)
    BY <2>1, AppendLast DEF Records
  <2> QED
    BY <1>2, <2>2, <2>3 DEF r
<1>5. ASSUME NEW k \in DOMAIN newest'
      PROVE  \/ IsLast(delta', k, newest'[k])
             \/ k \notin LabelsIn(delta') /\ Pending(index', ins'[USER].todo, k, newest'[k])
  <2>1. CASE k = l
    <3>1. newest'[k] = clock + 1
      BY <1>2, <2>1 DEF With
    <3> QED
      BY <1>4, <2>1, <3>1
  <2>2. CASE k # l
    <3>1. k \in DOMAIN newest /\ newest'[k] = newest[k]
      BY <1>2, <2>2 DEF With
    <3>2. \/ IsLast(delta, k, newest[k])
          \/ k \notin LabelsIn(delta) /\ Pending(index, ins[USER].todo, k, newest[k])
      BY <1>1, <3>1 DEF NewestIsSomewhere
    <3> QED
      BY <1>2, <1>4, <2>2, <3>1, <3>2
  <2> QED
    BY <2>1, <2>2
<1> QED
  BY <1>3, <1>5 DEF MergeParts, NewestIsSomewhere

\* build.
LEMMA BatchLast ==
  ASSUME ApiTypes, NEW batch \in Batches, clock + Len(batch) \in DOMAIN Coordinates,
         NEW s, s = [i \in DOMAIN batch |-> [label |-> batch[i], vec |-> clock + i]]
  PROVE  /\ LabelsIn(s) \subseteq ToSet(batch)
         /\ \A l \in ToSet(batch) : IsLast(s, l, clock + LastPlace(batch, l))
<1>1. batch \in Seq(ToSet(batch))
  BY BatchLemma
<1>2. DOMAIN batch = 1 .. Len(batch) /\ \A i \in 1 .. Len(batch) : batch[i] \in ToSet(batch)
  BY <1>1
<1>3. DOMAIN s = 1 .. Len(batch) /\ \A i \in 1 .. Len(batch) : s[i].label = batch[i] /\ s[i].vec = clock + i
  BY <1>2
<1>4. LabelsIn(s) \subseteq ToSet(batch)
  BY <1>2, <1>3 DEF LabelsIn
<1>5. ASSUME NEW l \in ToSet(batch) PROVE IsLast(s, l, clock + LastPlace(batch, l))
  <2> DEFINE k == LastPlace(batch, l)
  <2>1. IsLastPlace(batch, l, k)
    BY <1>1, LastLemma
  <2> HIDE DEF k
  <2>2. k \in DOMAIN s /\ s[k].label = l /\ s[k].vec = clock + k /\ \A j \in DOMAIN s : j > k => s[j].label # l
    BY <1>3, <2>1 DEF IsLastPlace
  <2> QED
    BY <2>2 DEF IsLast, k
<1> QED
  BY <1>4, <1>5

\* Its labels are handed over without the buffer.
LEMMA BuildKeeps ==
  ASSUME MergeInv, NEW batch \in Batches, Build(batch)
  PROVE  MergeParts'
<1> DEFINE todo == [i \in DOMAIN batch |-> [label |-> batch[i], vec |-> clock + i]]
<1>1. /\ LifeInv /\ HnswInv /\ ApiTypes /\ Control /\ user.pc = "idle" /\ USER \in Writers /\ BG \in Writers /\ USER # BG
      /\ InsertsWritten /\ MergesGoOn /\ NewestIsSomewhere
  BY WritersLemma DEF MergeInv, LifeInv, Control, Build, Call, AtRest
<1>2. /\ index' = index /\ user'.pc = "inserting" /\ bg' = bg /\ delta' = delta
      /\ newest' = [l \in ToSet(batch) \cup DOMAIN newest |->
                      IF l \in ToSet(batch) THEN clock + LastPlace(batch, l) ELSE newest[l]]
      /\ Begin(USER, todo) /\ clock + Len(batch) \in DOMAIN Coordinates
  BY DEF Build, Call
<1>3. /\ LabelsIn(todo) \subseteq ToSet(batch) /\ ToSet(batch) \cap Labels = {}
      /\ \A l \in ToSet(batch) : IsLast(todo, l, clock + LastPlace(batch, l))
  BY <1>1, <1>2, BatchLast, BatchLemma
<1> HIDE DEF todo
<1>4. ins'[USER] = [pc |-> "idle", todo |-> todo] /\ ins'[BG] = ins[BG]
  <2>1. ins'[BG] = ins[BG]
    BY <1>1, <1>2, OthersLemma DEF OthersStay
  <2> QED
    BY <1>1, <1>2, <2>1 DEF Begin, HnswInv
<1>5. InsertsWritten'
  BY <1>1, <1>2, <1>4 DEF InsertsWritten, Wrote
<1>6. MergesGoOn'
  BY <1>1, <1>2, <1>3, <1>4 DEF MergesGoOn
<1>7. ins[USER].todo = <<>>
  <2>1. ~Working(USER)
    BY <1>1 DEF Control
  <2> QED
    BY <1>1, <2>1, NothingToDo
<1>8. ASSUME NEW l \in DOMAIN newest'
      PROVE  \/ IsLast(delta', l, newest'[l])
             \/ l \notin LabelsIn(delta') /\ Pending(index', ins'[USER].todo, l, newest'[l])
  <2>1. CASE l \in ToSet(batch)
    <3>1. l \notin LabelsIn(delta)
      BY <1>1, <1>3, <2>1, DeltaLabels
    <3>2. newest'[l] = clock + LastPlace(batch, l)
      BY <1>2, <2>1
    <3> QED
      BY <1>2, <1>3, <1>4, <2>1, <3>1, <3>2 DEF Pending
  <2>2. CASE l \notin ToSet(batch)
    <3>1. l \in DOMAIN newest /\ newest'[l] = newest[l]
      BY <1>2, <2>2
    <3>2. \/ IsLast(delta, l, newest[l])
          \/ l \notin LabelsIn(delta) /\ Pending(index, <<>>, l, newest[l])
      BY <1>1, <1>7, <3>1 DEF NewestIsSomewhere
    <3>3. Pending(index, <<>>, l, newest[l]) => Pending(index, todo, l, newest[l])
      BY <1>3, <2>2, NoneLast DEF Pending
    <3> QED
      BY <1>2, <1>4, <3>1, <3>2, <3>3
  <2> QED
    BY <2>1, <2>2
<1> QED
  BY <1>5, <1>6, <1>8 DEF MergeParts, NewestIsSomewhere

\* consolidate and the background thread begin a merge.
LEMMA AllToInsert == \A h, s : InsertedFrom(h, s, s)
BY DEF InsertedFrom, Pending

\* consolidate begins.
LEMMA LocksKeeps ==
  ASSUME MergeInv, ConsolidateLocks
  PROVE  MergeParts'
<1>1. /\ LifeInv /\ HnswInv /\ Control /\ user.pc = "lock" /\ bg # "merging" /\ USER \in Writers /\ BG \in Writers
      /\ USER # BG /\ InsertsWritten /\ NewestIsSomewhere
  BY WritersLemma DEF MergeInv, LifeInv, Control, ConsolidateLocks, DeltaFree, BG
<1>2. /\ index' = index /\ user'.pc = "merging" /\ bg' = bg /\ delta' = delta /\ newest' = newest
      /\ Begin(USER, delta)
  <2>1. user' = [user EXCEPT !.pc = "merging"] /\ user \in [pc : {"lock"}, call : {"consolidate", "save"}]
    BY <1>1 DEF ConsolidateLocks, Goto, LifeInv, Control, ApiTypes, Merging
  <2> QED
    BY <2>1 DEF ConsolidateLocks
<1>3. ins'[USER] = [pc |-> "idle", todo |-> delta] /\ ins'[BG] = ins[BG]
  <2>1. ins'[BG] = ins[BG]
    BY <1>1, <1>2, OthersLemma DEF OthersStay
  <2> QED
    BY <1>1, <1>2, <2>1 DEF Begin, HnswInv
<1>4. InsertsWritten'
  BY <1>1, <1>2, <1>3 DEF InsertsWritten, Wrote
<1>5. MergesGoOn'
  BY <1>1, <1>2, <1>3, AllToInsert DEF MergesGoOn
<1>6. ins[USER].todo = <<>>
  <2>1. ~Working(USER)
    BY <1>1 DEF Control
  <2> QED
    BY <1>1, <2>1, NothingToDo
<1>7. \A l, v : l \notin LabelsIn(delta) /\ Pending(index, <<>>, l, v) => Pending(index, delta, l, v)
  BY NoneLast DEF Pending
<1>8. NewestIsSomewhere'
  BY <1>1, <1>2, <1>3, <1>6, <1>7 DEF NewestIsSomewhere
<1> QED
  BY <1>4, <1>5, <1>8 DEF MergeParts

\* The background thread begins.
LEMMA AppliesKeeps ==
  ASSUME MergeInv, BgApplies
  PROVE  MergeParts'
<1>1. /\ LifeInv /\ HnswInv /\ Control /\ user.pc # "merging" /\ USER \in Writers /\ BG \in Writers
      /\ USER # BG /\ InsertsWritten /\ MergesGoOn /\ NewestIsSomewhere
  BY WritersLemma DEF MergeInv, LifeInv, Control, BgApplies, DeltaFree, USER
<1>2. /\ index' = index /\ user' = user /\ delta' = delta /\ newest' = newest
      /\ Begin(BG, delta)
  BY DEF BgApplies
<1>3. ins'[BG] = [pc |-> "idle", todo |-> delta] /\ ins'[USER] = ins[USER]
  <2>1. ins'[USER] = ins[USER]
    BY <1>1, <1>2, OthersLemma DEF OthersStay
  <2> QED
    BY <1>1, <1>2, <2>1 DEF Begin, HnswInv
<1>4. InsertsWritten'
  BY <1>1, <1>2, <1>3 DEF InsertsWritten, Wrote
<1>5. MergesGoOn'
  BY <1>1, <1>2, <1>3, AllToInsert DEF MergesGoOn
<1>6. NewestIsSomewhere'
  BY <1>1, <1>2, <1>3 DEF NewestIsSomewhere
<1> QED
  BY <1>4, <1>5, <1>6 DEF MergeParts

\* And end it: what was in the buffer is in the index.
LEMMA Merged ==
  ASSUME MergeInv, InsertedFrom(index, delta, <<>>), LabelsIn(ins[USER].todo) \cap Labels = {}, user.pc # "threw"
  PROVE  \A l \in DOMAIN newest : Pending(index, ins[USER].todo, l, newest[l])
<1>1. LifeInv /\ ApiTypes /\ NewestIsSomewhere /\ LabelsIn(delta) \subseteq Labels
  BY DeltaLabels DEF MergeInv, LifeInv
<1>2. \A l \in DOMAIN newest : newest[l] \in Vectors
  BY <1>1 DEF ApiTypes, ContentOk
<1>3. ASSUME NEW l \in DOMAIN newest PROVE Pending(index, ins[USER].todo, l, newest[l])
  <2>1. CASE IsLast(delta, l, newest[l])
    <3>1. l \in Labels
      BY <1>1, <2>1, LastIn
    <3>2. Pending(index, <<>>, l, newest[l])
      BY <1>2, <2>1, <3>1 DEF InsertedFrom
    <3>3. Has(index, l, newest[l])
      BY <3>2, NoneLast DEF Pending
    <3> QED
      BY <3>1, <3>3 DEF Pending
  <2>2. CASE ~IsLast(delta, l, newest[l])
    BY <1>1, <2>2 DEF NewestIsSomewhere
  <2> QED
    BY <2>1, <2>2
<1> QED
  BY <1>3

\* consolidate ends.
LEMMA ClearsKeeps ==
  ASSUME MergeInv, ConsolidateClears
  PROVE  MergeParts'
<1>1. /\ LifeInv /\ Control /\ user.pc = "merging" /\ bg # "merging" /\ ~Working(USER)
      /\ InsertsWritten /\ MergesGoOn
  BY WritersLemma DEF MergeInv, LifeInv, Control, ConsolidateClears
<1>2. /\ index' = index /\ ins' = ins /\ user'.pc = "remove" /\ bg' = bg /\ delta' = <<>> /\ newest' = newest
  <2>1. user' = [user EXCEPT !.pc = "remove"] /\ user \in [pc : {"merging"}, call : {"consolidate", "save"}]
    BY <1>1 DEF ConsolidateClears, Goto, LifeInv, Control, ApiTypes, Merging
  <2> QED
    BY <2>1 DEF ConsolidateClears, hnswVars
<1>3. ins[USER].todo = <<>>
  BY <1>1, NothingToDo
<1>4. InsertedFrom(index, delta, <<>>) /\ LabelsIn(ins[USER].todo) \cap Labels = {}
  BY <1>1, <1>3, NoneLast DEF MergesGoOn
<1>5. \A l \in DOMAIN newest : Pending(index, ins[USER].todo, l, newest[l])
  BY <1>1, <1>4, Merged
<1>6. InsertsWritten' /\ MergesGoOn'
  BY <1>1, <1>2 DEF InsertsWritten, MergesGoOn
<1>7. NewestIsSomewhere'
  BY <1>2, <1>5, NoneLast DEF NewestIsSomewhere
<1> QED
  BY <1>6, <1>7 DEF MergeParts

\* The background thread ends.
LEMMA BgClearsKeeps ==
  ASSUME MergeInv, BgClears
  PROVE  MergeParts'
<1>1. /\ LifeInv /\ Control /\ bg = "merging" /\ ~Working(BG) /\ InsertsWritten /\ MergesGoOn
  BY DEF MergeInv, LifeInv, BgClears
<1>2. /\ index' = index /\ ins' = ins /\ user' = user /\ bg' = "remove" /\ delta' = <<>> /\ newest' = newest
  BY DEF BgClears, hnswVars
<1>3. ins[BG].todo = <<>>
  BY <1>1, NothingToDo
<1>4. InsertedFrom(index, delta, <<>>) /\ LabelsIn(ins[USER].todo) \cap Labels = {} /\ user.pc # "merging"
  BY <1>1, <1>3, BothInsert DEF MergesGoOn
<1>5. user.pc # "threw" => \A l \in DOMAIN newest : Pending(index, ins[USER].todo, l, newest[l])
  BY <1>1, <1>4, Merged
<1>6. InsertsWritten' /\ MergesGoOn'
  BY <1>1, <1>2, <1>4 DEF InsertsWritten, MergesGoOn
<1>7. NewestIsSomewhere'
  BY <1>2, <1>5, NoneLast DEF NewestIsSomewhere
<1> QED
  BY <1>6, <1>7 DEF MergeParts

\* An insert that throws.
LEMMA ThrowsKeeps ==
  ASSUME MergeInv, Throws
  PROVE  MergeParts'
<1>1. /\ LifeInv /\ HnswInv /\ USER \in Writers /\ BG \in Writers /\ USER # BG /\ InsertsWritten /\ MergesGoOn
  BY WritersLemma DEF MergeInv, LifeInv
<1>2. index' = index /\ bg' = bg /\ delta' = delta /\ user'.pc = "threw" /\ Begin(USER, <<>>)
  <2>1. user' = [user EXCEPT !.pc = "threw"] /\ user = [pc |-> user.pc, call |-> user.call]
    BY <1>1 DEF Throws, Goto, LifeInv, ApiTypes
  <2>2. user'.pc = "threw"
    BY <2>1
  <2> QED
    BY <2>2 DEF Throws, Begin, Idle
<1>3. ins'[USER].pc = "idle" /\ ins'[BG] = ins[BG]
  <2>1. ins'[BG] = ins[BG]
    BY <1>1, <1>2, OthersLemma DEF OthersStay
  <2> QED
    BY <1>1, <1>2, <2>1 DEF Begin, HnswInv
<1>4. InsertsWritten'
  BY <1>1, <1>2, <1>3 DEF InsertsWritten, Wrote
<1>5. MergesGoOn'
  BY <1>1, <1>2, <1>3 DEF MergesGoOn
<1>6. NewestIsSomewhere'
  BY <1>2 DEF NewestIsSomewhere
<1> QED
  BY <1>4, <1>5, <1>6 DEF MergeParts

\* load.
LEMMA LoadKeeps ==
  ASSUME MergeInv, Load
  PROVE  MergeParts'
<1>1. /\ LifeInv /\ HnswInv /\ user = AtRest /\ newest = Nothing /\ USER \in Writers /\ BG \in Writers /\ USER # BG
      /\ bg \in {"wait", "ended"}
  BY WritersLemma DEF MergeInv, LifeInv, Control, Load, Call
<1>2. bg' = bg /\ newest' = newest /\ user'.pc \in {"threw", "replaying"}
  BY DEF Load, Call
<1>3. PICK todo : Begin(USER, todo)
  BY DEF Load
<1>4. ins'[USER].pc = "idle" /\ ins'[BG] = ins[BG] /\ ins[BG].pc = "idle"
  <2>1. ins'[BG] = ins[BG]
    BY <1>1, <1>3, OthersLemma DEF OthersStay
  <2> QED
    BY <1>1, <1>3, <2>1, RestLemma DEF Begin, HnswInv
<1>5. InsertsWritten'
  BY <1>4 DEF InsertsWritten, Wrote
<1>6. MergesGoOn'
  BY <1>1, <1>2 DEF MergesGoOn
<1>7. NewestIsSomewhere'
  <2>1. DOMAIN newest' = {}
    BY <1>1, <1>2 DEF Nothing
  <2> QED
    BY <2>1 DEF NewestIsSomewhere
<1> QED
  BY <1>5, <1>6, <1>7 DEF MergeParts

\* What load has read counts as handed over.
LEMMA LoadReturnsKeeps ==
  ASSUME MergeInv, LoadReturns
  PROVE  MergeParts'
<1>1. /\ LifeInv /\ HnswInv /\ user.pc = "replaying" /\ ~Working(USER) /\ delta = <<>> /\ bg = "wait" /\ InsertsWritten
  BY DEF MergeInv, LifeInv, Control, LoadReturns
<1>2. /\ index' = index /\ ins' = ins /\ delta' = delta /\ bg' = bg /\ newest' = Content(index) /\ user'.pc = "done"
  <2>1. user' = [user EXCEPT !.pc = "done"] /\ user = [pc |-> user.pc, call |-> user.call]
    BY <1>1 DEF LoadReturns, Goto, LifeInv, ApiTypes
  <2> QED
    BY <2>1 DEF LoadReturns, hnswVars
<1>3. ins[USER].todo = <<>>
  BY <1>1, NothingToDo
<1>4. \A l \in DOMAIN Content(index) : Has(index, l, Content(index)[l])
  BY DEF Has, Content
<1>5. InsertsWritten' /\ MergesGoOn'
  BY <1>1, <1>2 DEF InsertsWritten, MergesGoOn
<1>6. NewestIsSomewhere'
  BY <1>1, <1>2, <1>3, <1>4, NoneLast DEF NewestIsSomewhere, Pending
<1> QED
  BY <1>5, <1>6 DEF MergeParts

\* A new process.
LEMMA NewLifeKeeps ==
  ASSUME NewLife
  PROVE  MergeParts'
<1>1. ins'[USER] = Idle /\ ins'[BG] = Idle /\ user'.pc = "idle" /\ bg' = "wait" /\ DOMAIN newest' = {}
  BY WritersLemma DEF NewLife, AtRest, Nothing
<1> QED
  BY <1>1 DEF MergeParts, InsertsWritten, MergesGoOn, NewestIsSomewhere, Wrote, Idle

\* Call by call.
LEMMA MergeStep == MergeInv /\ [ApiNext]_<<hnswVars, apiVars>> => MergeInv'
<1> SUFFICES ASSUME MergeInv, [ApiNext]_<<hnswVars, apiVars>> PROVE MergeParts'
  BY LifeStep DEF MergeInv, MergeParts
<1>0. user = [pc |-> user.pc, call |-> user.call]
  BY DEF MergeInv, LifeInv, ApiTypes
<1>1. ASSUME NEW l \in Labels, Insert(l) PROVE MergeParts'
  BY <1>1, InsertKeeps
<1>2. ASSUME NEW batch \in Batches, Build(batch) PROVE MergeParts'
  BY <1>2, BuildKeeps
<1>3. CASE Inserting
  BY <1>3, SameLemma, UserInserts DEF Inserting
<1>4. CASE BuildReturns \/ ConsolidateRemoves \/ SaveOpens \/ SaveWrites
  BY <1>0, <1>4, QuietKeeps DEF BuildReturns, ConsolidateRemoves, SaveOpens, SaveWrites, Goto, hnswVars, AfterMerge
<1>5. CASE Consolidate \/ ConsolidateChecks \/ Return
  BY <1>0, <1>5, QuietKeeps DEF Consolidate, ConsolidateChecks, Return, Call, Goto, hnswVars, AfterMerge, AtRest
<1>6. CASE ConsolidateLocks
  BY <1>6, LocksKeeps
<1>7. CASE ConsolidateClears
  BY <1>7, ClearsKeeps
<1>8. CASE Throws
  BY <1>8, ThrowsKeeps
<1>9. CASE Load
  BY <1>9, LoadKeeps
<1>10. CASE LoadReturns
  BY <1>10, LoadReturnsKeeps
<1>11. CASE BgWakes \/ BgFlushes \/ BgRemoves \/ Destroy
  BY <1>11, QuietKeeps DEF BgWakes, BgFlushes, BgRemoves, Destroy, hnswVars
<1>12. CASE BgApplies
  BY <1>12, AppliesKeeps
<1>13. CASE BgInserts
  BY <1>13, SameLemma, BgInsertsOn DEF BgInserts
<1>14. CASE BgClears
  BY <1>14, BgClearsKeeps
<1>15. CASE Reopen \/ ApiCrash
  BY <1>15, NewLifeKeeps DEF Reopen, ApiCrash
<1>16. CASE UNCHANGED <<hnswVars, apiVars>>
  BY <1>16, QuietKeeps DEF hnswVars, apiVars
<1> QED
  BY <1>1, <1>2, <1>3, <1>4, <1>5, <1>6, <1>7, <1>8, <1>9, <1>10, <1>11, <1>12, <1>13, <1>14, <1>15, <1>16,
     Zenon DEF ApiNext

\* A new object over no files.
LEMMA MergeInit == ApiInit => MergeInv
<1> SUFFICES ASSUME ApiInit PROVE MergeInv
  OBVIOUS
<1>1. LifeInv
  BY LifeInit
<1>2. ins[USER] = Idle /\ ins[BG] = Idle /\ user.pc = "idle" /\ bg = "wait" /\ DOMAIN newest = {}
  BY WritersLemma DEF ApiInit, AtRest, Nothing
<1> QED
  BY <1>1, <1>2 DEF MergeInv, InsertsWritten, MergesGoOn, NewestIsSomewhere, Wrote, Idle

\* powerlaw_ann.h, consolidate: when it or save has returned, the index has the newest vector of
\* every label handed over before, whichever thread merged it, whatever build inserted between and
\* however often a process crashed and its files were loaded.
THEOREM ConsolidatedNewest == ApiSpec => []ConsolidatedIsIndexed
<1>1. MergeInv => ConsolidatedIsIndexed
  <2> SUFFICES ASSUME MergeInv, user.pc = "done", user.call \in {"consolidate", "save"}, NEW l \in DOMAIN newest
               PROVE  l \in DOMAIN index.lookup /\ Content(index)[l] = newest[l]
    BY DEF ConsolidatedIsIndexed
  <2>1. delta = <<>> /\ ~Working(USER)
    BY DEF MergeInv, LifeInv, Control, Merging
  <2>2. ins[USER].todo = <<>>
    BY <2>1, NothingToDo DEF MergeInv
  <2>3. Pending(index, <<>>, l, newest[l])
    BY <2>1, <2>2, NoneLast DEF MergeInv, NewestIsSomewhere
  <2>4. Has(index, l, newest[l])
    BY <2>3, NoneLast DEF Pending
  <2> QED
    BY <2>4 DEF Has, Content
<1> QED
  BY MergeInit, MergeStep, <1>1, PTL DEF ApiSpec


-----------------------------------------------------------------------------
(***************************************************************************)
(* What is in the files.                                                   *)
(***************************************************************************)
UpTo(s, c) == \A i \in DOMAIN s : s[i].vec <= c
IndexUpTo(h, c) == \A n \in DOMAIN h.nodes : h.nodes[n].vec <= c

\* No vector is numbered above the clock.
NumberedTo(c) ==
  /\ IndexUpTo(index, c) /\ UpTo(ins[USER].todo, c) /\ UpTo(ins[BG].todo, c)
  /\ UpTo(delta, c) /\ UpTo(log.records, c)
  /\ db.kind = "saved" => IndexUpTo(db.index, c)
Numbered == NumberedTo(clock)

\* What is in the buffer came after the index file was written.
NewerThan(s, c) == \A i \in DOMAIN s : s[i].label \in DOMAIN c => c[s[i].label] <= s[i].vec
BufferIsNewer == NewerThan(delta, kept)

\* A sequence of records leaves no older vector of a label than c has.
LeavesNewer(s, c) == \A l \in DOMAIN c : \A v \in Vectors : IsLast(s, l, v) => c[l] <= v

\* The delta file leaves none older than the index file has, nor, while no merge is under way, than
\* the index.
LogIsNewer == quiet /\ log.tail # "garbled" => LeavesNewer(log.records, kept)
LogNotBehind ==
  bg \in {"wait", "ended"} /\ user.pc \notin {"merging", "remove", "threw", "replaying"} /\ log.tail # "garbled" =>
    LeavesNewer(log.records, Content(index))

\* A load inserts the delta file over the index file.
OverFile(h, s, c) == \A l \in DOMAIN c : l \in DOMAIN h.lookup /\ (l \notin LabelsIn(s) => Has(h, l, c[l]))
ReplayGoesOn ==
  user.pc = "replaying" /\ log.tail # "garbled" =>
    InsertedFrom(index, log.records, ins[USER].todo) /\ OverFile(index, log.records, kept)

FilesInv ==
  MergeInv /\ Numbered /\ BufferIsNewer /\ LogIsNewer /\ LogNotBehind /\ ReplayGoesOn /\ QuietSaveComesBack

\* Vectors are natural numbers, in a record, in an index and in its content.
LEMMA VectorNat == \A v \in Vectors : v \in Nat
BY HnswAssumption DEF Vectors

\* The labels and the vectors of a sequence of records.
LEMMA RecordVecs ==
  ASSUME NEW s, s \in Todos \/ s \in Records
  PROVE  /\ \A i \in DOMAIN s : s[i].vec \in Nat /\ s[i].vec \in Vectors
         /\ s \in Records => LabelsIn(s) \subseteq Labels
<1> DEFINE R == [label : AllLabels, vec : Vectors]
           P == [label : Labels, vec : Vectors]
<1>1. s \in Todos
  BY WritersLemma
<1>2. s \in Seq(R) /\ (s \in Records => s \in Seq(P))
  BY <1>1 DEF Todos, Records
<1>3. /\ \A r \in R : r.vec \in Vectors /\ r.vec \in Nat
      /\ \A r \in P : r.label \in Labels
  BY VectorNat
<1> HIDE DEF R, P
<1>4. \A i \in DOMAIN s : s[i] \in R /\ (s \in Records => s[i] \in P)
  BY <1>2
<1> QED
  BY <1>3, <1>4 DEF LabelsIn

\* What follows another sequence.
LEMMA ConcatParts ==
  ASSUME NEW R, NEW s \in Seq(R), NEW q \in Seq(R)
  PROVE  /\ \A i \in DOMAIN (s \o q) : (\E j \in DOMAIN s : (s \o q)[i] = s[j]) \/ (\E j \in DOMAIN q : (s \o q)[i] = q[j])
         /\ \A l, v : IsLast(s \o q, l, v) => IsLast(s, l, v) \/ IsLast(q, l, v)
<1> DEFINE c == s \o q
<1>1. /\ Len(s) \in Nat /\ Len(q) \in Nat /\ DOMAIN s = 1 .. Len(s) /\ DOMAIN q = 1 .. Len(q)
      /\ DOMAIN c = 1 .. Len(s) + Len(q)
      /\ \A i \in 1 .. Len(s) : c[i] = s[i]
      /\ \A i \in 1 .. Len(q) : c[Len(s) + i] = q[i]
  OBVIOUS
<1> HIDE DEF c
<1>2. ASSUME NEW i \in 1 .. Len(s) + Len(q), i \notin 1 .. Len(s)
      PROVE  i - Len(s) \in 1 .. Len(q) /\ c[i] = q[i - Len(s)]
  <2>1. i - Len(s) \in 1 .. Len(q) /\ Len(s) + (i - Len(s)) = i
    BY <1>1, <1>2
  <2> QED
    BY <1>1, <2>1
<1>3. \A i \in DOMAIN c : (\E j \in DOMAIN s : c[i] = s[j]) \/ (\E j \in DOMAIN q : c[i] = q[j])
  BY <1>1, <1>2
<1>4. ASSUME NEW l, NEW v, IsLast(c, l, v)
      PROVE  IsLast(s, l, v) \/ IsLast(q, l, v)
  <2>1. PICK i \in 1 .. Len(s) + Len(q) : /\ c[i].label = l /\ c[i].vec = v
                                          /\ \A j \in 1 .. Len(s) + Len(q) : j > i => c[j].label # l
    BY <1>1, <1>4 DEF IsLast
  <2>2. CASE i \in 1 .. Len(s)
    <3>1. \A j \in 1 .. Len(s) : j \in 1 .. Len(s) + Len(q)
      BY <1>1
    <3>2. \A j \in 1 .. Len(s) : j > i => s[j].label # l
      BY <1>1, <2>1, <3>1
    <3>3. s[i].label = l /\ s[i].vec = v
      BY <1>1, <2>1, <2>2
    <3> QED
      BY <1>1, <2>2, <3>2, <3>3 DEF IsLast
  <2>3. CASE i \notin 1 .. Len(s)
    <3>1. i - Len(s) \in 1 .. Len(q) /\ q[i - Len(s)].label = l /\ q[i - Len(s)].vec = v
      BY <1>2, <2>1, <2>3
    <3>2. ASSUME NEW j \in 1 .. Len(q), j > i - Len(s) PROVE q[j].label # l
      <4>1. Len(s) + j \in 1 .. Len(s) + Len(q) /\ Len(s) + j > i
        BY <1>1, <3>2
      <4> QED
        BY <1>1, <2>1, <4>1
    <3> QED
      BY <1>1, <3>1, <3>2 DEF IsLast
  <2> QED
    BY <2>2, <2>3
<1> QED
  BY <1>3, <1>4 DEF c

\* A label that occurs occurs a last time.
LEMMA LastExists ==
  ASSUME NEW s \in Records, NEW l \in LabelsIn(s)
  PROVE  \E v \in Vectors : IsLast(s, l, v)
<1> DEFINE I == {i \in 1 .. Len(s) : s[i].label = l}
<1>1. Len(s) \in Nat /\ DOMAIN s = 1 .. Len(s)
  BY DEF Records
<1>2. I \in SUBSET (1 .. Len(s)) /\ I # {}
  BY <1>1 DEF LabelsIn
<1>3. Max(I) \in I /\ \A x \in I : x <= Max(I)
  <2> HIDE DEF I
  <2> QED
    BY <1>1, <1>2, GreatestIndex
<1> DEFINE k == Max(I)
<1>4. k \in 1 .. Len(s) /\ s[k].label = l /\ \A j \in 1 .. Len(s) : s[j].label = l => j <= k
  BY <1>3
<1> HIDE DEF k, I
<1>5. \A j \in 1 .. Len(s) : j > k => s[j].label # l
  BY <1>1, <1>4
<1>6. s[k].vec \in Vectors
  BY <1>1, <1>4, RecordVecs
<1> QED
  BY <1>1, <1>4, <1>5, <1>6 DEF IsLast

\* Sequences and indexes numbered up to the clock.
LEMMA UpToMore ==
  ASSUME NEW c \in Nat, NEW d \in Nat, c <= d, NEW s \in Todos, UpTo(s, c)
  PROVE  UpTo(s, d)
<1>1. \A i \in DOMAIN s : s[i].vec \in Nat
  BY RecordVecs
<1> QED
  BY <1>1 DEF UpTo

\* Likewise an index.
LEMMA IndexUpToMore ==
  ASSUME NEW c \in Nat, NEW d \in Nat, c <= d, NEW h, IndexOk(h), IndexUpTo(h, c)
  PROVE  IndexUpTo(h, d)
<1>1. \A n \in DOMAIN h.nodes : h.nodes[n].vec \in Nat
  BY IndexParts, VectorNat
<1> QED
  BY <1>1 DEF IndexUpTo

\* Likewise without the first record.
LEMMA UpToTail ==
  ASSUME NEW c, NEW s \in Todos, s # <<>>, UpTo(s, c)
  PROVE  UpTo(Tail(s), c) /\ Head(s).vec <= c
<1> DEFINE R == [label : AllLabels, vec : Vectors]
           q == Tail(s)
<1>1. s \in Seq(R)
  BY DEF Todos
<1> HIDE DEF R
<1>2. /\ Len(s) \in Nat /\ Len(s) > 0 /\ DOMAIN s = 1 .. Len(s) /\ DOMAIN q = 1 .. Len(s) - 1
      /\ \A i \in 1 .. Len(s) - 1 : q[i] = s[i + 1]
      /\ Head(s) = s[1]
  BY <1>1
<1> HIDE DEF q
<1>3. 1 \in DOMAIN s /\ \A i \in 1 .. Len(s) - 1 : i + 1 \in DOMAIN s
  BY <1>2
<1> QED
  BY <1>2, <1>3 DEF UpTo, q

\* An empty sequence is numbered.
LEMMA NoneUpTo == \A c : UpTo(<<>>, c)
BY DEF UpTo

\* So are two sequences in a row.
LEMMA ConcatUpTo ==
  ASSUME NEW c, NEW s \in Records, NEW q \in Records, UpTo(s, c), UpTo(q, c)
  PROVE  UpTo(s \o q, c)
<1>1. \A i \in DOMAIN (s \o q) : (\E j \in DOMAIN s : (s \o q)[i] = s[j]) \/ (\E j \in DOMAIN q : (s \o q)[i] = q[j])
  BY ConcatParts DEF Records
<1> QED
  BY <1>1 DEF UpTo

\* So is a new index, whose memory is zeroed.
LEMMA NewUpTo == \A m \in Nat : \A c \in Nat : IndexUpTo(NewIndex(m), c)
BY DEF IndexUpTo, NewIndex, Blank

\* The index file is numbered as its index is.
LEMMA KeptUpTo ==
  ASSUME NEW c, FileOk, db.kind = "saved" => IndexUpTo(db.index, c), NEW l \in DOMAIN kept
  PROVE  kept[l] <= c
<1>1. db.kind = "saved" /\ IndexOk(db.index) /\ kept = Content(db.index)
  BY DEF FileOk, Nothing
<1>2. l \in DOMAIN db.index.lookup /\ db.index.lookup[l] \in DOMAIN db.index.nodes
  BY <1>1, OwnElement DEF Content
<1> QED
  BY <1>1, <1>2 DEF Content, IndexUpTo

\* Everything stays numbered when the clock goes on.
LEMMA NumberedMore ==
  ASSUME LifeInv, Numbered, NEW d \in Nat, clock <= d
  PROVE  NumberedTo(d)
<1>1. /\ clock \in Nat /\ IndexOk(index) /\ ins[USER].todo \in Todos /\ ins[BG].todo \in Todos
      /\ delta \in Todos /\ log.records \in Todos
  <2>1. ApiTypes /\ HnswInv
    BY DEF LifeInv
  <2>2. delta \in Records /\ log.records \in Records
    BY <2>1 DEF ApiTypes
  <2> QED
    BY <2>1, <2>2, WritersLemma, ClockLemma, InsertParts DEF HnswInv
<1>2. db.kind = "saved" => IndexOk(db.index)
  BY DEF LifeInv, FileOk, Absent, Torn
<1>3. /\ IndexUpTo(index, clock) /\ UpTo(ins[USER].todo, clock) /\ UpTo(ins[BG].todo, clock)
      /\ UpTo(delta, clock) /\ UpTo(log.records, clock)
      /\ db.kind = "saved" => IndexUpTo(db.index, clock)
  BY DEF Numbered, NumberedTo
<1>4. IndexUpTo(index, d) /\ (db.kind = "saved" => IndexUpTo(db.index, d))
  BY <1>1, <1>2, <1>3, IndexUpToMore
<1>5. UpTo(ins[USER].todo, d) /\ UpTo(ins[BG].todo, d) /\ UpTo(delta, d) /\ UpTo(log.records, d)
  BY <1>1, <1>3, UpToMore
<1> QED
  BY <1>4, <1>5 DEF NumberedTo

\* An insert writes what it was called with.
LEMMA InsertUpTo ==
  ASSUME LifeInv, NEW t \in Writers, InsertStep(t), Wrote(index, ins[t]), IndexUpTo(index, clock), UpTo(ins[t].todo, clock)
  PROVE  IndexUpTo(index', clock) /\ UpTo(ins'[t].todo, clock)
<1>1. VecsTo(index, index', ins[t], ins'[t]) /\ ins[t].todo # <<>> /\ ins[t].todo \in Todos
  BY InsertStepVecs, StepHasWork DEF LifeInv
<1>2. UpTo(Tail(ins[t].todo), clock) /\ Head(ins[t].todo).vec <= clock
  BY <1>1, UpToTail
<1>3. IndexUpTo(index', clock)
  BY <1>1, <1>2 DEF VecsTo, Grows, IndexUpTo
<1>4. UpTo(ins'[t].todo, clock)
  BY <1>1, <1>2 DEF VecsTo
<1> QED
  BY <1>3, <1>4

\* The delta file gets records of the buffer, or none; once it is out of step it stays so.
FromDelta(q) == q \in Records /\ \A i \in DOMAIN q : \E k \in DOMAIN delta : q[i] = delta[k]
LogGrows ==
  \E q : FromDelta(q) /\ log'.records = log.records \o q /\ (log'.tail # "garbled" => log.tail # "garbled")
\* A file that stays is one that got no records.
LEMMA LogStays ==
  ASSUME LifeInv, log' = log
  PROVE  LogGrows
<1>1. log.records \in Records /\ <<>> \in Records
  BY WritersLemma DEF LifeInv, ApiTypes
<1>2. log.records \o <<>> = log.records
  BY <1>1 DEF Records
<1>3. FromDelta(<<>>)
  BY <1>1 DEF FromDelta
<1> QED
  BY <1>2, <1>3 DEF LogGrows

\* A flush.
LEMMA AppendedGrows ==
  ASSUME LifeInv, NEW q, FromDelta(q), log'.records = Appended(q).records,
         log'.tail # "garbled" => Appended(q).tail # "garbled"
  PROVE  LogGrows
<1>1. /\ log.records \in Records /\ <<>> \in Records /\ log.tail \in {"whole", "torn", "garbled"}
      /\ log = [records |-> log.records, tail |-> log.tail]
  BY WritersLemma DEF LifeInv, ApiTypes
<1>2. CASE log.tail = "whole"
  <2>1. Appended(q) = [log EXCEPT !.records = @ \o q]
    BY <1>2 DEF Appended
  <2> DEFINE r == log.records \o q
  <2>2. Appended(q) = [log EXCEPT !.records = r]
    BY <2>1
  <2> HIDE DEF r
  <2>3. Appended(q).records = r
    BY <1>1, <2>2
  <2> QED
    BY <1>2, <2>3 DEF LogGrows, r
<1>3. CASE log.tail # "whole"
  <2>1. Appended(q).records = log.records /\ (Appended(q).tail # "garbled" => log.tail # "garbled")
    BY <1>1, <1>3 DEF Appended
  <2>2. log.records \o <<>> = log.records
    BY <1>1 DEF Records
  <2>3. FromDelta(<<>>)
    BY <1>1 DEF FromDelta
  <2> QED
    BY <2>1, <2>2, <2>3 DEF LogGrows
<1> QED
  BY <1>2, <1>3

\* A flush that a crash cuts short.
LEMMA CrashGrows ==
  ASSUME LifeInv, ApiCrash
  PROVE  LogGrows
<1>1. CASE UNCHANGED log
  BY <1>1, LogStays
<1>2. ASSUME NEW n \in 0 .. Len(delta) - 1, NEW torn \in BOOLEAN,
             log' = [Appended(SubSeq(delta, 1, n)) EXCEPT
                       !.tail = IF ~torn THEN @ ELSE IF log.tail = "whole" THEN "torn" ELSE "garbled"]
      PROVE  LogGrows
  <2> DEFINE q == SubSeq(delta, 1, n)
             R == [label : Labels, vec : Vectors]
  <2>1. delta \in Seq(R) /\ log \in Logs
    BY DEF LifeInv, ApiTypes, Records, Logs
  <2>2. FromDelta(q)
    <3>1. q \in Records
      BY <2>1, PrefixLemma DEF Records
    <3> HIDE DEF R
    <3>2. \A i \in DOMAIN q : i \in DOMAIN delta /\ q[i] = delta[i]
      BY <2>1
    <3> QED
      BY <3>1, <3>2 DEF FromDelta
  <2>3. Appended(q) \in Logs
    BY <2>1, <2>2, AppendedLemma DEF FromDelta
  <2> DEFINE a == Appended(q)
             tail == IF ~torn THEN a.tail ELSE IF log.tail = "whole" THEN "torn" ELSE "garbled"
  <2>4. log' = [a EXCEPT !.tail = tail]
    BY <1>2
  <2>5. tail # "garbled" => a.tail # "garbled"
    <3>1. CASE ~torn
      BY <3>1
    <3>2. CASE torn /\ log.tail = "whole"
      BY <2>1, <3>2 DEF Appended, Logs
    <3>3. CASE torn /\ log.tail # "whole"
      BY <3>3
    <3> QED
      BY <3>1, <3>2, <3>3
  <2> HIDE DEF q, tail
  <2>6. a = [records |-> a.records, tail |-> a.tail]
    BY <2>3 DEF Logs
  <2> HIDE DEF a
  <2>7. log'.records = a.records /\ log'.tail = tail
    BY <2>4, <2>6
  <2> QED
    BY <2>2, <2>5, <2>7, AppendedGrows DEF a
<1> QED
  BY <1>1, <1>2 DEF ApiCrash

\* So it stays numbered.
LEMMA LogUpTo ==
  ASSUME LifeInv, Numbered, LogGrows
  PROVE  UpTo(log'.records, clock)
<1>1. log.records \in Records /\ UpTo(log.records, clock) /\ UpTo(delta, clock)
  BY DEF LifeInv, ApiTypes, Numbered, NumberedTo
<1>2. PICK q : FromDelta(q) /\ log'.records = log.records \o q
  BY DEF LogGrows
<1>3. UpTo(q, clock) /\ q \in Records
  BY <1>1, <1>2 DEF FromDelta, UpTo
<1> QED
  BY <1>1, <1>2, <1>3, ConcatUpTo

\* Everything stays numbered, call by call.
LEMMA InsertNumbered ==
  ASSUME LifeInv, Numbered, NEW l \in Labels, Insert(l)
  PROVE  Numbered'
<1>1. clock \in Nat /\ clock' = clock + 1 /\ clock' \in Nat /\ clock <= clock'
  BY ClockLemma DEF LifeInv, Insert
<1>2. NumberedTo(clock')
  BY <1>1, NumberedMore
<1>3. delta \in Records /\ delta' = Append(delta, Record(l)) /\ Record(l).vec = clock'
  BY <1>1 DEF LifeInv, ApiTypes, Insert, Record
<1>4. UpTo(delta', clock')
  <2> DEFINE R == [label : Labels, vec : Vectors]
             r == Record(l)
             q == Append(delta, r)
  <2> HIDE DEF R, r
  <2>1. delta \in Seq(R) /\ UpTo(delta, clock')
    BY <1>2, <1>3 DEF Records, R, NumberedTo
  <2>2. /\ Len(delta) \in Nat /\ DOMAIN delta = 1 .. Len(delta) /\ DOMAIN q = 1 .. Len(delta) + 1
        /\ \A i \in 1 .. Len(delta) : q[i] = delta[i]
        /\ q[Len(delta) + 1] = r
    BY <2>1
  <2> HIDE DEF q
  <2>3. \A i \in 1 .. Len(delta) + 1 : i \in 1 .. Len(delta) \/ i = Len(delta) + 1
    BY <2>2
  <2>4. r.vec <= clock'
    BY <1>1, <1>3 DEF r
  <2>5. UpTo(q, clock')
    BY <2>1, <2>2, <2>3, <2>4 DEF UpTo
  <2> QED
    BY <1>3, <2>5 DEF q, r
<1>5. index' = index /\ ins' = ins /\ log' = log /\ db' = db
  BY DEF Insert, hnswVars, ApiFiles
<1> QED
  BY <1>2, <1>4, <1>5 DEF Numbered, NumberedTo

\* build.
LEMMA BuildNumbered ==
  ASSUME LifeInv, Numbered, NEW batch \in Batches, Build(batch)
  PROVE  Numbered'
<1> DEFINE todo == [i \in DOMAIN batch |-> [label |-> batch[i], vec |-> clock + i]]
<1>1. ApiTypes /\ HnswInv /\ clock \in Nat /\ USER \in Writers /\ BG \in Writers /\ USER # BG
  BY ClockLemma, WritersLemma DEF LifeInv
<1>2. /\ clock' = clock + Len(batch) /\ clock + Len(batch) \in DOMAIN Coordinates /\ Begin(USER, todo)
      /\ index' = index /\ delta' = delta /\ log' = log /\ db' = db
  BY DEF Build, ApiFiles
<1>3. batch \in Seq(ToSet(batch))
  BY <1>1, <1>2, BatchLemma
<1>4. Len(batch) \in Nat /\ DOMAIN batch = 1 .. Len(batch)
  BY <1>3
<1>5. clock' \in Nat /\ clock <= clock'
  BY <1>1, <1>2, <1>4
<1>6. NumberedTo(clock')
  BY <1>5, NumberedMore
<1>7. UpTo(todo, clock')
  BY <1>1, <1>2, <1>4 DEF UpTo
<1> HIDE DEF todo
<1>8. ins'[USER].todo = todo /\ ins'[BG] = ins[BG]
  <2>1. ins'[BG] = ins[BG]
    BY <1>1, <1>2, OthersLemma DEF OthersStay
  <2> QED
    BY <1>1, <1>2, <2>1 DEF Begin, HnswInv
<1> QED
  BY <1>2, <1>6, <1>7, <1>8 DEF Numbered, NumberedTo

\* A step of an insert.
LEMMA StepNumbered ==
  ASSUME MergeInv, Numbered, NEW t \in {USER, BG}, InsertStep(t), ApiSame
  PROVE  Numbered'
<1>1. LifeInv /\ HnswInv /\ USER \in Writers /\ BG \in Writers /\ t \in Writers /\ InsertsWritten
  BY WritersLemma DEF MergeInv, LifeInv
<1>2. \A u \in {USER, BG} : u # t => ins'[u] = ins[u]
  BY <1>1, OthersLemma DEF OthersStay
<1>3. IndexUpTo(index', clock) /\ UpTo(ins'[t].todo, clock)
  BY <1>1, InsertUpTo DEF InsertsWritten, Numbered, NumberedTo
<1>4. UpTo(ins'[USER].todo, clock) /\ UpTo(ins'[BG].todo, clock)
  BY <1>2, <1>3 DEF Numbered, NumberedTo
<1> QED
  BY <1>3, <1>4 DEF Numbered, NumberedTo, ApiSame

\* A merge begins, or an insert throws.
LEMMA BeginNumbered ==
  ASSUME LifeInv, Numbered, NEW t \in {USER, BG}, NEW todo, Begin(t, todo), UpTo(todo, clock),
         index' = index, delta' = delta, log' = log, db' = db, clock' = clock
  PROVE  Numbered'
<1>1. HnswInv /\ USER \in Writers /\ BG \in Writers /\ t \in Writers
  BY WritersLemma DEF LifeInv
<1>2. \A u \in {USER, BG} : u # t => ins'[u] = ins[u]
  BY <1>1, OthersLemma DEF OthersStay
<1>3. ins'[t].todo = todo
  BY <1>1 DEF Begin, HnswInv
<1>4. UpTo(ins'[USER].todo, clock) /\ UpTo(ins'[BG].todo, clock)
  BY <1>2, <1>3 DEF Numbered, NumberedTo
<1> QED
  BY <1>4 DEF Numbered, NumberedTo

\* load.
LEMMA LoadNumbered ==
  ASSUME LifeInv, Numbered, Load
  PROVE  Numbered'
<1>1. ApiTypes /\ HnswInv /\ clock \in Nat /\ max \in Nat /\ USER \in Writers /\ BG \in Writers /\ USER # BG
  BY ClockLemma, WritersLemma DEF LifeInv, ApiTypes
<1>2. PICK g \in Garbage :
        /\ Begin(USER, IF db.kind = "torn" THEN <<>> ELSE log.records \o g)
        /\ clock' = clock + Len(g) /\ clock' \in DOMAIN Coordinates
  BY DEF Load
<1> DEFINE todo == IF db.kind = "torn" THEN <<>> ELSE log.records \o g
<1>3. clock' \in Nat /\ clock <= clock' /\ g \in Records /\ UpTo(g, clock')
  <2>1. CASE g = <<>>
    <3>1. Len(g) = 0
      BY <2>1
    <3> QED
      BY <1>1, <1>2, <2>1, <3>1, WritersLemma, NoneUpTo
  <2>2. CASE \E l \in Labels : g = <<Record(l)>>
    <3>1. PICK l \in Labels : g = <<Record(l)>>
      BY <2>2
    <3>2. Len(g) = 1 /\ DOMAIN g = {1} /\ g[1].vec = clock + 1
      BY <3>1 DEF Record
    <3>3. clock' = clock + 1 /\ clock' \in Vectors
      BY <1>2, <3>2 DEF Vectors
    <3>4. Record(l) \in [label : Labels, vec : Vectors]
      BY <3>3 DEF Record
    <3>5. g \in Records
      BY <3>1, <3>4 DEF Records
    <3> QED
      BY <1>1, <3>2, <3>3, <3>5 DEF UpTo
  <2> QED
    BY <2>1, <2>2 DEF Garbage
<1>4. NumberedTo(clock')
  BY <1>3, NumberedMore
<1>5. UpTo(todo, clock')
  <2>1. UpTo(log.records, clock') /\ log.records \in Records
    BY <1>1, <1>4 DEF NumberedTo, ApiTypes
  <2>2. UpTo(log.records \o g, clock')
    BY <1>3, <2>1, ConcatUpTo
  <2> QED
    BY <2>2, NoneUpTo
<1>6. Begin(USER, todo)
  BY <1>2
<1> HIDE DEF todo
<1>7. ins'[USER].todo = todo /\ ins'[BG] = ins[BG]
  <2>1. ins'[BG] = ins[BG]
    BY <1>1, <1>6, OthersLemma DEF OthersStay
  <2> QED
    BY <1>1, <1>6, <2>1 DEF Begin, HnswInv
<1>8. IndexUpTo(index', clock')
  <2>1. db.kind \in {"torn", "saved"}
    BY DEF LifeInv, FileOk, Absent, Torn, Load
  <2>2. CASE db.kind = "torn"
    BY <1>1, <1>3, <2>2, NewUpTo DEF Load
  <2>3. CASE db.kind = "saved"
    BY <1>4, <2>3 DEF Load, NumberedTo
  <2> QED
    BY <2>1, <2>2, <2>3
<1>9. delta' = delta /\ log' = log /\ db' = db
  BY DEF Load, ApiFiles
<1> QED
  BY <1>4, <1>5, <1>7, <1>8, <1>9 DEF Numbered, NumberedTo

\* Every call.
LEMMA NumberedKept ==
  ASSUME MergeInv, Numbered, [ApiNext]_<<hnswVars, apiVars>>
  PROVE  Numbered'
<1>0. /\ LifeInv /\ ApiTypes /\ Numbered /\ clock \in Nat /\ max \in Nat /\ USER \in {USER, BG} /\ BG \in {USER, BG}
      /\ UpTo(delta, clock)
  BY ClockLemma DEF MergeInv, LifeInv, ApiTypes, Numbered, NumberedTo
<1>1. ASSUME NEW l \in Labels, Insert(l) PROVE Numbered'
  BY <1>0, <1>1, InsertNumbered
<1>2. ASSUME NEW batch \in Batches, Build(batch) PROVE Numbered'
  BY <1>0, <1>2, BuildNumbered
<1>3. CASE Inserting
  BY <1>0, <1>3, SameLemma, StepNumbered DEF Inserting
<1>4. CASE BgInserts
  BY <1>0, <1>4, SameLemma, StepNumbered DEF BgInserts
<1>5. CASE ConsolidateLocks
  <2>1. /\ Begin(USER, delta) /\ index' = index /\ delta' = delta /\ log' = log /\ db' = db /\ clock' = clock
    BY <1>5 DEF ConsolidateLocks, ApiFiles, Bounds
  <2> QED
    BY <1>0, <2>1, BeginNumbered
<1>6. CASE BgApplies
  <2>1. /\ Begin(BG, delta) /\ index' = index /\ delta' = delta /\ log' = log /\ db' = db /\ clock' = clock
    BY <1>6 DEF BgApplies, ApiFiles, Bounds
  <2> QED
    BY <1>0, <2>1, BeginNumbered
<1>7. CASE Throws
  <2>1. /\ Begin(USER, <<>>) /\ index' = index /\ delta' = delta /\ log' = log /\ db' = db /\ clock' = clock
    BY <1>7 DEF Throws, Begin, Idle, ApiFiles, Bounds
  <2> QED
    BY <1>0, <2>1, BeginNumbered, NoneUpTo
<1>8. CASE Load
  BY <1>0, <1>8, LoadNumbered
<1>9. CASE BgFlushes
  <2>1. /\ log' = Appended(delta) /\ index' = index /\ ins' = ins /\ delta' = delta /\ db' = db /\ clock' = clock
    BY <1>9 DEF BgFlushes, hnswVars, Bounds
  <2>2. LogGrows
    <3>1. FromDelta(delta)
      BY <1>0 DEF FromDelta, ApiTypes
    <3> QED
      BY <1>0, <2>1, <3>1, AppendedGrows
  <2>3. UpTo(log'.records, clock)
    BY <1>0, <2>2, LogUpTo
  <2> QED
    BY <1>0, <2>1, <2>3 DEF Numbered, NumberedTo
<1>10. CASE Reopen \/ ApiCrash
  <2>1. LogGrows
    BY <1>0, <1>10, LogStays, CrashGrows DEF Reopen
  <2>2. UpTo(log'.records, clock)
    BY <1>0, <2>1, LogUpTo
  <2>3. /\ index' = NewIndex(max) /\ ins' = [t \in Writers |-> Idle] /\ delta' = <<>> /\ db' = db /\ clock' = clock
    BY <1>10 DEF Reopen, ApiCrash, NewLife
  <2>4. ins'[USER].todo = <<>> /\ ins'[BG].todo = <<>>
    BY <2>3, WritersLemma DEF Idle
  <2> QED
    BY <1>0, <2>2, <2>3, <2>4, NewUpTo, NoneUpTo DEF Numbered, NumberedTo
<1>11. CASE SaveOpens
  <2>1. index' = index /\ ins' = ins /\ delta' = delta /\ log' = log /\ db' = Torn /\ clock' = clock
    BY <1>11 DEF SaveOpens, hnswVars, Bounds
  <2> QED
    BY <1>0, <2>1 DEF Numbered, NumberedTo, Torn
<1>12. CASE SaveWrites
  <2>1. index' = index /\ ins' = ins /\ delta' = delta /\ log' = log /\ db'.index = index /\ clock' = clock
    BY <1>12 DEF SaveWrites, hnswVars, Bounds
  <2> QED
    BY <1>0, <2>1 DEF Numbered, NumberedTo
<1>13. ASSUME index' = index, ins' = ins, db' = db, clock' = clock, delta' \in {delta, <<>>}, log' \in {log, EmptyLog}
       PROVE  Numbered'
  BY <1>0, <1>13, NoneUpTo DEF Numbered, NumberedTo, EmptyLog
<1>14. CASE BuildReturns \/ Consolidate \/ ConsolidateChecks \/ Return \/ LoadReturns
  BY <1>13, <1>14 DEF BuildReturns, Consolidate, ConsolidateChecks, Return, LoadReturns, hnswVars, ApiFiles, Bounds
<1>15. CASE ConsolidateClears \/ ConsolidateRemoves \/ BgClears \/ BgRemoves
  BY <1>13, <1>15 DEF ConsolidateClears, ConsolidateRemoves, BgClears, BgRemoves, hnswVars, ApiFiles, Bounds, LogAfterMerge
<1>16. CASE BgWakes \/ Destroy
  BY <1>13, <1>16 DEF BgWakes, Destroy, hnswVars, ApiFiles, Bounds
<1>17. CASE UNCHANGED <<hnswVars, apiVars>>
  BY <1>13, <1>17 DEF hnswVars, apiVars
<1> QED
  BY <1>1, <1>2, <1>3, <1>4, <1>5, <1>6, <1>7, <1>8, <1>9, <1>10, <1>11, <1>12, <1>14, <1>15, <1>16, <1>17,
     Zenon DEF ApiNext

\* The buffer stays newer than the index file.
LEMMA BufferKept ==
  ASSUME MergeInv, Numbered, BufferIsNewer, [ApiNext]_<<hnswVars, apiVars>>
  PROVE  BufferIsNewer'
<1>0. LifeInv /\ ApiTypes /\ clock \in Nat
  BY ClockLemma DEF MergeInv, LifeInv
<1>1. ASSUME kept' = kept, delta' \in {delta, <<>>} PROVE BufferIsNewer'
  BY <1>1 DEF BufferIsNewer, NewerThan
<1>2. ASSUME delta' = <<>> PROVE BufferIsNewer'
  BY <1>2 DEF BufferIsNewer, NewerThan
<1>3. ASSUME NEW l \in Labels, Insert(l) PROVE BufferIsNewer'
  <2> DEFINE R == [label : Labels, vec : Vectors]
             r == Record(l)
             q == Append(delta, r)
  <2>1. delta' = q /\ kept' = kept
    BY <1>3 DEF Insert, ApiFiles
  <2>2. r.label = l /\ r.vec = clock + 1
    BY DEF Record
  <2> HIDE DEF R, r
  <2>3. delta \in Seq(R)
    BY <1>0 DEF ApiTypes, Records, R
  <2>4. /\ Len(delta) \in Nat /\ DOMAIN delta = 1 .. Len(delta) /\ DOMAIN q = 1 .. Len(delta) + 1
        /\ \A i \in 1 .. Len(delta) : q[i] = delta[i]
        /\ q[Len(delta) + 1] = r
    BY <2>3
  <2> HIDE DEF q
  <2>5. l \in DOMAIN kept => kept[l] <= clock + 1
    <3> SUFFICES ASSUME l \in DOMAIN kept PROVE kept[l] <= clock + 1
      OBVIOUS
    <3>1. kept[l] <= clock
      BY <1>0, KeptUpTo DEF LifeInv, Numbered, NumberedTo
    <3>2. kept[l] \in Nat
      BY <1>0, VectorNat DEF ApiTypes, ContentOk
    <3> QED
      BY <1>0, <3>1, <3>2
  <2>6. \A i \in 1 .. Len(delta) + 1 : i \in 1 .. Len(delta) \/ i = Len(delta) + 1
    BY <2>4
  <2>7. NewerThan(q, kept)
    BY <2>2, <2>4, <2>5, <2>6 DEF NewerThan, BufferIsNewer
  <2> QED
    BY <2>1, <2>7 DEF BufferIsNewer
<1>4. ASSUME NEW batch \in Batches, Build(batch) PROVE BufferIsNewer'
  BY <1>1, <1>4 DEF Build, ApiFiles
<1>5. CASE SaveOpens
  BY <1>5 DEF SaveOpens, BufferIsNewer, NewerThan, Nothing
<1>6. CASE SaveWrites
  BY <1>0, <1>2, <1>6 DEF SaveWrites, LifeInv, Control
<1>7. CASE BuildReturns \/ Consolidate \/ ConsolidateChecks \/ ConsolidateLocks \/ ConsolidateClears \/ ConsolidateRemoves
           \/ Throws \/ Return \/ Load \/ LoadReturns
  BY <1>1, <1>7 DEF BuildReturns, Consolidate, ConsolidateChecks, ConsolidateLocks, ConsolidateClears,
                    ConsolidateRemoves, Throws, Return, Load, LoadReturns, ApiFiles
<1>8. CASE Inserting \/ BgInserts \/ UNCHANGED <<hnswVars, apiVars>>
  BY <1>1, <1>8 DEF Inserting, BgInserts, apiVars
<1>9. CASE BgWakes \/ BgFlushes \/ BgApplies \/ BgClears \/ BgRemoves \/ Destroy \/ Reopen \/ ApiCrash
  BY <1>1, <1>9 DEF BgWakes, BgFlushes, BgApplies, BgClears, BgRemoves, Destroy, Reopen, ApiCrash, NewLife, ApiFiles
<1> QED
  BY <1>3, <1>4, <1>5, <1>6, <1>7, <1>8, <1>9, Zenon DEF ApiNext

\* The delta file stays newer than the index file.
LEMMA NoneLeft == \A c : LeavesNewer(<<>>, c)
BY NoneLast DEF LeavesNewer

\* When it gets records of the buffer.
LEMMA LogNewer ==
  ASSUME MergeInv, BufferIsNewer, LogIsNewer, LogGrows, kept' = kept, quiet' = quiet
  PROVE  LogIsNewer'
<1> SUFFICES ASSUME quiet, log'.tail # "garbled" PROVE LeavesNewer(log'.records, kept)
  BY DEF LogIsNewer
<1>1. PICK q : FromDelta(q) /\ log'.records = log.records \o q /\ log.tail # "garbled"
  BY DEF LogGrows
<1>2. log.records \in Records /\ q \in Records /\ LeavesNewer(log.records, kept)
  BY <1>1 DEF MergeInv, LifeInv, ApiTypes, FromDelta, LogIsNewer
<1>3. \A l, v : IsLast(log.records \o q, l, v) => IsLast(log.records, l, v) \/ IsLast(q, l, v)
  BY <1>2, ConcatParts DEF Records
<1>4. ASSUME NEW l \in DOMAIN kept, NEW v \in Vectors, IsLast(q, l, v) PROVE kept[l] <= v
  <2>1. PICK i \in DOMAIN q : q[i].label = l /\ q[i].vec = v
    BY <1>4 DEF IsLast
  <2>2. PICK k \in DOMAIN delta : q[i] = delta[k]
    BY <1>1 DEF FromDelta
  <2> QED
    BY <2>1, <2>2 DEF BufferIsNewer, NewerThan
<1> QED
  BY <1>1, <1>2, <1>3, <1>4 DEF LeavesNewer

\* Call by call.
LEMMA LogKept ==
  ASSUME MergeInv, BufferIsNewer, LogIsNewer, LogNotBehind, [ApiNext]_<<hnswVars, apiVars>>
  PROVE  LogIsNewer'
<1>0. LifeInv /\ ApiTypes
  BY DEF MergeInv, LifeInv
<1>1. ASSUME log' = log, kept' = kept, quiet' = quiet PROVE LogIsNewer'
  BY <1>0, <1>1, LogStays, LogNewer
<1>2. ASSUME NEW l \in Labels, Insert(l) PROVE LogIsNewer'
  BY <1>1, <1>2 DEF Insert, ApiFiles
<1>3. ASSUME NEW batch \in Batches, Build(batch) PROVE LogIsNewer'
  BY <1>1, <1>3 DEF Build, ApiFiles
<1>4. CASE ConsolidateRemoves \/ BgRemoves
  <2>1. log' = EmptyLog
    BY <1>4 DEF ConsolidateRemoves, BgRemoves, LogAfterMerge
  <2> QED
    BY <2>1, NoneLeft DEF LogIsNewer, EmptyLog
<1>5. CASE SaveOpens
  <2>1. DOMAIN kept' = {}
    BY <1>5 DEF SaveOpens, Nothing
  <2> QED
    BY <2>1 DEF LogIsNewer, LeavesNewer
<1>6. CASE SaveWrites
  BY <1>6 DEF SaveWrites, LogIsNewer, LogNotBehind
<1>7. CASE BgFlushes
  <2>1. FromDelta(delta)
    BY <1>0 DEF FromDelta, ApiTypes
  <2>2. log' = Appended(delta) /\ kept' = kept /\ quiet' = quiet
    BY <1>7 DEF BgFlushes
  <2>3. LogGrows
    BY <1>0, <2>1, <2>2, AppendedGrows
  <2> QED
    BY <2>2, <2>3, LogNewer
<1>8. CASE ApiCrash
  <2>1. kept' = kept /\ quiet' = quiet
    BY <1>8 DEF ApiCrash, NewLife
  <2> QED
    BY <1>0, <1>8, <2>1, CrashGrows, LogNewer
<1>9. CASE BuildReturns \/ Consolidate \/ ConsolidateChecks \/ ConsolidateLocks \/ ConsolidateClears
           \/ Throws \/ Return \/ Load \/ LoadReturns
  BY <1>1, <1>9 DEF BuildReturns, Consolidate, ConsolidateChecks, ConsolidateLocks, ConsolidateClears,
                    Throws, Return, Load, LoadReturns, ApiFiles
<1>10. CASE Inserting \/ BgInserts \/ UNCHANGED <<hnswVars, apiVars>>
  BY <1>1, <1>10 DEF Inserting, BgInserts, apiVars
<1>11. CASE BgWakes \/ BgApplies \/ BgClears \/ Destroy \/ Reopen
  BY <1>1, <1>11 DEF BgWakes, BgApplies, BgClears, Destroy, Reopen, NewLife, ApiFiles
<1> QED
  BY <1>2, <1>3, <1>4, <1>5, <1>6, <1>7, <1>8, <1>9, <1>10, <1>11, Zenon DEF ApiNext

\* While no merge is under way it is not behind the index.
LEMMA BuildNotBehind ==
  ASSUME MergeInv, LogNotBehind, user.pc = "inserting", InsertStep(USER), ApiSame
  PROVE  LogNotBehind'
<1> DEFINE h == index
           g == index'
           i == ins[USER]
<1>1. LifeInv /\ HnswInv /\ InsertsWritten /\ USER \in Writers /\ log.records \in Records /\ IndexOk(h)
  BY WritersLemma DEF MergeInv, LifeInv, ApiTypes, HnswInv
<1>2. VecsTo(h, g, i, ins'[USER]) /\ LookupStays(h, g)
  BY <1>1, InsertStepVecs, InsertStepOk DEF InsertsWritten, StepOk, StepsTo, LookupStays
<1>3. Head(i.todo).label \notin Labels
  <2>1. Head(i.todo).label \in LabelsIn(i.todo)
    BY <1>1, StepHasWork, HeadIn
  <2> QED
    BY <2>1 DEF MergeInv, MergesGoOn
<1>4. LabelsIn(log.records) \subseteq Labels
  BY <1>1, RecordVecs
<1> HIDE DEF h, g, i
<1>5. ASSUME NEW l \in DOMAIN g.lookup, l \in Labels
      PROVE  l \in DOMAIN h.lookup /\ Content(g)[l] = Content(h)[l]
  <2>1. l \in DOMAIN h.lookup /\ l # Head(i.todo).label
    BY <1>2, <1>3, <1>5 DEF VecsTo, Grows
  <2>2. g.lookup[l] = h.lookup[l] /\ g.nodes[h.lookup[l]].vec = h.nodes[h.lookup[l]].vec
    BY <1>2, <2>1 DEF VecsTo, LookupStays
  <2> QED
    BY <1>5, <2>1, <2>2 DEF Content
<1>6. DOMAIN Content(g) = DOMAIN g.lookup /\ DOMAIN Content(h) = DOMAIN h.lookup
  BY DEF Content
<1>7. LeavesNewer(log.records, Content(h)) => LeavesNewer(log.records, Content(g))
  <2> SUFFICES ASSUME LeavesNewer(log.records, Content(h)), NEW l \in DOMAIN g.lookup, NEW v \in Vectors,
                      IsLast(log.records, l, v)
               PROVE  Content(g)[l] <= v
    BY <1>6 DEF LeavesNewer
  <2>1. l \in Labels
    BY <1>4, LastIn
  <2>2. l \in DOMAIN h.lookup /\ Content(g)[l] = Content(h)[l]
    BY <1>5, <2>1
  <2> QED
    BY <1>6, <2>2 DEF LeavesNewer
<1> QED
  BY <1>7 DEF LogNotBehind, ApiSame, h, g

\* When it has been replayed it is what the index has.
LEMMA ReplayedNotBehind ==
  ASSUME MergeInv, ReplayGoesOn, LoadReturns
  PROVE  LogNotBehind'
<1>1. /\ LifeInv /\ log.records \in Records /\ LabelsIn(log.records) \subseteq Labels
      /\ user.pc = "replaying" /\ ~Working(USER) /\ index' = index /\ log' = log
  BY RecordVecs DEF MergeInv, LifeInv, ApiTypes, LoadReturns, hnswVars, ApiFiles
<1>2. ins[USER].todo = <<>>
  BY <1>1, NothingToDo
<1> SUFFICES ASSUME log.tail # "garbled", NEW l \in DOMAIN Content(index), NEW v \in Vectors, IsLast(log.records, l, v)
             PROVE  Content(index)[l] <= v
  BY <1>1 DEF LogNotBehind, LeavesNewer
<1>3. l \in Labels
  BY <1>1, LastIn
<1>4. Has(index, l, v)
  BY <1>1, <1>2, <1>3, NoneLast DEF ReplayGoesOn, InsertedFrom, Pending
<1>5. Content(index)[l] = v /\ v \in Nat
  BY <1>4, VectorNat DEF Has, Content
<1> QED
  BY <1>5

\* Call by call.
LEMMA BehindKept ==
  ASSUME MergeInv, LogNotBehind, ReplayGoesOn, [ApiNext]_<<hnswVars, apiVars>>
  PROVE  LogNotBehind'
<1>0. LifeInv /\ user = [pc |-> user.pc, call |-> user.call]
  BY DEF MergeInv, LifeInv, ApiTypes
<1>1. ASSUME index' = index, log' = log, bg' \in {"wait", "ended"} => bg \in {"wait", "ended"},
             user'.pc \notin {"merging", "remove", "threw", "replaying"} =>
               user.pc \notin {"merging", "remove", "threw", "replaying"}
      PROVE  LogNotBehind'
  BY <1>1 DEF LogNotBehind
<1>2. ASSUME NEW l \in Labels, Insert(l) PROVE LogNotBehind'
  BY <1>1, <1>2 DEF Insert, ApiFiles, hnswVars
<1>3. ASSUME NEW batch \in Batches, Build(batch) PROVE LogNotBehind'
  BY <1>1, <1>3 DEF Build, ApiFiles, Call, AtRest
<1>4. CASE ConsolidateRemoves \/ BgRemoves
  <2>1. log' = EmptyLog
    BY <1>4 DEF ConsolidateRemoves, BgRemoves, LogAfterMerge
  <2> QED
    BY <2>1, NoneLeft DEF LogNotBehind, EmptyLog
<1>5. CASE Inserting
  <2>1. ApiSame /\ InsertStep(USER)
    BY <1>5, SameLemma DEF Inserting
  <2>2. CASE user.pc = "inserting"
    BY <2>1, <2>2, BuildNotBehind
  <2>3. CASE user.pc # "inserting"
    BY <1>5, <2>1, <2>3 DEF Inserting, LogNotBehind, ApiSame
  <2> QED
    BY <2>2, <2>3
<1>6. CASE LoadReturns
  BY <1>6, ReplayedNotBehind
<1>7. CASE ConsolidateLocks \/ ConsolidateClears \/ Throws
  BY <1>0, <1>7 DEF ConsolidateLocks, ConsolidateClears, Throws, Goto, LogNotBehind
<1>8. CASE Load
  BY <1>8 DEF Load, Call, LogNotBehind
<1>9. CASE BgFlushes \/ BgApplies \/ BgClears
  BY <1>9 DEF BgFlushes, BgApplies, BgClears, LogNotBehind
<1>10. CASE BgInserts
  <2>1. bg' = "merging"
    BY <1>10, SameLemma DEF BgInserts, ApiSame
  <2> QED
    BY <2>1 DEF LogNotBehind
<1>11. CASE Reopen \/ ApiCrash
  <2>1. DOMAIN Content(index') = {}
    <3>1. index' = NewIndex(max)
      BY <1>11 DEF Reopen, ApiCrash, NewLife
    <3>2. DOMAIN NewIndex(max).lookup = {}
      BY DEF NewIndex
    <3> QED
      BY <3>1, <3>2 DEF Content
  <2> QED
    BY <2>1 DEF LogNotBehind, LeavesNewer
<1>12. CASE BuildReturns \/ Consolidate \/ ConsolidateChecks \/ SaveOpens \/ SaveWrites \/ Return
  BY <1>0, <1>1, <1>12 DEF BuildReturns, Consolidate, ConsolidateChecks, SaveOpens, SaveWrites, Return, Goto, Call,
                           AtRest, hnswVars, ApiFiles
<1>13. CASE BgWakes \/ Destroy
  BY <1>1, <1>13 DEF BgWakes, Destroy, hnswVars, ApiFiles
<1>14. CASE UNCHANGED <<hnswVars, apiVars>>
  BY <1>1, <1>14 DEF hnswVars, apiVars
<1> QED
  BY <1>2, <1>3, <1>4, <1>5, <1>6, <1>7, <1>8, <1>9, <1>10, <1>11, <1>12, <1>13, <1>14, Zenon DEF ApiNext

\* A load alone goes on while it inserts, and until it is returned from.
LEMMA NoneWhileLoading ==
  ASSUME LifeInv, user.call = "load"
  PROVE  ~(BgWakes \/ BgFlushes \/ BgApplies \/ BgInserts \/ BgClears \/ BgRemoves)
<1>1. bg = "wait" /\ delta = <<>> /\ ~stopBg
  BY DEF LifeInv, Control
<1> QED
  BY <1>1 DEF BgWakes, BgFlushes, BgApplies, BgInserts, BgClears, BgRemoves

\* load begins with the index file.
LEMMA ReplayBegins ==
  ASSUME MergeInv, Load
  PROVE  ReplayGoesOn'
<1>1. LifeInv /\ HnswInv /\ ApiTypes /\ FileOk /\ USER \in Writers
  BY WritersLemma DEF MergeInv, LifeInv
<1>2. log' = log /\ kept' = kept
  BY DEF Load, ApiFiles
<1> SUFFICES ASSUME user'.pc = "replaying", log.tail # "garbled"
             PROVE  InsertedFrom(index', log.records, ins'[USER].todo) /\ OverFile(index', log.records, kept)
  BY <1>2 DEF ReplayGoesOn
<1>3. db.kind # "torn" /\ db.kind # "absent"
  BY DEF Load, Call
<1>4. index' = db.index /\ kept = Content(db.index)
  BY <1>1, <1>3 DEF Load, FileOk, Absent, Torn
<1>5. log.records \in Records /\ log.records \o <<>> = log.records
  <2>1. log.records \in Records
    BY <1>1 DEF ApiTypes
  <2> QED
    BY <2>1 DEF Records
<1>6. ins'[USER].todo = log.records
  <2>1. Begin(USER, log.records)
    <3>1. Garbage = {<<>>}
      BY DEF Garbage
    <3>2. PICK g \in Garbage : Begin(USER, IF db.kind = "torn" THEN <<>> ELSE log.records \o g)
      BY DEF Load
    <3>3. g = <<>>
      BY <3>1, <3>2
    <3> QED
      BY <1>3, <1>5, <3>2, <3>3
  <2> QED
    BY <1>1, <2>1 DEF Begin, HnswInv
<1>7. OverFile(index', log.records, kept)
  BY <1>4 DEF OverFile, Has, Content
<1> QED
  BY <1>6, <1>7, AllToInsert

\* A step of the replay.
LEMMA ReplayInserts ==
  ASSUME MergeInv, ReplayGoesOn, InsertStep(USER), ApiSame
  PROVE  ReplayGoesOn'
<1> DEFINE h == index
           g == index'
           i == ins[USER]
           j == ins'[USER]
<1>1. LifeInv /\ HnswInv /\ InsertsWritten /\ USER \in Writers
  BY WritersLemma DEF MergeInv, LifeInv
<1>2. VecsTo(h, g, i, j) /\ LookupStays(h, g) /\ i.todo # <<>> /\ i.todo \in Todos
  BY <1>1, InsertStepVecs, InsertStepOk, StepHasWork DEF InsertsWritten, StepOk, StepsTo, LookupStays
<1>3. Head(i.todo).label \in LabelsIn(i.todo)
  BY <1>2, HeadIn
<1> HIDE DEF h, g, i, j
<1>4. ASSUME user.pc = "replaying", log.tail # "garbled"
      PROVE  InsertedFrom(g, log.records, j.todo) /\ OverFile(g, log.records, kept)
  <2>1. InsertedFrom(h, log.records, i.todo) /\ OverFile(h, log.records, kept)
    BY <1>4 DEF ReplayGoesOn, h, i
  <2>2. InsertedFrom(g, log.records, j.todo)
    BY <1>2, <2>1, InsertedFromStays
  <2>3. ASSUME NEW l \in DOMAIN kept PROVE l \in DOMAIN g.lookup /\ (l \notin LabelsIn(log.records) => Has(g, l, kept[l]))
    <3>1. l \in DOMAIN h.lookup /\ (l \notin LabelsIn(log.records) => Has(h, l, kept[l]))
      BY <2>1 DEF OverFile
    <3>2. l \in DOMAIN g.lookup
      BY <1>2, <3>1 DEF LookupStays
    <3>3. ASSUME l \notin LabelsIn(log.records) PROVE Has(g, l, kept[l])
      <4>1. l # Head(i.todo).label
        BY <1>3, <2>1, <3>3 DEF InsertedFrom
      <4> QED
        BY <1>2, <3>1, <3>3, <4>1, HasStays
    <3> QED
      BY <3>2, <3>3
  <2> QED
    BY <2>2, <2>3 DEF OverFile
<1> QED
  BY <1>4 DEF ReplayGoesOn, ApiSame, g, j

\* Call by call.
LEMMA ReplayKept ==
  ASSUME MergeInv, ReplayGoesOn, [ApiNext]_<<hnswVars, apiVars>>
  PROVE  ReplayGoesOn'
<1>0. /\ LifeInv /\ user = [pc |-> user.pc, call |-> user.call]
      /\ user.pc = "replaying" => user.call = "load"
  BY DEF MergeInv, LifeInv, ApiTypes, Control
<1>10. \A pc : Goto(pc) => user'.pc = pc /\ user'.call = user.call
  BY <1>0 DEF Goto
<1>1. ASSUME user'.pc # "replaying" PROVE ReplayGoesOn'
  BY <1>1 DEF ReplayGoesOn
<1>2. CASE Load
  BY <1>2, ReplayBegins
<1>3. CASE Inserting
  BY <1>3, SameLemma, ReplayInserts DEF Inserting
<1>4. CASE BgWakes \/ BgFlushes \/ BgApplies \/ BgInserts \/ BgClears \/ BgRemoves
  <2>1. user' = user
    BY <1>4 DEF BgWakes, BgFlushes, BgApplies, BgInserts, BgClears, BgRemoves, apiVars
  <2>2. user.pc # "replaying"
    BY <1>0, <1>4, NoneWhileLoading
  <2> QED
    BY <1>1, <2>1, <2>2
<1>5. ASSUME NEW l \in Labels, Insert(l) PROVE ReplayGoesOn'
  BY <1>1, <1>5 DEF Insert, AtRest
<1>6. ASSUME NEW batch \in Batches, Build(batch) PROVE ReplayGoesOn'
  BY <1>1, <1>6 DEF Build, Call
<1>7. CASE BuildReturns \/ Consolidate \/ ConsolidateChecks \/ ConsolidateLocks \/ ConsolidateClears \/ ConsolidateRemoves
  <2>1. user'.pc # "replaying"
    <3>1. CASE Consolidate
      BY <3>1 DEF Consolidate, Call
    <3>2. CASE ~Consolidate
      <4>1. Goto("done") \/ Goto("open") \/ Goto("lock") \/ Goto("merging") \/ Goto("remove")
        BY <1>7, <3>2, Zenon DEF BuildReturns, ConsolidateChecks, ConsolidateLocks, ConsolidateClears, ConsolidateRemoves,
                                 AfterMerge
      <4> QED
        BY <1>10, <4>1
    <3> QED
      BY <3>1, <3>2
  <2> QED
    BY <1>1, <2>1
<1>8. CASE SaveOpens \/ SaveWrites \/ Throws \/ LoadReturns
  <2>1. user'.pc # "replaying"
    <3>1. Goto("write") \/ Goto("done") \/ Goto("threw")
      BY <1>8 DEF SaveOpens, SaveWrites, Throws, LoadReturns
    <3> QED
      BY <1>10, <3>1
  <2> QED
    BY <1>1, <2>1
<1>11. CASE Return \/ Destroy \/ Reopen \/ ApiCrash
  <2>1. user' = AtRest
    BY <1>11 DEF Return, Destroy, Reopen, ApiCrash, NewLife
  <2> QED
    BY <1>1, <2>1 DEF AtRest
<1>9. CASE UNCHANGED <<hnswVars, apiVars>>
  BY <1>9 DEF hnswVars, apiVars, ReplayGoesOn
<1> QED
  BY <1>2, <1>3, <1>4, <1>5, <1>6, <1>7, <1>8, <1>9, <1>11, Zenon DEF ApiNext

\* What is in the index file is in the index when load has returned, or something newer.
LEMMA LoadedNewer ==
  ASSUME MergeInv, LogIsNewer, ReplayGoesOn, LoadReturns
  PROVE  QuietSaveComesBack'
<1>1. /\ LifeInv /\ ApiTypes /\ log.records \in Records /\ LabelsIn(log.records) \subseteq Labels
      /\ user.pc = "replaying" /\ ~Working(USER) /\ index' = index /\ log' = log /\ kept' = kept /\ quiet' = quiet
  BY RecordVecs DEF MergeInv, LifeInv, ApiTypes, LoadReturns, hnswVars, ApiFiles
<1>2. ins[USER].todo = <<>>
  BY <1>1, NothingToDo
<1> SUFFICES ASSUME quiet, log.tail # "garbled", NEW l \in DOMAIN kept
             PROVE  l \in DOMAIN index.lookup /\ Content(index)[l] >= kept[l]
  BY <1>1 DEF QuietSaveComesBack, SavedComesBack
<1>3. l \in DOMAIN index.lookup /\ (l \notin LabelsIn(log.records) => Has(index, l, kept[l]))
  BY <1>1 DEF ReplayGoesOn, OverFile
<1>4. kept[l] \in Nat
  BY <1>1, VectorNat DEF ApiTypes, ContentOk
<1>5. CASE l \notin LabelsIn(log.records)
  <2>1. Content(index)[l] = kept[l]
    BY <1>3, <1>5 DEF Has, Content
  <2> QED
    BY <1>3, <1>4, <2>1
<1>6. CASE l \in LabelsIn(log.records)
  <2>1. PICK v \in Vectors : IsLast(log.records, l, v)
    BY <1>1, <1>6, LastExists
  <2>2. kept[l] <= v /\ v \in Nat
    BY <2>1, VectorNat DEF LogIsNewer, LeavesNewer
  <2>3. Has(index, l, v)
    BY <1>1, <1>2, <1>6, <2>1, NoneLast DEF ReplayGoesOn, InsertedFrom, Pending
  <2>4. Content(index)[l] = v
    BY <2>3 DEF Has, Content
  <2> QED
    BY <1>3, <1>4, <2>2, <2>4
<1> QED
  BY <1>5, <1>6

\* Call by call.
LEMMA LoadedKept ==
  ASSUME MergeInv, LogIsNewer, ReplayGoesOn, QuietSaveComesBack, [ApiNext]_<<hnswVars, apiVars>>
  PROVE  QuietSaveComesBack'
<1>0. /\ LifeInv /\ user = [pc |-> user.pc, call |-> user.call]
      /\ user.pc = "inserting" => user.call # "load"
      /\ user.pc \in {"check", "lock", "merging", "remove", "open", "write"} => user.call # "load"
  BY DEF MergeInv, LifeInv, ApiTypes, Control, Merging
<1>10. \A pc : Goto(pc) => user'.pc = pc /\ user'.call = user.call
  BY <1>0 DEF Goto
<1>1. ASSUME user'.pc # "done" \/ user'.call # "load" PROVE QuietSaveComesBack'
  BY <1>1 DEF QuietSaveComesBack, SavedComesBack
<1>2. CASE LoadReturns
  BY <1>2, LoadedNewer
<1>3. CASE Inserting
  <2>1. user' = user /\ user.pc # "done"
    BY <1>3 DEF Inserting, apiVars
  <2> QED
    BY <1>1, <2>1
<1>4. CASE BgWakes \/ BgFlushes \/ BgApplies \/ BgInserts \/ BgClears \/ BgRemoves
  <2>1. user' = user
    BY <1>4 DEF BgWakes, BgFlushes, BgApplies, BgInserts, BgClears, BgRemoves, apiVars
  <2>2. user.call # "load"
    BY <1>0, <1>4, NoneWhileLoading
  <2> QED
    BY <1>1, <2>1, <2>2
<1>5. ASSUME NEW l \in Labels, Insert(l) PROVE QuietSaveComesBack'
  BY <1>1, <1>5 DEF Insert, AtRest
<1>6. ASSUME NEW batch \in Batches, Build(batch) PROVE QuietSaveComesBack'
  BY <1>1, <1>6 DEF Build, Call
<1>7. CASE BuildReturns \/ Consolidate \/ ConsolidateChecks \/ ConsolidateLocks \/ ConsolidateClears \/ ConsolidateRemoves
  <2>1. user'.pc # "done" \/ user'.call # "load"
    <3>1. CASE Consolidate
      BY <3>1 DEF Consolidate, Call
    <3>2. CASE ~Consolidate
      BY <1>0, <1>7, <1>10, <3>2 DEF BuildReturns, ConsolidateChecks, ConsolidateLocks, ConsolidateClears, ConsolidateRemoves,
                               AfterMerge
    <3> QED
      BY <3>1, <3>2
  <2> QED
    BY <1>1, <2>1
<1>8. CASE SaveOpens \/ SaveWrites \/ Throws
  <2>1. user'.pc # "done" \/ user'.call # "load"
    <3>1. Goto("write") \/ Goto("threw") \/ (Goto("done") /\ user.pc = "write")
      BY <1>8 DEF SaveOpens, SaveWrites, Throws
    <3> QED
      BY <1>0, <1>10, <3>1
  <2> QED
    BY <1>1, <2>1
<1>11. CASE Return \/ Load \/ Destroy \/ Reopen \/ ApiCrash
  <2>1. CASE Load
    <3>1. user'.pc = "threw" \/ user'.pc = "replaying"
      BY <2>1 DEF Load, Call
    <3> QED
      BY <1>1, <3>1
  <2>2. CASE Return \/ Destroy \/ Reopen \/ ApiCrash
    <3>1. user' = AtRest
      BY <2>2 DEF Return, Destroy, Reopen, ApiCrash, NewLife
    <3> QED
      BY <1>1, <3>1 DEF AtRest
  <2> QED
    BY <1>11, <2>1, <2>2
<1>9. CASE UNCHANGED <<hnswVars, apiVars>>
  BY <1>9 DEF hnswVars, apiVars, QuietSaveComesBack, SavedComesBack
<1> QED
  BY <1>2, <1>3, <1>4, <1>5, <1>6, <1>7, <1>8, <1>9, <1>11, Zenon DEF ApiNext

\* A new object over no files.
LEMMA FilesInit == ApiInit => FilesInv
<1> SUFFICES ASSUME ApiInit PROVE FilesInv
  OBVIOUS
<1>1. MergeInv
  BY MergeInit
<1>2. index = NewIndex(max) /\ max \in Nat /\ clock = 0 /\ ins[USER] = Idle /\ ins[BG] = Idle /\ user = AtRest
  BY PowerlawAssumption, WritersLemma DEF ApiInit
<1>3. delta = <<>> /\ log = EmptyLog /\ db = Absent /\ DOMAIN kept = {}
  BY DEF ApiInit, Nothing
<1>4. Numbered
  BY <1>2, <1>3, NewUpTo, NoneUpTo DEF Numbered, NumberedTo, Idle, EmptyLog, Absent
<1>5. BufferIsNewer /\ LogIsNewer /\ LogNotBehind
  BY <1>3, NoneLeft DEF BufferIsNewer, NewerThan, LogIsNewer, LogNotBehind, EmptyLog
<1>6. ReplayGoesOn /\ QuietSaveComesBack
  BY <1>2 DEF ReplayGoesOn, QuietSaveComesBack, SavedComesBack, AtRest
<1> QED
  BY <1>1, <1>4, <1>5, <1>6 DEF FilesInv

\* Every step of either thread keeps the invariant.
LEMMA FilesStep == FilesInv /\ [ApiNext]_<<hnswVars, apiVars>> => FilesInv'
<1> SUFFICES ASSUME FilesInv, [ApiNext]_<<hnswVars, apiVars>> PROVE FilesInv'
  OBVIOUS
<1>1. MergeInv /\ Numbered /\ BufferIsNewer /\ LogIsNewer /\ LogNotBehind /\ ReplayGoesOn /\ QuietSaveComesBack
  BY DEF FilesInv
<1>2. MergeInv' /\ Numbered' /\ BufferIsNewer'
  BY <1>1, MergeStep, NumberedKept, BufferKept
<1>3. LogIsNewer' /\ LogNotBehind'
  BY <1>1, LogKept, BehindKept
<1>4. ReplayGoesOn' /\ QuietSaveComesBack'
  BY <1>1, ReplayKept, LoadedKept
<1> QED
  BY <1>2, <1>3, <1>4 DEF FilesInv

\* powerlaw_ann.h, save: after load no label is without the vector that was saved last, or a newer
\* one, when the background thread was in no merge as save wrote the file and no records were
\* appended to a torn delta file: however many processes crashed between, at whatever point.
THEOREM QuietSaveLoads == ApiSpec => []QuietSaveComesBack
<1>1. FilesInv => QuietSaveComesBack
  BY DEF FilesInv
<1> QED
  BY FilesInit, FilesStep, <1>1, PTL DEF ApiSpec
=============================================================================
