------------------------------ MODULE HnswIndex ------------------------------
(***************************************************************************)
(* hnsw_index_t (src/src/hnsw.cc): a layered graph that one thread at a    *)
(* time and label inserts into.  insert takes label_lock_, global_lock_    *)
(* and the neighbours' locks one after the other, so the inserts of        *)
(* several threads interleave; every lock is one action here.              *)
(*                                                                         *)
(* A vector is a number, the place of its coordinate in Coordinates; 0 is  *)
(* the zeroed memory of an element nobody has filled in.  The vectors are  *)
(* numbered in the order they are inserted, so of two vectors of one label *)
(* the larger number is the newer.                                         *)
(***************************************************************************)
EXTENDS Integers, FiniteSets, SequencesExt

CONSTANTS
  M,               \* max_m_; level 0 allows twice as many links
  EfConstruction,  \* width of the search of an insert
  MaxLevel,        \* bound on what random_level draws
  Coordinates,     \* vector |-> its coordinate
  Writers          \* the threads that insert

ASSUME HnswAssumption ==
  /\ M \in Nat \ {0, 1} /\ EfConstruction \in Nat \ {0} /\ MaxLevel \in Nat
  /\ 0 \in DOMAIN Coordinates
  /\ \A v \in DOMAIN Coordinates : v \in Nat /\ 0 .. v \subseteq DOMAIN Coordinates /\ Coordinates[v] \in Int

VARIABLES
  index,  \* the graph
  ins     \* the insert each thread is in, and those it still has to do
hnswVars == <<index, ins>>

\* An element nobody has filled in: the zeroed memory of the constructor.
Blank == [label |-> 0, vec |-> 0, level |-> 0, links |-> [l \in {0} |-> <<>>]]
NewIndex(capacity) ==
  [nodes |-> [n \in 0 .. capacity - 1 |-> Blank], count |-> 0, lookup |-> [l \in {} |-> 0],
   entry |-> 0, top |-> -1]
Idle == [pc |-> "idle", todo |-> <<>>]

With(f, x, v) == [y \in DOMAIN f \cup {x} |-> IF y = x THEN v ELSE f[y]]
Content(h) == [l \in DOMAIN h.lookup |-> h.nodes[h.lookup[l]].vec]

-----------------------------------------------------------------------------
(* Searching. *)

L2Dist(a, b) == (Coordinates[a] - Coordinates[b]) * (Coordinates[a] - Coordinates[b])
Links(h, n, layer) == IF layer \in DOMAIN h.nodes[n].links THEN h.nodes[n].links[layer] ELSE <<>>
Far(h, vec, n) == <<L2Dist(vec, h.nodes[n].vec), n>>
Lower(x, y) == x[1] < y[1] \/ (x[1] = y[1] /\ x[2] < y[2])
Lowest(S) == CHOOSE x \in S : \A y \in S : x = y \/ Lower(x, y)
Highest(S) == CHOOSE x \in S : \A y \in S : x = y \/ Lower(y, x)

\* One neighbour of the node that search_layer expands.
Meet(h, vec, ef, s, n) ==
  LET x == Far(h, vec, n)
  IN IF n \in s.seen THEN s
     ELSE IF Cardinality(s.best) < ef \/ x[1] < Highest(s.best)[1]
     THEN LET best == s.best \cup {x}
          IN [seen |-> s.seen \cup {n}, open |-> s.open \cup {x},
              best |-> IF Cardinality(best) > ef THEN best \ {Highest(best)} ELSE best]
     ELSE [s EXCEPT !.seen = @ \cup {n}]

\* The nearest candidate is expanded, unless all of a full list are nearer.
ExpandNearest(h, vec, ef, layer, s) ==
  LET x == Lowest(s.open)
  IN IF s.open = {} \/ (x[1] > Highest(s.best)[1] /\ Cardinality(s.best) >= ef) THEN s
     ELSE FoldLeft(LAMBDA t, n : Meet(h, vec, ef, t, n), [s EXCEPT !.open = @ \ {x}], Links(h, x[2], layer))

\* Every round expands a node of its own, so there are not more than there are nodes.
SearchLayer(h, vec, ep, ef, layer) ==
  LET x == Far(h, vec, ep)
      after[k \in Nat] == IF k = 0 THEN [seen |-> {ep}, open |-> {x}, best |-> {x}]
                          ELSE ExpandNearest(h, vec, ef, layer, after[k - 1])
  IN after[Cardinality(DOMAIN h.nodes)].best

\* greedy_lower goes to the first of the nearest neighbours while one is nearer.
Nearer(h, vec, layer, n) ==
  LET links == Links(h, n, layer)
      away(o) == Far(h, vec, o)[1]
      next == SelectInSeq(links, LAMBDA o : away(o) < away(n) /\ \A x \in ToSet(links) : away(o) <= away(x))
  IN IF next = 0 THEN n ELSE links[next]
GreedyLower(h, vec, ep, layer) ==
  LET at[k \in Nat] == IF k = 0 THEN ep ELSE Nearer(h, vec, layer, at[k - 1])
  IN at[Cardinality(DOMAIN h.nodes)]

\* From the top layer down to the one above the last.
Descend(h, vec, ep, top, last) ==
  LET at[k \in Nat] == IF k = 0 THEN ep ELSE GreedyLower(h, vec, at[k - 1], top + 1 - k)
  IN IF top <= last THEN ep ELSE at[top - last]

-----------------------------------------------------------------------------
(* Inserting. *)

Limit(layer) == IF layer = 0 THEN 2 * M ELSE M

\* select_neighbours: two passes over the candidates, nearest first, until the list is full; the
\* first takes those that are no nearer to one already kept, the second the others.  std::sort
\* leaves equal distances in any order; here the smaller node comes first.
Apart(h, kept, x) == \A n \in ToSet(kept) : L2Dist(h.nodes[x[2]].vec, h.nodes[n].vec) >= x[1]
Judge(h, limit, diverse, s) ==
  LET x == Lowest(s.rest)
      good == Len(s.kept) < limit /\ (IF diverse THEN Apart(h, s.kept, x) ELSE x[2] \notin ToSet(s.kept))
  IN IF s.rest = {} THEN s
     ELSE [kept |-> IF good THEN Append(s.kept, x[2]) ELSE s.kept, rest |-> s.rest \ {x}]
Pass(h, found, limit, diverse, kept) ==
  LET after[k \in Nat] == IF k = 0 THEN [kept |-> kept, rest |-> found]
                          ELSE Judge(h, limit, diverse, after[k - 1])
  IN after[Cardinality(found)].kept
SelectNeighbours(h, found, limit) == Pass(h, found, limit, FALSE, Pass(h, found, limit, TRUE, <<>>))

\* What a chosen neighbour does with the new node: room, or the place of its farthest link.
WithBacklink(h, n, new, layer) ==
  LET links == Links(h, n, layer)
      away(o) == L2Dist(h.nodes[n].vec, h.nodes[o].vec)
      worst == SelectInSeq(links, LAMBDA o : \A x \in ToSet(links) : away(x) <= away(o))
  IN IF Len(links) < Limit(layer) THEN Append(links, new)
     ELSE IF away(new) < away(links[worst]) THEN [links EXCEPT ![worst] = new] ELSE links

\* Mutant: not bounded by the top layer.
FirstLayer_OwnLevel(level, top) == level
FirstLayer(level, top) == IF level < top THEN level ELSE top

Begin(t, records) == ins' = [ins EXCEPT ![t] = [pc |-> "idle", todo |-> records]]
Done(t) == Begin(t, Tail(ins[t].todo))
Working(t) == ins[t].pc # "idle" \/ ins[t].todo # <<>>

\* Under label_lock_: a known label gets its new vector in place, a new one the next element.
Reserve(t) ==
  /\ ins[t].pc = "idle" /\ ins[t].todo # <<>>
  /\ LET r == Head(ins[t].todo)
     IN \/ /\ r.label \in DOMAIN index.lookup
           /\ index' = [index EXCEPT !.nodes[index.lookup[r.label]].vec = r.vec]
           /\ Done(t)
        \/ /\ r.label \notin DOMAIN index.lookup
           /\ index.count \in DOMAIN index.nodes
           /\ index' = [index EXCEPT !.count = @ + 1, !.lookup = With(@, r.label, index.count)]
           /\ ins' = [ins EXCEPT ![t] = [pc |-> "fill", todo |-> @.todo, id |-> index.count]]

\* insert throws at capacity; the records behind it are not tried.
CapacityExceeded(t) ==
  /\ ins[t].pc = "idle" /\ ins[t].todo # <<>>
  /\ Head(ins[t].todo).label \notin DOMAIN index.lookup /\ index.count \notin DOMAIN index.nodes

FillElement(t) ==
  /\ ins[t].pc = "fill"
  /\ \E level \in 0 .. MaxLevel :
       LET r == Head(ins[t].todo)
       IN /\ index' = [index EXCEPT !.nodes[ins[t].id] =
                         [label |-> r.label, vec |-> r.vec, level |-> level, links |-> [l \in 0 .. level |-> <<>>]]]
          /\ ins' = [ins EXCEPT ![t].pc = IF ins[t].id = 0 THEN "first" ELSE "enter"]

\* The first element makes itself the entry point, whoever did so before it.
BecomeFirst(t) ==
  /\ ins[t].pc = "first"
  /\ index' = [index EXCEPT !.entry = 0, !.top = index.nodes[0].level]
  /\ Done(t)

\* Reads the entry point under global_lock_ and goes down to the layer below the level.
Enter(t) ==
  /\ ins[t].pc = "enter"
  /\ LET level == index.nodes[ins[t].id].level
         first == FirstLayer(level, index.top)
     IN ins' = [ins EXCEPT ![t] = [pc |-> IF first < 0 THEN "raise" ELSE "choose", todo |-> @.todo, id |-> @.id,
                                   ep |-> Descend(index, Head(ins[t].todo).vec, index.entry, index.top, level),
                                   top |-> index.top, at |-> first, rest |-> <<>>]]
  /\ UNCHANGED index

\* One layer: its neighbours are searched and selected and become the new node's list.
Choose(t) ==
  /\ ins[t].pc = "choose"
  /\ LET i == ins[t]
         vec == Head(i.todo).vec
         chosen == SelectNeighbours(index, SearchLayer(index, vec, i.ep, EfConstruction, i.at), Limit(i.at))
     IN /\ index' = [index EXCEPT !.nodes[i.id].links = With(@, i.at, chosen)]
        /\ ins' = [ins EXCEPT ![t] = [i EXCEPT !.pc = "back", !.ep = Head(chosen), !.rest = chosen]]

\* Under the lock of one chosen neighbour.
Backlink(t) ==
  /\ ins[t].pc = "back"
  /\ LET i == ins[t]
         n == Head(i.rest)
     IN /\ index' = [index EXCEPT !.nodes[n].links =
                       With(@, i.at, WithBacklink(index, n, i.id, i.at))]
        /\ ins' = [ins EXCEPT ![t] =
             [i EXCEPT !.rest = Tail(@), !.at = IF Len(i.rest) = 1 THEN @ - 1 ELSE @,
                       !.pc = IF Len(i.rest) > 1 THEN "back" ELSE IF i.at = 0 THEN "raise" ELSE "choose"]]

\* Under global_lock_, when the level is above the top that was read.
RaiseTop(t) ==
  /\ ins[t].pc = "raise"
  /\ LET level == index.nodes[ins[t].id].level
     IN index' = IF level > ins[t].top /\ level > index.top
                 THEN [index EXCEPT !.entry = ins[t].id, !.top = level] ELSE index
  /\ Done(t)

InsertStep(t) == Reserve(t) \/ FillElement(t) \/ BecomeFirst(t) \/ Enter(t) \/ Choose(t) \/ Backlink(t) \/ RaiseTop(t)

-----------------------------------------------------------------------------
(* hnsw.h: an upper list exists only on the layers of its node (link_lists_ptr is computed from *)
(* the level without a check), and a list holds Limit links.  Every list a search or an insert  *)
(* can come to is one that was allocated, by whatever order two threads inserted.               *)
ListsStayAllocated ==
  /\ \A n \in DOMAIN index.nodes : \A layer \in DOMAIN index.nodes[n].links :
       /\ layer <= index.nodes[n].level
       /\ Len(Links(index, n, layer)) <= Limit(layer)
       /\ \A o \in ToSet(Links(index, n, layer)) : o < index.count /\ layer <= index.nodes[o].level
  /\ index.top >= 0 => index.nodes[index.entry].level >= index.top
  /\ \A t \in Writers : ins[t].pc = "choose" => ins[t].at <= index.nodes[ins[t].ep].level
=============================================================================
