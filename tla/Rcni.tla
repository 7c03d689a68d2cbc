--------------------------------- MODULE Rcni ---------------------------------
(***************************************************************************)
(* src/src/index/rcni.cc: what a prune of the Vamana build is worth.  Each *)
(* source reports its prune events once; an event credits the witness that *)
(* occluded a victim with the progress no other kept neighbour gives.  The *)
(* credits of a witness saturate per source and add up over sources; the   *)
(* sum ranks the nodes, and the top of the ranking become candidate Hubs.  *)
(*                                                                         *)
(* Credits and importances are fixed-point numbers of One parts, rounded   *)
(* down; epsilon is one part.  A distance is the root of a squared one,    *)
(* rounded down.  alpha is 1.2 to the power k.                             *)
(***************************************************************************)
EXTENDS Integers, Sequences, SequencesExt, FiniteSetsExt

CONSTANT RcniShards  \* the hardware threads that size the shards of an aggregator

One == 1000
Nobody == -1

\* A fold with each partial result evaluated once.
FoldOver(Op(_, _), base, s) ==
  LET f[i \in 0 .. Len(s)] ==
        IF i = 0 THEN base ELSE CHOOSE r \in {Op(t, s[i]) : t \in {f[i - 1]}} : TRUE
  IN f[Len(s)]
Total(s) == FoldOver(LAMBDA a, b : a + b, 0, s)
\* The members of S from the least: the i-th one has i - 1 before it.
Ordered(S, Less(_, _)) ==
  [i \in 1 .. Cardinality(S) |-> CHOOSE e \in S : Cardinality({f \in S : Less(f, e)}) = i - 1]
Root(x) == CHOOSE r \in 0 .. x : r * r <= x /\ (r + 1) * (r + 1) > x

-----------------------------------------------------------------------------
(* Credits.  An event is [source, witness, victim, sd, wd, alt]: sd and wd are the     *)
(* squared distances of source and witness to the victim, alt the kept neighbour other *)
(* than the witness that is nearest to the victim, as <<squared distance, node>>.      *)

EventCredit(e, k) ==
  LET s == Root(e.sd)  w == Root(e.wd)
      counterfactual == IF e.alt = <<>> THEN s ELSE Min({s, Max({w, Root(e.alt[1])})})
      progress == IF 6 ^ k * w >= 5 ^ k * s THEN 0 ELSE (One * (5 ^ k * s - 6 ^ k * w)) \div (5 ^ k * s)
      irreplaceable == IF counterfactual = 0 \/ w >= counterfactual THEN 0
                       ELSE (One * (counterfactual - w)) \div counterfactual
  IN IF s = 0 THEN 0 ELSE (progress * irreplaceable) \div One

\* One minus the product of what the credits leave.
Saturation(credits) ==
  One - FoldOver(LAMBDA left, credit : (left * (One - credit)) \div One, One, credits)

-----------------------------------------------------------------------------
(* rcni_aggregator_t *)

Prepared(n) ==
  LET shards == Max({1, Min({n, RcniShards})})
  IN [n |-> n, observed |-> {}, shards |-> [s \in 0 .. shards - 1 |-> <<>>]]

\* Anything else throws.
ObserveAllowed(agg, source) == source < agg.n /\ source \notin agg.observed

\* observe_source: the events of one source, grouped by witness.
Contributions(source, events, k) ==
  LET of(w) == Ordered({<<EventCredit(e, k), e.victim>> : e \in {f \in events : f.witness = w}},
                       LAMBDA a, b : a[1] < b[1] \/ (a[1] = b[1] /\ a[2] < b[2]))
      of1(w) == [i \in DOMAIN of(w) |-> of(w)[i][1]]
  IN [i \in DOMAIN Ordered({e.witness : e \in events}, <) |->
        LET w == Ordered({e.witness : e \in events}, <)[i]
        IN [source |-> source, witness |-> w, saturation |-> Saturation(of1(w)), events |-> Len(of(w))]]

ObserveSource_KeepsLast(agg, source, events, k) ==
  [agg EXCEPT !.observed = @ \cup {source},
              !.shards[source % Cardinality(DOMAIN agg.shards)] = Contributions(source, events, k)]

ObserveSource(agg, source, events, k) ==
  [agg EXCEPT !.observed = @ \cup {source},
              !.shards[source % Cardinality(DOMAIN agg.shards)] = @ \o Contributions(source, events, k)]

\* compute_importance: the contributions of all shards, sorted by source and witness.
ComputeImportance(agg) ==
  LET all == FoldOver(LAMBDA a, s : a \o agg.shards[s], <<>>, [i \in 1 .. Cardinality(DOMAIN agg.shards) |-> i - 1])
      sorted == SortSeq(all, LAMBDA a, b : a.source < b.source \/ (a.source = b.source /\ a.witness < b.witness))
      of(n) == SelectSeq(sorted, LAMBDA c : c.witness = n)
      raw == [n \in 0 .. agg.n - 1 |-> Total([i \in DOMAIN of(n) |-> of(n)[i].saturation])]
      top == Max({raw[n] : n \in DOMAIN raw} \cup {0})
  IN [n \in 0 .. agg.n - 1 |->
       [raw |-> raw[n],
        normalized |-> IF top = 0 THEN 0 ELSE (One * raw[n]) \div (top + 1),
        percentile |-> IF top = 0 THEN 0 ELSE Cardinality({m \in DOMAIN raw : raw[m] <= raw[n]}),
        support |-> Cardinality({i \in DOMAIN of(n) : of(n)[i].saturation > 0}),
        events |-> Total([i \in DOMAIN of(n) |-> of(n)[i].events])]]

-----------------------------------------------------------------------------
(* select_candidate_hubs *)

Ranked(importance) ==
  Ordered(DOMAIN importance, LAMBDA a, b :
    \/ importance[a].normalized > importance[b].normalized
    \/ importance[a].normalized = importance[b].normalized /\ a < b)

SelectCandidateHubs(importance, mode, value) ==
  LET ranked == Ranked(importance)
      mass(i) == Total([j \in 1 .. i |-> importance[ranked[j]].normalized])
      all == mass(Len(ranked))
      wanted == IF mode = "top_ratio" THEN Min({Len(ranked), (Len(ranked) * value + One - 1) \div One})
                ELSE Min({i \in 1 .. Len(ranked) : mass(i) * One >= value * all} \cup {Len(ranked)})
  IN IF ranked = <<>> \/ value = 0 \/ all = 0 THEN <<>> ELSE SubSeq(ranked, 1, wanted)
=============================================================================
