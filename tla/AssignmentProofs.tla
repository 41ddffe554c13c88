-------------------------- MODULE AssignmentProofs --------------------------
(***************************************************************************)
(* Proofs about Assignment for every set of servers and configs and every  *)
(* score function: rendezvous hashing moves a config only from or to the   *)
(* server that changed, and the CWS fan-out loses no reassignment however  *)
(* far the informer store runs ahead of the event handlers.                *)
(***************************************************************************)
EXTENDS Assignment, FiniteSetTheorems, NaturalsInduction, TLAPS

\* s is the pool member PickShard's scan ends with.
Wins(list, c, s) ==
    /\ s \in ShardPool(list)
    /\ \A t \in ShardPool(list) \ {s} :
          Outranks(s, list[s].weight, t, list[t].weight, c)

\* Two lists that hold the same pool with the same weights.
SamePool(list, other) ==
    /\ ShardPool(list) = ShardPool(other)
    /\ \A s \in ShardPool(list) : list[s].weight = other[s].weight

\* Subsets with the same members are equal (extensionality, for the SMT backend).
LEMMA SameMembers ==
    ASSUME NEW S, NEW A, NEW B, A \subseteq S, B \subseteq S,
           \A x \in S : x \in A <=> x \in B
    PROVE  A = B
OBVIOUS

\* Pool members are listed servers with a server spec.
LEMMA PoolType ==
    ASSUME NEW list \in ServerLists
    PROVE  /\ ShardPool(list) \subseteq Listed(list)
           /\ Listed(list) \subseteq Servers
           /\ Defaults(list) \subseteq Servers
           /\ \A s \in Listed(list) : list[s] \in ServerSpec
           /\ \A s \in Listed(list) : list[s].weight \in Weights
BY DEF ShardPool, Listed, Defaults, ServerLists, ServerSpec

\* Of two servers only one outranks the other: the name breaks score ties.
LEMMA OutranksAntisymmetric ==
    ASSUME NEW s \in Servers, NEW t \in Servers, NEW ws \in Weights, NEW wt \in Weights,
           NEW c \in Configs, Outranks(s, ws, t, wt, c)
    PROVE  ~ Outranks(t, wt, s, ws, c)
<1>1. /\ Score[<<s, ws, c>>] \in Int
      /\ Score[<<t, wt, c>>] \in Int
      /\ NameOrder[s] \in Int
      /\ NameOrder[t] \in Int
  BY ScoreAssumption
<1> QED BY <1>1 DEF Outranks

\* Of two servers one outranks the other, so PickShard's comparison never
\* leaves two candidates.
LEMMA OutranksTotal ==
    ASSUME NEW s \in Servers, NEW t \in Servers, NEW ws \in Weights, NEW wt \in Weights,
           NEW c \in Configs, s # t
    PROVE  Outranks(s, ws, t, wt, c) \/ Outranks(t, wt, s, ws, c)
<1>1. /\ Score[<<s, ws, c>>] \in Int
      /\ Score[<<t, wt, c>>] \in Int
      /\ NameOrder[s] \in Int
      /\ NameOrder[t] \in Int
      /\ NameOrder[s] # NameOrder[t]
  BY ScoreAssumption
<1> QED BY <1>1 DEF Outranks

\* The comparison is transitive: the best so far outranks what it displaced.
LEMMA OutranksTransitive ==
    ASSUME NEW r \in Servers, NEW s \in Servers, NEW t \in Servers,
           NEW wr \in Weights, NEW ws \in Weights, NEW wt \in Weights, NEW c \in Configs,
           Outranks(r, wr, s, ws, c), Outranks(s, ws, t, wt, c)
    PROVE  Outranks(r, wr, t, wt, c)
<1>1. /\ Score[<<r, wr, c>>] \in Int
      /\ Score[<<s, ws, c>>] \in Int
      /\ Score[<<t, wt, c>>] \in Int
      /\ NameOrder[r] \in Int
      /\ NameOrder[s] \in Int
      /\ NameOrder[t] \in Int
  BY ScoreAssumption
<1> QED BY <1>1 DEF Outranks

\* s outranks every other member of T, a part of the pool.
BestOf(list, c, T, s) ==
    /\ s \in T
    /\ \A t \in T \ {s} : Outranks(s, list[s].weight, t, list[t].weight, c)

\* The best of a part of the pool, compared with one more member, leaves the
\* best of both: one turn of PickShard's loop.
LEMMA BestOfOneMore ==
    ASSUME NEW list \in ServerLists, NEW c \in Configs, NEW T \in SUBSET ShardPool(list),
           NEW x \in ShardPool(list), NEW s, BestOf(list, c, T, s), x \notin T
    PROVE  \E b \in T \cup {x} : BestOf(list, c, T \cup {x}, b)
<1> DEFINE W(a) == list[a].weight
<1>1. /\ s \in Servers /\ x \in Servers /\ s # x
      /\ \A t \in T : t \in Servers /\ W(t) \in Weights
      /\ W(s) \in Weights /\ W(x) \in Weights
  BY PoolType DEF BestOf
<1>2. CASE Outranks(s, W(s), x, W(x), c)
  BY <1>2 DEF BestOf
<1>3. CASE Outranks(x, W(x), s, W(s), c)
  <2>1. ASSUME NEW t \in T PROVE Outranks(x, W(x), t, W(t), c)
    <3>1. CASE t = s
      BY <1>3, <3>1
    <3>2. CASE t # s
      <4>1. Outranks(s, W(s), t, W(t), c)
        BY <3>2 DEF BestOf
      <4> QED BY <1>1, <1>3, <4>1, OutranksTransitive
    <3> QED BY <3>1, <3>2
  <2> QED BY <2>1 DEF BestOf
<1> QED BY <1>1, <1>2, <1>3, OutranksTotal

\* Every non-empty part of the pool has a best member: a smallest part
\* without one would have more than one member, the part without one of them
\* has a best, and BestOfOneMore puts the member back.
LEMMA PoolHasBest ==
    ASSUME NEW list \in ServerLists, NEW c \in Configs, ShardPool(list) # {}
    PROVE  \E s \in ShardPool(list) : BestOf(list, c, ShardPool(list), s)
<1> DEFINE P == ShardPool(list)
           HasBest(T) == \E s \in T : BestOf(list, c, T, s)
           bad == {n \in Nat : \E T \in SUBSET P :
                       T # {} /\ Cardinality(T) = n /\ ~HasBest(T)}
<1>1. \A T \in SUBSET P : IsFiniteSet(T) /\ Cardinality(T) \in Nat
  BY PoolType, FiniteAssumption, FS_Subset, FS_CardinalityType
<1>2. SUFFICES ASSUME ~HasBest(P) PROVE FALSE
  OBVIOUS
<1>3. Cardinality(P) \in bad
  BY <1>1, <1>2
<1>4. PICK n \in bad : \A m \in bad : n <= m
  <2> DEFINE Less == {pair \in Nat \X Nat : pair[1] < pair[2]}
  <2>1. IsWellFoundedOn(Less, Nat)
    BY NatLessThanWellFounded DEF OpToRel
  <2> HIDE DEF Less
  <2>2. bad \in SUBSET Nat /\ bad # {}
    BY <1>3
  <2> HIDE DEF bad
  <2>3. PICK n \in bad : \A m \in bad : ~(<<m, n>> \in Less)
    BY <2>1, <2>2, WFMin
  <2>4. ASSUME NEW m \in bad PROVE n <= m
    <3>1. m \in Nat /\ n \in Nat
      BY <2>2
    <3>2. ~(m < n)
      BY <2>3, <3>1 DEF Less
    <3> QED BY <3>1, <3>2
  <2> QED BY <2>4
<1>5. PICK T \in SUBSET P : T # {} /\ Cardinality(T) = n /\ ~HasBest(T)
  BY <1>4
<1>6. PICK x \in T : TRUE
  BY <1>5
<1> DEFINE R == T \ {x}
<1>7. /\ R \in SUBSET P /\ x \in P /\ x \notin R /\ T = R \cup {x}
      /\ Cardinality(R) = n - 1
  BY <1>1, <1>5, <1>6, FS_RemoveElement
<1>8. CASE R = {}
  <2>1. T = {x}
    BY <1>7, <1>8
  <2>2. BestOf(list, c, T, x)
    BY <2>1 DEF BestOf
  <2> QED BY <1>5, <2>1, <2>2
<1>9. CASE R # {}
  <2>1. HasBest(R)
    <3>1. n - 1 \in Nat /\ ~(n - 1 \in bad)
      BY <1>1, <1>4, <1>7
    <3> QED BY <1>7, <1>9, <3>1
  <2>2. PICK s \in R : BestOf(list, c, R, s)
    BY <2>1
  <2> HIDE DEF R, P
  <2>3. PICK b \in R \cup {x} : BestOf(list, c, R \cup {x}, b)
    BY <1>7, <2>2, BestOfOneMore DEF P
  <2>4. HasBest(T)
    BY <1>7, <2>3
  <2> QED BY <1>5, <2>4
<1> QED BY <1>8, <1>9

\* PickShard's scan of a non-empty pool ends with the winner.
LEMMA PickShardWins ==
    ASSUME NEW list \in ServerLists, NEW c \in Configs, ShardPool(list) # {}
    PROVE  Wins(list, c, PickShard(list, c))
<1>1. PICK s \in ShardPool(list) : BestOf(list, c, ShardPool(list), s)
  BY PoolHasBest
<1> QED BY <1>1 DEF PickShard, Wins, BestOf

\* A pool member that outranks all others is the one PickShard returns.
LEMMA WinnerUnique ==
    ASSUME NEW list \in ServerLists, NEW c \in Configs, NEW s, NEW t,
           Wins(list, c, s), Wins(list, c, t)
    PROVE  s = t
<1>1. SUFFICES ASSUME s # t PROVE FALSE
  OBVIOUS
<1>2. /\ Outranks(s, list[s].weight, t, list[t].weight, c)
      /\ Outranks(t, list[t].weight, s, list[s].weight, c)
  BY <1>1 DEF Wins
<1>3. /\ s \in Servers /\ t \in Servers
      /\ list[s].weight \in Weights /\ list[t].weight \in Weights
  BY PoolType DEF Wins
<1> QED BY <1>2, <1>3, OutranksAntisymmetric

\* PickShard depends on nothing but the pool and its weights.
LEMMA SamePoolSameWinner ==
    ASSUME NEW list \in ServerLists, NEW other \in ServerLists, NEW c \in Configs, NEW s,
           SamePool(list, other), Wins(list, c, s)
    PROVE  ShardPool(other) # {} /\ PickShard(other, c) = s
<1>1. Wins(other, c, s)
  BY DEF Wins, SamePool
<1>2. ShardPool(other) # {}
  BY <1>1 DEF Wins
<1> QED BY <1>1, <1>2, PickShardWins, WinnerUnique

-----------------------------------------------------------------------------
(* Rendezvous hashing moves the minimum.                                   *)

\* A change of server t alone moves a pool-assigned key only from or to t:
\* the guarantee PickShard's comment gives for adding, removing and
\* re-weighting an instance.
LEMMA OneServerMoves ==
    ASSUME NEW list \in ServerLists, NEW other \in ServerLists, NEW t \in Servers,
           \A s \in Servers \ {t} : list[s] = other[s],
           NEW c \in Configs, ShardPool(list) # {}, ShardPool(other) # {},
           PickShard(list, c) # PickShard(other, c)
    PROVE  PickShard(list, c) = t \/ PickShard(other, c) = t
<1> DEFINE a == PickShard(list, c)
           b == PickShard(other, c)
<1>1. Wins(list, c, a) /\ Wins(other, c, b)
  BY PickShardWins
<1>2. SUFFICES ASSUME a # t, b # t PROVE FALSE
  OBVIOUS
<1>3. a \in Servers /\ b \in Servers
  BY <1>1, PoolType DEF Wins
<1>4. list[a] = other[a] /\ list[b] = other[b]
  BY <1>2, <1>3
<1>5. a \in ShardPool(other) /\ b \in ShardPool(list)
  BY <1>1, <1>3, <1>4 DEF Wins, ShardPool, Listed
<1>6. /\ Outranks(a, list[a].weight, b, list[b].weight, c)
      /\ Outranks(b, other[b].weight, a, other[a].weight, c)
  BY <1>1, <1>5 DEF Wins
<1>7. list[a].weight \in Weights /\ list[b].weight \in Weights
  BY <1>1, <1>5, PoolType DEF Wins
<1> QED BY <1>3, <1>4, <1>6, <1>7, OutranksAntisymmetric
-----------------------------------------------------------------------------
(* The fan-out.                                                            *)

\* What serversWithView keeps of the list it is given.
IsViewOf(v, list, s, view) ==
    /\ v \in ServerLists
    /\ v[s] = view
    /\ Listed(v) = Listed(list) \cup {s}
    /\ \A t \in Servers \ {s} : t \in ShardPool(v) <=> t \in ShardPool(list)
    /\ \A t \in ShardPool(list) \ {s} : v[t].weight = list[t].weight
    /\ view.sharded => s \in ShardPool(v)
    /\ ~view.sharded => s \notin ShardPool(v)
    /\ view.default => Defaults(v) = {s}
    /\ ~view.default => Defaults(v) = Defaults(list) \ {s}

\* What serversWithView leaves in the list of a party.
LEMMA ViewFacts ==
    ASSUME NEW list \in ServerLists, NEW s \in Servers, NEW view \in ServerSpec
    PROVE  IsViewOf(serversWithView(list, s, view), list, s, view)
<1> DEFINE v == serversWithView(list, s, view)
<1>1. view # Absent /\ view.default \in BOOLEAN /\ view.sharded \in BOOLEAN
  BY AbsentAssumption DEF ServerSpec
<1>2. \A t \in Servers \ {s} :
         /\ list[t] = Absent => v[t] = Absent
         /\ list[t] # Absent =>
               /\ v[t] \in ServerSpec
               /\ v[t] # Absent
               /\ v[t].sharded = list[t].sharded
               /\ v[t].weight = list[t].weight
               /\ v[t].default = (list[t].default /\ ~view.default)
  BY <1>1, AbsentAssumption DEF serversWithView, ServerLists, ServerSpec
<1>3. v[s] = view
  BY DEF serversWithView
<1>4. v \in ServerLists
  BY <1>2, <1>3 DEF serversWithView, ServerLists
<1>5. Listed(v) = Listed(list) \cup {s}
  BY <1>1, <1>2, <1>3 DEF Listed
<1>6. \A t \in Servers \ {s} : t \in ShardPool(v) <=> t \in ShardPool(list)
  BY <1>2 DEF ShardPool, Listed
<1>7. \A t \in ShardPool(list) \ {s} : v[t].weight = list[t].weight
  BY <1>2 DEF ShardPool, Listed
<1>8. (view.sharded => s \in ShardPool(v)) /\ (~view.sharded => s \notin ShardPool(v))
  BY <1>1, <1>3 DEF ShardPool, Listed
<1>9. view.default => Defaults(v) = {s}
  BY <1>1, <1>2, <1>3 DEF Defaults, Listed
<1>10. ~view.default => Defaults(v) = Defaults(list) \ {s}
  BY <1>1, <1>2, <1>3 DEF Defaults, Listed
<1> QED BY <1>3, <1>4, <1>5, <1>6, <1>7, <1>8, <1>9, <1>10 DEF IsViewOf

\* Seen as it is in the list, a server leaves the pool as it was.
LEMMA OwnViewSamePool ==
    ASSUME NEW list \in ServerLists, NEW s \in Servers, list[s] # Absent
    PROVE  SamePool(list, serversWithView(list, s, list[s]))
<1> DEFINE v == serversWithView(list, s, list[s])
<1>1. list[s] \in ServerSpec
  BY DEF ServerLists
<1>2. IsViewOf(v, list, s, list[s])
  BY <1>1, ViewFacts
<1> HIDE DEF v
<1>3. s \in ShardPool(list) <=> list[s].sharded
  BY DEF ShardPool, Listed
<1>4. s \in ShardPool(v) <=> s \in ShardPool(list)
  BY <1>2, <1>3, Zenon DEF IsViewOf
<1>5. \A t \in Servers : t \in ShardPool(v) <=> t \in ShardPool(list)
  BY <1>2, <1>4 DEF IsViewOf
<1>6. ShardPool(v) \subseteq Servers /\ ShardPool(list) \subseteq Servers
  BY <1>2, PoolType DEF IsViewOf
<1>7. ShardPool(list) = ShardPool(v)
  BY <1>5, <1>6, SameMembers
<1>8. \A t \in ShardPool(list) : list[t].weight = v[t].weight
  BY <1>2 DEF IsViewOf
<1> QED BY <1>7, <1>8 DEF SamePool, v

\* A winner of the pool is assigned every unpinned config it wins for.
LEMMA WinnerAssigned ==
    ASSUME NEW list \in ServerLists, NEW c \in Configs, NEW s, Wins(list, c, s)
    PROVE  IsAssignedTo(c, NoRef, list, s)
<1>1. ShardPool(list) # {}
  BY DEF Wins
<1> QED BY <1>1, PickShardWins, WinnerUnique DEF IsAssignedTo, ResolveAssignment

\* With no pool, the only default is assigned every unpinned config.
LEMMA DefaultAssigned ==
    ASSUME NEW list \in ServerLists, NEW c \in Configs, NEW s \in Servers,
           ShardPool(list) = {}, Defaults(list) = {s}
    PROVE  IsAssignedTo(c, NoRef, list, s)
<1>1. (CHOOSE d \in Servers : Defaults(list) = {d}) = s
  OBVIOUS
<1> QED BY <1>1 DEF IsAssignedTo, ResolveAssignment

\* A view under which server s is assigned c puts c in the fan-out.
LEMMA AssignedUnderMember ==
    ASSUME NEW list \in ServerLists, NEW ps, NEW s \in Servers, NEW view \in ServerSpec,
           NEW c \in Configs, IsAssignedTo(c, ps[c], serversWithView(list, s, view), s)
    PROVE  c \in AssignedUnder(list, ps, s, view)
<1>1. view # Absent
  BY AbsentAssumption
<1> QED BY <1>1 DEF AssignedUnder

\* Every config whose assignment a change of server t moves is in the fan-out
\* of that change, mapped against the list as it is after the change.
LEMMA FanOutCoversChange ==
    ASSUME NEW list \in ServerLists, NEW t \in Servers, NEW new \in ServerSpec \cup {Absent},
           NEW ps \in [Configs -> Servers \cup {NoRef}], NEW c \in Configs,
           NEW after, after = [list EXCEPT ![t] = new],
           ResolveAssignment(c, ps[c], list) # ResolveAssignment(c, ps[c], after)
    PROVE  c \in mapConfigsForServerViews(after, ps, [server |-> t, old |-> list[t], new |-> new])
<1> DEFINE old == list[t]
           vOld == serversWithView(after, t, old)
           vNew == serversWithView(after, t, new)
<1>1. /\ after \in ServerLists
      /\ after[t] = new
      /\ \A s \in Servers \ {t} : after[s] = list[s]
      /\ old \in ServerSpec \cup {Absent}
  BY DEF ServerLists
<1>2. SUFFICES \/ old \in ServerSpec /\ IsAssignedTo(c, ps[c], vOld, t)
               \/ new \in ServerSpec /\ IsAssignedTo(c, ps[c], vNew, t)
  BY <1>1, AssignedUnderMember DEF mapConfigsForServerViews
<1>3. CASE ps[c] # NoRef
  <2>1. ps[c] = t
    BY <1>1, <1>3 DEF ResolveAssignment, Listed
  <2>2. old # Absent \/ new # Absent
    BY <1>1, <2>1, <1>3 DEF ResolveAssignment, Listed
  <2>3. ASSUME NEW view \in ServerSpec
        PROVE  IsAssignedTo(c, ps[c], serversWithView(after, t, view), t)
    <3>1. t \in Listed(serversWithView(after, t, view))
      BY <1>1, ViewFacts DEF IsViewOf
    <3> QED BY <2>1, <1>3, <3>1 DEF IsAssignedTo, ResolveAssignment
  <2> QED BY <1>1, <2>2, <2>3
<1>4. CASE ps[c] = NoRef
  <2>1. ASSUME new # Absent, Wins(after, c, t)
        PROVE  new \in ServerSpec /\ IsAssignedTo(c, ps[c], vNew, t)
    <3>1. new \in ServerSpec
      BY <2>1
    <3>2. SamePool(after, vNew)
      BY <1>1, <2>1, OwnViewSamePool
    <3>3. vNew \in ServerLists
      BY <1>1, <3>1, ViewFacts DEF IsViewOf
    <3>4. ShardPool(vNew) # {} /\ PickShard(vNew, c) = t
      BY <1>1, <2>1, <3>2, <3>3, SamePoolSameWinner
    <3> QED BY <1>4, <3>1, <3>4 DEF IsAssignedTo, ResolveAssignment
  <2>2. ASSUME Wins(list, c, t)
        PROVE  old \in ServerSpec /\ IsAssignedTo(c, ps[c], vOld, t)
    <3>1. old \in ServerSpec /\ old # Absent /\ old.sharded
      BY <2>2, PoolType DEF Wins, ShardPool, Listed
    <3>2. SamePool(list, vOld)
      <4>1. IsViewOf(vOld, after, t, old)
        BY <1>1, <3>1, ViewFacts
      <4> HIDE DEF vOld, old
      <4>2. \A s \in Servers \ {t} : s \in ShardPool(after) <=> s \in ShardPool(list)
        BY <1>1 DEF ShardPool, Listed
      <4>3. t \in ShardPool(list) /\ t \in ShardPool(vOld)
        BY <2>2, <3>1, <4>1, Zenon DEF Wins, IsViewOf
      <4>4. ShardPool(vOld) \subseteq Servers /\ ShardPool(list) \subseteq Servers
        BY <4>1, PoolType DEF IsViewOf
      <4>5. ShardPool(vOld) = ShardPool(list)
        <5>1. \A s \in Servers : s \in ShardPool(vOld) <=> s \in ShardPool(list)
          BY <4>1, <4>2, <4>3 DEF IsViewOf
        <5> QED BY <4>4, <5>1, SameMembers
      <4>6. \A s \in ShardPool(list) : list[s].weight = vOld[s].weight
        BY <1>1, <4>1, <4>2, <4>4 DEF old, IsViewOf
      <4> QED BY <4>5, <4>6 DEF SamePool
    <3>3. vOld \in ServerLists
      BY <1>1, <3>1, ViewFacts DEF IsViewOf
    <3>4. ShardPool(vOld) # {} /\ PickShard(vOld, c) = t
      BY <2>2, <3>2, <3>3, SamePoolSameWinner
    <3> QED BY <1>4, <3>1, <3>4 DEF IsAssignedTo, ResolveAssignment
  <2>3. \A s \in Servers \ {t} : s \in ShardPool(after) <=> s \in ShardPool(list)
    BY <1>1 DEF ShardPool, Listed
  <2>4. CASE ShardPool(list) # {} /\ ShardPool(after) # {}
    <3>1. PickShard(list, c) # PickShard(after, c)
      BY <1>4, <2>4 DEF ResolveAssignment
    <3>2. PickShard(list, c) = t \/ PickShard(after, c) = t
      BY <1>1, <2>4, <3>1, OneServerMoves
    <3>3. Wins(list, c, t) \/ Wins(after, c, t)
      BY <1>1, <2>4, <3>2, PickShardWins
    <3>4. Wins(after, c, t) => new # Absent
      BY <1>1 DEF Wins, ShardPool, Listed
    <3> QED BY <2>1, <2>2, <3>3, <3>4
  <2>5. CASE ShardPool(list) = {} /\ ShardPool(after) # {}
    <3>1. PickShard(after, c) \in ShardPool(after) /\ Wins(after, c, PickShard(after, c))
      BY <1>1, <2>5, PickShardWins DEF Wins
    <3>2. PickShard(after, c) = t
      BY <1>1, <2>3, <2>5, <3>1, PoolType
    <3>3. new # Absent
      BY <1>1, <3>1, <3>2 DEF ShardPool, Listed
    <3> QED BY <2>1, <3>1, <3>2, <3>3
  <2>6. CASE ShardPool(list) # {} /\ ShardPool(after) = {}
    <3>1. PickShard(list, c) \in ShardPool(list) /\ Wins(list, c, PickShard(list, c))
      BY <2>6, PickShardWins DEF Wins
    <3>2. PickShard(list, c) = t
      BY <2>3, <2>6, <3>1, PoolType
    <3> QED BY <2>2, <3>1, <3>2
  <2>7. CASE ShardPool(list) = {} /\ ShardPool(after) = {}
    <3>1. Defaults(list) # Defaults(after)
      BY <1>4, <2>7 DEF ResolveAssignment
    <3>2. \A s \in Servers \ {t} : s \in Defaults(list) <=> s \in Defaults(after)
      BY <1>1 DEF Defaults, Listed
    <3>3. t \in Defaults(list) \/ t \in Defaults(after)
      <4>1. Defaults(list) \subseteq Servers /\ Defaults(after) \subseteq Servers
        BY <1>1, PoolType
      <4>2. SUFFICES ASSUME t \notin Defaults(list), t \notin Defaults(after) PROVE FALSE
        OBVIOUS
      <4>3. \A s \in Servers : s \in Defaults(list) <=> s \in Defaults(after)
        BY <3>2, <4>2
      <4> QED BY <3>1, <4>1, <4>3, SameMembers
    <3>4. ASSUME NEW view \in ServerSpec, view.default, ~view.sharded
          PROVE  IsAssignedTo(c, ps[c], serversWithView(after, t, view), t)
      <4> DEFINE v == serversWithView(after, t, view)
      <4>1. IsViewOf(v, after, t, view)
        BY <1>1, ViewFacts
      <4> HIDE DEF v
      <4>4. v \in ServerLists /\ Defaults(v) = {t} /\ t \notin ShardPool(v)
        BY <3>4, <4>1, Zenon DEF IsViewOf
      <4>2. ShardPool(v) = {}
        BY <2>7, <4>1, <4>4, PoolType DEF IsViewOf
      <4>3. IsAssignedTo(c, NoRef, v, t)
        BY <4>2, <4>4, DefaultAssigned
      <4> QED BY <1>4, <4>3 DEF v
    <3>5. CASE t \in Defaults(list)
      <4>1. old \in ServerSpec /\ old.default /\ ~old.sharded
        BY <1>1, <2>7, <3>5 DEF Defaults, ShardPool, Listed
      <4> QED BY <3>4, <4>1
    <3>6. CASE t \in Defaults(after)
      <4>1. new \in ServerSpec /\ new.default /\ ~new.sharded
        BY <1>1, <2>7, <3>6 DEF Defaults, ShardPool, Listed
      <4> QED BY <3>4, <4>1
    <3> QED BY <3>3, <3>5, <3>6
  <2> QED BY <2>4, <2>5, <2>6, <2>7
<1> QED BY <1>3, <1>4

\* The winner of the pool is in the fan-out of an event that shows it as it is.
LEMMA WinnerInOwnFanOut ==
    ASSUME NEW list \in ServerLists, NEW ps, NEW c \in Configs, ps[c] = NoRef, NEW s,
           Wins(list, c, s)
    PROVE  c \in AssignedUnder(list, ps, s, list[s])
<1> DEFINE v == serversWithView(list, s, list[s])
<1>1. s \in Servers /\ list[s] \in ServerSpec /\ list[s] # Absent
  BY PoolType DEF Wins, ShardPool, Listed
<1>2. SamePool(list, v) /\ v \in ServerLists
  BY <1>1, OwnViewSamePool, ViewFacts DEF IsViewOf
<1>3. ShardPool(v) # {} /\ PickShard(v, c) = s
  BY <1>2, SamePoolSameWinner
<1>4. IsAssignedTo(c, ps[c], v, s)
  BY <1>3 DEF IsAssignedTo, ResolveAssignment
<1> QED BY <1>1, <1>4, AssignedUnderMember

\* An unmapped event that would enqueue c keeps doing so when another server
\* changes, unless the change itself, or the event that shows s as it is in
\* the store, does.
LEMMA FanOutSurvivesChange ==
    ASSUME NEW list \in ServerLists, NEW t \in Servers, NEW new \in ServerSpec \cup {Absent},
           NEW ps \in [Configs -> Servers \cup {NoRef}], NEW c \in Configs,
           NEW after, after = [list EXCEPT ![t] = new],
           NEW s \in Servers, NEW view \in ServerSpec,
           IsAssignedTo(c, ps[c], serversWithView(list, s, view), s)
    PROVE  \/ c \in AssignedUnder(after, ps, s, view)
           \/ c \in AssignedUnder(after, ps, t, new)
           \/ c \in AssignedUnder(after, ps, s, after[s])
<1> DEFINE L == serversWithView(list, s, view)
           M == serversWithView(after, s, view)
<1>1. /\ after \in ServerLists
      /\ after[t] = new
      /\ \A x \in Servers \ {t} : after[x] = list[x]
  BY DEF ServerLists
<1>2. IsViewOf(L, list, s, view) /\ IsViewOf(M, after, s, view)
  BY <1>1, ViewFacts
<1>3. L \in ServerLists /\ M \in ServerLists
  BY <1>2 DEF IsViewOf
<1>4. SUFFICES ASSUME ~ IsAssignedTo(c, ps[c], M, s)
               PROVE  \/ c \in AssignedUnder(after, ps, t, new)
                      \/ c \in AssignedUnder(after, ps, s, after[s])
  BY <1>1, AssignedUnderMember
<1>5. s # t
  <2>1. SUFFICES ASSUME s = t PROVE FALSE
    OBVIOUS
  <2>2. L = M
    BY <1>1, <2>1 DEF serversWithView
  <2> QED BY <1>4, <2>2
<1>6. IsAssignedTo(c, ps[c], L, s)
  OBVIOUS
<1> HIDE DEF L, M
<1>7. ps[c] = NoRef
  <2>1. SUFFICES ASSUME ps[c] # NoRef PROVE FALSE
    OBVIOUS
  <2>2. ps[c] = s
    BY <1>6, <2>1, ConstantsAssumption DEF IsAssignedTo, ResolveAssignment
  <2>3. s \in Listed(M)
    BY <1>2 DEF IsViewOf
  <2> QED BY <1>4, <2>1, <2>2, <2>3 DEF IsAssignedTo, ResolveAssignment
<1>8. /\ \A x \in Servers \ {s, t} : x \in ShardPool(L) <=> x \in ShardPool(M)
      /\ \A x \in Servers \ {s, t} : x \in ShardPool(M) <=> x \in ShardPool(after)
      /\ t \in ShardPool(M) <=> t \in ShardPool(after)
  <2>1. \A x \in Servers \ {t} : x \in ShardPool(after) <=> x \in ShardPool(list)
    BY <1>1 DEF ShardPool, Listed
  <2> QED BY <1>2, <1>5, <2>1 DEF IsViewOf
<1>9. /\ \A x \in ShardPool(M) \ {s, t} : L[x].weight = M[x].weight
      /\ \A x \in ShardPool(M) \ {s} : M[x].weight = after[x].weight
  <2>1. \A x \in Servers \ {t} : x \in ShardPool(after) <=> x \in ShardPool(list)
    BY <1>1 DEF ShardPool, Listed
  <2>2. ShardPool(M) \subseteq Servers
    BY <1>3, PoolType
  <2> QED BY <1>1, <1>2, <1>5, <2>1, <2>2 DEF IsViewOf
<1>10. L[s] = view /\ M[s] = view /\ (s \in ShardPool(L) <=> s \in ShardPool(M))
  BY <1>2, Zenon DEF IsViewOf
<1>11. CASE ShardPool(M) # {}
  <2> DEFINE x == PickShard(M, c)
  <2>1. Wins(M, c, x)
    BY <1>3, <1>11, PickShardWins
  <2>2. x # s
    BY <1>4, <1>7, <1>11 DEF IsAssignedTo, ResolveAssignment
  <2> HIDE DEF x
  <2>3. x = t
    <3>1. SUFFICES ASSUME x # t PROVE FALSE
      OBVIOUS
    <3>2. x \in Servers /\ x \in ShardPool(M) /\ x \in ShardPool(L)
      BY <1>3, <1>8, <2>1, <2>2, <3>1, PoolType DEF Wins
    <3>3. Wins(L, c, s)
      BY <1>3, <1>6, <1>7, <3>2, PickShardWins DEF IsAssignedTo, ResolveAssignment
    <3>4. s \in ShardPool(M)
      BY <1>10, <3>3 DEF Wins
    <3>5. /\ Outranks(s, view.weight, x, M[x].weight, c)
          /\ Outranks(x, M[x].weight, s, view.weight, c)
      BY <1>9, <1>10, <2>1, <2>2, <3>1, <3>2, <3>3, <3>4 DEF Wins
    <3>6. M[x].weight \in Weights /\ view.weight \in Weights
      BY <1>3, <3>2, PoolType DEF ServerSpec
    <3> QED BY <3>2, <3>5, <3>6, OutranksAntisymmetric
  <2>4. t \in ShardPool(after)
    BY <1>8, <2>1, <2>3 DEF Wins
  <2> DEFINE y == PickShard(after, c)
  <2>5. Wins(after, c, y)
    BY <1>1, <2>4, PickShardWins
  <2> HIDE DEF y
  <2>6. CASE y = t
    BY <1>1, <1>7, <2>5, <2>6, WinnerInOwnFanOut
  <2>7. CASE y = s
    BY <1>1, <1>7, <2>5, <2>7, WinnerInOwnFanOut
  <2>8. CASE y # t /\ y # s
    <3>1. y \in Servers /\ y \in ShardPool(after) /\ y \in ShardPool(M)
      BY <1>1, <1>8, <2>5, <2>8, PoolType DEF Wins
    <3>2. /\ Outranks(t, M[t].weight, y, M[y].weight, c)
          /\ Outranks(y, after[y].weight, t, after[t].weight, c)
      BY <2>1, <2>3, <2>4, <2>5, <2>8, <3>1 DEF Wins
    <3>3. M[t].weight = after[t].weight /\ M[y].weight = after[y].weight
      BY <1>5, <1>9, <2>1, <2>3, <2>8, <3>1 DEF Wins
    <3>4. M[t].weight \in Weights /\ M[y].weight \in Weights
      BY <1>3, <2>1, <2>3, <3>1, PoolType DEF Wins
    <3> QED BY <3>1, <3>2, <3>3, <3>4, OutranksAntisymmetric
  <2> QED BY <2>6, <2>7, <2>8
<1>12. CASE ShardPool(M) = {}
  <2>1. ShardPool(L) = {}
    <3>1. SUFFICES ASSUME ShardPool(L) # {} PROVE FALSE
      OBVIOUS
    <3>2. PickShard(L, c) = s
      BY <1>6, <1>7, <3>1 DEF IsAssignedTo, ResolveAssignment
    <3>3. s \in ShardPool(L)
      BY <1>3, <3>1, <3>2, PickShardWins DEF Wins
    <3> QED BY <1>10, <1>12, <3>3
  <2>2. Defaults(L) = {s}
    <3>1. \E d \in Servers : Defaults(L) = {d}
      BY <1>6, <1>7, <2>1, ConstantsAssumption DEF IsAssignedTo, ResolveAssignment
    <3>2. (CHOOSE d \in Servers : Defaults(L) = {d}) = s
      BY <1>6, <1>7, <2>1, <3>1 DEF IsAssignedTo, ResolveAssignment
    <3> QED BY <3>1, <3>2
  <2>3. view.default
    BY <1>2, <2>2, Zenon DEF IsViewOf
  <2>4. Defaults(M) = {s}
    BY <1>2, <2>3, Zenon DEF IsViewOf
  <2>5. IsAssignedTo(c, NoRef, M, s)
    BY <1>3, <1>12, <2>4, DefaultAssigned
  <2> QED BY <1>4, <1>7, <2>5
<1> QED BY <1>11, <1>12

-----------------------------------------------------------------------------
(* The inductive invariant.                                                *)

\* The watch delivers every change of a server, in the order they were made:
\* each event starts where the previous one for that server (or the store)
\* ends, and the last one ends at the API server's object.
OldIsStore ==
    \A i \in 1..Len(watch) :
        (\A j \in 1..(i-1) : watch[j].server # watch[i].server)
            => watch[i].old = store[watch[i].server]

OldIsPrevious ==
    \A i, j \in 1..Len(watch) :
        (/\ j < i
         /\ watch[j].server = watch[i].server
         /\ \A k \in (j+1)..(i-1) : watch[k].server # watch[i].server)
            => watch[i].old = watch[j].new

NewIsLive ==
    \A i \in 1..Len(watch) :
        (\A j \in (i+1)..Len(watch) : watch[j].server # watch[i].server)
            => watch[i].new = servers[watch[i].server]

StoreIsLive ==
    \A s \in Servers :
        (\A i \in 1..Len(watch) : watch[i].server # s) => store[s] = servers[s]

WatchInOrder == OldIsStore /\ OldIsPrevious /\ NewIsLive /\ StoreIsLive

\* The last unmapped event of a server shows it as the store holds it.
NotifyInOrder ==
    \A i \in 1..Len(notify) :
        \E j \in i..Len(notify) :
            /\ notify[j].server = notify[i].server
            /\ notify[j].new = store[notify[i].server]

IInv ==
    /\ TypeOK
    /\ WatchInOrder
    /\ NotifyInOrder
    /\ ReassignmentIsPending

\* ResolveAssignment returns a server or the error.
LEMMA ResolveType ==
    ASSUME NEW list \in ServerLists, NEW c \in Configs, NEW pin \in Servers \cup {NoRef}
    PROVE  ResolveAssignment(c, pin, list) \in Servers \cup {Unresolved}
<1>1. ShardPool(list) # {} => PickShard(list, c) \in Servers
  BY PickShardWins, PoolType DEF Wins
<1> QED BY <1>1 DEF ResolveAssignment

\* Every event of a watch or notification queue names a server.
LEMMA EventType ==
    ASSUME NEW q \in Seq(Event)
    PROVE  \A i \in 1..Len(q) : q[i] \in Event /\ q[i].server \in Servers
<1>1. \A i \in 1..Len(q) : q[i] \in Event
  OBVIOUS
<1>2. \A ev \in Event : ev.server \in Servers
  BY DEF Event
<1> QED BY <1>1, <1>2

\* A party that has just started satisfies the inductive invariant.
LEMMA InitIInv == Init => IInv
<1> SUFFICES ASSUME Init PROVE IInv
  OBVIOUS
<1>1. TypeOK
  BY ConstantsAssumption DEF Init, TypeOK, ServerLists
<1>2. WatchInOrder
  BY DEF Init, WatchInOrder, OldIsStore, OldIsPrevious, NewIsLive, StoreIsLive
<1>3. NotifyInOrder
  BY DEF Init, NotifyInOrder
<1>4. ReassignmentIsPending
  BY DEF Init, ReassignmentIsPending
<1> QED BY <1>1, <1>2, <1>3, <1>4 DEF IInv

\* Every action keeps the state in its types.
LEMMA TypePreserved == TypeOK /\ [Next]_vars => TypeOK'
<1> SUFFICES ASSUME TypeOK, [Next]_vars PROVE TypeOK'
  OBVIOUS
<1> USE DEF TypeOK
<1>1. ASSUME NEW s \in Servers, NEW spec \in ServerSpec \cup {Absent}, Change(s, spec)
      PROVE  TypeOK'
  <2>1. [server |-> s, old |-> servers[s], new |-> spec] \in Event
    BY DEF Event, ServerLists
  <2> QED BY <1>1, <2>1, ConstantsAssumption DEF Change, ServerLists
<1>2. ASSUME NEW c \in Configs, NEW pin \in Servers \cup {NoRef}, EditRef(c, pin)
      PROVE  TypeOK'
  BY <1>2, ConstantsAssumption DEF EditRef
<1>3. CASE InformerApply
  <2>1. Head(watch) \in Event /\ Tail(watch) \in Seq(Event)
    BY <1>3 DEF InformerApply
  <2> QED BY <1>3, <2>1 DEF InformerApply, Event, ServerLists
<1>4. CASE HandleServerEvent
  <2>1. mapConfigsForServerViews(store, pins, Head(notify)) \subseteq Configs
    BY DEF mapConfigsForServerViews, AssignedUnder
  <2> QED BY <1>4, <2>1 DEF HandleServerEvent
<1>5. ASSUME NEW c \in Configs, ReconcileConfig(c)
      PROVE  TypeOK'
  <2>1. ResolveAssignment(c, pins[c], store) \in Servers \cup {Unresolved}
    BY ResolveType
  <2> QED BY <1>5, <2>1 DEF ReconcileConfig
<1>6. CASE UNCHANGED vars
  BY <1>6 DEF vars
<1> QED BY <1>1, <1>2, <1>3, <1>4, <1>5, <1>6 DEF Next, WriteServer, DeleteServer

\* Undelivered changes stay in the order in which they were made.
LEMMA WatchPreserved == TypeOK /\ WatchInOrder /\ [Next]_vars => WatchInOrder'
<1> SUFFICES ASSUME TypeOK, WatchInOrder, [Next]_vars PROVE WatchInOrder'
  OBVIOUS
<1>1. ASSUME NEW s \in Servers, NEW spec \in ServerSpec \cup {Absent}, Change(s, spec)
      PROVE  WatchInOrder'
  <2> DEFINE e == [server |-> s, old |-> servers[s], new |-> spec]
             n == Len(watch)
  <2>1. /\ watch' = Append(watch, e)
        /\ servers' = [servers EXCEPT ![s] = spec]
        /\ store' = store
    BY <1>1 DEF Change
  <2>2. n \in Nat /\ watch \in Seq(Event) /\ servers \in ServerLists
    BY DEF TypeOK
  <2>3. /\ Len(watch') = n + 1
        /\ \A i \in 1..n : watch'[i] = watch[i]
        /\ watch'[n+1] = e
    BY <2>1, <2>2
  <2>4. /\ servers'[s] = spec
        /\ \A t \in Servers \ {s} : servers'[t] = servers[t]
    BY <2>1, <2>2 DEF ServerLists
  <2>5. \A i \in 1..n : watch[i].server \in Servers
    BY <2>2, EventType
  <2>6. e.server = s /\ e.old = servers[s] /\ e.new = spec
    OBVIOUS
  <2> HIDE DEF e, n
  <2>7. OldIsStore'
    <3> SUFFICES ASSUME NEW i \in 1..Len(watch'),
                        \A j \in 1..(i-1) : watch'[j].server # watch'[i].server
                 PROVE  watch'[i].old = store'[watch'[i].server]
      BY DEF OldIsStore
    <3>1. CASE i = n + 1
      <4>1. \A j \in 1..n : watch[j].server # s
        BY <2>2, <2>3, <2>6, <3>1
      <4>2. store[s] = servers[s]
        BY <4>1 DEF WatchInOrder, StoreIsLive, n
      <4> QED BY <2>1, <2>3, <2>6, <3>1, <4>2
    <3>2. CASE i # n + 1
      <4>1. i \in 1..n /\ \A j \in 1..(i-1) : watch[j].server # watch[i].server
        BY <2>2, <2>3, <3>2
      <4>2. watch[i].old = store[watch[i].server]
        BY <4>1 DEF WatchInOrder, OldIsStore, n
      <4> QED BY <2>1, <2>3, <4>1, <4>2
    <3> QED BY <3>1, <3>2
  <2>8. OldIsPrevious'
    <3> SUFFICES ASSUME NEW i \in 1..Len(watch'), NEW j \in 1..Len(watch'), j < i,
                        watch'[j].server = watch'[i].server,
                        \A k \in (j+1)..(i-1) : watch'[k].server # watch'[i].server
                 PROVE  watch'[i].old = watch'[j].new
      BY DEF OldIsPrevious
    <3>1. CASE i = n + 1
      <4>1. j \in 1..n /\ watch[j].server = s
        BY <2>2, <2>3, <2>6, <3>1
      <4>2. \A k \in (j+1)..n : watch[k].server # watch[j].server
        BY <2>2, <2>3, <2>6, <3>1, <4>1
      <4>3. watch[j].new = servers[s]
        BY <4>1, <4>2 DEF WatchInOrder, NewIsLive, n
      <4> QED BY <2>3, <2>6, <3>1, <4>1, <4>3
    <3>2. CASE i # n + 1
      BY <2>2, <2>3, <3>2 DEF WatchInOrder, OldIsPrevious, n
    <3> QED BY <3>1, <3>2
  <2>9. NewIsLive'
    <3> SUFFICES ASSUME NEW i \in 1..Len(watch'),
                        \A j \in (i+1)..Len(watch') : watch'[j].server # watch'[i].server
                 PROVE  watch'[i].new = servers'[watch'[i].server]
      BY DEF NewIsLive
    <3>1. CASE i = n + 1
      BY <2>3, <2>4, <2>6, <3>1
    <3>2. CASE i # n + 1
      <4>1. i \in 1..n /\ watch[i].server # s
        BY <2>2, <2>3, <2>6, <3>2
      <4>2. \A j \in (i+1)..n : watch[j].server # watch[i].server
        BY <2>2, <2>3, <4>1
      <4> QED BY <2>3, <2>4, <2>5, <4>1, <4>2 DEF WatchInOrder, NewIsLive, n
    <3> QED BY <3>1, <3>2
  <2>10. StoreIsLive'
    BY <2>1, <2>2, <2>3, <2>4, <2>6 DEF WatchInOrder, StoreIsLive, n
  <2> QED BY <2>7, <2>8, <2>9, <2>10 DEF WatchInOrder
<1>2. CASE InformerApply
  <2> DEFINE h == Head(watch)
             n == Len(watch)
  <2>1. /\ n \in Nat \ {0} /\ watch \in Seq(Event) /\ store \in ServerLists
        /\ h = watch[1] /\ h.server \in Servers
    BY <1>2, EventType DEF TypeOK, InformerApply
  <2>2. /\ Len(watch') = n - 1
        /\ \A i \in 1..(n-1) : watch'[i] = watch[i+1]
        /\ servers' = servers
    BY <1>2, <2>1 DEF InformerApply
  <2>3. /\ store'[h.server] = h.new
        /\ \A t \in Servers \ {h.server} : store'[t] = store[t]
    BY <1>2, <2>1 DEF InformerApply, ServerLists
  <2>4. \A i \in 1..n : watch[i].server \in Servers
    BY <2>1, EventType
  <2> HIDE DEF h, n
  <2>5. OldIsStore'
    <3> SUFFICES ASSUME NEW i \in 1..Len(watch'),
                        \A j \in 1..(i-1) : watch'[j].server # watch'[i].server
                 PROVE  watch'[i].old = store'[watch'[i].server]
      BY DEF OldIsStore
    <3>1. i + 1 \in 1..n /\ watch'[i] = watch[i+1]
      BY <2>1, <2>2
    <3>2. \A k \in 2..i : watch[k].server # watch[i+1].server
      <4> SUFFICES ASSUME NEW k \in 2..i PROVE watch[k].server # watch[i+1].server
        OBVIOUS
      <4>1. k - 1 \in 1..(i-1) /\ k - 1 \in 1..(n-1)
        BY <2>1, <3>1
      <4>2. watch'[k-1] = watch[(k-1)+1]
        BY <2>2, <4>1
      <4> QED BY <3>1, <4>1, <4>2
    <3>3. CASE watch[1].server = watch[i+1].server
      <4>1. watch[i+1].old = watch[1].new
        BY <2>1, <3>1, <3>2, <3>3 DEF WatchInOrder, OldIsPrevious, n
      <4> QED BY <2>1, <2>3, <3>1, <3>3, <4>1
    <3>4. CASE watch[1].server # watch[i+1].server
      <4>1. \A k \in 1..((i+1)-1) : watch[k].server # watch[i+1].server
        BY <3>1, <3>2, <3>4
      <4>2. watch[i+1].old = store[watch[i+1].server]
        BY <3>1, <4>1 DEF WatchInOrder, OldIsStore, n
      <4> QED BY <2>1, <2>3, <2>4, <3>1, <3>4, <4>2
    <3> QED BY <3>3, <3>4
  <2>6. OldIsPrevious'
    <3> SUFFICES ASSUME NEW i \in 1..Len(watch'), NEW j \in 1..Len(watch'), j < i,
                        watch'[j].server = watch'[i].server,
                        \A k \in (j+1)..(i-1) : watch'[k].server # watch'[i].server
                 PROVE  watch'[i].old = watch'[j].new
      BY DEF OldIsPrevious
    <3>1. /\ i + 1 \in 1..n /\ watch'[i] = watch[i+1]
          /\ j + 1 \in 1..n /\ watch'[j] = watch[j+1]
      BY <2>1, <2>2
    <3>2. \A k \in ((j+1)+1)..((i+1)-1) : watch[k].server # watch[i+1].server
      <4> SUFFICES ASSUME NEW k \in ((j+1)+1)..((i+1)-1)
                   PROVE  watch[k].server # watch[i+1].server
        OBVIOUS
      <4>1. k - 1 \in (j+1)..(i-1) /\ k - 1 \in 1..(n-1)
        BY <2>1, <3>1
      <4>2. watch'[k-1] = watch[(k-1)+1]
        BY <2>2, <4>1
      <4> QED BY <3>1, <4>1, <4>2
    <3> QED BY <3>1, <3>2 DEF WatchInOrder, OldIsPrevious, n
  <2>7. NewIsLive'
    <3> SUFFICES ASSUME NEW i \in 1..Len(watch'),
                        \A j \in (i+1)..Len(watch') : watch'[j].server # watch'[i].server
                 PROVE  watch'[i].new = servers'[watch'[i].server]
      BY DEF NewIsLive
    <3>1. i + 1 \in 1..n /\ watch'[i] = watch[i+1]
      BY <2>1, <2>2
    <3>2. \A k \in ((i+1)+1)..n : watch[k].server # watch[i+1].server
      <4> SUFFICES ASSUME NEW k \in ((i+1)+1)..n PROVE watch[k].server # watch[i+1].server
        OBVIOUS
      <4>1. k - 1 \in (i+1)..Len(watch') /\ k - 1 \in 1..(n-1)
        BY <2>1, <2>2, <3>1
      <4>2. watch'[k-1] = watch[(k-1)+1]
        BY <2>2, <4>1
      <4> QED BY <3>1, <4>1, <4>2
    <3> QED BY <2>2, <3>1, <3>2 DEF WatchInOrder, NewIsLive, n
  <2>8. StoreIsLive'
    <3> SUFFICES ASSUME NEW t \in Servers, \A i \in 1..Len(watch') : watch'[i].server # t
                 PROVE  store'[t] = servers'[t]
      BY DEF StoreIsLive
    <3>1. \A k \in 2..n : watch[k].server # t
      <4> SUFFICES ASSUME NEW k \in 2..n PROVE watch[k].server # t
        OBVIOUS
      <4>1. k - 1 \in 1..Len(watch') /\ k - 1 \in 1..(n-1)
        BY <2>1, <2>2
      <4>2. watch'[k-1] = watch[(k-1)+1]
        BY <2>2, <4>1
      <4> QED BY <4>1, <4>2
    <3>2. CASE t = h.server
      <4>1. watch[1].new = servers[watch[1].server]
        BY <2>1, <3>1, <3>2 DEF WatchInOrder, NewIsLive, n
      <4> QED BY <2>1, <2>2, <2>3, <3>2, <4>1
    <3>3. CASE t # h.server
      <4>1. \A k \in 1..n : watch[k].server # t
        BY <2>1, <3>1, <3>3
      <4> QED BY <2>2, <2>3, <3>3, <4>1 DEF WatchInOrder, StoreIsLive, n
    <3> QED BY <3>2, <3>3
  <2> QED BY <2>5, <2>6, <2>7, <2>8 DEF WatchInOrder
<1>3. CASE UNCHANGED <<servers, store, watch>>
  BY <1>3 DEF WatchInOrder, OldIsStore, OldIsPrevious, NewIsLive, StoreIsLive
<1> QED BY <1>1, <1>2, <1>3
        DEF Next, WriteServer, DeleteServer, EditRef, HandleServerEvent, ReconcileConfig, vars

\* Event queues: what Append and Tail do to the entries.
LEMMA AppendEntries ==
    ASSUME NEW q \in Seq(Event), NEW ev \in Event
    PROVE  /\ Len(Append(q, ev)) = Len(q) + 1 /\ Len(q) \in Nat
           /\ \A i \in 1..Len(q) : Append(q, ev)[i] = q[i]
           /\ Append(q, ev)[Len(q) + 1] = ev
OBVIOUS

\* Entries of a queue without its head.
LEMMA TailEntries ==
    ASSUME NEW q \in Seq(Event), q # <<>>
    PROVE  /\ Len(Tail(q)) = Len(q) - 1 /\ Len(q) \in Nat \ {0}
           /\ \A i \in 1..(Len(q) - 1) : Tail(q)[i] = q[i+1]
           /\ Head(q) = q[1]
OBVIOUS

\* What the informer's step does to the store, in terms of the head event.
LEMMA ApplyHead ==
    ASSUME TypeOK, InformerApply
    PROVE  /\ Head(watch) \in Event
           /\ Head(watch).server \in Servers
           /\ Head(watch).new \in ServerSpec \cup {Absent}
           /\ store' = [store EXCEPT ![Head(watch).server] = Head(watch).new]
           /\ store'[Head(watch).server] = Head(watch).new
           /\ \A t \in Servers \ {Head(watch).server} : store'[t] = store[t]
           /\ notify' = Append(notify, Head(watch))
           /\ UNCHANGED <<pins, queue, resolved>>
<1>1. watch \in Seq(Event) /\ watch # <<>> /\ store \in ServerLists
  BY DEF TypeOK, InformerApply
<1>2. Head(watch) \in Event
  BY <1>1
<1>3. Head(watch).server \in Servers /\ Head(watch).new \in ServerSpec \cup {Absent}
  BY <1>2 DEF Event
<1> QED BY <1>1, <1>2, <1>3 DEF InformerApply, ServerLists

\* Unmapped changes stay in the order in which they were applied.
LEMMA NotifyPreserved == TypeOK /\ NotifyInOrder /\ [Next]_vars => NotifyInOrder'
<1> SUFFICES ASSUME TypeOK, NotifyInOrder, [Next]_vars PROVE NotifyInOrder'
  OBVIOUS
<1>1. CASE InformerApply
  <2> DEFINE h == Head(watch)
             n == Len(notify)
  <2>1. h \in Event /\ notify \in Seq(Event) /\ notify' = Append(notify, h)
    BY <1>1, ApplyHead DEF TypeOK
  <2>2. /\ store'[h.server] = h.new
        /\ \A t \in Servers \ {h.server} : store'[t] = store[t]
    BY <1>1, ApplyHead
  <2>3. /\ Len(notify') = n + 1 /\ n \in Nat
        /\ \A i \in 1..n : notify'[i] = notify[i]
        /\ notify'[n + 1] = h
    BY <2>1, AppendEntries
  <2>4. \A i \in 1..n : notify[i].server \in Servers
    BY <2>1, EventType
  <2> HIDE DEF h, n
  <2> SUFFICES ASSUME NEW i \in 1..Len(notify')
               PROVE  \E j \in i..Len(notify') :
                        /\ notify'[j].server = notify'[i].server
                        /\ notify'[j].new = store'[notify'[i].server]
    BY DEF NotifyInOrder
  <2>5. CASE notify'[i].server = h.server
    <3>1. n + 1 \in i..Len(notify')
      BY <2>3
    <3> QED BY <2>2, <2>3, <2>5, <3>1
  <2>6. CASE notify'[i].server # h.server
    <3>1. i \in 1..n
      BY <2>3, <2>6
    <3>2. PICK j \in i..n : /\ notify[j].server = notify[i].server
                            /\ notify[j].new = store[notify[i].server]
      BY <3>1 DEF NotifyInOrder, n
    <3>3. j \in 1..n /\ j \in i..Len(notify')
      BY <2>3, <3>1
    <3> QED BY <2>2, <2>3, <2>4, <2>6, <3>1, <3>2, <3>3
  <2> QED BY <2>5, <2>6
<1>2. CASE HandleServerEvent
  <2> DEFINE n == Len(notify)
  <2>1. notify \in Seq(Event) /\ notify # <<>> /\ notify' = Tail(notify) /\ store' = store
    BY <1>2 DEF HandleServerEvent, TypeOK
  <2>2. /\ Len(notify') = n - 1 /\ n \in Nat \ {0}
        /\ \A i \in 1..(n-1) : notify'[i] = notify[i+1]
    BY <2>1, TailEntries
  <2> HIDE DEF n
  <2> SUFFICES ASSUME NEW i \in 1..Len(notify')
               PROVE  \E j \in i..Len(notify') :
                        /\ notify'[j].server = notify'[i].server
                        /\ notify'[j].new = store'[notify'[i].server]
    BY DEF NotifyInOrder
  <2>3. i + 1 \in 1..n /\ notify'[i] = notify[i+1]
    BY <2>2
  <2>4. PICK k \in (i+1)..n : /\ notify[k].server = notify[i+1].server
                              /\ notify[k].new = store[notify[i+1].server]
    BY <2>3 DEF NotifyInOrder, n
  <2>5. k - 1 \in i..Len(notify') /\ k - 1 \in 1..(n-1) /\ (k - 1) + 1 = k
    BY <2>2, <2>3, <2>4
  <2>6. notify'[k-1] = notify[k]
    BY <2>2, <2>5
  <2> QED BY <2>1, <2>3, <2>4, <2>5, <2>6
<1>3. CASE UNCHANGED <<store, notify>>
  BY <1>3 DEF NotifyInOrder
<1> QED BY <1>1, <1>2, <1>3
        DEF Next, WriteServer, DeleteServer, Change, EditRef, ReconcileConfig, vars

\* A config the mapping of an event covers is still covered after the store
\* changes: by that event, by the change's own event, or by a later event of
\* the same server.
LEMMA PendingSurvivesApply ==
    ASSUME TypeOK, NotifyInOrder', InformerApply, NEW c \in Configs,
           NEW i \in 1..Len(notify), c \in mapConfigsForServerViews(store, pins, notify[i])
    PROVE  \E j \in 1..Len(notify') : c \in mapConfigsForServerViews(store', pins', notify'[j])
<1> DEFINE h == Head(watch)
           n == Len(notify)
           s == notify[i].server
<1>1. /\ h \in Event /\ h.server \in Servers /\ h.new \in ServerSpec \cup {Absent}
      /\ notify \in Seq(Event) /\ notify' = Append(notify, h) /\ pins' = pins
      /\ store' = [store EXCEPT ![h.server] = h.new]
      /\ store \in ServerLists /\ pins \in [Configs -> Servers \cup {NoRef}]
  BY ApplyHead DEF TypeOK
<1>2. /\ Len(notify') = n + 1 /\ n \in Nat
      /\ \A k \in 1..n : notify'[k] = notify[k]
      /\ notify'[n + 1] = h
  BY <1>1, AppendEntries
<1>3. notify[i] \in Event /\ s \in Servers
  BY <1>1, EventType
<1>4. PICK view \in {notify[i].old, notify[i].new} :
        view # Absent /\ IsAssignedTo(c, pins[c], serversWithView(store, s, view), s)
  BY DEF mapConfigsForServerViews, AssignedUnder
<1>5. view \in ServerSpec
  BY <1>3, <1>4 DEF Event
<1>6. /\ i \in 1..Len(notify') /\ n + 1 \in 1..Len(notify')
      /\ notify'[i] = notify[i] /\ notify'[n + 1] = h
  BY <1>2
<1>7. PICK j \in i..Len(notify') : /\ notify'[j].server = s
                                  /\ notify'[j].new = store'[s]
  BY <1>6 DEF NotifyInOrder
<1>8. j \in 1..Len(notify')
  BY <1>2, <1>7
<1> HIDE DEF h, n, s
<1>9. \/ c \in AssignedUnder(store', pins, s, view)
      \/ c \in AssignedUnder(store', pins, h.server, h.new)
      \/ c \in AssignedUnder(store', pins, s, store'[s])
  BY <1>1, <1>3, <1>4, <1>5, FanOutSurvivesChange
<1>10. CASE c \in AssignedUnder(store', pins, s, view)
  <2>1. c \in mapConfigsForServerViews(store', pins', notify'[i])
    BY <1>1, <1>4, <1>6, <1>10 DEF mapConfigsForServerViews, s
  <2> QED BY <1>6, <2>1
<1>11. CASE c \in AssignedUnder(store', pins, h.server, h.new)
  <2>1. c \in mapConfigsForServerViews(store', pins', notify'[n + 1])
    BY <1>1, <1>6, <1>11 DEF mapConfigsForServerViews
  <2> QED BY <1>6, <2>1
<1>12. CASE c \in AssignedUnder(store', pins, s, store'[s])
  <2>1. c \in mapConfigsForServerViews(store', pins', notify'[j])
    BY <1>1, <1>7, <1>12 DEF mapConfigsForServerViews
  <2> QED BY <1>8, <2>1
<1> QED BY <1>9, <1>10, <1>11, <1>12

\* No step makes an outdated assignment forgotten.
LEMMA ReassignmentPreserved ==
    ASSUME IInv, NotifyInOrder', [Next]_vars
    PROVE  ReassignmentIsPending'
<1>1. CASE InformerApply
  <2> DEFINE h == Head(watch)
             n == Len(notify)
  <2>1. /\ TypeOK /\ h \in Event /\ h.server \in Servers
        /\ h.new \in ServerSpec \cup {Absent}
        /\ notify \in Seq(Event) /\ notify' = Append(notify, h)
        /\ pins' = pins /\ queue' = queue /\ resolved' = resolved
        /\ store' = [store EXCEPT ![h.server] = h.new]
        /\ store \in ServerLists /\ pins \in [Configs -> Servers \cup {NoRef}]
    BY <1>1, ApplyHead DEF IInv, TypeOK
  <2>2. n + 1 \in 1..Len(notify') /\ notify'[n + 1] = h
    BY <2>1, AppendEntries
  <2>3. h = [server |-> h.server, old |-> store[h.server], new |-> h.new]
    <3>1. watch \in Seq(Event) /\ watch # <<>>
      BY <1>1 DEF IInv, TypeOK, InformerApply
    <3>2. Len(watch) \in Nat \ {0} /\ h = watch[1]
      BY <3>1, TailEntries
    <3>3. h.old = store[h.server]
      BY <3>2 DEF IInv, WatchInOrder, OldIsStore
    <3>4. h = [server |-> h.server, old |-> h.old, new |-> h.new]
      BY <2>1 DEF Event
    <3> QED BY <3>3, <3>4
  <2> HIDE DEF h, n
  <2> SUFFICES ASSUME NEW c \in Configs \ queue,
                      resolved[c] # ResolveAssignment(c, pins[c], store')
               PROVE  \E i \in 1..Len(notify') :
                        c \in mapConfigsForServerViews(store', pins', notify'[i])
    BY <2>1 DEF ReassignmentIsPending
  <2>4. CASE resolved[c] = ResolveAssignment(c, pins[c], store)
    <3>1. c \in mapConfigsForServerViews(store', pins,
                  [server |-> h.server, old |-> store[h.server], new |-> h.new])
      BY <2>1, <2>4, FanOutCoversChange
    <3> QED BY <2>1, <2>2, <2>3, <3>1
  <2>5. CASE resolved[c] # ResolveAssignment(c, pins[c], store)
    <3>1. PICK i \in 1..Len(notify) : c \in mapConfigsForServerViews(store, pins, notify[i])
      BY <2>5 DEF IInv, ReassignmentIsPending
    <3> QED BY <1>1, <2>1, <3>1, PendingSurvivesApply
  <2> QED BY <2>4, <2>5
<1>2. CASE HandleServerEvent
  <2> DEFINE n == Len(notify)
  <2>1. /\ notify \in Seq(Event) /\ notify # <<>> /\ notify' = Tail(notify)
        /\ store' = store /\ pins' = pins /\ resolved' = resolved
        /\ queue' = queue \cup mapConfigsForServerViews(store, pins, Head(notify))
    BY <1>2 DEF HandleServerEvent, IInv, TypeOK
  <2>2. /\ Len(notify') = n - 1 /\ n \in Nat \ {0} /\ Head(notify) = notify[1]
        /\ \A i \in 1..(n-1) : notify'[i] = notify[i+1]
    BY <2>1, TailEntries
  <2> HIDE DEF n
  <2> SUFFICES ASSUME NEW c \in Configs \ queue',
                      resolved[c] # ResolveAssignment(c, pins[c], store)
               PROVE  \E i \in 1..Len(notify') :
                        c \in mapConfigsForServerViews(store', pins', notify'[i])
    BY <2>1 DEF ReassignmentIsPending
  <2>3. PICK k \in 1..n : c \in mapConfigsForServerViews(store, pins, notify[k])
    BY <2>1 DEF IInv, ReassignmentIsPending, n
  <2>4. k # 1
    BY <2>1, <2>2, <2>3
  <2>5. k - 1 \in 1..Len(notify') /\ k - 1 \in 1..(n-1) /\ (k - 1) + 1 = k
    BY <2>2, <2>3, <2>4
  <2>6. notify'[k-1] = notify[k]
    BY <2>2, <2>5
  <2> QED BY <2>1, <2>3, <2>5, <2>6
<1>3. ASSUME NEW c \in Configs, NEW pin \in Servers \cup {NoRef}, EditRef(c, pin)
      PROVE  ReassignmentIsPending'
  <2>1. /\ pins \in [Configs -> Servers \cup {NoRef}]
        /\ queue' = queue \cup {c} /\ pins' = [pins EXCEPT ![c] = pin]
        /\ store' = store /\ notify' = notify /\ resolved' = resolved
    BY <1>3 DEF EditRef, IInv, TypeOK
  <2> SUFFICES ASSUME NEW d \in Configs \ queue',
                      resolved[d] # ResolveAssignment(d, pins'[d], store)
               PROVE  \E i \in 1..Len(notify) :
                        d \in mapConfigsForServerViews(store, pins', notify[i])
    BY <2>1 DEF ReassignmentIsPending
  <2>2. d \notin queue /\ pins'[d] = pins[d]
    BY <2>1
  <2>3. PICK i \in 1..Len(notify) : d \in mapConfigsForServerViews(store, pins, notify[i])
    BY <2>2 DEF IInv, ReassignmentIsPending
  <2>4. d \in mapConfigsForServerViews(store, pins', notify[i])
    BY <2>2, <2>3 DEF mapConfigsForServerViews, AssignedUnder
  <2> QED BY <2>4
<1>4. ASSUME NEW c \in Configs, ReconcileConfig(c)
      PROVE  ReassignmentIsPending'
  <2>1. /\ resolved \in [Configs -> Servers \cup {Unresolved}]
        /\ queue' = queue \ {c} /\ pins' = pins /\ store' = store /\ notify' = notify
        /\ resolved' = [resolved EXCEPT ![c] = ResolveAssignment(c, pins[c], store)]
    BY <1>4 DEF ReconcileConfig, IInv, TypeOK
  <2> QED BY <2>1 DEF IInv, ReassignmentIsPending
<1>5. CASE UNCHANGED <<pins, store, notify, queue, resolved>>
  BY <1>5 DEF IInv, ReassignmentIsPending
<1> QED BY <1>1, <1>2, <1>3, <1>4, <1>5
        DEF Next, WriteServer, DeleteServer, Change, vars

\* The inductive invariant is preserved by every step.
LEMMA InductiveStep == IInv /\ [Next]_vars => IInv'
BY TypePreserved, WatchPreserved, NotifyPreserved, ReassignmentPreserved DEF IInv

\* IInv is an invariant.
THEOREM Invariance == Spec => []IInv
BY InitIInv, InductiveStep, PTL DEF Spec

-----------------------------------------------------------------------------
(* What the module promises.                                               *)

\* Type correctness of the assignment party, whatever the fleet looks like.
THEOREM TypeCorrect == Spec => []TypeOK
<1>1. IInv => TypeOK
  BY DEF IInv
<1> QED BY <1>1, Invariance, PTL

\* The fan-out (mapXRDConfigsForServerViews over old and new view) covers every
\* config a server change moved, even when the informer's store has run ahead
\* of the handler: any config reconciled under an outdated assignment is
\* queued or will be, for every fleet, weight and hash function.
THEOREM ReassignmentPending == Spec => []ReassignmentIsPending
<1>1. IInv => ReassignmentIsPending
  BY DEF IInv
<1> QED BY <1>1, Invariance, PTL

\* With nothing left to deliver or map, every config outside the work queue was
\* last reconciled under the assignment the API server's lists resolve to.
THEOREM NoReassignmentLost == Spec => []NoLostReassignment
<1>1. ASSUME IInv PROVE NoLostReassignment
  <2> SUFFICES ASSUME watch = <<>>, notify = <<>>, NEW c \in Configs \ queue
               PROVE  resolved[c] = ResolveAssignment(c, pins[c], servers)
    BY DEF NoLostReassignment
  <2>1. \A s \in Servers : store[s] = servers[s]
    BY <1>1 DEF IInv, WatchInOrder, StoreIsLive
  <2>2. store = servers
    BY <1>1, <2>1 DEF IInv, TypeOK, ServerLists
  <2>3. resolved[c] = ResolveAssignment(c, pins[c], store)
    BY <1>1 DEF IInv, ReassignmentIsPending
  <2> QED BY <2>2, <2>3
<1> QED BY <1>1, Invariance, PTL

\* PickShard moves no more than it must: for any hash function, a change of one
\* server moves an unpinned config of the pool only off or onto that server.
THEOREM MovementIsMinimal == Spec => MinimalMovement
<1>1. ASSUME IInv, [Next]_vars
      PROVE  [\A c \in Configs : MovesOnlyWithChanged(c)]_servers
  <2>1. ASSUME NEW s \in Servers, NEW spec \in ServerSpec \cup {Absent}, Change(s, spec),
               NEW c \in Configs
        PROVE  MovesOnlyWithChanged(c)
    <3>1. servers \in ServerLists /\ servers' = [servers EXCEPT ![s] = spec]
          /\ servers[s] # spec
      BY <1>1, <2>1 DEF IInv, TypeOK, Change
    <3>2. servers' \in ServerLists /\ servers'[s] = spec
          /\ \A t \in Servers \ {s} : servers[t] = servers'[t]
      BY <3>1 DEF ServerLists
    <3> SUFFICES ASSUME pins[c] = NoRef, ShardPool(servers) # {}, ShardPool(servers') # {},
                        ResolveAssignment(c, pins[c], servers) # ResolveAssignment(c, pins[c], servers')
                 PROVE  \/ ResolveAssignment(c, pins[c], servers) = s
                        \/ ResolveAssignment(c, pins[c], servers') = s
      BY <3>1, <3>2 DEF MovesOnlyWithChanged
    <3>3. /\ ResolveAssignment(c, pins[c], servers) = PickShard(servers, c)
          /\ ResolveAssignment(c, pins[c], servers') = PickShard(servers', c)
      BY DEF ResolveAssignment
    <3> QED BY <3>1, <3>2, <3>3, OneServerMoves
  <2>2. CASE UNCHANGED servers
    BY <2>2
  <2> QED BY <1>1, <2>1, <2>2
          DEF Next, WriteServer, DeleteServer, EditRef, InformerApply, HandleServerEvent,
              ReconcileConfig, vars
<1> QED BY <1>1, Invariance, PTL DEF Spec, MinimalMovement

-----------------------------------------------------------------------------
(* Admission, when every write is judged against an up-to-date cache.      *)

\* A write made with nothing left to deliver is judged against the live fleet.
LEMMA SerialStore ==
    ASSUME IInv, watch = <<>>
    PROVE  store = servers
<1>1. \A s \in Servers : store[s] = servers[s]
  BY DEF IInv, WatchInOrder, StoreIsLive
<1> QED BY <1>1 DEF IInv, TypeOK, ServerLists

\* Serialised admission: checkDefault keeps at most one default for every fleet.
\* (Without serialisation two writes may each miss the other.)
THEOREM OneDefault ==
    ASSUME SerialAdmission
    PROVE  Spec => []AtMostOneDefault
<1>1. Init => AtMostOneDefault
  BY DEF Init, Admitted, AtMostOneDefault
<1>2. ASSUME IInv, AtMostOneDefault, [Next]_vars
      PROVE  AtMostOneDefault'
  <2>1. ASSUME NEW s \in Servers, NEW spec \in ServerSpec, WriteServer(s, spec)
        PROVE  AtMostOneDefault'
    <3>1. store = servers /\ servers \in ServerLists
      BY <1>2, <2>1, SerialStore DEF WriteServer, Change, IInv, TypeOK
    <3>2. /\ servers' = [servers EXCEPT ![s] = spec]
          /\ spec.default => Defaults(servers) \subseteq {s}
      BY <2>1, <3>1 DEF WriteServer, Change, checkDefault
    <3>3. \A t \in Servers \ {s} : t \in Defaults(servers') => t \in Defaults(servers)
      BY <3>1, <3>2, Zenon DEF Defaults, Listed, ServerLists
    <3>4. s \in Defaults(servers') => spec.default
      BY <3>1, <3>2, Zenon DEF Defaults, Listed, ServerLists
    <3>5. Defaults(servers') \subseteq Servers
      BY DEF Defaults, Listed
    <3> QED BY <1>2, <3>2, <3>3, <3>4, <3>5, Zenon DEF AtMostOneDefault
  <2>2. ASSUME NEW s \in Servers, DeleteServer(s)
        PROVE  AtMostOneDefault'
    <3>1. servers \in ServerLists /\ servers' = [servers EXCEPT ![s] = Absent]
      BY <1>2, <2>2 DEF DeleteServer, Change, IInv, TypeOK
    <3>2. Defaults(servers') \subseteq Defaults(servers)
      BY <3>1 DEF Defaults, Listed, ServerLists
    <3> QED BY <1>2, <3>2 DEF AtMostOneDefault
  <2>3. CASE UNCHANGED servers
    BY <1>2, <2>3 DEF AtMostOneDefault, Defaults, Listed
  <2> QED BY <1>2, <2>1, <2>2, <2>3
          DEF Next, EditRef, InformerApply, HandleServerEvent, ReconcileConfig, vars
<1> QED BY <1>1, <1>2, Invariance, PTL DEF Spec

\* Serialised admission: checkShardPool (with checkDefault) makes activating the
\* pool a no-op, whatever the weights and the hash.
THEOREM ActivationIsNeutral ==
    ASSUME SerialAdmission
    PROVE  Spec => PoolActivationMovesNothing
<1>1. ASSUME IInv, [Next]_vars
      PROVE  [\A c \in Configs : StaysPutOnActivation(c)]_servers
  <2>1. ASSUME NEW s \in Servers, NEW spec \in ServerSpec, WriteServer(s, spec),
               NEW c \in Configs
        PROVE  StaysPutOnActivation(c)
    <3>1. store = servers /\ servers \in ServerLists
      BY <1>1, <2>1, SerialStore DEF WriteServer, Change, IInv, TypeOK
    <3>2. /\ servers' = [servers EXCEPT ![s] = spec]
          /\ spec.default => Defaults(servers) \subseteq {s}
          /\ \/ ShardPool(servers') = {}
             \/ Defaults(servers') = {}
             \/ \E d \in Defaults(servers') : d \in ShardPool(servers')
      BY <2>1, <3>1 DEF WriteServer, Change, checkDefault, checkShardPool
    <3> SUFFICES ASSUME ShardPool(servers) = {}, ShardPool(servers') # {},
                        ResolveAssignment(c, NoRef, servers) # Unresolved
                 PROVE  ResolveAssignment(c, NoRef, servers') = ResolveAssignment(c, NoRef, servers)
      BY DEF StaysPutOnActivation
    <3>3. servers' \in ServerLists /\ servers'[s] = spec
          /\ \A t \in Servers \ {s} : servers'[t] = servers[t]
      BY <3>1, <3>2 DEF ServerLists
    <3>4. ShardPool(servers') \subseteq {s}
      BY <3>3 DEF ShardPool, Listed
    <3>5. ResolveAssignment(c, NoRef, servers') = s
      <4>1. PickShard(servers', c) \in ShardPool(servers')
        BY <3>3, PickShardWins DEF Wins
      <4> QED BY <3>4, <4>1 DEF ResolveAssignment
    <3>6. \E d \in Servers : Defaults(servers) = {d}
      BY DEF ResolveAssignment
    <3>7. PICK d \in Servers : Defaults(servers) = {d}
      BY <3>6
    <3>8. ResolveAssignment(c, NoRef, servers) = d
      BY <3>7 DEF ResolveAssignment
    <3>9. d # s => d \in Defaults(servers')
      BY <3>3, <3>7, Zenon DEF Defaults, Listed
    <3>10. s \in Defaults(servers') => spec.default
      BY <3>3, Zenon DEF Defaults, Listed
    <3>11. d = s
      BY <3>2, <3>4, <3>7, <3>9, <3>10, Zenon
    <3> QED BY <3>5, <3>8, <3>11
  <2>2. ASSUME NEW s \in Servers, DeleteServer(s), NEW c \in Configs
        PROVE  StaysPutOnActivation(c)
    <3>1. servers \in ServerLists /\ servers' = [servers EXCEPT ![s] = Absent]
      BY <1>1, <2>2 DEF DeleteServer, Change, IInv, TypeOK
    <3>2. ShardPool(servers') \subseteq ShardPool(servers)
      BY <3>1 DEF ShardPool, Listed, ServerLists
    <3> QED BY <3>2 DEF StaysPutOnActivation
  <2>3. CASE UNCHANGED servers
    BY <2>3
  <2> QED BY <1>1, <2>1, <2>2, <2>3
          DEF Next, EditRef, InformerApply, HandleServerEvent, ReconcileConfig, vars
<1> QED BY <1>1, Invariance, PTL DEF Spec, PoolActivationMovesNothing

=============================================================================
