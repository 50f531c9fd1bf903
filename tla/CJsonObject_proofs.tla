------------------------- MODULE CJsonObject_proofs -------------------------
(***************************************************************************)
(* The caches and the cursor of CJsonObject agree with the tree, for any   *)
(* set of spellings, any folding of their case and any bounds.  The first  *)
(* part is about searching a sequence of children; the second shows that   *)
(* every operation keeps the invariant.                                    *)
(***************************************************************************)
EXTENDS CJsonObject, SequenceTheorems, WellFoundedInduction, TLAPS

----------------------------------------------------------------------------
(* Searching.                                                              *)

\* A set of numbers that is not empty has a least one, as the search by key
\* takes the first child that matches.
LEMMA Least ==
    ASSUME NEW T, T \subseteq Nat, T # {}
    PROVE  \E x \in T : \A y \in T : x <= y
<1>1. PICK x \in T : \A y \in T : ~(<<y, x>> \in OpToRel(<, Nat))
  BY NatLessThanWellFounded, WFMin, Zenon
<1>2. \A y \in T : ~(y < x)
  BY <1>1 DEF OpToRel
<1>3. \A y \in T : x <= y
  BY <1>2
<1> QED BY <1>3

\* The first match is a match, and no match comes before it.
LEMMA FirstMatches ==
    ASSUME NEW s \in Seq(Items), NEW k, Positions(s, k) # {}
    PROVE  /\ First(s, k) \in Positions(s, k)
           /\ \A j \in Positions(s, k) : First(s, k) <= j
<1>1. Positions(s, k) \subseteq Nat
  BY DEF Positions
<1>2. \E i \in Positions(s, k) : \A j \in Positions(s, k) : i <= j
  BY <1>1, Least, Zenon
<1> QED BY <1>2, Zenon DEF First

\* There is only one first match.
LEMMA FirstIs ==
    ASSUME NEW s \in Seq(Items), NEW k, NEW i \in Positions(s, k),
           \A j \in Positions(s, k) : i <= j
    PROVE  First(s, k) = i
<1>1. First(s, k) \in Positions(s, k) /\ First(s, k) <= i
  BY FirstMatches
<1>2. i <= First(s, k) /\ i \in Nat /\ First(s, k) \in Nat
  BY <1>1 DEF Positions
<1> QED BY <1>1, <1>2

\* A search returns a node unless nothing matches.
LEMMA FindNull ==
    ASSUME NEW s \in Seq(Items), NEW k
    PROVE  /\ Find(s, k) = Null <=> Positions(s, k) = {}
           /\ Find(s, k) \in Nodes \cup {Null}
<1>1. CASE Positions(s, k) = {}
  BY <1>1 DEF Find
<1>2. CASE Positions(s, k) # {}
  <2>1. First(s, k) \in DOMAIN s
    BY <1>2, FirstMatches DEF Positions
  <2>2. s[First(s, k)] \in Items
    BY <2>1
  <2>3. s[First(s, k)].node \in Nodes
    BY <2>2 DEF Items
  <2> QED BY <1>2, <2>3 DEF Find, Nodes, Null
<1> QED BY <1>1, <1>2

\* A child added under another key is not found.
LEMMA FindAppended ==
    ASSUME NEW s \in Seq(Items), NEW k \in Keys, NEW j \in Keys, NEW n \in Nodes,
           Fold[j] # Fold[k]
    PROVE  Find(Append(s, [key |-> k, node |-> n]), j) = Find(s, j)
<1> DEFINE t == Append(s, [key |-> k, node |-> n])
<1>1. Positions(t, j) = Positions(s, j)
  BY DEF Positions, Matches
<1>2. CASE Positions(s, j) = {}
  BY <1>1, <1>2 DEF Find
<1>3. CASE Positions(s, j) # {}
  <2>1. First(t, j) = First(s, j)
    BY <1>1 DEF First
  <2>2. First(s, j) \in DOMAIN s
    BY <1>3, FirstMatches DEF Positions
  <2>3. t[First(s, j)] = s[First(s, j)]
    BY <2>2
  <2> QED BY <1>1, <1>3, <2>1, <2>3 DEF Find
<1> QED BY <1>2, <1>3

\* A child replaced under another key leaves a search alone.
LEMMA FindReplaced ==
    ASSUME NEW s \in Seq(Items), NEW k \in Keys, NEW j \in Keys, NEW n \in Nodes,
           Fold[j] # Fold[k], Positions(s, k) # {}
    PROVE  Find([s EXCEPT ![First(s, k)] = [key |-> k, node |-> n]], j) = Find(s, j)
<1> DEFINE i == First(s, k)
<1> DEFINE t == [s EXCEPT ![i] = [key |-> k, node |-> n]]
<1>0. i \in DOMAIN s /\ Fold[s[i].key] = Fold[k]
  BY FirstMatches DEF Positions, Matches
<1> HIDE DEF i
<1>1. Positions(t, j) = Positions(s, j)
  BY <1>0 DEF Positions, Matches
<1>2. ASSUME Positions(s, j) = {} PROVE Find(t, j) = Find(s, j)
  <2> HIDE DEF t
  <2> QED BY <1>1, <1>2 DEF Find
<1>3. ASSUME Positions(s, j) # {} PROVE Find(t, j) = Find(s, j)
  <2>1. First(t, j) = First(s, j)
    BY <1>1 DEF First
  <2>2. First(s, j) \in DOMAIN s /\ Fold[s[First(s, j)].key] = Fold[j]
    BY <1>3, FirstMatches DEF Positions, Matches
  <2>3. t[First(s, j)] = s[First(s, j)]
    BY <1>0, <2>2
  <2> HIDE DEF t
  <2> QED BY <1>1, <1>3, <2>1, <2>3 DEF Find
<1> QED BY <1>2, <1>3 DEF i

\* Taking one child out leaves a sequence of children.
LEMMA WithoutType ==
    ASSUME NEW s \in Seq(Items), NEW i \in DOMAIN s
    PROVE  /\ Without(s, i) \in Seq(Items)
           /\ Len(Without(s, i)) = Len(s) - 1
           /\ DOMAIN Without(s, i) = 1 .. Len(s) - 1
           /\ \A p \in DOMAIN s : p < i =>
                 p \in DOMAIN Without(s, i) /\ Without(s, i)[p] = s[p]
           /\ \A p \in DOMAIN s : p > i =>
                 p - 1 \in DOMAIN Without(s, i) /\ Without(s, i)[p - 1] = s[p]
           /\ \A p \in DOMAIN Without(s, i) :
                 Without(s, i)[p] = s[IF p < i THEN p ELSE p + 1]
<1> DEFINE n == Len(s) - 1
<1> DEFINE t == [p \in 1 .. n |-> s[IF p < i THEN p ELSE p + 1]]
<1>1. n \in Nat /\ DOMAIN s = 1 .. n + 1 /\ i \in 1 .. n + 1
  OBVIOUS
<1>2. \A p \in 1 .. n : (IF p < i THEN p ELSE p + 1) \in DOMAIN s
  BY <1>1
<1>3. \A p \in DOMAIN s : s[p] \in Items
  OBVIOUS
<1>4. \A p \in 1 .. n : s[IF p < i THEN p ELSE p + 1] \in Items
  BY <1>2, <1>3
<1> HIDE DEF n
<1>5. t \in Seq(Items) /\ Len(t) = n /\ DOMAIN t = 1 .. n
  BY <1>1, <1>4
<1>6. t = Without(s, i)
  BY DEF Without, n
<1>7. \A p \in 1 .. n : t[p] = s[IF p < i THEN p ELSE p + 1]
  OBVIOUS
<1>8. \A p \in DOMAIN s : p < i => p \in 1 .. n /\ t[p] = s[p]
  BY <1>1, <1>7
<1>9. \A p \in DOMAIN s : p > i => p - 1 \in 1 .. n /\ t[p - 1] = s[p]
  BY <1>1, <1>7
<1> HIDE DEF t
<1> QED BY <1>5, <1>6, <1>7, <1>8, <1>9 DEF n

\* A child taken out under another key leaves a search alone.
LEMMA FindWithout ==
    ASSUME NEW s \in Seq(Items), NEW k \in Keys, NEW j \in Keys,
           Fold[j] # Fold[k], Positions(s, k) # {}
    PROVE  Find(Without(s, First(s, k)), j) = Find(s, j)
<1> DEFINE i == First(s, k)
<1> DEFINE t == Without(s, i)
<1>0. i \in DOMAIN s /\ Fold[s[i].key] = Fold[k]
  BY FirstMatches DEF Positions, Matches
<1>1. /\ t \in Seq(Items)
      /\ DOMAIN t = 1 .. Len(s) - 1
      /\ \A p \in DOMAIN s : p < i => p \in DOMAIN t /\ t[p] = s[p]
      /\ \A p \in DOMAIN s : p > i => p - 1 \in DOMAIN t /\ t[p - 1] = s[p]
      /\ \A p \in DOMAIN t : t[p] = s[IF p < i THEN p ELSE p + 1]
  BY <1>0, WithoutType
<1> HIDE DEF i, t
<1>2. \A p \in Positions(t, j) : (IF p < i THEN p ELSE p + 1) \in Positions(s, j)
  BY <1>0, <1>1 DEF Positions
<1>3. CASE Positions(s, j) = {}
  BY <1>2, <1>3 DEF Find, i, t
<1>4. CASE Positions(s, j) # {}
  <2> DEFINE f == First(s, j)
  <2>1. f \in DOMAIN s /\ Fold[s[f].key] = Fold[j] /\ \A p \in Positions(s, j) : f <= p
    BY <1>4, FirstMatches DEF Positions, Matches
  <2> HIDE DEF f
  <2>2. f # i
    BY <1>0, <2>1
  <2> DEFINE g == IF f < i THEN f ELSE f - 1
  <2>3. g \in DOMAIN t /\ t[g] = s[f]
    BY <1>0, <1>1, <2>1, <2>2
  <2>4. g \in Positions(t, j)
    BY <2>1, <2>3 DEF Positions, Matches
  <2>5. \A p \in Positions(t, j) : g <= p
    <3> SUFFICES ASSUME NEW p \in Positions(t, j) PROVE g <= p
      OBVIOUS
    <3>1. f <= IF p < i THEN p ELSE p + 1
      BY <1>2, <2>1
    <3>2. p \in Nat /\ f \in Nat /\ i \in Nat
      BY <1>0, <1>1, <2>1 DEF Positions
    <3> QED BY <2>2, <3>1, <3>2
  <2> HIDE DEF g
  <2>6. First(t, j) = g
    BY <1>1, <2>4, <2>5, FirstIs
  <2> QED BY <1>4, <2>3, <2>4, <2>6 DEF Find, f, i, t
<1> QED BY <1>3, <1>4

----------------------------------------------------------------------------
(* The invariant.                                                          *)

\* Every child has an identity of its own, so that a cursor or a wrapper
\* names one child.
NodesDistinct ==
    \A i, j \in DOMAIN items : items[i].node = items[j].node => i = j

IInv == /\ TypeOK
        /\ NodesDistinct
        /\ KeyCacheRight
        /\ IndexCacheRight
        /\ KeysUnique
        /\ TraversalInOrder

\* The maps and the records of what callers did, after a change of the tree.
LEMMA EvictKeyType ==
    ASSUME TypeOK, NEW k \in Keys, EvictKey(k)
    PROVE  /\ m_mapJsonObjectRef' \in [Keys -> Nodes \cup {Null, Blank}]
           /\ aliased' \subseteq CachedKeys'
<1>1. m_mapJsonObjectRef' \in [Keys -> Nodes \cup {Null, Blank}]
  BY DEF TypeOK, EvictKey
<1>2. \A j \in Keys \ {k} : m_mapJsonObjectRef'[j] = m_mapJsonObjectRef[j]
  BY DEF TypeOK, EvictKey
<1>3. aliased' \subseteq CachedKeys \ {k}
  BY DEF TypeOK, EvictKey, Spellings
<1> QED BY <1>1, <1>2, <1>3 DEF CachedKeys

LEMMA EvictIndexesType ==
    ASSUME TypeOK, NEW first \in Nat, EvictIndexesFrom(first)
    PROVE  /\ m_mapJsonArrayRef' \in [Indexes -> Nodes \cup {Null, Blank}]
           /\ shifted' \subseteq CachedIndexes'
<1>1. m_mapJsonArrayRef' \in [Indexes -> Nodes \cup {Null, Blank}]
  BY DEF TypeOK, EvictIndexesFrom
<1>2. \A i \in Indexes : i < first => m_mapJsonArrayRef'[i] = m_mapJsonArrayRef[i]
  BY DEF EvictIndexesFrom, Indexes
<1>3. shifted' \subseteq {i \in CachedIndexes : i < first}
  BY DEF TypeOK, EvictIndexesFrom
<1> QED BY <1>1, <1>2, <1>3 DEF CachedIndexes

LEMMA EvictIndexType ==
    ASSUME TypeOK, NEW i \in Indexes, EvictIndex(i)
    PROVE  /\ m_mapJsonArrayRef' \in [Indexes -> Nodes \cup {Null, Blank}]
           /\ shifted' \subseteq CachedIndexes'
<1>1. m_mapJsonArrayRef' \in [Indexes -> Nodes \cup {Null, Blank}]
  BY DEF TypeOK, EvictIndex
<1>2. \A j \in Indexes \ {i} : m_mapJsonArrayRef'[j] = m_mapJsonArrayRef[j]
  BY DEF TypeOK, EvictIndex
<1>3. shifted' \subseteq CachedIndexes \ {i}
  BY DEF TypeOK, EvictIndex
<1> QED BY <1>1, <1>2, <1>3 DEF CachedIndexes

LEMMA LeaveBehindType ==
    ASSUME TypeOK, NEW S, LeaveBehind(S)
    PROVE  /\ m_mapJsonArrayRef' \in [Indexes -> Nodes \cup {Null, Blank}]
           /\ shifted' \subseteq CachedIndexes'
BY DEF TypeOK, LeaveBehind, CachedIndexes

LEMMA KeySideType ==
    ASSUME TypeOK, UNCHANGED keySide
    PROVE  /\ m_mapJsonObjectRef' \in [Keys -> Nodes \cup {Null, Blank}]
           /\ aliased' \subseteq CachedKeys'
BY DEF TypeOK, keySide, CachedKeys

LEMMA IdxSideType ==
    ASSUME TypeOK, UNCHANGED idxSide
    PROVE  /\ m_mapJsonArrayRef' \in [Indexes -> Nodes \cup {Null, Blank}]
           /\ shifted' \subseteq CachedIndexes'
BY DEF TypeOK, idxSide, CachedIndexes

\* A wrapper is a node or blank, never nothing.
LEMMA WrappedType ==
    ASSUME TypeOK
    PROVE  /\ \A k \in Keys : GetObjectItem(k) \in Nodes \cup {Null}
           /\ \A i \in Indexes : GetArrayItem(i) \in Nodes \cup {Null}
           /\ \A n \in Nodes \cup {Null} :
                 Wrapped(n) \in Nodes \cup {Blank} /\ Wrapped(n) # Null
<1>1. \A k \in Keys : GetObjectItem(k) \in Nodes \cup {Null}
  BY FindNull DEF TypeOK, GetObjectItem
<1>2. ASSUME NEW i \in Indexes PROVE GetArrayItem(i) \in Nodes \cup {Null}
  <2>1. CASE type = "array" /\ i < Len(items)
    <3>1. i + 1 \in DOMAIN items
      BY <2>1, MaxAssumption DEF TypeOK, Indexes
    <3>2. items[i + 1] \in Items
      BY <3>1 DEF TypeOK
    <3> QED BY <2>1, <3>2 DEF GetArrayItem, Items
  <2>2. CASE ~(type = "array" /\ i < Len(items))
    BY <2>2 DEF GetArrayItem
  <2> QED BY <2>1, <2>2
<1>3. \A n \in Nodes \cup {Null} :
         Wrapped(n) \in Nodes \cup {Blank} /\ Wrapped(n) # Null
  BY DEF Wrapped, Nodes, Null, Blank
<1> QED BY <1>1, <1>2, <1>3

\* The children after each kind of change of the tree.
ItemsTyped ==
    /\ items \in Seq(Items)
    /\ Len(items) <= IF type = "object" THEN MaxKeys ELSE MaxItems
    /\ \A i \in DOMAIN items : (items[i].key = NoKey) = (type = "array")

LEMMA DropKeyType ==
    ASSUME TypeOK, NEW k \in Keys, type = "object", DropKey(k), UNCHANGED type
    PROVE  ItemsTyped'
<1>1. CASE Positions(items, k) = {}
  BY <1>1 DEF TypeOK, DropKey, ItemsTyped
<1>2. CASE Positions(items, k) # {}
  <2> DEFINE i == First(items, k)
  <2>1. i \in DOMAIN items
    BY <1>2, FirstMatches DEF Positions, TypeOK
  <2>2. items' = Without(items, i)
    BY <1>2 DEF DropKey
  <2> HIDE DEF i
  <2>3. /\ items' \in Seq(Items) /\ Len(items') = Len(items) - 1
        /\ \A p \in DOMAIN items' : \E q \in DOMAIN items : items'[p] = items[q]
    <3>1. items \in Seq(Items)
      BY DEF TypeOK
    <3>2. \A p \in DOMAIN Without(items, i) :
             (IF p < i THEN p ELSE p + 1) \in DOMAIN items
      BY <2>1, <3>1, WithoutType
    <3> QED BY <2>1, <2>2, <3>1, <3>2, WithoutType
  <2> QED BY <2>3, MaxAssumption DEF TypeOK, ItemsTyped
<1> QED BY <1>1, <1>2

\* What the operations on the cursor alone leave of the type invariant.
CursorTyped ==
    /\ m_pKeyTravers \in Nodes \cup {Null, Root}
    /\ visited \in Nat /\ cut \in BOOLEAN

CachesTyped ==
    /\ m_mapJsonObjectRef \in [Keys -> Nodes \cup {Null, Blank}]
    /\ aliased \subseteq CachedKeys
    /\ m_mapJsonArrayRef \in [Indexes -> Nodes \cup {Null, Blank}]
    /\ shifted \subseteq CachedIndexes

\* The type invariant after a step is put together from these parts, and
\* before it gives them.
LEMMA TypeParts ==
    ASSUME type' \in {"none", "object", "array"}, ItemsTyped', CachesTyped',
           CursorTyped', doubled' \in BOOLEAN,
           type' = "none" => items' = <<>> /\ m_pKeyTravers' = Null
    PROVE  TypeOK'
BY DEF TypeOK, ItemsTyped, CachesTyped, CursorTyped

LEMMA TypeGives ==
    ASSUME TypeOK
    PROVE  ItemsTyped /\ CachesTyped /\ CursorTyped
BY DEF TypeOK, ItemsTyped, CachesTyped, CursorTyped

\* Every operation keeps the types.
LEMMA TypeStep == TypeOK /\ TraversalInOrder /\ [Next]_vars => TypeOK'
<1> SUFFICES ASSUME TypeOK, TraversalInOrder, [Next]_vars PROVE TypeOK'
  OBVIOUS
<1> USE TypeGives
<1>1. ASSUME NEW k \in Keys, PutKey(k) PROVE ItemsTyped' /\ CursorTyped'
  <2>1. PICK n \in Nodes : items' = Append(items, [key |-> k, node |-> n])
    BY <1>1 DEF PutKey, Fresh
  <2>2. [key |-> k, node |-> n] \in Items /\ k # NoKey
    BY KeyAssumption DEF Items
  <2>3. /\ items \in Seq(Items) /\ Len(items) < MaxKeys /\ type' = "object"
        /\ \A i \in DOMAIN items : items[i].key # NoKey
    BY <1>1 DEF PutKey, TypeOK
  <2>4. ItemsTyped'
    BY <2>1, <2>2, <2>3, MaxAssumption DEF ItemsTyped
  <2> QED BY <1>1, <2>4 DEF PutKey, Rewind, CursorTyped
<1>2. ASSUME NEW k \in Keys, AddObject(k) PROVE TypeOK'
  <2>1. CachesTyped'
    BY <1>2, EvictKeyType, IdxSideType DEF AddObject, PutKey, CachesTyped
  <2> QED BY <1>1, <1>2, <2>1, TypeParts DEF AddObject, PutKey, TypeOK
<1>3. ASSUME NEW k \in Keys, AddScalar(k) PROVE TypeOK'
  <2>1. CachesTyped'
    BY <1>3, IdxSideType DEF AddScalar, PutKey, CachesTyped, Spellings, CachedKeys
  <2> QED BY <1>1, <1>3, <2>1, TypeParts DEF AddScalar, PutKey, TypeOK
<1>4. ASSUME NEW t \in {"object", "array"}, AddNothing(t) PROVE TypeOK'
  <2>1. CachesTyped'
    BY <1>4 DEF AddNothing, CachesTyped, CachedKeys, CachedIndexes, caches
  <2>2. ItemsTyped' /\ CursorTyped' /\ doubled' \in BOOLEAN
    <3>1. items' = <<>>
      BY <1>4 DEF AddNothing, TypeOK
    <3>2. ItemsTyped'
      BY <3>1, MaxAssumption DEF ItemsTyped
    <3>3. CursorTyped'
      <4>1. CASE t = "object"
        <5>1. Rewind(Root)
          BY <1>4, <4>1 DEF AddNothing
        <5> QED BY <5>1 DEF Rewind, CursorTyped
      <4>2. CASE t # "object"
        BY <1>4, <4>2 DEF AddNothing, CursorTyped, cursor
      <4> QED BY <4>1, <4>2
    <3>4. doubled' \in BOOLEAN
      BY <1>4 DEF AddNothing, TypeOK
    <3> QED BY <3>2, <3>3, <3>4
  <2> QED BY <1>4, <2>1, <2>2, TypeParts DEF AddNothing
<1>5. ASSUME NEW k \in Keys, DeleteKey(k) PROVE TypeOK'
  <2>1. CachesTyped'
    BY <1>5, EvictKeyType, IdxSideType DEF DeleteKey, CachesTyped
  <2>2. ItemsTyped'
    BY <1>5, DropKeyType DEF DeleteKey
  <2> QED BY <1>5, <2>1, <2>2, TypeParts DEF DeleteKey, Rewind, CursorTyped, TypeOK
<1>6. ASSUME NEW k \in Keys, ReplaceKey(k) PROVE TypeOK'
  <2>1. CachesTyped'
    BY <1>6, EvictKeyType, IdxSideType DEF ReplaceKey, CachesTyped
  <2>2. ItemsTyped'
    <3>1. PICK n \in Nodes :
             items' = [items EXCEPT ![First(items, k)] = [key |-> k, node |-> n]]
      BY <1>6 DEF ReplaceKey, Fresh
    <3>2. [key |-> k, node |-> n] \in Items /\ k # NoKey
      BY KeyAssumption DEF Items
    <3>3. First(items, k) \in DOMAIN items
      BY <1>6, FirstMatches DEF ReplaceKey, TypeOK, Positions
    <3>4. items' \in Seq(Items) /\ Len(items') = Len(items)
      BY <3>1, <3>2, <3>3 DEF TypeOK
    <3>5. \A i \in DOMAIN items' : items'[i].key # NoKey
      BY <1>6, <3>1, <3>2, <3>3 DEF ReplaceKey, TypeOK
    <3> QED BY <1>6, <3>4, <3>5 DEF ReplaceKey, ItemsTyped, TypeOK
  <2>3. CursorTyped'
    BY <1>6 DEF ReplaceKey, CursorTyped
  <2> QED BY <1>6, <2>1, <2>2, <2>3, TypeParts DEF ReplaceKey, TypeOK
<1>7. ASSUME NEW k \in Keys, ReplaceMissingScalar(k) PROVE TypeOK'
  <2>1. m_mapJsonObjectRef' \in [Keys -> Nodes \cup {Null, Blank}]
    BY <1>7 DEF ReplaceMissingScalar, TypeOK
  <2>2. aliased' \subseteq CachedKeys'
    BY <1>7 DEF ReplaceMissingScalar, TypeOK, CachedKeys
  <2>3. CachesTyped'
    BY <1>7, <2>1, <2>2, IdxSideType DEF ReplaceMissingScalar, CachesTyped
  <2> QED BY <1>7, <2>3, TypeParts DEF ReplaceMissingScalar, TypeOK, ItemsTyped, CursorTyped, cursor
<1>8. ASSUME NEW k \in Keys, IndexByKey(k) PROVE TypeOK'
  <2>1. Wrapped(GetObjectItem(k)) \in Nodes \cup {Blank} /\ Wrapped(GetObjectItem(k)) # Null
    BY WrappedType, Zenon
  <2>2. m_mapJsonObjectRef' \in [Keys -> Nodes \cup {Null, Blank}]
    BY <1>8, <2>1 DEF IndexByKey, TypeOK
  <2>3. aliased' \subseteq CachedKeys'
    BY <1>8, <2>1 DEF IndexByKey, TypeOK, CachedKeys
  <2>4. CachesTyped'
    BY <1>8, <2>2, <2>3, IdxSideType DEF IndexByKey, CachesTyped
  <2> QED BY <1>8, <2>4, TypeParts DEF IndexByKey, TypeOK, ItemsTyped, CursorTyped, cursor
<1>9. ASSUME GetKey PROVE TypeOK'
  <2>1. CursorTyped'
    <3>1. \A p \in DOMAIN items : NextOf(p) \in Nodes \cup {Null}
      <4> SUFFICES ASSUME NEW p \in DOMAIN items PROVE NextOf(p) \in Nodes \cup {Null}
        OBVIOUS
      <4>1. CASE p < Len(items)
        <5>1. items[p + 1] \in Items
          BY <4>1 DEF TypeOK
        <5> QED BY <4>1, <5>1 DEF NextOf, Items
      <4>2. CASE ~(p < Len(items))
        BY <4>2 DEF NextOf
      <4> QED BY <4>1, <4>2
    <3>2. CASE m_pKeyTravers = Null
      <4>1. m_pKeyTravers # Root /\ m_pKeyTravers \notin Nodes
        BY <3>2 DEF Null, Root, Nodes
      <4>2. Rewind(Root)
        BY <1>9, <4>1 DEF GetKey
      <4> QED BY <4>2 DEF Rewind, CursorTyped
    <3>3. CASE m_pKeyTravers = Root
      <4>1. 1 \in DOMAIN items
        BY <1>9, <3>3 DEF GetKey, TypeOK, Null, Root, Nodes
      <4> QED BY <1>9, <3>1, <3>3, <4>1 DEF GetKey, CursorTyped, Null, Root, Nodes
    <3>4. CASE m_pKeyTravers \in Nodes
      <4>1. NextOf(CursorAt) \in Nodes \cup {Null}
        <5>1. type = "object"
          BY <1>9, <3>4 DEF GetKey, TypeOK, Null, Nodes
        <5>2. \E p \in DOMAIN items : items[p].node = m_pKeyTravers
          BY <1>9, <3>4, <5>1 DEF GetKey, TraversalInOrder
        <5>3. m_pKeyTravers # Root
          BY <3>4 DEF Root, Nodes
        <5>4. CursorAt \in DOMAIN items
          BY <5>2, <5>3 DEF CursorAt
        <5> QED BY <3>1, <5>4
      <4> QED BY <1>9, <3>4, <4>1 DEF GetKey, CursorTyped, Null, Root, Nodes
    <3> QED BY <3>2, <3>3, <3>4 DEF TypeOK
  <2>2. ItemsTyped' /\ CachesTyped'
    BY <1>9 DEF GetKey, ItemsTyped, CachesTyped, CachedKeys, CachedIndexes, caches
  <2>3. type # "none"
    BY <1>9 DEF GetKey, TypeOK, Null, Root, Nodes
  <2> QED BY <1>9, <2>1, <2>2, <2>3, TypeParts DEF GetKey, TypeOK
<1>10. ASSUME ResetTraversing PROVE TypeOK'
  <2>1. ItemsTyped' /\ CachesTyped'
    BY <1>10 DEF ResetTraversing, ItemsTyped, CachesTyped, CachedKeys, CachedIndexes, caches
  <2> QED BY <1>10, <2>1, TypeParts DEF ResetTraversing, Rewind, CursorTyped, TypeOK
<1>11. ASSUME NEW children \in Seq(Items), PutItem(children),
              Len(children) = Len(items) + 1,
              \A i \in DOMAIN children : children[i].key = NoKey,
              \/ \E first \in Nat : EvictIndexesFrom(first)
              \/ \E S : LeaveBehind(S)
       PROVE  TypeOK'
  <2>1. CachesTyped'
    BY <1>11, KeySideType, EvictIndexesType, LeaveBehindType DEF PutItem, CachesTyped
  <2>2. ItemsTyped'
    <3>1. items' = children /\ type' = "array" /\ Len(items) < MaxItems
          /\ Len(items) \in Nat
      BY <1>11 DEF PutItem, TypeOK
    <3>2. Len(children) <= MaxItems
      BY <1>11, <3>1, MaxAssumption
    <3> QED BY <1>11, <3>1, <3>2 DEF ItemsTyped
  <2>3. CursorTyped'
    BY <1>11 DEF PutItem, CursorTyped, cursor
  <2> QED BY <1>11, <2>1, <2>2, <2>3, TypeParts DEF PutItem, TypeOK
<1>12. ASSUME NEW n \in Nodes, AddItem(n) PROVE TypeOK'
  <2> DEFINE children == Append(items, [key |-> NoKey, node |-> n])
  <2>1. /\ children \in Seq(Items) /\ Len(children) = Len(items) + 1
        /\ \A i \in DOMAIN children : children[i].key = NoKey
    BY <1>12 DEF AddItem, PutItem, TypeOK, Items
  <2>2. Len(items) \in Nat
    BY DEF TypeOK
  <2> HIDE DEF children
  <2> QED BY <1>11, <1>12, <2>1, <2>2 DEF AddItem, children
<1>13. ASSUME NEW n \in Nodes, AddAsFirst(n) PROVE TypeOK'
  <2> DEFINE children == <<[key |-> NoKey, node |-> n]>> \o items
  <2>1. /\ children \in Seq(Items) /\ Len(children) = Len(items) + 1
        /\ \A i \in DOMAIN children : children[i].key = NoKey
    BY <1>13 DEF AddAsFirst, PutItem, TypeOK, Items
  <2> HIDE DEF children
  <2> QED BY <1>11, <1>13, <2>1 DEF AddAsFirst, children
<1>14. ASSUME NEW w \in Indexes \cup {-1}, DeleteItem(w) PROVE TypeOK'
  <2>1. CachesTyped'
    BY <1>14, KeySideType, EvictIndexesType, LeaveBehindType
       DEF DeleteItem, CachesTyped, Indexes
  <2>2. ItemsTyped'
    <3>1. CASE items' = items
      BY <1>14, <3>1 DEF DeleteItem, ItemsTyped
    <3>2. ASSUME NEW i \in DOMAIN items, items' = Without(items, i)
          PROVE  ItemsTyped'
      <4>1. /\ items' \in Seq(Items) /\ Len(items') = Len(items) - 1
            /\ \A p \in DOMAIN items' : \E q \in DOMAIN items : items'[p] = items[q]
        <5>1. items \in Seq(Items)
          BY DEF TypeOK
        <5>2. \A p \in DOMAIN Without(items, i) :
                 (IF p < i THEN p ELSE p + 1) \in DOMAIN items
          BY <5>1, WithoutType
        <5> QED BY <3>2, <5>1, <5>2, WithoutType
      <4>2. type' = "array" /\ type = "array"
        BY <1>14 DEF DeleteItem
      <4>3. Len(items') <= MaxItems
        BY <4>1, <4>2, MaxAssumption DEF TypeOK
      <4>4. \A p \in DOMAIN items' : items'[p].key = NoKey
        BY <4>1, <4>2 DEF TypeOK
      <4> QED BY <4>1, <4>2, <4>3, <4>4 DEF ItemsTyped
    <3>3. items' = items \/ \E i \in DOMAIN items : items' = Without(items, i)
      BY <1>14 DEF DeleteItem, TypeOK, Indexes
    <3> QED BY <3>1, <3>2, <3>3
  <2> QED BY <1>14, <2>1, <2>2, TypeParts DEF DeleteItem, CursorTyped, cursor, TypeOK
<1>15. ASSUME NEW w \in Indexes \cup {-1}, ReplaceItem(w) PROVE TypeOK'
  <2> DEFINE at == IF w < 0 THEN 0 ELSE w
  <2>1. at \in Indexes
    BY MaxAssumption DEF Indexes
  <2>2. CachesTyped'
    BY <1>15, <2>1, KeySideType, EvictIndexType, LeaveBehindType
       DEF ReplaceItem, CachesTyped
  <2>3. ItemsTyped'
    <3>1. PICK n \in Nodes : items' = [items EXCEPT ![at + 1].node = n]
      BY <1>15 DEF ReplaceItem, Fresh
    <3>2. at + 1 \in DOMAIN items
      BY <1>15, <2>1 DEF ReplaceItem, TypeOK, Indexes
    <3> HIDE DEF at
    <3>3. [items[at + 1] EXCEPT !.node = n] \in Items
          /\ [items[at + 1] EXCEPT !.node = n].key = items[at + 1].key
      <4>1. items[at + 1] \in Items
        BY <3>2 DEF TypeOK
      <4> QED BY <4>1 DEF Items
    <3>4. items' = [items EXCEPT ![at + 1] = [items[at + 1] EXCEPT !.node = n]]
      BY <3>1, <3>2 DEF TypeOK
    <3>5. items' \in Seq(Items) /\ Len(items') = Len(items)
      BY <3>2, <3>3, <3>4 DEF TypeOK
    <3>6. type' = "array" /\ type = "array"
      BY <1>15 DEF ReplaceItem
    <3>7. \A p \in DOMAIN items' : items'[p].key = NoKey
      BY <3>2, <3>3, <3>4, <3>6 DEF TypeOK
    <3> QED BY <3>5, <3>6, <3>7 DEF ItemsTyped, TypeOK
  <2> QED BY <1>15, <2>2, <2>3, TypeParts DEF ReplaceItem, CursorTyped, cursor, TypeOK
<1>16. ASSUME NEW i \in Indexes, ReplaceMissingItem(i) PROVE TypeOK'
  <2>1. CachesTyped'
    BY <1>16, KeySideType, EvictIndexType DEF ReplaceMissingItem, CachesTyped
  <2> QED BY <1>16, <2>1, TypeParts
          DEF ReplaceMissingItem, TypeOK, ItemsTyped, CursorTyped, cursor
<1>17. ASSUME NEW i \in Indexes, IndexByPosition(i) PROVE TypeOK'
  <2>1. Wrapped(GetArrayItem(i)) \in Nodes \cup {Blank} /\ Wrapped(GetArrayItem(i)) # Null
    BY WrappedType, Zenon
  <2>2. m_mapJsonArrayRef' \in [Indexes -> Nodes \cup {Null, Blank}]
    BY <1>17, <2>1 DEF IndexByPosition, TypeOK
  <2>3. shifted' \subseteq CachedIndexes'
    BY <1>17, <2>1 DEF IndexByPosition, TypeOK, CachedIndexes
  <2>4. CachesTyped'
    BY <1>17, <2>2, <2>3, KeySideType DEF IndexByPosition, CachesTyped
  <2> QED BY <1>17, <2>4, TypeParts
          DEF IndexByPosition, TypeOK, ItemsTyped, CursorTyped, cursor
<1>18. ASSUME NEW at \in {Null, Root}, DropAll(at) PROVE CachesTyped' /\ CursorTyped'
  <2>1. CachesTyped'
    BY <1>18 DEF DropAll, CachesTyped, CachedKeys, CachedIndexes
  <2> QED BY <1>18, <2>1 DEF DropAll, CursorTyped, Rewind
<1>19. ASSUME Clear PROVE TypeOK'
  <2>1. CachesTyped' /\ CursorTyped' /\ m_pKeyTravers' = Null
    BY <1>18, <1>19 DEF Clear, DropAll, Rewind
  <2>2. ItemsTyped'
    BY <1>19, MaxAssumption DEF Clear, ItemsTyped
  <2> QED BY <1>19, <2>1, <2>2, TypeParts DEF Clear
<1>20. ASSUME NEW size \in 0 .. MaxKeys, NEW text \in [1 .. size -> Keys], ParseObject(text)
       PROVE  TypeOK'
  <2>1. CachesTyped' /\ CursorTyped'
    BY <1>18, <1>20 DEF ParseObject
  <2>2. ItemsTyped'
    <3>1. \A i \in 1 .. size :
             [key |-> text[i], node |-> i] \in Items /\ text[i] # NoKey
      BY MaxAssumption, KeyAssumption DEF Items, Nodes
    <3>2. items' = [i \in 1 .. size |-> [key |-> text[i], node |-> i]] /\ size \in Nat
      BY <1>20 DEF ParseObject
    <3>3. items' \in Seq(Items) /\ Len(items') = size
      BY <3>1, <3>2
    <3> QED BY <1>20, <3>1, <3>2, <3>3 DEF ItemsTyped, ParseObject
  <2> QED BY <1>20, <2>1, <2>2, TypeParts DEF ParseObject, HasDouble
<1>21. ASSUME NEW size \in 0 .. MaxItems, ParseArray(size) PROVE TypeOK'
  <2>1. CachesTyped' /\ CursorTyped'
    BY <1>18, <1>21 DEF ParseArray
  <2>2. ItemsTyped'
    <3>1. \A i \in 1 .. size : [key |-> NoKey, node |-> i] \in Items
      BY MaxAssumption DEF Items, Nodes
    <3>2. items' = [i \in 1 .. size |-> [key |-> NoKey, node |-> i]] /\ size \in Nat
      BY <1>21, MaxAssumption DEF ParseArray
    <3>3. items' \in Seq(Items) /\ Len(items') = size
      BY <3>1, <3>2
    <3> QED BY <1>21, <3>1, <3>2, <3>3 DEF ItemsTyped, ParseArray
  <2> QED BY <1>21, <2>1, <2>2, TypeParts DEF ParseArray
<1>22. CASE UNCHANGED vars
  BY <1>22 DEF vars, caches, cursor, TypeOK, CachedKeys, CachedIndexes
<1>23. \A n \in Fresh : n \in Nodes
  BY DEF Fresh
<1> QED
  BY <1>2, <1>3, <1>4, <1>5, <1>6, <1>7, <1>8, <1>9, <1>10, <1>12, <1>13, <1>14,
     <1>15, <1>16, <1>17, <1>19, <1>20, <1>21, <1>22, <1>23
     DEF Next, ByKey, ByIndex, OfAll

----------------------------------------------------------------------------
(* What each kind of change of the tree does to a search.                  *)

\* Nothing is found among no children.
LEMMA FindNone == ASSUME NEW k PROVE Find(<<>>, k) = Null
BY DEF Find, Positions

\* Adding a key leaves the searches for other keys alone.
LEMMA PutKeyFinds ==
    ASSUME TypeOK, NEW k \in Keys, PutKey(k), NEW j \in Keys, Fold[j] # Fold[k]
    PROVE  GetObjectItem(j)' = GetObjectItem(j)
<1>1. PICK n \in Nodes : items' = Append(items, [key |-> k, node |-> n])
  BY DEF PutKey, Fresh
<1>2. Find(items', j) = Find(items, j)
  BY <1>1, FindAppended DEF TypeOK
<1>3. type = "none" => Find(items, j) = Null
  BY FindNone DEF TypeOK
<1>4. type' = "object" /\ type \in {"none", "object"}
  BY DEF PutKey
<1> QED BY <1>2, <1>3, <1>4 DEF GetObjectItem

\* So does dropping one.
LEMMA DropKeyFinds ==
    ASSUME TypeOK, NEW k \in Keys, DropKey(k), UNCHANGED type,
           NEW j \in Keys, Fold[j] # Fold[k]
    PROVE  GetObjectItem(j)' = GetObjectItem(j)
<1>1. CASE Positions(items, k) = {}
  BY <1>1 DEF DropKey, GetObjectItem
<1>2. CASE Positions(items, k) # {}
  <2>1. Find(items', j) = Find(items, j)
    BY <1>2, FindWithout DEF DropKey, TypeOK
  <2> QED BY <2>1 DEF GetObjectItem
<1> QED BY <1>1, <1>2

\* And replacing one.
LEMMA ReplaceKeyFinds ==
    ASSUME TypeOK, NEW k \in Keys, ReplaceKey(k), NEW j \in Keys, Fold[j] # Fold[k]
    PROVE  GetObjectItem(j)' = GetObjectItem(j)
<1>1. PICK n \in Nodes :
         items' = [items EXCEPT ![First(items, k)] = [key |-> k, node |-> n]]
  BY DEF ReplaceKey, Fresh
<1>2. Positions(items, k) # {} /\ UNCHANGED type
  BY DEF ReplaceKey
<1>3. Find(items', j) = Find(items, j)
  BY <1>1, <1>2, FindReplaced DEF TypeOK
<1> QED BY <1>2, <1>3 DEF GetObjectItem

----------------------------------------------------------------------------
(* The wrappers cached by key.                                             *)

LEMMA KeyCacheKept ==
    ASSUME KeyCacheRight, UNCHANGED keySide,
           \A k \in Keys : GetObjectItem(k)' = GetObjectItem(k)
    PROVE  KeyCacheRight'
<1>1. CachedKeys' = CachedKeys /\ aliased' = aliased
      /\ m_mapJsonObjectRef' = m_mapJsonObjectRef
  BY DEF keySide, CachedKeys
<1> QED BY <1>1 DEF KeyCacheRight, Wrapped, CachedKeys

LEMMA KeyCacheEvicted ==
    ASSUME TypeOK, KeyCacheRight, NEW k \in Keys, EvictKey(k),
           \A j \in Keys : Fold[j] # Fold[k] => GetObjectItem(j)' = GetObjectItem(j)
    PROVE  KeyCacheRight'
<1> SUFFICES ASSUME NEW j \in CachedKeys', j \notin aliased'
             PROVE  m_mapJsonObjectRef'[j] = Wrapped(GetObjectItem(j))'
  BY DEF KeyCacheRight
<1>1. j \in Keys \ {k} /\ m_mapJsonObjectRef'[j] = m_mapJsonObjectRef[j]
  BY DEF CachedKeys, EvictKey, TypeOK
<1>2. j \in CachedKeys
  BY <1>1 DEF CachedKeys
<1>3. Fold[j] # Fold[k] /\ j \notin aliased
  BY <1>1, <1>2 DEF EvictKey, Spellings
<1> QED BY <1>1, <1>2, <1>3 DEF KeyCacheRight, Wrapped

\* Every operation keeps the wrappers cached by key right.
LEMMA KeyCacheStep ==
    TypeOK /\ KeyCacheRight /\ [Next]_vars => KeyCacheRight'
<1> SUFFICES ASSUME TypeOK, KeyCacheRight, [Next]_vars PROVE KeyCacheRight'
  OBVIOUS
<1>1. ASSUME NEW k \in Keys, AddObject(k) PROVE KeyCacheRight'
  BY <1>1, PutKeyFinds, KeyCacheEvicted DEF AddObject
<1>2. ASSUME NEW k \in Keys, AddScalar(k) PROVE KeyCacheRight'
  <2> SUFFICES ASSUME NEW j \in CachedKeys', j \notin aliased'
               PROVE  m_mapJsonObjectRef'[j] = Wrapped(GetObjectItem(j))'
    BY DEF KeyCacheRight
  <2>1. j \in CachedKeys /\ m_mapJsonObjectRef' = m_mapJsonObjectRef
    BY <1>2 DEF AddScalar, CachedKeys
  <2>2. Fold[j] # Fold[k] /\ j \notin aliased
    BY <1>2, <2>1 DEF AddScalar, Spellings
  <2>3. GetObjectItem(j)' = GetObjectItem(j)
    BY <1>2, <2>1, <2>2, PutKeyFinds DEF AddScalar, CachedKeys
  <2> QED BY <2>1, <2>2, <2>3 DEF KeyCacheRight, Wrapped
<1>3. ASSUME NEW t \in {"object", "array"}, AddNothing(t) PROVE KeyCacheRight'
  <2>1. \A k \in Keys : GetObjectItem(k)' = GetObjectItem(k)
    BY <1>3, FindNone DEF AddNothing, GetObjectItem, TypeOK
  <2> QED BY <1>3, <2>1, KeyCacheKept DEF AddNothing, caches, keySide
<1>4. ASSUME NEW k \in Keys, DeleteKey(k) PROVE KeyCacheRight'
  BY <1>4, DropKeyFinds, KeyCacheEvicted DEF DeleteKey
<1>5. ASSUME NEW k \in Keys, ReplaceKey(k) PROVE KeyCacheRight'
  BY <1>5, ReplaceKeyFinds, KeyCacheEvicted DEF ReplaceKey
<1>6. ASSUME NEW k \in Keys, ReplaceMissingScalar(k) PROVE KeyCacheRight'
  <2>1. \A j \in Keys : GetObjectItem(j)' = GetObjectItem(j)
    BY <1>6 DEF ReplaceMissingScalar, GetObjectItem
  <2> SUFFICES ASSUME NEW j \in CachedKeys', j \notin aliased'
               PROVE  m_mapJsonObjectRef'[j] = Wrapped(GetObjectItem(j))'
    BY DEF KeyCacheRight
  <2>2. j \in Keys \ {k} /\ m_mapJsonObjectRef'[j] = m_mapJsonObjectRef[j]
    BY <1>6 DEF CachedKeys, ReplaceMissingScalar, TypeOK
  <2>3. j \in CachedKeys /\ j \notin aliased
    BY <1>6, <2>2 DEF CachedKeys, ReplaceMissingScalar
  <2> QED BY <2>1, <2>2, <2>3 DEF KeyCacheRight, Wrapped
<1>7. ASSUME NEW k \in Keys, IndexByKey(k) PROVE KeyCacheRight'
  <2>1. \A j \in Keys : GetObjectItem(j)' = GetObjectItem(j)
    BY <1>7 DEF IndexByKey, GetObjectItem
  <2> SUFFICES ASSUME NEW j \in CachedKeys', j \notin aliased'
               PROVE  m_mapJsonObjectRef'[j] = Wrapped(GetObjectItem(j))'
    BY DEF KeyCacheRight
  <2>2. CASE j = k
    BY <1>7, <2>1, <2>2 DEF IndexByKey, TypeOK, Wrapped
  <2>3. CASE j # k
    <3>1. j \in Keys /\ m_mapJsonObjectRef'[j] = m_mapJsonObjectRef[j]
      BY <1>7, <2>3 DEF CachedKeys, IndexByKey, TypeOK
    <3>2. j \in CachedKeys /\ j \notin aliased
      BY <1>7, <3>1 DEF CachedKeys, IndexByKey
    <3> QED BY <2>1, <3>1, <3>2 DEF KeyCacheRight, Wrapped
  <2> QED BY <2>2, <2>3
<1>8. ASSUME UNCHANGED <<type, items, keySide>> PROVE KeyCacheRight'
  BY <1>8, KeyCacheKept DEF GetObjectItem
<1>9. ASSUME UNCHANGED keySide, type' = "array", type # "object" PROVE KeyCacheRight'
  BY <1>9, KeyCacheKept DEF GetObjectItem
<1>10. ASSUME m_mapJsonObjectRef' = [k \in Keys |-> Null] PROVE KeyCacheRight'
  BY <1>10 DEF KeyCacheRight, CachedKeys
<1>11. GetKey => UNCHANGED <<type, items, keySide>>
  BY DEF GetKey, caches, keySide
<1>12. ResetTraversing => UNCHANGED <<type, items, keySide>>
  BY DEF ResetTraversing, caches, keySide
<1>13. \A i \in Indexes : ReplaceMissingItem(i) \/ IndexByPosition(i) =>
          UNCHANGED <<type, items, keySide>>
  BY DEF ReplaceMissingItem, IndexByPosition
<1>14. \A n \in Fresh : AddItem(n) \/ AddAsFirst(n) =>
          UNCHANGED keySide /\ type' = "array" /\ type # "object"
  BY DEF AddItem, AddAsFirst, PutItem
<1>15. \A i \in Indexes \cup {-1} : DeleteItem(i) \/ ReplaceItem(i) =>
          UNCHANGED keySide /\ type' = "array" /\ type # "object"
  BY DEF DeleteItem, ReplaceItem
<1>16. Clear => m_mapJsonObjectRef' = [k \in Keys |-> Null]
  BY DEF Clear, DropAll
<1>17. \A text : ParseObject(text) => m_mapJsonObjectRef' = [k \in Keys |-> Null]
  BY DEF ParseObject, DropAll
<1>18. \A size : ParseArray(size) => m_mapJsonObjectRef' = [k \in Keys |-> Null]
  BY DEF ParseArray, DropAll
<1>19. UNCHANGED vars => UNCHANGED <<type, items, keySide>>
  BY DEF vars, caches, keySide
<1>20. ByIndex => KeyCacheRight'
  BY <1>8, <1>9, <1>13, <1>14, <1>15 DEF ByIndex
<1>21. OfAll => KeyCacheRight'
  BY <1>3, <1>8, <1>10, <1>11, <1>12, <1>16, <1>17, <1>18 DEF OfAll
<1> QED
  BY <1>1, <1>2, <1>4, <1>5, <1>6, <1>7, <1>8, <1>19, <1>20, <1>21 DEF Next, ByKey

----------------------------------------------------------------------------
(* The wrappers cached by index.                                           *)

LEMMA IndexCacheKept ==
    ASSUME IndexCacheRight, UNCHANGED idxSide,
           \A i \in Indexes : GetArrayItem(i)' = GetArrayItem(i)
    PROVE  IndexCacheRight'
<1>1. CachedIndexes' = CachedIndexes /\ shifted' = shifted
      /\ m_mapJsonArrayRef' = m_mapJsonArrayRef
  BY DEF idxSide, CachedIndexes
<1> QED BY <1>1 DEF IndexCacheRight, Wrapped, CachedIndexes

LEMMA IndexCacheEvicted ==
    ASSUME IndexCacheRight, NEW first \in Nat, EvictIndexesFrom(first),
           \A i \in Indexes : i < first => GetArrayItem(i)' = GetArrayItem(i)
    PROVE  IndexCacheRight'
<1> SUFFICES ASSUME NEW i \in CachedIndexes', i \notin shifted'
             PROVE  m_mapJsonArrayRef'[i] = Wrapped(GetArrayItem(i))'
  BY DEF IndexCacheRight
<1>1. i \in Indexes /\ m_mapJsonArrayRef'[i] # Null
  BY DEF CachedIndexes
<1>2. i < first /\ m_mapJsonArrayRef'[i] = m_mapJsonArrayRef[i]
  BY <1>1 DEF EvictIndexesFrom, Indexes
<1>3. i \in CachedIndexes /\ i \notin shifted
  BY <1>1, <1>2 DEF CachedIndexes, EvictIndexesFrom
<1> QED BY <1>1, <1>2, <1>3 DEF IndexCacheRight, Wrapped

LEMMA IndexCacheLeft ==
    ASSUME IndexCacheRight, NEW S, LeaveBehind(S),
           \A i \in Indexes \ S : GetArrayItem(i)' = GetArrayItem(i)
    PROVE  IndexCacheRight'
<1> SUFFICES ASSUME NEW i \in CachedIndexes', i \notin shifted'
             PROVE  m_mapJsonArrayRef'[i] = Wrapped(GetArrayItem(i))'
  BY DEF IndexCacheRight
<1>1. i \in CachedIndexes /\ m_mapJsonArrayRef'[i] = m_mapJsonArrayRef[i]
  BY DEF CachedIndexes, LeaveBehind
<1>2. i \in Indexes \ S /\ i \notin shifted
  BY <1>1 DEF CachedIndexes, LeaveBehind
<1> QED BY <1>1, <1>2 DEF IndexCacheRight, Wrapped

LEMMA IndexCacheOneEvicted ==
    ASSUME TypeOK, IndexCacheRight, NEW at \in Indexes, EvictIndex(at),
           \A i \in Indexes \ {at} : GetArrayItem(i)' = GetArrayItem(i)
    PROVE  IndexCacheRight'
<1> SUFFICES ASSUME NEW i \in CachedIndexes', i \notin shifted'
             PROVE  m_mapJsonArrayRef'[i] = Wrapped(GetArrayItem(i))'
  BY DEF IndexCacheRight
<1>1. i \in Indexes \ {at} /\ m_mapJsonArrayRef'[i] = m_mapJsonArrayRef[i]
  BY DEF CachedIndexes, EvictIndex, TypeOK
<1>2. i \in CachedIndexes /\ i \notin shifted
  BY <1>1 DEF CachedIndexes, EvictIndex
<1> QED BY <1>1, <1>2 DEF IndexCacheRight, Wrapped

\* Every operation keeps the wrappers cached by index right.
LEMMA IndexCacheStep ==
    TypeOK /\ IndexCacheRight /\ [Next]_vars => IndexCacheRight'
<1> SUFFICES ASSUME TypeOK, IndexCacheRight, [Next]_vars PROVE IndexCacheRight'
  OBVIOUS
<1>0. items \in Seq(Items) /\ Len(items) \in Nat /\ Indexes \subseteq Nat
  BY DEF TypeOK, Indexes
<1>1. ASSUME NEW n \in Nodes, AddItem(n) PROVE IndexCacheRight'
  <2>1. items' = Append(items, [key |-> NoKey, node |-> n])
    BY <1>1 DEF AddItem, PutItem
  <2>2. type \in {"none", "array"} /\ type' = "array"
        /\ (type = "none" => items = <<>>)
    BY <1>1 DEF AddItem, PutItem, TypeOK
  <2>3. ASSUME NEW i \in Indexes, i # Len(items)
        PROVE  GetArrayItem(i)' = GetArrayItem(i)
    <3>1. CASE i < Len(items)
      <4>1. items'[i + 1] = items[i + 1] /\ i < Len(items') /\ type = "array"
        BY <1>0, <2>1, <2>2, <3>1
      <4> QED BY <2>2, <3>1, <4>1 DEF GetArrayItem
    <3>2. CASE ~(i < Len(items))
      <4>1. ~(i < Len(items'))
        BY <1>0, <2>1, <2>3, <3>2
      <4> QED BY <3>2, <4>1 DEF GetArrayItem
    <3> QED BY <3>1, <3>2
  <2>4. CASE EvictIndexesFrom(Len(items))
    <3>1. \A i \in Indexes : i < Len(items) => GetArrayItem(i)' = GetArrayItem(i)
      BY <1>0, <2>3
    <3> QED BY <1>0, <2>4, <3>1, IndexCacheEvicted
  <2>5. CASE LeaveBehind({Len(items)})
    BY <2>3, <2>5, IndexCacheLeft
  <2> QED BY <1>1, <2>4, <2>5 DEF AddItem
<1>2. ASSUME NEW n \in Nodes, AddAsFirst(n) PROVE IndexCacheRight'
  <2>1. CASE EvictIndexesFrom(0)
    BY <1>0, <2>1, IndexCacheEvicted
  <2>2. CASE LeaveBehind(Indexes)
    BY <2>2, IndexCacheLeft
  <2> QED BY <1>2, <2>1, <2>2 DEF AddAsFirst
<1>3. ASSUME NEW w \in Indexes \cup {-1}, DeleteItem(w) PROVE IndexCacheRight'
  <2>1. CASE w < 0
    BY <1>3, <2>1, IndexCacheLeft DEF DeleteItem
  <2>2. CASE ~(w < 0)
    <3>1. w \in Nat /\ EvictIndexesFrom(w) /\ UNCHANGED type
          /\ items' = IF w < Len(items) THEN Without(items, w + 1) ELSE items
      BY <1>0, <1>3, <2>2 DEF DeleteItem
    <3>2. ASSUME NEW i \in Indexes, i < w PROVE GetArrayItem(i)' = GetArrayItem(i)
      <4>1. CASE w < Len(items)
        <5>1. w + 1 \in DOMAIN items /\ i + 1 \in DOMAIN items /\ i + 1 < w + 1
              /\ i < Len(items) - 1
          BY <1>0, <3>1, <3>2, <4>1
        <5>2. items'[i + 1] = items[i + 1] /\ Len(items') = Len(items) - 1
          BY <1>0, <3>1, <4>1, <5>1, WithoutType
        <5>3. i < Len(items)
          BY <1>0, <5>1
        <5> QED BY <3>1, <5>1, <5>2, <5>3 DEF GetArrayItem
      <4>2. CASE ~(w < Len(items))
        BY <3>1, <4>2 DEF GetArrayItem
      <4> QED BY <4>1, <4>2
    <3> QED BY <3>1, <3>2, IndexCacheEvicted
  <2> QED BY <2>1, <2>2
<1>4. ASSUME NEW w \in Indexes \cup {-1}, ReplaceItem(w) PROVE IndexCacheRight'
  <2> DEFINE at == IF w < 0 THEN 0 ELSE w
  <2>1. at \in Indexes
    BY MaxAssumption DEF Indexes
  <2>2. PICK n \in Nodes : items' = [items EXCEPT ![at + 1].node = n]
    BY <1>4 DEF ReplaceItem, Fresh
  <2>3. at + 1 \in DOMAIN items /\ UNCHANGED type
    BY <1>0, <1>4, <2>1 DEF ReplaceItem
  <2>4. CASE w < 0
    <3>1. LeaveBehind({0}) /\ at = 0
      BY <1>4, <2>4 DEF ReplaceItem
    <3> HIDE DEF at
    <3>2. \A i \in Indexes \ {0} : GetArrayItem(i)' = GetArrayItem(i)
      BY <1>0, <2>2, <2>3, <3>1 DEF GetArrayItem
    <3> QED BY <3>1, <3>2, IndexCacheLeft
  <2>5. CASE ~(w < 0)
    <3>1. EvictIndex(at)
      BY <1>4, <2>5 DEF ReplaceItem
    <3> HIDE DEF at
    <3>2. \A i \in Indexes \ {at} : GetArrayItem(i)' = GetArrayItem(i)
      BY <1>0, <2>1, <2>2, <2>3 DEF GetArrayItem
    <3> QED BY <2>1, <3>1, <3>2, IndexCacheOneEvicted
  <2> QED BY <2>4, <2>5
<1>5. ASSUME NEW i \in Indexes, ReplaceMissingItem(i) PROVE IndexCacheRight'
  <2>1. \A j \in Indexes : GetArrayItem(j)' = GetArrayItem(j)
    BY <1>5 DEF ReplaceMissingItem, GetArrayItem
  <2> QED BY <1>5, <2>1, IndexCacheOneEvicted DEF ReplaceMissingItem
<1>6. ASSUME NEW i \in Indexes, IndexByPosition(i) PROVE IndexCacheRight'
  <2>1. \A j \in Indexes : GetArrayItem(j)' = GetArrayItem(j)
    BY <1>6 DEF IndexByPosition, GetArrayItem
  <2> SUFFICES ASSUME NEW j \in CachedIndexes', j \notin shifted'
               PROVE  m_mapJsonArrayRef'[j] = Wrapped(GetArrayItem(j))'
    BY DEF IndexCacheRight
  <2>2. CASE j = i
    BY <1>6, <2>1, <2>2 DEF IndexByPosition, TypeOK, Wrapped
  <2>3. CASE j # i
    <3>1. j \in Indexes /\ m_mapJsonArrayRef'[j] = m_mapJsonArrayRef[j]
      BY <1>6, <2>3 DEF CachedIndexes, IndexByPosition, TypeOK
    <3>2. j \in CachedIndexes /\ j \notin shifted
      BY <1>6, <3>1 DEF CachedIndexes, IndexByPosition
    <3> QED BY <2>1, <3>1, <3>2 DEF IndexCacheRight, Wrapped
  <2> QED BY <2>2, <2>3
<1>7. ASSUME UNCHANGED idxSide, type # "array", type' # "array" PROVE IndexCacheRight'
  BY <1>7, IndexCacheKept DEF GetArrayItem
<1>8. ASSUME NEW t \in {"object", "array"}, AddNothing(t) PROVE IndexCacheRight'
  <2>1. \A i \in Indexes : GetArrayItem(i)' = GetArrayItem(i)
    <3>1. items = <<>> /\ items' = <<>>
      BY <1>8 DEF AddNothing, TypeOK
    <3>2. \A i \in Indexes : ~(i < Len(items)) /\ ~(i < Len(items'))
      BY <1>0, <3>1
    <3> QED BY <3>2 DEF GetArrayItem
  <2> QED BY <1>8, <2>1, IndexCacheKept DEF AddNothing, caches, idxSide
<1>9. ASSUME UNCHANGED <<type, items, idxSide>> PROVE IndexCacheRight'
  BY <1>9, IndexCacheKept DEF GetArrayItem
<1>10. ASSUME m_mapJsonArrayRef' = [i \in Indexes |-> Null] PROVE IndexCacheRight'
  BY <1>10 DEF IndexCacheRight, CachedIndexes
<1>11. \A k \in Keys : PutKey(k) \/ DeleteKey(k) \/ ReplaceKey(k) =>
          UNCHANGED idxSide /\ type # "array" /\ type' # "array"
  BY DEF PutKey, DeleteKey, ReplaceKey
<1>12. \A k \in Keys : ReplaceMissingScalar(k) \/ IndexByKey(k) =>
          UNCHANGED <<type, items, idxSide>>
  BY DEF ReplaceMissingScalar, IndexByKey
<1>13. GetKey \/ ResetTraversing => UNCHANGED <<type, items, idxSide>>
  BY DEF GetKey, ResetTraversing, caches, idxSide
<1>14. Clear => m_mapJsonArrayRef' = [i \in Indexes |-> Null]
  BY DEF Clear, DropAll
<1>15. \A text : ParseObject(text) => m_mapJsonArrayRef' = [i \in Indexes |-> Null]
  BY DEF ParseObject, DropAll
<1>16. \A size : ParseArray(size) => m_mapJsonArrayRef' = [i \in Indexes |-> Null]
  BY DEF ParseArray, DropAll
<1>17. UNCHANGED vars => UNCHANGED <<type, items, idxSide>>
  BY DEF vars, caches, idxSide
<1>18. ASSUME NEW k \in Keys, ByKey(k) PROVE IndexCacheRight'
  BY <1>7, <1>9, <1>11, <1>12, <1>18 DEF ByKey, AddObject, AddScalar
<1>19. ASSUME ByIndex PROVE IndexCacheRight'
  BY <1>1, <1>2, <1>3, <1>4, <1>5, <1>6, <1>19 DEF ByIndex, Fresh
<1>20. ASSUME OfAll PROVE IndexCacheRight'
  BY <1>8, <1>9, <1>10, <1>13, <1>14, <1>15, <1>16, <1>20 DEF OfAll
<1> QED BY <1>9, <1>17, <1>18, <1>19, <1>20 DEF Next

----------------------------------------------------------------------------
(* The children themselves: their keys, their identities and the cursor.   *)

\* Add puts a child behind the others; its key matches none of theirs and
\* its identity is new.
LEMMA PutKeyItems ==
    ASSUME TypeOK, NEW k \in Keys, PutKey(k)
    PROVE  \E n \in Nodes \ InUse :
              /\ items' = Append(items, [key |-> k, node |-> n])
              /\ \A i \in DOMAIN items : Fold[items[i].key] # Fold[k]
<1>1. PICK n \in Nodes \ InUse : items' = Append(items, [key |-> k, node |-> n])
  BY DEF PutKey, Fresh
<1>2. Positions(items, k) = {}
  <2>1. CASE type = "object"
    BY <2>1, FindNull DEF PutKey, GetObjectItem, TypeOK
  <2>2. CASE type = "none"
    BY <2>2 DEF TypeOK, Positions
  <2> QED BY <2>1, <2>2 DEF PutKey
<1>3. \A i \in DOMAIN items : Fold[items[i].key] # Fold[k]
  BY <1>2 DEF Positions, Matches
<1> QED BY <1>1, <1>3

\* Delete(key) and Delete(index) take out one child or none.
LEMMA Dropped ==
    ASSUME TypeOK,
           \/ \E k \in Keys : DropKey(k)
           \/ \E w \in Indexes \cup {-1} : DeleteItem(w)
    PROVE  \/ items' = items
           \/ \E i \in DOMAIN items : items' = Without(items, i)
<1>1. ASSUME NEW k \in Keys, DropKey(k)
      PROVE  items' = items \/ \E i \in DOMAIN items : items' = Without(items, i)
  <2>1. CASE Positions(items, k) = {}
    BY <1>1, <2>1 DEF DropKey
  <2>2. CASE Positions(items, k) # {}
    <3>1. First(items, k) \in DOMAIN items
      BY <2>2, FirstMatches DEF Positions, TypeOK
    <3> QED BY <1>1, <2>2, <3>1 DEF DropKey
  <2> QED BY <2>1, <2>2
<1>2. ASSUME NEW w \in Indexes \cup {-1}, DeleteItem(w)
      PROVE  items' = items \/ \E i \in DOMAIN items : items' = Without(items, i)
  BY <1>2 DEF DeleteItem, TypeOK, Indexes
<1> QED BY <1>1, <1>2

\* What is left keeps its order: each remaining child was a child, and two
\* of them were two.
LEMMA WithoutKeeps ==
    ASSUME NEW s \in Seq(Items), NEW i \in DOMAIN s
    PROVE  \A p, q \in DOMAIN Without(s, i) :
              \E a, b \in DOMAIN s :
                  /\ Without(s, i)[p] = s[a] /\ Without(s, i)[q] = s[b]
                  /\ a = b => p = q
<1> SUFFICES ASSUME NEW p \in DOMAIN Without(s, i), NEW q \in DOMAIN Without(s, i)
             PROVE  \E a, b \in DOMAIN s :
                        /\ Without(s, i)[p] = s[a] /\ Without(s, i)[q] = s[b]
                        /\ a = b => p = q
  OBVIOUS
<1> DEFINE a == IF p < i THEN p ELSE p + 1
<1> DEFINE b == IF q < i THEN q ELSE q + 1
<1>1. DOMAIN Without(s, i) = 1 .. Len(s) - 1
      /\ Without(s, i)[p] = s[a] /\ Without(s, i)[q] = s[b]
  BY WithoutType, Zenon
<1>2. a \in DOMAIN s /\ b \in DOMAIN s /\ (a = b => p = q)
  BY <1>1
<1> QED BY <1>1, <1>2

\* Nothing that leaves the tree alone disturbs its children.
LEMMA NodesStep == TypeOK /\ NodesDistinct /\ [Next]_vars => NodesDistinct'
<1> SUFFICES ASSUME TypeOK, NodesDistinct, [Next]_vars PROVE NodesDistinct'
  OBVIOUS
<1>0. items \in Seq(Items)
  BY DEF TypeOK
<1>1. ASSUME UNCHANGED items PROVE NodesDistinct'
  BY <1>1 DEF NodesDistinct
<1>2. ASSUME NEW k \in Keys, PutKey(k) PROVE NodesDistinct'
  <2>1. PICK n \in Nodes \ InUse : items' = Append(items, [key |-> k, node |-> n])
    BY <1>2, PutKeyItems
  <2> QED BY <1>0, <2>1 DEF NodesDistinct, InUse
<1>3. ASSUME NEW i \in DOMAIN items, items' = Without(items, i) PROVE NodesDistinct'
  BY <1>0, <1>3, WithoutKeeps DEF NodesDistinct
<1>4. ASSUME NEW k \in Keys, ReplaceKey(k) PROVE NodesDistinct'
  <2>1. PICK n \in Nodes \ InUse :
           items' = [items EXCEPT ![First(items, k)] = [key |-> k, node |-> n]]
    BY <1>4 DEF ReplaceKey, Fresh
  <2>2. First(items, k) \in DOMAIN items
    BY <1>0, <1>4, FirstMatches DEF ReplaceKey, Positions
  <2> QED BY <1>0, <2>1, <2>2 DEF NodesDistinct, InUse
<1>5. ASSUME NEW n \in Fresh, AddItem(n) PROVE NodesDistinct'
  <2>1. n \in Nodes \ InUse /\ items' = Append(items, [key |-> NoKey, node |-> n])
    BY <1>5 DEF AddItem, PutItem, Fresh
  <2> QED BY <1>0, <2>1 DEF NodesDistinct, InUse
<1>6. ASSUME NEW n \in Fresh, AddAsFirst(n) PROVE NodesDistinct'
  <2>1. n \in Nodes \ InUse /\ items' = <<[key |-> NoKey, node |-> n]>> \o items
    BY <1>6 DEF AddAsFirst, PutItem, Fresh
  <2>2. DOMAIN items' = 1 .. Len(items) + 1
        /\ items'[1].node = n
        /\ \A p \in DOMAIN items' : p # 1 =>
              p - 1 \in DOMAIN items /\ items'[p] = items[p - 1]
    BY <1>0, <2>1 DEF Items
  <2>3. \A p \in DOMAIN items : items[p].node # n
    BY <2>1 DEF InUse
  <2> QED BY <1>0, <2>2, <2>3 DEF NodesDistinct
<1>7. ASSUME NEW w \in Indexes \cup {-1}, ReplaceItem(w) PROVE NodesDistinct'
  <2> DEFINE at == IF w < 0 THEN 0 ELSE w
  <2>1. PICK n \in Nodes \ InUse : items' = [items EXCEPT ![at + 1].node = n]
    BY <1>7 DEF ReplaceItem, Fresh
  <2>2. at + 1 \in DOMAIN items
    BY <1>0, <1>7 DEF ReplaceItem, Indexes
  <2> HIDE DEF at
  <2>3. items[at + 1] \in Items
    BY <1>0, <2>2
  <2>4. DOMAIN items' = DOMAIN items /\ items'[at + 1].node = n
        /\ \A p \in DOMAIN items : p # at + 1 => items'[p] = items[p]
    BY <1>0, <2>1, <2>2, <2>3 DEF Items
  <2>5. \A p \in DOMAIN items : items[p].node # n
    BY <2>1 DEF InUse
  <2> QED BY <2>2, <2>4, <2>5 DEF NodesDistinct
<1>8. ASSUME Clear PROVE NodesDistinct'
  BY <1>8 DEF Clear, NodesDistinct
<1>9. ASSUME NEW size \in 0 .. MaxKeys, NEW text \in [1 .. size -> Keys], ParseObject(text)
      PROVE  NodesDistinct'
  BY <1>9 DEF ParseObject, NodesDistinct
<1>10. ASSUME NEW size \in 0 .. MaxItems, ParseArray(size) PROVE NodesDistinct'
  BY <1>10 DEF ParseArray, NodesDistinct
<1>11. ASSUME NEW k \in Keys, ByKey(k) PROVE NodesDistinct'
  <2>1. DeleteKey(k) => NodesDistinct'
    BY <1>1, <1>3, Dropped DEF DeleteKey
  <2>2. ReplaceMissingScalar(k) \/ IndexByKey(k) => UNCHANGED items
    BY DEF ReplaceMissingScalar, IndexByKey
  <2> QED BY <1>1, <1>2, <1>4, <1>11, <2>1, <2>2 DEF ByKey, AddObject, AddScalar
<1>12. ASSUME ByIndex PROVE NodesDistinct'
  <2>1. \A w \in Indexes \cup {-1} : DeleteItem(w) => NodesDistinct'
    BY <1>1, <1>3, Dropped
  <2>2. \A i \in Indexes : ReplaceMissingItem(i) \/ IndexByPosition(i) => UNCHANGED items
    BY DEF ReplaceMissingItem, IndexByPosition
  <2> QED BY <1>1, <1>5, <1>6, <1>7, <1>12, <2>1, <2>2 DEF ByIndex
<1>13. ASSUME OfAll PROVE NodesDistinct'
  <2>1. GetKey \/ ResetTraversing \/ (\E t \in {"object", "array"} : AddNothing(t))
           => UNCHANGED items
    BY DEF GetKey, ResetTraversing, AddNothing
  <2> QED BY <1>1, <1>8, <1>9, <1>10, <1>13, <2>1 DEF OfAll
<1>14. UNCHANGED vars => UNCHANGED items
  BY DEF vars
<1> QED BY <1>1, <1>11, <1>12, <1>13, <1>14 DEF Next

\* No operation gives an object two keys that match.
LEMMA KeysUniqueStep == TypeOK /\ KeysUnique /\ [Next]_vars => KeysUnique'
<1> SUFFICES ASSUME TypeOK, KeysUnique, [Next]_vars PROVE KeysUnique'
  OBVIOUS
<1>0. items \in Seq(Items)
  BY DEF TypeOK
<1>1. ASSUME UNCHANGED <<type, items, doubled>> PROVE KeysUnique'
  BY <1>1 DEF KeysUnique
<1>2. ASSUME NEW k \in Keys, PutKey(k) PROVE KeysUnique'
  <2>1. UNCHANGED doubled /\ type \in {"none", "object"} /\ (type = "none" => items = <<>>)
    BY <1>2 DEF PutKey, TypeOK
  <2>2. PICK n \in Nodes :
           /\ items' = Append(items, [key |-> k, node |-> n])
           /\ \A i \in DOMAIN items : Fold[items[i].key] # Fold[k]
    BY <1>2, PutKeyItems
  <2>3. DOMAIN items' = 1 .. Len(items) + 1
        /\ items'[Len(items) + 1].key = k
        /\ \A p \in DOMAIN items' : p # Len(items) + 1 =>
              p \in DOMAIN items /\ items'[p] = items[p]
    BY <1>0, <2>2
  <2>4. ~doubled => \A i, j \in DOMAIN items :
                       Fold[items[i].key] = Fold[items[j].key] => i = j
    BY <2>1 DEF KeysUnique
  <2> QED BY <2>1, <2>2, <2>3, <2>4 DEF KeysUnique
<1>3. ASSUME UNCHANGED <<type, doubled>>,
             NEW i \in DOMAIN items, items' = Without(items, i)
      PROVE  KeysUnique'
  BY <1>0, <1>3, WithoutKeeps DEF KeysUnique
<1>4. ASSUME NEW k \in Keys, ReplaceKey(k) PROVE KeysUnique'
  <2>1. PICK n \in Nodes :
           items' = [items EXCEPT ![First(items, k)] = [key |-> k, node |-> n]]
    BY <1>4 DEF ReplaceKey, Fresh
  <2>2. /\ First(items, k) \in DOMAIN items
        /\ Fold[items[First(items, k)].key] = Fold[k]
    BY <1>0, <1>4, FirstMatches DEF ReplaceKey, Positions, Matches
  <2>3. DOMAIN items' = DOMAIN items
        /\ \A p \in DOMAIN items : Fold[items'[p].key] = Fold[items[p].key]
    BY <1>0, <2>1, <2>2
  <2>4. UNCHANGED <<type, doubled>>
    BY <1>4 DEF ReplaceKey
  <2> QED BY <2>3, <2>4 DEF KeysUnique
<1>5. ASSUME NEW size \in 0 .. MaxKeys, NEW text \in [1 .. size -> Keys], ParseObject(text)
      PROVE  KeysUnique'
  BY <1>5 DEF ParseObject, KeysUnique, HasDouble
<1>6. ASSUME type' # "object" PROVE KeysUnique'
  BY <1>6 DEF KeysUnique
<1>7. ASSUME items' = <<>> PROVE KeysUnique'
  BY <1>7 DEF KeysUnique
<1>8. ASSUME NEW k \in Keys, ByKey(k) PROVE KeysUnique'
  <2>1. DeleteKey(k) => KeysUnique'
    <3>1. DeleteKey(k) => DropKey(k) /\ UNCHANGED <<type, doubled>>
      BY DEF DeleteKey
    <3> QED BY <1>1, <1>3, <3>1, Dropped
  <2>2. ReplaceMissingScalar(k) \/ IndexByKey(k) => UNCHANGED <<type, items, doubled>>
    BY DEF ReplaceMissingScalar, IndexByKey
  <2> QED BY <1>1, <1>2, <1>4, <1>8, <2>1, <2>2 DEF ByKey, AddObject, AddScalar
<1>9. ASSUME ByIndex PROVE KeysUnique'
  <2>1. \A i \in Indexes : ReplaceMissingItem(i) \/ IndexByPosition(i) =>
           UNCHANGED <<type, items, doubled>>
    BY DEF ReplaceMissingItem, IndexByPosition
  <2>2. \A w \in Indexes \cup {-1} : DeleteItem(w) \/ ReplaceItem(w) => type' # "object"
    BY DEF DeleteItem, ReplaceItem
  <2>3. \A n \in Fresh : AddItem(n) \/ AddAsFirst(n) => type' # "object"
    BY DEF AddItem, AddAsFirst, PutItem
  <2> QED BY <1>1, <1>6, <1>9, <2>1, <2>2, <2>3 DEF ByIndex
<1>10. ASSUME OfAll PROVE KeysUnique'
  <2>1. GetKey \/ ResetTraversing => UNCHANGED <<type, items, doubled>>
    BY DEF GetKey, ResetTraversing
  <2>2. (\E t \in {"object", "array"} : AddNothing(t)) => items' = <<>>
    BY DEF AddNothing, TypeOK
  <2>3. Clear => items' = <<>>
    BY DEF Clear
  <2>4. \A size : ParseArray(size) => type' # "object"
    BY DEF ParseArray
  <2> QED BY <1>1, <1>5, <1>6, <1>7, <1>10, <2>1, <2>2, <2>3, <2>4 DEF OfAll
<1>11. UNCHANGED vars => UNCHANGED <<type, items, doubled>>
  BY DEF vars
<1> QED BY <1>1, <1>8, <1>9, <1>10, <1>11 DEF Next

\* The cursor keeps its place through every operation.
LEMMA TraversalStep ==
    TypeOK /\ NodesDistinct /\ TraversalInOrder /\ [Next]_vars => TraversalInOrder'
<1> SUFFICES ASSUME TypeOK, NodesDistinct, TraversalInOrder, [Next]_vars
             PROVE  TraversalInOrder'
  OBVIOUS
<1>0. items \in Seq(Items) /\ visited \in Nat /\ Root # Null
      /\ Root \notin Nodes /\ Null \notin Nodes
  BY DEF TypeOK, Root, Null, Nodes
<1>1. ASSUME UNCHANGED <<type, items, cursor>> PROVE TraversalInOrder'
  BY <1>1 DEF TraversalInOrder, cursor
<1>2. ASSUME Rewind(Root) PROVE TraversalInOrder'
  BY <1>0, <1>2 DEF TraversalInOrder, Rewind
<1>3. ASSUME type' # "object" PROVE TraversalInOrder'
  BY <1>3 DEF TraversalInOrder
<1>4. ASSUME NEW k \in Keys, ReplaceKey(k) PROVE TraversalInOrder'
  <2> SUFFICES ASSUME ~cut' PROVE TraversalInOrder'
    BY DEF TraversalInOrder
  <2>1. PICK n \in Nodes :
           items' = [items EXCEPT ![First(items, k)] = [key |-> k, node |-> n]]
    BY <1>4 DEF ReplaceKey, Fresh
  <2>2. First(items, k) \in DOMAIN items
    BY <1>0, <1>4, FirstMatches DEF ReplaceKey, Positions
  <2>3. ~cut /\ m_pKeyTravers # items[First(items, k)].node
    BY <1>4 DEF ReplaceKey, Find
  <2>4. DOMAIN items' = DOMAIN items /\ Len(items') = Len(items)
        /\ \A p \in DOMAIN items : p # First(items, k) => items'[p] = items[p]
    BY <1>0, <2>1, <2>2
  <2>5. UNCHANGED <<type, m_pKeyTravers, visited>> /\ type = "object"
    BY <1>4 DEF ReplaceKey
  <2> QED BY <2>3, <2>4, <2>5 DEF TraversalInOrder
<1>5. ASSUME GetKey PROVE TraversalInOrder'
  <2> SUFFICES ASSUME type = "object" PROVE TraversalInOrder'
    BY <1>5, <1>3 DEF GetKey
  <2>0. UNCHANGED <<type, items>> /\ ~cut
    BY <1>5 DEF GetKey
  <2>1. ASSUME NEW p \in DOMAIN items, m_pKeyTravers' = NextOf(p), visited' = p
        PROVE  TraversalInOrder'
    <3>1. CASE p < Len(items)
      <4>1. p + 1 \in DOMAIN items /\ m_pKeyTravers' = items[p + 1].node
        BY <1>0, <2>1, <3>1 DEF NextOf
      <4>2. m_pKeyTravers' \in Nodes
        <5>1. items[p + 1] \in Items
          BY <1>0, <4>1
        <5> QED BY <4>1, <5>1 DEF Items
      <4> QED BY <1>0, <2>0, <2>1, <4>1, <4>2 DEF TraversalInOrder
    <3>2. CASE ~(p < Len(items))
      <4>1. p = Len(items) /\ m_pKeyTravers' = Null
        BY <1>0, <2>1, <3>2 DEF NextOf
      <4> QED BY <1>0, <2>0, <2>1, <4>1 DEF TraversalInOrder
    <3> QED BY <3>1, <3>2
  <2>2. CASE m_pKeyTravers = Null
    <3>1. Rewind(Root)
      BY <1>0, <1>5, <2>2 DEF GetKey
    <3> QED BY <1>2, <3>1
  <2>3. CASE m_pKeyTravers = Root
    <3>1. 1 \in DOMAIN items /\ m_pKeyTravers' = NextOf(1) /\ visited' = 1
      BY <1>0, <1>5, <2>3 DEF GetKey
    <3> QED BY <2>1, <3>1
  <2>4. CASE m_pKeyTravers \in Nodes
    <3>1. visited + 1 \in DOMAIN items /\ items[visited + 1].node = m_pKeyTravers
      BY <2>0, <2>4 DEF TraversalInOrder
    <3>2. CursorAt = visited + 1
      BY <1>0, <2>4, <3>1 DEF CursorAt, NodesDistinct
    <3>3. m_pKeyTravers' = NextOf(CursorAt) /\ visited' = visited + 1
      BY <1>0, <1>5, <2>4 DEF GetKey
    <3> QED BY <2>1, <3>1, <3>2, <3>3
  <2> QED BY <2>2, <2>3, <2>4 DEF TypeOK
<1>6. ASSUME NEW k \in Keys, ByKey(k) PROVE TraversalInOrder'
  <2>1. PutKey(k) \/ DeleteKey(k) => Rewind(Root)
    BY DEF PutKey, DeleteKey
  <2>2. ReplaceMissingScalar(k) \/ IndexByKey(k) => UNCHANGED <<type, items, cursor>>
    BY DEF ReplaceMissingScalar, IndexByKey
  <2> QED BY <1>1, <1>2, <1>4, <1>6, <2>1, <2>2 DEF ByKey, AddObject, AddScalar
<1>7. ASSUME ByIndex PROVE TraversalInOrder'
  <2>1. \A i \in Indexes : ReplaceMissingItem(i) \/ IndexByPosition(i) =>
           UNCHANGED <<type, items, cursor>>
    BY DEF ReplaceMissingItem, IndexByPosition
  <2>2. \A w \in Indexes \cup {-1} : DeleteItem(w) \/ ReplaceItem(w) => type' # "object"
    BY DEF DeleteItem, ReplaceItem
  <2>3. \A n \in Fresh : AddItem(n) \/ AddAsFirst(n) => type' # "object"
    BY DEF AddItem, AddAsFirst, PutItem
  <2> QED BY <1>1, <1>3, <1>7, <2>1, <2>2, <2>3 DEF ByIndex
<1>8. ASSUME OfAll PROVE TraversalInOrder'
  <2>1. ResetTraversing => Rewind(Root) \/ type' # "object"
    BY DEF ResetTraversing
  <2>2. \A t \in {"object", "array"} : AddNothing(t) => Rewind(Root) \/ type' # "object"
    BY DEF AddNothing
  <2>3. Clear => type' # "object"
    BY DEF Clear
  <2>4. \A size : ParseArray(size) => type' # "object"
    BY DEF ParseArray
  <2>5. \A text : ParseObject(text) => Rewind(Root)
    BY DEF ParseObject, DropAll
  <2> QED BY <1>2, <1>3, <1>5, <1>8, <2>1, <2>2, <2>3, <2>4, <2>5 DEF OfAll
<1>9. UNCHANGED vars => UNCHANGED <<type, items, cursor>>
  BY DEF vars
<1> QED BY <1>1, <1>6, <1>7, <1>8, <1>9 DEF Next

----------------------------------------------------------------------------
(* The theorems.                                                           *)

LEMMA InitInv == Init => IInv
<1> SUFFICES ASSUME Init PROVE IInv
  OBVIOUS
<1>1. TypeOK
  <2>1. items \in Seq(Items) /\ Len(items) = 0 /\ DOMAIN items = {}
    BY DEF Init
  <2>2. Len(items) <= IF type = "object" THEN MaxKeys ELSE MaxItems
    BY <2>1, MaxAssumption
  <2>3. /\ m_mapJsonObjectRef \in [Keys -> Nodes \cup {Null, Blank}]
        /\ m_mapJsonArrayRef \in [Indexes -> Nodes \cup {Null, Blank}]
    BY DEF Init
  <2> QED BY <2>1, <2>2, <2>3 DEF Init, TypeOK
<1>2. NodesDistinct /\ KeysUnique /\ TraversalInOrder
  BY DEF Init, NodesDistinct, KeysUnique, TraversalInOrder
<1>3. KeyCacheRight /\ IndexCacheRight
  BY DEF Init, KeyCacheRight, IndexCacheRight, CachedKeys, CachedIndexes
<1> QED BY <1>1, <1>2, <1>3 DEF IInv

LEMMA Inductive == Spec => []IInv
<1>1. IInv /\ [Next]_vars => IInv'
  BY TypeStep, NodesStep, KeyCacheStep, IndexCacheStep, KeysUniqueStep, TraversalStep
     DEF IInv
<1> QED BY InitInv, <1>1, PTL DEF Spec

\* The tree, the caches and the cursor keep their types, and a wrapper that
\* holds nothing wraps no array and no object.
THEOREM WrapperTypeCorrect == Spec => []TypeOK
<1>1. IInv => TypeOK
  BY DEF IInv
<1> QED BY Inductive, <1>1, PTL

\* operator[] by key never returns a wrapper of a child that Add, Replace,
\* Delete, Parse or Clear has freed or moved, but for the two gaps that
\* KeyCacheRight names.
THEOREM CachedKeysRight == Spec => []KeyCacheRight
<1>1. IInv => KeyCacheRight
  BY DEF IInv
<1> QED BY Inductive, <1>1, PTL

\* The same for operator[] by index.
THEOREM CachedIndexesRight == Spec => []IndexCacheRight
<1>1. IInv => IndexCacheRight
  BY DEF IInv
<1> QED BY Inductive, <1>1, PTL

\* An object never has two keys that a search takes for the same, unless the
\* parsed text had.
THEOREM NoKeyTwice == Spec => []KeysUnique
<1>1. IInv => KeysUnique
  BY DEF IInv
<1> QED BY Inductive, <1>1, PTL

\* GetKey returns every key once and in order.
THEOREM EnumerationInOrder == Spec => []TraversalInOrder
<1>1. IInv => TraversalInOrder
  BY DEF IInv
<1> QED BY Inductive, <1>1, PTL

----------------------------------------------------------------------------
(* What callers have from these invariants.                                *)

\* The children that are not freed.
Held == {items[i].node : i \in DOMAIN items}

\* No pointer the object keeps names a child that is freed, but for the gaps
\* that the history records.
NothingDangles ==
    /\ \A k \in CachedKeys \ aliased : m_mapJsonObjectRef[k] \in Held \cup {Blank}
    /\ \A i \in CachedIndexes \ shifted : m_mapJsonArrayRef[i] \in Held \cup {Blank}
    /\ ~cut => m_pKeyTravers \in Held \cup {Null, Root}

\* Writing through one wrapper does not show in another: wrappers of two
\* keys share a child exactly if a search takes the keys for the same, and
\* wrappers of two indexes never do.
WrappersApart ==
    /\ \A j, k \in CachedKeys \ aliased :
          m_mapJsonObjectRef[j] # Blank =>
             (m_mapJsonObjectRef[j] = m_mapJsonObjectRef[k] <=> Matches(j, k))
    /\ \A i, j \in CachedIndexes \ shifted :
          m_mapJsonArrayRef[i] # Blank /\ m_mapJsonArrayRef[i] = m_mapJsonArrayRef[j]
             => i = j

\* An object is a map from keys, whatever their case, to children: Add binds
\* an unbound key to a new child, Replace a bound one, Delete unbinds it, and
\* no call disturbs what is found under another key.
MapStep(k) ==
    /\ ByKey(k) => \A j \in Keys : ~Matches(j, k) => GetObjectItem(j)' = GetObjectItem(j)
    /\ AddObject(k) \/ AddScalar(k) => GetObjectItem(k) = Null /\ GetObjectItem(k)' \in Fresh
    /\ ReplaceKey(k) => GetObjectItem(k) # Null /\ GetObjectItem(k)' \in Fresh
    /\ DeleteKey(k) /\ ~doubled => GetObjectItem(k)' = Null
ObjectIsMap == [][\A k \in Keys : MapStep(k)]_vars

\* Only an object has a cursor at a child.
CursorInObject == m_pKeyTravers \in Nodes => type = "object"

\* What a search finds is a child.
LEMMA FindHeld ==
    ASSUME NEW s \in Seq(Items), NEW k, Find(s, k) # Null
    PROVE  /\ First(s, k) \in Positions(s, k) /\ First(s, k) \in DOMAIN s
           /\ Find(s, k) = s[First(s, k)].node
<1>1. Positions(s, k) # {}
  BY FindNull
<1> QED BY <1>1, FirstMatches DEF Find, Positions

LEMMA SearchHeld ==
    ASSUME TypeOK
    PROVE  /\ \A k \in Keys : Wrapped(GetObjectItem(k)) \in Held \cup {Blank}
           /\ \A i \in Indexes : Wrapped(GetArrayItem(i)) \in Held \cup {Blank}
<1>1. ASSUME NEW k \in Keys PROVE Wrapped(GetObjectItem(k)) \in Held \cup {Blank}
  <2>1. CASE GetObjectItem(k) = Null
    BY <2>1 DEF Wrapped
  <2>2. CASE GetObjectItem(k) # Null
    <3>1. Find(items, k) # Null /\ GetObjectItem(k) = Find(items, k)
      BY <2>2 DEF GetObjectItem
    <3> QED BY <2>2, <3>1, FindHeld DEF TypeOK, Wrapped, Held
  <2> QED BY <2>1, <2>2
<1>2. ASSUME NEW i \in Indexes PROVE Wrapped(GetArrayItem(i)) \in Held \cup {Blank}
  <2>1. CASE type = "array" /\ i < Len(items)
    <3>1. i + 1 \in DOMAIN items
      BY <2>1, MaxAssumption DEF TypeOK, Indexes
    <3> QED BY <2>1, <3>1 DEF GetArrayItem, Wrapped, Held
  <2>2. CASE ~(type = "array" /\ i < Len(items))
    BY <2>2 DEF GetArrayItem, Wrapped
  <2> QED BY <2>1, <2>2
<1> QED BY <1>1, <1>2

LEMMA CursorStep == TypeOK /\ CursorInObject /\ [Next]_vars => CursorInObject'
<1> SUFFICES ASSUME TypeOK, CursorInObject, [Next]_vars PROVE CursorInObject'
  OBVIOUS
<1> USE DEF CursorInObject
<1>0. Root \notin Nodes /\ Null \notin Nodes
  BY DEF Root, Null, Nodes
<1>1. ASSUME UNCHANGED <<type, m_pKeyTravers>> PROVE CursorInObject'
  BY <1>1
<1>2. ASSUME Rewind(Root) \/ Rewind(Null) PROVE CursorInObject'
  BY <1>0, <1>2 DEF Rewind
<1>3. ASSUME UNCHANGED cursor, type = "none" \/ UNCHANGED type PROVE CursorInObject'
  BY <1>0, <1>3 DEF cursor, TypeOK
<1>4. ASSUME NEW k \in Keys, ByKey(k) PROVE CursorInObject'
  <2>1. PutKey(k) \/ DeleteKey(k) => Rewind(Root)
    BY DEF PutKey, DeleteKey
  <2>2. ReplaceKey(k) \/ ReplaceMissingScalar(k) \/ IndexByKey(k)
           => UNCHANGED <<type, m_pKeyTravers>>
    BY DEF ReplaceKey, ReplaceMissingScalar, IndexByKey, cursor
  <2> QED BY <1>1, <1>2, <1>4, <2>1, <2>2 DEF ByKey, AddObject, AddScalar
<1>5. ASSUME ByIndex PROVE CursorInObject'
  <2>1. m_pKeyTravers' = m_pKeyTravers
    BY <1>5 DEF ByIndex, AddItem, AddAsFirst, PutItem, DeleteItem, ReplaceItem,
       ReplaceMissingItem, IndexByPosition, cursor
  <2>2. type \in {"none", "array"} \/ UNCHANGED type
    BY <1>5 DEF ByIndex, AddItem, AddAsFirst, PutItem, DeleteItem, ReplaceItem,
       ReplaceMissingItem, IndexByPosition
  <2> QED BY <1>0, <2>1, <2>2 DEF TypeOK
<1>6. ASSUME GetKey PROVE CursorInObject'
  <2>1. type \in {"none", "object"} /\ UNCHANGED type
    BY <1>6 DEF GetKey, TypeOK
  <2>2. type = "none" => FALSE
    BY <1>0, <1>6 DEF GetKey, TypeOK, Root, Null
  <2> QED BY <2>1, <2>2
<1>7. ASSUME OfAll PROVE CursorInObject'
  <2>1. ResetTraversing => Rewind(Root) \/ Rewind(Null)
    BY DEF ResetTraversing
  <2>2. \A t \in {"object", "array"} :
           AddNothing(t) => Rewind(Root) \/ (UNCHANGED cursor /\ type = "none")
    BY DEF AddNothing
  <2>3. Clear \/ (\E size \in 0 .. MaxItems : ParseArray(size))
           => Rewind(Root) \/ Rewind(Null)
    BY DEF Clear, ParseArray, DropAll
  <2>4. \A text : ParseObject(text) => Rewind(Root)
    BY DEF ParseObject, DropAll
  <2> QED BY <1>2, <1>3, <1>6, <1>7, <2>1, <2>2, <2>3, <2>4 DEF OfAll
<1> QED BY <1>1, <1>4, <1>5, <1>7 DEF Next, vars, cursor

\* No wrapper that operator[] returns from its caches and no cursor of GetKey
\* points to a node that cJSON has freed, in any sequence of calls, but for
\* the gaps named: another spelling, a shift that evicts nothing, and a
\* Replace of the child that GetKey is to return.
THEOREM NoDanglingPointer == Spec => []NothingDangles
<1>1. Init => CursorInObject
  BY DEF Init, CursorInObject, Null, Nodes
<1>2. IInv /\ CursorInObject /\ [Next]_vars => CursorInObject'
  BY CursorStep DEF IInv
<1>3. IInv /\ CursorInObject => NothingDangles
  <2> SUFFICES ASSUME IInv, CursorInObject PROVE NothingDangles
    OBVIOUS
  <2>1. \A k \in CachedKeys \ aliased : m_mapJsonObjectRef[k] \in Held \cup {Blank}
    BY SearchHeld DEF IInv, KeyCacheRight, CachedKeys
  <2>2. \A i \in CachedIndexes \ shifted : m_mapJsonArrayRef[i] \in Held \cup {Blank}
    BY SearchHeld DEF IInv, IndexCacheRight, CachedIndexes
  <2>3. ~cut /\ m_pKeyTravers \in Nodes => m_pKeyTravers \in Held
    BY DEF IInv, TraversalInOrder, CursorInObject, Held
  <2> QED BY <2>1, <2>2, <2>3 DEF NothingDangles, IInv, TypeOK
<1> QED BY Inductive, <1>1, <1>2, <1>3, PTL DEF Spec

\* Two wrappers are of one child only where a search would find one child.
THEOREM WrappersStayApart == Spec => []WrappersApart
<1>1. ASSUME IInv, NEW j \in CachedKeys \ aliased, NEW k \in CachedKeys \ aliased,
             m_mapJsonObjectRef[j] # Blank
      PROVE  m_mapJsonObjectRef[j] = m_mapJsonObjectRef[k] <=> Matches(j, k)
  <2>1. /\ m_mapJsonObjectRef[j] = Wrapped(GetObjectItem(j))
        /\ m_mapJsonObjectRef[k] = Wrapped(GetObjectItem(k))
    BY <1>1 DEF IInv, KeyCacheRight
  <2>2. type = "object" /\ Find(items, j) # Null
    BY <1>1, <2>1 DEF Wrapped, GetObjectItem
  <2>3. items \in Seq(Items)
    BY <1>1 DEF IInv, TypeOK
  <2>4. /\ First(items, j) \in DOMAIN items /\ Fold[items[First(items, j)].key] = Fold[j]
        /\ Find(items, j) = items[First(items, j)].node
    BY <2>2, <2>3, FindHeld DEF Positions, Matches
  <2>5. ASSUME Matches(j, k) PROVE m_mapJsonObjectRef[j] = m_mapJsonObjectRef[k]
    <3>1. Positions(items, j) = Positions(items, k)
      BY <2>5 DEF Positions, Matches
    <3>2. Find(items, j) = Find(items, k)
      BY <3>1 DEF Find, First
    <3> QED BY <2>1, <2>2, <3>2 DEF GetObjectItem
  <2>6. ASSUME m_mapJsonObjectRef[j] = m_mapJsonObjectRef[k] PROVE Matches(j, k)
    <3>1. Find(items, k) # Null /\ Find(items, k) = Find(items, j)
      BY <1>1, <2>1, <2>2, <2>6 DEF Wrapped, GetObjectItem
    <3>2. /\ First(items, k) \in DOMAIN items /\ Fold[items[First(items, k)].key] = Fold[k]
          /\ Find(items, k) = items[First(items, k)].node
      BY <2>3, <3>1, FindHeld DEF Positions, Matches
    <3>3. First(items, j) = First(items, k)
      BY <1>1, <2>4, <3>1, <3>2 DEF IInv, NodesDistinct
    <3> QED BY <2>4, <3>2, <3>3 DEF Matches
  <2> QED BY <2>5, <2>6
<1>2. ASSUME IInv, NEW i \in CachedIndexes \ shifted, NEW j \in CachedIndexes \ shifted,
             m_mapJsonArrayRef[i] # Blank, m_mapJsonArrayRef[i] = m_mapJsonArrayRef[j]
      PROVE  i = j
  <2>1. /\ m_mapJsonArrayRef[i] = Wrapped(GetArrayItem(i))
        /\ m_mapJsonArrayRef[j] = Wrapped(GetArrayItem(j))
    BY <1>2 DEF IInv, IndexCacheRight
  <2>2. \A x \in {i, j} : type = "array" /\ x < Len(items) /\ GetArrayItem(x) = items[x + 1].node
    BY <1>2, <2>1 DEF Wrapped, GetArrayItem
  <2>3. i \in Nat /\ j \in Nat /\ items \in Seq(Items)
    BY <1>2, MaxAssumption DEF CachedIndexes, Indexes, IInv, TypeOK
  <2>4. i + 1 \in DOMAIN items /\ j + 1 \in DOMAIN items
    BY <2>2, <2>3
  <2>5. items[i + 1].node \in Nodes /\ items[j + 1].node \in Nodes
    <3>1. items[i + 1] \in Items /\ items[j + 1] \in Items
      BY <2>3, <2>4
    <3> QED BY <3>1 DEF Items
  <2>6. items[i + 1].node = items[j + 1].node
    BY <1>2, <2>1, <2>2, <2>5 DEF Wrapped, Nodes, Null
  <2>7. i + 1 = j + 1
    BY <1>2, <2>4, <2>6 DEF IInv, NodesDistinct
  <2> QED BY <2>3, <2>7
<1>3. IInv => WrappersApart
  BY <1>1, <1>2 DEF WrappersApart
<1> QED BY Inductive, <1>3, PTL

\* What a search for the key itself finds after Add, Replace and Delete.
LEMMA PutKeyBinds ==
    ASSUME TypeOK, NEW k \in Keys, PutKey(k)
    PROVE  GetObjectItem(k) = Null /\ GetObjectItem(k)' \in Fresh
<1>0. items \in Seq(Items)
  BY DEF TypeOK
<1>1. PICK n \in Fresh : items' = Append(items, [key |-> k, node |-> n])
  BY DEF PutKey
<1>2. n \in Nodes /\ \A i \in DOMAIN items : Fold[items[i].key] # Fold[k]
  BY <1>1, PutKeyItems DEF Fresh
<1> DEFINE l == Len(items) + 1
<1>3. /\ items' \in Seq(Items) /\ DOMAIN items' = 1 .. l /\ l \in DOMAIN items'
      /\ items'[l] = [key |-> k, node |-> n]
      /\ \A p \in DOMAIN items' : p # l => p \in DOMAIN items /\ items'[p] = items[p]
  <2>1. [key |-> k, node |-> n] \in Items
    BY <1>2 DEF Items
  <2> QED BY <1>0, <1>1, <2>1
<1> HIDE DEF l
<1>4. Positions(items', k) = {l}
  BY <1>2, <1>3 DEF Positions, Matches
<1>5. First(items', k) = l
  BY <1>3, <1>4, FirstMatches
<1>6. Find(items', k) = n
  BY <1>3, <1>4, <1>5 DEF Find
<1> QED BY <1>1, <1>6 DEF PutKey, GetObjectItem

LEMMA ReplaceKeyBinds ==
    ASSUME TypeOK, NEW k \in Keys, ReplaceKey(k)
    PROVE  GetObjectItem(k) # Null /\ GetObjectItem(k)' \in Fresh
<1> DEFINE f == First(items, k)
<1>0. items \in Seq(Items) /\ Positions(items, k) # {} /\ type = "object" /\ UNCHANGED type
  BY DEF TypeOK, ReplaceKey
<1>1. PICK n \in Fresh : items' = [items EXCEPT ![f] = [key |-> k, node |-> n]]
  BY DEF ReplaceKey
<1>2. f \in DOMAIN items /\ Fold[items[f].key] = Fold[k]
  BY <1>0, FirstMatches DEF Positions, Matches
<1> HIDE DEF f
<1>3. /\ DOMAIN items' = DOMAIN items
      /\ items'[f] = [key |-> k, node |-> n]
      /\ \A p \in DOMAIN items : p # f => items'[p] = items[p]
  BY <1>0, <1>1, <1>2
<1>4. Positions(items', k) = Positions(items, k)
  BY <1>2, <1>3 DEF Positions, Matches
<1>5. First(items', k) = f
  BY <1>4 DEF First, f
<1>6. Find(items', k) = n
  BY <1>0, <1>3, <1>4, <1>5 DEF Find
<1>7. Find(items, k) # Null
  BY <1>0, FindNull
<1> QED BY <1>0, <1>1, <1>6, <1>7 DEF GetObjectItem

LEMMA DeleteKeyUnbinds ==
    ASSUME TypeOK, KeysUnique, NEW k \in Keys, DeleteKey(k), ~doubled
    PROVE  GetObjectItem(k)' = Null
<1> DEFINE f == First(items, k)
<1>0. items \in Seq(Items) /\ type = "object" /\ UNCHANGED type /\ DropKey(k)
  BY DEF TypeOK, DeleteKey
<1>1. CASE Positions(items, k) = {}
  BY <1>0, <1>1 DEF DropKey, Find, GetObjectItem
<1>2. CASE Positions(items, k) # {}
  <2>1. f \in DOMAIN items /\ Fold[items[f].key] = Fold[k]
    BY <1>0, <1>2, FirstMatches DEF Positions, Matches
  <2>2. items' = Without(items, f)
    BY <1>0, <1>2 DEF DropKey
  <2> HIDE DEF f
  <2>3. /\ DOMAIN items' = 1 .. Len(items) - 1
        /\ \A p \in DOMAIN items' : items'[p] = items[IF p < f THEN p ELSE p + 1]
    BY <1>0, <2>1, <2>2, WithoutType
  <2>4. ASSUME NEW p \in DOMAIN items' PROVE Fold[items'[p].key] # Fold[k]
    <3> DEFINE q == IF p < f THEN p ELSE p + 1
    <3>1. q \in DOMAIN items /\ q # f /\ items'[p] = items[q]
      BY <1>0, <2>1, <2>3
    <3> HIDE DEF q
    <3> QED BY <1>0, <2>1, <3>1 DEF KeysUnique
  <2>5. Positions(items', k) = {}
    BY <2>4 DEF Positions, Matches
  <2> QED BY <2>5 DEF Find, GetObjectItem
<1> QED BY <1>1, <1>2

\* To its callers an object is a map: see MapStep.  A delete unbinds its key
\* because no earlier call has left a second child under it.
THEOREM ObjectBehavesLikeMap == Spec => ObjectIsMap
<1>1. ASSUME IInv, NEW k \in Keys PROVE MapStep(k)
  <2>0. TypeOK /\ KeysUnique
    BY <1>1 DEF IInv
  <2>1. ASSUME ByKey(k), NEW j \in Keys, ~Matches(j, k)
        PROVE  GetObjectItem(j)' = GetObjectItem(j)
    <3>1. Fold[j] # Fold[k]
      BY <2>1 DEF Matches
    <3>2. CASE ReplaceMissingScalar(k) \/ IndexByKey(k)
      BY <3>2 DEF ReplaceMissingScalar, IndexByKey, GetObjectItem
    <3>3. CASE DeleteKey(k)
      BY <2>0, <3>1, <3>3, DropKeyFinds DEF DeleteKey
    <3> QED BY <2>0, <2>1, <3>1, <3>2, <3>3, PutKeyFinds, ReplaceKeyFinds
            DEF ByKey, AddObject, AddScalar
  <2> QED BY <2>0, <2>1, PutKeyBinds, ReplaceKeyBinds, DeleteKeyUnbinds
          DEF MapStep, AddObject, AddScalar
<1>2. IInv /\ [Next]_vars => [\A k \in Keys : MapStep(k)]_vars
  BY <1>1
<1> QED BY Inductive, <1>2, PTL DEF Spec, ObjectIsMap
=============================================================================
