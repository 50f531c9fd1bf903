---------------------------- MODULE CJsonObject ----------------------------
(***************************************************************************)
(* CJsonObject (src/src/JsonParse/CJsonObject.cpp) wraps a cJSON tree and  *)
(* keeps three things beside it: the wrappers operator[] has handed out,   *)
(* one map by key and one by index, and the cursor of GetKey.  Every       *)
(* operation that changes the tree has to bring these up to date by hand.  *)
(*                                                                         *)
(* One root wrapper is modelled, with the children of its node; what is    *)
(* below a child is reached through a wrapper of its own and is left out.  *)
(* Calls are sequential, as in the code, which has no locks.  A child is   *)
(* an identity with the key it is stored under; a new child never has the  *)
(* identity of one that some pointer still names (an allocator may reuse   *)
(* the address: that would only hide a wrong pointer).                     *)
(*                                                                         *)
(* The C++ overloads of one operation differ in what they evict.  Those    *)
(* that take a CJsonObject are named ...Object, those that take a string,  *)
(* a number or a Boolean, and AddEmptySub..., are named ...Scalar.         *)
(***************************************************************************)
EXTENDS Integers, Sequences, FiniteSets

CONSTANTS Keys,      \* the spellings of keys the callers use
          Fold,      \* a spelling's letters whatever their case
          MaxKeys,   \* bound: children of an object
          MaxItems,  \* bound: items of an array
          MaxNodes   \* bound: children that exist or are still pointed to

ASSUME FoldAssumption == DOMAIN Fold = Keys
ASSUME MaxAssumption ==
    /\ MaxKeys \in Nat /\ MaxItems \in Nat /\ MaxNodes \in Nat
    /\ MaxKeys <= MaxNodes /\ MaxItems <= MaxNodes

Null  == 0
Root  == -1                   \* m_pKeyTravers at the root's own node
Blank == -1                   \* a cached wrapper with no node at all
NoKey == "array item"

ASSUME KeyAssumption == NoKey \notin Keys

Nodes   == 1 .. MaxNodes
Indexes == 0 .. MaxItems      \* the last is never in the array
Items   == [key : Keys \cup {NoKey}, node : Nodes]

VARIABLES type,               \* the root's node: none, an object or an array
          items,              \* its children in order
          m_mapJsonObjectRef, \* the wrapper cached for each spelling
          m_mapJsonArrayRef,  \* the wrapper cached for each index
          m_pKeyTravers,      \* where GetKey goes on
          \* The rest is history, about what the callers did:
          aliased,            \* spellings whose cached wrapper a call left behind
          shifted,            \* indexes whose cached wrapper a call left behind
          visited,            \* keys GetKey returned in this enumeration
          cut,                \* Replace freed the child GetKey is to return
          doubled             \* the text that was parsed has a key twice

caches  == <<m_mapJsonObjectRef, m_mapJsonArrayRef, aliased, shifted>>
keySide == <<m_mapJsonObjectRef, aliased>>
idxSide == <<m_mapJsonArrayRef, shifted>>
cursor  == <<m_pKeyTravers, visited, cut>>
vars    == <<type, items, caches, cursor, doubled>>

----------------------------------------------------------------------------
\* A plausible slip, for comparison: keys are compared with their case.
MatchesExactly(a, b) == a = b

\* cJSON_strcasecmp.
Matches(a, b) == Fold[a] = Fold[b]

Positions(children, k) == {i \in DOMAIN children : Matches(children[i].key, k)}
First(children, k) ==
    CHOOSE i \in Positions(children, k) :
        \A j \in Positions(children, k) : i <= j

\* cJSON_GetObjectItem.
Find(children, k) ==
    IF Positions(children, k) = {} THEN Null
    ELSE children[First(children, k)].node

\* The searches as operator[] makes them.
GetObjectItem(k) == IF type = "object" THEN Find(items, k) ELSE Null
GetArrayItem(i) ==
    IF type = "array" /\ i < Len(items) THEN items[i + 1].node ELSE Null

\* What operator[] wraps: the node, or nothing.
Wrapped(node) == IF node = Null THEN Blank ELSE node

\* The identity a new child gets.
InUse == {items[i].node : i \in DOMAIN items} \cup {m_pKeyTravers}
         \cup {m_mapJsonObjectRef[k] : k \in Keys}
         \cup {m_mapJsonArrayRef[i] : i \in Indexes}
Fresh == {n \in Nodes \ InUse : \A m \in Nodes \ InUse : n <= m}

CachedKeys    == {k \in Keys : m_mapJsonObjectRef[k] # Null}
CachedIndexes == {i \in Indexes : m_mapJsonArrayRef[i] # Null}
Spellings(k)  == {j \in CachedKeys : Fold[j] = Fold[k]}

----------------------------------------------------------------------------
(* The caches and the cursor.                                              *)

\* A plausible slip, for comparison: the wrapper of the key is kept.
EvictKeyForgotten(k) ==
    /\ UNCHANGED m_mapJsonObjectRef
    /\ aliased' = (aliased \cup Spellings(k)) \ {k}

\* The wrapper cached for this spelling goes, those of the others stay.
EvictKey(k) ==
    /\ m_mapJsonObjectRef' = [m_mapJsonObjectRef EXCEPT ![k] = Null]
    /\ aliased' = (aliased \cup Spellings(k)) \ {k}

\* A plausible slip, for comparison: the wrapper at the index itself stays.
EvictIndexesAfter(first) ==
    /\ m_mapJsonArrayRef' = [i \in Indexes |->
          IF i > first THEN Null ELSE m_mapJsonArrayRef[i]]
    /\ shifted' = {i \in shifted : i < first}

\* The loops that erase every wrapper at an index or after it.
EvictIndexesFrom(first) ==
    /\ m_mapJsonArrayRef' = [i \in Indexes |->
          IF i >= first THEN Null ELSE m_mapJsonArrayRef[i]]
    /\ shifted' = {i \in shifted : i < first}

EvictIndex(i) ==
    /\ m_mapJsonArrayRef' = [m_mapJsonArrayRef EXCEPT ![i] = Null]
    /\ shifted' = shifted \ {i}

\* The calls that evict nothing leave the wrappers at these indexes behind.
LeaveBehind(indexes) ==
    /\ UNCHANGED m_mapJsonArrayRef
    /\ shifted' = shifted \cup (indexes \cap CachedIndexes)

Rewind(at) == m_pKeyTravers' = at /\ visited' = 0 /\ cut' = FALSE

----------------------------------------------------------------------------
(* Objects.                                                                *)

\* What every Add(key, ...) does to the tree; it refuses a key it has.
PutKey(k) ==
    /\ type \in {"none", "object"}
    /\ GetObjectItem(k) = Null
    /\ Len(items) < MaxKeys
    /\ \E n \in Fresh : items' = Append(items, [key |-> k, node |-> n])
    /\ type' = "object"
    /\ Rewind(Root)
    /\ UNCHANGED <<idxSide, doubled>>

AddObject(k) == PutKey(k) /\ EvictKey(k)

AddScalar(k) ==
    /\ PutKey(k)
    /\ UNCHANGED m_mapJsonObjectRef
    /\ aliased' = aliased \cup Spellings(k)

\* An Add or AddAsFirst of an empty CJsonObject has made the root before it
\* finds that there is nothing to parse.
AddNothing(t) ==
    /\ type = "none"
    /\ type' = t
    /\ IF t = "object" THEN Rewind(Root) ELSE UNCHANGED cursor
    /\ UNCHANGED <<items, caches, doubled>>

\* cJSON_DetachItemFromArray, whose item is then deleted.
Without(children, i) ==
    [j \in 1 .. Len(children) - 1 |-> children[IF j < i THEN j ELSE j + 1]]

\* cJSON_DeleteItemFromObject.
DropKey(k) ==
    items' = IF Positions(items, k) = {} THEN items
             ELSE Without(items, First(items, k))

\* A plausible slip, for comparison: an enumeration goes on over the removal.
DeleteKeyInPassing(k) ==
    /\ type = "object"
    /\ DropKey(k)
    /\ EvictKey(k)
    /\ UNCHANGED <<type, idxSide, cursor, doubled>>

\* Delete(key) also evicts and rewinds when there is no such key.
DeleteKey(k) ==
    /\ type = "object"
    /\ DropKey(k)
    /\ EvictKey(k)
    /\ Rewind(Root)
    /\ UNCHANGED <<type, idxSide, doubled>>

\* Replace(key, ...) stores the new spelling with the new node and leaves
\* the cursor where it is, also on the node that is freed.
ReplaceKey(k) ==
    /\ type = "object"
    /\ Positions(items, k) # {}
    /\ \E n \in Fresh :
          items' = [items EXCEPT ![First(items, k)] = [key |-> k, node |-> n]]
    /\ EvictKey(k)
    /\ cut' = (cut \/ m_pKeyTravers = Find(items, k))
    /\ UNCHANGED <<type, idxSide, m_pKeyTravers, visited, doubled>>

\* With a scalar the wrapper is evicted before the key is looked for.
ReplaceMissingScalar(k) ==
    /\ type = "object"
    /\ Positions(items, k) = {}
    /\ m_mapJsonObjectRef' = [m_mapJsonObjectRef EXCEPT ![k] = Null]
    /\ aliased' = aliased \ {k}
    /\ UNCHANGED <<type, items, idxSide, cursor, doubled>>

\* operator[](key) caches what it finds, also that it finds nothing.
IndexByKey(k) ==
    /\ m_mapJsonObjectRef[k] = Null
    /\ m_mapJsonObjectRef' = [m_mapJsonObjectRef EXCEPT ![k] = Wrapped(GetObjectItem(k))]
    /\ UNCHANGED <<type, items, aliased, idxSide, cursor, doubled>>

\* The child after position p.
NextOf(p) == IF p < Len(items) THEN items[p + 1].node ELSE Null

\* The position of the cursor: 0 at the root's node, which GetKey treats as
\* standing before the first child.
CursorAt == IF m_pKeyTravers = Root THEN 0
            ELSE CHOOSE p \in DOMAIN items : items[p].node = m_pKeyTravers

\* GetKey.  After Replace has cut the enumeration it reads freed memory.
GetKey ==
    /\ type # "array"
    /\ ~cut
    /\ \/ /\ m_pKeyTravers = Null /\ type # "none"
          /\ Rewind(Root)
       \/ /\ m_pKeyTravers = Root /\ items # <<>>
          /\ m_pKeyTravers' = NextOf(1) /\ visited' = 1 /\ UNCHANGED cut
       \/ /\ m_pKeyTravers \in Nodes
          /\ m_pKeyTravers' = NextOf(CursorAt) /\ visited' = visited + 1
          /\ UNCHANGED cut
    /\ UNCHANGED <<type, items, caches, doubled>>

ResetTraversing ==
    /\ Rewind(IF type = "none" THEN Null ELSE Root)
    /\ UNCHANGED <<type, items, caches, doubled>>

----------------------------------------------------------------------------
(* Arrays.                                                                 *)

\* What every Add(...) and AddAsFirst(...) does to the tree.
PutItem(children) ==
    /\ type \in {"none", "array"}
    /\ Len(items) < MaxItems
    /\ type' = "array"
    /\ items' = children
    /\ UNCHANGED <<keySide, cursor, doubled>>

\* Add(...): an object evicts from the index it is at, a scalar nothing.
AddItem(n) ==
    /\ PutItem(Append(items, [key |-> NoKey, node |-> n]))
    /\ EvictIndexesFrom(Len(items)) \/ LeaveBehind({Len(items)})

\* AddAsFirst(...): every item moves.
AddAsFirst(n) ==
    /\ PutItem(<<[key |-> NoKey, node |-> n]>> \o items)
    /\ EvictIndexesFrom(0) \/ LeaveBehind(Indexes)

\* Delete(iWhich).  The list takes a negative index for the first item, the
\* cache for a very large one.
DeleteItem(iWhich) ==
    /\ type = "array"
    /\ IF iWhich < 0
       THEN /\ items' = IF items = <<>> THEN items ELSE Without(items, 1)
            /\ LeaveBehind(Indexes)
       ELSE /\ items' = IF iWhich < Len(items) THEN Without(items, iWhich + 1) ELSE items
            /\ EvictIndexesFrom(iWhich)
    /\ UNCHANGED <<type, keySide, cursor, doubled>>

\* Replace(iWhich, ...) of an item that exists.
ReplaceItem(iWhich) ==
    LET at == IF iWhich < 0 THEN 0 ELSE iWhich
    IN  /\ type = "array"
        /\ at < Len(items)
        /\ \E n \in Fresh : items' = [items EXCEPT ![at + 1].node = n]
        /\ IF iWhich < 0 THEN LeaveBehind({0}) ELSE EvictIndex(at)
        /\ UNCHANGED <<type, keySide, cursor, doubled>>

ReplaceMissingItem(iWhich) ==
    /\ type = "array"
    /\ iWhich >= Len(items)
    /\ EvictIndex(iWhich)
    /\ UNCHANGED <<type, items, keySide, cursor, doubled>>

\* operator[](uiWhich).
IndexByPosition(i) ==
    /\ m_mapJsonArrayRef[i] = Null
    /\ m_mapJsonArrayRef' = [m_mapJsonArrayRef EXCEPT ![i] = Wrapped(GetArrayItem(i))]
    /\ UNCHANGED <<type, items, shifted, keySide, cursor, doubled>>

----------------------------------------------------------------------------
(* The whole tree.                                                         *)

\* A plausible slip, for comparison: Clear leaves the cursor.
ClearKeepsTravers(at) ==
    /\ m_mapJsonObjectRef' = [k \in Keys |-> Null]
    /\ m_mapJsonArrayRef' = [i \in Indexes |-> Null]
    /\ aliased' = {} /\ shifted' = {}
    /\ IF at = Null THEN UNCHANGED cursor ELSE Rewind(at)

\* Clear, and the cursor as the caller of Clear sets it.
DropAll(at) ==
    /\ m_mapJsonObjectRef' = [k \in Keys |-> Null]
    /\ m_mapJsonArrayRef' = [i \in Indexes |-> Null]
    /\ aliased' = {} /\ shifted' = {}
    /\ Rewind(at)

\* Clear, or a Parse that fails after its Clear.
Clear ==
    /\ DropAll(Null)
    /\ type' = "none" /\ items' = <<>> /\ doubled' = FALSE

HasDouble(text) ==
    \E i, j \in DOMAIN text : i # j /\ Fold[text[i]] = Fold[text[j]]

\* Parse, and operator=, of an object with these keys; the parser keeps a
\* key that comes twice.
ParseObject(text) ==
    /\ DropAll(Root)
    /\ type' = "object"
    /\ items' = [i \in DOMAIN text |-> [key |-> text[i], node |-> i]]
    /\ doubled' = HasDouble(text)

ParseArray(size) ==
    /\ DropAll(Root)
    /\ type' = "array"
    /\ items' = [i \in 1 .. size |-> [key |-> NoKey, node |-> i]]
    /\ doubled' = FALSE

----------------------------------------------------------------------------
Init ==
    /\ type = "none" /\ items = <<>>
    /\ m_mapJsonObjectRef = [k \in Keys |-> Null]
    /\ m_mapJsonArrayRef = [i \in Indexes |-> Null]
    /\ m_pKeyTravers = Null
    /\ aliased = {} /\ shifted = {} /\ visited = 0
    /\ cut = FALSE /\ doubled = FALSE

ByKey(k) ==
    \/ AddObject(k) \/ AddScalar(k) \/ DeleteKey(k) \/ ReplaceKey(k)
    \/ ReplaceMissingScalar(k) \/ IndexByKey(k)

ByIndex ==
    \/ \E n \in Fresh : AddItem(n) \/ AddAsFirst(n)
    \/ \E i \in Indexes \cup {-1} : DeleteItem(i) \/ ReplaceItem(i)
    \/ \E i \in Indexes : ReplaceMissingItem(i) \/ IndexByPosition(i)

OfAll ==
    \/ GetKey \/ ResetTraversing \/ Clear
    \/ \E t \in {"object", "array"} : AddNothing(t)
    \/ \E size \in 0 .. MaxItems : ParseArray(size)
    \/ \E size \in 0 .. MaxKeys : \E text \in [1 .. size -> Keys] : ParseObject(text)

Next == (\E k \in Keys : ByKey(k)) \/ ByIndex \/ OfAll

Spec == Init /\ [][Next]_vars

----------------------------------------------------------------------------
(* Properties.                                                             *)

\* A wrapper wraps a child of an object, which has a key, or of an array,
\* which has none, and one that wraps nothing has neither children nor a
\* cursor.
TypeOK ==
    /\ type \in {"none", "object", "array"}
    /\ items \in Seq(Items)
    /\ Len(items) <= IF type = "object" THEN MaxKeys ELSE MaxItems
    /\ \A i \in DOMAIN items : (items[i].key = NoKey) = (type = "array")
    /\ m_mapJsonObjectRef \in [Keys -> Nodes \cup {Null, Blank}]
    /\ m_mapJsonArrayRef \in [Indexes -> Nodes \cup {Null, Blank}]
    /\ m_pKeyTravers \in Nodes \cup {Null, Root}
    /\ aliased \subseteq CachedKeys /\ shifted \subseteq CachedIndexes
    /\ visited \in Nat /\ cut \in BOOLEAN /\ doubled \in BOOLEAN
    /\ type = "none" => items = <<>> /\ m_pKeyTravers = Null

\* The wrapper operator[] has cached for a spelling wraps the child that a
\* new search would find, or nothing if there is none, through any sequence
\* of calls.  Two gaps of the code are excepted by what the caller did: it
\* changed the key under another spelling, which the search takes for the
\* same and the map does not, or it gave a scalar to a key that operator[]
\* had already found missing.
KeyCacheRight ==
    \A k \in CachedKeys \ aliased :
        m_mapJsonObjectRef[k] = Wrapped(GetObjectItem(k))

\* The same for indexes.  Excepted are the items that a scalar Add or
\* AddAsFirst or a negative index moved, where the code evicts nothing.
IndexCacheRight ==
    \A i \in CachedIndexes \ shifted :
        m_mapJsonArrayRef[i] = Wrapped(GetArrayItem(i))

\* No two children of an object have keys that a search takes for the same,
\* whatever the order of Add, Replace and Delete, unless the text that was
\* parsed had a key twice already.
KeysUnique ==
    type = "object" /\ ~doubled =>
        \A i, j \in DOMAIN items :
            Fold[items[i].key] = Fold[items[j].key] => i = j

\* GetKey enumerates the children in order, none twice and none left out:
\* the cursor stands behind as many children as it has returned since it was
\* last at the root, and Add and Delete start it again.  Only a Replace of
\* the very child that comes next takes the cursor away.
TraversalInOrder ==
    type = "object" /\ ~cut =>
        /\ m_pKeyTravers = Root => visited = 0
        /\ m_pKeyTravers = Null => visited = Len(items)
        /\ m_pKeyTravers \in Nodes =>
              visited + 1 \in DOMAIN items /\ items[visited + 1].node = m_pKeyTravers

=============================================================================
