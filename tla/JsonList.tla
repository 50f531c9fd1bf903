------------------------------ MODULE JsonList ------------------------------
(***************************************************************************)
(* The children of a cJSON node (src/src/JsonParse/cJSON.c) as the code    *)
(* keeps them: each child has pointers to the next and the previous one,   *)
(* the node has a pointer to the first, and every call walks from there,   *)
(* one step of its loop at a time.  The module says that this implements   *)
(* ItemSequence and that it loses and frees no node it should not.         *)
(*                                                                         *)
(* One parent is modelled.  What a child holds beside its links and its    *)
(* name does not matter here; a reference made by create_reference is a    *)
(* child like any other.  Callers bring only nodes they own: new ones and  *)
(* ones that were detached.                                                *)
(***************************************************************************)
EXTENDS Integers, Sequences

CONSTANTS Items,     \* the nodes there can be
          Null,      \* the null pointer
          Keys,      \* the names of children, with NoKey among them
          NoKey,     \* a child without a name
          MaxIndex   \* bound: the indexes callers give

ASSUME NullAssumption == Null \notin Items
ASSUME NoKeyAssumption == NoKey \in Keys
ASSUME MaxIndexAssumption == MaxIndex \in Nat

VARIABLES child,     \* the parent's pointer to the first child
          next, prev, string,  \* the fields of every node
          heap,      \* the nodes that are allocated
          loose,     \* those the callers own
          pc,        \* the loop the call is in, or "idle"
          c,         \* its cursor
          which,     \* the counter of the loop by index
          i,         \* the index looked for; in the loop by key, the place
          request,   \* the call under way
          result,    \* the node the last call came to
          list       \* history: the sequence the pointers stand for

ptrs == <<child, next, prev>>
vars == <<ptrs, string, heap, loose, pc, c, which, i, request, result, list>>

NoRequest == [op |-> "none"]

Request(op, by, w, k, item) ==
    [op |-> op, by |-> by, which |-> w, key |-> k, item |-> item]

----------------------------------------------------------------------------
(* Calls.                                                                  *)

\* cJSON_New_Item: malloc and memset.
New(x) ==
    /\ pc = "idle" /\ x \notin heap
    /\ heap' = heap \cup {x} /\ loose' = loose \cup {x}
    /\ next' = [next EXCEPT ![x] = Null] /\ prev' = [prev EXCEPT ![x] = Null]
    /\ string' = [string EXCEPT ![x] = NoKey]
    /\ UNCHANGED <<child, pc, c, which, i, request, result, list>>

\* Every function starts at the first child.
Call(r, loop) ==
    /\ pc = "idle"
    /\ request' = r /\ pc' = loop /\ c' = child
    /\ which' = r.which /\ i' = r.which
    /\ UNCHANGED <<ptrs, heap, result, list>>

\* AddItemToArray and AddItemToArrayHead; AddItemToObject sets the name first.
CallAdd(op, loop) ==
    \E x \in loose, k \in Keys :
        /\ k # NoKey \/ k = string[x]
        /\ string' = [string EXCEPT ![x] = k]
        /\ loose' = loose \ {x}
        /\ Call(Request(op, "index", 0, k, x), loop)

\* GetArrayItem, DetachItemFromArray, DeleteItemFromArray.
CallByIndex(op) ==
    \E w \in -1 .. MaxIndex :
        Call(Request(op, "index", w, NoKey, Null), "index") /\ UNCHANGED <<string, loose>>

\* GetObjectItem, DetachItemFromObject, DeleteItemFromObject.
CallByKey(op) ==
    \E k \in Keys \ {NoKey} :
        Call(Request(op, "key", 0, k, Null), "key") /\ UNCHANGED <<string, loose>>

\* ReplaceItemInArray and ReplaceItemInObject.
CallReplace ==
    \E x \in loose :
        \/ \E w \in -1 .. MaxIndex :
              Call(Request("replace", "index", w, string[x], x), "index")
              /\ UNCHANGED <<string, loose>>
        \/ \E k \in Keys \ {NoKey} :
              Call(Request("replace", "key", 0, k, x), "key")
              /\ UNCHANGED <<string, loose>>

\* cJSON_Delete of a node the caller owns.
CallDelete ==
    \E x \in loose :
        /\ pc = "idle"
        /\ loose' = loose \ {x} /\ c' = x /\ pc' = "free"
        /\ UNCHANGED <<ptrs, string, heap, which, i, request, result, list>>

Return(x) == pc' = "idle" /\ request' = NoRequest /\ result' = x
             /\ UNCHANGED <<c, which, i>>

----------------------------------------------------------------------------
(* Adding.                                                                 *)

\* while (c && c->next) c = c->next
WalkLast ==
    /\ pc = "last" /\ c # Null /\ next[c] # Null
    /\ c' = next[c]
    /\ UNCHANGED <<ptrs, string, heap, loose, pc, which, i, request, result, list>>

AddItemToArray ==
    /\ pc = "last"
    /\ LET item == request.item
       IN  /\ \/ c = Null /\ child' = item /\ UNCHANGED <<next, prev>>
              \/ /\ c # Null /\ next[c] = Null       \* suffix_object
                 /\ next' = [next EXCEPT ![c] = item]
                 /\ prev' = [prev EXCEPT ![item] = c]
                 /\ UNCHANGED child
           /\ list' = Append(list, item)
           /\ Return(item)
    /\ UNCHANGED <<string, heap, loose>>

AddItemToArrayHead ==
    /\ pc = "head"
    /\ LET item == request.item
       IN  /\ child' = item
           /\ IF c = Null THEN UNCHANGED <<next, prev>>
              ELSE /\ next' = [next EXCEPT ![item] = c]
                   /\ prev' = [prev EXCEPT ![item] = prev[c], ![c] = item]
           /\ list' = <<item>> \o list
           /\ Return(item)
    /\ UNCHANGED <<string, heap, loose>>

----------------------------------------------------------------------------
(* Finding.                                                                *)

\* while (c && which > 0) c = c->next, which--
WalkIndex ==
    /\ pc = "index" /\ c # Null /\ which > 0
    /\ c' = next[c] /\ which' = which - 1
    /\ UNCHANGED <<ptrs, string, heap, loose, pc, i, request, result, list>>

\* while (c && cJSON_strcasecmp(c->string, string)) i++, c = c->next
WalkKey ==
    /\ pc = "key" /\ c # Null /\ string[c] # request.key
    /\ c' = next[c] /\ i' = i + 1
    /\ UNCHANGED <<ptrs, string, heap, loose, pc, which, request, result, list>>

\* A plausible slip, for comparison: the place is counted from one.
KeyFoundFromOne ==
    /\ pc = "key" /\ c # Null /\ string[c] = request.key
    /\ request.op # "get"
    /\ pc' = "index" /\ c' = child /\ which' = i + 1
    /\ string' = IF request.op = "replace"
                 THEN [string EXCEPT ![request.item] = request.key] ELSE string
    /\ UNCHANGED <<ptrs, heap, loose, i, request, result, list>>

\* Detach and Replace by key go on by index, from the first child again;
\* Replace has named the new child by then.
KeyFound ==
    /\ pc = "key" /\ c # Null /\ string[c] = request.key
    /\ request.op # "get"
    /\ pc' = "index" /\ c' = child /\ which' = i
    /\ string' = IF request.op = "replace"
                 THEN [string EXCEPT ![request.item] = request.key] ELSE string
    /\ UNCHANGED <<ptrs, heap, loose, i, request, result, list>>

\* The cursor ran off the end: nothing is done, and a node that was brought
\* stays with the caller.
NotThere ==
    /\ pc \in {"index", "key"} /\ c = Null
    /\ Return(Null)
    /\ UNCHANGED <<ptrs, string, heap, loose, list>>

AtIndex == pc = "index" /\ c # Null /\ ~(which > 0)

Get ==
    /\ AtIndex \/ (pc = "key" /\ c # Null /\ string[c] = request.key)
    /\ request.op = "get"
    /\ Return(c)
    /\ UNCHANGED <<ptrs, string, heap, loose, list>>

----------------------------------------------------------------------------
(* Taking out.                                                             *)

\* A plausible slip, for comparison: the node keeps its links.
UnlinkKeepsLinks ==
    /\ next' = [x \in Items |-> IF prev[c] = x THEN next[c] ELSE next[x]]
    /\ prev' = [x \in Items |-> IF next[c] = x THEN prev[c] ELSE prev[x]]
    /\ child' = IF c = child THEN next[c] ELSE child

\* The neighbours are joined and the node's links reset.
Unlink ==
    /\ next' = [x \in Items |-> IF x = c THEN Null
                                ELSE IF prev[c] = x THEN next[c] ELSE next[x]]
    /\ prev' = [x \in Items |-> IF x = c THEN Null
                                ELSE IF next[c] = x THEN prev[c] ELSE prev[x]]
    /\ child' = IF c = child THEN next[c] ELSE child

\* What is left of the sequence.
PlaceOf(x) == CHOOSE p \in DOMAIN list : list[p] = x
Without(p) == [q \in 1 .. Len(list) - 1 |-> list[IF q < p THEN q ELSE q + 1]]

\* A plausible slip, for comparison: the caller's node is freed as well.
DetachAndDelete ==
    /\ AtIndex /\ request.op \in {"detach", "delete"}
    /\ Unlink
    /\ list' = Without(PlaceOf(c))
    /\ request' = NoRequest /\ result' = c
    /\ loose' = IF request.op = "detach" THEN loose \cup {c} ELSE loose
    /\ pc' = "free"
    /\ UNCHANGED <<string, heap, c, which, i>>

\* DetachItemFromArray gives the node to the caller, DeleteItemFromArray to
\* cJSON_Delete.
DetachItemFromArray ==
    /\ AtIndex /\ request.op \in {"detach", "delete"}
    /\ Unlink
    /\ list' = Without(PlaceOf(c))
    /\ request' = NoRequest /\ result' = c
    /\ IF request.op = "detach" THEN loose' = loose \cup {c} /\ pc' = "idle"
       ELSE UNCHANGED loose /\ pc' = "free"
    /\ UNCHANGED <<string, heap, c, which, i>>

\* A plausible slip, for comparison: the node after the old one still points
\* back to it.
RelinkForwardOnly(item) ==
    /\ next' = [x \in Items |-> IF x = c THEN Null ELSE IF x = item THEN next[c]
                                ELSE IF x = prev[c] THEN item ELSE next[x]]
    /\ prev' = [x \in Items |-> IF x = c THEN Null ELSE IF x = item THEN prev[c]
                                ELSE prev[x]]
    /\ child' = IF c = child THEN item ELSE child

\* The new node takes the old one's place and the old one's links are reset.
Relink(item) ==
    /\ next' = [x \in Items |-> IF x = c THEN Null ELSE IF x = item THEN next[c]
                                ELSE IF x = prev[c] THEN item ELSE next[x]]
    /\ prev' = [x \in Items |-> IF x = c THEN Null ELSE IF x = item THEN prev[c]
                                ELSE IF x = next[c] THEN item ELSE prev[x]]
    /\ child' = IF c = child THEN item ELSE child

ReplaceItemInArray ==
    /\ AtIndex /\ request.op = "replace"
    /\ Relink(request.item)
    /\ list' = [p \in DOMAIN list |-> IF list[p] = c THEN request.item ELSE list[p]]
    /\ loose' = loose \ {request.item}
    /\ request' = NoRequest /\ result' = c /\ pc' = "free"
    /\ UNCHANGED <<string, heap, c, which, i>>

\* A plausible slip, for comparison: the loop does not advance.
DeleteStays ==
    /\ pc = "free"
    /\ heap' = heap \ {c}
    /\ UNCHANGED <<ptrs, string, loose, pc, c, which, i, request, result, list>>

\* cJSON_Delete frees the node and every node its next pointers lead to.
Delete ==
    /\ pc = "free"
    /\ heap' = heap \ {c}
    /\ c' = next[c]
    /\ pc' = IF next[c] = Null THEN "idle" ELSE "free"
    /\ UNCHANGED <<ptrs, string, loose, which, i, request, result, list>>

----------------------------------------------------------------------------
Init ==
    /\ child = Null
    /\ next = [x \in Items |-> Null] /\ prev = [x \in Items |-> Null]
    /\ string = [x \in Items |-> NoKey]
    /\ heap = {} /\ loose = {}
    /\ pc = "idle" /\ c = Null /\ which = 0 /\ i = 0
    /\ request = NoRequest /\ result = Null /\ list = <<>>

Begin ==
    \/ \E x \in Items : New(x)
    \/ CallAdd("append", "last") \/ CallAdd("prepend", "head")
    \/ \E op \in {"get", "detach", "delete"} : CallByIndex(op) \/ CallByKey(op)
    \/ CallReplace \/ CallDelete

Step ==
    \/ WalkLast \/ AddItemToArray \/ AddItemToArrayHead
    \/ WalkIndex \/ WalkKey \/ KeyFound \/ NotThere \/ Get
    \/ DetachItemFromArray \/ ReplaceItemInArray \/ Delete

Next == Begin \/ Step

\* A call that was made goes on: the thread that made it runs.
Spec == Init /\ [][Next]_vars /\ WF_vars(Step)

----------------------------------------------------------------------------
(* Properties.                                                             *)

\* The nodes in the list, the node at a place, and the one a call holds.
Listed == {list[p] : p \in DOMAIN list}
At(p) == IF p \in DOMAIN list THEN list[p] ELSE Null

InHand == IF pc \in {"last", "head"} THEN {request.item}
          ELSE IF pc = "free" THEN {c} ELSE {}

\* Links are nodes or null, callers own allocated nodes, and a request is
\* there exactly while a call has not come to its result.
TypeOK ==
    /\ child \in Items \cup {Null}
    /\ next \in [Items -> Items \cup {Null}] /\ prev \in [Items -> Items \cup {Null}]
    /\ string \in [Items -> Keys]
    /\ heap \subseteq Items /\ loose \subseteq heap
    /\ pc \in {"idle", "last", "head", "index", "key", "free"}
    /\ c \in Items \cup {Null} /\ which \in Int /\ i \in Int
    /\ (request = NoRequest) = (pc \in {"idle", "free"})
    /\ result \in Items \cup {Null}
    /\ list \in Seq(Items)

\* The pointers stand for the sequence, forwards and backwards, and a node
\* the caller owns points to nothing, so that it can be added anywhere.
Linked ==
    /\ child = At(1)
    /\ \A p \in DOMAIN list : next[list[p]] = At(p + 1) /\ prev[list[p]] = At(p - 1)
    /\ \A x \in loose : next[x] = Null /\ prev[x] = Null

\* Every allocated node has one owner: it is in the list once, or the
\* callers', or in the hands of the call under way.  So nothing in the list
\* has been freed and nothing is lost.
OneOwner ==
    /\ heap = loose \cup Listed \cup InHand
    /\ \A p, q \in DOMAIN list : list[p] = list[q] => p = q
    /\ Listed \cap loose = {} /\ InHand \cap (Listed \cup loose) = {}

\* Every call returns: no loop over the list goes on for ever.
CallsReturn == (pc # "idle") ~> (pc = "idle")

\* The calls are those of a sequence.
Sequence == INSTANCE ItemSequence WITH
    children <- [p \in DOMAIN list |-> [node |-> list[p], key |-> string[list[p]]]]

ImplementsSequence == Sequence!Spec

=============================================================================
