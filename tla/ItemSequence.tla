---------------------------- MODULE ItemSequence ----------------------------
(***************************************************************************)
(* What the list functions of cJSON (src/src/JsonParse/cJSON.c) promise:   *)
(* the children of a node are a sequence, a call names a place in it by    *)
(* index or by key, and takes effect once, at that place.                  *)
(***************************************************************************)
EXTENDS Integers, Sequences

CONSTANTS Items,   \* the nodes there can be
          Null,    \* no node
          Keys     \* the names of children, with that of an array's item

VARIABLES children, \* the nodes in order, each with its name
          request,  \* the call under way, or NoRequest
          result    \* the node the last call came to

seqVars == <<children, request, result>>

\* A call: what it does, whether it names the place by index or by key, the
\* index, the key (of the new child, if it brings one) and the node it brings.
NoRequest == [op |-> "none"]
Requests == [op : {"append", "prepend", "get", "detach", "delete", "replace"},
             by : {"index", "key"}, which : Int, key : Keys, item : Items \cup {Null}]

Child(r) == [node |-> r.item, key |-> r.key]

\* The place a call names, past the end if there is none.  A negative index
\* is the first place.
Named(k) == {p \in DOMAIN children : children[p].key = k}
Place(r) ==
    IF r.by = "index" THEN IF r.which < 0 THEN 1 ELSE r.which + 1
    ELSE IF Named(r.key) = {} THEN Len(children) + 1
    ELSE CHOOSE p \in Named(r.key) : \A q \in Named(r.key) : p <= q

There == Place(request) \in DOMAIN children
Found == IF There THEN children[Place(request)].node ELSE Null

Without(p) ==
    [q \in 1 .. Len(children) - 1 |-> children[IF q < p THEN q ELSE q + 1]]

----------------------------------------------------------------------------
Begin ==
    /\ request = NoRequest
    /\ request' \in Requests
    /\ UNCHANGED <<children, result>>

Done(node) == request' = NoRequest /\ result' = node

AtEnd ==
    /\ request.op = "append"
    /\ children' = Append(children, Child(request))
    /\ Done(request.item)

AtHead ==
    /\ request.op = "prepend"
    /\ children' = <<Child(request)>> \o children
    /\ Done(request.item)

Get ==
    /\ request.op = "get"
    /\ UNCHANGED children
    /\ Done(Found)

TakeOut ==
    /\ request.op \in {"detach", "delete"}
    /\ children' = IF There THEN Without(Place(request)) ELSE children
    /\ Done(Found)

Replace ==
    /\ request.op = "replace"
    /\ children' = IF There THEN [children EXCEPT ![Place(request)] = Child(request)]
                   ELSE children
    /\ Done(Found)

Init == children = <<>> /\ request = NoRequest /\ result = Null

Next == Begin \/ AtEnd \/ AtHead \/ Get \/ TakeOut \/ Replace

Spec == Init /\ [][Next]_seqVars
=============================================================================
