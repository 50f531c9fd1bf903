--------------------------- MODULE JsonList_proofs ---------------------------
(***************************************************************************)
(* The pointers of a cJSON list stand for a sequence, every node has one   *)
(* owner, and the calls are those of ItemSequence: for any set of nodes,   *)
(* of names and of indexes.  What makes the invariant inductive is where   *)
(* the cursor of a loop stands (Looking): the loop invariants.  Nothing    *)
(* freed is reached, and every call comes to an end.                       *)
(***************************************************************************)
EXTENDS JsonList, SequenceTheorems, TLAPS

\* What a call under way was asked.
Asked ==
    /\ pc \in {"last", "head", "index", "key"} => request \in Sequence!Requests
    /\ pc \in {"last", "head"} =>
          /\ request.op = IF pc = "last" THEN "append" ELSE "prepend"
          /\ request.item \in Items
          /\ string[request.item] = request.key
          /\ next[request.item] = Null /\ prev[request.item] = Null
    /\ pc \in {"index", "key"} =>
          /\ request.op \in {"get", "detach", "delete", "replace"}
          /\ request.op = "replace" =>
                /\ request.item \in loose
                /\ pc = "index" => string[request.item] = request.key
    /\ pc = "free" => c \in Items /\ next[c] = Null

\* No child before place p has the name that is looked for.
NotBefore(p) == \A q \in DOMAIN list : q < p => string[list[q]] # request.key

\* Where the cursor stands.
Looking ==
    /\ pc = "last" => (c = Null /\ list = <<>>) \/ (\E p \in DOMAIN list : c = list[p])
    /\ pc = "head" => c = child
    /\ pc = "index" =>
          /\ IF i < 0 THEN which = i /\ c = At(1)
             ELSE which \in 0 .. i /\ c = At(i - which + 1)
          /\ IF request.by = "index" THEN i = request.which
             ELSE /\ i + 1 \in DOMAIN list /\ i >= 0
                  /\ string[list[i + 1]] = request.key /\ NotBefore(i + 1)
    /\ pc = "key" =>
          /\ request.by = "key" /\ i \in Nat /\ c = At(i + 1) /\ NotBefore(i + 1)

IInv == TypeOK /\ Linked /\ OneOwner /\ Asked /\ Looking

----------------------------------------------------------------------------
(* The cursor at the place a call names.                                   *)

\* A place in the sequence, the node there and its neighbours.
LEMMA Places ==
    ASSUME TypeOK
    PROVE  /\ list \in Seq(Items) /\ Len(list) \in Nat /\ DOMAIN list = 1 .. Len(list)
           /\ \A p \in DOMAIN list : list[p] \in Items
           /\ \A p \in Int : At(p) \in Items \cup {Null}
           /\ \A p \in Int : At(p) # Null <=> p \in DOMAIN list
<1>1. list \in Seq(Items) /\ Len(list) \in Nat /\ DOMAIN list = 1 .. Len(list)
  BY DEF TypeOK
<1>2. \A p \in DOMAIN list : list[p] \in Items
  BY <1>1
<1> QED BY <1>1, <1>2, NullAssumption DEF At

\* When a loop by index has ended on a node, the node is the one at the
\* place the call names.
LEMMA AtPlace ==
    ASSUME IInv, AtIndex
    PROVE  LET p == IF i < 0 THEN 1 ELSE i + 1
           IN  p \in DOMAIN list /\ c = list[p] /\ p = Sequence!Place(request)
<1> DEFINE p == IF i < 0 THEN 1 ELSE i + 1
<1>1. i \in Int /\ which \in Int /\ pc = "index" /\ c # Null /\ ~(which > 0)
  BY DEF IInv, TypeOK, AtIndex
<1>2. c = At(p)
  BY <1>1 DEF IInv, Looking
<1>3. p \in DOMAIN list /\ c = list[p]
  BY <1>1, <1>2 DEF At
<1>4. p = Sequence!Place(request)
  <2>1. CASE request.by = "index"
    BY <1>1, <2>1 DEF IInv, Looking, Sequence!Place
  <2>2. CASE request.by # "index"
    <3>1. i + 1 \in DOMAIN list /\ i >= 0 /\ p = i + 1
          /\ string[list[i + 1]] = request.key /\ NotBefore(i + 1)
      BY <1>1, <2>2 DEF IInv, Looking
    <3>2. p \in Sequence!Named(request.key)
      BY <3>1 DEF Sequence!Named
    <3>3. \A q \in Sequence!Named(request.key) : q \in DOMAIN list /\ string[list[q]] = request.key
      BY DEF Sequence!Named
    <3>4. DOMAIN list = 1 .. Len(list) /\ Len(list) \in Nat
      BY Places DEF IInv
    <3>5. \A q \in Sequence!Named(request.key) : p <= q /\ q \in Nat
      BY <1>1, <3>1, <3>3, <3>4 DEF NotBefore
    <3>6. \A x : x \in Sequence!Named(request.key) /\ (\A q \in Sequence!Named(request.key) : x <= q)
                    => x = p
      BY <3>2, <3>5, <3>1, <3>4
    <3> HIDE DEF p
    <3>7. p = CHOOSE x \in Sequence!Named(request.key) : \A q \in Sequence!Named(request.key) : x <= q
      BY <3>2, <3>5, <3>6
    <3> QED BY <2>2, <3>2, <3>7 DEF Sequence!Place
  <2> QED BY <2>1, <2>2
<1> QED BY <1>3, <1>4

----------------------------------------------------------------------------
(* Steps that leave the list alone.                                        *)

LEMMA LinkedKept ==
    ASSUME Linked, UNCHANGED <<ptrs, list>>, loose' \subseteq loose
    PROVE  Linked'
BY DEF Linked, ptrs, At

\* A node made by malloc and memset is the caller's.
LEMMA NewStep == ASSUME IInv, NEW x \in Items, New(x) PROVE IInv'
<1>1. pc = "idle" /\ pc' = "idle" /\ x \notin heap /\ UNCHANGED <<child, c, which, i, request, result, list>>
  BY DEF New
<1>2. TypeOK'
  BY <1>1, NoKeyAssumption DEF IInv, TypeOK, New
<1>3. x \notin Listed /\ x \notin loose
  BY <1>1 DEF IInv, OneOwner, TypeOK
<1>4. Linked'
  <2>1. \A p \in DOMAIN list : list[p] # x /\ list[p] \in Items
    BY <1>3, Places DEF Listed, IInv
  <2>2. \A p \in DOMAIN list : next'[list[p]] = next[list[p]] /\ prev'[list[p]] = prev[list[p]]
    BY <2>1 DEF New, IInv, TypeOK
  <2>3. \A y \in loose' : next'[y] = Null /\ prev'[y] = Null
    BY DEF New, IInv, TypeOK, Linked
  <2> QED BY <1>1, <2>2, <2>3 DEF IInv, Linked, At
<1>5. OneOwner'
  BY <1>1, <1>3 DEF IInv, OneOwner, Listed, InHand, New
<1>6. Asked' /\ Looking'
  BY <1>1 DEF Asked, Looking
<1> QED BY <1>2, <1>4, <1>5, <1>6 DEF IInv

\* The calls that add.
LEMMA CallAddStep ==
    ASSUME IInv, NEW op, NEW loop,
           <<op, loop>> \in {<<"append", "last">>, <<"prepend", "head">>},
           CallAdd(op, loop)
    PROVE  IInv'
<1>1. PICK x \in loose, k \in Keys :
         /\ string' = [string EXCEPT ![x] = k]
         /\ loose' = loose \ {x}
         /\ Call(Request(op, "index", 0, k, x), loop)
  BY DEF CallAdd
<1>2. (op = "append" /\ loop = "last") \/ (op = "prepend" /\ loop = "head")
  OBVIOUS
<1> DEFINE r == Request(op, "index", 0, k, x)
<1>3. /\ pc = "idle" /\ pc' = loop /\ request' = r /\ c' = child
      /\ which' = 0 /\ i' = 0 /\ UNCHANGED <<ptrs, heap, result, list>>
  BY <1>1 DEF Call, Request
<1>4. x \in Items /\ x \in heap
  BY DEF IInv, TypeOK
<1>5. /\ r \in Sequence!Requests /\ r # NoRequest /\ r.op = op /\ r.item = x /\ r.key = k
  BY <1>2, <1>4 DEF Request, Sequence!Requests, NoRequest
<1> HIDE DEF r
<1>6. TypeOK'
  BY <1>1, <1>2, <1>3, <1>4, <1>5 DEF IInv, TypeOK, ptrs
<1>7. Linked'
  BY <1>1, <1>3, LinkedKept DEF IInv
<1>8. OneOwner'
  BY <1>1, <1>2, <1>3, <1>5 DEF IInv, OneOwner, Listed, InHand
<1>9. Asked'
  <2>1. string'[x] = k /\ next[x] = Null /\ prev[x] = Null
    BY <1>1, <1>4 DEF IInv, TypeOK, Linked
  <2> QED BY <1>2, <1>3, <1>4, <1>5, <2>1 DEF Asked, ptrs
<1>10. Looking'
  <2>1. list = <<>> \/ 1 \in DOMAIN list
    BY Places DEF IInv
  <2>2. child = At(1)
    BY DEF IInv, Linked
  <2> QED BY <1>2, <1>3, <2>1, <2>2 DEF Looking, At, ptrs
<1> QED BY <1>6, <1>7, <1>8, <1>9, <1>10 DEF IInv

\* The calls that look for a place.
LEMMA CallLookStep ==
    ASSUME IInv, NEW r \in Sequence!Requests, NEW loop \in {"index", "key"},
           r.op \in {"get", "detach", "delete", "replace"},
           r.by = loop, loop = "key" => r.which = 0,
           r.op = "replace" => r.item \in loose
                               /\ (loop = "index" => string[r.item] = r.key),
           Call(r, loop), UNCHANGED <<string, loose>>
    PROVE  IInv'
<1>1. /\ pc = "idle" /\ pc' = loop /\ request' = r /\ c' = child
      /\ which' = r.which /\ i' = r.which /\ UNCHANGED <<ptrs, heap, result, list>>
  BY DEF Call
<1>2. r.which \in Int /\ r # NoRequest
  BY DEF Sequence!Requests, NoRequest
<1>3. TypeOK'
  BY <1>1, <1>2 DEF IInv, TypeOK, ptrs
<1>4. Linked'
  BY <1>1, LinkedKept DEF IInv
<1>5. OneOwner'
  BY <1>1 DEF IInv, OneOwner, Listed, InHand
<1>6. Asked'
  BY <1>1 DEF Asked
<1>7. Looking'
  <2>1. child = At(1)
    BY DEF IInv, Linked
  <2>2. CASE loop = "index"
    BY <1>1, <1>2, <2>1, <2>2 DEF Looking, At
  <2>3. CASE loop = "key"
    <3>1. \A q \in DOMAIN list : ~(q < 1)
      BY Places DEF IInv
    <3> QED BY <1>1, <2>1, <2>3, <3>1 DEF Looking, At, NotBefore
  <2> QED BY <2>2, <2>3
<1> QED BY <1>3, <1>4, <1>5, <1>6, <1>7 DEF IInv

----------------------------------------------------------------------------
(* A node the caller frees points to nothing.                              *)

LEMMA CallDeleteStep == ASSUME IInv, CallDelete PROVE IInv'
<1>1. PICK x \in loose :
         /\ pc = "idle" /\ loose' = loose \ {x} /\ c' = x /\ pc' = "free"
         /\ UNCHANGED <<ptrs, string, heap, which, i, request, result, list>>
  BY DEF CallDelete
<1>2. x \in Items /\ x \in heap /\ next[x] = Null /\ x \notin Listed
  BY DEF IInv, TypeOK, Linked, OneOwner
<1>3. TypeOK'
  BY <1>1, <1>2 DEF IInv, TypeOK, ptrs
<1>4. Linked'
  BY <1>1, LinkedKept DEF IInv
<1>5. InHand = {} /\ InHand' = {x}
  BY <1>1 DEF InHand
<1>6. OneOwner'
  BY <1>1, <1>2, <1>5 DEF IInv, OneOwner, Listed
<1>7. Asked' /\ Looking'
  BY <1>1, <1>2 DEF Asked, Looking, ptrs
<1> QED BY <1>3, <1>4, <1>6, <1>7 DEF IInv

----------------------------------------------------------------------------
(* The loops.                                                              *)

LEMMA WalkLastStep == ASSUME IInv, WalkLast PROVE IInv'
<1>1. /\ pc = "last" /\ c # Null /\ next[c] # Null /\ c' = next[c]
      /\ UNCHANGED <<ptrs, string, heap, loose, pc, which, i, request, result, list>>
  BY DEF WalkLast
<1>2. PICK p \in DOMAIN list : c = list[p]
  BY <1>1 DEF IInv, Looking
<1>3. c' = At(p + 1) /\ p + 1 \in DOMAIN list
  BY <1>1, <1>2 DEF IInv, Linked, At
<1>4. c' \in Items
  BY <1>3, Places DEF IInv, At
<1>5. TypeOK' /\ Asked'
  BY <1>1, <1>4 DEF IInv, TypeOK, Asked, ptrs
<1>6. Linked'
  BY <1>1, LinkedKept DEF IInv
<1>7. OneOwner'
  BY <1>1 DEF IInv, OneOwner, Listed, InHand
<1>8. Looking'
  BY <1>1, <1>3 DEF Looking, At
<1> QED BY <1>5, <1>6, <1>7, <1>8 DEF IInv

LEMMA WalkIndexStep == ASSUME IInv, WalkIndex PROVE IInv'
<1>1. /\ pc = "index" /\ c # Null /\ which > 0 /\ c' = next[c] /\ which' = which - 1
      /\ UNCHANGED <<ptrs, string, heap, loose, pc, i, request, result, list>>
  BY DEF WalkIndex
<1>2. i \in Nat /\ which \in 1 .. i /\ c = At(i - which + 1)
  BY <1>1 DEF IInv, Looking, TypeOK
<1> DEFINE p == i - which + 1
<1>3. p \in Int /\ p \in DOMAIN list /\ c = list[p]
  BY <1>1, <1>2 DEF At
<1>4. c' = At(p + 1)
  BY <1>1, <1>3 DEF IInv, Linked
<1>5. c' \in Items \cup {Null}
  BY <1>3, <1>4, Places DEF IInv
<1>6. which' \in 0 .. i /\ p + 1 = i - which' + 1 /\ which' \in Int
  BY <1>1, <1>2
<1> HIDE DEF p
<1>7. TypeOK' /\ Asked'
  BY <1>1, <1>5, <1>6 DEF IInv, TypeOK, Asked, ptrs
<1>8. Linked'
  BY <1>1, LinkedKept DEF IInv
<1>9. OneOwner'
  BY <1>1 DEF IInv, OneOwner, Listed, InHand
<1>10. Looking'
  <2>1. c' = At(i - which + 1)' /\ which' \in 0 .. i' /\ ~(i' < 0)
    BY <1>1, <1>2, <1>4, <1>6 DEF At
  <2>2. IF request'.by = "index" THEN i' = request'.which
        ELSE /\ i' + 1 \in DOMAIN list' /\ i' >= 0
             /\ string'[list'[i' + 1]] = request'.key /\ NotBefore(i + 1)'
    BY <1>1 DEF IInv, Looking, NotBefore
  <2> QED BY <1>1, <2>1, <2>2 DEF Looking
<1> QED BY <1>7, <1>8, <1>9, <1>10 DEF IInv

LEMMA WalkKeyStep == ASSUME IInv, WalkKey PROVE IInv'
<1>1. /\ pc = "key" /\ c # Null /\ string[c] # request.key /\ c' = next[c] /\ i' = i + 1
      /\ UNCHANGED <<ptrs, string, heap, loose, pc, which, request, result, list>>
  BY DEF WalkKey
<1>2. i \in Nat /\ c = At(i + 1) /\ NotBefore(i + 1) /\ request.by = "key"
  BY <1>1 DEF IInv, Looking
<1>3. i + 1 \in DOMAIN list /\ c = list[i + 1]
  BY <1>1, <1>2 DEF At
<1>4. c' = At(i + 2)
  BY <1>1, <1>2, <1>3 DEF IInv, Linked
<1>5. c' \in Items \cup {Null}
  BY <1>2, <1>4, Places DEF IInv
<1>6. NotBefore(i + 2)
  BY <1>1, <1>2, <1>3, Places DEF NotBefore, IInv
<1>7. TypeOK' /\ Asked'
  BY <1>1, <1>2, <1>5 DEF IInv, TypeOK, Asked, ptrs
<1>8. Linked'
  BY <1>1, LinkedKept DEF IInv
<1>9. OneOwner'
  BY <1>1 DEF IInv, OneOwner, Listed, InHand
<1>10. Looking'
  <2>1. i' \in Nat /\ i' + 1 = i + 2
    BY <1>1, <1>2
  <2>2. c' = At(i + 1)' /\ NotBefore(i + 1)'
    BY <1>1, <1>4, <1>6, <2>1 DEF At, NotBefore
  <2> QED BY <1>1, <1>2, <2>1, <2>2 DEF Looking
<1> QED BY <1>7, <1>8, <1>9, <1>10 DEF IInv

LEMMA KeyFoundStep == ASSUME IInv, KeyFound PROVE IInv'
<1>1. /\ pc = "key" /\ c # Null /\ string[c] = request.key /\ request.op # "get"
      /\ pc' = "index" /\ c' = child /\ which' = i
      /\ string' = IF request.op = "replace"
                   THEN [string EXCEPT ![request.item] = request.key] ELSE string
      /\ UNCHANGED <<ptrs, heap, loose, i, request, result, list>>
  BY DEF KeyFound
<1>2. i \in Nat /\ c = At(i + 1) /\ NotBefore(i + 1) /\ request.by = "key"
      /\ request \in Sequence!Requests
  BY <1>1 DEF IInv, Looking, Asked
<1>3. i + 1 \in DOMAIN list /\ c = list[i + 1]
  BY <1>1, <1>2 DEF At
<1>4. request.key \in Keys
  BY <1>2 DEF Sequence!Requests
<1>5. request.op = "replace" => request.item \in loose /\ request.item \in Items
                                /\ request.item \notin Listed
  BY <1>1 DEF IInv, Asked, OneOwner, TypeOK
<1>6. \A p \in DOMAIN list : string'[list[p]] = string[list[p]]
  BY <1>1, <1>4, <1>5, Places DEF Listed, IInv, TypeOK
<1>7. TypeOK'
  BY <1>1, <1>2, <1>4, <1>5 DEF IInv, TypeOK, ptrs
<1>8. Asked'
  BY <1>1, <1>2, <1>5 DEF IInv, Asked, TypeOK
<1>9. Linked'
  BY <1>1, LinkedKept DEF IInv
<1>10. OneOwner'
  BY <1>1 DEF IInv, OneOwner, Listed, InHand
<1>11. Looking'
  <2>1. which' \in 0 .. i' /\ ~(i' < 0) /\ i' - which' + 1 = 1 /\ i' = i
    BY <1>1, <1>2
  <2>2. c' = At(i - which + 1)'
    BY <1>1, <2>1 DEF IInv, Linked, At, ptrs
  <2>3. string'[list'[i' + 1]] = request'.key /\ NotBefore(i + 1)'
    BY <1>1, <1>2, <1>3, <1>6 DEF NotBefore
  <2> QED BY <1>1, <1>2, <1>3, <2>1, <2>2, <2>3 DEF Looking
<1> QED BY <1>7, <1>8, <1>9, <1>10, <1>11 DEF IInv

LEMMA ReturnStep == ASSUME IInv, NotThere \/ Get PROVE IInv'
<1>1. PICK x \in Items \cup {Null} : Return(x)
  BY DEF NotThere, Get, IInv, TypeOK
<1>2. pc \in {"index", "key"} /\ UNCHANGED <<ptrs, string, heap, loose, list>>
  BY DEF NotThere, Get, AtIndex
<1>3. pc' = "idle" /\ request' = NoRequest /\ result' = x /\ UNCHANGED <<c, which, i>>
  BY <1>1 DEF Return
<1>4. TypeOK'
  BY <1>1, <1>2, <1>3 DEF IInv, TypeOK, ptrs
<1>5. Linked'
  BY <1>2, LinkedKept DEF IInv
<1>6. OneOwner'
  BY <1>2, <1>3 DEF IInv, OneOwner, Listed, InHand
<1>7. Asked' /\ Looking'
  BY <1>3 DEF Asked, Looking
<1> QED BY <1>4, <1>5, <1>6, <1>7 DEF IInv

LEMMA DeleteStep == ASSUME IInv, Delete PROVE IInv'
<1>1. /\ pc = "free" /\ heap' = heap \ {c} /\ c' = next[c]
      /\ pc' = IF next[c] = Null THEN "idle" ELSE "free"
      /\ UNCHANGED <<ptrs, string, loose, which, i, request, result, list>>
  BY DEF Delete
<1>2. c \in Items /\ next[c] = Null /\ pc' = "idle" /\ c' = Null
  BY <1>1 DEF IInv, Asked
<1>3. InHand = {c} /\ InHand' = {}
  BY <1>1, <1>2 DEF InHand
<1>4. c \notin Listed /\ c \notin loose
  BY <1>3 DEF IInv, OneOwner
<1>5. TypeOK'
  BY <1>1, <1>2, <1>4 DEF IInv, TypeOK, ptrs
<1>6. Linked'
  BY <1>1, LinkedKept DEF IInv
<1>7. OneOwner'
  BY <1>1, <1>3, <1>4 DEF IInv, OneOwner, Listed
<1>8. Asked' /\ Looking'
  BY <1>2 DEF Asked, Looking
<1> QED BY <1>5, <1>6, <1>7, <1>8 DEF IInv

----------------------------------------------------------------------------
(* Adding.                                                                 *)

\* The node a call to add brings is nobody else's.
LEMMA Brought ==
    ASSUME IInv, pc \in {"last", "head"}
    PROVE  /\ request.item \in Items /\ request.item \in heap
           /\ request.item \notin Listed /\ request.item \notin loose
           /\ next[request.item] = Null /\ prev[request.item] = Null
<1>1. InHand = {request.item}
  BY DEF InHand
<1> QED BY <1>1 DEF IInv, OneOwner, Asked

LEMMA AddItemToArrayStep == ASSUME IInv, AddItemToArray PROVE IInv'
<1> DEFINE item == request.item
<1> DEFINE n == Len(list)
<1>1. /\ pc = "last" /\ pc' = "idle" /\ request' = NoRequest /\ result' = item
      /\ list' = Append(list, item)
      /\ UNCHANGED <<string, heap, loose, c, which, i>>
  BY DEF AddItemToArray, Return
<1>2. /\ item \in Items /\ item \in heap /\ item \notin Listed /\ item \notin loose
      /\ next[item] = Null /\ prev[item] = Null
  BY <1>1, Brought
<1>3. \/ c = Null /\ child' = item /\ UNCHANGED <<next, prev>>
      \/ /\ c # Null /\ next[c] = Null /\ UNCHANGED child
         /\ next' = [next EXCEPT ![c] = item] /\ prev' = [prev EXCEPT ![item] = c]
  BY DEF AddItemToArray
<1>4. n \in Nat /\ list \in Seq(Items) /\ DOMAIN list = 1 .. n
      /\ \A p \in DOMAIN list : list[p] \in Items
  BY Places DEF IInv
<1> HIDE DEF item
<1>5. /\ DOMAIN list' = 1 .. n + 1 /\ list'[n + 1] = item
      /\ \A p \in 1 .. n : list'[p] = list[p]
      /\ list' \in Seq(Items)
  BY <1>1, <1>2, <1>4
<1>6. Listed' = Listed \cup {item}
  BY <1>4, <1>5 DEF Listed
<1>7. TypeOK'
  BY <1>1, <1>2, <1>3, <1>5 DEF IInv, TypeOK
<1>8. OneOwner'
  <2>1. InHand' = {} /\ InHand = {item}
    BY <1>1 DEF InHand, item
  <2>2. heap' = loose' \cup Listed' \cup InHand' /\ Listed' \cap loose' = {}
    BY <1>1, <1>2, <1>6, <2>1 DEF IInv, OneOwner
  <2>3. \A p \in 1 .. n : list[p] # item
    BY <1>2, <1>4 DEF Listed
  <2>4. \A p, q \in DOMAIN list' : list'[p] = list'[q] => p = q
    BY <1>4, <1>5, <2>3 DEF IInv, OneOwner
  <2> QED BY <2>1, <2>2, <2>4 DEF OneOwner
<1>9. Linked'
  <2>1. CASE c = Null
    <3>1. n = 0
      BY <1>1, <1>4, <2>1, NullAssumption DEF IInv, Looking
    <3>2. child' = item /\ UNCHANGED <<next, prev>>
      BY <1>3, <2>1
    <3>3. DOMAIN list' = {1} /\ list'[1] = item
      BY <1>5, <3>1
    <3> QED BY <1>1, <1>2, <3>2, <3>3 DEF Linked, At, IInv
  <2>2. CASE c # Null
    <3>1. /\ next[c] = Null /\ UNCHANGED child
          /\ next' = [next EXCEPT ![c] = item] /\ prev' = [prev EXCEPT ![item] = c]
      BY <1>3, <2>2
    <3>2. PICK p \in DOMAIN list : c = list[p]
      BY <1>1, <2>2 DEF IInv, Looking
    <3>3. p = n
      <4>1. At(p + 1) = Null
        BY <3>1, <3>2 DEF IInv, Linked
      <4>2. p + 1 \notin DOMAIN list
        BY <1>4, <4>1, NullAssumption DEF At
      <4> QED BY <1>4, <4>2
    <3>4. c \in Items /\ c # item /\ c \notin loose /\ n \in 1 .. n
      BY <1>2, <1>4, <3>2, <3>3 DEF Listed, IInv, OneOwner
    <3>5. \A q \in 1 .. n : list[q] # item /\ (q # n => list[q] # c)
      BY <1>2, <1>4, <3>2, <3>3 DEF Listed, IInv, OneOwner
    <3>6. /\ next'[item] = Null /\ prev'[item] = c
          /\ next'[c] = item /\ prev'[c] = prev[c]
          /\ \A x \in Items : x # item /\ x # c => next'[x] = next[x] /\ prev'[x] = prev[x]
      BY <1>2, <3>1, <3>4 DEF IInv, TypeOK
    <3>7. child' = At(1)'
      BY <1>4, <1>5, <3>1, <3>4 DEF IInv, Linked, At
    <3>8. \A q \in 1 .. n + 1 : At(q + 1)' = IF q = n + 1 THEN Null
                                            ELSE IF q = n THEN item ELSE At(q + 1)
      <4> SUFFICES ASSUME NEW q \in 1 .. n + 1
                   PROVE  At(q + 1)' = IF q = n + 1 THEN Null
                                       ELSE IF q = n THEN item ELSE At(q + 1)
        OBVIOUS
      <4>1. CASE q = n + 1
        <5>1. q + 1 \notin DOMAIN list'
          BY <1>4, <1>5, <4>1
        <5> QED BY <4>1, <5>1 DEF At
      <4>2. CASE q = n
        <5> HIDE DEF n
        <5>1. n + 1 \in 1 .. n + 1 /\ q + 1 = n + 1 /\ q # n + 1
          BY <1>4, <4>2
        <5> QED BY <1>5, <4>2, <5>1 DEF At
      <4>3. CASE q # n + 1 /\ q # n
        <5> HIDE DEF n
        <5>1. q + 1 \in 1 .. n + 1 /\ q + 1 \in 1 .. n
          BY <1>4, <4>3
        <5>2. list'[q + 1] = list[q + 1]
          BY <1>5, <5>1
        <5> QED BY <1>4, <1>5, <4>3, <5>1, <5>2 DEF At
      <4> QED BY <4>1, <4>2, <4>3
    <3>9. \A q \in 1 .. n + 1 : At(q - 1)' = IF q = n + 1 THEN c ELSE At(q - 1)
      <4> SUFFICES ASSUME NEW q \in 1 .. n + 1
                   PROVE  At(q - 1)' = IF q = n + 1 THEN c ELSE At(q - 1)
        OBVIOUS
      <4>1. CASE q = n + 1
        <5>1. q - 1 = n /\ n \in DOMAIN list' /\ list'[n] = c
          BY <1>4, <1>5, <3>2, <3>3, <4>1
        <5> QED BY <4>1, <5>1 DEF At
      <4>2. CASE q # n + 1
        <5>1. q - 1 \in DOMAIN list' <=> q - 1 \in DOMAIN list
          BY <1>4, <1>5, <4>2
        <5>2. q - 1 \in DOMAIN list => list'[q - 1] = list[q - 1]
          BY <1>4, <1>5
        <5> QED BY <4>2, <5>1, <5>2 DEF At
      <4> QED BY <4>1, <4>2
    <3>10. \A q \in 1 .. n : next[list[q]] = At(q + 1) /\ prev[list[q]] = At(q - 1)
      BY <1>4 DEF IInv, Linked
    <3>11. \A q \in 1 .. n : next'[list[q]] = IF q = n THEN item ELSE next[list[q]]
      BY <1>4, <3>2, <3>3, <3>5, <3>6
    <3>12. \A q \in 1 .. n : prev'[list[q]] = prev[list[q]]
      BY <1>4, <3>2, <3>3, <3>5, <3>6
    <3>13. \A q \in DOMAIN list' : next'[list'[q]] = At(q + 1)' /\ prev'[list'[q]] = At(q - 1)'
      <4> SUFFICES ASSUME NEW q \in 1 .. n + 1
                   PROVE  next'[list'[q]] = At(q + 1)' /\ prev'[list'[q]] = At(q - 1)'
        BY <1>5
      <4>1. CASE q = n + 1
        BY <1>4, <1>5, <3>6, <3>8, <3>9, <4>1
      <4>2. CASE q # n + 1
        <5>1. q \in 1 .. n /\ list'[q] = list[q]
          BY <1>4, <1>5, <4>2
        <5>2. next'[list[q]] = IF q = n THEN item ELSE At(q + 1)
          BY <3>10, <3>11, <5>1
        <5>3. prev'[list[q]] = At(q - 1)
          BY <3>10, <3>12, <5>1
        <5> QED BY <3>8, <3>9, <4>2, <5>1, <5>2, <5>3
      <4> QED BY <4>1, <4>2
    <3>14. \A x \in loose' : next'[x] = Null /\ prev'[x] = Null
      BY <1>1, <1>2, <3>4, <3>6 DEF IInv, Linked, TypeOK
    <3> QED BY <3>7, <3>13, <3>14 DEF Linked
  <2> QED BY <2>1, <2>2
<1>10. Asked' /\ Looking'
  BY <1>1 DEF Asked, Looking
<1> QED BY <1>7, <1>8, <1>9, <1>10 DEF IInv

LEMMA AddItemToArrayHeadStep == ASSUME IInv, AddItemToArrayHead PROVE IInv'
<1> DEFINE item == request.item
<1> DEFINE n == Len(list)
<1>1. /\ pc = "head" /\ pc' = "idle" /\ request' = NoRequest /\ result' = item
      /\ list' = <<item>> \o list /\ child' = item
      /\ UNCHANGED <<string, heap, loose, c, which, i>>
  BY DEF AddItemToArrayHead, Return
<1>2. /\ item \in Items /\ item \in heap /\ item \notin Listed /\ item \notin loose
      /\ next[item] = Null /\ prev[item] = Null
  BY <1>1, Brought
<1>3. IF c = Null THEN UNCHANGED <<next, prev>>
      ELSE /\ next' = [next EXCEPT ![item] = c]
           /\ prev' = [prev EXCEPT ![item] = prev[c], ![c] = item]
  BY DEF AddItemToArrayHead
<1>4. n \in Nat /\ list \in Seq(Items) /\ DOMAIN list = 1 .. n
      /\ \A p \in DOMAIN list : list[p] \in Items
  BY Places DEF IInv
<1>5. c = At(1)
  BY <1>1 DEF IInv, Looking, Linked
<1> HIDE DEF item
<1>6. /\ DOMAIN list' = 1 .. n + 1 /\ list'[1] = item
      /\ \A p \in 1 .. n + 1 : p # 1 => p - 1 \in 1 .. n /\ list'[p] = list[p - 1]
      /\ \A p \in 1 .. n : p + 1 \in 1 .. n + 1 /\ list'[p + 1] = list[p]
      /\ list' \in Seq(Items)
  BY <1>1, <1>2, <1>4
<1>7. Listed' = Listed \cup {item}
  <2>1. ASSUME NEW p \in 1 .. n + 1 PROVE list'[p] \in Listed \cup {item}
    <3>1. CASE p = 1
      BY <1>6, <3>1
    <3>2. CASE p # 1
      BY <1>4, <1>6, <3>2 DEF Listed
    <3> QED BY <3>1, <3>2
  <2>2. 1 \in DOMAIN list' /\ item \in Listed'
    BY <1>4, <1>6 DEF Listed
  <2>3. ASSUME NEW p \in 1 .. n PROVE list[p] \in Listed'
    <3>1. p + 1 \in DOMAIN list' /\ list'[p + 1] = list[p]
      BY <1>6
    <3> QED BY <3>1 DEF Listed
  <2>4. Listed \subseteq Listed'
    BY <1>4, <2>3 DEF Listed
  <2>5. Listed' \subseteq Listed \cup {item}
    <3> SUFFICES ASSUME NEW x \in Listed' PROVE x \in Listed \cup {item}
      OBVIOUS
    <3>1. PICK p \in DOMAIN list' : x = list'[p]
      BY DEF Listed
    <3> QED BY <1>6, <2>1, <3>1
  <2> QED BY <2>2, <2>4, <2>5
<1>8. c # Null => 1 \in 1 .. n /\ c = list[1] /\ c \in Items /\ c # item /\ c \notin loose
                  /\ prev[c] = Null
  <2>1. c # Null => 1 \in DOMAIN list /\ c = list[1]
    BY <1>5 DEF At
  <2>2. At(0) = Null
    BY <1>4 DEF At
  <2> QED BY <1>2, <1>4, <2>1, <2>2 DEF Listed, IInv, OneOwner, Linked
<1>9. c = Null => n = 0
  BY <1>4, <1>5, NullAssumption DEF At
<1>10. TypeOK'
  BY <1>1, <1>2, <1>3, <1>6, <1>8 DEF IInv, TypeOK
<1>11. OneOwner'
  <2>1. InHand' = {} /\ InHand = {item}
    BY <1>1 DEF InHand, item
  <2>2. heap' = loose' \cup Listed' \cup InHand' /\ Listed' \cap loose' = {}
    BY <1>1, <1>2, <1>7, <2>1 DEF IInv, OneOwner
  <2>3. \A p \in 1 .. n : list[p] # item
    BY <1>2, <1>4 DEF Listed
  <2>4. \A p, q \in DOMAIN list' : list'[p] = list'[q] => p = q
    <3> SUFFICES ASSUME NEW p \in 1 .. n + 1, NEW q \in 1 .. n + 1, list'[p] = list'[q]
                 PROVE  p = q
      BY <1>6
    <3>1. CASE p = 1
      BY <1>6, <2>3, <3>1
    <3>2. CASE q = 1
      BY <1>6, <2>3, <3>2
    <3>3. CASE p # 1 /\ q # 1
      <4>1. p - 1 \in DOMAIN list /\ q - 1 \in DOMAIN list /\ list[p - 1] = list[q - 1]
        BY <1>4, <1>6, <3>3
      <4>2. p - 1 = q - 1
        BY <4>1 DEF IInv, OneOwner
      <4> QED BY <1>4, <4>2
    <3> QED BY <3>1, <3>2, <3>3
  <2> QED BY <2>1, <2>2, <2>4 DEF OneOwner
<1>12. Linked'
  <2>1. CASE c = Null
    <3>1. DOMAIN list' = {1} /\ UNCHANGED <<next, prev>>
      BY <1>3, <1>6, <1>9, <2>1
    <3> QED BY <1>1, <1>2, <1>6, <3>1 DEF Linked, At, IInv
  <2>2. CASE c # Null
    <3>1. /\ next'[item] = c /\ prev'[item] = Null
          /\ next'[c] = next[c] /\ prev'[c] = item
          /\ \A x \in Items : x # item /\ x # c => next'[x] = next[x] /\ prev'[x] = prev[x]
      BY <1>2, <1>3, <1>8, <2>2 DEF IInv, TypeOK
    <3>2. \A q \in 1 .. n : list[q] # item /\ (q # 1 => list[q] # c)
      BY <1>2, <1>4, <1>8, <2>2 DEF Listed, IInv, OneOwner
    <3>3. \A q \in 1 .. n : next[list[q]] = At(q + 1) /\ prev[list[q]] = At(q - 1)
      BY <1>4 DEF IInv, Linked
    <3>4. \A q \in 1 .. n : next'[list[q]] = At(q + 1)
      BY <1>4, <1>8, <2>2, <3>1, <3>2, <3>3
    <3>5. \A q \in 1 .. n : prev'[list[q]] = IF q = 1 THEN item ELSE At(q - 1)
      BY <1>4, <1>8, <2>2, <3>1, <3>2, <3>3
    <3>6. \A q \in 1 .. n + 1 : At(q + 1)' = At(q)
      BY <1>4, <1>6 DEF At
    <3>7. \A q \in 1 .. n + 1 : At(q - 1)' = IF q = 1 THEN Null
                                            ELSE IF q = 2 THEN item ELSE At(q - 2)
      BY <1>4, <1>6 DEF At
    <3>8. \A q \in DOMAIN list' : next'[list'[q]] = At(q + 1)' /\ prev'[list'[q]] = At(q - 1)'
      <4> SUFFICES ASSUME NEW q \in 1 .. n + 1
                   PROVE  next'[list'[q]] = At(q + 1)' /\ prev'[list'[q]] = At(q - 1)'
        BY <1>6
      <4>1. CASE q = 1
        BY <1>5, <1>6, <3>1, <3>6, <3>7, <4>1
      <4>2. CASE q # 1
        <5>1. q - 1 \in 1 .. n /\ list'[q] = list[q - 1] /\ (q - 1) + 1 = q
          BY <1>4, <1>6, <4>2
        <5>2. At(q + 1)' = At(q) /\ At(q - 1)' = IF q = 2 THEN item ELSE At(q - 2)
          BY <3>6, <3>7, <4>2
        <5>3. q - 1 = 1 <=> q = 2
          BY <1>4
        <5>4. (q - 1) - 1 = q - 2
          BY <1>4
        <5> QED BY <3>4, <3>5, <5>1, <5>2, <5>3, <5>4
      <4> QED BY <4>1, <4>2
    <3>9. \A x \in loose' : next'[x] = Null /\ prev'[x] = Null
      BY <1>1, <1>2, <1>8, <2>2, <3>1 DEF IInv, Linked, TypeOK
    <3>10. child' = At(1)'
      BY <1>1, <1>4, <1>6 DEF At
    <3> QED BY <3>8, <3>9, <3>10 DEF Linked
  <2> QED BY <2>1, <2>2
<1>13. Asked' /\ Looking'
  BY <1>1 DEF Asked, Looking
<1> QED BY <1>10, <1>11, <1>12, <1>13 DEF IInv

----------------------------------------------------------------------------
(* Taking out.                                                             *)

\* The neighbours of the node at the cursor, and who is not one.
LEMMA Neighbours ==
    ASSUME IInv, NEW p \in DOMAIN list, c = list[p]
    PROVE  /\ c \in Items /\ c \in heap /\ c \notin loose /\ PlaceOf(c) = p
           /\ next[c] = At(p + 1) /\ prev[c] = At(p - 1)
           /\ c = child <=> p = 1
           /\ \A q \in DOMAIN list :
                 /\ list[q] = c <=> q = p
                 /\ list[q] = At(p - 1) <=> q = p - 1
                 /\ list[q] = At(p + 1) <=> q = p + 1
           /\ \A x \in loose : x # c /\ x # At(p - 1) /\ x # At(p + 1)
<1>1. /\ DOMAIN list = 1 .. Len(list) /\ Len(list) \in Nat
      /\ \A q \in DOMAIN list : list[q] \in Items
  BY Places DEF IInv
<1>2. \A q, r \in DOMAIN list : list[q] = list[r] => q = r
  BY DEF IInv, OneOwner
<1>3. c \in Items /\ c \in heap /\ c \notin loose
  BY <1>1 DEF IInv, OneOwner, Listed
<1>4. next[c] = At(p + 1) /\ prev[c] = At(p - 1) /\ child = At(1)
  BY DEF IInv, Linked
<1>5. PlaceOf(c) = p
  BY <1>2 DEF PlaceOf
<1>6. c = child <=> p = 1
  <2>1. 1 \in DOMAIN list
    BY <1>1
  <2> QED BY <1>2, <1>4, <2>1 DEF At
<1>7. ASSUME NEW q \in DOMAIN list
      PROVE  /\ list[q] = c <=> q = p
             /\ list[q] = At(p - 1) <=> q = p - 1
             /\ list[q] = At(p + 1) <=> q = p + 1
  <2>1. list[q] \in Items /\ list[q] # Null
    BY <1>1, NullAssumption
  <2>2. ASSUME NEW r \in Int PROVE list[q] = At(r) <=> q = r
    BY <1>2, <2>1 DEF At
  <2> QED BY <1>1, <1>2, <2>2
<1>8. ASSUME NEW x \in loose PROVE x # c /\ x # At(p - 1) /\ x # At(p + 1)
  <2>1. x \in Items /\ x \notin Listed /\ x # Null
    BY NullAssumption DEF IInv, TypeOK, OneOwner
  <2> QED BY <2>1 DEF At, Listed
<1> QED BY <1>3, <1>4, <1>5, <1>6, <1>7, <1>8

LEMMA DetachItemFromArrayStep == ASSUME IInv, DetachItemFromArray PROVE IInv'
<1> DEFINE n == Len(list)
<1>1. /\ AtIndex /\ Unlink /\ list' = Without(PlaceOf(c)) /\ request' = NoRequest
      /\ result' = c /\ UNCHANGED <<string, heap, c, which, i>>
      /\ \/ loose' = loose \cup {c} /\ pc' = "idle"
         \/ loose' = loose /\ pc' = "free"
  BY DEF DetachItemFromArray
<1>2. PICK p \in DOMAIN list : c = list[p]
  BY <1>1, AtPlace
<1>3. /\ c \in Items /\ c \in heap /\ c \notin loose /\ PlaceOf(c) = p
      /\ next[c] = At(p + 1) /\ prev[c] = At(p - 1)
      /\ c = child <=> p = 1
  BY <1>2, Neighbours
<1>4. \A q \in DOMAIN list :
         /\ list[q] = c <=> q = p
         /\ list[q] = At(p - 1) <=> q = p - 1
         /\ list[q] = At(p + 1) <=> q = p + 1
  BY <1>2, Neighbours
<1>5. \A x \in loose : x # c /\ x # At(p - 1) /\ x # At(p + 1)
  BY <1>2, Neighbours
<1>6. n \in Nat /\ DOMAIN list = 1 .. n /\ p \in 1 .. n
      /\ \A q \in 1 .. n : list[q] \in Items
  BY Places DEF IInv
<1> HIDE DEF n
<1>7. list' = [q \in 1 .. n - 1 |-> list[IF q < p THEN q ELSE q + 1]]
  BY <1>1, <1>3 DEF Without, n
<1>8. DOMAIN list' = 1 .. n - 1 /\ n - 1 \in Nat
      /\ \A q \in 1 .. n - 1 : /\ q < p => q \in 1 .. n /\ list'[q] = list[q]
                               /\ ~(q < p) => q + 1 \in 1 .. n /\ list'[q] = list[q + 1]
  BY <1>6, <1>7
<1>9. \A q \in 1 .. n - 1 : list'[q] \in Items
  BY <1>6, <1>8
<1>10. list' \in Seq(Items)
  <2>1. list' \in [1 .. n - 1 -> Items]
    BY <1>7, <1>8, <1>9
  <2> QED BY <1>8, <2>1, SeqDef
<1>11. Listed' = Listed \ {c}
  <2>1. ASSUME NEW q \in 1 .. n - 1 PROVE list'[q] \in Listed \ {c}
    BY <1>4, <1>6, <1>8 DEF Listed
  <2>2. ASSUME NEW q \in 1 .. n, q # p PROVE list[q] \in Listed'
    <3>1. CASE q < p
      <4>1. q \in 1 .. n - 1 /\ list'[q] = list[q]
        BY <1>6, <1>8, <3>1
      <4> QED BY <1>8, <4>1 DEF Listed
    <3>2. CASE ~(q < p)
      <4>1. q - 1 \in 1 .. n - 1 /\ ~(q - 1 < p) /\ (q - 1) + 1 = q
        BY <1>6, <2>2, <3>2
      <4>2. list'[q - 1] = list[q]
        BY <1>8, <4>1
      <4> QED BY <1>8, <4>1, <4>2 DEF Listed
    <3> QED BY <3>1, <3>2
  <2>3. Listed' \subseteq Listed \ {c}
    <3> SUFFICES ASSUME NEW x \in Listed' PROVE x \in Listed \ {c}
      OBVIOUS
    <3>1. PICK q \in DOMAIN list' : x = list'[q]
      BY DEF Listed
    <3> QED BY <1>8, <2>1, <3>1
  <2>4. Listed \ {c} \subseteq Listed'
    <3> SUFFICES ASSUME NEW x \in Listed, x # c PROVE x \in Listed'
      OBVIOUS
    <3>1. PICK q \in DOMAIN list : x = list[q]
      BY DEF Listed
    <3> QED BY <1>2, <1>6, <2>2, <3>1
  <2> QED BY <2>3, <2>4
<1>12. /\ next' \in [Items -> Items \cup {Null}] /\ next'[c] = Null
       /\ \A x \in Items : x # c => next'[x] = IF x = At(p - 1) THEN At(p + 1) ELSE next[x]
  BY <1>1, <1>3 DEF Unlink, IInv, TypeOK
<1>13. /\ prev' \in [Items -> Items \cup {Null}] /\ prev'[c] = Null
       /\ \A x \in Items : x # c => prev'[x] = IF x = At(p + 1) THEN At(p - 1) ELSE prev[x]
  BY <1>1, <1>3 DEF Unlink, IInv, TypeOK
<1>14. child' = IF p = 1 THEN At(p + 1) ELSE child
  BY <1>1, <1>3 DEF Unlink
<1>15. \A q \in Int : At(q) \in Items \cup {Null}
  BY Places DEF IInv
<1>16. TypeOK'
  BY <1>1, <1>3, <1>6, <1>10, <1>12, <1>13, <1>14, <1>15 DEF IInv, TypeOK
<1>17. \A q \in 0 .. n : At(q)' = IF q < p THEN At(q) ELSE At(q + 1)
  <2> SUFFICES ASSUME NEW q \in 0 .. n
               PROVE  At(q)' = IF q < p THEN At(q) ELSE At(q + 1)
    OBVIOUS
  <2>1. CASE q \in 1 .. n - 1
    <3>1. CASE q < p
      BY <1>6, <1>8, <2>1, <3>1 DEF At
    <3>2. CASE ~(q < p)
      BY <1>6, <1>8, <2>1, <3>2 DEF At
    <3> QED BY <3>1, <3>2
  <2>2. CASE q = 0
    <3>1. q \notin DOMAIN list' /\ q \notin DOMAIN list /\ q < p
      BY <1>6, <1>8, <2>2
    <3> QED BY <3>1 DEF At
  <2>3. CASE q = n
    <3>1. q \notin DOMAIN list' /\ q + 1 \notin DOMAIN list /\ ~(q < p)
      BY <1>6, <1>8, <2>3
    <3> QED BY <3>1 DEF At
  <2> QED BY <1>6, <2>1, <2>2, <2>3
<1>18. \A q \in 1 .. n : next[list[q]] = At(q + 1) /\ prev[list[q]] = At(q - 1)
  BY <1>6 DEF IInv, Linked
<1>19. Linked'
  <2>1. child' = At(1)'
    <3>1. child = At(1) /\ At(1)' = IF 1 < p THEN At(1) ELSE At(1 + 1)
      BY <1>6, <1>17 DEF IInv, Linked
    <3> QED BY <1>6, <1>14, <3>1
  <2>2. ASSUME NEW q \in 1 .. n - 1
        PROVE  next'[list'[q]] = At(q + 1)' /\ prev'[list'[q]] = At(q - 1)'
    <3>1. /\ At(q + 1)' = IF q + 1 < p THEN At(q + 1) ELSE At(q + 2)
          /\ At(q - 1)' = IF q - 1 < p THEN At(q - 1) ELSE At(q)
      <4>1. q + 1 \in 0 .. n /\ q - 1 \in 0 .. n /\ (q + 1) + 1 = q + 2 /\ (q - 1) + 1 = q
        BY <1>6
      <4>2. At(q + 1)' = IF q + 1 < p THEN At(q + 1) ELSE At((q + 1) + 1)
        BY <1>17, <4>1
      <4>3. At(q - 1)' = IF q - 1 < p THEN At(q - 1) ELSE At((q - 1) + 1)
        BY <1>17, <4>1
      <4> QED BY <4>1, <4>2, <4>3
    <3>2. CASE q < p
      <4>1. q \in 1 .. n /\ q # p /\ list'[q] = list[q] /\ list[q] \in Items /\ list[q] # c
        BY <1>4, <1>6, <1>8, <3>2
      <4>2. /\ next'[list[q]] = IF q = p - 1 THEN At(p + 1) ELSE At(q + 1)
            /\ prev'[list[q]] = At(q - 1)
        <5>1. (list[q] = At(p - 1) <=> q = p - 1) /\ ~(list[q] = At(p + 1))
          BY <1>4, <1>6, <3>2, <4>1
        <5> QED BY <1>12, <1>13, <1>18, <4>1, <5>1
      <4>3. q = p - 1 => ~(q + 1 < p) /\ p + 1 = q + 2
        BY <1>6
      <4>4. q # p - 1 => q + 1 < p
        BY <1>6, <3>2
      <4>5. q - 1 < p
        BY <1>6, <3>2
      <4> QED BY <3>1, <4>1, <4>2, <4>3, <4>4, <4>5
    <3>3. CASE ~(q < p)
      <4>1. q + 1 \in 1 .. n /\ q + 1 # p /\ list'[q] = list[q + 1]
            /\ list[q + 1] \in Items /\ list[q + 1] # c
        BY <1>4, <1>6, <1>8, <3>3
      <4>2. /\ next'[list[q + 1]] = At((q + 1) + 1)
            /\ prev'[list[q + 1]] = IF q + 1 = p + 1 THEN At(p - 1) ELSE At((q + 1) - 1)
        <5>1. (list[q + 1] = At(p + 1) <=> q + 1 = p + 1) /\ ~(list[q + 1] = At(p - 1))
          BY <1>4, <1>6, <3>3, <4>1
        <5> QED BY <1>12, <1>13, <1>18, <4>1, <5>1
      <4>3. (q + 1) + 1 = q + 2 /\ (q + 1) - 1 = q /\ ~(q + 1 < p)
        BY <1>6, <3>3
      <4>4. q + 1 = p + 1 => q = p /\ q - 1 < p
        BY <1>6
      <4>5. q + 1 # p + 1 => ~(q - 1 < p)
        BY <1>6, <3>3
      <4> QED BY <3>1, <4>1, <4>2, <4>3, <4>4, <4>5
    <3> QED BY <3>2, <3>3
  <2>3. \A x \in loose' : next'[x] = Null /\ prev'[x] = Null
    BY <1>1, <1>5, <1>12, <1>13 DEF IInv, Linked, TypeOK
  <2> QED BY <1>8, <2>1, <2>2, <2>3 DEF Linked
<1>20. OneOwner'
  <2>1. c \in Listed /\ InHand = {} /\ pc \notin {"last", "head", "free"}
    BY <1>1, <1>2 DEF Listed, InHand, AtIndex
  <2>2. \/ loose' = loose \cup {c} /\ InHand' = {}
        \/ loose' = loose /\ InHand' = {c}
    BY <1>1 DEF InHand
  <2>3. /\ heap' = loose' \cup Listed' \cup InHand'
        /\ Listed' \cap loose' = {} /\ InHand' \cap (Listed' \cup loose') = {}
    BY <1>1, <1>3, <1>11, <2>1, <2>2 DEF IInv, OneOwner
  <2>4. \A q, r \in DOMAIN list' : list'[q] = list'[r] => q = r
    <3> SUFFICES ASSUME NEW q \in 1 .. n - 1, NEW r \in 1 .. n - 1, list'[q] = list'[r]
                 PROVE  q = r
      BY <1>8
    <3> DEFINE s(x) == IF x < p THEN x ELSE x + 1
    <3>1. s(q) \in 1 .. n /\ s(r) \in 1 .. n /\ list[s(q)] = list[s(r)]
      BY <1>8
    <3>2. s(q) = s(r)
      BY <1>6, <3>1 DEF IInv, OneOwner
    <3> QED BY <1>6, <3>2
  <2> QED BY <2>3, <2>4 DEF OneOwner
<1>21. Asked' /\ Looking'
  BY <1>1, <1>3, <1>12 DEF Asked, Looking
<1> QED BY <1>16, <1>19, <1>20, <1>21 DEF IInv

LEMMA ReplaceItemInArrayStep == ASSUME IInv, ReplaceItemInArray PROVE IInv'
<1> DEFINE n == Len(list)
<1> DEFINE item == request.item
<1>1. /\ AtIndex /\ Relink(item) /\ loose' = loose \ {item}
      /\ list' = [q \in DOMAIN list |-> IF list[q] = c THEN item ELSE list[q]]
      /\ request' = NoRequest /\ result' = c /\ pc' = "free"
      /\ UNCHANGED <<string, heap, c, which, i>>
  BY DEF ReplaceItemInArray
<1>2. PICK p \in DOMAIN list : c = list[p]
  BY <1>1, AtPlace
<1>3. /\ c \in Items /\ c \in heap /\ c \notin loose
      /\ next[c] = At(p + 1) /\ prev[c] = At(p - 1)
      /\ c = child <=> p = 1
  BY <1>2, Neighbours
<1>4. \A q \in DOMAIN list :
         /\ list[q] = c <=> q = p
         /\ list[q] = At(p - 1) <=> q = p - 1
         /\ list[q] = At(p + 1) <=> q = p + 1
  BY <1>2, Neighbours
<1>5. \A x \in loose : x # c /\ x # At(p - 1) /\ x # At(p + 1)
  BY <1>2, Neighbours
<1>6. n \in Nat /\ DOMAIN list = 1 .. n /\ p \in 1 .. n
      /\ \A q \in 1 .. n : list[q] \in Items
  BY Places DEF IInv
<1>7. item \in loose /\ item \in Items /\ item # c /\ \A q \in 1 .. n : list[q] # item
  <2>1. item \in loose
    BY <1>1 DEF IInv, Asked, AtIndex, ReplaceItemInArray
  <2> QED BY <1>5, <1>6, <2>1 DEF IInv, OneOwner, TypeOK, Listed
<1> HIDE DEF n, item
<1>8. /\ DOMAIN list' = 1 .. n
      /\ \A q \in 1 .. n : list'[q] = IF q = p THEN item ELSE list[q]
  BY <1>1, <1>4, <1>6
<1>9. list' \in Seq(Items)
  <2>1. list' \in [1 .. n -> Items]
    BY <1>1, <1>6, <1>7
  <2> QED BY <1>6, <2>1, SeqDef
<1>10. Listed' = (Listed \ {c}) \cup {item}
  <2>1. Listed' \subseteq (Listed \ {c}) \cup {item}
    BY <1>4, <1>6, <1>8 DEF Listed
  <2>2. (Listed \ {c}) \subseteq Listed'
    <3> SUFFICES ASSUME NEW x \in Listed, x # c PROVE x \in Listed'
      OBVIOUS
    <3>1. PICK q \in DOMAIN list : x = list[q]
      BY DEF Listed
    <3>2. q \in DOMAIN list' /\ list'[q] = x
      BY <1>2, <1>6, <1>8, <3>1
    <3> QED BY <3>2 DEF Listed
  <2>3. p \in DOMAIN list' /\ list'[p] = item
    BY <1>6, <1>8
  <2>4. item \in Listed'
    BY <2>3 DEF Listed
  <2> QED BY <2>1, <2>2, <2>4
<1>11. /\ next' \in [Items -> Items \cup {Null}] /\ next'[c] = Null /\ next'[item] = At(p + 1)
       /\ \A x \in Items : x # c /\ x # item
             => next'[x] = IF x = At(p - 1) THEN item ELSE next[x]
  BY <1>1, <1>3, <1>7 DEF Relink, IInv, TypeOK
<1>12. /\ prev' \in [Items -> Items \cup {Null}] /\ prev'[c] = Null /\ prev'[item] = At(p - 1)
       /\ \A x \in Items : x # c /\ x # item
             => prev'[x] = IF x = At(p + 1) THEN item ELSE prev[x]
  BY <1>1, <1>3, <1>7 DEF Relink, IInv, TypeOK
<1>13. child' = IF p = 1 THEN item ELSE child
  BY <1>1, <1>3 DEF Relink
<1>14. TypeOK'
  BY <1>1, <1>3, <1>7, <1>9, <1>11, <1>12, <1>13 DEF IInv, TypeOK
<1>15. \A q \in Int : At(q)' = IF q = p THEN item ELSE At(q)
  BY <1>6, <1>8 DEF At
<1>16. \A q \in 1 .. n : next[list[q]] = At(q + 1) /\ prev[list[q]] = At(q - 1)
  BY <1>6 DEF IInv, Linked
<1>17. Linked'
  <2>1. child' = At(1)'
    BY <1>6, <1>13, <1>15 DEF IInv, Linked
  <2>2. ASSUME NEW q \in 1 .. n
        PROVE  next'[list'[q]] = At(q + 1)' /\ prev'[list'[q]] = At(q - 1)'
    <3>1. /\ At(q + 1)' = IF q = p - 1 THEN item ELSE At(q + 1)
          /\ At(q - 1)' = IF q = p + 1 THEN item ELSE At(q - 1)
      <4>1. (q + 1 = p <=> q = p - 1) /\ (q - 1 = p <=> q = p + 1)
        BY <1>6
      <4> QED BY <1>15, <4>1
    <3>2. CASE q = p
      <4>1. q # p - 1 /\ q # p + 1
        BY <1>6, <3>2
      <4> QED BY <1>8, <1>11, <1>12, <3>1, <3>2, <4>1
    <3>3. CASE q # p
      <4>1. list'[q] = list[q] /\ list[q] \in Items /\ list[q] # c /\ list[q] # item
        BY <1>4, <1>6, <1>7, <1>8, <3>3
      <4>2. /\ next'[list[q]] = IF list[q] = At(p - 1) THEN item ELSE At(q + 1)
            /\ prev'[list[q]] = IF list[q] = At(p + 1) THEN item ELSE At(q - 1)
        BY <1>11, <1>12, <1>16, <4>1
      <4>3. (list[q] = At(p - 1) <=> q = p - 1) /\ (list[q] = At(p + 1) <=> q = p + 1)
        BY <1>4, <1>6
      <4> QED BY <3>1, <4>1, <4>2, <4>3
    <3> QED BY <3>2, <3>3
  <2>3. \A x \in loose' : next'[x] = Null /\ prev'[x] = Null
    BY <1>1, <1>5, <1>11, <1>12 DEF IInv, Linked, TypeOK
  <2> QED BY <1>8, <2>1, <2>2, <2>3 DEF Linked
<1>18. OneOwner'
  <2>1. c \in Listed /\ InHand = {} /\ InHand' = {c}
    BY <1>1, <1>2 DEF Listed, InHand, AtIndex
  <2>2. item \notin Listed
    BY <1>7 DEF IInv, OneOwner
  <2>3. /\ heap' = loose' \cup Listed' \cup InHand'
        /\ Listed' \cap loose' = {} /\ InHand' \cap (Listed' \cup loose') = {}
    BY <1>1, <1>3, <1>7, <1>10, <2>1, <2>2 DEF IInv, OneOwner
  <2>4. \A q, r \in DOMAIN list' : list'[q] = list'[r] => q = r
    BY <1>6, <1>7, <1>8 DEF IInv, OneOwner
  <2> QED BY <2>3, <2>4 DEF OneOwner
<1>19. Asked' /\ Looking'
  BY <1>1, <1>3, <1>11 DEF Asked, Looking
<1> QED BY <1>14, <1>17, <1>18, <1>19 DEF IInv

----------------------------------------------------------------------------
(* The invariant.                                                          *)

LEMMA InitInv == Init => IInv
<1> SUFFICES ASSUME Init PROVE IInv
  OBVIOUS
<1>1. TypeOK
  BY NoKeyAssumption DEF Init, TypeOK
<1>2. Linked
  BY DEF Init, Linked, At
<1>3. OneOwner
  BY DEF Init, OneOwner, Listed, InHand
<1>4. Asked /\ Looking
  BY DEF Init, Asked, Looking
<1> QED BY <1>1, <1>2, <1>3, <1>4 DEF IInv

\* What the actions that look for a place ask.
LEMMA Looks ==
    ASSUME IInv, NEW op \in {"get", "detach", "delete"}
    PROVE  /\ CallByIndex(op) => IInv'
           /\ CallByKey(op) => IInv'
           /\ CallReplace => IInv'
<1>1. ASSUME CallByIndex(op) PROVE IInv'
  <2>1. PICK w \in -1 .. MaxIndex : Call(Request(op, "index", w, NoKey, Null), "index")
                                    /\ UNCHANGED <<string, loose>>
    BY <1>1 DEF CallByIndex
  <2> DEFINE r == Request(op, "index", w, NoKey, Null)
  <2>2. r \in Sequence!Requests /\ r.op = op /\ r.by = "index"
    BY NoKeyAssumption, MaxIndexAssumption DEF Request, Sequence!Requests
  <2> HIDE DEF r
  <2> QED BY <2>1, <2>2, CallLookStep DEF r
<1>2. ASSUME CallByKey(op) PROVE IInv'
  <2>1. PICK k \in Keys \ {NoKey} : Call(Request(op, "key", 0, k, Null), "key")
                                    /\ UNCHANGED <<string, loose>>
    BY <1>2 DEF CallByKey
  <2> DEFINE r == Request(op, "key", 0, k, Null)
  <2>2. r \in Sequence!Requests /\ r.op = op /\ r.by = "key" /\ r.which = 0
    BY DEF Request, Sequence!Requests
  <2> HIDE DEF r
  <2> QED BY <2>1, <2>2, CallLookStep DEF r
<1>3. ASSUME CallReplace PROVE IInv'
  <2>1. PICK x \in loose :
          \/ \E w \in -1 .. MaxIndex :
                Call(Request("replace", "index", w, string[x], x), "index")
                /\ UNCHANGED <<string, loose>>
          \/ \E k \in Keys \ {NoKey} :
                Call(Request("replace", "key", 0, k, x), "key")
                /\ UNCHANGED <<string, loose>>
    BY <1>3 DEF CallReplace
  <2>2. x \in Items /\ string[x] \in Keys
    BY DEF IInv, TypeOK
  <2>3. ASSUME NEW w \in -1 .. MaxIndex,
               Call(Request("replace", "index", w, string[x], x), "index"),
               UNCHANGED <<string, loose>>
        PROVE  IInv'
    <3> DEFINE r == Request("replace", "index", w, string[x], x)
    <3>1. r \in Sequence!Requests /\ r.op = "replace" /\ r.by = "index"
          /\ r.item = x /\ r.key = string[x]
      BY <2>2, MaxIndexAssumption DEF Request, Sequence!Requests
    <3>2. Call(r, "index")
      BY <2>3
    <3> HIDE DEF r
    <3> QED BY <2>3, <3>1, <3>2, CallLookStep
  <2>4. ASSUME NEW k \in Keys \ {NoKey},
               Call(Request("replace", "key", 0, k, x), "key"), UNCHANGED <<string, loose>>
        PROVE  IInv'
    <3> DEFINE r == Request("replace", "key", 0, k, x)
    <3>1. r \in Sequence!Requests /\ r.op = "replace" /\ r.by = "key"
          /\ r.item = x /\ r.which = 0
      BY <2>2 DEF Request, Sequence!Requests
    <3>2. Call(r, "key")
      BY <2>4
    <3> HIDE DEF r
    <3> QED BY <2>4, <3>1, <3>2, CallLookStep
  <2> QED BY <2>1, <2>3, <2>4
<1> QED BY <1>1, <1>2, <1>3

LEMMA InvStep == IInv /\ [Next]_vars => IInv'
<1> SUFFICES ASSUME IInv, [Next]_vars PROVE IInv'
  OBVIOUS
<1>1. CASE Begin
  <2>1. CallAdd("append", "last") \/ CallAdd("prepend", "head") => IInv'
    BY CallAddStep
  <2> QED BY <1>1, <2>1, NewStep, CallDeleteStep, Looks DEF Begin
<1>2. CASE Step
  BY <1>2, WalkLastStep, AddItemToArrayStep, AddItemToArrayHeadStep, WalkIndexStep,
     WalkKeyStep, KeyFoundStep, ReturnStep, DetachItemFromArrayStep,
     ReplaceItemInArrayStep, DeleteStep DEF Step
<1>3. CASE UNCHANGED vars
  <2>1. TypeOK' /\ Asked'
    BY <1>3 DEF vars, ptrs, IInv, TypeOK, Asked
  <2>2. Linked'
    BY <1>3, LinkedKept DEF vars, IInv
  <2>3. OneOwner'
    BY <1>3 DEF vars, IInv, OneOwner, Listed, InHand
  <2>4. Looking'
    BY <1>3 DEF vars, ptrs, IInv, Looking, At, NotBefore
  <2> QED BY <2>1, <2>2, <2>3, <2>4 DEF IInv
<1> QED BY <1>1, <1>2, <1>3 DEF Next

LEMMA Inductive == Spec => []IInv
BY InitInv, InvStep, PTL DEF Spec

\* The links, the loops and the history keep their types.
THEOREM ListTypeCorrect == Spec => []TypeOK
<1>1. IInv => TypeOK
  BY DEF IInv
<1> QED BY Inductive, <1>1, PTL

\* Add, Detach, Delete and Replace keep the forward and the backward links in
\* agreement at the head, in the middle and at the tail, and reset those of
\* every node they take out.
THEOREM LinksAgree == Spec => []Linked
<1>1. IInv => Linked
  BY DEF IInv
<1> QED BY Inductive, <1>1, PTL

\* No call frees a node that is still in a list or at a caller, and none
\* loses one.
THEOREM NothingFreedOrLost == Spec => []OneOwner
<1>1. IInv => OneOwner
  BY DEF IInv
<1> QED BY Inductive, <1>1, PTL

----------------------------------------------------------------------------
(* The calls are those of a sequence.                                      *)

\* The sequence the pointers stand for, each child with its name.
Children == [p \in DOMAIN list |-> [node |-> list[p], key |-> string[list[p]]]]

\* Steps that neither begin nor end a call.
LEMMA Stutters ==
    ASSUME UNCHANGED <<list, request, result>>,
           \A p \in DOMAIN list : string'[list[p]] = string[list[p]]
    PROVE  UNCHANGED Sequence!seqVars
BY DEF Sequence!seqVars

LEMMA Begins ==
    ASSUME UNCHANGED <<list, result>>, request = NoRequest, request' \in Sequence!Requests,
           \A p \in DOMAIN list : string'[list[p]] = string[list[p]]
    PROVE  Sequence!Next
BY DEF Sequence!Next, Sequence!Begin, Sequence!NoRequest, NoRequest

\* The names of the children change in no call to add.
LEMMA BeginImplements ==
    ASSUME IInv, IInv', Begin
    PROVE  Sequence!Next \/ UNCHANGED Sequence!seqVars
<1>1. ASSUME NEW x \in Items, New(x) PROVE UNCHANGED Sequence!seqVars
  <2>1. \A p \in DOMAIN list : list[p] # x /\ list[p] \in Items
    BY <1>1, Places DEF New, IInv, OneOwner, TypeOK, Listed
  <2>2. \A p \in DOMAIN list : string'[list[p]] = string[list[p]]
    BY <1>1, <2>1 DEF New, IInv, TypeOK
  <2> QED BY <1>1, <2>2, Stutters DEF New
<1>2. ASSUME NEW op, NEW loop \in {"last", "head"}, CallAdd(op, loop) PROVE Sequence!Next
  <2>1. PICK x \in loose, k \in Keys : /\ string' = [string EXCEPT ![x] = k]
                                       /\ Call(Request(op, "index", 0, k, x), loop)
    BY <1>2 DEF CallAdd
  <2>2. pc = "idle" /\ pc' = loop /\ UNCHANGED <<list, result>>
    BY <2>1 DEF Call
  <2>3. request = NoRequest /\ request' \in Sequence!Requests
    BY <1>2, <2>2 DEF IInv, TypeOK, Asked
  <2>4. \A p \in DOMAIN list : list[p] # x /\ list[p] \in Items
    BY Places DEF IInv, OneOwner, Listed
  <2>5. \A p \in DOMAIN list : string'[list[p]] = string[list[p]]
    BY <2>1, <2>4 DEF IInv, TypeOK
  <2> QED BY <2>2, <2>3, <2>5, Begins
<1>3. ASSUME NEW r, NEW loop \in {"index", "key"}, Call(r, loop), UNCHANGED string
      PROVE  Sequence!Next
  <2>1. pc = "idle" /\ pc' = loop /\ UNCHANGED <<list, result>>
    BY <1>3 DEF Call
  <2>2. request = NoRequest /\ request' \in Sequence!Requests
    BY <1>3, <2>1 DEF IInv, TypeOK, Asked
  <2> QED BY <1>3, <2>1, <2>2, Begins
<1>4. ASSUME NEW op, CallByIndex(op) PROVE Sequence!Next
  <2>1. PICK w \in -1 .. MaxIndex : Call(Request(op, "index", w, NoKey, Null), "index")
                                    /\ UNCHANGED <<string, loose>>
    BY <1>4 DEF CallByIndex
  <2> QED BY <1>3, <2>1
<1>5. ASSUME NEW op, CallByKey(op) PROVE Sequence!Next
  <2>1. PICK k \in Keys \ {NoKey} : Call(Request(op, "key", 0, k, Null), "key")
                                    /\ UNCHANGED <<string, loose>>
    BY <1>5 DEF CallByKey
  <2> QED BY <1>3, <2>1
<1>6. ASSUME CallReplace PROVE Sequence!Next
  <2>1. PICK x \in loose :
          \/ \E w \in -1 .. MaxIndex :
                Call(Request("replace", "index", w, string[x], x), "index")
                /\ UNCHANGED <<string, loose>>
          \/ \E k \in Keys \ {NoKey} :
                Call(Request("replace", "key", 0, k, x), "key")
                /\ UNCHANGED <<string, loose>>
    BY <1>6 DEF CallReplace
  <2> QED BY <1>3, <2>1
<1>7. CallAdd("append", "last") \/ CallAdd("prepend", "head") => Sequence!Next
  BY <1>2
<1>8. CallDelete => UNCHANGED Sequence!seqVars
  BY Stutters DEF CallDelete
<1> QED BY <1>1, <1>4, <1>5, <1>6, <1>7, <1>8 DEF Begin

\* Sequences, place by place.
LEMMA SeqOf ==
    ASSUME NEW S, NEW n \in Nat, NEW f \in [1 .. n -> S]
    PROVE  f \in Seq(S) /\ Len(f) = n
<1>1. f \in Seq(S)
  BY SeqDef
<1>2. DOMAIN f = 1 .. Len(f) /\ Len(f) \in Nat /\ DOMAIN f = 1 .. n
  BY <1>1
<1> QED BY <1>1, <1>2

LEMMA SeqIs ==
    ASSUME NEW S, NEW u \in Seq(S), NEW n, Len(u) = n
    PROVE  u = [p \in 1 .. n |-> u[p]]
<1>1. u \in [1 .. Len(u) -> S]
  BY LenProperties
<1> QED BY <1>1

LEMMA AppendIs ==
    ASSUME NEW S, NEW s \in Seq(S), NEW e \in S
    PROVE  Append(s, e) = [p \in 1 .. Len(s) + 1 |-> IF p = Len(s) + 1 THEN e ELSE s[p]]
<1>1. Append(s, e) \in Seq(S) /\ Len(Append(s, e)) = Len(s) + 1
      /\ \A p \in 1 .. Len(s) : Append(s, e)[p] = s[p]
      /\ Append(s, e)[Len(s) + 1] = e
  BY AppendProperties
<1>2. Append(s, e) = [p \in 1 .. Len(s) + 1 |-> Append(s, e)[p]]
  BY <1>1, SeqIs
<1>3. ASSUME NEW p \in 1 .. Len(s) + 1
      PROVE  Append(s, e)[p] = IF p = Len(s) + 1 THEN e ELSE s[p]
  <2>1. Len(s) \in Nat /\ (p # Len(s) + 1 => p \in 1 .. Len(s))
    OBVIOUS
  <2> QED BY <1>1, <2>1
<1> QED BY <1>2, <1>3

LEMMA PrependIs ==
    ASSUME NEW S, NEW s \in Seq(S), NEW e \in S
    PROVE  <<e>> \o s = [p \in 1 .. Len(s) + 1 |-> IF p = 1 THEN e ELSE s[p - 1]]
<1> DEFINE t == <<e>>
<1>1. t \in Seq(S) /\ Len(t) = 1 /\ t[1] = e
  OBVIOUS
<1> HIDE DEF t
<1>2. t \o s \in Seq(S) /\ Len(t \o s) = Len(t) + Len(s)
      /\ \A p \in 1 .. Len(t) + Len(s) :
            (t \o s)[p] = IF p <= Len(t) THEN t[p] ELSE s[p - Len(t)]
  BY <1>1, ConcatProperties
<1>3. Len(s) \in Nat /\ Len(t) + Len(s) = Len(s) + 1
  BY <1>1
<1>4. t \o s = [p \in 1 .. Len(s) + 1 |-> (t \o s)[p]]
  BY <1>2, <1>3, SeqIs
<1>5. ASSUME NEW p \in 1 .. Len(s) + 1
      PROVE  (t \o s)[p] = IF p = 1 THEN e ELSE s[p - 1]
  <2>1. p <= 1 <=> p = 1
    BY <1>3
  <2> QED BY <1>1, <1>2, <1>3, <2>1
<1>6. t \o s = [p \in 1 .. Len(s) + 1 |-> IF p = 1 THEN e ELSE s[p - 1]]
  BY <1>4, <1>5
<1> QED BY <1>6 DEF t

\* AddItemToArray puts the new child after the last, AddItemToArrayHead
\* before the first.
LEMMA AddImplements ==
    ASSUME IInv, AddItemToArray \/ AddItemToArrayHead
    PROVE  Sequence!Next
<1> DEFINE item == request.item
<1> DEFINE n == Len(list)
<1> DEFINE new == [node |-> item, key |-> request.key]
<1>1. pc \in {"last", "head"} /\ request' = NoRequest /\ result' = item /\ string' = string
  BY DEF AddItemToArray, AddItemToArrayHead, Return
<1>2. string[item] = request.key
      /\ request.op = IF pc = "last" THEN "append" ELSE "prepend"
  BY <1>1 DEF IInv, Asked
<1>3. n \in Nat /\ list \in Seq(Items) /\ DOMAIN list = 1 .. n
  BY Places DEF IInv
<1>4. Children \in Seq([node : Items, key : Keys]) /\ Len(Children) = n
  <2>1. \A p \in 1 .. n : list[p] \in Items /\ string[list[p]] \in Keys
    BY <1>3, Places DEF IInv, TypeOK
  <2>2. Children \in [1 .. n -> [node : Items, key : Keys]]
    BY <1>3, <2>1 DEF Children
  <2> QED BY <1>3, <2>2, SeqOf
<1>5. new \in [node : Items, key : Keys]
  <2>1. item \in Items
    BY <1>1, Brought
  <2> QED BY <1>2, <2>1 DEF IInv, TypeOK
<1>6. ASSUME AddItemToArray PROVE Children' = Append(Children, new)
  <2>1. list' = Append(list, item)
    BY <1>6 DEF AddItemToArray
  <2> HIDE DEF item
  <2>2. DOMAIN list' = 1 .. n + 1 /\ list'[n + 1] = item
        /\ \A p \in 1 .. n : list'[p] = list[p]
    BY <1>3, <2>1
  <2>3. DOMAIN Children' = 1 .. n + 1
    BY <2>2 DEF Children
  <2>4. Children'[n + 1] = new
    BY <1>1, <1>2, <1>3, <2>2 DEF Children
  <2>5. ASSUME NEW p \in 1 .. n PROVE Children'[p] = Children[p]
    <3>1. p \in 1 .. n + 1
      BY <1>3
    <3> QED BY <1>1, <1>3, <2>2, <3>1 DEF Children
  <2>6. Children' = [p \in 1 .. n + 1 |-> Children'[p]]
    BY <2>2 DEF Children
  <2>7. Append(Children, new) = [p \in 1 .. n + 1 |-> IF p = n + 1 THEN new ELSE Children[p]]
    BY <1>4, <1>5, AppendIs
  <2> HIDE DEF new, n
  <2>8. ASSUME NEW p \in 1 .. n + 1
        PROVE  Children'[p] = IF p = n + 1 THEN new ELSE Children[p]
    <3>1. p # n + 1 => p \in 1 .. n
      BY <1>3
    <3> QED BY <2>4, <2>5, <3>1
  <2> QED BY <2>6, <2>7, <2>8
<1>7. ASSUME AddItemToArrayHead PROVE Children' = <<new>> \o Children
  <2>1. list' = <<item>> \o list
    BY <1>7 DEF AddItemToArrayHead
  <2> HIDE DEF item
  <2>2. DOMAIN list' = 1 .. n + 1 /\ list'[1] = item
        /\ \A p \in 1 .. n + 1 : p # 1 => p - 1 \in 1 .. n /\ list'[p] = list[p - 1]
    BY <1>3, <2>1
  <2>3. Children' = [p \in 1 .. n + 1 |-> Children'[p]]
    BY <2>2 DEF Children
  <2>4. Children'[1] = new
    BY <1>1, <1>2, <1>3, <2>2 DEF Children
  <2>5. ASSUME NEW p \in 1 .. n + 1, p # 1 PROVE Children'[p] = Children[p - 1]
    BY <1>1, <1>3, <2>2, <2>5 DEF Children
  <2> HIDE DEF new, n
  <2>6. <<new>> \o Children = [p \in 1 .. n + 1 |-> IF p = 1 THEN new ELSE Children[p - 1]]
    BY <1>4, <1>5, PrependIs
  <2> HIDE DEF new, n
  <2>7. ASSUME NEW p \in 1 .. n + 1
        PROVE  Children'[p] = IF p = 1 THEN new ELSE Children[p - 1]
    BY <2>4, <2>5
  <2> QED BY <2>3, <2>6, <2>7
<1>8. AddItemToArray => Sequence!AtEnd
  <2>1. AddItemToArray => request.op = "append"
    BY <1>2 DEF AddItemToArray
  <2> QED BY <1>1, <1>6, <2>1
          DEF Sequence!AtEnd, Sequence!Child, Sequence!Done, Children, NoRequest,
              Sequence!NoRequest
<1>9. AddItemToArrayHead => Sequence!AtHead
  <2>1. AddItemToArrayHead => request.op = "prepend"
    BY <1>2 DEF AddItemToArrayHead
  <2> QED BY <1>1, <1>7, <2>1
          DEF Sequence!AtHead, Sequence!Child, Sequence!Done, Children, NoRequest,
              Sequence!NoRequest
<1> QED BY <1>8, <1>9 DEF Sequence!Next

\* A loop by key that stops at a child has the place the call names; one
\* that runs off the end shows that there is none.
LEMMA KeyPlace ==
    ASSUME IInv, pc = "key", c # Null, string[c] = request.key
    PROVE  i + 1 \in DOMAIN list /\ c = list[i + 1] /\ i + 1 = Sequence!Place(request)
<1>1. request.by = "key" /\ i \in Nat /\ c = At(i + 1) /\ NotBefore(i + 1)
  BY DEF IInv, Looking
<1>2. i + 1 \in DOMAIN list /\ c = list[i + 1]
  BY <1>1 DEF At
<1>3. \A q \in Sequence!Named(request.key) : q \in DOMAIN list /\ string[list[q]] = request.key
  BY DEF Sequence!Named
<1>4. DOMAIN list = 1 .. Len(list) /\ Len(list) \in Nat
  BY Places DEF IInv
<1>5. i + 1 \in Sequence!Named(request.key)
  BY <1>2 DEF Sequence!Named
<1>6. \A q \in Sequence!Named(request.key) : i + 1 <= q /\ q \in Nat
  BY <1>1, <1>3, <1>4 DEF NotBefore
<1>7. \A x : x \in Sequence!Named(request.key) /\ (\A q \in Sequence!Named(request.key) : x <= q)
                => x = i + 1
  BY <1>1, <1>5, <1>6
<1>8. i + 1 = CHOOSE x \in Sequence!Named(request.key) : \A q \in Sequence!Named(request.key) : x <= q
  BY <1>5, <1>6, <1>7
<1> QED BY <1>1, <1>2, <1>5, <1>8 DEF Sequence!Place

LEMMA NoPlace ==
    ASSUME IInv, pc \in {"index", "key"}, c = Null
    PROVE  Sequence!Place(request) \notin DOMAIN list
<1>1. DOMAIN list = 1 .. Len(list) /\ Len(list) \in Nat
  BY Places DEF IInv
<1>2. \A p \in Int : At(p) # Null <=> p \in DOMAIN list
  BY Places DEF IInv
<1>3. i \in Int /\ which \in Int
  BY DEF IInv, TypeOK
<1>4. CASE pc = "index"
  <2>1. IF i < 0 THEN 1 \notin DOMAIN list
        ELSE which \in 0 .. i /\ i - which + 1 \notin DOMAIN list
    BY <1>2, <1>3, <1>4 DEF IInv, Looking
  <2>2. request.by = "index" /\ i = request.which
    BY <1>1, <1>3, <1>4, <2>1 DEF IInv, Looking
  <2>3. Sequence!Place(request) = IF i < 0 THEN 1 ELSE i + 1
    BY <2>2 DEF Sequence!Place
  <2> QED BY <1>1, <1>3, <2>1, <2>3
<1>5. CASE pc = "key"
  <2>1. request.by = "key" /\ i \in Nat /\ i + 1 \notin DOMAIN list /\ NotBefore(i + 1)
    BY <1>2, <1>5 DEF IInv, Looking
  <2>2. \A q \in DOMAIN list : q < i + 1
    BY <1>1, <2>1
  <2>3. Sequence!Named(request.key) = {}
    BY <2>1, <2>2 DEF Sequence!Named, NotBefore
  <2>4. DOMAIN Children = 1 .. Len(list)
    BY <1>1 DEF Children
  <2>5. Len(Children) = Len(list)
    <3>1. Children \in [1 .. Len(list) -> {Children[p] : p \in 1 .. Len(list)}]
      BY <1>1 DEF Children
    <3> QED BY <1>1, <3>1, SeqOf
  <2>6. Sequence!Place(request) = Len(Children) + 1
    BY <2>1, <2>3 DEF Sequence!Place, Children
  <2> QED BY <1>1, <2>5, <2>6
<1> QED BY <1>4, <1>5

\* A search that fails does nothing, and one by Get finds the child at the
\* place.
LEMMA LookImplements ==
    ASSUME IInv, NotThere \/ Get
    PROVE  Sequence!Next
<1>1. /\ pc \in {"index", "key"} /\ request' = NoRequest
      /\ UNCHANGED <<string, list>>
  BY DEF NotThere, Get, AtIndex, Return
<1>2. request.op \in {"get", "detach", "delete", "replace"}
  BY <1>1 DEF IInv, Asked
<1>3. UNCHANGED Children
  BY <1>1 DEF Children
<1>4. CASE NotThere
  <2>1. result' = Null /\ c = Null
    BY <1>4 DEF NotThere, Return
  <2>2. Sequence!Place(request) \notin DOMAIN Children
    BY <1>1, <2>1, NoPlace DEF Children
  <2>3. ~Sequence!There /\ Sequence!Found = Null
    BY <2>2 DEF Sequence!There, Sequence!Found, Children
  <2>4. Sequence!Done(Sequence!Found)
    BY <1>1, <2>1, <2>3 DEF Sequence!Done, NoRequest, Sequence!NoRequest
  <2> QED BY <1>2, <1>3, <2>3, <2>4
          DEF Sequence!Next, Sequence!Get, Sequence!TakeOut, Sequence!Replace, Children
<1>5. CASE Get
  <2>1. result' = c /\ c # Null /\ request.op = "get"
        /\ (AtIndex \/ (pc = "key" /\ string[c] = request.key))
    BY <1>5 DEF Get, Return, AtIndex
  <2>2. Sequence!Place(request) \in DOMAIN list /\ c = list[Sequence!Place(request)]
    BY <2>1, AtPlace, KeyPlace
  <2>3. Sequence!Found = c
    BY <2>2 DEF Sequence!There, Sequence!Found
  <2>4. Sequence!Done(Sequence!Found)
    BY <1>1, <2>1, <2>3 DEF Sequence!Done, NoRequest, Sequence!NoRequest
  <2> QED BY <1>3, <2>1, <2>4 DEF Sequence!Next, Sequence!Get, Children
<1> QED BY <1>4, <1>5

\* Detach, Delete and Replace change the child at the place and no other.
LEMMA TakeOutImplements ==
    ASSUME IInv, DetachItemFromArray
    PROVE  Sequence!Next
<1> DEFINE n == Len(list)
<1> DEFINE p == Sequence!Place(request)
<1>1. /\ AtIndex /\ list' = Without(PlaceOf(c)) /\ request' = NoRequest /\ result' = c
      /\ UNCHANGED string /\ request.op \in {"detach", "delete"}
  BY DEF DetachItemFromArray
<1>2. p \in DOMAIN list /\ c = list[p]
  BY <1>1, AtPlace
<1>3. PlaceOf(c) = p
  BY <1>2, Neighbours
<1>4. n \in Nat /\ DOMAIN list = 1 .. n
  BY Places DEF IInv
<1>5. Sequence!There /\ Sequence!Found = c
  BY <1>2 DEF Sequence!There, Sequence!Found
<1>6. Len(Children) = n /\ DOMAIN Children = 1 .. n
  <2>1. Children \in [1 .. n -> {Children[q] : q \in 1 .. n}]
    BY <1>4 DEF Children
  <2> QED BY <1>4, <2>1, SeqOf
<1>7. Sequence!Without(p) = [q \in 1 .. n - 1 |-> Children[IF q < p THEN q ELSE q + 1]]
  BY <1>6 DEF Sequence!Without, Children
<1> HIDE DEF n, p
<1>8. list' = [q \in 1 .. n - 1 |-> list[IF q < p THEN q ELSE q + 1]]
  BY <1>1, <1>3 DEF Without, n
<1>9. Children' = [q \in 1 .. n - 1 |-> Children'[q]]
  BY <1>8 DEF Children
<1>10. ASSUME NEW q \in 1 .. n - 1
       PROVE  Children'[q] = Children[IF q < p THEN q ELSE q + 1]
  <2>1. q \in DOMAIN list' /\ list'[q] = list[IF q < p THEN q ELSE q + 1]
    BY <1>8
  <2>2. (IF q < p THEN q ELSE q + 1) \in DOMAIN list
    BY <1>2, <1>4
  <2> QED BY <1>1, <2>1, <2>2 DEF Children
<1>11. Children' = Sequence!Without(p)
  BY <1>7, <1>9, <1>10
<1> QED BY <1>1, <1>5, <1>11
        DEF Sequence!Next, Sequence!TakeOut, Sequence!Done, NoRequest, Sequence!NoRequest,
            Children, p

LEMMA ReplaceImplements ==
    ASSUME IInv, ReplaceItemInArray
    PROVE  Sequence!Next
<1> DEFINE item == request.item
<1> DEFINE p == Sequence!Place(request)
<1> DEFINE new == [node |-> item, key |-> request.key]
<1>1. /\ AtIndex /\ request' = NoRequest /\ result' = c
      /\ list' = [q \in DOMAIN list |-> IF list[q] = c THEN item ELSE list[q]]
      /\ UNCHANGED string /\ request.op = "replace"
  BY DEF ReplaceItemInArray
<1>2. p \in DOMAIN list /\ c = list[p]
  BY <1>1, AtPlace
<1>3. \A q \in DOMAIN list : list[q] = c <=> q = p
  BY <1>2, Neighbours
<1>4. string[item] = request.key
  BY <1>1 DEF IInv, Asked, AtIndex
<1>5. Sequence!There /\ Sequence!Found = c
  BY <1>2 DEF Sequence!There, Sequence!Found
<1> HIDE DEF p
<1>6. Children' = [Children EXCEPT ![p] = new]
  <2>1. DOMAIN list' = DOMAIN list
        /\ \A q \in DOMAIN list : list'[q] = IF q = p THEN item ELSE list[q]
    BY <1>1, <1>3
  <2> QED BY <1>1, <1>2, <1>4, <2>1 DEF Children
<1> QED BY <1>1, <1>5, <1>6
        DEF Sequence!Next, Sequence!Replace, Sequence!Done, Sequence!Child, NoRequest,
            Sequence!NoRequest, Children, p

LEMMA StepImplements ==
    ASSUME IInv, IInv', [Next]_vars
    PROVE  [Sequence!Next]_Sequence!seqVars
<1>1. CASE Begin
  BY <1>1, BeginImplements
<1>2. CASE WalkLast \/ WalkIndex \/ WalkKey \/ Delete \/ UNCHANGED vars
  BY <1>2, Stutters DEF WalkLast, WalkIndex, WalkKey, Delete, vars
<1>3. CASE KeyFound
  <2>1. UNCHANGED <<list, request, result>>
    BY <1>3 DEF KeyFound
  <2>2. \A p \in DOMAIN list : string'[list[p]] = string[list[p]]
    <3>1. request.op = "replace" => request.item \in loose /\ request.item \in Items
                                    /\ request.item \notin Listed
      BY <1>3 DEF KeyFound, IInv, Asked, OneOwner, TypeOK
    <3> QED BY <1>3, <3>1, Places DEF KeyFound, Listed, IInv, TypeOK
  <2> QED BY <2>1, <2>2, Stutters
<1>4. CASE AddItemToArray \/ AddItemToArrayHead
  BY <1>4, AddImplements
<1>5. CASE NotThere \/ Get
  BY <1>5, LookImplements
<1>6. CASE DetachItemFromArray
  BY <1>6, TakeOutImplements
<1>7. CASE ReplaceItemInArray
  BY <1>7, ReplaceImplements
<1> QED BY <1>1, <1>2, <1>3, <1>4, <1>5, <1>6, <1>7 DEF Next, Step

\* Every history of the pointers is one of a sequence: a call takes effect
\* once, at the place its index or its key names, or not at all.
THEOREM ListIsSequence == Spec => ImplementsSequence
<1>1. Init => Sequence!Init
  BY DEF Init, Sequence!Init, NoRequest, Sequence!NoRequest
<1>2. IInv /\ IInv' /\ [Next]_vars => [Sequence!Next]_Sequence!seqVars
  BY StepImplements
<1> QED BY Inductive, <1>1, <1>2, PTL DEF Spec, ImplementsSequence, Sequence!Spec

----------------------------------------------------------------------------
(* Memory.  What is freed is what was taken out, and no pointer leads      *)
(* there.                                                                  *)

\* Every pointer a call can follow leads to an allocated node or is null:
\* the parent's, the cursor's, and the links of every node that is allocated.
PointersAlive ==
    /\ child \in heap \cup {Null}
    /\ pc # "idle" => c \in heap \cup {Null}
    /\ pc = "free" => c # Null
    /\ \A x \in heap : next[x] \in heap \cup {Null} /\ prev[x] \in heap \cup {Null}

\* cJSON_Delete walks the next pointers of what it frees.  It finds none: a
\* call frees the one node it holds, which is neither in the list nor the
\* callers', and returns.
FreesOnlyItsOwn ==
    [][~(heap \subseteq heap') =>
          /\ pc = "free" /\ pc' = "idle"
          /\ heap' = heap \ {c}
          /\ c \notin Listed \cup loose]_vars

\* What is about to be freed has no link backwards either.
FreeAlone == pc = "free" => prev[c] = Null

LEMMA InitAlone == Init => FreeAlone
BY DEF Init, FreeAlone

LEMMA StepAlone == IInv /\ FreeAlone /\ [Next]_vars => FreeAlone'
<1> SUFFICES ASSUME IInv, FreeAlone, [Next]_vars, pc' = "free" PROVE prev'[c'] = Null
  BY DEF FreeAlone
<1>1. CASE CallDelete
  BY <1>1 DEF CallDelete, ptrs, IInv, Linked
<1>2. CASE DetachItemFromArray \/ ReplaceItemInArray
  <2>1. c \in Items /\ c' = c
    BY <1>2 DEF AtIndex, DetachItemFromArray, ReplaceItemInArray, IInv, TypeOK
  <2> QED BY <1>2, <2>1 DEF DetachItemFromArray, ReplaceItemInArray, Unlink, Relink
<1>3. CASE Delete
  BY <1>3 DEF Delete, IInv, Asked
<1>4. CASE \/ WalkLast \/ AddItemToArray \/ AddItemToArrayHead \/ WalkIndex \/ WalkKey
           \/ KeyFound \/ NotThere \/ Get
  BY <1>4 DEF WalkLast, AddItemToArray, AddItemToArrayHead, WalkIndex, WalkKey, KeyFound, NotThere,
     Get, Return, AtIndex
<1>5. CASE Begin /\ ~CallDelete
  BY <1>5 DEF Begin, New, CallAdd, CallByIndex, CallByKey, CallReplace, Call
<1>6. CASE UNCHANGED vars
  BY <1>6 DEF vars, ptrs, FreeAlone
<1> QED BY <1>1, <1>2, <1>3, <1>4, <1>5, <1>6 DEF Next, Begin, Step

LEMMA AlwaysAlone == Spec => []FreeAlone
BY InitAlone, StepAlone, Inductive, PTL DEF Spec

\* No call of cJSON follows a pointer to a node that was freed, however the
\* calls that detach, replace and delete come one after the other.
THEOREM NoFreedNodeReached == Spec => []PointersAlive
<1>1. ASSUME IInv, FreeAlone PROVE PointersAlive
  <2> USE <1>1 DEF IInv
  <2>1. \A p \in Int : At(p) \in heap \cup {Null}
    BY Places DEF At, OneOwner, Listed
  <2>2. \A p \in DOMAIN list : list[p] \in heap /\ p \in Int
    BY Places DEF OneOwner, Listed
  <2>3. child \in heap \cup {Null}
    BY <2>1 DEF Linked
  <2>4. pc # "idle" => c \in heap \cup {Null}
    <3>1. CASE pc = "last"
      BY <3>1, <2>2 DEF Looking
    <3>2. CASE pc = "head"
      BY <3>2, <2>3 DEF Looking
    <3>3. CASE pc \in {"index", "key"}
      <4>1. i \in Int /\ which \in Int
        BY DEF TypeOK
      <4> QED BY <3>3, <4>1, <2>1 DEF Looking
    <3>4. CASE pc = "free"
      BY <3>4 DEF OneOwner, InHand
    <3> QED BY <3>1, <3>2, <3>3, <3>4 DEF TypeOK
  <2>5. pc = "free" => c # Null
    BY NullAssumption DEF Asked
  <2>6. ASSUME NEW x \in heap PROVE next[x] \in heap \cup {Null} /\ prev[x] \in heap \cup {Null}
    <3>1. CASE x \in loose
      BY <3>1 DEF Linked
    <3>2. CASE x \in Listed
      <4>1. PICK p \in DOMAIN list : x = list[p]
        BY <3>2 DEF Listed
      <4>2. next[x] = At(p + 1) /\ prev[x] = At(p - 1) /\ p + 1 \in Int /\ p - 1 \in Int
        BY <4>1, <2>2 DEF Linked
      <4> QED BY <4>2, <2>1
    <3>3. CASE x \in InHand
      BY <3>3 DEF InHand, Asked, FreeAlone
    <3> QED BY <3>1, <3>2, <3>3 DEF OneOwner
  <2> QED BY <2>3, <2>4, <2>5, <2>6 DEF PointersAlive
<1> QED BY <1>1, Inductive, AlwaysAlone, PTL

\* cJSON_Delete, called on what was detached or replaced, frees that node and
\* none of its former neighbours.
THEOREM OneFreedAtATime == Spec => FreesOnlyItsOwn
<1>1. ASSUME IInv, Next, ~(heap \subseteq heap')
      PROVE  /\ pc = "free" /\ pc' = "idle" /\ heap' = heap \ {c}
             /\ c \notin Listed \cup loose
  <2>1. Delete
    BY <1>1 DEF Next, Begin, Step, New, CallAdd, CallByIndex, CallByKey, CallReplace, CallDelete, Call,
       WalkLast, AddItemToArray, AddItemToArrayHead, WalkIndex, WalkKey, KeyFound, NotThere, Get,
       DetachItemFromArray, ReplaceItemInArray
  <2> QED BY <1>1, <2>1 DEF Delete, IInv, Asked, OneOwner, InHand
<1>2. IInv /\ [Next]_vars
        => [~(heap \subseteq heap') => /\ pc = "free" /\ pc' = "idle" /\ heap' = heap \ {c}
                                    /\ c \notin Listed \cup loose]_vars
  BY <1>1
<1> QED BY <1>2, Inductive, PTL DEF Spec, FreesOnlyItsOwn

----------------------------------------------------------------------------
(* The safety half of CallsReturn: a call takes a bounded number of steps. *)

\* The nodes from the cursor to the end of the list.
Ahead == IF c \in Listed THEN Len(list) + 1 - PlaceOf(c) ELSE 0

\* The steps a call has left at most: a loop by key may be followed by one by
\* index over the whole list.
StepsLeft ==
    IF pc = "idle" THEN 0
    ELSE IF pc \in {"head", "free"} THEN 1
    ELSE IF pc = "last" THEN 1 + Ahead
    ELSE IF pc = "index" THEN 2 + Ahead
    ELSE 3 + Len(list) + Ahead

CallsAreShort == StepsLeft \in 0 .. 3 + 2 * Len(list)
CallsGetOn == [][Step => StepsLeft' < StepsLeft]_vars

LEMMA PlaceIs ==
    ASSUME IInv, NEW p \in DOMAIN list
    PROVE  PlaceOf(list[p]) = p
<1>1. \A q \in DOMAIN list : list[q] = list[p] => q = p
  BY DEF IInv, OneOwner
<1> QED BY <1>1 DEF PlaceOf

LEMMA AheadBounds ==
    ASSUME IInv
    PROVE  /\ Ahead \in 0 .. Len(list)
           /\ \A p \in DOMAIN list : c = list[p] => Ahead = Len(list) + 1 - p
<1>1. /\ Len(list) \in Nat /\ DOMAIN list = 1 .. Len(list)
  BY Places DEF IInv
<1>2. ASSUME NEW p \in DOMAIN list, c = list[p] PROVE Ahead = Len(list) + 1 - p
  BY <1>2, PlaceIs DEF Ahead, Listed
<1>3. c \notin Listed => Ahead = 0
  BY DEF Ahead
<1>4. c \in Listed => \E p \in DOMAIN list : c = list[p]
  BY DEF Listed
<1> QED BY <1>1, <1>2, <1>3, <1>4

\* A step of a loop leaves one node fewer ahead.
LEMMA Advance ==
    ASSUME IInv, IInv', c \in Listed, c' = next[c], UNCHANGED list
    PROVE  Ahead' < Ahead
<1>1. PICK p \in DOMAIN list : c = list[p]
  BY DEF Listed
<1>2. /\ Len(list) \in Nat /\ DOMAIN list = 1 .. Len(list)
  BY Places DEF IInv
<1>3. Ahead = Len(list) + 1 - p
  BY <1>1, AheadBounds
<1>4. c' = At(p + 1)
  BY <1>1 DEF IInv, Linked
<1>5. CASE p + 1 \in DOMAIN list
  <2>1. PlaceOf(list[p + 1]) = p + 1
    BY <1>5, PlaceIs
  <2>2. Ahead' = Len(list) + 1 - (p + 1)
    BY <1>4, <1>5, <2>1 DEF Ahead, Listed, At, PlaceOf
  <2> QED BY <1>2, <1>3, <2>2
<1>6. CASE p + 1 \notin DOMAIN list
  <2>1. c' \notin Listed'
    BY <1>4, <1>6, <1>2, Places, NullAssumption DEF At, Listed, IInv
  <2>2. Ahead' = 0
    BY <2>1 DEF Ahead
  <2> QED BY <1>2, <1>3, <2>2
<1> QED BY <1>5, <1>6

\* A cursor of a loop that is not null is in the list.
LEMMA CursorListed ==
    ASSUME IInv, pc \in {"last", "index", "key"}, c # Null
    PROVE  c \in Listed
<1>1. i \in Int /\ which \in Int
  BY DEF IInv, TypeOK
<1> QED BY <1>1 DEF IInv, Looking, At, Listed

\* Twice through the list and three steps more bound every call.
THEOREM CallsBounded == Spec => []CallsAreShort
<1>1. ASSUME IInv PROVE CallsAreShort
  <2>1. Len(list) \in Nat /\ Ahead \in 0 .. Len(list)
    BY <1>1, Places, AheadBounds DEF IInv
  <2> QED BY <2>1 DEF CallsAreShort, StepsLeft
<1> QED BY <1>1, Inductive, PTL

\* No step of a call is wasted: each leaves fewer steps to its end, whatever
\* list earlier calls have left.
THEOREM CallsComeToAnEnd == Spec => CallsGetOn
<1>a. IInv => Len(list) \in Nat /\ Ahead \in 0 .. Len(list)
  BY Places, AheadBounds DEF IInv
<1>b. IInv' => (Len(list) \in Nat /\ Ahead \in 0 .. Len(list))'
  BY <1>a, PTL
<1>1. ASSUME IInv, IInv', Step PROVE StepsLeft' < StepsLeft
  <2> DEFINE n == Len(list)
  <2>1. n \in Nat /\ Ahead \in 0 .. n /\ Ahead \in Int
    BY <1>1, <1>a
  <2>2. Ahead' \in Int /\ (UNCHANGED list => Ahead' \in 0 .. n)
    BY <1>1, <1>b
  <2>a. \A x, y \in Int : x < y => 1 + x < 1 + y /\ 2 + x < 2 + y
    OBVIOUS
  <2>3. CASE WalkLast
    <3>1. c \in Listed
      BY <1>1, <2>3, CursorListed DEF WalkLast
    <3>2. Ahead' < Ahead
      BY <1>1, <2>3, <3>1, Advance DEF WalkLast
    <3>3. StepsLeft = 1 + Ahead /\ StepsLeft' = 1 + Ahead'
      BY <2>3 DEF WalkLast, StepsLeft
    <3> QED BY <2>1, <2>2, <2>a, <3>2, <3>3
  <2>4. CASE WalkIndex
    <3>1. c \in Listed
      BY <1>1, <2>4, CursorListed DEF WalkIndex
    <3>2. Ahead' < Ahead
      BY <1>1, <2>4, <3>1, Advance DEF WalkIndex
    <3>3. StepsLeft = 2 + Ahead /\ StepsLeft' = 2 + Ahead'
      BY <2>4 DEF WalkIndex, StepsLeft
    <3> QED BY <2>1, <2>2, <2>a, <3>2, <3>3
  <2>5. CASE WalkKey
    <3>1. c \in Listed
      BY <1>1, <2>5, CursorListed DEF WalkKey
    <3>2. Ahead' < Ahead
      BY <1>1, <2>5, <3>1, Advance DEF WalkKey
    <3> QED BY <2>1, <2>2, <2>5, <3>2 DEF WalkKey, StepsLeft
  <2>6. CASE KeyFound
    BY <2>1, <2>2, <2>6 DEF KeyFound, StepsLeft
  <2>7. CASE AddItemToArray \/ AddItemToArrayHead \/ NotThere \/ Get
    BY <2>1, <2>7 DEF AddItemToArray, AddItemToArrayHead, NotThere, Get, Return, AtIndex, StepsLeft
  <2>8. CASE DetachItemFromArray \/ ReplaceItemInArray
    BY <2>1, <2>8 DEF DetachItemFromArray, ReplaceItemInArray, AtIndex, StepsLeft
  <2>9. CASE Delete
    BY <1>1, <2>9 DEF Delete, IInv, Asked, StepsLeft
  <2> QED BY <1>1, <2>3, <2>4, <2>5, <2>6, <2>7, <2>8, <2>9 DEF Step
<1>2. IInv /\ IInv' /\ [Next]_vars => [Step => StepsLeft' < StepsLeft]_vars
  BY <1>1
<1> QED BY <1>2, Inductive, PTL DEF Spec, CallsGetOn
=============================================================================
