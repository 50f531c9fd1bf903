--------------------------- MODULE Singleton_proofs ---------------------------
(***************************************************************************)
(* Double-checked locking constructs one object for any set of getters, as *)
(* long as no DeleteInstance has found an object; until then a copy is     *)
(* torn only within the one assignment.                                    *)
(***************************************************************************)
EXTENDS Singleton, FiniteSetTheorems, TLAPS

(* TypeOK also says who holds m_Mutex; that needs getters and deleters to  *)
(* stay in places of their own.                                            *)
Getting == {"idle", "lock", "inner", "make", "setptr", "setctrl", "unlock",
            "copy", "copyctrl", "copyptr"}
Places == \A t \in Getters : pc[t] \in Getting

(* While nothing has been deleted: the words are null or name object 1, a  *)
(* thread about to construct is the first one, the pointer is missing only *)
(* while its maker is still to write it, and whoever copies finds it set.  *)
Undeleted ==
    /\ made \in {0, 1} /\ ptr \in {0, 1} /\ ctrl \in {0, 1}
    /\ \A d \in Deleters : pc[d] = "idle"
    /\ made = 0 => ptr = 0 /\ ctrl = 0
    /\ \A t \in Getters :
          /\ pc[t] = "make" => made = 0
          /\ pc[t] \in {"setctrl", "unlock", "copy", "copyctrl", "copyptr"} => ptr = 1
          /\ pc[t] = "setptr" => made = 1
          /\ pc[t] = "inner" /\ ptr = 0 => made = 0
          /\ pc[t] = "copyctrl" => seen[t].ptr = 1
          /\ seen[t].ctrl \in {0, 1}
          /\ t \in returned /\ pc[t] \notin {"copyctrl", "copyptr"}
                => seen[t].ptr = 1
    /\ made = 1 /\ ptr = 0 => \E t \in Getters : pc[t] = "setptr"

IInv == TypeOK /\ Places /\ (deletes = 0 => Undeleted)

USE SingletonAssumption DEF Threads, Objects, Copy

LEMMA InitIInv == Init => IInv
<1> SUFFICES ASSUME Init PROVE IInv
  OBVIOUS
<1>1. pc \in [Threads -> {"idle"}]
  BY DEF Init
<1>2. TypeOK
  BY <1>1 DEF Init, TypeOK, Critical
<1>3. Places /\ Undeleted
  BY DEF Init, Places, Undeleted, Critical, Getting
<1> QED
  BY <1>2, <1>3 DEF IInv

(* Every action keeps the invariant.  For each, <2>1 is about the types    *)
(* and the mutex, <2>2 about the places and <2>3 about a history without *)
(* deletions.                                                              *)
LEMMA NextIInv == IInv /\ [Next]_vars => IInv'
<1> SUFFICES ASSUME IInv, [Next]_vars PROVE IInv'
  OBVIOUS
<1> USE DEF IInv, Go
<1>1. ASSUME NEW t \in Getters, OuterTest(t) PROVE IInv'
  <2>1. TypeOK'
    BY <1>1 DEF OuterTest, TypeOK, Places, Critical, Getting
  <2>2. Places'
    BY <1>1 DEF OuterTest, TypeOK, Places, Critical, Getting
  <2>3. (deletes = 0 => Undeleted)'
    BY <1>1 DEF OuterTest, TypeOK, Places, Undeleted, Critical, Getting
  <2> QED
    BY <2>1, <2>2, <2>3
<1>2. ASSUME NEW t \in Getters, Lock(t) PROVE IInv'
  <2>1. TypeOK'
    BY <1>2 DEF Lock, TypeOK, Places, Critical, Getting
  <2>2. Places'
    BY <1>2 DEF Lock, TypeOK, Places, Critical, Getting
  <2>3. (deletes = 0 => Undeleted)'
    BY <1>2 DEF Lock, TypeOK, Places, Undeleted, Critical, Getting
  <2> QED
    BY <2>1, <2>2, <2>3
<1>3. ASSUME NEW t \in Getters, InnerTest(t) PROVE IInv'
  <2>1. TypeOK'
    BY <1>3 DEF InnerTest, TypeOK, Places, Critical, Getting
  <2>2. Places'
    BY <1>3 DEF InnerTest, TypeOK, Places, Critical, Getting
  <2>3. (deletes = 0 => Undeleted)'
    BY <1>3 DEF InnerTest, TypeOK, Places, Undeleted, Critical, Getting
  <2> QED
    BY <2>1, <2>2, <2>3
<1>4. ASSUME NEW t \in Getters, Make(t) PROVE IInv'
  <2>1. TypeOK'
    BY <1>4 DEF Make, WriteFirst, TypeOK, Places, Critical, Getting
  <2>2. Places'
    BY <1>4 DEF Make, WriteFirst, TypeOK, Places, Critical, Getting
  <2>3. (deletes = 0 => Undeleted)'
    BY <1>4 DEF Make, WriteFirst, TypeOK, Places, Undeleted, Critical, Getting
  <2> QED
    BY <2>1, <2>2, <2>3
<1>5. ASSUME NEW t \in Getters, Assign(t) PROVE IInv'
  <2>1. TypeOK'
    BY <1>5 DEF Assign, WriteSecond, TypeOK, Places, Critical, Getting
  <2>2. Places'
    BY <1>5 DEF Assign, WriteSecond, TypeOK, Places, Critical, Getting
  <2>3. (deletes = 0 => Undeleted)'
    BY <1>5 DEF Assign, WriteSecond, TypeOK, Places, Undeleted, Critical, Getting
  <2> QED
    BY <2>1, <2>2, <2>3
<1>6. ASSUME NEW t \in Getters, Unlock(t) PROVE IInv'
  <2>1. TypeOK'
    BY <1>6 DEF Unlock, TypeOK, Places, Critical, Getting
  <2>2. Places'
    BY <1>6 DEF Unlock, TypeOK, Places, Critical, Getting
  <2>3. (deletes = 0 => Undeleted)'
    BY <1>6 DEF Unlock, TypeOK, Places, Undeleted, Critical, Getting
  <2> QED
    BY <2>1, <2>2, <2>3
<1>7. ASSUME NEW t \in Getters, ReadFirst(t) PROVE IInv'
  <2>1. TypeOK'
    BY <1>7 DEF ReadFirst, TypeOK, Places, Critical, Getting
  <2>2. Places'
    BY <1>7 DEF ReadFirst, TypeOK, Places, Critical, Getting
  <2>3. (deletes = 0 => Undeleted)'
    BY <1>7 DEF ReadFirst, TypeOK, Places, Undeleted, Critical, Getting
  <2> QED
    BY <2>1, <2>2, <2>3
<1>8. ASSUME NEW t \in Getters, ReadSecond(t) PROVE IInv'
  <2>1. TypeOK'
    BY <1>8 DEF ReadSecond, TypeOK, Places, Critical, Getting
  <2>2. Places'
    BY <1>8 DEF ReadSecond, TypeOK, Places, Critical, Getting
  <2>3. (deletes = 0 => Undeleted)'
    BY <1>8 DEF ReadSecond, TypeOK, Places, Undeleted, Critical, Getting
  <2> QED
    BY <2>1, <2>2, <2>3
<1>9. ASSUME NEW d \in Deleters, DeleteTest(d) PROVE IInv'
  <2>1. TypeOK'
    BY <1>9 DEF DeleteTest, TypeOK, Places, Critical, Getting
  <2>2. Places'
    BY <1>9 DEF DeleteTest, TypeOK, Places, Critical, Getting
  <2>3. (deletes = 0 => Undeleted)'
    BY <1>9 DEF DeleteTest, TypeOK, Places, Undeleted, Critical, Getting
  <2> QED
    BY <2>1, <2>2, <2>3
<1>10. ASSUME NEW d \in Deleters, DeleteWrite(d) PROVE IInv'
  <2>1. TypeOK'
    BY <1>10 DEF DeleteWrite, WriteFirst, WriteSecond, TypeOK, Places, Critical, Getting
  <2>2. Places'
    BY <1>10 DEF DeleteWrite, WriteFirst, WriteSecond, TypeOK, Places, Critical, Getting
  <2>3. (deletes = 0 => Undeleted)'
    BY <1>10 DEF DeleteWrite, WriteFirst, WriteSecond, TypeOK, Places, Undeleted, Critical, Getting
  <2> QED
    BY <2>1, <2>2, <2>3
<1>11. CASE UNCHANGED vars
  BY <1>11 DEF vars, TypeOK, Places, Critical, Undeleted
<1> QED
  BY <1>1, <1>2, <1>3, <1>4, <1>5, <1>6, <1>7, <1>8, <1>9, <1>10, <1>11
     DEF Next, GetInstance, DeleteInstance

LEMMA AlwaysIInv == Safety => []IInv
  BY InitIInv, NextIInv, PTL DEF Safety

(* The words and the places keep their types, and m_Mutex is always held   *)
(* by exactly the getter that is between lines 18 and 24.                  *)
THEOREM SingletonTypeCorrect == Safety => []TypeOK
<1>1. IInv => TypeOK
  BY DEF IInv
<1> QED
  BY <1>1, AlwaysIInv, PTL

(* As long as no DeleteInstance has found an object, T is constructed at   *)
(* most once and every handle returned points to that construction, for    *)
(* any number of threads racing through lines 16 to 25.                    *)
THEOREM ConstructedOnce == Safety => []OneInstance
<1>1. IInv => OneInstance
  BY DEF IInv, Undeleted, OneInstance, Handles, TypeOK
<1> QED
  BY <1>1, AlwaysIInv, PTL

------------------------------------------------------------------------------
(* A construction needs an empty pointer, and only a write of a deleter    *)
(* empties it: each deletion has two of them, some still to come.          *)
TwoToCome == {d \in Deleters : pc[d] \in {"reset", "resetptr"}}
OneToCome == {d \in Deleters : pc[d] \in {"resetctrl", "null", "nullptr"}}
Vacant == ptr = 0 /\ \A t \in Getters : pc[t] # "setptr"
Spent == made + (IF Vacant THEN 1 ELSE 0)
ToCome == 2 * Cardinality(TwoToCome) + Cardinality(OneToCome)

Accounts ==
    /\ IsFiniteSet(TwoToCome) /\ IsFiniteSet(OneToCome)
    /\ \A t \in Getters : /\ pc[t] = "make" => ptr = 0
                          /\ pc[t] = "setptr" => made # 0
    /\ Spent + ToCome <= 1 + 2 * deletes

LEMMA InitAccounts == Init => Accounts
<1> SUFFICES ASSUME Init PROVE Accounts
  OBVIOUS
<1>1. TwoToCome = {} /\ OneToCome = {}
  BY DEF Init, TwoToCome, OneToCome
<1>2. Spent <= 1 /\ ToCome = 0
  BY <1>1, FS_EmptySet DEF Init, Spent, ToCome
<1>3. Spent \in Nat
  BY DEF Init, Spent
<1> QED
  BY <1>1, <1>2, <1>3, FS_EmptySet DEF Init, Accounts

LEMMA Less ==
  ASSUME NEW s \in Nat, NEW t \in Nat, NEW c \in Nat, NEW n \in Nat, t <= s, s + c <= 1 + 2 * n
  PROVE  t + c <= 1 + 2 * n
  BY SMT

(* A getter leaves the deleters where they are.                            *)
LEMMA GetterAccounts ==
  ASSUME IInv, Accounts, NEW t \in Getters, GetInstance(t)
  PROVE  Accounts'
<1> USE DEF Go
<1>1. UNCHANGED <<TwoToCome, OneToCome, deletes>>
  BY DEF IInv, TypeOK, TwoToCome, OneToCome, GetInstance, OuterTest, Lock, InnerTest, Make, Assign,
     Unlock, ReadFirst, ReadSecond, WriteFirst, WriteSecond
<1>2. ToCome' = ToCome
  BY <1>1 DEF ToCome
<1>3. \A u \in Getters : u # t => pc'[u] = pc[u] /\ ~(pc[u] \in Critical /\ pc[t] \in Critical)
  BY DEF IInv, TypeOK, GetInstance, OuterTest, Lock, InnerTest, Make, Assign,
     Unlock, ReadFirst, ReadSecond, WriteFirst, WriteSecond
<1>4. CASE Make(t)
  <2>1. /\ pc[t] = "make" /\ made' = made + 1 /\ made \in Nat
        /\ \/ pc'[t] = "setptr" /\ ptr' = ptr
           \/ pc'[t] = "setctrl" /\ ptr' = made + 1
    BY <1>4 DEF Make, WriteFirst, IInv, TypeOK
  <2>2. ptr = 0 /\ Vacant
    BY <1>3, <2>1 DEF Accounts, Vacant, Critical
  <2>3. ~Vacant'
    BY <2>1 DEF Vacant
  <2>4. Spent' = Spent
    BY <2>1, <2>2, <2>3 DEF Spent
  <2>5. \A u \in Getters : (pc'[u] = "make" => ptr' = 0) /\ (pc'[u] = "setptr" => made' # 0)
    BY <1>3, <2>1 DEF Critical
  <2> QED
    BY <1>1, <1>2, <2>4, <2>5 DEF Accounts
<1>5. CASE Assign(t)
  <2>1. /\ made' = made /\ made \in Nat /\ pc'[t] = "unlock"
        /\ \/ pc[t] = "setptr" /\ ptr' = made
           \/ pc[t] = "setctrl" /\ ptr' = ptr
    BY <1>5 DEF Assign, WriteSecond, IInv, TypeOK
  <2>2. Vacant' => Vacant
    BY <1>3, <2>1 DEF Accounts, Vacant
  <2>3. Spent' \in Nat /\ Spent \in Nat /\ Spent' <= Spent
    BY <2>1, <2>2 DEF Spent
  <2>4. \A u \in Getters : (pc'[u] = "make" => ptr' = 0) /\ (pc'[u] = "setptr" => made' # 0)
    BY <1>3, <2>1 DEF Accounts, Critical
  <2>5. ToCome \in Nat /\ deletes \in Nat
    BY FS_CardinalityType DEF Accounts, ToCome, IInv, TypeOK
  <2>6. Spent' + ToCome' <= 1 + 2 * deletes'
    <3>1. Spent + ToCome <= 1 + 2 * deletes /\ ToCome' = ToCome /\ deletes' = deletes
      BY <1>1, <1>2 DEF Accounts
    <3> QED
      BY <2>3, <2>5, <3>1, Less, Zenon
  <2> QED
    BY <1>1, <2>4, <2>6 DEF Accounts
<1>6. CASE OuterTest(t) \/ Lock(t) \/ InnerTest(t) \/ Unlock(t) \/ ReadFirst(t) \/ ReadSecond(t)
  <2>1. /\ UNCHANGED <<ptr, made>>
        /\ pc[t] # "setptr" /\ pc'[t] # "setptr" /\ (pc'[t] = "make" => ptr = 0)
    BY <1>6 DEF OuterTest, Lock, InnerTest, Unlock, ReadFirst, ReadSecond, IInv, TypeOK
  <2>2. Vacant' = Vacant
    BY <1>3, <2>1 DEF Vacant
  <2>3. Spent' = Spent
    BY <2>1, <2>2 DEF Spent
  <2>4. \A u \in Getters : (pc'[u] = "make" => ptr' = 0) /\ (pc'[u] = "setptr" => made' # 0)
    BY <1>3, <2>1 DEF Accounts
  <2> QED
    BY <1>1, <1>2, <2>3, <2>4 DEF Accounts
<1> QED
  BY <1>4, <1>5, <1>6 DEF GetInstance

LEMMA Balance ==
  ASSUME NEW two \in Nat, NEW one \in Nat, NEW s \in Nat, NEW t \in Nat, NEW n \in Nat,
         t <= s + 1, two + two + one + s <= 1 + n + n
  PROVE  /\ t + (2 * (two - 1) + (one + 1)) <= 1 + 2 * n
         /\ t + (2 * two + (one - 1)) <= 1 + 2 * n
  BY SMT

LEMMA DeleterAccounts ==
  ASSUME IInv, Accounts, NEW d \in Deleters, DeleteInstance(d)
  PROVE  Accounts'
<1> USE DEF Go
<1> DEFINE two == Cardinality(TwoToCome)
           one == Cardinality(OneToCome)
<1>1. /\ IsFiniteSet(TwoToCome) /\ IsFiniteSet(OneToCome) /\ two \in Nat /\ one \in Nat
      /\ deletes \in Nat /\ made \in Nat /\ made' = made
  BY FS_CardinalityType DEF Accounts, IInv, TypeOK, DeleteInstance, DeleteTest, DeleteWrite,
     WriteFirst, WriteSecond
<1>2. /\ \A t \in Getters : pc'[t] = pc[t]
      /\ \A c \in Deleters : c # d => pc'[c] = pc[c]
      /\ ptr' = ptr \/ ptr' = 0
  BY DEF IInv, TypeOK, DeleteInstance, DeleteTest, DeleteWrite, WriteFirst, WriteSecond
<1>3. \A t \in Getters : (pc'[t] = "make" => ptr' = 0) /\ (pc'[t] = "setptr" => made' # 0)
  BY <1>1, <1>2 DEF Accounts
<1>4. Spent \in Nat /\ Spent' \in Nat /\ Spent' <= Spent + 1 /\ (ptr' = ptr => Spent' = Spent)
  <2>1. ptr' = ptr => Vacant' = Vacant
    BY <1>2 DEF Vacant
  <2> QED
    BY <1>1, <2>1 DEF Spent
<1>5. \/ /\ d \notin TwoToCome /\ TwoToCome' = TwoToCome \cup {d} /\ OneToCome' = OneToCome
         /\ deletes' = deletes + 1 /\ ptr' = ptr
      \/ /\ d \in TwoToCome /\ TwoToCome' = TwoToCome \ {d}
         /\ d \notin OneToCome /\ OneToCome' = OneToCome \cup {d} /\ deletes' = deletes
      \/ /\ TwoToCome' = TwoToCome /\ d \in OneToCome /\ OneToCome' = OneToCome \ {d}
         /\ deletes' = deletes
      \/ UNCHANGED <<TwoToCome, OneToCome, deletes, ptr>>
  <2>1. CASE DeleteTest(d)
    <3>1. pc[d] = "idle" /\ pc'[d] = "reset" /\ deletes' = deletes + 1 /\ ptr' = ptr
      BY <2>1 DEF DeleteTest, IInv, TypeOK
    <3> QED
      BY <1>2, <3>1 DEF TwoToCome, OneToCome
  <2>2. CASE DeleteWrite(d)
    <3>1. /\ deletes' = deletes
          /\ \/ pc[d] = "reset" /\ pc'[d] = "resetctrl"
             \/ pc[d] = "reset" /\ pc'[d] = "resetptr" /\ ptr' = ptr
             \/ pc[d] = "resetctrl" /\ pc'[d] = "null" /\ ptr' = ptr
             \/ pc[d] = "resetptr" /\ pc'[d] = "null"
             \/ pc[d] = "null" /\ pc'[d] = "nullctrl"
             \/ pc[d] = "null" /\ pc'[d] = "nullptr" /\ ptr' = ptr
             \/ pc[d] = "nullctrl" /\ pc'[d] = "idle" /\ ptr' = ptr
             \/ pc[d] = "nullptr" /\ pc'[d] = "idle"
      BY <2>2 DEF DeleteWrite, WriteFirst, WriteSecond, IInv, TypeOK
    <3>2. CASE pc[d] \in {"reset", "resetptr"} /\ pc'[d] \in {"resetctrl", "null"}
      BY <1>2, <3>1, <3>2 DEF TwoToCome, OneToCome
    <3>3. CASE pc[d] \in {"null", "nullptr"} /\ pc'[d] \in {"nullctrl", "idle"}
      BY <1>2, <3>1, <3>3 DEF TwoToCome, OneToCome
    <3>4. CASE /\ ptr' = ptr
               /\ \/ pc[d] = "reset" /\ pc'[d] = "resetptr"
                  \/ pc[d] = "resetctrl" /\ pc'[d] = "null"
                  \/ pc[d] = "null" /\ pc'[d] = "nullptr"
                  \/ pc[d] = "nullctrl" /\ pc'[d] = "idle"
      BY <1>2, <3>1, <3>4 DEF TwoToCome, OneToCome
    <3> QED
      BY <3>1, <3>2, <3>3, <3>4
  <2> QED
    BY <2>1, <2>2 DEF DeleteInstance
<1> HIDE DEF two, one
<1>6. two + two + one + Spent <= 1 + deletes + deletes
  BY <1>1, <1>4 DEF Accounts, ToCome, two, one
<1>7. /\ IsFiniteSet(TwoToCome') /\ IsFiniteSet(OneToCome')
      /\ Spent' + (2 * Cardinality(TwoToCome') + Cardinality(OneToCome')) <= 1 + 2 * deletes'
  <2>1. CASE /\ d \notin TwoToCome /\ TwoToCome' = TwoToCome \cup {d} /\ OneToCome' = OneToCome
             /\ deletes' = deletes + 1 /\ ptr' = ptr
    <3>1. /\ Cardinality(TwoToCome') = two + 1 /\ IsFiniteSet(TwoToCome')
          /\ Cardinality(OneToCome') = one /\ Spent' = Spent
      BY <1>1, <1>4, <2>1, FS_AddElement DEF two, one
    <3> QED
      BY <1>1, <1>4, <1>6, <2>1, <3>1
  <2>2. CASE /\ d \in TwoToCome /\ TwoToCome' = TwoToCome \ {d}
             /\ d \notin OneToCome /\ OneToCome' = OneToCome \cup {d} /\ deletes' = deletes
    <3>1. /\ Cardinality(TwoToCome') = two - 1 /\ IsFiniteSet(TwoToCome')
          /\ Cardinality(OneToCome') = one + 1 /\ IsFiniteSet(OneToCome')
      BY <1>1, <2>2, FS_AddElement, FS_RemoveElement DEF two, one
    <3> QED
      BY <1>1, <1>4, <1>6, <2>2, <3>1, Balance, Zenon
  <2>3. CASE /\ TwoToCome' = TwoToCome /\ d \in OneToCome /\ OneToCome' = OneToCome \ {d}
             /\ deletes' = deletes
    <3>1. /\ Cardinality(OneToCome') = one - 1 /\ IsFiniteSet(OneToCome')
          /\ Cardinality(TwoToCome') = two
      BY <1>1, <2>3, FS_RemoveElement DEF two, one
    <3> QED
      BY <1>1, <1>4, <1>6, <2>3, <3>1, Balance, Zenon
  <2>4. CASE UNCHANGED <<TwoToCome, OneToCome, deletes, ptr>>
    BY <1>1, <1>4, <1>6, <2>4 DEF two, one
  <2> QED
    BY <1>5, <2>1, <2>2, <2>3, <2>4
<1> QED
  BY <1>3, <1>7 DEF Accounts, ToCome

(* At most two constructions for each deletion and one more, for any       *)
(* number of getters and deleters.                                         *)
THEOREM TwoPerDelete == Safety => []BoundedInstances
<1>1. IInv /\ Accounts /\ [Next]_vars => Accounts'
  <2>1. IInv /\ Accounts /\ Next => Accounts'
    BY GetterAccounts, DeleterAccounts DEF Next
  <2>2. Accounts /\ UNCHANGED vars => Accounts'
    BY DEF vars, Accounts, TwoToCome, OneToCome, Vacant, Spent, ToCome
  <2> QED
    BY <2>1, <2>2
<1>2. IInv /\ Accounts => BoundedInstances
  <2> SUFFICES ASSUME IInv, Accounts PROVE made <= 1 + 2 * deletes
    BY DEF BoundedInstances
  <2>1. made \in Nat /\ deletes \in Nat /\ Cardinality(TwoToCome) \in Nat /\ Cardinality(OneToCome) \in Nat
    BY FS_CardinalityType DEF IInv, TypeOK, Accounts
  <2>2. Spent \in Nat /\ made <= Spent
    BY <2>1 DEF Spent
  <2> QED
    BY <2>1, <2>2 DEF Accounts, ToCome
<1> QED
  BY <1>1, <1>2, InitAccounts, AlwaysIInv, PTL DEF Safety

------------------------------------------------------------------------------
(* How long the race of lines 22 and 25 lasts while nobody deletes.        *)

(* The words of the one object, once written, stay, ...                    *)
WordsStay == [][deletes' = 0 => (ptr # 0 => ptr' = ptr) /\ (ctrl # 0 => ctrl' = ctrl)]_vars

(* ... and a copy misses the control block only if it reads that word      *)
(* while a maker has written the other and is still to write this one.     *)
CopiesCtrl(t) ==
    \/ ReadFirst(t) /\ pc'[t] = "copyptr"
    \/ ReadSecond(t) /\ pc[t] = "copyctrl"
MissesOnlyInAssign ==
    [][deletes' = 0 =>
         \A t \in Getters : CopiesCtrl(t) /\ seen'[t].ctrl = 0 =>
            \E u \in Getters : pc[u] = "setctrl"]_vars

(* The maker writes either word first.                                     *)
Assigning ==
    deletes = 0 =>
      /\ ptr # 0 /\ ctrl = 0 => \E u \in Getters : pc[u] = "setctrl"
      /\ \A t \in Getters : pc[t] = "setptr" => ctrl # 0

LEMMA WordsStep ==
  ASSUME IInv, [Next]_vars, deletes' = 0
  PROVE  /\ deletes = 0 /\ Undeleted
         /\ (ptr # 0 => ptr' = ptr) /\ (ctrl # 0 => ctrl' = ctrl)
<1> USE DEF IInv, Go
<1>1. ASSUME NEW t \in Getters, GetInstance(t)
      PROVE  /\ deletes = 0
             /\ (ptr # 0 => ptr' = ptr) /\ (ctrl # 0 => ctrl' = ctrl)
  <2>1. deletes = 0
    BY <1>1 DEF GetInstance, OuterTest, Lock, InnerTest, Make, Assign, Unlock, ReadFirst, ReadSecond
  <2>2. CASE Make(t)
    <3>1. ptr = 0 /\ ctrl = 0
      BY <2>1, <2>2 DEF Make, WriteFirst, Undeleted
    <3> QED
      BY <2>1, <3>1
  <2>3. CASE Assign(t)
    <3>1. made = 1 /\ ptr \in {0, 1} /\ ctrl \in {0, 1}
      BY <2>1, <2>3 DEF Assign, WriteSecond, Undeleted
    <3> QED
      BY <2>1, <2>3, <3>1 DEF Assign, WriteSecond
  <2>4. CASE OuterTest(t) \/ Lock(t) \/ InnerTest(t) \/ Unlock(t) \/ ReadFirst(t) \/ ReadSecond(t)
    BY <2>1, <2>4 DEF OuterTest, Lock, InnerTest, Unlock, ReadFirst, ReadSecond
  <2> QED
    BY <1>1, <2>2, <2>3, <2>4 DEF GetInstance
<1>2. ASSUME NEW d \in Deleters, DeleteInstance(d) PROVE FALSE
  <2>1. CASE DeleteTest(d)
    BY <2>1 DEF DeleteTest, TypeOK
  <2>2. CASE DeleteWrite(d)
    <3>1. deletes = 0 /\ pc[d] # "idle"
      BY <2>2 DEF DeleteWrite, WriteFirst, WriteSecond
    <3> QED
      BY <3>1 DEF Undeleted
  <2> QED
    BY <1>2, <2>1, <2>2 DEF DeleteInstance
<1>3. CASE UNCHANGED vars
  BY <1>3 DEF vars
<1> QED
  BY <1>1, <1>2, <1>3 DEF Next

LEMMA AssigningStep == IInv /\ Assigning /\ [Next]_vars => Assigning'
<1> SUFFICES ASSUME IInv, Assigning, [Next]_vars, deletes' = 0 PROVE Assigning'
  BY DEF Assigning
<1>0. /\ deletes = 0 /\ Undeleted /\ TypeOK
      /\ (ptr # 0 => ptr' = ptr) /\ (ctrl # 0 => ctrl' = ctrl)
  BY WordsStep DEF IInv
<1> USE DEF Go
<1>1. ASSUME NEW t \in Getters, Make(t) PROVE Assigning'
  <2>1. made' = 1 /\ \A u \in Getters : u # t => pc'[u] = pc[u] /\ pc[u] # "setptr"
    BY <1>0, <1>1 DEF Make, WriteFirst, Undeleted, TypeOK, Critical
  <2>2. \/ pc'[t] = "setctrl"
        \/ pc'[t] = "setptr" /\ ctrl' = 1 /\ ptr' = 0
    BY <1>0, <1>1 DEF Make, WriteFirst, Undeleted, TypeOK
  <2> QED
    BY <2>1, <2>2 DEF Assigning
<1>2. ASSUME NEW t \in Getters, Assign(t) PROVE Assigning'
  <2>1. /\ made = 1 /\ made' = 1 /\ pc'[t] = "unlock"
        /\ \A u \in Getters : u # t => pc'[u] = pc[u] /\ pc[u] # "setptr"
    BY <1>0, <1>2 DEF Assign, WriteSecond, Undeleted, TypeOK, Critical
  <2>2. ctrl' # 0
    BY <1>0, <1>2, <2>1 DEF Assign, WriteSecond, Assigning
  <2> QED
    BY <2>1, <2>2 DEF Assigning
<1>3. ASSUME NEW t \in Getters,
             OuterTest(t) \/ Lock(t) \/ InnerTest(t) \/ Unlock(t) \/ ReadFirst(t) \/ ReadSecond(t)
      PROVE  Assigning'
  <2>1. /\ UNCHANGED <<ptr, ctrl>> /\ pc[t] # "setctrl" /\ pc'[t] # "setptr"
        /\ \A u \in Getters : u # t => pc'[u] = pc[u]
    BY <1>0, <1>3 DEF OuterTest, Lock, InnerTest, Unlock, ReadFirst, ReadSecond, TypeOK
  <2> QED
    BY <1>0, <2>1 DEF Assigning
<1>4. ASSUME NEW d \in Deleters, DeleteInstance(d) PROVE Assigning'
  <2>1. CASE DeleteTest(d)
    BY <1>0, <2>1 DEF DeleteTest
  <2>2. CASE DeleteWrite(d)
    BY <1>0, <2>2 DEF DeleteWrite, WriteFirst, WriteSecond, Undeleted
  <2> QED
    BY <1>4, <2>1, <2>2 DEF DeleteInstance
<1>5. CASE UNCHANGED vars
  BY <1>5 DEF vars, Assigning
<1> QED
  BY <1>1, <1>2, <1>3, <1>4, <1>5 DEF Next, GetInstance

(* Nobody but a deleter takes the object away from the later callers.      *)
THEOREM InstanceStays == Safety => WordsStay
<1>1. IInv /\ [Next]_vars =>
        [deletes' = 0 => (ptr # 0 => ptr' = ptr) /\ (ctrl # 0 => ctrl' = ctrl)]_vars
  BY WordsStep
<1> QED
  BY AlwaysIInv, <1>1, PTL DEF Safety, WordsStay

(* A handle without a share in the ownership comes from a copy that fell   *)
(* into the assignment of line 22; every copy after it owns.               *)
THEOREM TornOnlyInAssignment == Safety => MissesOnlyInAssign
<1>1. Init => Assigning
  BY DEF Init, Assigning
<1>2. ASSUME IInv, Assigning, [Next]_vars, deletes' = 0,
             NEW t \in Getters, CopiesCtrl(t), seen'[t].ctrl = 0
      PROVE  \E u \in Getters : pc[u] = "setctrl"
  <2>1. deletes = 0 /\ Undeleted /\ TypeOK
    BY <1>2, WordsStep DEF IInv
  <2>2. ctrl = 0 /\ pc[t] \in {"copy", "copyctrl"}
    BY <1>2, <2>1 DEF CopiesCtrl, ReadFirst, ReadSecond, Go, TypeOK
  <2>3. ptr # 0
    BY <2>1, <2>2 DEF Undeleted
  <2> QED
    BY <1>2, <2>1, <2>2, <2>3 DEF Assigning
<1>3. IInv /\ Assigning /\ [Next]_vars =>
        [deletes' = 0 =>
           \A t \in Getters : CopiesCtrl(t) /\ seen'[t].ctrl = 0 =>
              \E u \in Getters : pc[u] = "setctrl"]_vars
  BY <1>2
<1> QED
  BY AlwaysIInv, AssigningStep, <1>1, <1>3, PTL DEF Safety, MissesOnlyInAssign
==============================================================================
