--------------------------- MODULE PageMapProofs ----------------------------
(***************************************************************************)
(* Proofs about PageMap, for every number of environments, virtual pages   *)
(* and physical pages.                                                     *)
(*                                                                         *)
(* The counts are related to the slots by cardinalities.  Each operation   *)
(* is a few changes of one slot, and a change of one slot moves one count  *)
(* by one (SlotSet, SlotCleared); env_free() clears a set of slots.        *)
(***************************************************************************)
EXTENDS PageMap, FiniteSetTheorems, TLAPS

Holders(a, p) == {s \in Slots : a[s] = p}

SlotTypes == [Slots -> Pages \cup {NoPage}]

\* RefExact, FreeExact and OneRole of intermediate states, when an operation
\* has changed some of the slots already.
RefOn(a, r) == \A p \in Pages : r[p] = Cardinality(Holders(a, p))

RoleOn(a) ==
    \A s, q \in Slots :
        s # q /\ a[s] = a[q] /\ a[s] # NoPage
            => s[2] \in {"entry", "kern"} /\ q[2] \in {"entry", "kern"}

\* The inductive invariant: exact counts need exact free lists (a free page
\* is unreferenced, so using it as a table cannot give it two roles), and
\* both need every page table to hang under a live directory.
IInv == TypeOK /\ RefExact /\ FreeExact /\ OneRole /\ Walkable

-----------------------------------------------------------------------------
(* Slots.                                                                  *)

LEMMA SlotKinds ==
    ASSUME NEW e \in Envs, NEW va \in VAs
    PROVE  /\ Dir(e) \in Slots /\ Table(e, va) \in Slots /\ Entry(e, va) \in Slots
           /\ UENVS \in Slots
           /\ PDX(va) \in Tables
<1>1. PDX(va) \in Tables
    BY PageMapAssumption DEF PDX, Tables, VAs
<1>2. QED
    BY <1>1 DEF Slots, Dir, Table, Entry, UENVS

LEMMA SlotsFinite == IsFiniteSet(Slots)
<1> DEFINE Kinds == {"dir", "table", "entry", "kern"}
           Owners == Envs \cup {KernPage}
           Box == (Owners \X Kinds) \X (0 .. NVA)
           f == [s \in Slots |-> <<<<s[1], s[2]>>, s[3]>>]
<1>1. IsFiniteSet(Kinds)
  <2>1. IsFiniteSet({"dir"})
    BY FS_Singleton
  <2>2. IsFiniteSet({"dir"} \cup {"table"})
    BY <2>1, FS_AddElement
  <2>3. IsFiniteSet(({"dir"} \cup {"table"}) \cup {"entry"})
    BY <2>2, FS_AddElement
  <2>4. IsFiniteSet((({"dir"} \cup {"table"}) \cup {"entry"}) \cup {"kern"})
    BY <2>3, FS_AddElement
  <2>5. Kinds = (({"dir"} \cup {"table"}) \cup {"entry"}) \cup {"kern"}
    OBVIOUS
  <2>6. QED
    BY <2>4, <2>5
<1>2. IsFiniteSet(Owners)
    BY FS_AddElement, PageMapAssumption
<1>3. IsFiniteSet(0 .. NVA)
    BY FS_Interval, PageMapAssumption
<1>4. IsFiniteSet(Box)
    BY <1>1, <1>2, <1>3, FS_Product
<1>5. \A s \in Slots : f[s] \in Box
  <2>1. SUFFICES ASSUME NEW s \in Slots
                 PROVE  s[1] \in Owners /\ s[2] \in Kinds /\ s[3] \in 0 .. NVA
    OBVIOUS
  <2>2. Tables \subseteq 0 .. NVA /\ VAs \subseteq 0 .. NVA
    BY PageMapAssumption DEF Tables, VAs
  <2>3. 0 \in 0 .. NVA
    BY PageMapAssumption
  <2>4. CASE s = UENVS
    BY <2>3, <2>4 DEF UENVS
  <2>5. CASE s \in Envs \X {"dir"} \X {0}
    BY <2>3, <2>5
  <2>6. CASE s \in Envs \X {"table"} \X Tables
    BY <2>2, <2>6
  <2>7. CASE s \in Envs \X {"entry"} \X VAs
    BY <2>2, <2>7
  <2>8. QED
    BY <2>4, <2>5, <2>6, <2>7 DEF Slots
<1>6. \A s, q \in Slots : f[s] = f[q] => s = q
  <2>1. \A s \in Slots : s = <<s[1], s[2], s[3]>>
    BY DEF Slots, UENVS
  <2>2. QED
    BY <2>1
<1>7. f \in Injection(Slots, Box)
    BY <1>5, <1>6 DEF Injection, IsInjective
<1>8. QED
    BY <1>4, <1>7, FS_Injection

LEMMA HoldersFinite ==
    ASSUME NEW a, NEW p
    PROVE  /\ IsFiniteSet(Holders(a, p))
           /\ Cardinality(Holders(a, p)) \in Nat
           /\ Cardinality(Holders(a, p)) = 0 <=> Holders(a, p) = {}
<1>1. Holders(a, p) \in SUBSET Slots
    BY DEF Holders
<1>2. IsFiniteSet(Holders(a, p))
    BY <1>1, SlotsFinite, FS_Subset
<1>3. QED
    BY <1>2, FS_CardinalityType, FS_EmptySet

\* An empty slot receives p: one more reference to p.
LEMMA SlotSet ==
    ASSUME NEW a \in SlotTypes, NEW r \in [Pages -> Nat], RefOn(a, r),
           NEW s \in Slots, a[s] = NoPage, NEW p \in Pages
    PROVE  /\ [a EXCEPT ![s] = p] \in SlotTypes
           /\ Incref(r, p) \in [Pages -> Nat]
           /\ RefOn([a EXCEPT ![s] = p], Incref(r, p))
<1> DEFINE b == [a EXCEPT ![s] = p]
<1>1. b \in SlotTypes /\ Incref(r, p) \in [Pages -> Nat]
    BY DEF SlotTypes, Incref
<1>2. ASSUME NEW q \in Pages
      PROVE  Incref(r, p)[q] = Cardinality(Holders(b, q))
  <2>1. CASE q = p
    <3>1. Holders(b, p) = Holders(a, p) \cup {s}
        BY DEF Holders, SlotTypes
    <3>2. s \notin Holders(a, p)
        BY PageMapAssumption DEF Holders
    <3>3. Cardinality(Holders(a, p) \cup {s}) = Cardinality(Holders(a, p)) + 1
        BY <3>2, HoldersFinite, FS_AddElement
    <3>4. r[p] = Cardinality(Holders(a, p)) /\ Incref(r, p)[p] = r[p] + 1
        BY DEF RefOn, Incref
    <3>5. QED
        BY <2>1, <3>1, <3>3, <3>4
  <2>2. CASE q # p
    <3>1. Holders(b, q) = Holders(a, q)
        BY <2>2, PageMapAssumption DEF Holders, SlotTypes
    <3>2. QED
        BY <2>2, <3>1 DEF RefOn, Incref
  <2>3. QED
    BY <2>1, <2>2
<1>3. QED
    BY <1>1, <1>2 DEF RefOn

\* A slot is cleared: one reference less to the page it held.
LEMMA SlotCleared ==
    ASSUME NEW a \in SlotTypes, NEW r \in [Pages -> Nat], RefOn(a, r),
           NEW s \in Slots, a[s] # NoPage
    PROVE  /\ a[s] \in Pages
           /\ r[a[s]] > 0
           /\ [a EXCEPT ![s] = NoPage] \in SlotTypes
           /\ Decref(r, a[s]) \in [Pages -> Nat]
           /\ RefOn([a EXCEPT ![s] = NoPage], Decref(r, a[s]))
<1> DEFINE b == [a EXCEPT ![s] = NoPage]
           p == a[s]
<1>1. p \in Pages /\ b \in SlotTypes
    BY DEF SlotTypes
<1>2. s \in Holders(a, p)
    BY DEF Holders
<1>3. r[p] > 0
    BY <1>1, <1>2, HoldersFinite DEF RefOn
<1>4. Decref(r, p) \in [Pages -> Nat]
    BY <1>1, <1>3 DEF Decref
<1>5. ASSUME NEW q \in Pages
      PROVE  Decref(r, p)[q] = Cardinality(Holders(b, q))
  <2>1. CASE q = p
    <3>1. Holders(b, p) = Holders(a, p) \ {s}
        BY <1>1, PageMapAssumption DEF Holders, SlotTypes
    <3>2. Cardinality(Holders(a, p) \ {s}) = Cardinality(Holders(a, p)) - 1
        BY <1>2, HoldersFinite, FS_RemoveElement
    <3>3. Decref(r, p)[p] = r[p] - 1 /\ r[p] = Cardinality(Holders(a, p))
        BY <1>1 DEF RefOn, Decref
    <3>4. QED
        BY <2>1, <3>1, <3>2, <3>3
  <2>2. CASE q # p
    <3>1. Holders(b, q) = Holders(a, q)
        BY <2>2, PageMapAssumption DEF Holders, SlotTypes
    <3>2. QED
        BY <1>1, <2>2, <3>1 DEF RefOn, Decref
  <2>3. QED
    BY <2>1, <2>2
<1>6. QED
    BY <1>1, <1>3, <1>4, <1>5 DEF RefOn

-----------------------------------------------------------------------------
(* Operations.                                                             *)

\* Nobody refers to a page that is free, lost or just taken off the list.
LEMMA UnusedUnheld ==
    ASSUME NEW a \in SlotTypes, NEW r \in [Pages -> Nat], RefOn(a, r),
           NEW p \in Pages
    PROVE  r[p] = 0 <=> \A s \in Slots : a[s] # p
<1>1. r[p] = 0 <=> Holders(a, p) = {}
    BY HoldersFinite DEF RefOn
<1>2. QED
    BY <1>1 DEF Holders

\* Counts and free list f are exact, with l the lost pages.
Exact(a, r, f, l) ==
    /\ a \in SlotTypes /\ r \in [Pages -> Nat] /\ RefOn(a, r)
    /\ f \in SUBSET Pages /\ l \in SUBSET Pages
    /\ \A q \in Pages : r[q] = 0 <=> q \in f \cup l
    /\ f \cap l = {}

\* The same, but for the page p that is about to be inserted.
Prepared(a, r, f, l, p) ==
    /\ a \in SlotTypes /\ r \in [Pages -> Nat] /\ RefOn(a, r)
    /\ f \in SUBSET Pages /\ l \in SUBSET Pages
    /\ p \in Pages /\ p \notin f \cup l
    /\ \A q \in Pages \ {p} : r[q] = 0 <=> q \in f \cup l
    /\ f \cap l = {}

LEMMA ExactNow ==
    IInv => Exact(at, pp_ref, free, leaked) /\ RoleOn(at) /\ panicked \in BOOLEAN
BY DEF IInv, Exact, TypeOK, SlotTypes, RefExact, RefOn, FreeExact, OneRole, RoleOn, References, Holders

LEMMA ExactNext ==
    ASSUME Exact(at, pp_ref, free, leaked)', RoleOn(at)', Walkable',
           written' \in SUBSET Pages, panicked' \in BOOLEAN
    PROVE  IInv'
BY DEF IInv, Exact, TypeOK, SlotTypes, RefExact, RefOn, FreeExact, OneRole, RoleOn, References, Holders

\* The end of page_insert(): p goes to slot s.
LEMMA PutKeeps ==
    ASSUME NEW STATE a, NEW STATE r, NEW STATE f, NEW STATE l, NEW STATE p,
           Prepared(a, r, f, l, p),
           NEW STATE s, s \in Slots,
           Put(a, r, f, s, p)
    PROVE  /\ at' = [a EXCEPT ![s] = p]
           /\ Exact(at', pp_ref', free', l)
<1> USE DEF Prepared
<1>1. at' = [a EXCEPT ![s] = p] /\ at' \in SlotTypes
    BY DEF Put, SlotTypes
<1>2. CASE a[s] = NoPage
  <2>1. pp_ref' = Incref(r, p) /\ free' = f
    BY <1>2 DEF Put
  <2>2. pp_ref' \in [Pages -> Nat] /\ RefOn(at', pp_ref')
    BY <1>1, <1>2, <2>1, SlotSet
  <2>3. \A q \in Pages : pp_ref'[q] = 0 <=> q \in free' \cup l
    BY <2>1 DEF Incref
  <2>4. QED
    BY <1>1, <2>1, <2>2, <2>3 DEF Exact
<1>3. CASE a[s] # NoPage
  <2> DEFINE old == a[s]
             b == [a EXCEPT ![s] = NoPage]
             d == Decref(r, old)
  <2>1. /\ old \in Pages /\ r[old] > 0
        /\ b \in SlotTypes /\ d \in [Pages -> Nat] /\ RefOn(b, d)
    BY <1>3, SlotCleared
  <2>2. /\ pp_ref' = Decref(Incref(r, p), old)
        /\ free' = FreeIfUnused(Decref(Incref(r, p), old), f, old)
    BY <1>3 DEF Put
  <2>3. Decref(Incref(r, p), old) = Incref(d, p)
    <3>1. Incref(r, p) \in [Pages -> Nat] /\ \A q \in Pages :
              Incref(r, p)[q] = IF q = p THEN r[q] + 1 ELSE r[q]
        BY DEF Incref
    <3>2. Decref(Incref(r, p), old) \in [Pages -> Int] /\ \A q \in Pages :
              Decref(Incref(r, p), old)[q] =
                  IF q = old THEN Incref(r, p)[q] - 1 ELSE Incref(r, p)[q]
        BY <2>1, <3>1 DEF Decref
    <3>3. \A q \in Pages : d[q] = IF q = old THEN r[q] - 1 ELSE r[q]
        BY <2>1 DEF Decref
    <3>4. Incref(d, p) \in [Pages -> Int] /\ \A q \in Pages :
              Incref(d, p)[q] = IF q = p THEN d[q] + 1 ELSE d[q]
        BY <2>1 DEF Incref
    <3>5. \A q \in Pages : r[q] \in Nat /\ d[q] \in Nat
        BY <2>1
    <3> HIDE DEF d, old
    <3>6. \A q \in Pages : Decref(Incref(r, p), old)[q] = Incref(d, p)[q]
        BY <3>1, <3>2, <3>3, <3>4, <3>5
    <3>7. QED
        BY <3>2, <3>4, <3>6
  <2>4. [b EXCEPT ![s] = p] = [a EXCEPT ![s] = p]
    BY DEF SlotTypes
  <2>5. b[s] = NoPage
    BY DEF SlotTypes
  <2>6. pp_ref' \in [Pages -> Nat] /\ RefOn(at', pp_ref')
    <3> HIDE DEF b, d
    <3>1. QED
      BY <1>1, <2>1, <2>2, <2>3, <2>4, <2>5, SlotSet
  <2>7. free' \in SUBSET Pages
    BY <2>1, <2>2 DEF FreeIfUnused
  <2>8. ASSUME NEW q \in Pages
        PROVE  pp_ref'[q] = 0 <=> q \in free' \cup l
    <3>1. pp_ref'[q] = IF q = p THEN d[q] + 1 ELSE d[q]
        BY <2>1, <2>2, <2>3 DEF Incref
    <3>2. d[q] = IF q = old THEN r[q] - 1 ELSE r[q]
        BY <2>1 DEF Decref
    <3>3. d[q] \in Nat /\ r[q] \in Nat
        BY <2>1
    <3>4. free' = IF pp_ref'[old] = 0 THEN f \cup {old} ELSE f
        BY <2>2 DEF FreeIfUnused
    <3>5. q = p => pp_ref'[q] # 0
        BY <3>1, <3>3
    <3>6. CASE q = old
        BY <2>1, <3>1, <3>2, <3>3, <3>4, <3>5, <3>6
    <3>7. CASE q # old
        BY <2>1, <3>1, <3>2, <3>3, <3>4, <3>5, <3>7
    <3>8. QED
        BY <3>6, <3>7
  <2>9. free' \cap l = {}
    BY <2>1, <2>2 DEF FreeIfUnused
  <2>10. QED
    BY <1>1, <2>6, <2>7, <2>8, <2>9 DEF Exact
<1>4. QED
    BY <1>2, <1>3

\* What page_insert() does to a state that satisfies the invariant: p is a
\* page just allocated, or a page some entry refers to.
LEMMA PageInsertKeeps ==
    ASSUME IInv, NEW STATE e, e \in Envs, Live(e), NEW STATE va, va \in VAs,
           NEW STATE p, p \in Pages, NEW STATE f, f \in SUBSET Pages,
           NEW STATE w, w \in SUBSET Pages,
           \/ p \in free /\ f = free \ {p}
           \/ f = free /\ \E d \in Envs, v \in VAs : at[Entry(d, v)] = p,
           PageInsert(e, va, p, f, w), leaked' = leaked, panicked' = panicked
    PROVE  IInv'
<1> DEFINE s == Entry(e, va)
           t == Table(e, va)
<1>0. Exact(at, pp_ref, free, leaked) /\ RoleOn(at) /\ panicked \in BOOLEAN
    BY ExactNow
<1> USE DEF Exact
<1>1. s \in Slots /\ t \in Slots /\ s # t
    BY SlotKinds DEF Entry, Table
<1>2. p \notin f \cup leaked
  <2>1. CASE p \in free /\ f = free \ {p}
    BY <1>0, <2>1
  <2>2. CASE f = free /\ \E d \in Envs, v \in VAs : at[Entry(d, v)] = p
    <3>1. \E q \in Slots : at[q] = p
        BY <2>2, SlotKinds
    <3>2. pp_ref[p] # 0
        BY <1>0, <3>1, UnusedUnheld
    <3>3. QED
        BY <1>0, <2>2, <3>2
  <2>3. QED
    BY <2>1, <2>2
<1>3. \A q \in Pages \ {p} : pp_ref[q] = 0 <=> q \in f \cup leaked
    BY <1>0
<1>4. f \cap leaked = {}
    BY <1>0
\* Wherever p is already, it is in an entry.
<1>5. \A q \in Slots : at[q] = p => q[2] \in {"entry", "kern"}
  <2>1. CASE p \in free /\ f = free \ {p}
    BY <1>0, <2>1, UnusedUnheld
  <2>2. CASE f = free /\ \E d \in Envs, v \in VAs : at[Entry(d, v)] = p
    <3>1. PICK d \in Envs, v \in VAs : at[Entry(d, v)] = p
        BY <2>2
    <3>2. Entry(d, v) \in Slots /\ Entry(d, v)[2] = "entry"
        BY SlotKinds DEF Entry
    <3>3. p # NoPage
        BY PageMapAssumption
    <3>4. QED
        BY <1>0, <3>1, <3>2, <3>3 DEF RoleOn
  <2>3. QED
    BY <2>1, <2>2
<1>6. CASE at[t] # NoPage /\ Put(at, pp_ref, f, s, p) /\ written' = w
  <2>1. at' = [at EXCEPT ![s] = p] /\ Exact(at', pp_ref', free', leaked)
    <3>1. Prepared(at, pp_ref, f, leaked, p)
      BY <1>0, <1>2, <1>3, <1>4 DEF Prepared
    <3> HIDE DEF s, t
    <3>2. QED
      BY <1>1, <1>6, <3>1, PutKeeps
  <2>2. RoleOn(at')
    BY <1>0, <1>1, <1>5, <2>1 DEF RoleOn, Entry, SlotTypes
  <2>3. Walkable'
    BY <1>0, <1>1, <1>6, <2>1, SlotKinds DEF IInv, Walkable, SlotTypes, Entry, Table, Dir
  <2>4. QED
    BY <1>0, <1>6, <2>1, <2>2, <2>3, ExactNext
<1>7. ASSUME at[t] = NoPage, NEW n \in f,
             Put([at EXCEPT ![t] = n], Incref(pp_ref, n), f \ {n}, s, p),
             written' = w \ {n}
      PROVE  IInv'
  <2> DEFINE a == [at EXCEPT ![t] = n]
             r == Incref(pp_ref, n)
             g == f \ {n}
  <2>1. n \in Pages /\ n # p /\ n # NoPage /\ pp_ref[n] = 0
    BY <1>0, <1>2, <1>3, PageMapAssumption
  <2>2. \A q \in Slots : at[q] # n
    BY <1>0, <2>1, UnusedUnheld
  <2>3. a \in SlotTypes /\ r \in [Pages -> Nat] /\ RefOn(a, r)
    <3> HIDE DEF s, t
    <3>1. QED
      BY <1>0, <1>1, <1>7, <2>1, SlotSet
  <2>4. \A q \in Pages \ {p} : r[q] = 0 <=> q \in g \cup leaked
    BY <1>0, <1>3, <1>4, <2>1 DEF Incref
  <2>5. at' = [a EXCEPT ![s] = p] /\ Exact(at', pp_ref', free', leaked)
    <3>1. Put(a, r, g, s, p)
      BY <1>7
    <3>2. Prepared(a, r, g, leaked, p)
      BY <1>0, <1>2, <1>4, <2>3, <2>4 DEF Prepared
    <3> HIDE DEF s, t, a, r, g
    <3>3. QED
      BY <1>1, <3>1, <3>2, PutKeeps
  <2>6. RoleOn(at')
    BY <1>0, <1>1, <1>5, <2>1, <2>2, <2>5 DEF RoleOn, Entry, Table, SlotTypes
  <2>7. Walkable'
    <3>1. p # NoPage /\ s # t
      BY PageMapAssumption DEF Entry, Table
    <3>2. at'[s] = p /\ at'[t] = n /\ \A q \in Slots \ {s, t} : at'[q] = at[q]
      BY <1>0, <1>1, <2>5, <3>1 DEF SlotTypes
    <3>3. \A q \in Slots : at[q] # NoPage => at'[q] # NoPage
      BY <2>1, <3>1, <3>2
    <3>4. ASSUME NEW x \in Envs, NEW y \in VAs, at'[Entry(x, y)] # NoPage
          PROVE  at'[Table(x, y)] # NoPage
      <4>1. Entry(x, y) \in Slots /\ Entry(x, y) # t /\ Table(x, y) \in Slots
        BY SlotKinds DEF Entry, Table
      <4>2. CASE Entry(x, y) = s
        BY <4>2, <2>1, <3>2 DEF Entry, Table
      <4>3. CASE Entry(x, y) # s
        BY <4>1, <4>3, <3>2, <3>3, <3>4 DEF IInv, Walkable
      <4>4. QED
        BY <4>2, <4>3
    <3>5. ASSUME NEW x \in Envs, NEW y \in VAs, at'[Table(x, y)] # NoPage
          PROVE  at'[Dir(x)] # NoPage
      <4>1. Table(x, y) \in Slots /\ Table(x, y) # s /\ Dir(x) \in Slots
        BY SlotKinds DEF Entry, Table
      <4>2. CASE Table(x, y) = t
        <5>1. x = e
          BY <4>2 DEF Table
        <5>2. QED
          BY <1>0, <4>1, <5>1, <3>3 DEF Live
      <4>3. CASE Table(x, y) # t
        BY <4>1, <4>3, <3>2, <3>3, <3>5 DEF IInv, Walkable
      <4>4. QED
        BY <4>2, <4>3
    <3>6. QED
      BY <3>4, <3>5 DEF Walkable
  <2>8. QED
    BY <1>0, <1>7, <2>5, <2>6, <2>7, ExactNext
<1>8. QED
    BY <1>6, <1>7 DEF PageInsert

LEMMA InitIInv == Init => IInv
<1> SUFFICES ASSUME Init PROVE IInv
    OBVIOUS
<1>1. TypeOK
    BY PageMapAssumption DEF Init, TypeOK, SlotTypes
<1>2. RefExact
  <2> SUFFICES ASSUME NEW p \in Pages PROVE pp_ref[p] = Cardinality(References(p))
    BY DEF RefExact
  <2>1. UENVS \in Slots
    BY DEF Slots
  <2>2. CASE p = KernPage
    <3>1. References(p) = {UENVS}
        BY <2>1, <2>2, PageMapAssumption DEF Init, References
    <3>2. QED
        BY <2>2, <3>1, FS_Singleton DEF Init
  <2>3. CASE p # KernPage
    <3>1. References(p) = {}
        BY <2>3, PageMapAssumption DEF Init, References
    <3>2. QED
        BY <2>3, <3>1, FS_EmptySet DEF Init
  <2>4. QED
    BY <2>2, <2>3
<1>3. FreeExact
    BY PageMapAssumption DEF Init, FreeExact
<1>4. OneRole
    BY DEF Init, OneRole
<1>5. Walkable
    BY SlotKinds DEF Init, Walkable, Entry, Table, UENVS
<1>6. QED
    BY <1>1, <1>2, <1>3, <1>4, <1>5 DEF IInv

LEMMA EnvSetupVmKeeps ==
    ASSUME IInv, NEW e \in Envs, env_setup_vm(e)
    PROVE  IInv'
<1>1. PICK p \in free : /\ at' = [at EXCEPT ![Dir(e)] = p]
                        /\ pp_ref' = Incref(pp_ref, p)
                        /\ free' = free \ {p}
                        /\ written' = written \ {p}
    BY DEF env_setup_vm
<1>2. leaked' = leaked /\ panicked' = panicked /\ at[Dir(e)] = NoPage
    BY DEF env_setup_vm, Live
<1>3. at \in SlotTypes /\ pp_ref \in [Pages -> Nat] /\ RefOn(at, pp_ref) /\ p \in Pages
    BY DEF IInv, TypeOK, SlotTypes, RefExact, RefOn, References, Holders
<1>4. Dir(e) \in Slots
    BY DEF Dir, Slots
<1>5. at' \in SlotTypes /\ pp_ref' \in [Pages -> Nat] /\ RefOn(at', pp_ref')
    BY <1>1, <1>2, <1>3, <1>4, SlotSet
<1>6. \A q \in Slots : at[q] # p
    BY <1>3, UnusedUnheld DEF IInv, FreeExact
<1>7. TypeOK' /\ RefExact'
    BY <1>1, <1>2, <1>5 DEF IInv, TypeOK, SlotTypes, RefExact, RefOn, References, Holders
<1>8. FreeExact'
    BY <1>1, <1>2, <1>3 DEF IInv, FreeExact, Incref
<1>9. OneRole'
    BY <1>1, <1>3, <1>4, <1>6 DEF IInv, OneRole, SlotTypes
<1>10. Walkable'
    BY <1>1, <1>3, <1>4, SlotKinds, PageMapAssumption DEF IInv, Walkable, SlotTypes, Dir, Entry, Table
<1>11. QED
    BY <1>7, <1>8, <1>9, <1>10 DEF IInv

LEMMA PageAllocKeeps ==
    ASSUME IInv, NEW e \in Envs, NEW va \in VAs, sys_page_alloc(e, va)
    PROVE  IInv'
<1>1. PICK p \in free : PageInsert(e, va, p, free \ {p}, written \ {p})
    BY DEF sys_page_alloc
<1>2. p \in Pages /\ free \ {p} \in SUBSET Pages /\ written \ {p} \in SUBSET Pages
    BY DEF IInv, TypeOK
<1>3. Live(e) /\ leaked' = leaked /\ panicked' = panicked
    BY DEF sys_page_alloc
<1> DEFINE f == free \ {p}
           w == written \ {p}
<1>4. f \in SUBSET Pages /\ w \in SUBSET Pages /\ PageInsert(e, va, p, f, w) /\ f = free \ {p}
    BY <1>1, <1>2
<1> HIDE DEF f, w
<1>5. QED
    BY <1>2, <1>3, <1>4, PageInsertKeeps

LEMMA PageMapKeeps ==
    ASSUME IInv, NEW e \in Envs, NEW va \in VAs, NEW d \in Envs, NEW dva \in VAs,
           sys_page_map(e, va, d, dva)
    PROVE  IInv'
<1> DEFINE p == at[Entry(e, va)]
<1>1. p \in Pages /\ free \in SUBSET Pages /\ written \in SUBSET Pages
    BY SlotKinds DEF IInv, TypeOK, sys_page_map
<1>2. Live(d) /\ leaked' = leaked /\ panicked' = panicked
    BY DEF sys_page_map
<1>3. PageInsert(d, dva, p, free, written)
    BY DEF sys_page_map
<1>4. \E c \in Envs, v \in VAs : at[Entry(c, v)] = p
    OBVIOUS
<1> HIDE DEF p
<1>5. QED
    BY <1>1, <1>2, <1>3, <1>4, PageInsertKeeps

LEMMA SendUnwantedKeeps ==
    ASSUME IInv, NEW e \in Envs, NEW va \in VAs, NEW d \in Envs,
           SendUnwanted(e, va, d)
    PROVE  IInv'
<1> DEFINE p == at[Entry(e, va)]
<1>1. Exact(at, pp_ref, free, leaked) /\ RoleOn(at) /\ panicked \in BOOLEAN
    BY ExactNow
<1>2. Entry(e, va) \in Slots /\ UENVS \in Slots /\ Entry(e, va)[2] = "entry" /\ UENVS[2] = "kern"
    BY SlotKinds DEF Entry, UENVS
<1>3. p \in Pages /\ p # NoPage
    BY <1>1, <1>2 DEF SendUnwanted, SlotTypes, Exact
<1>4. p \notin free \cup leaked
    BY <1>1, <1>2, <1>3, UnusedUnheld DEF Exact
<1>5. /\ Put(at, pp_ref, free, UENVS, p)
      /\ written' = written /\ leaked' = leaked /\ panicked' = panicked
    BY DEF SendUnwanted
<1>6. Prepared(at, pp_ref, free, leaked, p)
    BY <1>1, <1>3, <1>4 DEF Prepared, Exact
<1>7. at' = [at EXCEPT ![UENVS] = p] /\ Exact(at', pp_ref', free', leaked)
  <2> HIDE DEF p
  <2>1. QED
    BY <1>2, <1>5, <1>6, PutKeeps
<1>8. RoleOn(at')
    BY <1>1, <1>2, <1>3, <1>7 DEF RoleOn, SlotTypes, Exact
<1>9. Walkable'
  <2>1. \A q \in Slots \ {UENVS} : at'[q] = at[q]
    BY <1>1, <1>2, <1>7 DEF SlotTypes, Exact
  <2>2. ASSUME NEW x \in Envs, NEW y \in VAs
        PROVE  /\ at'[Entry(x, y)] = at[Entry(x, y)]
               /\ at'[Table(x, y)] = at[Table(x, y)]
               /\ at'[Dir(x)] = at[Dir(x)]
    <3>1. {Entry(x, y), Table(x, y), Dir(x)} \subseteq Slots \ {UENVS}
      BY SlotKinds DEF Dir, Entry, Table, UENVS
    <3>2. QED
      BY <2>1, <3>1
  <2>3. QED
    BY <2>2 DEF IInv, Walkable
<1>10. written' \in SUBSET Pages
    BY <1>5 DEF IInv, TypeOK
<1>11. QED
    BY <1>1, <1>5, <1>7, <1>8, <1>9, <1>10, ExactNext

LEMMA PageUnmapKeeps ==
    ASSUME IInv, NEW e \in Envs, NEW va \in VAs, sys_page_unmap(e, va)
    PROVE  IInv'
<1> DEFINE s == Entry(e, va)
<1>1. Exact(at, pp_ref, free, leaked) /\ RoleOn(at) /\ panicked \in BOOLEAN
    BY ExactNow
<1>2. /\ Remove(at, pp_ref, free, s)
      /\ written' = written /\ leaked' = leaked /\ panicked' = panicked
    BY DEF sys_page_unmap
<1>3. s \in Slots /\ written' \in SUBSET Pages
    BY <1>2, SlotKinds DEF IInv, TypeOK
<1>4. CASE at[s] = NoPage
    BY <1>2, <1>4 DEF Remove, IInv, TypeOK, RefExact, FreeExact, OneRole, Walkable, References
<1>5. CASE at[s] # NoPage
  <2> DEFINE p == at[s]
  <2>1. /\ at' = [at EXCEPT ![s] = NoPage]
        /\ pp_ref' = Decref(pp_ref, p)
        /\ free' = FreeIfUnused(Decref(pp_ref, p), free, p)
    BY <1>2, <1>5 DEF Remove
  <2>2. /\ p \in Pages /\ pp_ref[p] > 0
        /\ at' \in SlotTypes /\ pp_ref' \in [Pages -> Nat] /\ RefOn(at', pp_ref')
    <3> HIDE DEF s
    <3>1. QED
      BY <1>1, <1>3, <1>5, <2>1, SlotCleared DEF Exact
  <2>3. \A q \in Pages : pp_ref'[q] = IF q = p THEN pp_ref[q] - 1 ELSE pp_ref[q]
    BY <1>1, <2>1, <2>2 DEF Exact, Decref
  <2>4. free' = IF pp_ref'[p] = 0 THEN free \cup {p} ELSE free
    BY <2>1 DEF FreeIfUnused
  <2>5. Exact(at', pp_ref', free', leaked)
    <3> HIDE DEF s, p
    <3>1. p \notin free \cup leaked
      BY <1>1, <2>2 DEF Exact
    <3>2. \A q \in Pages : pp_ref'[q] = 0 <=> q \in free' \cup leaked
      BY <1>1, <2>2, <2>3, <2>4, <3>1 DEF Exact
    <3>3. QED
      BY <1>1, <2>2, <2>4, <3>1, <3>2 DEF Exact
  <2>6. RoleOn(at')
    BY <1>1, <1>3, <2>1 DEF RoleOn, SlotTypes, Exact
  <2>7. Walkable'
    BY <1>1, <1>3, <2>1, SlotKinds DEF IInv, Walkable, SlotTypes, Dir, Entry, Table, Exact
  <2>8. QED
    BY <1>1, <1>2, <1>3, <2>5, <2>6, <2>7, ExactNext
<1>6. QED
    BY <1>4, <1>5

\* env_free() clears all slots of e at once.
LEMMA EnvFreeKeeps ==
    ASSUME IInv, NEW e \in Envs, env_free(e)
    PROVE  IInv'
<1>1. Exact(at, pp_ref, free, leaked) /\ RoleOn(at) /\ panicked \in BOOLEAN
    BY ExactNow
<1>2. /\ at' = [s \in Slots |-> IF s \in SlotsOf(e) THEN NoPage ELSE at[s]]
      /\ pp_ref' = [p \in Pages |-> pp_ref[p] - Held(e, p)]
      /\ free' = free \cup {p \in Pages : Held(e, p) > 0 /\ pp_ref[p] = Held(e, p)}
      /\ written' = written /\ leaked' = leaked /\ panicked' = panicked
    BY DEF env_free
<1>3. at' \in SlotTypes /\ written' \in SUBSET Pages
    BY <1>1, <1>2 DEF Exact, SlotTypes, IInv, TypeOK
\* The references of e to p are a part of all references to p.
<1>4. ASSUME NEW p \in Pages
      PROVE  /\ Held(e, p) \in Nat /\ Held(e, p) <= pp_ref[p]
             /\ Cardinality(Holders(at', p)) = pp_ref[p] - Held(e, p)
  <2> DEFINE H == Holders(at, p)
             E == {s \in SlotsOf(e) : at[s] = p}
  <2>1. E \in SUBSET H /\ H \cap E = E
    BY DEF Holders, SlotsOf
  <2>2. Holders(at', p) = H \ E
    BY <1>2, PageMapAssumption DEF Holders, SlotsOf
  <2>3. IsFiniteSet(H) /\ pp_ref[p] = Cardinality(H)
    BY <1>1, HoldersFinite DEF Exact, RefOn
  <2>4. Held(e, p) = Cardinality(E)
    BY DEF Held
  <2>5. IsFiniteSet(E) /\ Cardinality(E) <= Cardinality(H) /\ Cardinality(E) \in Nat
    BY <2>1, <2>3, FS_Subset, FS_CardinalityType
  <2>6. Cardinality(H \ E) = Cardinality(H) - Cardinality(H \cap E)
    BY <2>3, FS_Difference
  <2> HIDE DEF H, E
  <2>7. QED
    BY <2>1, <2>2, <2>3, <2>4, <2>5, <2>6
<1>5. pp_ref' \in [Pages -> Nat] /\ RefOn(at', pp_ref')
    BY <1>1, <1>2, <1>4 DEF Exact, RefOn
<1>6. Exact(at', pp_ref', free', leaked)
  <2>1. \A p \in Pages : pp_ref'[p] = 0 <=> p \in free' \cup leaked
    BY <1>1, <1>2, <1>4 DEF Exact
  <2>2. free' \cap leaked = {}
    BY <1>1, <1>2, <1>4 DEF Exact
  <2>3. QED
    BY <1>1, <1>2, <1>3, <1>5, <2>1, <2>2 DEF Exact
<1>7. RoleOn(at')
    BY <1>1, <1>2 DEF RoleOn
<1>8. Walkable'
    BY <1>2, SlotKinds DEF IInv, Walkable, SlotsOf, Dir, Entry, Table
<1>9. QED
    BY <1>1, <1>2, <1>3, <1>6, <1>7, <1>8, ExactNext

LEMMA NextIInv == IInv /\ [Next]_vars => IInv'
<1> SUFFICES ASSUME IInv, [Next]_vars PROVE IInv'
    OBVIOUS
<1> USE DEF IInv, TypeOK, RefExact, FreeExact, OneRole, Walkable, References
<1>1. CASE UNCHANGED vars
    BY <1>1 DEF vars
<1>2. CASE Step
  <2> HIDE DEF IInv
  <2>1. PICK e \in Envs :
            \/ env_setup_vm(e) \/ env_free(e)
            \/ \E va \in VAs :
                  \/ sys_page_alloc(e, va) \/ PageAllocLeak(e, va)
                  \/ PageAllocNull(e, va) \/ sys_page_unmap(e, va)
                  \/ Store(e, va)
                  \/ \E d \in Envs : SendUnwanted(e, va, d)
                  \/ \E d \in Envs, dva \in VAs : sys_page_map(e, va, d, dva)
    BY <1>2 DEF Step
  <2>2. CASE env_setup_vm(e) \/ env_free(e)
    BY <2>2, EnvSetupVmKeeps, EnvFreeKeeps
  <2>3. ASSUME NEW va \in VAs, PageAllocLeak(e, va) PROVE IInv'
    BY <2>3 DEF PageAllocLeak, IInv
  <2>4. ASSUME NEW va \in VAs, PageAllocNull(e, va) PROVE IInv'
    BY <2>4 DEF PageAllocNull, IInv
  <2>5. ASSUME NEW va \in VAs, Store(e, va) PROVE IInv'
    BY <2>5, SlotKinds DEF Store, IInv
  <2>6. QED
    BY <2>1, <2>2, <2>3, <2>4, <2>5, PageAllocKeeps, PageUnmapKeeps,
       SendUnwantedKeeps, PageMapKeeps
<1>3. QED
    BY <1>1, <1>2 DEF Next, Halted

\* Reference counts and free list are exact, no page has two roles and every
\* mapped page can be walked to, whatever system calls environments make in
\* whatever order (kern/pmap.c, kern/syscall.c, env_free() in kern/env.c).
THEOREM Safety == Spec => [](TypeOK /\ RefExact /\ FreeExact /\ OneRole /\ Walkable)
<1>1. Init => IInv
    BY InitIInv
<1>2. IInv /\ [Next]_vars => IInv'
    BY NextIInv
<1>3. IInv => TypeOK /\ RefExact /\ FreeExact /\ OneRole /\ Walkable
    BY DEF IInv
<1>4. QED
    BY <1>1, <1>2, <1>3, PTL DEF Spec

\* page_alloc() and page_free(): the free list holds what nothing refers to, and
\* what sys_page_alloc() leaked stays lost.
THEOREM FreeListIsExact == Spec => []FreeExact
BY Safety, PTL

\* No page is page table or directory and something else (pgdir_walk(),
\* page_insert()): no environment can write the page tables.
THEOREM RolesAreSeparate == Spec => []OneRole
BY Safety, PTL

\* Every mapping has its page table, every table its directory, also while
\* env_free() takes address spaces apart.
THEOREM MappingsAreReached == Spec => []Walkable
BY Safety, PTL

-----------------------------------------------------------------------------
(* Refinement: the page tables implement AddressSpace.                     *)

sees == [e \in Envs |-> [va \in VAs |-> Seen(at[Entry(e, va)])]]


LEMMA EntryDistinct ==
    ASSUME NEW e, NEW va, NEW d, NEW v
    PROVE  Entry(e, va) = Entry(d, v) <=> e = d /\ va = v
BY DEF Entry

\* What an entry refers to is neither free nor lost.
LEMMA SeenIsUsed ==
    ASSUME IInv, NEW e \in Envs, NEW va \in VAs
    PROVE  /\ at[Entry(e, va)] \in Pages \cup {NoPage}
           /\ at[Entry(e, va)] \notin free
<1>1. Exact(at, pp_ref, free, leaked) /\ Entry(e, va) \in Slots
    BY ExactNow, SlotKinds
<1>2. at[Entry(e, va)] \in Pages \cup {NoPage}
    BY <1>1 DEF Exact, SlotTypes
<1>3. CASE at[Entry(e, va)] = NoPage
    BY <1>1, <1>3, PageMapAssumption DEF Exact
<1>4. CASE at[Entry(e, va)] \in Pages
    BY <1>1, <1>4, UnusedUnheld DEF Exact
<1>5. QED
    BY <1>2, <1>3, <1>4

\* Two views of all address spaces are equal if they agree everywhere.
Sights == (Pages \cup {NoPage}) \X {"zeros", "data"}

Views == [Envs -> [VAs -> Sights]]

LEMMA SameView ==
    ASSUME NEW g \in Views, NEW h \in Views,
           \A d \in Envs, v \in VAs : g[d][v] = h[d][v]
    PROVE  g = h
<1>1. \A d \in Envs : g[d] = h[d]
  <2> SUFFICES ASSUME NEW d \in Envs PROVE g[d] = h[d]
    OBVIOUS
  <2>1. g[d] \in [VAs -> Sights] /\ h[d] \in [VAs -> Sights]
    BY DEF Views
  <2>2. QED
    BY <2>1
<1>2. QED
    BY <1>1 DEF Views

\* Changing one virtual page of a view.
LEMMA OneChanged ==
    ASSUME NEW g \in Views, NEW e \in Envs, NEW va \in VAs,
           NEW x \in Sights
    PROVE  /\ [g EXCEPT ![e][va] = x] \in Views
           /\ \A d \in Envs, v \in VAs :
                 [g EXCEPT ![e][va] = x][d][v] = IF d = e /\ v = va THEN x ELSE g[d][v]
BY DEF Views

LEMMA SeesType ==
    ASSUME IInv
    PROVE  /\ sees \in Views
           /\ \A d \in Envs, v \in VAs : sees[d][v] = Seen(at[Entry(d, v)])
<1>1. \A d \in Envs, v \in VAs : at[Entry(d, v)] \in Pages \cup {NoPage}
    BY SlotKinds DEF IInv, TypeOK
<1>2. QED
    BY <1>1 DEF sees, Views, Sights, Seen

LEMMA SeesTypeNext ==
    ASSUME IInv'
    PROVE  /\ sees' \in Views
           /\ \A d \in Envs, v \in VAs : sees'[d][v] = Seen(at[Entry(d, v)])'
<1>1. \A d \in Envs, v \in VAs : at'[Entry(d, v)] \in Pages \cup {NoPage}
    BY SlotKinds DEF IInv, TypeOK
<1>2. QED
    BY <1>1 DEF sees, Views, Sights, Seen

\* page_insert() puts p at va and clears at most a page that was free.
LEMMA InsertSees ==
    ASSUME IInv, NEW STATE e, e \in Envs, NEW STATE va, va \in VAs,
           NEW STATE p, NEW STATE f, NEW STATE w,
           PageInsert(e, va, p, f, w)
    PROVE  /\ \A d \in Envs, v \in VAs :
                 at'[Entry(d, v)] = IF d = e /\ v = va THEN p ELSE at[Entry(d, v)]
           /\ \A q : q \notin f => (q \in written' <=> q \in w)
<1>1. at \in [Slots -> Pages \cup {NoPage}]
    BY DEF IInv, TypeOK
<1>2. Table(e, va) \in Slots /\ Entry(e, va) \in Slots
    BY SlotKinds
<1>3. ASSUME NEW d \in Envs, NEW v \in VAs
      PROVE  /\ Entry(d, v) \in Slots /\ Entry(d, v) # Table(e, va)
             /\ Entry(d, v) = Entry(e, va) <=> d = e /\ v = va
    BY SlotKinds DEF Entry, Table
<1>4. CASE Put(at, pp_ref, f, Entry(e, va), p) /\ written' = w
    BY <1>1, <1>2, <1>3, <1>4 DEF Put
<1>5. ASSUME NEW t \in f,
             Put([at EXCEPT ![Table(e, va)] = t], Incref(pp_ref, t), f \ {t}, Entry(e, va), p),
             written' = w \ {t}
      PROVE  /\ \A d \in Envs, v \in VAs :
                   at'[Entry(d, v)] = IF d = e /\ v = va THEN p ELSE at[Entry(d, v)]
             /\ \A q : q \notin f => (q \in written' <=> q \in w)
    BY <1>1, <1>2, <1>3, <1>5 DEF Put
<1>6. QED
    BY <1>4, <1>5 DEF PageInsert

LEMMA AllocIsFresh ==
    ASSUME IInv, NEW e \in Envs, NEW va \in VAs, sys_page_alloc(e, va)
    PROVE  Abstract!Fresh(e, va)
<1>1. PICK p \in free : PageInsert(e, va, p, free \ {p}, written \ {p})
    BY DEF sys_page_alloc
<1> DEFINE f == free \ {p}
           w == written \ {p}
<1>2. /\ \A d \in Envs, v \in VAs :
            at'[Entry(d, v)] = IF d = e /\ v = va THEN p ELSE at[Entry(d, v)]
      /\ \A q : q \notin f => (q \in written' <=> q \in w)
  <2>1. PageInsert(e, va, p, f, w)
    BY <1>1
  <2> HIDE DEF f, w
  <2>2. QED
    BY <2>1, InsertSees
<1>3. p \in Pages /\ p \notin written'
    BY <1>2 DEF IInv, TypeOK
<1>4. \A d \in Envs, v \in VAs : at[Entry(d, v)] # p /\ at[Entry(d, v)] \notin free
    BY SeenIsUsed
<1>5. \A d \in Envs, v \in VAs :
          at[Entry(d, v)] \in written' <=> at[Entry(d, v)] \in written
    BY <1>2, <1>4
<1>6. sees' = [sees EXCEPT ![e][va] = <<p, "zeros">>]
  <2> DEFINE x == <<p, "zeros">>
             h == [sees EXCEPT ![e][va] = x]
  <2>1. x \in Sights
    BY <1>3 DEF Sights
  <2>2. sees \in Views /\ sees' \in Views
    BY PageAllocKeeps, SeesType, SeesTypeNext
  <2>3. /\ h \in Views
        /\ \A d \in Envs, v \in VAs : h[d][v] = IF d = e /\ v = va THEN x ELSE sees[d][v]
    <3> HIDE DEF x
    <3>1. QED
      BY <2>1, <2>2, OneChanged
  <2>4. \A d \in Envs, v \in VAs :
            sees'[d][v] = IF d = e /\ v = va THEN x ELSE sees[d][v]
    BY <1>2, <1>3, <1>5, PageAllocKeeps, SeesType, SeesTypeNext DEF Seen
  <2>5. sees' = h
    <3> HIDE DEF h, x
    <3>1. QED
      BY <2>2, <2>3, <2>4, SameView
  <2>6. QED
    BY <2>5
<1>7. \A d \in Envs, v \in VAs : sees[d][v][1] # p
    BY <1>4 DEF sees, Seen
<1>8. QED
    BY <1>3, <1>6, <1>7 DEF Abstract!Fresh, Abstract!Unseen, sees

LEMMA MapIsShare ==
    ASSUME IInv, NEW e \in Envs, NEW va \in VAs, NEW d \in Envs, NEW dva \in VAs,
           sys_page_map(e, va, d, dva)
    PROVE  Abstract!Share(e, va, d, dva)
<1> DEFINE p == at[Entry(e, va)]
<1>1. PageInsert(d, dva, p, free, written) /\ p # NoPage
    BY DEF sys_page_map
<1>2. /\ \A c \in Envs, v \in VAs :
            at'[Entry(c, v)] = IF c = d /\ v = dva THEN p ELSE at[Entry(c, v)]
      /\ \A q : q \notin free => (q \in written' <=> q \in written)
  <2> HIDE DEF p
  <2>1. QED
    BY <1>1, InsertSees
<1>3. \A c \in Envs, v \in VAs :
          at[Entry(c, v)] \in written' <=> at[Entry(c, v)] \in written
    BY <1>2, SeenIsUsed
<1>4. sees' = [sees EXCEPT ![d][dva] = sees[e][va]]
  <2> DEFINE x == sees[e][va]
             h == [sees EXCEPT ![d][dva] = x]
  <2>1. sees \in Views /\ sees' \in Views
    BY PageMapKeeps, SeesType, SeesTypeNext
  <2>2. x \in Sights
    BY <2>1 DEF Views, Sights
  <2>3. /\ h \in Views
        /\ \A c \in Envs, v \in VAs : h[c][v] = IF c = d /\ v = dva THEN x ELSE sees[c][v]
    <3> HIDE DEF x
    <3>1. QED
      BY <2>1, <2>2, OneChanged
  <2>4. \A c \in Envs, v \in VAs :
            sees'[c][v] = IF c = d /\ v = dva THEN x ELSE sees[c][v]
    BY <1>2, <1>3, PageMapKeeps, SeesType, SeesTypeNext DEF Seen
  <2>5. sees' = h
    <3> HIDE DEF h, x
    <3>1. QED
      BY <2>1, <2>3, <2>4, SameView
  <2>6. QED
    BY <2>5
<1>5. sees[e][va] # <<NoPage, "zeros">>
    BY <1>1 DEF sees, Seen
<1>6. QED
    BY <1>4, <1>5 DEF Abstract!Share, Abstract!Nothing, sees

LEMMA UnmapIsDrop ==
    ASSUME IInv, NEW e \in Envs, NEW va \in VAs, sys_page_unmap(e, va)
    PROVE  Abstract!Drop(e, va)
<1>1. Remove(at, pp_ref, free, Entry(e, va)) /\ written' = written
    BY DEF sys_page_unmap
<1>2. NoPage \notin written /\ at \in [Slots -> Pages \cup {NoPage}]
    BY PageMapAssumption DEF IInv, TypeOK
<1>3. at' = [at EXCEPT ![Entry(e, va)] = NoPage]
    BY <1>1, <1>2, SlotKinds DEF Remove
<1>4. \A d \in Envs, v \in VAs :
          at'[Entry(d, v)] = IF d = e /\ v = va THEN NoPage ELSE at[Entry(d, v)]
    BY <1>2, <1>3, SlotKinds, EntryDistinct
<1>5. sees' = [sees EXCEPT ![e][va] = <<NoPage, "zeros">>]
  <2> DEFINE x == <<NoPage, "zeros">>
             h == [sees EXCEPT ![e][va] = x]
  <2>1. sees \in Views /\ sees' \in Views
    BY PageUnmapKeeps, SeesType, SeesTypeNext
  <2>2. x \in Sights
    BY DEF Sights
  <2>3. /\ h \in Views
        /\ \A d \in Envs, v \in VAs : h[d][v] = IF d = e /\ v = va THEN x ELSE sees[d][v]
    <3> HIDE DEF x
    <3>1. QED
      BY <2>1, <2>2, OneChanged
  <2>4. \A d \in Envs, v \in VAs :
            sees'[d][v] = IF d = e /\ v = va THEN x ELSE sees[d][v]
    BY <1>1, <1>2, <1>4, PageUnmapKeeps, SeesType, SeesTypeNext DEF Seen
  <2>5. sees' = h
    <3> HIDE DEF h, x
    <3>1. QED
      BY <2>1, <2>3, <2>4, SameView
  <2>6. QED
    BY <2>5
<1>6. QED
    BY <1>5 DEF Abstract!Drop, Abstract!Nothing, sees

LEMMA FreeIsDropAll ==
    ASSUME IInv, NEW e \in Envs, env_free(e)
    PROVE  Abstract!DropAll(e)
<1>1. /\ at' = [s \in Slots |-> IF s \in SlotsOf(e) THEN NoPage ELSE at[s]]
      /\ written' = written /\ NoPage \notin written
    BY PageMapAssumption DEF env_free, IInv, TypeOK
<1>2. \A d \in Envs, v \in VAs :
          at'[Entry(d, v)] = IF d = e THEN NoPage ELSE at[Entry(d, v)]
    BY <1>1, SlotKinds DEF SlotsOf, Entry
<1>3. sees' = [sees EXCEPT ![e] = [va \in VAs |-> <<NoPage, "zeros">>]]
  <2> DEFINE h == [sees EXCEPT ![e] = [va \in VAs |-> <<NoPage, "zeros">>]]
  <2>1. sees \in Views /\ sees' \in Views
    BY EnvFreeKeeps, SeesType, SeesTypeNext
  <2>2. /\ h \in Views
        /\ \A d \in Envs, v \in VAs : h[d][v] = IF d = e THEN <<NoPage, "zeros">> ELSE sees[d][v]
    BY <2>1 DEF Views, Sights
  <2>3. \A d \in Envs, v \in VAs :
            sees'[d][v] = IF d = e THEN <<NoPage, "zeros">> ELSE sees[d][v]
    BY <1>1, <1>2, EnvFreeKeeps, SeesType, SeesTypeNext DEF Seen
  <2>4. sees' = h
    <3> HIDE DEF h
    <3>1. QED
      BY <2>1, <2>2, <2>3, SameView
  <2>5. QED
    BY <2>4
<1>4. QED
    BY <1>3 DEF Abstract!DropAll, Abstract!Nothing, sees

LEMMA StoreIsStore ==
    ASSUME IInv, NEW e \in Envs, NEW va \in VAs, Store(e, va)
    PROVE  Abstract!Store(e, va)
<1> DEFINE p == at[Entry(e, va)]
<1>1. p # NoPage /\ written' = written \cup {p} /\ at' = at
    BY DEF Store
<1>2. sees' = [d \in Envs |-> [w \in VAs |->
                  IF sees[d][w][1] = sees[e][va][1] THEN <<sees[d][w][1], "data">> ELSE sees[d][w]]]
  <2> DEFINE h == [d \in Envs |-> [w \in VAs |->
                     IF sees[d][w][1] = sees[e][va][1] THEN <<sees[d][w][1], "data">> ELSE sees[d][w]]]
  <2>1. sees \in Views /\ \A d \in Envs, w \in VAs : sees[d][w] = Seen(at[Entry(d, w)])
    BY SeesType
  <2>2. IInv'
    BY <1>1, SlotKinds DEF Store, IInv, TypeOK, RefExact, FreeExact, OneRole, Walkable, References
  <2>3. sees' \in Views
    BY <2>2, SeesTypeNext
  <2>4. \A d \in Envs, w \in VAs :
            h[d][w] = <<at[Entry(d, w)], IF at[Entry(d, w)] \in written \cup {p} THEN "data" ELSE "zeros">>
    BY <2>1 DEF Seen
  <2>5. h \in Views
    BY <2>1 DEF Views, Sights
  <2>6. \A d \in Envs, w \in VAs :
            sees'[d][w] = <<at[Entry(d, w)], IF at[Entry(d, w)] \in written \cup {p} THEN "data" ELSE "zeros">>
    BY <1>1, <2>2, SeesTypeNext DEF Seen
  <2>7. sees' = h
    <3> HIDE DEF h
    <3>1. QED
      BY <2>3, <2>4, <2>5, <2>6, SameView
  <2>8. QED
    BY <2>7
<1>3. sees[e][va] # <<NoPage, "zeros">>
    BY <1>1 DEF sees, Seen
<1>4. QED
    BY <1>2, <1>3 DEF Abstract!Store, Abstract!Nothing, sees

\* The other operations are invisible: the entries stay as they are, and a
\* page that is cleared is one that nobody sees.
LEMMA Invisible ==
    ASSUME IInv, IInv',
           \A d \in Envs, v \in VAs : at'[Entry(d, v)] = at[Entry(d, v)],
           \A q : q \notin free => (q \in written' <=> q \in written)
    PROVE  sees' = sees
<1>1. sees \in Views /\ sees' \in Views
    BY SeesType, SeesTypeNext
<1>2. \A d \in Envs, v \in VAs : sees'[d][v] = sees[d][v]
    BY SeesType, SeesTypeNext, SeenIsUsed DEF Seen
<1>3. QED
    BY <1>1, <1>2, SameView

LEMMA StepRefines == IInv /\ IInv' /\ [Next]_vars => [Abstract!Next]_sees
<1> SUFFICES ASSUME IInv, IInv', [Next]_vars PROVE Abstract!Next \/ sees' = sees
    OBVIOUS
<1>1. CASE UNCHANGED vars
    BY <1>1 DEF vars, sees, Seen
<1>2. CASE Step
  <2>1. ASSUME NEW e \in Envs, env_setup_vm(e) PROVE sees' = sees
    <3>1. PICK p \in free : at' = [at EXCEPT ![Dir(e)] = p] /\ written' = written \ {p}
        BY <2>1 DEF env_setup_vm
    <3>2. \A d \in Envs, v \in VAs : at'[Entry(d, v)] = at[Entry(d, v)]
        BY <3>1, SlotKinds DEF IInv, TypeOK, Dir, Entry
    <3>3. \A q : q \notin free => (q \in written' <=> q \in written)
        BY <3>1
    <3>4. QED
        BY <3>2, <3>3, Invisible
  <2>2. ASSUME NEW e \in Envs, NEW va \in VAs,
               PageAllocLeak(e, va) \/ PageAllocNull(e, va)
        PROVE  sees' = sees
    <3>1. at' = at /\ \A q : q \notin free => (q \in written' <=> q \in written)
        BY <2>2 DEF PageAllocLeak, PageAllocNull
    <3>2. QED
        BY <3>1, Invisible
  <2>3. ASSUME NEW e \in Envs, NEW va \in VAs, NEW d \in Envs, SendUnwanted(e, va, d)
        PROVE  sees' = sees
    <3>1. at' = [at EXCEPT ![UENVS] = at[Entry(e, va)]] /\ written' = written
        BY <2>3 DEF SendUnwanted, Put
    <3>2. \A c \in Envs, v \in VAs : at'[Entry(c, v)] = at[Entry(c, v)]
        BY <3>1, SlotKinds DEF IInv, TypeOK, UENVS, Entry
    <3>3. QED
        BY <3>1, <3>2, Invisible
  <2>4. ASSUME NEW e \in Envs, NEW va \in VAs, sys_page_alloc(e, va) PROVE Abstract!Next
    BY <2>4, AllocIsFresh DEF Abstract!Next
  <2>5. ASSUME NEW e \in Envs, NEW va \in VAs, sys_page_unmap(e, va) PROVE Abstract!Next
    BY <2>5, UnmapIsDrop DEF Abstract!Next
  <2>6. ASSUME NEW e \in Envs, NEW va \in VAs, Store(e, va) PROVE Abstract!Next
    BY <2>6, StoreIsStore DEF Abstract!Next
  <2>7. ASSUME NEW e \in Envs, NEW va \in VAs, NEW d \in Envs, NEW dva \in VAs,
               sys_page_map(e, va, d, dva)
        PROVE  Abstract!Next
    BY <2>7, MapIsShare DEF Abstract!Next
  <2>8. ASSUME NEW e \in Envs, env_free(e) PROVE Abstract!Next
    BY <2>8, FreeIsDropAll DEF Abstract!Next
  <2>9. QED
    BY <1>2, <2>1, <2>2, <2>3, <2>4, <2>5, <2>6, <2>7, <2>8 DEF Step
<1>3. CASE Halted
    BY <1>3 DEF Halted, vars, sees, Seen
<1>4. QED
    BY <1>1, <1>2, <1>3 DEF Next

LEMMA InitRefines == Init => Abstract!Init
<1> SUFFICES ASSUME Init PROVE Abstract!Init
    OBVIOUS
<1>1. \A e \in Envs, va \in VAs : at[Entry(e, va)] = NoPage
    BY SlotKinds DEF Init, Entry, UENVS
<1>2. NoPage \notin written
    BY PageMapAssumption DEF Init
<1>3. QED
    BY <1>1, <1>2 DEF Abstract!Init, Abstract!Nothing, Seen

\* kern/pmap.c and the page system calls implement AddressSpace: pages handed
\* out are unseen and cleared, and no operation on one address space changes
\* what another one sees.
THEOREM Refinement == Spec => ImplementsAddressSpace
<1>1. Init => IInv /\ Abstract!Init
    BY InitIInv, InitRefines
<1>2. IInv /\ [Next]_vars => IInv'
    BY NextIInv
<1>3. IInv /\ IInv' /\ [Next]_vars => [Abstract!Next]_sees
    BY StepRefines
<1>4. QED
    BY <1>1, <1>2, <1>3, PTL DEF Spec, ImplementsAddressSpace, Abstract!Spec, sees
=============================================================================
