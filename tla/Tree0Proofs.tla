----------------------------- MODULE Tree0Proofs -----------------------------
(* Proofs about the preprocessed tree of air-core: its assembly, for       *)
(* compositions of any number of modules with any number of columns, and   *)
(* the process-global caches of its root and of the twiddles, for any      *)
(* number of threads, any module sets and any set of sizes that panic.     *)
EXTENDS Tree0, ProcessCaches, WellFoundedInduction, TLAPS

(* A module is asked only for ids it declares. *)
SelectedAreOwn ==
    \A i \in DOMAIN modules : \A k \in DOMAIN selected[i] :
        \E l \in DOMAIN modules[i].ids : modules[i].ids[l] = selected[i][k]

NatLess == {ss \in Nat \X Nat : ss[1] < ss[2]}

(* A set of naturals that is not empty has a least element. *)
LEMMA LeastElement ==
    ASSUME NEW S \in SUBSET Nat, S # {}
    PROVE  \E x \in S : \A y \in S : ~(y < x)
<1>1. IsWellFoundedOn(NatLess, Nat)
  BY NatLessThanWellFounded DEF OpToRel, NatLess
<1>2. PICK x \in S : \A y \in S : ~(<<y, x>> \in NatLess)
  BY <1>1, WFMin
<1>3. QED
  BY <1>2 DEF NatLess

(* The column a module finds for one of its ids is the first one it        *)
(* declares under that id.                                                 *)
LEMMA OwnColumnIsFirst ==
    ASSUME NEW md \in Modules, NEW id, \E l \in DOMAIN md.ids : md.ids[l] = id
    PROVE  \E l \in DOMAIN md.ids :
               /\ md.ids[l] = id /\ \A j \in 1 .. l - 1 : md.ids[j] # id
               /\ md.columns[l] = OwnColumn(md, id)
<1> DEFINE S == {l \in DOMAIN md.ids : md.ids[l] = id}
<1>1. md.ids \in Seq(Ids) /\ DOMAIN md.ids = 1 .. Len(md.ids)
  BY DEF Modules
<1>2. S \in SUBSET Nat /\ S # {}
  BY <1>1
<1>3. PICK x \in S : \A y \in S : ~(y < x)
  <2> HIDE DEF S
  <2> QED BY <1>2, LeastElement
<1> DEFINE Q(k) == md.ids[k] = id /\ \A j \in 1 .. k - 1 : md.ids[j] # id
<1>4. x \in DOMAIN md.ids /\ Q(x)
  BY <1>1, <1>3
<1> DEFINE w == CHOOSE k \in DOMAIN md.ids : Q(k)
<1>5. w \in DOMAIN md.ids /\ Q(w)
  <2> HIDE DEF Q
  <2> QED BY <1>4
<1>6. OwnColumn(md, id) = md.columns[w]
  BY DEF OwnColumn
<1>7. QED
  BY <1>5, <1>6

(* What a module writes for a selection of its ids in which no id occurs   *)
(* twice: for each id, the first column the module declares under it.      *)
LEMMA WrittenIsFirst ==
    ASSUME NEW md \in Modules, NEW sel \in Seq(Ids),
           \A k \in DOMAIN sel : \E l \in DOMAIN md.ids : md.ids[l] = sel[k],
           \A k, l \in DOMAIN sel : sel[k] = sel[l] => k = l
    PROVE  /\ Len(Written(md, sel)) = Len(sel)
           /\ \A k \in 1 .. Len(sel) : \E l \in DOMAIN md.ids :
                  /\ md.ids[l] = sel[k] /\ \A j \in 1 .. l - 1 : md.ids[j] # sel[k]
                  /\ md.columns[l] = Written(md, sel)[k]
<1>1. /\ md.ids \in Seq(Ids) /\ DOMAIN md.ids = 1 .. Len(md.ids) /\ Len(md.ids) \in Nat
      /\ md.columns \in Seq(Columns) /\ Len(md.columns) = Len(md.ids)
  BY DEF Modules
<1>2. CASE sel = md.ids
  <2>1. Written(md, sel) = md.columns
    BY <1>2 DEF Written
  <2>2. ASSUME NEW k \in 1 .. Len(sel), NEW j \in 1 .. k - 1
        PROVE  md.ids[j] # sel[k]
    <3>1. j \in DOMAIN sel /\ k \in DOMAIN sel /\ j # k
      BY <1>1, <1>2
    <3>2. QED
      BY <1>2, <3>1
  <2>3. QED
    BY <1>1, <1>2, <2>1, <2>2
<1>3. CASE sel # md.ids
  <2>1. Written(md, sel) = [k \in 1 .. Len(sel) |-> OwnColumn(md, sel[k])]
    BY <1>3 DEF Written
  <2>2. \A k \in DOMAIN sel : \E l \in DOMAIN md.ids :
            /\ md.ids[l] = sel[k] /\ \A j \in 1 .. l - 1 : md.ids[j] # sel[k]
            /\ md.columns[l] = OwnColumn(md, sel[k])
    BY OwnColumnIsFirst
  <2>3. \A k \in 1 .. Len(sel) : Written(md, sel)[k] = OwnColumn(md, sel[k])
    BY <2>1, Zenon
  <2>4. Len(Written(md, sel)) = Len(sel)
    BY <2>1
  <2>5. QED
    BY <2>2, <2>3, <2>4
<1>4. QED
  BY <1>2, <1>3

(* What a module writes is a sequence of columns. *)
LEMMA WrittenAreColumns ==
    ASSUME NEW md \in Modules, NEW sel \in Seq(Ids),
           \A k \in DOMAIN sel : \E l \in DOMAIN md.ids : md.ids[l] = sel[k]
    PROVE  Written(md, sel) \in Seq(Columns)
<1>1. /\ DOMAIN md.ids = 1 .. Len(md.ids)
      /\ md.columns \in Seq(Columns) /\ Len(md.columns) = Len(md.ids)
  BY DEF Modules
<1>2. CASE sel = md.ids
  BY <1>1, <1>2 DEF Written
<1>3. CASE sel # md.ids
  <2>1. Written(md, sel) = [k \in 1 .. Len(sel) |-> OwnColumn(md, sel[k])]
    BY <1>3 DEF Written
  <2>2. \A k \in 1 .. Len(sel) : OwnColumn(md, sel[k]) \in Columns
    BY <1>1, OwnColumnIsFirst
  <2>3. QED
    BY <2>1, <2>2
<1>4. QED
  BY <1>2, <1>3
----------------------------------------------------------------------------
TypeInv == TypeOK /\ SelectedAreOwn

LEMMA CompositionsAreSequences == Init => modules \in Seq(Modules)
BY CompositionsAssumption DEF Init

LEMMA TypeInit == Init => TypeInv
<1> SUFFICES ASSUME Init PROVE TypeInv
  OBVIOUS
<1> USE CompositionsAreSequences
<1>1. modules \in Seq(Modules) /\ Len(modules) \in Nat
  OBVIOUS
<1>2. first \in [Ids -> {Fingerprint(col) : col \in Columns} \cup {NotSeen}]
  BY DEF Init
<1>3. selected \in [DOMAIN modules -> Seq(Ids)]
  BY DEF Init
<1>4. phase \in Phases /\ mode \in {"prove", "root"}
  BY DEF Init, FirstPhase, Phases
<1>5. TypeOK
  BY <1>1, <1>2, <1>3, <1>4 DEF Init, TypeOK
<1>6. SelectedAreOwn
  BY DEF Init, SelectedAreOwn
<1>7. QED
  BY <1>5, <1>6 DEF TypeInv

(* A visited column has an id of Ids and is one of Columns. *)
LEMMA ColumnTypes ==
    ASSUME TypeInv, NEW i \in DOMAIN modules, NEW k \in DOMAIN modules[i].ids
    PROVE  /\ modules[i] \in Modules
           /\ modules[i].ids[k] \in Ids
           /\ modules[i].columns[k] \in Columns
<1>1. modules[i] \in Modules
  BY DEF TypeInv, TypeOK
<1>2. QED
  BY <1>1 DEF Modules

LEMMA TypeStep == TypeInv /\ [Next]_vars => TypeInv'
<1> SUFFICES ASSUME TypeInv, [Next]_vars PROVE TypeInv'
  OBVIOUS
<1> USE DEF TypeInv
<1> DEFINE Domain == DOMAIN modules
<1>0. /\ modules \in Seq(Modules) /\ Len(modules) \in Nat /\ DOMAIN modules = 1 .. Len(modules)
      /\ m \in Nat \ {0} /\ c \in Nat \ {0}
  BY DEF TypeOK
<1>1. ASSUME FingerprintColumn PROVE TypeInv'
  <2>1. m \in DOMAIN modules /\ c \in DOMAIN Here.ids
    BY <1>0, <1>1 DEF FingerprintColumn, InColumn, Here, TypeOK, Modules
  <2>2. Here.ids[c] \in Ids /\ Here.columns[c] \in Columns
    BY <2>1, ColumnTypes DEF Here
  <2>3. first' \in [Ids -> {Fingerprint(col) : col \in Columns} \cup {NotSeen}]
    BY ZenonT(40), <1>1, <2>2 DEF FingerprintColumn, TypeOK
  <2>4. phase' \in Phases /\ m' = m /\ c' \in Nat \ {0}
    BY <1>0, <1>1 DEF FingerprintColumn, StepColumn, TypeOK, Phases
  <2>5. UNCHANGED <<modules, mode, seen, unique, selected, tree, layout>>
    BY <1>1 DEF FingerprintColumn
  <2>6. TypeOK'
    BY <2>3, <2>4, <2>5 DEF TypeOK
  <2>7. SelectedAreOwn'
    BY <2>5 DEF SelectedAreOwn
  <2>8. QED
    BY <2>6, <2>7
<1>2. ASSUME FingerprintNextModule \/ SelectNextModule \/ LayoutNextModule PROVE TypeInv'
  <2>1. /\ UNCHANGED <<modules, mode, phase, first, seen, unique, selected, tree, layout>>
        /\ m' = m + 1 /\ c' = 1 /\ m <= Len(modules)
    BY <1>2 DEF FingerprintNextModule, SelectNextModule, LayoutNextModule, StepModule, AtModuleEnd
  <2>2. m' \in 1 .. Len(modules') + 1 /\ c' \in Nat \ {0}
    BY <1>0, <2>1
  <2>3. TypeOK'
    BY <2>1, <2>2 DEF TypeOK
  <2>4. SelectedAreOwn'
    BY <2>1 DEF SelectedAreOwn
  <2>5. QED
    BY <2>3, <2>4
<1>3. ASSUME SelectColumn PROVE TypeInv'
  <2>1. m \in DOMAIN modules /\ c \in DOMAIN Here.ids
    BY <1>0, <1>3 DEF SelectColumn, InColumn, Here, TypeOK, Modules
  <2>2. Here.ids[c] \in Ids
    BY <2>1, ColumnTypes DEF Here
  <2>3. UNCHANGED <<modules, mode, phase, first, tree, layout, m>> /\ c' = c + 1
    BY <1>3 DEF SelectColumn, StepColumn
  <2>4. CASE Here.ids[c] \in seen
    <3>1. UNCHANGED <<seen, unique, selected>>
      BY <1>3, <2>4 DEF SelectColumn
    <3>2. TypeOK'
      BY <1>0, <2>3, <3>1 DEF TypeOK
    <3>3. SelectedAreOwn'
      BY <2>3, <3>1 DEF SelectedAreOwn
    <3>4. QED
      BY <3>2, <3>3
  <2>5. CASE Here.ids[c] \notin seen
    <3>1. /\ seen' = seen \cup {Here.ids[c]}
          /\ unique' = Append(unique, Here.ids[c])
          /\ selected' = [selected EXCEPT ![m] = Append(selected[m], Here.ids[c])]
      BY <1>3, <2>5 DEF SelectColumn
    <3>2. selected[m] \in Seq(Ids) /\ DOMAIN selected = DOMAIN modules
      BY <2>1 DEF TypeOK
    <3>3. selected' \in [DOMAIN modules' -> Seq(Ids)]
      BY <2>1, <2>2, <2>3, <3>1, <3>2 DEF TypeOK
    <3>4. unique' \in Seq(Ids) /\ seen' \subseteq Ids
      BY <2>2, <3>1 DEF TypeOK
    <3>5. TypeOK'
      BY <1>0, <2>3, <3>3, <3>4 DEF TypeOK
    <3>6. ASSUME NEW i \in DOMAIN modules, NEW k \in DOMAIN selected'[i]
          PROVE  \E l \in DOMAIN modules[i].ids : modules[i].ids[l] = selected'[i][k]
      <4>1. CASE i # m
        BY <3>1, <3>2, <4>1 DEF SelectedAreOwn
      <4>2. CASE i = m /\ k \in DOMAIN selected[m]
        <5>1. selected'[i][k] = selected[i][k]
          BY <3>1, <3>2, <2>1, <4>2
        <5>2. QED
          BY <5>1, <4>2, <2>1 DEF SelectedAreOwn
      <4>3. CASE i = m /\ k \notin DOMAIN selected[m]
        <5>1. selected'[i][k] = Here.ids[c]
          BY <3>1, <3>2, <2>1, <2>2, <4>3
        <5>2. QED
          BY <5>1, <4>3, <2>1 DEF Here
      <4>4. QED
        BY <4>1, <4>2, <4>3
    <3>7. SelectedAreOwn'
      BY <2>3, <3>6 DEF SelectedAreOwn
    <3>8. QED
      BY <3>5, <3>7
  <2>6. QED
    BY <2>4, <2>5
<1>4. ASSUME WriteModule PROVE TypeInv'
  <2>1. UNCHANGED <<modules, mode, first, seen, unique, selected, layout>> /\ m \in DOMAIN modules
    BY <1>0, <1>4 DEF WriteModule
  <2>2. Here \in Modules /\ selected[m] \in Seq(Ids)
    BY <2>1 DEF Here, TypeOK
  <2>3. \A k \in DOMAIN selected[m] : \E l \in DOMAIN Here.ids : Here.ids[l] = selected[m][k]
    BY <2>1 DEF SelectedAreOwn, Here
  <2>4. Written(Here, selected[m]) \in Seq(Columns)
    BY <2>2, <2>3, WrittenAreColumns
  <2>5. tree' \in Seq(Columns)
    <3> DEFINE written == Written(Here, selected[m])
    <3>1. tree' = tree \o written \/ tree' = tree
      BY <1>4 DEF WriteModule
    <3>2. tree \in Seq(Columns) /\ written \in Seq(Columns)
      BY <2>4 DEF TypeOK
    <3> HIDE DEF written
    <3>3. tree \o written \in Seq(Columns)
      BY <3>2
    <3>4. QED
      BY <3>1, <3>2, <3>3
  <2>6. phase' \in Phases /\ m' \in 1 .. Len(modules) + 1 /\ c' \in Nat \ {0}
    BY <1>0, <1>4, <2>1 DEF WriteModule, StepModule, TypeOK, Phases
  <2>7. TypeOK'
    BY <2>1, <2>5, <2>6 DEF TypeOK
  <2>8. SelectedAreOwn'
    BY <2>1 DEF SelectedAreOwn
  <2>9. QED
    BY <2>7, <2>8
<1>5. ASSUME LayoutColumn PROVE TypeInv'
  <2>1. m \in DOMAIN modules /\ c \in DOMAIN Here.ids
    BY <1>0, <1>5 DEF LayoutColumn, InColumn, Here, TypeOK, Modules
  <2>2. Here.ids[c] \in Ids /\ Here.columns[c].size \in {col.size : col \in Columns}
    BY <2>1, ColumnTypes DEF Here
  <2>3. UNCHANGED <<modules, mode, phase, first, unique, selected, tree, m>> /\ c' = c + 1
    BY <1>5 DEF LayoutColumn, StepColumn
  <2>4. seen' \subseteq Ids
    BY <1>5, <2>2 DEF LayoutColumn, TypeOK
  <2>5. layout' \in Seq(Ids \X {col.size : col \in Columns})
    <3> DEFINE sizes == {col.size : col \in Columns}
               entry == <<Here.ids[c], Here.columns[c].size>>
    <3>1. layout' = Append(layout, entry) \/ layout' = layout
      BY <1>5 DEF LayoutColumn
    <3>2. layout \in Seq(Ids \X sizes) /\ entry \in Ids \X sizes
      BY <2>2 DEF TypeOK
    <3> HIDE DEF sizes, entry
    <3>3. layout' \in Seq(Ids \X sizes)
      BY <3>1, <3>2
    <3>4. QED
      BY <3>3 DEF sizes
  <2>6. TypeOK'
    BY <1>0, <2>3, <2>4, <2>5 DEF TypeOK
  <2>7. SelectedAreOwn'
    BY <2>3 DEF SelectedAreOwn
  <2>8. QED
    BY <2>6, <2>7
<1>6. ASSUME EndLoop PROVE TypeInv'
  <2>1. /\ UNCHANGED <<modules, mode, first, unique, selected, tree, layout>>
        /\ m' = 1 /\ c' = 1 /\ seen' = {}
    BY <1>6 DEF EndLoop
  <2>2. phase' \in Phases
    BY <1>6 DEF EndLoop, PhaseAfter, Phases, TypeOK
  <2>3. TypeOK'
    BY <1>0, <2>1, <2>2 DEF TypeOK
  <2>4. SelectedAreOwn'
    BY <2>1 DEF SelectedAreOwn
  <2>5. QED
    BY <2>3, <2>4
<1>7. CASE UNCHANGED vars
  BY <1>7 DEF vars, TypeOK, SelectedAreOwn
<1>8. QED
  BY <1>1, <1>2, <1>3, <1>4, <1>5, <1>6, <1>7 DEF Next

(* Every variable keeps its type in every reachable state: ids that are    *)
(* committed are declared ids, and what is committed are declared columns. *)
THEOREM TypeCorrect == Spec => []TypeOK
<1>1. Spec => []TypeInv
  BY TypeInit, TypeStep, PTL DEF Spec
<1>2. QED
  BY <1>1, PTL DEF TypeInv
----------------------------------------------------------------------------
(* What the columns of a composition are typed as, for the steps below. *)
LEMMA Shape ==
    ASSUME TypeInv
    PROVE  /\ modules \in Seq(Modules) /\ Len(modules) \in Nat
           /\ DOMAIN modules = 1 .. Len(modules)
           /\ m \in Nat \ {0} /\ c \in Nat \ {0} /\ m <= Len(modules) + 1
           /\ \A i \in DOMAIN modules : DOMAIN modules[i].ids = 1 .. Len(modules[i].ids)
                                        /\ Len(modules[i].ids) \in Nat
                                        /\ modules[i].ids \in Seq(Ids)
           /\ selected \in [DOMAIN modules -> Seq(Ids)]
           /\ unique \in Seq(Ids) /\ tree \in Seq(Columns)
BY DEF TypeInv, TypeOK, Modules

(* The place of a column is a pair of numbers. *)
LEMMA PositionTypes ==
    ASSUME TypeInv, NEW i \in DOMAIN modules, NEW k \in DOMAIN modules[i].ids
    PROVE  i \in Nat /\ k \in Nat
<1>1. i \in 1 .. Len(modules) /\ k \in 1 .. Len(modules[i].ids)
  BY Shape
<1>2. QED
  BY <1>1

(* The loops visit column k of module i before column l of module j. *)
Before(i, k, j, l) == i < j \/ (i = j /\ k < l)

(* Column k of module i is the first one declared under id. *)
FirstAt(i, k, id) ==
    /\ modules[i].ids[k] = id
    /\ \A j \in DOMAIN modules : \A l \in DOMAIN modules[j].ids :
           Before(j, l, i, k) => modules[j].ids[l] # id

FirstColumn(id, col) ==
    \E i \in DOMAIN modules : \E k \in DOMAIN modules[i].ids :
        FirstAt(i, k, id) /\ modules[i].columns[k] = col

(* Some declaration of a comes before every declaration of b. *)
Earlier(a, b) ==
    \E i \in DOMAIN modules : \E k \in DOMAIN modules[i].ids :
        /\ modules[i].ids[k] = a
        /\ \A j \in DOMAIN modules : \A l \in DOMAIN modules[j].ids :
               modules[j].ids[l] = b => Before(i, k, j, l)

(* L lists the ids declared before column l of module j, in the order in   *)
(* which they are first declared.                                          *)
Lists(L, j, l) ==
    /\ \A p \in DOMAIN L : \E i \in DOMAIN modules : \E k \in DOMAIN modules[i].ids :
           modules[i].ids[k] = L[p] /\ Before(i, k, j, l)
    /\ \A i \in DOMAIN modules : \A k \in DOMAIN modules[i].ids :
           Before(i, k, j, l) => \E p \in DOMAIN L : L[p] = modules[i].ids[k]
    /\ \A p, q \in DOMAIN L : p < q => Earlier(L[p], L[q])

Has(L, id) == \E p \in DOMAIN L : L[p] = id

(* No two ids are each earlier than the other, so none is earlier than     *)
(* itself.                                                                 *)
LEMMA EarlierIsStrict ==
    ASSUME TypeInv, NEW a, NEW b, Earlier(a, b)
    PROVE  ~Earlier(b, a)
<1>1. PICK i \in DOMAIN modules : \E k \in DOMAIN modules[i].ids :
          /\ modules[i].ids[k] = a
          /\ \A j \in DOMAIN modules : \A l \in DOMAIN modules[j].ids :
                 modules[j].ids[l] = b => Before(i, k, j, l)
  BY DEF Earlier
<1>2. PICK k \in DOMAIN modules[i].ids :
          /\ modules[i].ids[k] = a
          /\ \A j \in DOMAIN modules : \A l \in DOMAIN modules[j].ids :
                 modules[j].ids[l] = b => Before(i, k, j, l)
  BY <1>1
<1>3. SUFFICES ASSUME NEW j \in DOMAIN modules, NEW l \in DOMAIN modules[j].ids,
                      modules[j].ids[l] = b, Before(j, l, i, k)
               PROVE  FALSE
  BY <1>2 DEF Earlier
<1>4. Before(i, k, j, l)
  BY <1>2, <1>3
<1>5. i \in Nat /\ j \in Nat /\ k \in Nat /\ l \in Nat
  BY PositionTypes
<1>6. QED
  BY <1>3, <1>4, <1>5 DEF Before

(* A list of the walked ids has no id twice. *)
LEMMA ListedOnce ==
    ASSUME TypeInv, NEW L \in Seq(Ids), NEW j, NEW l, Lists(L, j, l)
    PROVE  \A p, q \in DOMAIN L : L[p] = L[q] => p = q
<1>1. \A p, q \in DOMAIN L : p < q => L[p] # L[q]
  <2> SUFFICES ASSUME NEW p \in DOMAIN L, NEW q \in DOMAIN L, p < q, L[p] = L[q] PROVE FALSE
    OBVIOUS
  <2>1. Earlier(L[p], L[q])
    BY DEF Lists
  <2>2. QED
    BY <2>1, EarlierIsStrict
<1>2. \A p \in DOMAIN L : p \in Nat
  OBVIOUS
<1>3. QED
  BY <1>1, <1>2

(* The walk passes the last column of a module. *)
LEMMA ListedTurns ==
    ASSUME TypeInv, NEW L, Lists(L, m, c), AtModuleEnd
    PROVE  Lists(L, m + 1, 1)
<1>1. \A i \in DOMAIN modules : \A k \in DOMAIN modules[i].ids :
          Before(i, k, m, c) <=> Before(i, k, m + 1, 1)
  BY Shape, SMTT(30) DEF Before, AtModuleEnd, Here
<1>2. QED
  BY <1>1 DEF Lists

(* The walk passes a column whose id is listed. *)
LEMMA ListedStays ==
    ASSUME TypeInv, NEW L, Lists(L, m, c), m \in DOMAIN modules, c \in DOMAIN modules[m].ids,
           Has(L, modules[m].ids[c])
    PROVE  Lists(L, m, c + 1)
<1>1. \A i \in DOMAIN modules : \A k \in DOMAIN modules[i].ids :
          Before(i, k, m, c + 1) <=> (Before(i, k, m, c) \/ (i = m /\ k = c))
  BY Shape, SMTT(30) DEF Before
<1>2. QED
  BY <1>1 DEF Lists, Has

(* A column whose id is not listed is the first one declared under it. *)
LEMMA UnlistedIsFirst ==
    ASSUME TypeInv, NEW L, Lists(L, m, c), m \in DOMAIN modules, c \in DOMAIN modules[m].ids,
           ~Has(L, modules[m].ids[c])
    PROVE  FirstAt(m, c, modules[m].ids[c])
BY DEF Lists, Has, FirstAt

(* The walk passes a column whose id is not listed, and lists it. *)
LEMMA ListedGrows ==
    ASSUME TypeInv, NEW L \in Seq(Ids), Lists(L, m, c), m \in DOMAIN modules,
           c \in DOMAIN modules[m].ids, ~Has(L, modules[m].ids[c])
    PROVE  Lists(Append(L, modules[m].ids[c]), m, c + 1)
<1> DEFINE id == modules[m].ids[c]
           grown == Append(L, id)
<1>1. /\ Len(L) \in Nat /\ DOMAIN L = 1 .. Len(L) /\ DOMAIN grown = 1 .. Len(L) + 1
      /\ \A p \in DOMAIN L : grown[p] = L[p]
      /\ grown[Len(L) + 1] = id
  BY Shape
<1>2. \A p \in DOMAIN grown : p \in DOMAIN L \/ p = Len(L) + 1
  BY <1>1
<1>3. \A i \in DOMAIN modules : \A k \in DOMAIN modules[i].ids :
          Before(i, k, m, c + 1) <=> (Before(i, k, m, c) \/ (i = m /\ k = c))
  BY Shape, SMTT(30) DEF Before
<1>4. ASSUME NEW p \in DOMAIN L PROVE Earlier(L[p], id)
  <2>1. PICK i \in DOMAIN modules : \E k \in DOMAIN modules[i].ids :
            modules[i].ids[k] = L[p] /\ Before(i, k, m, c)
    BY DEF Lists
  <2>2. PICK k \in DOMAIN modules[i].ids : modules[i].ids[k] = L[p] /\ Before(i, k, m, c)
    BY <2>1
  <2>3. ASSUME NEW j \in DOMAIN modules, NEW l \in DOMAIN modules[j].ids, modules[j].ids[l] = id
        PROVE  Before(i, k, j, l)
    <3>1. ~Before(j, l, m, c)
      BY <2>3 DEF Lists, Has
    <3>2. i \in Nat /\ j \in Nat /\ k \in Nat /\ l \in Nat /\ m \in Nat /\ c \in Nat
      BY Shape, PositionTypes
    <3>3. QED
      BY <2>2, <3>1, <3>2 DEF Before
  <2>4. QED
    BY <2>2, <2>3 DEF Earlier
<1> HIDE DEF grown, id
<1>5. ASSUME NEW p \in DOMAIN grown
      PROVE  \E i \in DOMAIN modules : \E k \in DOMAIN modules[i].ids :
                 modules[i].ids[k] = grown[p] /\ Before(i, k, m, c + 1)
  BY <1>1, <1>2, <1>3 DEF Lists, id
<1>6. ASSUME NEW i \in DOMAIN modules, NEW k \in DOMAIN modules[i].ids, Before(i, k, m, c + 1)
      PROVE  \E p \in DOMAIN grown : grown[p] = modules[i].ids[k]
  <2>1. CASE Before(i, k, m, c)
    BY <1>1, <2>1 DEF Lists
  <2>2. CASE i = m /\ k = c
    BY <1>1, <2>2 DEF id
  <2>3. QED
    BY <1>3, <1>6, <2>1, <2>2
<1>7. ASSUME NEW p \in DOMAIN grown, NEW q \in DOMAIN grown, p < q
      PROVE  Earlier(grown[p], grown[q])
  <2>1. p \in DOMAIN L
    BY <1>1, <1>7
  <2>2. CASE q \in DOMAIN L
    BY <1>1, <1>7, <2>1, <2>2 DEF Lists
  <2>3. CASE q = Len(L) + 1
    BY <1>1, <1>4, <2>1, <2>3
  <2>4. QED
    BY <1>2, <2>2, <2>3
<1>8. Lists(grown, m, c + 1)
  BY <1>5, <1>6, <1>7 DEF Lists
<1>9. QED
  BY <1>8 DEF grown, id

(* A loop that has passed the last module has walked everything.           *)
LEMMA ListedEnd ==
    ASSUME TypeInv, NEW L, Lists(L, m, c), AtLoopEnd
    PROVE  Lists(L, Len(modules) + 1, 1)
<1>1. \A i \in DOMAIN modules : \A k \in DOMAIN modules[i].ids :
          Before(i, k, m, c) /\ Before(i, k, Len(modules) + 1, 1)
  BY Shape DEF Before, AtLoopEnd
<1>2. QED
  BY <1>1 DEF Lists

(* Nothing is listed before the first column. *)
LEMMA ListedStart ==
    ASSUME TypeInv
    PROVE  Lists(<<>>, 1, 1)
<1>1. \A i \in DOMAIN modules : \A k \in DOMAIN modules[i].ids : ~Before(i, k, 1, 1)
  BY Shape DEF Before
<1>2. QED
  BY <1>1 DEF Lists

(* Where two lists of the same ids first differ, the id of the one comes   *)
(* later in the other.                                                     *)
LEMMA FirstDifference ==
    ASSUME TypeInv, NEW K \in Seq(Ids), NEW L \in Seq(Ids), NEW j, NEW l,
           Lists(K, j, l), Lists(L, j, l), NEW p \in DOMAIN K, p \in DOMAIN L, K[p] # L[p],
           \A q \in 1 .. p - 1 : K[q] = L[q]
    PROVE  Earlier(L[p], K[p])
<1>1. Has(L, K[p])
  BY DEF Lists, Has
<1>2. PICK q \in DOMAIN L : L[q] = K[p]
  BY <1>1 DEF Has
<1>3. ~(q < p)
  <2> SUFFICES ASSUME q < p PROVE FALSE
    OBVIOUS
  <2>1. q \in 1 .. p - 1 /\ q \in DOMAIN K
    OBVIOUS
  <2>2. K[q] = K[p]
    BY <1>2, <2>1
  <2>3. QED
    BY <2>1, <2>2, ListedOnce
<1>4. p \in Nat /\ q \in Nat /\ q # p
  BY <1>2
<1>5. p < q
  BY <1>3, <1>4
<1>6. QED
  BY <1>2, <1>5 DEF Lists

(* The list of the ids declared up to a column is unique. *)
LEMMA OneList ==
    ASSUME TypeInv, NEW K \in Seq(Ids), NEW L \in Seq(Ids), NEW j, NEW l,
           Lists(K, j, l), Lists(L, j, l)
    PROVE  K = L
<1>1. \A p \in DOMAIN K : p \in DOMAIN L => K[p] = L[p]
  <2> DEFINE S == {p \in DOMAIN K \cap DOMAIN L : K[p] # L[p]}
  <2> SUFFICES ASSUME S # {} PROVE FALSE
    OBVIOUS
  <2>1. S \in SUBSET Nat
    OBVIOUS
  <2>2. PICK p \in S : \A y \in S : ~(y < p)
    <3> HIDE DEF S
    <3> QED BY <2>1, LeastElement
  <2>3. p \in DOMAIN K /\ p \in DOMAIN L /\ K[p] # L[p]
    BY <2>2
  <2>4. \A q \in 1 .. p - 1 : K[q] = L[q]
    <3> SUFFICES ASSUME NEW q \in 1 .. p - 1, K[q] # L[q] PROVE FALSE
      OBVIOUS
    <3>1. q \in DOMAIN K /\ q \in DOMAIN L /\ q < p
      BY <2>3
    <3>2. QED
      BY <2>2, <3>1
  <2>5. Earlier(L[p], K[p])
    BY <2>3, <2>4, FirstDifference
  <2>6. Earlier(K[p], L[p])
    BY <2>3, <2>4, FirstDifference
  <2>7. QED
    BY <2>5, <2>6, EarlierIsStrict
<1>2. ASSUME NEW A \in Seq(Ids), NEW B \in Seq(Ids), Lists(A, j, l), Lists(B, j, l),
             \A p \in DOMAIN A : p \in DOMAIN B => A[p] = B[p]
      PROVE  Len(A) <= Len(B)
  <2> SUFFICES ASSUME Len(A) > Len(B) PROVE FALSE
    OBVIOUS
  <2> DEFINE p == Len(B) + 1
  <2>1. p \in DOMAIN A /\ \A q \in DOMAIN B : q \in DOMAIN A /\ q # p
    OBVIOUS
  <2>2. Has(B, A[p])
    BY <1>2, <2>1 DEF Lists, Has
  <2>3. PICK q \in DOMAIN B : B[q] = A[p]
    BY <2>2 DEF Has
  <2>4. A[q] = A[p] /\ q \in DOMAIN A /\ q # p
    BY <1>2, <2>1, <2>3
  <2>5. QED
    BY <1>2, <2>1, <2>4, ListedOnce
<1>3. Len(K) <= Len(L)
  BY <1>1, <1>2
<1>4. \A p \in DOMAIN L : p \in DOMAIN K => L[p] = K[p]
  BY <1>1
<1>5. Len(L) <= Len(K)
  BY <1>2, <1>4
<1>6. Len(K) = Len(L)
  BY <1>3, <1>5
<1>7. QED
  BY <1>1, <1>6
----------------------------------------------------------------------------
(* The fingerprint separates columns: the 64-bit hash has no collision     *)
(* among the columns of the composition.                                   *)
FingerprintsSeparate == \A a, b \in Columns : Fingerprint(a) = Fingerprint(b) => a = b

(* Modules that share an id mean the same column by it. *)
Agreeing == \A id \in Ids : \A a, b \in Columns : Declared(id, a) /\ Declared(id, b) => a = b

(* A module with columns exposes their fingerprints.                       *)
Exposing == \A i \in DOMAIN modules : Len(modules[i].ids) > 0 => modules[i].exposes

FingerprintsRecorded ==
    phase \notin {"conflict", "unexposed"} =>
        \A i \in DOMAIN modules : \A k \in DOMAIN modules[i].ids :
            (phase = "fingerprint" => Before(i, k, m, c)) =>
                first[modules[i].ids[k]] = Fingerprint(modules[i].columns[k])

(* A fingerprint is that of a column declared under the id. *)
FingerprintsDeclared ==
    \A id \in Ids : first[id] = NotSeen \/
        \E col \in Columns : Declared(id, col) /\ first[id] = Fingerprint(col)

FingerprintInv ==
    /\ mode = "prove" => FingerprintsRecorded
    /\ FingerprintsDeclared
    /\ phase = "conflict" => ~Agreeing
    /\ phase = "unexposed" => ~Exposing

LEMMA FingerprintInit == Init => FingerprintInv
<1> SUFFICES ASSUME Init PROVE FingerprintInv
  OBVIOUS
<1>1. TypeInv
  BY TypeInit
<1>2. \A i \in DOMAIN modules : \A k \in DOMAIN modules[i].ids : ~Before(i, k, m, c)
  BY <1>1, Shape DEF Init, Before
<1>3. mode = "prove" => FingerprintsRecorded
  BY <1>2 DEF Init, FirstPhase, FingerprintsRecorded
<1>4. FingerprintsDeclared
  BY DEF Init, FingerprintsDeclared
<1>5. phase \notin {"conflict", "unexposed"}
  BY DEF Init, FirstPhase
<1>6. QED
  BY <1>3, <1>4, <1>5 DEF FingerprintInv

(* The fingerprint loop passes one column, or finds that it has another    *)
(* fingerprint than a column declared under the same id, or none.          *)
LEMMA FingerprintColumnStep ==
    ASSUME TypeInv, FingerprintInv, FingerprintColumn
    PROVE  FingerprintInv'
<1>1. /\ UNCHANGED <<modules, mode, m>> /\ phase = "fingerprint" /\ InColumn
  BY DEF FingerprintColumn, StepColumn
<1>2. m \in DOMAIN modules /\ c \in DOMAIN modules[m].ids
  BY <1>1, Shape DEF InColumn, Here
<1> DEFINE id == modules[m].ids[c]
           column == modules[m].columns[c]
<1>3. id \in Ids /\ column \in Columns
  BY <1>2, ColumnTypes
<1>4. Declared(id, column)
  BY <1>2 DEF Declared
<1>5. phase' \in {"fingerprint", "conflict", "unexposed"}
  BY <1>1 DEF FingerprintColumn, StepColumn
<1>6. /\ first' = [first EXCEPT ![id] = Fingerprint(column)] \/ first' = first
      /\ phase' = "fingerprint" => /\ c' = c + 1
                                   /\ first[id] \in {NotSeen, Fingerprint(column)}
                                   /\ first'[id] = Fingerprint(column)
      /\ phase' = "conflict" => first[id] \notin {NotSeen, Fingerprint(column)}
  BY <1>1, <1>3 DEF FingerprintColumn, StepColumn, Here, TypeInv, TypeOK
<1>7. ASSUME mode = "prove", phase' = "fingerprint" PROVE FingerprintsRecorded'
  <2>1. FingerprintsRecorded
    BY <1>7 DEF FingerprintInv
  <2>2. ASSUME NEW i \in DOMAIN modules, NEW k \in DOMAIN modules[i].ids, Before(i, k, m, c + 1)
        PROVE  first'[modules[i].ids[k]] = Fingerprint(modules[i].columns[k])
    <3>1. modules[i].ids[k] \in Ids /\ modules[i].columns[k] \in Columns
      BY ColumnTypes
    <3>2. CASE i = m /\ k = c
      BY <1>6, <1>7, <3>2
    <3>3. CASE ~(i = m /\ k = c)
      <4>1. Before(i, k, m, c)
        BY <2>2, <3>3, Shape, PositionTypes DEF Before
      <4>2. first[modules[i].ids[k]] = Fingerprint(modules[i].columns[k])
        BY <1>1, <2>1, <4>1 DEF FingerprintsRecorded
      <4>3. first[modules[i].ids[k]] # NotSeen
        BY <3>1, <4>2, NotSeenAssumption
      <4>4. first'[modules[i].ids[k]] = first[modules[i].ids[k]]
        BY <1>3, <1>6, <1>7, <3>1, <4>3 DEF TypeInv, TypeOK
      <4>5. QED
        BY <4>2, <4>4
    <3>4. QED
      BY <3>2, <3>3
  <2>3. QED
    BY <1>1, <1>6, <1>7, <2>2 DEF FingerprintsRecorded
<1>8. mode' = "prove" => FingerprintsRecorded'
  BY <1>1, <1>5, <1>7 DEF FingerprintsRecorded
<1>9. FingerprintsDeclared'
  <2>1. ASSUME NEW j \in Ids
        PROVE  first'[j] = NotSeen \/
                   \E col \in Columns : Declared(j, col) /\ first'[j] = Fingerprint(col)
    <3>1. first'[j] = first[j] \/ (j = id /\ first'[j] = Fingerprint(column))
      BY <1>3, <1>6 DEF TypeInv, TypeOK
    <3>2. QED
      BY <1>3, <1>4, <3>1 DEF FingerprintInv, FingerprintsDeclared
  <2>2. QED
    BY <1>1, <2>1 DEF FingerprintsDeclared, Declared
<1>10. ASSUME phase' = "conflict" PROVE ~Agreeing
  <2>1. PICK col \in Columns : Declared(id, col) /\ first[id] = Fingerprint(col)
    BY <1>3, <1>6, <1>10 DEF FingerprintInv, FingerprintsDeclared
  <2>2. col # column
    BY <1>6, <1>10, <2>1
  <2>3. QED
    BY <1>3, <1>4, <2>1, <2>2 DEF Agreeing
<1>11. phase' = "conflict" => ~Agreeing'
  BY <1>1, <1>10 DEF Agreeing, Declared
<1>12. ASSUME phase' = "unexposed" PROVE ~Exposing'
  <2>1. ~modules[m].exposes
    BY <1>1, <1>12 DEF FingerprintColumn, StepColumn, Here
  <2>2. Len(modules[m].ids) > 0
    BY <1>1, Shape DEF InColumn, Here, TypeInv, TypeOK
  <2>3. QED
    BY <1>1, <1>2, <2>1, <2>2 DEF Exposing
<1>13. QED
  BY <1>8, <1>9, <1>11, <1>12 DEF FingerprintInv

LEMMA FingerprintStep == TypeInv /\ FingerprintInv /\ [Next]_vars => FingerprintInv'
<1> SUFFICES ASSUME TypeInv, FingerprintInv, [Next]_vars PROVE FingerprintInv'
  OBVIOUS
<1>1. CASE FingerprintColumn
  BY <1>1, FingerprintColumnStep
<1>2. ASSUME UNCHANGED <<modules, mode, first>>, phase' = "conflict" => phase = "conflict",
             phase' = "unexposed" => phase = "unexposed",
             phase = "unexposed" => phase' = "unexposed",
             phase' = "fingerprint" =>
                 /\ phase = "fingerprint"
                 /\ \A i \in DOMAIN modules : \A k \in DOMAIN modules[i].ids :
                        Before(i, k, m', c') => Before(i, k, m, c),
             phase = "conflict" => phase' = "conflict",
             phase = "fingerprint" /\ phase' # "fingerprint" =>
                 \A i \in DOMAIN modules : \A k \in DOMAIN modules[i].ids : Before(i, k, m, c)
      PROVE  FingerprintInv'
  <2>1. mode = "prove" => FingerprintsRecorded'
    BY <1>2 DEF FingerprintInv, FingerprintsRecorded
  <2>2. FingerprintsDeclared'
    BY <1>2 DEF FingerprintInv, FingerprintsDeclared, Declared
  <2>3. phase' = "conflict" => ~Agreeing'
    BY <1>2 DEF FingerprintInv, Agreeing, Declared
  <2>4. phase' = "unexposed" => ~Exposing'
    BY <1>2 DEF FingerprintInv, Exposing
  <2>5. QED
    BY <1>2, <2>1, <2>2, <2>3, <2>4 DEF FingerprintInv
<1>3. CASE FingerprintNextModule
  <2>1. \A i \in DOMAIN modules : \A k \in DOMAIN modules[i].ids :
            Before(i, k, m', c') => Before(i, k, m, c)
    BY <1>3, Shape, SMTT(30) DEF FingerprintNextModule, StepModule, AtModuleEnd, Here, Before
  <2>2. QED
    BY <1>2, <1>3, <2>1 DEF FingerprintNextModule, StepModule
<1>4. CASE SelectColumn \/ SelectNextModule \/ WriteModule \/ LayoutColumn \/ LayoutNextModule
  <2>1. /\ UNCHANGED <<modules, mode, first>>
        /\ phase \notin {"conflict", "unexposed", "fingerprint"}
        /\ phase' \notin {"conflict", "unexposed", "fingerprint"}
    BY <1>4 DEF SelectColumn, SelectNextModule, WriteModule, LayoutColumn, LayoutNextModule,
                StepColumn, StepModule
  <2>2. QED
    BY <1>2, <2>1
<1>5. CASE EndLoop
  <2>1. /\ UNCHANGED <<modules, mode, first>> /\ m > Len(modules)
        /\ phase \notin {"conflict", "unexposed"}
        /\ phase' \notin {"conflict", "unexposed", "fingerprint"}
    BY <1>5 DEF EndLoop, AtLoopEnd, PhaseAfter
  <2>2. \A i \in DOMAIN modules : \A k \in DOMAIN modules[i].ids : Before(i, k, m, c)
    BY <2>1, Shape DEF Before
  <2>3. QED
    BY <1>2, <2>1, <2>2
<1>6. CASE UNCHANGED vars
  BY <1>2, <1>6 DEF vars
<1>7. QED
  BY <1>1, <1>3, <1>4, <1>5, <1>6 DEF Next
----------------------------------------------------------------------------
(* No id has been selected: the select loop is still to come. *)
Unselected ==
    phase \in {"fingerprint", "conflict", "unexposed"} \/ (phase = "layout" /\ mode = "root")

Untouched == unique = <<>> /\ tree = <<>> /\ \A i \in DOMAIN modules : selected[i] = <<>>

Collected(L) == \A id \in Ids : id \in seen <=> Has(L, id)

(* L lists all ids of the composition. *)
Whole(L) == Lists(L, Len(modules) + 1, 1)

(* A module is asked for the ids whose first declaration it has. *)
SelectedFirst ==
    \A i \in DOMAIN modules : \A k \in DOMAIN selected[i] :
        \E l \in DOMAIN modules[i].ids : FirstAt(i, l, selected[i][k])

(* The selections of the modules, one after the other, are the unique ids: *)
(* that of module i starts behind position off[i].                         *)
Aligned(off) ==
    /\ off[1] = 0
    /\ off[Len(modules) + 1] = Len(unique)
    /\ \A i \in DOMAIN modules :
           /\ off[i + 1] = off[i] + Len(selected[i])
           /\ \A k \in DOMAIN selected[i] :
                  off[i] + k \in DOMAIN unique /\ unique[off[i] + k] = selected[i][k]

(* Modules the select loop has not reached have no selection yet. *)
SelectProgress(off) ==
    phase = "select" =>
        \A j \in m + 1 .. Len(modules) + 1 :
            off[j] = Len(unique) /\ (j <= Len(modules) => selected[j] = <<>>)

(* The tree has the columns of the unique ids, as far as it is written. *)
TreeFollows(off) ==
    /\ phase = "select" => tree = <<>>
    /\ phase = "write" => Len(tree) = off[m]
    /\ phase \in {"layout", "done"} => Len(tree) = Len(unique)
    /\ \A p \in DOMAIN tree : FirstColumn(unique[p], tree[p])

Offsets == [1 .. Len(modules) + 1 -> Nat]

SelectInv ==
    /\ phase \in {"fingerprint", "conflict", "unexposed"} => mode = "prove"
    /\ Unselected => Untouched
    /\ phase = "select" => Lists(unique, m, c) /\ Collected(unique)
    /\ ~Unselected /\ phase # "select" => Whole(unique)
    /\ SelectedFirst
    /\ ~Unselected =>
           \E off \in Offsets : Aligned(off) /\ SelectProgress(off) /\ TreeFollows(off)

LEMMA SelectInit == Init => SelectInv
<1> SUFFICES ASSUME Init PROVE SelectInv
  OBVIOUS
<1>1. Unselected /\ phase \in {"fingerprint", "layout"} /\ (phase = "fingerprint" => mode = "prove")
  BY DEF Init, FirstPhase, Unselected
<1>2. Untouched
  BY DEF Init, Untouched
<1>3. SelectedFirst
  BY DEF Init, SelectedFirst
<1>4. QED
  BY <1>1, <1>2, <1>3 DEF SelectInv

(* The loops over the modules that select and write nothing. *)
LEMMA SelectKept ==
    ASSUME TypeInv, SelectInv, UNCHANGED <<modules, mode, unique, selected, tree>>,
           \/ phase' = phase /\ phase \notin {"select", "write"}
           \/ phase = "fingerprint" /\ phase' \in {"conflict", "unexposed"}
    PROVE  SelectInv'
<1>1. Unselected' <=> Unselected
  BY DEF Unselected
<1>2. Unselected' => Untouched'
  BY <1>1 DEF SelectInv, Untouched
<1>3. ~Unselected' /\ phase' # "select" => Whole(unique)'
  BY <1>1 DEF SelectInv, Whole, Lists, Earlier, Before
<1>4. SelectedFirst'
  BY DEF SelectInv, SelectedFirst, FirstAt, Before
<1>5. ASSUME ~Unselected'
      PROVE  (\E off \in Offsets : Aligned(off) /\ SelectProgress(off) /\ TreeFollows(off))'
  <2>1. PICK off \in Offsets : Aligned(off) /\ SelectProgress(off) /\ TreeFollows(off)
    BY <1>1, <1>5 DEF SelectInv
  <2>2. off \in Offsets' /\ Aligned(off)' /\ SelectProgress(off)'
    BY <2>1 DEF Offsets, Aligned, SelectProgress
  <2>3. TreeFollows(off)'
    BY <2>1 DEF TreeFollows, FirstColumn, FirstAt, Before
  <2>4. QED
    BY <2>2, <2>3
<1>6. QED
  BY <1>1, <1>2, <1>3, <1>4, <1>5 DEF SelectInv

(* The select loop goes on to its next module. *)
LEMMA SelectTurnStep ==
    ASSUME TypeInv, SelectInv, SelectNextModule
    PROVE  SelectInv'
<1>1. /\ UNCHANGED <<modules, mode, phase, seen, unique, selected, tree>>
      /\ m' = m + 1 /\ c' = 1 /\ AtModuleEnd /\ phase = "select" /\ ~Unselected /\ ~Unselected'
  BY DEF SelectNextModule, StepModule, Unselected
<1>2. Lists(unique, m + 1, 1) /\ Collected(unique)
  BY <1>1, ListedTurns DEF SelectInv
<1>3. Lists(unique, m, c)' /\ Collected(unique)'
  BY <1>1, <1>2 DEF Lists, Earlier, Before, Collected, Has
<1>4. SelectedFirst'
  BY <1>1 DEF SelectInv, SelectedFirst, FirstAt, Before
<1>5. PICK off \in Offsets : Aligned(off) /\ SelectProgress(off) /\ TreeFollows(off)
  BY <1>1 DEF SelectInv
<1>6. off \in Offsets' /\ Aligned(off)'
  BY <1>1, <1>5 DEF Offsets, Aligned
<1>7. SelectProgress(off)'
  BY <1>1, <1>5, Shape DEF SelectProgress
<1>8. TreeFollows(off)'
  BY <1>1, <1>5 DEF TreeFollows, FirstColumn, FirstAt, Before
<1>9. QED
  BY <1>1, <1>3, <1>4, <1>6, <1>7, <1>8 DEF SelectInv

(* The select loop passes a column whose id has been seen. *)
LEMMA SelectSeenStep ==
    ASSUME TypeInv, SelectInv, SelectColumn, Here.ids[c] \in seen
    PROVE  SelectInv'
<1>1. /\ UNCHANGED <<modules, mode, phase, seen, unique, selected, tree, m>>
      /\ phase = "select" /\ InColumn /\ ~Unselected /\ ~Unselected' /\ c' = c + 1
  BY DEF SelectColumn, StepColumn, Unselected
<1>2. m \in DOMAIN modules /\ c \in DOMAIN modules[m].ids /\ modules[m].ids[c] \in Ids
  BY <1>1, Shape, ColumnTypes DEF InColumn, Here
<1>3. Lists(unique, m, c) /\ Collected(unique)
  BY <1>1 DEF SelectInv
<1>4. Lists(unique, m, c + 1)
  BY <1>2, <1>3, ListedStays DEF Collected, Here
<1>5. Lists(unique, m, c)' /\ Collected(unique)'
  BY <1>1, <1>3, <1>4 DEF Lists, Earlier, Before, Collected, Has
<1>6. SelectedFirst'
  BY <1>1 DEF SelectInv, SelectedFirst, FirstAt, Before
<1>7. PICK off \in Offsets : Aligned(off) /\ SelectProgress(off) /\ TreeFollows(off)
  BY <1>1 DEF SelectInv
<1>8. off \in Offsets' /\ Aligned(off)' /\ SelectProgress(off)'
  BY <1>1, <1>7 DEF Offsets, Aligned, SelectProgress
<1>9. TreeFollows(off)'
  BY <1>1, <1>7 DEF TreeFollows, FirstColumn, FirstAt, Before
<1>10. QED
  BY <1>1, <1>5, <1>6, <1>8, <1>9 DEF SelectInv

(* The select loop passes a column whose id is new: it is appended to the  *)
(* unique ids and to the module's selection, which is the last one that is *)
(* not empty.                                                              *)
LEMMA SelectNewStep ==
    ASSUME TypeInv, SelectInv, SelectColumn, Here.ids[c] \notin seen
    PROVE  SelectInv'
<1> DEFINE id == modules[m].ids[c]
<1>1. /\ UNCHANGED <<modules, mode, phase, tree, m>>
      /\ phase = "select" /\ InColumn /\ ~Unselected /\ ~Unselected' /\ c' = c + 1
      /\ seen' = seen \cup {id}
      /\ unique' = Append(unique, id)
      /\ selected' = [selected EXCEPT ![m] = Append(selected[m], id)]
  BY DEF SelectColumn, StepColumn, Unselected, Here
<1>2. m \in DOMAIN modules /\ c \in DOMAIN modules[m].ids /\ id \in Ids
  BY <1>1, Shape, ColumnTypes, SMTT(30) DEF InColumn, Here
<1>3. Lists(unique, m, c) /\ Collected(unique)
  BY <1>1 DEF SelectInv
<1>4. ~Has(unique, id)
  BY <1>2, <1>3 DEF Collected, Here
<1>5. /\ unique \in Seq(Ids) /\ unique' \in Seq(Ids) /\ Len(unique') = Len(unique) + 1
      /\ \A p \in 1 .. Len(unique) : unique'[p] = unique[p]
      /\ unique'[Len(unique) + 1] = id
      /\ DOMAIN unique = 1 .. Len(unique) /\ DOMAIN unique' = 1 .. Len(unique) + 1
      /\ Len(unique) \in Nat
  BY <1>1, <1>2, Shape, SMTT(30)
<1>6. Lists(Append(unique, id), m, c + 1)
  BY <1>2, <1>3, <1>4, <1>5, ListedGrows
<1>7. Lists(unique, m, c)'
  <2> DEFINE grown == Append(unique, id)
  <2>1. Lists(grown, m, c + 1)
    BY <1>6
  <2>2. unique' = grown /\ modules' = modules /\ m' = m /\ c' = c + 1
    BY <1>1
  <2> HIDE DEF grown
  <2>3. QED
    BY <2>1, <2>2 DEF Lists, Earlier, Before
<1>8. Collected(unique)'
  <2>1. ASSUME NEW j \in Ids PROVE j \in seen' <=> \E p \in DOMAIN unique' : unique'[p] = j
    BY <1>1, <1>2, <1>3, <1>5 DEF Collected, Has
  <2>2. QED
    BY <2>1 DEF Collected, Has
<1>9. FirstAt(m, c, id)
  BY <1>2, <1>3, <1>4, UnlistedIsFirst
<1>10. PICK off \in Offsets : Aligned(off) /\ SelectProgress(off) /\ TreeFollows(off)
  BY <1>1 DEF SelectInv
<1>11. /\ selected[m] \in Seq(Ids) /\ Len(selected[m]) \in Nat
       /\ Len(selected'[m]) = Len(selected[m]) + 1
       /\ DOMAIN selected'[m] = 1 .. Len(selected[m]) + 1
       /\ DOMAIN selected[m] = 1 .. Len(selected[m])
       /\ \A k \in 1 .. Len(selected[m]) : selected'[m][k] = selected[m][k]
       /\ selected'[m][Len(selected[m]) + 1] = id
       /\ \A i \in DOMAIN modules : i # m => selected'[i] = selected[i]
  BY <1>1, <1>2, Shape
<1>12. /\ \A j \in 1 .. Len(modules) + 1 : off[j] \in Nat
       /\ m \in Nat \ {0} /\ Len(modules) \in Nat /\ m <= Len(modules)
       /\ DOMAIN modules = 1 .. Len(modules)
  <2>1. \A j \in 1 .. Len(modules) + 1 : off[j] \in Nat
    BY DEF Offsets
  <2>2. /\ m \in Nat \ {0} /\ Len(modules) \in Nat /\ m <= Len(modules)
        /\ DOMAIN modules = 1 .. Len(modules)
    BY <1>2, Shape
  <2>3. QED
    BY <2>1, <2>2
<1>13. PICK new \in Offsets :
           \A j \in 1 .. Len(modules) + 1 : new[j] = IF j > m THEN off[j] + 1 ELSE off[j]
  <2> DEFINE f == [j \in 1 .. Len(modules) + 1 |-> IF j > m THEN off[j] + 1 ELSE off[j]]
  <2>1. f \in Offsets
    BY <1>12 DEF Offsets
  <2>2. QED
    BY <2>1
<1>14. /\ off[m + 1] = Len(unique) /\ off[m] + Len(selected[m]) = Len(unique)
       /\ \A j \in DOMAIN modules : j > m => selected[j] = <<>>
       /\ \A j \in 1 .. Len(modules) + 1 : j > m => off[j] = Len(unique)
  <2>1. \A j \in m + 1 .. Len(modules) + 1 :
            off[j] = Len(unique) /\ (j <= Len(modules) => selected[j] = <<>>)
    BY <1>1, <1>10 DEF SelectProgress
  <2>2. \A j \in 1 .. Len(modules) + 1 : j > m => j \in m + 1 .. Len(modules) + 1
    BY <1>12
  <2>3. off[m + 1] = off[m] + Len(selected[m])
    BY <1>2, <1>10 DEF Aligned
  <2>4. QED
    BY <1>12, <2>1, <2>2, <2>3
<1>15. Aligned(new)'
  <2>1. new[1] = 0 /\ new[Len(modules) + 1] = Len(unique')
    <3>1. off[1] = 0 /\ off[Len(modules) + 1] = Len(unique)
      BY <1>10 DEF Aligned
    <3>2. /\ 1 \in 1 .. Len(modules) + 1 /\ ~(1 > m)
          /\ Len(modules) + 1 \in 1 .. Len(modules) + 1 /\ Len(modules) + 1 > m
      BY <1>12
    <3>3. new[1] = off[1] /\ new[Len(modules) + 1] = off[Len(modules) + 1] + 1
      BY <1>13, <3>2
    <3>4. QED
      BY <1>5, <3>1, <3>3
  <2>2. ASSUME NEW i \in DOMAIN modules
        PROVE  new[i + 1] = new[i] + Len(selected'[i])
    <3>1. /\ off[i + 1] = off[i] + Len(selected[i])
          /\ off[i] \in Nat /\ Len(selected[i]) \in Nat /\ i \in Nat
      BY <1>10, <1>12, Shape DEF Aligned
    <3>2. i \in 1 .. Len(modules) + 1 /\ i + 1 \in 1 .. Len(modules) + 1
      BY <1>12, <3>1
    <3>3. CASE i < m
      <4>1. ~(i > m) /\ ~(i + 1 > m) /\ i # m
        BY <1>12, <3>1, <3>3
      <4>2. new[i] = off[i] /\ new[i + 1] = off[i + 1] /\ selected'[i] = selected[i]
        BY <1>11, <1>13, <3>2, <4>1
      <4>3. QED
        BY <3>1, <4>2
    <3>4. CASE i = m
      <4>1. new[i] = off[i] /\ new[i + 1] = off[i + 1] + 1
        BY <1>12, <1>13, <3>2, <3>4
      <4>2. QED
        BY <1>11, <3>1, <3>4, <4>1
    <3>5. CASE i > m
      <4>1. i + 1 > m /\ i # m
        BY <1>12, <3>1, <3>5
      <4>2. new[i] = off[i] + 1 /\ new[i + 1] = off[i + 1] + 1 /\ selected'[i] = selected[i]
        BY <1>11, <1>13, <3>2, <3>5, <4>1
      <4>3. QED
        BY <3>1, <4>2
    <3>6. QED
      BY <1>12, <3>1, <3>3, <3>4, <3>5
  <2>3. ASSUME NEW i \in DOMAIN modules, NEW k \in DOMAIN selected'[i]
        PROVE  new[i] + k \in DOMAIN unique' /\ unique'[new[i] + k] = selected'[i][k]
    <3>1. CASE i < m
      <4>1. new[i] = off[i] /\ selected'[i] = selected[i]
        BY <1>11, <1>12, <1>13, <3>1
      <4>2. off[i] + k \in DOMAIN unique /\ unique[off[i] + k] = selected[i][k]
        BY <1>10, <4>1 DEF Aligned
      <4>3. QED
        BY <1>5, <4>1, <4>2
    <3>2. CASE i > m
      <4>1. selected[i] = <<>> /\ selected'[i] = selected[i]
        BY <1>11, <1>12, <1>14, <3>2
      <4>2. QED
        BY <4>1
    <3>3. CASE i = m /\ k <= Len(selected[m])
      <4>1. new[i] = off[m] /\ k \in DOMAIN selected[m] /\ selected'[i][k] = selected[m][k]
        BY <1>11, <1>12, <1>13, <3>3, SMTT(30)
      <4>2. off[m] + k \in DOMAIN unique /\ unique[off[m] + k] = selected[m][k]
        BY <1>2, <1>10, <4>1 DEF Aligned
      <4>3. QED
        BY <1>5, <4>1, <4>2
    <3>4. CASE i = m /\ k > Len(selected[m])
      <4>1. new[i] = off[m] /\ k = Len(selected[m]) + 1 /\ selected'[i][k] = id
        BY <1>11, <1>12, <1>13, <3>4, SMTT(30)
      <4>2. off[m] \in Nat
        BY <1>12
      <4>3. new[i] + k = Len(unique) + 1
        BY <1>5, <1>11, <1>14, <4>1, <4>2
      <4>4. QED
        BY <1>5, <4>1, <4>3
    <3>5. QED
      <4>1. i \in Nat /\ m \in Nat /\ (i = m => k \in Nat)
        BY <1>11, <1>12
      <4>2. QED
        BY <1>11, <3>1, <3>2, <3>3, <3>4, <4>1
  <2>4. QED
    BY <1>1, <2>1, <2>2, <2>3 DEF Aligned
<1>16. SelectProgress(new)'
  <2>1. ASSUME NEW j \in m + 1 .. Len(modules) + 1
        PROVE  new[j] = Len(unique') /\ (j <= Len(modules) => selected'[j] = <<>>)
    <3>1. j > m /\ j \in 1 .. Len(modules) + 1 /\ (j <= Len(modules) => j \in DOMAIN modules)
      BY <1>12
    <3>2. new[j] = off[j] + 1 /\ off[j] = Len(unique)
      BY <1>13, <1>14, <3>1
    <3>3. ASSUME j <= Len(modules) PROVE selected'[j] = <<>>
      <4>1. j \in DOMAIN modules /\ j # m
        BY <1>12, <3>1, <3>3
      <4>2. selected'[j] = selected[j] /\ selected[j] = <<>>
        BY <1>11, <1>14, <3>1, <4>1
      <4>3. QED
        BY <4>2
    <3>4. QED
      BY <1>5, <3>2, <3>3
  <2>2. QED
    BY <1>1, <2>1 DEF SelectProgress
<1>17. TreeFollows(new)'
  BY <1>1, <1>10 DEF TreeFollows
<1>18. new \in Offsets'
  BY <1>1, <1>13 DEF Offsets
<1>19. SelectedFirst'
  <2>1. ASSUME NEW i \in DOMAIN modules, NEW k \in DOMAIN selected'[i]
        PROVE  \E l \in DOMAIN modules[i].ids : FirstAt(i, l, selected'[i][k])
    <3>1. CASE i # m
      BY <1>1, <1>11, <3>1 DEF SelectInv, SelectedFirst
    <3>2. CASE i = m /\ k \in DOMAIN selected[m]
      BY <1>1, <1>2, <1>11, <3>2 DEF SelectInv, SelectedFirst
    <3>3. CASE i = m /\ k \notin DOMAIN selected[m]
      <4>1. selected'[i][k] = id
        BY <1>11, <3>3
      <4>2. QED
        BY <1>2, <1>9, <3>3, <4>1
    <3>4. QED
      BY <3>1, <3>2, <3>3
  <2>2. QED
    BY <1>1, <2>1, SMTT(30) DEF SelectedFirst, FirstAt
<1>20. QED
  BY <1>1, <1>7, <1>8, <1>15, <1>16, <1>17, <1>18, <1>19 DEF SelectInv

(* The entries of a concatenation are those of its parts. *)
LEMMA ConcatEntries ==
    ASSUME NEW S, NEW s \in Seq(S), NEW t \in Seq(S)
    PROVE  /\ \A p \in 1 .. Len(s) : (s \o t)[p] = s[p]
           /\ \A k \in 1 .. Len(t) : (s \o t)[Len(s) + k] = t[k]
<1>1. /\ Len(s) \in Nat /\ Len(t) \in Nat /\ Len(s \o t) = Len(s) + Len(t)
      /\ \A p \in 1 .. Len(s) + Len(t) :
             (s \o t)[p] = IF p <= Len(s) THEN s[p] ELSE t[p - Len(s)]
  OBVIOUS
<1>2. ASSUME NEW k \in 1 .. Len(t) PROVE (s \o t)[Len(s) + k] = t[k]
  <2>1. /\ Len(s) + k \in 1 .. Len(s) + Len(t) /\ ~(Len(s) + k <= Len(s))
        /\ (Len(s) + k) - Len(s) = k
    BY <1>1
  <2>2. QED
    BY <1>1, <2>1
<1>3. QED
  BY <1>1, <1>2

(* A module writes its selection: the tree grows by the columns of the     *)
(* unique ids from off[m] + 1 to off[m + 1].                               *)
LEMMA WriteStep ==
    ASSUME TypeInv, SelectInv, WriteModule
    PROVE  SelectInv'
<1>1. /\ UNCHANGED <<modules, mode, seen, unique, selected>>
      /\ phase = "write" /\ ~Unselected /\ m <= Len(modules)
      /\ phase' \in {"write", "unsupported"} /\ ~Unselected'
  BY DEF WriteModule, StepModule, Unselected
<1>2. m \in DOMAIN modules
  BY <1>1, Shape
<1>3. Whole(unique) /\ Whole(unique)'
  BY <1>1 DEF SelectInv, Whole, Lists, Earlier, Before
<1>4. SelectedFirst /\ SelectedFirst'
  BY <1>1 DEF SelectInv, SelectedFirst, FirstAt, Before
<1>5. PICK off \in Offsets : Aligned(off) /\ SelectProgress(off) /\ TreeFollows(off)
  BY <1>1 DEF SelectInv
<1>6. off \in Offsets' /\ Aligned(off)' /\ SelectProgress(off)'
  BY <1>1, <1>5 DEF Offsets, Aligned, SelectProgress
<1>7. CASE ~CanWrite(Here, selected[m])
  <2>1. phase' = "unsupported" /\ tree' = tree
    BY <1>7, <1>1 DEF WriteModule
  <2>2. TreeFollows(off)'
    BY <1>1, <1>5, <2>1 DEF TreeFollows, FirstColumn, FirstAt, Before
  <2>3. QED
    BY <1>1, <1>3, <1>4, <1>6, <2>1, <2>2 DEF SelectInv
<1>8. CASE CanWrite(Here, selected[m])
  <2> DEFINE written == Written(Here, selected[m])
  <2>1. phase' = "write" /\ m' = m + 1 /\ tree' = tree \o written
    BY <1>8, <1>1 DEF WriteModule, StepModule
  <2>2. Here \in Modules /\ selected[m] \in Seq(Ids)
    BY <1>2, Shape DEF Here
  <2>3. \A k \in DOMAIN selected[m] : \E l \in DOMAIN Here.ids : Here.ids[l] = selected[m][k]
    BY <1>2 DEF TypeInv, SelectedAreOwn, Here
  <2>4. \A k, l \in DOMAIN selected[m] : selected[m][k] = selected[m][l] => k = l
    <3> SUFFICES ASSUME NEW k \in DOMAIN selected[m], NEW l \in DOMAIN selected[m],
                        selected[m][k] = selected[m][l]
                 PROVE  k = l
      OBVIOUS
    <3>1. /\ off[m] + k \in DOMAIN unique /\ unique[off[m] + k] = selected[m][k]
          /\ off[m] + l \in DOMAIN unique /\ unique[off[m] + l] = selected[m][l]
      BY <1>2, <1>5 DEF Aligned
    <3>2. off[m] + k = off[m] + l
      BY <1>3, <3>1, Shape, ListedOnce DEF Whole
    <3>3. k \in Nat /\ l \in Nat
      BY <2>2
    <3>4. off[m] \in Nat
      BY <1>1, Shape DEF Offsets
    <3>5. QED
      BY <3>2, <3>3, <3>4
  <2>5. /\ written \in Seq(Columns) /\ Len(written) = Len(selected[m])
        /\ \A k \in 1 .. Len(selected[m]) : \E l \in DOMAIN Here.ids :
               /\ Here.ids[l] = selected[m][k] /\ \A j \in 1 .. l - 1 : Here.ids[j] # selected[m][k]
               /\ Here.columns[l] = written[k]
    BY <2>2, <2>3, <2>4, WrittenIsFirst, WrittenAreColumns
  <2> HIDE DEF written
  <2>6. tree \in Seq(Columns) /\ Len(tree) = off[m] /\ off[m + 1] = off[m] + Len(selected[m])
    BY <1>1, <1>2, <1>5, Shape DEF TreeFollows, Aligned
  <2>7. /\ Len(tree') = off[m + 1]
        /\ DOMAIN tree' = 1 .. Len(tree) + Len(written)
        /\ \A p \in 1 .. Len(tree) : tree'[p] = tree[p]
        /\ \A k \in 1 .. Len(written) : tree'[Len(tree) + k] = written[k]
    <3>1. Len(tree) \in Nat /\ Len(written) \in Nat
      BY <2>5, <2>6
    <3>2. /\ Len(tree') = Len(tree) + Len(written)
          /\ DOMAIN tree' = 1 .. Len(tree')
      BY <2>1, <2>5, <2>6
    <3>3. /\ \A p \in 1 .. Len(tree) : (tree \o written)[p] = tree[p]
          /\ \A k \in 1 .. Len(written) : (tree \o written)[Len(tree) + k] = written[k]
      BY <2>5, <2>6, ConcatEntries, SMTT(30)
    <3>4. /\ \A p \in 1 .. Len(tree) : tree'[p] = tree[p]
          /\ \A k \in 1 .. Len(written) : tree'[Len(tree) + k] = written[k]
      BY <2>1, <3>3, Zenon
    <3>5. QED
      BY <2>5, <2>6, <3>1, <3>2, <3>4
  <2>8. ASSUME NEW p \in DOMAIN tree' PROVE FirstColumn(unique[p], tree'[p])
    <3>1. CASE p \in 1 .. Len(tree)
      <4>1. p \in DOMAIN tree /\ tree'[p] = tree[p]
        BY <2>6, <2>7, <3>1
      <4>2. QED
        BY <1>5, <4>1 DEF TreeFollows
    <3>2. CASE p \notin 1 .. Len(tree)
      <4>1. PICK k \in 1 .. Len(written) : p = Len(tree) + k
        <5>1. /\ p \in Nat /\ p > Len(tree) /\ p <= Len(tree) + Len(written)
              /\ Len(tree) \in Nat /\ Len(written) \in Nat
          BY <2>5, <2>6, <2>7, <3>2
        <5>2. p - Len(tree) \in 1 .. Len(written) /\ p = Len(tree) + (p - Len(tree))
          BY <5>1
        <5>3. QED
          BY <5>2
      <4>2. k \in DOMAIN selected[m]
        BY <2>2, <2>5
      <4> DEFINE id == selected[m][k]
      <4>3. unique[p] = id
        BY <1>2, <1>5, <2>6, <4>1, <4>2 DEF Aligned
      <4>4. PICK l \in DOMAIN Here.ids :
                /\ Here.ids[l] = id /\ \A j \in 1 .. l - 1 : Here.ids[j] # id
                /\ Here.columns[l] = written[k]
        BY <2>5, <4>1
      <4>5. tree'[p] = written[k]
        BY <2>7, <4>1
      <4>6. PICK q \in DOMAIN modules[m].ids : FirstAt(m, q, id)
        BY <1>2, <1>4, <4>2 DEF SelectedFirst
      <4>7. FirstAt(m, l, id)
        <5> SUFFICES ASSUME NEW i \in DOMAIN modules, NEW j \in DOMAIN modules[i].ids,
                            Before(i, j, m, l), modules[i].ids[j] = id
                     PROVE  FALSE
          BY <4>4 DEF FirstAt, Here
        <5>1. ~Before(i, j, m, q)
          BY <4>6 DEF FirstAt
        <5>2. i \in Nat /\ j \in Nat /\ l \in Nat /\ q \in Nat /\ m \in Nat
          BY <1>2, <4>4, PositionTypes, Shape DEF Here
        <5>3. i = m
          BY <5>1, <5>2 DEF Before
        <5>4. j < l
          BY <5>2, <5>3 DEF Before
        <5>5. j \in 1 .. l - 1
          <6>1. j \in 1 .. Len(modules[i].ids)
            BY Shape
          <6>2. QED
            BY <5>2, <5>4, <6>1
        <5>6. QED
          BY <4>4, <5>3, <5>5 DEF Here
      <4>8. QED
        BY <1>2, <4>3, <4>4, <4>5, <4>7 DEF FirstColumn, Here
    <3>3. QED
      BY <3>1, <3>2
  <2>9. TreeFollows(off)'
    <3>1. unique' = unique /\ modules' = modules /\ Len(tree') = off[m']
      BY <1>1, <2>1, <2>7
    <3>2. (\A p \in DOMAIN tree : FirstColumn(unique[p], tree[p]))'
      BY <2>8, <3>1 DEF FirstColumn, FirstAt, Before
    <3>3. QED
      BY <2>1, <3>1, <3>2 DEF TreeFollows
  <2>10. QED
    BY <1>1, <1>3, <1>4, <1>6, <2>1, <2>9 DEF SelectInv
<1>9. QED
  BY <1>7, <1>8

(* A loop ends with every column visited.  The select loop starts with no  *)
(* id collected; the write loop starts at offset 0 and ends at the last.   *)
LEMMA EndLoopStep ==
    ASSUME TypeInv, SelectInv, EndLoop
    PROVE  SelectInv'
<1>1. /\ UNCHANGED <<modules, mode, unique, selected, tree>>
      /\ m' = 1 /\ c' = 1 /\ seen' = {} /\ m > Len(modules) /\ AtLoopEnd
      /\ phase \in {"fingerprint", "select", "write", "layout"}
      /\ phase = "fingerprint" => phase' = "select"
      /\ phase = "select" => phase' = "write"
      /\ phase = "write" => phase' \in {"layout", "done"} /\ (phase' = "layout" => mode = "prove")
      /\ phase = "layout" => phase' = IF mode = "prove" THEN "done" ELSE "select"
      /\ mode \in {"prove", "root"} /\ ~Unselected'
  BY DEF EndLoop, AtLoopEnd, PhaseAfter, Unselected, TypeInv, TypeOK
<1>2. SelectedFirst'
  BY <1>1 DEF SelectInv, SelectedFirst, FirstAt, Before
<1>3. CASE Unselected
  <2>1. Untouched /\ phase' = "select"
    BY <1>1, <1>3 DEF SelectInv, Unselected
  <2>2. Lists(<<>>, 1, 1)
    BY ListedStart
  <2>3. Lists(unique, m, c)'
    <3>1. unique' = <<>> /\ modules' = modules /\ m' = 1 /\ c' = 1
      BY <1>1, <2>1 DEF Untouched
    <3>2. QED
      BY <2>2, <3>1 DEF Lists, Earlier, Before
  <2>4. Collected(unique)'
    BY <1>1, <2>1 DEF Untouched, Collected, Has
  <2>5. PICK off \in Offsets : \A j \in 1 .. Len(modules) + 1 : off[j] = 0
    <3>1. [j \in 1 .. Len(modules) + 1 |-> 0] \in Offsets
      BY DEF Offsets
    <3>2. QED
      BY <3>1
  <2>6. Len(unique) = 0 /\ \A i \in DOMAIN modules : selected[i] = <<>> /\ Len(selected[i]) = 0
    BY <2>1 DEF Untouched
  <2>7. Aligned(off)'
    <3>1. off[1] = 0 /\ off[Len(modules) + 1] = 0
      BY <2>5, Shape
    <3>2. \A i \in DOMAIN modules : off[i] = 0 /\ off[i + 1] = 0
      BY <2>5, Shape
    <3>3. QED
      BY <1>1, <2>6, <3>1, <3>2 DEF Aligned
  <2>8. SelectProgress(off)'
    <3>1. \A j \in 2 .. Len(modules) + 1 : off[j] = 0 /\ (j <= Len(modules) => j \in DOMAIN modules)
      BY <2>5, Shape
    <3>2. QED
      BY <1>1, <2>6, <3>1 DEF SelectProgress
  <2>9. TreeFollows(off)'
    BY <1>1, <2>1 DEF Untouched, TreeFollows
  <2>10. off \in Offsets'
    BY <1>1 DEF Offsets
  <2>11. QED
    BY <1>1, <1>2, <2>1, <2>3, <2>4, <2>7, <2>8, <2>9, <2>10 DEF SelectInv
<1>4. CASE ~Unselected
  <2>1. phase' \in {"write", "layout", "done"} /\ phase \in {"select", "write", "layout"}
    BY <1>1, <1>4 DEF Unselected
  <2>2. Whole(unique)
    BY <1>1, <1>4, ListedEnd DEF SelectInv, Whole
  <2>3. Whole(unique)'
    BY <1>1, <2>2 DEF Whole, Lists, Earlier, Before
  <2>4. PICK off \in Offsets : Aligned(off) /\ SelectProgress(off) /\ TreeFollows(off)
    BY <1>4 DEF SelectInv
  <2>5. off \in Offsets' /\ Aligned(off)' /\ SelectProgress(off)'
    BY <1>1, <2>1, <2>4 DEF Offsets, Aligned, SelectProgress
  <2>6. m = Len(modules) + 1 /\ off[1] = 0 /\ off[m] = Len(unique)
    BY <1>1, <2>4, Shape DEF Aligned
  <2>7. TreeFollows(off)'
    <3>1. (\A p \in DOMAIN tree : FirstColumn(unique[p], tree[p]))'
      BY <1>1, <2>4 DEF TreeFollows, FirstColumn, FirstAt, Before
    <3>2. phase' = "write" => Len(tree') = off[m']
      BY <1>1, <1>4, <2>1, <2>4, <2>6 DEF TreeFollows, Unselected
    <3>3. phase' \in {"layout", "done"} => Len(tree') = Len(unique')
      BY <1>1, <2>1, <2>4, <2>6 DEF TreeFollows
    <3>4. QED
      BY <2>1, <3>1, <3>2, <3>3 DEF TreeFollows
  <2>8. QED
    BY <1>1, <1>2, <2>1, <2>3, <2>5, <2>7 DEF SelectInv
<1>5. QED
  BY <1>3, <1>4

LEMMA SelectStep == TypeInv /\ SelectInv /\ [Next]_vars => SelectInv'
<1> SUFFICES ASSUME TypeInv, SelectInv, [Next]_vars PROVE SelectInv'
  OBVIOUS
<1>1. CASE FingerprintColumn \/ FingerprintNextModule \/ LayoutColumn \/ LayoutNextModule
  <2>1. /\ UNCHANGED <<modules, mode, unique, selected, tree>>
        /\ \/ phase' = phase /\ phase \notin {"select", "write"}
           \/ phase = "fingerprint" /\ phase' \in {"conflict", "unexposed"}
    BY <1>1 DEF FingerprintColumn, FingerprintNextModule, LayoutColumn, LayoutNextModule,
                StepColumn, StepModule
  <2>2. QED
    BY <2>1, SelectKept
<1>2. CASE UNCHANGED vars
  <2>1. /\ UNCHANGED <<modules, mode, phase, m, c, seen, unique, selected, tree>>
    BY <1>2 DEF vars
  <2>2. CASE phase \notin {"select", "write"}
    BY <2>1, <2>2, SelectKept
  <2>3. CASE phase \in {"select", "write"}
    <3>1. ~Unselected /\ ~Unselected' /\ (phase = "select" => Lists(unique, m, c) /\ Collected(unique))
          /\ (phase = "write" => Whole(unique)) /\ SelectedFirst
      BY <2>1, <2>3 DEF Unselected, SelectInv
    <3>2. (phase' = "select" => Lists(unique, m, c)' /\ Collected(unique)')
          /\ (phase' = "write" => Whole(unique)') /\ SelectedFirst'
      BY <2>1, <3>1 DEF Lists, Earlier, Before, Collected, Has, Whole, SelectedFirst, FirstAt
    <3>3. PICK off \in Offsets : Aligned(off) /\ SelectProgress(off) /\ TreeFollows(off)
      BY <3>1 DEF SelectInv
    <3>4. off \in Offsets' /\ Aligned(off)' /\ SelectProgress(off)' /\ TreeFollows(off)'
      BY <2>1, <3>3 DEF Offsets, Aligned, SelectProgress, TreeFollows, FirstColumn, FirstAt, Before
    <3>5. QED
      BY <2>1, <2>3, <3>1, <3>2, <3>4 DEF SelectInv
  <2>4. QED
    BY <2>2, <2>3
<1>3. QED
  BY <1>1, <1>2, SelectTurnStep, SelectSeenStep, SelectNewStep, WriteStep, EndLoopStep DEF Next
----------------------------------------------------------------------------
(* If the fingerprints separate the composition's columns, then in the     *)
(* tree that prove commits every id of every module resolves to exactly    *)
(* one column, and that column is the module's own.                        *)
THEOREM OwnColumnsCommitted == FingerprintsSeparate => (Spec => []IdsResolveToOwnColumn)
<1> SUFFICES ASSUME FingerprintsSeparate PROVE Spec => []IdsResolveToOwnColumn
  OBVIOUS
<1>1. TypeInv /\ FingerprintInv /\ SelectInv => IdsResolveToOwnColumn
  <2> SUFFICES ASSUME TypeInv, FingerprintInv, SelectInv, phase = "done", mode = "prove",
                      NEW i \in DOMAIN modules, NEW k \in DOMAIN modules[i].ids
               PROVE  \E p \in DOMAIN unique :
                          /\ unique[p] = modules[i].ids[k]
                          /\ tree[p] = modules[i].columns[k]
                          /\ \A q \in DOMAIN unique \ {p} : unique[q] # unique[p]
    BY DEF IdsResolveToOwnColumn
  <2>1. FingerprintsRecorded /\ Whole(unique)
    BY DEF FingerprintInv, SelectInv, Unselected
  <2>2. PICK off \in Offsets : TreeFollows(off)
    BY DEF SelectInv, Unselected
  <2>3. PICK p \in DOMAIN unique : unique[p] = modules[i].ids[k]
    <3>1. Before(i, k, Len(modules) + 1, 1)
      BY Shape DEF Before
    <3>2. QED
      BY <2>1, <3>1 DEF Whole, Lists
  <2>4. p \in DOMAIN tree
    BY <2>2, <2>3, Shape DEF TreeFollows
  <2>5. PICK j \in DOMAIN modules : \E l \in DOMAIN modules[j].ids :
            modules[j].ids[l] = unique[p] /\ modules[j].columns[l] = tree[p]
    BY <2>2, <2>4 DEF TreeFollows, FirstColumn, FirstAt
  <2>6. PICK l \in DOMAIN modules[j].ids :
            modules[j].ids[l] = unique[p] /\ modules[j].columns[l] = tree[p]
    BY <2>5
  <2>7. Fingerprint(modules[j].columns[l]) = Fingerprint(modules[i].columns[k])
    BY <2>1, <2>3, <2>6 DEF FingerprintsRecorded
  <2>8. tree[p] = modules[i].columns[k]
    BY <2>6, <2>7, ColumnTypes DEF FingerprintsSeparate
  <2>9. \A q \in DOMAIN unique \ {p} : unique[q] # unique[p]
    BY <2>1, Shape, ListedOnce DEF Whole
  <2>10. QED
    BY <2>3, <2>8, <2>9
<1>2. Spec => [](TypeInv /\ FingerprintInv /\ SelectInv)
  BY TypeInit, TypeStep, FingerprintInit, FingerprintStep, SelectInit, SelectStep, PTL DEF Spec
<1>3. QED
  BY <1>1, <1>2, PTL
----------------------------------------------------------------------------
(* What the layout walk has listed. *)
LayoutIds == [p \in DOMAIN layout |-> layout[p][1]]

(* The layout walk is still to come. *)
Unlaid ==
    \/ phase \in {"fingerprint", "conflict", "unexposed"}
    \/ mode = "prove" /\ phase \in {"select", "write", "unsupported"}

(* The sizes are those of the first column declared under each id. *)
SizesAreFirst ==
    \A p \in DOMAIN layout : \E col \in Columns :
        FirstColumn(layout[p][1], col) /\ layout[p][2] = col.size

LayoutInv ==
    /\ phase \in {"fingerprint", "conflict", "unexposed"} => mode = "prove"
    /\ Unlaid => layout = <<>>
    /\ phase = "layout" => Lists(LayoutIds, m, c) /\ Collected(LayoutIds)
    /\ ~Unlaid /\ phase # "layout" => Whole(LayoutIds)
    /\ SizesAreFirst

LEMMA LayoutInit == Init => LayoutInv
<1> SUFFICES ASSUME Init PROVE LayoutInv
  OBVIOUS
<1>1. TypeInv
  BY TypeInit
<1>2. layout = <<>> /\ LayoutIds = <<>> /\ SizesAreFirst
  BY DEF Init, LayoutIds, SizesAreFirst
<1>3. Lists(LayoutIds, m, c) /\ Collected(LayoutIds)
  BY <1>1, <1>2, ListedStart DEF Init, Collected, Has
<1>4. phase = (IF mode = "prove" THEN "fingerprint" ELSE "layout") /\ mode \in {"prove", "root"}
  BY DEF Init, FirstPhase
<1>5. QED
  BY <1>2, <1>3, <1>4 DEF LayoutInv, Unlaid

(* The loops that lay nothing out. *)
LEMMA LayoutKept ==
    ASSUME TypeInv, LayoutInv, UNCHANGED <<modules, mode, layout>>, phase' # "layout",
           Unlaid' <=> Unlaid, phase' \in {"fingerprint", "conflict", "unexposed"} => mode = "prove",
           ~Unlaid => Whole(LayoutIds)
    PROVE  LayoutInv'
<1>1. Unlaid' => layout' = <<>>
  BY DEF LayoutInv
<1>2. ~Unlaid' => Whole(LayoutIds)'
  BY DEF Whole, Lists, Earlier, Before, LayoutIds
<1>3. SizesAreFirst'
  BY DEF LayoutInv, SizesAreFirst, FirstColumn, FirstAt, Before
<1>4. QED
  BY <1>1, <1>2, <1>3 DEF LayoutInv

LEMMA LayoutIdsTyped ==
    ASSUME TypeInv
    PROVE  /\ LayoutIds \in Seq(Ids) /\ Len(LayoutIds) = Len(layout)
           /\ DOMAIN LayoutIds = DOMAIN layout
<1> DEFINE sizes == {col.size : col \in Columns}
<1>1. layout \in Seq(Ids \X sizes)
  BY DEF TypeInv, TypeOK
<1> HIDE DEF sizes
<1>2. \A p \in 1 .. Len(layout) : layout[p][1] \in Ids
  BY <1>1
<1>3. LayoutIds = [p \in 1 .. Len(layout) |-> layout[p][1]]
  BY <1>1 DEF LayoutIds
<1>4. QED
  BY <1>1, <1>2, <1>3

(* What an appended list has. *)
LEMMA HasAppended ==
    ASSUME NEW L \in Seq(Ids), NEW id \in Ids
    PROVE  \A j : Has(Append(L, id), j) <=> (Has(L, j) \/ j = id)
<1>1. /\ Len(L) \in Nat /\ DOMAIN L = 1 .. Len(L) /\ DOMAIN Append(L, id) = 1 .. Len(L) + 1
      /\ \A p \in DOMAIN L : Append(L, id)[p] = L[p]
      /\ Append(L, id)[Len(L) + 1] = id
  OBVIOUS
<1>2. QED
  BY <1>1 DEF Has

(* The layout walk passes a column. *)
LEMMA LayoutColumnStep ==
    ASSUME TypeInv, LayoutInv, LayoutColumn
    PROVE  LayoutInv'
<1> DEFINE id == modules[m].ids[c]
           column == modules[m].columns[c]
<1>1. /\ UNCHANGED <<modules, mode, phase, m>> /\ c' = c + 1
      /\ phase = "layout" /\ InColumn /\ ~Unlaid /\ ~Unlaid'
  BY DEF LayoutColumn, StepColumn, Unlaid
<1>2. m \in DOMAIN modules /\ c \in DOMAIN modules[m].ids /\ id \in Ids /\ column \in Columns
  BY <1>1, Shape, ColumnTypes DEF InColumn, Here
<1>3. Lists(LayoutIds, m, c) /\ Collected(LayoutIds) /\ SizesAreFirst
  BY <1>1 DEF LayoutInv
<1>4. CASE id \in seen
  <2>1. UNCHANGED <<seen, layout>>
    BY <1>4 DEF LayoutColumn, Here
  <2>2. Lists(LayoutIds, m, c + 1)
    BY <1>2, <1>3, <1>4, ListedStays DEF Collected
  <2>3. Lists(LayoutIds, m, c)' /\ Collected(LayoutIds)'
    BY <1>1, <1>3, <2>1, <2>2 DEF Lists, Earlier, Before, Collected, Has, LayoutIds
  <2>4. SizesAreFirst'
    BY <1>1, <1>3, <2>1 DEF SizesAreFirst, FirstColumn, FirstAt, Before
  <2>5. QED
    BY <1>1, <2>3, <2>4 DEF LayoutInv
<1>5. CASE id \notin seen
  <2> DEFINE entry == <<id, column.size>>
             sizes == {col.size : col \in Columns}
  <2>1. seen' = seen \cup {id} /\ layout' = Append(layout, entry)
    BY <1>5 DEF LayoutColumn, Here
  <2>2. layout \in Seq(Ids \X sizes) /\ entry \in Ids \X sizes
    BY <1>2 DEF TypeInv, TypeOK
  <2>3. entry[1] = id /\ entry[2] = column.size
    OBVIOUS
  <2> HIDE DEF sizes, entry
  <2>4. /\ Len(layout) \in Nat /\ DOMAIN layout = 1 .. Len(layout)
        /\ DOMAIN layout' = 1 .. Len(layout) + 1
        /\ \A p \in DOMAIN layout : layout'[p] = layout[p]
        /\ layout'[Len(layout) + 1] = entry
    BY <2>1, <2>2
  <2>5. \A p \in DOMAIN layout' : p \in DOMAIN layout \/ p = Len(layout) + 1
    BY <2>4
  <2> DEFINE grown == Append(LayoutIds, id)
  <2>6. ~Has(LayoutIds, id)
    BY <1>2, <1>3, <1>5 DEF Collected
  <2>7. Lists(grown, m, c + 1)
    BY <1>2, <1>3, <2>6, LayoutIdsTyped, ListedGrows
  <2>8. LayoutIds' = grown
    <3>1. LayoutIds' = [p \in DOMAIN layout' |-> layout'[p][1]]
      BY DEF LayoutIds
    <3>2. \A p \in DOMAIN layout : LayoutIds[p] = layout[p][1]
      BY DEF LayoutIds
    <3>3. /\ LayoutIds \in Seq(Ids) /\ Len(LayoutIds) = Len(layout) /\ id \in Ids
          /\ DOMAIN LayoutIds = DOMAIN layout
      BY <1>2, LayoutIdsTyped
    <3>4. grown = [p \in 1 .. Len(layout) + 1 |->
                      IF p <= Len(layout) THEN LayoutIds[p] ELSE id]
      BY <3>3, <2>4
    <3>5. \A p \in DOMAIN layout' :
              layout'[p][1] = IF p <= Len(layout) THEN LayoutIds[p] ELSE id
      BY <2>3, <2>4, <2>5, <3>2
    <3> DEFINE places == 1 .. Len(layout) + 1
               laid(p) == layout'[p][1]
               listed(p) == IF p <= Len(layout) THEN LayoutIds[p] ELSE id
    <3>6. /\ LayoutIds' = [p \in places |-> laid(p)]
          /\ grown = [p \in places |-> listed(p)]
          /\ \A p \in places : laid(p) = listed(p)
      BY <2>4, <3>1, <3>4, <3>5
    <3> HIDE DEF grown, places, laid, listed
    <3>7. QED
      BY <3>6
  <2>9. \A j : Has(grown, j) <=> (Has(LayoutIds, j) \/ j = id)
    BY <1>2, LayoutIdsTyped, HasAppended
  <2> HIDE DEF grown
  <2>10. Lists(LayoutIds, m, c)'
    <3>1. modules' = modules /\ m' = m /\ c' = c + 1
      BY <1>1
    <3>2. QED
      BY <2>7, <2>8, <3>1 DEF Lists, Earlier, Before
  <2>11. Collected(LayoutIds)'
    <3>1. \A j \in Ids : j \in seen' <=> Has(grown, j)
      BY <1>3, <2>1, <2>9 DEF Collected
    <3>2. QED
      BY <2>8, <3>1 DEF Collected, Has
  <2>12. FirstColumn(id, column)
    BY <1>2, <1>3, <2>6, UnlistedIsFirst DEF FirstColumn
  <2>13. ASSUME NEW p \in DOMAIN layout'
         PROVE  \E col \in Columns : FirstColumn(layout'[p][1], col) /\ layout'[p][2] = col.size
    <3>1. CASE p \in DOMAIN layout
      BY <1>3, <2>4, <3>1 DEF SizesAreFirst
    <3>2. CASE p = Len(layout) + 1
      BY <1>2, <2>3, <2>4, <2>12, <3>2
    <3>3. QED
      BY <2>5, <3>1, <3>2
  <2>14. SizesAreFirst'
    BY <1>1, <2>13 DEF SizesAreFirst, FirstColumn, FirstAt, Before
  <2>15. QED
    BY <1>1, <2>10, <2>11, <2>14 DEF LayoutInv
<1>6. QED
  BY <1>4, <1>5

LEMMA LayoutStep == TypeInv /\ LayoutInv /\ [Next]_vars => LayoutInv'
<1> SUFFICES ASSUME TypeInv, LayoutInv, [Next]_vars PROVE LayoutInv'
  OBVIOUS
<1>1. CASE LayoutColumn
  BY <1>1, LayoutColumnStep
<1>2. CASE LayoutNextModule
  <2>1. /\ UNCHANGED <<modules, mode, phase, layout, seen>>
        /\ m' = m + 1 /\ c' = 1 /\ AtModuleEnd /\ phase = "layout" /\ ~Unlaid /\ ~Unlaid'
    BY <1>2 DEF LayoutNextModule, StepModule, Unlaid
  <2>2. Lists(LayoutIds, m + 1, 1) /\ Collected(LayoutIds)
    BY <2>1, ListedTurns DEF LayoutInv
  <2>3. Lists(LayoutIds, m, c)' /\ Collected(LayoutIds)'
    BY <2>1, <2>2 DEF Lists, Earlier, Before, Collected, Has, LayoutIds
  <2>4. SizesAreFirst'
    BY <2>1 DEF LayoutInv, SizesAreFirst, FirstColumn, FirstAt, Before
  <2>5. QED
    BY <2>1, <2>3, <2>4 DEF LayoutInv
<1>3. CASE \/ FingerprintColumn \/ FingerprintNextModule
           \/ SelectColumn \/ SelectNextModule \/ WriteModule
  <2>1. /\ UNCHANGED <<modules, mode, layout>>
        /\ \/ phase = "fingerprint" /\ phase' \in {"fingerprint", "conflict", "unexposed"}
           \/ phase = "select" /\ phase' = "select"
           \/ phase = "write" /\ phase' \in {"write", "unsupported"}
    BY <1>3 DEF FingerprintColumn, FingerprintNextModule, SelectColumn, SelectNextModule,
                WriteModule, StepColumn, StepModule
  <2>2. QED
    BY <2>1, LayoutKept DEF LayoutInv, Unlaid
<1>4. CASE EndLoop
  <2>1. /\ UNCHANGED <<modules, mode, layout>>
        /\ m' = 1 /\ c' = 1 /\ seen' = {} /\ m > Len(modules) /\ AtLoopEnd
        /\ phase \in {"fingerprint", "select", "write", "layout"}
        /\ phase = "fingerprint" => phase' = "select"
        /\ phase = "select" => phase' = "write"
        /\ phase = "write" => phase' = IF mode = "prove" THEN "layout" ELSE "done"
        /\ phase = "layout" => phase' = IF mode = "prove" THEN "done" ELSE "select"
        /\ mode \in {"prove", "root"}
    BY <1>4 DEF EndLoop, AtLoopEnd, PhaseAfter, TypeInv, TypeOK
  <2>2. CASE phase' = "layout"
    <3>1. layout = <<>> /\ LayoutIds = <<>>
      BY <2>1, <2>2 DEF LayoutInv, Unlaid, LayoutIds
    <3>2. Lists(<<>>, 1, 1)
      BY ListedStart
    <3>3. LayoutIds' = <<>> /\ modules' = modules /\ m' = 1 /\ c' = 1
      BY <2>1, <3>1 DEF LayoutIds
    <3>4. Lists(LayoutIds, m, c)'
      BY <3>2, <3>3 DEF Lists, Earlier, Before
    <3>5. Collected(LayoutIds)' /\ SizesAreFirst'
      BY <2>1, <3>1, <3>3 DEF Collected, Has, SizesAreFirst
    <3>6. QED
      BY <2>1, <2>2, <3>4, <3>5 DEF LayoutInv, Unlaid
  <2>3. CASE phase = "layout"
    <3>1. Whole(LayoutIds)
      BY <2>1, <2>3, ListedEnd DEF LayoutInv, Whole
    <3>2. QED
      BY <2>1, <2>3, <3>1, LayoutKept DEF Unlaid
  <2>4. CASE phase # "layout" /\ phase' # "layout"
    BY <2>1, <2>4, LayoutKept DEF LayoutInv, Unlaid
  <2>5. QED
    BY <2>2, <2>3, <2>4
<1>5. CASE UNCHANGED vars
  BY <1>5 DEF vars, LayoutInv, Unlaid, Lists, Earlier, Before, Collected, Has, Whole, LayoutIds,
              SizesAreFirst, FirstColumn, FirstAt
<1>6. QED
  BY <1>1, <1>2, <1>3, <1>4, <1>5 DEF Next

(* An id has one first column. *)
LEMMA OneFirstColumn ==
    ASSUME TypeInv, NEW id, NEW a, NEW b, FirstColumn(id, a), FirstColumn(id, b)
    PROVE  a = b
<1>1. PICK i \in DOMAIN modules : \E k \in DOMAIN modules[i].ids :
          FirstAt(i, k, id) /\ modules[i].columns[k] = a
  BY DEF FirstColumn
<1>2. PICK k \in DOMAIN modules[i].ids : FirstAt(i, k, id) /\ modules[i].columns[k] = a
  BY <1>1
<1>3. PICK j \in DOMAIN modules : \E l \in DOMAIN modules[j].ids :
          FirstAt(j, l, id) /\ modules[j].columns[l] = b
  BY DEF FirstColumn
<1>4. PICK l \in DOMAIN modules[j].ids : FirstAt(j, l, id) /\ modules[j].columns[l] = b
  BY <1>3
<1>5. ~Before(i, k, j, l) /\ ~Before(j, l, i, k)
  BY <1>2, <1>4 DEF FirstAt
<1>6. i \in Nat /\ j \in Nat /\ k \in Nat /\ l \in Nat
  BY PositionTypes
<1>7. i = j /\ k = l
  BY <1>5, <1>6 DEF Before
<1>8. QED
  BY <1>2, <1>4, <1>7

(* The layout, which is walked from ids and declared sizes alone, names    *)
(* and sizes the committed columns one by one: the verifier's layout of a  *)
(* proof, and the cache key of a root.                                     *)
THEOREM LayoutMatchesTree == Spec => []LayoutDescribesTree
<1>1. TypeInv /\ SelectInv /\ LayoutInv => LayoutDescribesTree
  <2> SUFFICES ASSUME TypeInv, SelectInv, LayoutInv, phase = "done"
               PROVE  layout = [p \in DOMAIN tree |-> <<unique[p], tree[p].size>>]
    BY DEF LayoutDescribesTree
  <2>1. Whole(unique) /\ Whole(LayoutIds) /\ SizesAreFirst
    BY DEF SelectInv, LayoutInv, Unselected, Unlaid
  <2>2. LayoutIds = unique
    BY <2>1, LayoutIdsTyped, Shape, OneList DEF Whole
  <2>3. PICK off \in Offsets : TreeFollows(off)
    BY DEF SelectInv, Unselected
  <2>4. DOMAIN tree = DOMAIN layout
    BY <2>2, <2>3, LayoutIdsTyped, Shape DEF TreeFollows
  <2>5. ASSUME NEW p \in DOMAIN layout PROVE layout[p] = <<unique[p], tree[p].size>>
    <3>1. layout[p][1] = unique[p]
      BY <2>2 DEF LayoutIds
    <3>2. PICK col \in Columns : FirstColumn(unique[p], col) /\ layout[p][2] = col.size
      BY <2>1, <3>1 DEF SizesAreFirst
    <3>3. FirstColumn(unique[p], tree[p])
      BY <2>3, <2>4 DEF TreeFollows
    <3>4. col = tree[p]
      BY <3>2, <3>3, OneFirstColumn
    <3> DEFINE sizes == {a.size : a \in Columns}
    <3>5. layout \in Seq(Ids \X sizes)
      BY DEF TypeInv, TypeOK
    <3> HIDE DEF sizes
    <3>6. layout[p] \in Ids \X sizes
      BY <3>5
    <3>7. layout[p] = <<layout[p][1], layout[p][2]>>
      BY <3>6
    <3>8. QED
      BY <3>1, <3>2, <3>4, <3>7
  <2>6. layout = [p \in DOMAIN layout |-> layout[p]]
    <3> DEFINE entries == Ids \X {col.size : col \in Columns}
    <3>1. layout \in Seq(entries)
      BY DEF TypeInv, TypeOK
    <3> HIDE DEF entries
    <3>2. QED
      BY <3>1
  <2>7. QED
    BY <2>4, <2>5, <2>6
<1>2. Spec => [](TypeInv /\ SelectInv /\ LayoutInv)
  BY TypeInit, TypeStep, SelectInit, SelectStep, LayoutInit, LayoutStep, PTL DEF Spec
<1>3. QED
  BY <1>1, <1>2, PTL
----------------------------------------------------------------------------
(* A module that repeats no id selects all of its ids, in order, as far as *)
(* the select loop has walked it.                                          *)
WholeSelections ==
    \A i \in DOMAIN modules : ~Repeats(i) =>
        /\ phase = "select" /\ i = m =>
               /\ c <= Len(modules[m].ids) + 1 /\ Len(selected[m]) = c - 1
               /\ \A k \in 1 .. c - 1 : selected[m][k] = modules[m].ids[k]
        /\ ~Unselected /\ (phase = "select" => i < m) => selected[i] = modules[i].ids

(* A write is refused only for a repeated id. *)
UnsupportedRepeats ==
    phase = "unsupported" => \E i \in DOMAIN modules : Repeats(i) /\ ~modules[i].partial

RepeatInv == WholeSelections /\ UnsupportedRepeats

LEMMA RepeatInit == Init => RepeatInv
BY DEF Init, FirstPhase, RepeatInv, WholeSelections, UnsupportedRepeats, Unselected

(* The select loop passes a column of a module that repeats no id: the id  *)
(* is new.                                                                 *)
LEMMA RepeatSelectStep ==
    ASSUME TypeInv, SelectInv, RepeatInv, SelectColumn
    PROVE  RepeatInv'
<1> DEFINE id == modules[m].ids[c]
<1>1. /\ UNCHANGED <<modules, mode, phase, m>> /\ c' = c + 1
      /\ phase = "select" /\ InColumn /\ ~Unselected /\ ~Unselected'
  BY DEF SelectColumn, StepColumn, Unselected
<1>2. /\ m \in DOMAIN modules /\ c \in DOMAIN modules[m].ids /\ id \in Ids
      /\ DOMAIN selected = DOMAIN modules /\ selected[m] \in Seq(Ids)
  BY <1>1, Shape, ColumnTypes DEF InColumn, Here
<1>3. \A i \in DOMAIN modules : i # m => selected'[i] = selected[i]
  BY <1>2 DEF SelectColumn, Here
<1>4. ASSUME NEW i \in DOMAIN modules, ~Repeats(i), i < m
      PROVE  selected'[i] = modules[i].ids
  <2>1. i # m
    BY <1>4, Shape
  <2>2. QED
    BY <1>1, <1>3, <1>4, <2>1 DEF RepeatInv, WholeSelections
<1>5. ASSUME ~Repeats(m)
      PROVE  /\ c + 1 <= Len(modules[m].ids) + 1 /\ Len(selected'[m]) = (c + 1) - 1
             /\ \A k \in 1 .. (c + 1) - 1 : selected'[m][k] = modules[m].ids[k]
  <2>1. /\ Len(selected[m]) = c - 1
        /\ \A k \in 1 .. c - 1 : selected[m][k] = modules[m].ids[k]
    BY <1>1, <1>2, <1>5 DEF RepeatInv, WholeSelections
  <2>2. id \notin seen
    <3> SUFFICES ASSUME id \in seen PROVE FALSE
      OBVIOUS
    <3>1. Has(unique, id) /\ Lists(unique, m, c)
      BY <1>1, <1>2 DEF SelectInv, Collected
    <3>2. PICK i \in DOMAIN modules : \E k \in DOMAIN modules[i].ids :
              modules[i].ids[k] = id /\ Before(i, k, m, c)
      BY <3>1 DEF Has, Lists
    <3>3. PICK k \in DOMAIN modules[i].ids : modules[i].ids[k] = id /\ Before(i, k, m, c)
      BY <3>2
    <3>4. i \in 1 .. m - 1 \/ (i = m /\ k \in 1 .. c - 1)
      BY <3>3, Shape, SMTT(30) DEF Before
    <3>5. Repeats(m)
      BY <1>2, <3>3, <3>4 DEF Repeats
    <3>6. QED
      BY <1>5, <3>5
  <2>3. selected'[m] = Append(selected[m], id)
    BY <1>2, <2>2 DEF SelectColumn, Here
  <2>4. /\ Len(selected'[m]) = Len(selected[m]) + 1
        /\ \A k \in 1 .. Len(selected[m]) : selected'[m][k] = selected[m][k]
        /\ selected'[m][Len(selected[m]) + 1] = id
    BY <1>2, <2>3
  <2>5. c \in Nat \ {0} /\ c <= Len(modules[m].ids) /\ Len(modules[m].ids) \in Nat
    BY <1>2, Shape
  <2>6. \A k \in 1 .. (c + 1) - 1 : k \in 1 .. c - 1 \/ k = c
    BY <2>5
  <2>7. Len(selected'[m]) = (c + 1) - 1 /\ selected'[m][c] = id
    BY <2>1, <2>4, <2>5
  <2>8. QED
    BY <2>1, <2>4, <2>5, <2>6, <2>7
<1>6. WholeSelections'
  BY <1>1, <1>4, <1>5 DEF WholeSelections, Repeats
<1>7. QED
  BY <1>1, <1>6 DEF RepeatInv, UnsupportedRepeats

(* The select loop leaves a module, or the modules. *)
LEMMA WholeAtModuleEnd ==
    ASSUME TypeInv, RepeatInv, phase = "select", AtModuleEnd, ~Repeats(m)
    PROVE  selected[m] = modules[m].ids
<1>1. m \in DOMAIN modules /\ c > Len(modules[m].ids)
  BY Shape DEF AtModuleEnd, Here
<1>2. /\ c <= Len(modules[m].ids) + 1 /\ Len(selected[m]) = c - 1
      /\ \A k \in 1 .. c - 1 : selected[m][k] = modules[m].ids[k]
  BY <1>1 DEF RepeatInv, WholeSelections
<1>3. /\ selected[m] \in Seq(Ids) /\ modules[m].ids \in Seq(Ids)
      /\ Len(modules[m].ids) \in Nat /\ c \in Nat
  BY <1>1, Shape
<1>4. c - 1 = Len(modules[m].ids)
  BY <1>1, <1>2, <1>3
<1>5. QED
  BY <1>2, <1>3, <1>4

LEMMA RepeatStep == TypeInv /\ SelectInv /\ RepeatInv /\ [Next]_vars => RepeatInv'
<1> SUFFICES ASSUME TypeInv, SelectInv, RepeatInv, [Next]_vars PROVE RepeatInv'
  OBVIOUS
<1>1. CASE SelectColumn
  BY <1>1, RepeatSelectStep
<1>2. CASE SelectNextModule
  <2>1. /\ UNCHANGED <<modules, mode, phase, selected>>
        /\ m' = m + 1 /\ c' = 1 /\ AtModuleEnd /\ phase = "select" /\ ~Unselected /\ ~Unselected'
    BY <1>2 DEF SelectNextModule, StepModule, Unselected
  <2>2. ASSUME NEW i \in DOMAIN modules, ~Repeats(i), i < m + 1
        PROVE  selected[i] = modules[i].ids
    <3>1. i < m \/ i = m
      BY <2>2, Shape
    <3>2. QED
      BY <2>1, <2>2, <3>1, WholeAtModuleEnd DEF RepeatInv, WholeSelections
  <2>3. ASSUME m + 1 \in DOMAIN modules
        PROVE  /\ 1 <= Len(modules[m + 1].ids) + 1 /\ Len(selected[m + 1]) = 1 - 1
               /\ \A k \in 1 .. 1 - 1 : selected[m + 1][k] = modules[m + 1].ids[k]
    <3>1. PICK off \in Offsets : SelectProgress(off)
      BY <2>1 DEF SelectInv
    <3>2. m + 1 \in m + 1 .. Len(modules) + 1 /\ m + 1 <= Len(modules)
      BY <2>3, Shape
    <3>3. selected[m + 1] = <<>>
      BY <2>1, <3>1, <3>2 DEF SelectProgress
    <3>4. Len(modules[m + 1].ids) \in Nat
      BY <2>3, Shape
    <3>5. QED
      BY <3>3, <3>4
  <2>4. WholeSelections'
    BY <2>1, <2>2, <2>3 DEF WholeSelections, Repeats
  <2>5. QED
    BY <2>1, <2>4 DEF RepeatInv, UnsupportedRepeats
<1>3. CASE WriteModule
  <2>1. /\ UNCHANGED <<modules, mode, selected>>
        /\ phase = "write" /\ ~Unselected /\ m <= Len(modules)
        /\ phase' \in {"write", "unsupported"}
        /\ phase' = "unsupported" => ~CanWrite(Here, selected[m])
    BY <1>3 DEF WriteModule, StepModule, Unselected
  <2>2. WholeSelections'
    BY <2>1 DEF RepeatInv, WholeSelections, Repeats
  <2>3. ASSUME phase' = "unsupported"
        PROVE  \E i \in DOMAIN modules : Repeats(i) /\ ~modules[i].partial
    <3>1. m \in DOMAIN modules /\ selected[m] # modules[m].ids /\ ~modules[m].partial
      BY <2>1, <2>3, Shape DEF CanWrite, Here
    <3>2. Repeats(m)
      BY <2>1, <3>1 DEF RepeatInv, WholeSelections
    <3>3. QED
      BY <3>1, <3>2
  <2>4. UnsupportedRepeats'
    BY <2>1, <2>3 DEF UnsupportedRepeats, Repeats
  <2>5. QED
    BY <2>2, <2>4 DEF RepeatInv
<1>4. CASE EndLoop
  <2>1. /\ UNCHANGED <<modules, mode, selected>>
        /\ m' = 1 /\ c' = 1 /\ m > Len(modules)
        /\ phase \in {"fingerprint", "select", "write", "layout"} /\ phase' # "unsupported"
        /\ (phase' = "select" <=> Unselected) /\ ~Unselected'
    BY <1>4 DEF EndLoop, AtLoopEnd, PhaseAfter, Unselected, TypeInv, TypeOK
  <2>2. CASE Unselected
    <3>1. \A i \in DOMAIN modules : selected[i] = <<>> /\ Len(modules[i].ids) \in Nat /\ ~(i < 1)
      BY <2>2, Shape DEF SelectInv, Untouched
    <3>2. WholeSelections'
      BY <2>1, <2>2, <3>1 DEF WholeSelections
    <3>3. QED
      BY <2>1, <3>2 DEF RepeatInv, UnsupportedRepeats
  <2>3. CASE ~Unselected
    <3>1. \A i \in DOMAIN modules : i < m
      BY <2>1, Shape
    <3>2. WholeSelections'
      BY <2>1, <2>3, <3>1 DEF RepeatInv, WholeSelections, Repeats
    <3>3. QED
      BY <2>1, <3>2 DEF RepeatInv, UnsupportedRepeats
  <2>4. QED
    BY <2>2, <2>3
<1>5. CASE FingerprintColumn \/ FingerprintNextModule \/ LayoutColumn \/ LayoutNextModule
  <2>1. /\ UNCHANGED <<modules, mode, selected>> /\ phase' # "select" /\ phase # "select"
        /\ phase' # "unsupported" /\ (Unselected' <=> Unselected)
    BY <1>5 DEF FingerprintColumn, FingerprintNextModule, LayoutColumn, LayoutNextModule,
                StepColumn, StepModule, Unselected
  <2>2. WholeSelections'
    BY <2>1 DEF RepeatInv, WholeSelections, Repeats
  <2>3. QED
    BY <2>1, <2>2 DEF RepeatInv, UnsupportedRepeats
<1>6. CASE UNCHANGED vars
  BY <1>6 DEF vars, RepeatInv, WholeSelections, UnsupportedRepeats, Repeats, Unselected
<1>7. QED
  BY <1>1, <1>2, <1>3, <1>4, <1>5, <1>6 DEF Next

(* Modules that agree on the ids they share, that expose the fingerprints  *)
(* of their columns, and of which only those that can write a part of      *)
(* their columns repeat an id, are never refused: neither by an assertion  *)
(* on fingerprints nor by a write, in prove and in                         *)
(* compute_preprocessed_root.                                              *)
THEOREM ComposableIsCommitted == Spec => []ComposableNeverPanics
<1>1. FingerprintInv /\ RepeatInv => ComposableNeverPanics
  BY DEF FingerprintInv, RepeatInv, UnsupportedRepeats, ComposableNeverPanics, Composable, Agreeing,
         Exposing
<1>2. Spec => [](TypeInv /\ FingerprintInv /\ SelectInv /\ RepeatInv)
  BY TypeInit, TypeStep, FingerprintInit, FingerprintStep, SelectInit, SelectStep,
     RepeatInit, RepeatStep, PTL DEF Spec
<1>3. QED
  BY <1>1, <1>2, PTL


----------------------------------------------------------------------------
(* The process-global caches: the state and steps of ProcessCaches.        *)

(* Every variable keeps its type in every reachable state. *)
THEOREM CachesTypeCorrect == CacheSpec => []CacheTypeOK
<1>1. CacheInit => CacheTypeOK
  <2> SUFFICES ASSUME CacheInit PROVE CacheTypeOK
    OBVIOUS
  <2> USE DEF CacheInit, CacheTypeOK, PcValues
  <2>1. poisoned \in BOOLEAN
    OBVIOUS
  <2>2. leaked \in [Sizes -> Nat]
    OBVIOUS
  <2>3. QED
    BY <2>1, <2>2
<1>2. CacheTypeOK /\ [CacheNext]_cacheVars => CacheTypeOK'
  <2> SUFFICES ASSUME CacheTypeOK, [CacheNext]_cacheVars PROVE CacheTypeOK'
    OBVIOUS
  <2> USE NoneAssumption DEF CacheTypeOK, PcValues
  <2>1. ASSUME NEW t \in Threads, NEW ask \in Calls, Begin(t, ask) PROVE CacheTypeOK'
    BY <2>1 DEF Begin
  <2>2. ASSUME NEW t \in Threads, LookupRoot(t) PROVE CacheTypeOK'
    <3>1. call[t] \in Calls
      BY <2>2 DEF LookupRoot
    <3>2. rootCache[ShapeKey(call[t].modules)] \in Roots \cup {None}
      BY <3>1 DEF ShapeKey, Shapes, Calls
    <3>3. QED
      BY <2>2, <3>2 DEF LookupRoot
  <2>3. ASSUME NEW t \in Threads, LockTwiddles(t) PROVE CacheTypeOK'
    BY <2>3 DEF LockTwiddles
  <2>4. ASSUME NEW t \in Threads, PrecomputeTwiddles(t) PROVE CacheTypeOK'
    <3>1. call[t].modules.logSize \in Sizes
      BY <2>4 DEF PrecomputeTwiddles, Sizes, Calls
    <3>2. QED
      BY <2>4, <3>1 DEF PrecomputeTwiddles
  <2>5. ASSUME NEW t \in Threads, PrecomputePanics(t) PROVE CacheTypeOK'
    BY <2>5 DEF PrecomputePanics
  <2>6. ASSUME NEW t \in Threads, Commit(t) PROVE CacheTypeOK'
    <3>1. call[t].modules \in ModuleSets
      BY <2>6 DEF Commit, Calls
    <3>2. CommitTree0(call[t].modules) \in Roots
      BY <3>1 DEF Roots
    <3>3. QED
      BY <2>6, <3>2 DEF Commit
  <2>7. ASSUME NEW t \in Threads, InsertRoot(t) PROVE CacheTypeOK'
    <3>1. ShapeKey(call[t].modules) \in Shapes
      BY <2>7 DEF InsertRoot, ShapeKey, Shapes, Calls
    <3>2. QED
      BY <2>7, <3>1 DEF InsertRoot
  <2>8. CASE UNCHANGED cacheVars
    BY <2>8 DEF cacheVars
  <2>9. QED
    BY <2>1, <2>2, <2>3, <2>4, <2>5, <2>6, <2>7, <2>8 DEF CacheNext, Work
<1>3. QED
  BY <1>1, <1>2, PTL DEF CacheSpec

----------------------------------------------------------------------------
(* The root cache.  A cached root is the root of every module set that has *)
(* its shape, and a thread that holds a computed root holds its own.       *)

CacheHoldsOwnRoots ==
    \A ms \in ModuleSets :
        rootCache[ms.shape] # None => rootCache[ms.shape] = CommitTree0(ms)

HandedRootIsOwn ==
    \A t \in Threads :
        pc[t] \in {"insert", "returned"} => root[t] = CommitTree0(call[t].modules)

RootInv == CacheHoldsOwnRoots /\ HandedRootIsOwn

(* Module sets of one shape share their tree-0 root when ids determine     *)
(* content: what makes the shape a sufficient key.                         *)
LEMMA ShapeDeterminesRoot ==
    ASSUME IdDeterminesContent, NEW a \in ModuleSets, NEW b \in ModuleSets,
           a.shape = b.shape
    PROVE  CommitTree0(a) = CommitTree0(b)
BY DEF IdDeterminesContent, CommitTree0

LEMMA RootInvStep ==
    ASSUME IdDeterminesContent, CacheTypeOK, RootInv, [CacheNext]_cacheVars
    PROVE  RootInv'
<1> USE DEF RootInv, CacheHoldsOwnRoots, HandedRootIsOwn, CacheTypeOK, PcValues
<1>1. ASSUME NEW t \in Threads, NEW ask \in Calls, Begin(t, ask) PROVE RootInv'
  BY <1>1 DEF Begin
<1>2. ASSUME NEW t \in Threads, LookupRoot(t) PROVE RootInv'
  <2>1. call[t].modules \in ModuleSets
    BY <1>2 DEF LookupRoot, Calls
  <2>2. CASE rootCache[ShapeKey(call[t].modules)] # None
    <3>1. root' = [root EXCEPT ![t] = CommitTree0(call[t].modules)]
      BY <1>2, <2>1, <2>2 DEF LookupRoot, ShapeKey
    <3>2. QED
      BY <1>2, <2>2, <3>1 DEF LookupRoot
  <2>3. CASE rootCache[ShapeKey(call[t].modules)] = None
    BY <1>2, <2>3 DEF LookupRoot
  <2>4. QED
    BY <2>2, <2>3
<1>3. ASSUME NEW t \in Threads, LockTwiddles(t) PROVE RootInv'
  BY <1>3 DEF LockTwiddles
<1>4. ASSUME NEW t \in Threads, PrecomputeTwiddles(t) PROVE RootInv'
  BY <1>4 DEF PrecomputeTwiddles
<1>5. ASSUME NEW t \in Threads, PrecomputePanics(t) PROVE RootInv'
  BY <1>5 DEF PrecomputePanics
<1>6. ASSUME NEW t \in Threads, Commit(t) PROVE RootInv'
  BY <1>6 DEF Commit
<1>7. ASSUME NEW t \in Threads, InsertRoot(t) PROVE RootInv'
  <2> DEFINE own == call[t].modules
  <2>1. own \in ModuleSets /\ root[t] = CommitTree0(own)
    BY <1>7 DEF InsertRoot, Calls
  <2>2. ASSUME NEW ms \in ModuleSets, rootCache'[ms.shape] # None
        PROVE  rootCache'[ms.shape] = CommitTree0(ms)
    <3>1. CASE ms.shape = own.shape
      <4>1. rootCache'[ms.shape] = root[t]
        BY <1>7, <2>1, <3>1 DEF InsertRoot, ShapeKey, Shapes
      <4>2. QED
        BY <2>1, <3>1, <4>1, ShapeDeterminesRoot
    <3>2. CASE ms.shape # own.shape
      BY <1>7, <2>2, <3>2 DEF InsertRoot, ShapeKey, Shapes
    <3>3. QED
      BY <3>1, <3>2
  <2>3. HandedRootIsOwn'
    BY <1>7 DEF InsertRoot
  <2>4. QED
    BY <2>2, <2>3 DEF CommitTree0
<1>8. CASE UNCHANGED cacheVars
  BY <1>8 DEF cacheVars
<1>9. QED
  BY <1>1, <1>2, <1>3, <1>4, <1>5, <1>6, <1>7, <1>8 DEF CacheNext, Work

LEMMA RootInvariant == IdDeterminesContent => (CacheSpec => []RootInv)
<1> SUFFICES ASSUME IdDeterminesContent PROVE CacheSpec => []RootInv
  OBVIOUS
<1>1. CacheInit => RootInv
  BY DEF CacheInit, RootInv, CacheHoldsOwnRoots, HandedRootIsOwn, Shapes
<1>2. CacheTypeOK /\ RootInv /\ [CacheNext]_cacheVars => RootInv'
  BY RootInvStep
<1>3. QED
  BY <1>1, <1>2, CachesTypeCorrect, PTL DEF CacheSpec

(* Whatever the interleaving of lookups and inserts, a call that returns   *)
(* hands out the root of its own modules, provided no two module sets of   *)
(* one shape differ in content.                                            *)
THEOREM RootSoundness == IdDeterminesContent => (CacheSpec => []ReturnedRootIsOwn)
<1>1. RootInv => ReturnedRootIsOwn
  BY DEF RootInv, HandedRootIsOwn, ReturnedRootIsOwn
<1>2. QED
  BY <1>1, RootInvariant, PTL

(* Under the same condition no insert changes an entry already there.      *)
THEOREM CacheStability == IdDeterminesContent => (CacheSpec => EntriesAreFinal)
<1> SUFFICES ASSUME IdDeterminesContent PROVE CacheSpec => EntriesAreFinal
  OBVIOUS
<1>1. ASSUME CacheTypeOK, RootInv, [CacheNext]_cacheVars, NEW k \in Shapes, rootCache[k] # None
      PROVE  rootCache'[k] = rootCache[k]
  <2> USE <1>1 DEF CacheTypeOK, PcValues
  <2>1. ASSUME NEW t \in Threads, InsertRoot(t) PROVE rootCache'[k] = rootCache[k]
    <3>1. call[t].modules \in ModuleSets
      BY <2>1 DEF InsertRoot, Calls
    <3>2. root[t] = CommitTree0(call[t].modules)
      BY <2>1 DEF InsertRoot, RootInv, HandedRootIsOwn
    <3>3. CASE k = call[t].modules.shape
      BY <2>1, <3>1, <3>2, <3>3 DEF InsertRoot, RootInv, CacheHoldsOwnRoots, ShapeKey
    <3>4. CASE k # call[t].modules.shape
      BY <2>1, <3>4 DEF InsertRoot, ShapeKey
    <3>5. QED
      BY <3>3, <3>4
  <2>2. ASSUME NEW t \in Threads, Work(t) PROVE rootCache'[k] = rootCache[k]
    BY <2>1, <2>2 DEF Work, LookupRoot, LockTwiddles, PrecomputeTwiddles,
                      PrecomputePanics, Commit
  <2>3. QED
    BY <2>2 DEF CacheNext, Begin, cacheVars
<1>2. CacheTypeOK /\ RootInv /\ [CacheNext]_cacheVars
        => [\A k \in Shapes : rootCache[k] # None => rootCache'[k] = rootCache[k]]_cacheVars
  BY <1>1
<1>3. QED
  BY <1>2, CachesTypeCorrect, RootInvariant, PTL DEF CacheSpec, EntriesAreFinal

----------------------------------------------------------------------------
(* The twiddle cache.  The mutex's holder is the one thread between its    *)
(* failed lookup and its insert, and the size it computes is not cached.   *)

HolderIsPrecomputing == \A t \in Threads : pc[t] = "twiddles" <=> twiddleLock = t

HolderSizeIsMissing ==
    \A t \in Threads : pc[t] = "twiddles" => call[t].modules.logSize \notin twiddleCache

LeakedIsCached ==
    \A s \in Sizes : leaked[s] = IF s \in twiddleCache THEN 1 ELSE 0

TwiddleInv == HolderIsPrecomputing /\ HolderSizeIsMissing /\ LeakedIsCached

(* No interleaving leaks a second tree of a size: at most one per size for *)
(* the life of the process.                                                *)
THEOREM TwiddlesComputedOnce == CacheSpec => []OneTreePerSize
<1> USE NoneAssumption
    DEF TwiddleInv, HolderIsPrecomputing, HolderSizeIsMissing, LeakedIsCached
<1>1. CacheInit => TwiddleInv
  BY DEF CacheInit
<1>2. CacheTypeOK /\ TwiddleInv /\ [CacheNext]_cacheVars => TwiddleInv'
  <2> SUFFICES ASSUME CacheTypeOK, TwiddleInv, [CacheNext]_cacheVars PROVE TwiddleInv'
    OBVIOUS
  <2> USE DEF CacheTypeOK, PcValues
  <2>1. ASSUME NEW t \in Threads, NEW ask \in Calls, Begin(t, ask) PROVE TwiddleInv'
    BY <2>1 DEF Begin
  <2>2. ASSUME NEW t \in Threads, LookupRoot(t) PROVE TwiddleInv'
    BY <2>2 DEF LookupRoot
  <2>3. ASSUME NEW t \in Threads, LockTwiddles(t) PROVE TwiddleInv'
    BY <2>3 DEF LockTwiddles
  <2>4. ASSUME NEW t \in Threads, PrecomputeTwiddles(t) PROVE TwiddleInv'
    <3> DEFINE size == call[t].modules.logSize
    <3>1. size \in Sizes /\ size \notin twiddleCache /\ twiddleLock = t
      BY <2>4 DEF PrecomputeTwiddles, Sizes, Calls
    <3>2. \A u \in Threads : u # t => pc[u] # "twiddles"
      BY <3>1
    <3>3. LeakedIsCached'
      BY <2>4, <3>1 DEF PrecomputeTwiddles
    <3>4. QED
      BY <2>4, <3>2, <3>3 DEF PrecomputeTwiddles
  <2>5. ASSUME NEW t \in Threads, PrecomputePanics(t) PROVE TwiddleInv'
    BY <2>5 DEF PrecomputePanics
  <2>6. ASSUME NEW t \in Threads, Commit(t) PROVE TwiddleInv'
    BY <2>6 DEF Commit
  <2>7. ASSUME NEW t \in Threads, InsertRoot(t) PROVE TwiddleInv'
    BY <2>7 DEF InsertRoot
  <2>8. CASE UNCHANGED cacheVars
    BY <2>8 DEF cacheVars
  <2>9. QED
    BY <2>1, <2>2, <2>3, <2>4, <2>5, <2>6, <2>7, <2>8 DEF CacheNext, Work
<1>3. TwiddleInv => OneTreePerSize
  BY DEF OneTreePerSize
<1>4. QED
  BY <1>1, <1>2, <1>3, CachesTypeCorrect, PTL DEF CacheSpec
----------------------------------------------------------------------------
(* The caches implement the cache-free service of RootService: whatever    *)
(* the threads interleave, each step of theirs is a question, an answer    *)
(* with the caller's own root, a panic, or invisible.                      *)

IdleHasNoCall == \A t \in Threads : pc[t] = "idle" <=> call[t] = None

LEMMA IdleInvariant == CacheSpec => []IdleHasNoCall
<1>1. CacheInit => IdleHasNoCall
  BY DEF CacheInit, IdleHasNoCall
<1>2. CacheTypeOK /\ IdleHasNoCall /\ [CacheNext]_cacheVars => IdleHasNoCall'
  BY NoneAssumption DEF CacheTypeOK, PcValues, IdleHasNoCall, CacheNext, cacheVars, Work, Begin, LookupRoot,
     LockTwiddles, PrecomputeTwiddles, PrecomputePanics, Commit, InsertRoot
<1>3. QED
  BY <1>1, <1>2, CachesTypeCorrect, PTL DEF CacheSpec

LEMMA ServiceInit == CacheInit => Service!Init
BY DEF CacheInit, Service!Init, Answers

LEMMA ServiceStep ==
    ASSUME CacheTypeOK, RootInv, RootInv', IdleHasNoCall, [CacheNext]_cacheVars
    PROVE  [Service!Next]_(Service!vars)
<1> USE NoneAssumption DEF CacheTypeOK, PcValues, Service!vars, Answers
<1>1. ASSUME NEW t \in Threads, NEW ask \in Calls, Begin(t, ask) PROVE Service!Ask(t, ask)
  BY <1>1 DEF Begin, Service!Ask, IdleHasNoCall
<1>2. ASSUME NEW t \in Threads, pc[t] # "idle", pc[t] \notin {"returned", "panicked"},
             pc' = [pc EXCEPT ![t] = "returned"], UNCHANGED call,
             \A u \in Threads : u # t => root'[u] = root[u]
      PROVE  Service!Reply(t)
  <2>1. call[t] # None /\ call[t] \in Calls
    BY <1>2, <1>2 DEF IdleHasNoCall
  <2>2. root'[t] = CommitTree0(call[t].modules)
    BY <1>2 DEF RootInv, HandedRootIsOwn
  <2>3. call[t].modules \in ModuleSets
    BY <2>1 DEF Calls
  <2>4. Answers' = [Answers EXCEPT ![t] = CommitTree0(call[t].modules)]
    BY <1>2, <2>2
  <2>5. QED
    BY <1>2, <2>1, <2>3, <2>4 DEF Service!Reply
<1>3. ASSUME NEW t \in Threads, pc[t] # "idle", pc[t] \notin {"returned", "panicked"},
             pc' = [pc EXCEPT ![t] = "panicked"], UNCHANGED <<call, root>>
      PROVE  Service!Reply(t)
  BY <1>3 DEF IdleHasNoCall, Service!Reply
<1>4. ASSUME NEW t \in Threads, pc[t] \notin {"idle", "returned", "panicked"},
             pc'[t] \notin {"idle", "returned", "panicked"},
             \A u \in Threads : u # t => pc'[u] = pc[u] /\ root'[u] = root[u],
             UNCHANGED call
      PROVE  UNCHANGED Service!vars
  BY <1>4
<1>5. ASSUME NEW t \in Threads, Work(t) PROVE [Service!Next]_(Service!vars)
  <2> USE DEF Service!Next
  <2>1. CASE LookupRoot(t)
    <3>1. CASE pc'[t] = "returned"
      BY <1>2, <2>1, <3>1 DEF LookupRoot
    <3>2. CASE pc'[t] # "returned"
      BY <1>4, <2>1, <3>2 DEF LookupRoot
    <3>3. QED
      BY <3>1, <3>2
  <2>2. CASE LockTwiddles(t)
    <3>1. CASE poisoned
      BY <1>3, <2>2, <3>1 DEF LockTwiddles
    <3>2. CASE ~poisoned
      BY <1>4, <2>2, <3>2 DEF LockTwiddles
    <3>3. QED
      BY <3>1, <3>2
  <2>3. CASE PrecomputeTwiddles(t)
    BY <1>4, <2>3 DEF PrecomputeTwiddles
  <2>4. CASE PrecomputePanics(t)
    BY <1>3, <2>4 DEF PrecomputePanics
  <2>5. CASE Commit(t)
    <3>1. CASE call[t].kind = "cached"
      BY <1>4, <2>5, <3>1 DEF Commit
    <3>2. CASE call[t].kind # "cached"
      BY <1>2, <2>5, <3>2 DEF Commit
    <3>3. QED
      BY <3>1, <3>2
  <2>6. CASE InsertRoot(t)
    BY <1>2, <2>6 DEF InsertRoot
  <2>7. QED
    BY <1>5, <2>1, <2>2, <2>3, <2>4, <2>5, <2>6 DEF Work
<1>6. CASE UNCHANGED cacheVars
  BY <1>6 DEF cacheVars
<1>7. QED
  BY <1>1, <1>5, <1>6 DEF CacheNext, Service!Next

(* If ids determine content across the process, the caches are invisible   *)
(* to their callers: every behaviour of the threads is one of the service  *)
(* that computes each root anew.                                           *)
THEOREM CachesRefineService == IdDeterminesContent => (CacheSpec => Service!Spec)
<1> SUFFICES ASSUME IdDeterminesContent PROVE CacheSpec => Service!Spec
  OBVIOUS
<1>1. CacheTypeOK /\ RootInv /\ RootInv' /\ IdleHasNoCall /\ [CacheNext]_cacheVars
        => [Service!Next]_(Service!vars)
  BY ServiceStep
<1>2. QED
  BY <1>1, ServiceInit, CachesTypeCorrect, RootInvariant, IdleInvariant, PTL
     DEF CacheSpec, Service!Spec
=============================================================================
