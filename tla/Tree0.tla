------------------------------- MODULE Tree0 -------------------------------
(***************************************************************************)
(* Assembly of the shared preprocessed tree (crates/air-core/src/lib.rs).  *)
(*                                                                         *)
(* Every module of a composition declares preprocessed columns by id; an   *)
(* id declared twice is committed once, by its first writer, and every     *)
(* other module's constraints read that column.  Four loops over the       *)
(* modules do it:                                                          *)
(*   fingerprint  assert_preprocessed_id_content_invariant (prove only)    *)
(*   select       select_first_preprocessed_ids                            *)
(*   write        write_selected_preprocessed of each module               *)
(*   layout       unique_preprocessed_layout of the verifier, and the same *)
(*                walk that builds compute_preprocessed_root's shape key   *)
(* "prove" is prove followed by the verifier's layout; "root" is           *)
(* compute_preprocessed_root, which builds its key first and asserts       *)
(* nothing about contents.                                                 *)
(***************************************************************************)
EXTENDS Naturals, Sequences

CONSTANTS
    Compositions,  \* sequences of modules [ids, columns, partial, exposes]
    Ids,           \* preprocessed column ids
    Columns,       \* column evaluations [size, data]
    Hash,          \* the 64-bit DefaultHasher, as a function of the data
    NotSeen        \* no fingerprint yet

(* A module names as many columns as it has (the assert_eq of              *)
(* fingerprint_preprocessed_columns); partial says whether it overrides    *)
(* write_selected_preprocessed, exposes whether it overrides               *)
(* preprocessed_column_fingerprints.                                       *)
Modules == {md \in [ids : Seq(Ids), columns : Seq(Columns),
                    partial : BOOLEAN, exposes : BOOLEAN] :
               Len(md.ids) = Len(md.columns)}

ASSUME CompositionsAssumption == Compositions \subseteq Seq(Modules)

VARIABLES
    modules,   \* the composition, in module order
    mode,      \* "prove" or "root"
    phase,     \* the loop that is running, or how the assembly ended
    m, c,      \* the loop's module and column
    first,     \* seen of the fingerprint loop: id -> first fingerprint
    seen,      \* seen of the select and layout loops
    unique,    \* unique preprocessed ids, in commit order
    selected,  \* ids each module is asked to write
    tree,      \* columns extended into tree 0
    layout     \* <<id, size>> of the verifier's layout and of the shape key

vars == <<modules, mode, phase, m, c, first, seen, unique, selected, tree, layout>>

(* Mutant: the fingerprint forgets the values. *)
SizeOnly(column) == [size |-> column.size, hash |-> 0]

Fingerprint(column) == [size |-> column.size, hash |-> Hash[column.data]]

ASSUME NotSeenAssumption == NotSeen \notin {Fingerprint(col) : col \in Columns}

FirstPhase(md) == IF md = "prove" THEN "fingerprint" ELSE "layout"

(* The order in which prove and verify, or compute_preprocessed_root, run  *)
(* the loops.                                                              *)
PhaseAfter(ph) ==
    CASE ph = "fingerprint" -> "select"
      [] ph = "select"      -> "write"
      [] ph = "write"       -> IF mode = "prove" THEN "layout" ELSE "done"
      [] ph = "layout"      -> IF mode = "prove" THEN "done" ELSE "select"

Init ==
    /\ modules \in Compositions
    /\ mode \in {"prove", "root"}
    /\ phase = FirstPhase(mode)
    /\ m = 1 /\ c = 1
    /\ first = [i \in Ids |-> NotSeen]
    /\ seen = {}
    /\ unique = <<>>
    /\ selected = [i \in DOMAIN modules |-> <<>>]
    /\ tree = <<>>
    /\ layout = <<>>

Here == modules[m]
InColumn == m <= Len(modules) /\ c <= Len(Here.ids)
AtModuleEnd == m <= Len(modules) /\ c > Len(Here.ids)
AtLoopEnd == m > Len(modules)

(* The next column of the module. *)
StepColumn == c' = c + 1 /\ UNCHANGED <<m, phase>>

(* The next module. *)
StepModule == m' = m + 1 /\ c' = 1 /\ UNCHANGED phase

EndLoop ==
    /\ phase \in {"fingerprint", "select", "write", "layout"}
    /\ AtLoopEnd
    /\ phase' = PhaseAfter(phase)
    /\ m' = 1 /\ c' = 1
    /\ seen' = {}
    /\ UNCHANGED <<modules, mode, first, unique, selected, tree, layout>>

(* One fingerprint: equal ids must have equal fingerprints, or panic. A    *)
(* module with columns that exposes no fingerprints panics at its first.   *)
FingerprintColumn ==
    /\ phase = "fingerprint"
    /\ InColumn
    /\ LET id == Here.ids[c]
           fingerprint == Fingerprint(Here.columns[c])
       IN  \/ /\ ~ Here.exposes
              /\ phase' = "unexposed"
              /\ UNCHANGED <<m, c, first>>
           \/ /\ Here.exposes /\ first[id] = NotSeen
              /\ first' = [first EXCEPT ![id] = fingerprint]
              /\ StepColumn
           \/ /\ Here.exposes /\ first[id] = fingerprint
              /\ StepColumn
              /\ UNCHANGED first
           \/ /\ Here.exposes /\ first[id] \notin {NotSeen, fingerprint}
              /\ phase' = "conflict"
              /\ UNCHANGED <<m, c, first>>
    /\ UNCHANGED <<modules, mode, seen, unique, selected, tree, layout>>

FingerprintNextModule ==
    /\ phase = "fingerprint"
    /\ AtModuleEnd
    /\ StepModule
    /\ UNCHANGED <<modules, mode, first, seen, unique, selected, tree, layout>>

(* Mutant: duplicates are recognised within a module only. *)
SelectColumnPerModule ==
    /\ phase = "select"
    /\ InColumn
    /\ LET id == Here.ids[c] IN
       IF \E k \in 1 .. c - 1 : Here.ids[k] = id
       THEN UNCHANGED <<seen, unique, selected>>
       ELSE /\ seen' = seen \cup {id}
            /\ unique' = Append(unique, id)
            /\ selected' = [selected EXCEPT ![m] = Append(@, id)]
    /\ StepColumn
    /\ UNCHANGED <<modules, mode, first, tree, layout>>

(* An id nobody declared before is this module's to write. *)
SelectColumn ==
    /\ phase = "select"
    /\ InColumn
    /\ LET id == Here.ids[c] IN
       IF id \in seen
       THEN UNCHANGED <<seen, unique, selected>>
       ELSE /\ seen' = seen \cup {id}
            /\ unique' = Append(unique, id)
            /\ selected' = [selected EXCEPT ![m] = Append(@, id)]
    /\ StepColumn
    /\ UNCHANGED <<modules, mode, first, tree, layout>>

SelectNextModule ==
    /\ phase = "select"
    /\ AtModuleEnd
    /\ StepModule
    /\ UNCHANGED <<modules, mode, first, seen, unique, selected, tree, layout>>

(* The module's first column of an id. *)
OwnColumn(md, id) ==
    LET k == CHOOSE k \in DOMAIN md.ids :
                 md.ids[k] = id /\ \A j \in 1 .. k - 1 : md.ids[j] # id
    IN  md.columns[k]

Written(md, sel) ==
    IF sel = md.ids THEN md.columns ELSE [k \in DOMAIN sel |-> OwnColumn(md, sel[k])]

(* Mutant: no module overrides write_selected_preprocessed. *)
CanWriteAllOnly(md, sel) == sel = md.ids

(* A module that does not support partial writes is asked for all of its   *)
(* ids or panics.                                                          *)
CanWrite(md, sel) == sel = md.ids \/ md.partial

WriteModule ==
    /\ phase = "write"
    /\ m <= Len(modules)
    /\ IF CanWrite(Here, selected[m])
       THEN tree' = tree \o Written(Here, selected[m]) /\ StepModule
       ELSE phase' = "unsupported" /\ UNCHANGED <<m, c, tree>>
    /\ UNCHANGED <<modules, mode, first, seen, unique, selected, layout>>

LayoutColumn ==
    /\ phase = "layout"
    /\ InColumn
    /\ LET id == Here.ids[c] IN
       IF id \in seen
       THEN UNCHANGED <<seen, layout>>
       ELSE /\ seen' = seen \cup {id}
            /\ layout' = Append(layout, <<id, Here.columns[c].size>>)
    /\ StepColumn
    /\ UNCHANGED <<modules, mode, first, unique, selected, tree>>

LayoutNextModule ==
    /\ phase = "layout"
    /\ AtModuleEnd
    /\ StepModule
    /\ UNCHANGED <<modules, mode, first, seen, unique, selected, tree, layout>>

Next ==
    \/ FingerprintColumn \/ FingerprintNextModule
    \/ SelectColumn \/ SelectNextModule
    \/ WriteModule
    \/ LayoutColumn \/ LayoutNextModule
    \/ EndLoop

Spec == Init /\ [][Next]_vars

----------------------------------------------------------------------------
Phases == {"fingerprint", "select", "write", "layout", "done",
           "conflict", "unexposed", "unsupported"}

TypeOK ==
    /\ modules \in Seq(Modules)
    /\ mode \in {"prove", "root"}
    /\ phase \in Phases
    /\ m \in 1 .. Len(modules) + 1
    /\ c \in Nat \ {0}
    /\ first \in [Ids -> {Fingerprint(col) : col \in Columns} \cup {NotSeen}]
    /\ seen \subseteq Ids
    /\ unique \in Seq(Ids)
    /\ selected \in [DOMAIN modules -> Seq(Ids)]
    /\ tree \in Seq(Columns)
    /\ layout \in Seq(Ids \X {col.size : col \in Columns})

(* Every column a module declares, with the id it declares it under. *)
Declared(id, col) ==
    \E i \in DOMAIN modules : \E k \in DOMAIN modules[i].ids :
        modules[i].ids[k] = id /\ modules[i].columns[k] = col

(* Once prove has committed tree 0, an id resolves (in the allocator that  *)
(* build_components is given) to one column, and that column is the one    *)
(* every module declaring the id meant: no module's constraints read       *)
(* another module's table.                                                 *)
IdsResolveToOwnColumn ==
    (phase = "done" /\ mode = "prove") =>
        \A i \in DOMAIN modules : \A k \in DOMAIN modules[i].ids :
            \E p \in DOMAIN unique :
                /\ unique[p] = modules[i].ids[k]
                /\ tree[p] = modules[i].columns[k]
                /\ \A q \in DOMAIN unique \ {p} : unique[q] # unique[p]

(* The verifier, which walks ids and declared sizes only, and the cache    *)
(* key, which mirrors it, describe the committed tree column by column.    *)
LayoutDescribesTree ==
    phase = "done" =>
        layout = [p \in DOMAIN tree |-> <<unique[p], tree[p].size>>]

(* Modules that agree on every id they share, that expose the fingerprints *)
(* of their columns, and of which only those with partial-write support    *)
(* repeat an id, always reach a committed tree.                            *)
Repeats(i) ==
    \E k \in DOMAIN modules[i].ids :
        \/ \E j \in 1 .. i - 1 : \E l \in DOMAIN modules[j].ids :
               modules[j].ids[l] = modules[i].ids[k]
        \/ \E l \in 1 .. k - 1 : modules[i].ids[l] = modules[i].ids[k]

Composable ==
    /\ \A id \in Ids : \A a, b \in Columns : Declared(id, a) /\ Declared(id, b) => a = b
    /\ \A i \in DOMAIN modules : Len(modules[i].ids) > 0 => modules[i].exposes
    /\ \A i \in DOMAIN modules : Repeats(i) => modules[i].partial

ComposableNeverPanics == Composable => phase \notin {"conflict", "unexposed", "unsupported"}
=============================================================================
