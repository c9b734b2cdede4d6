--------------------------- MODULE ProcessCaches ---------------------------
(***************************************************************************)
(* The two process-global caches of crates/air-core/src/lib.rs and the     *)
(* threads that share them.                                                *)
(*                                                                         *)
(*   PREPROCESSED_ROOT_CACHE : Mutex<HashMap<shape key, tree-0 root>>.  It *)
(*     is locked to look a key up, unlocked while a missing root is        *)
(*     computed, and locked again to insert it.                            *)
(*   TWIDDLE_CACHE : Mutex<HashMap<log size, leaked twiddle tree>>.  It is *)
(*     locked across the precomputation, so a panic there poisons it.      *)
(*                                                                         *)
(* A call is one of                                                        *)
(*   "cached"    compute_preprocessed_root                                 *)
(*   "uncached"  compute_preprocessed_root_uncached                        *)
(*   "prove"     the tree-0 part of prove                                  *)
(* each on a module set.  A module set is abstracted to what the caches    *)
(* tell apart: its shape key (the ordered unique (id, log_size) list and   *)
(* the FRI blow-up), the content of its columns, and the twiddle size.     *)
(***************************************************************************)
EXTENDS Naturals, FiniteSets

CONSTANTS
    Threads,      \* one per call in flight; a thread that calls again is another one
    ModuleSets,   \* records [shape, content, logSize]
    Kinds,        \* which kinds of call this process makes
    Panics,       \* twiddle sizes whose precomputation panics
    None          \* no thread, no call, no root

ASSUME KindsAssumption == Kinds \subseteq {"cached", "uncached", "prove"}

VARIABLES
    rootCache,    \* PREPROCESSED_ROOT_CACHE
    twiddleCache, \* twiddle sizes that have a cached tree
    twiddleLock,  \* the thread that holds TWIDDLE_CACHE's mutex, or None
    poisoned,     \* TWIDDLE_CACHE was left by a panicking thread
    leaked,       \* how many trees of a size were Box::leaked
    pc,           \* where each thread is in its call
    call,         \* the call each thread is making
    root          \* the root each thread has in hand

cacheVars == <<rootCache, twiddleCache, twiddleLock, poisoned, leaked, pc, call, root>>

Shapes == {ms.shape : ms \in ModuleSets}
Sizes  == {ms.logSize : ms \in ModuleSets}
Calls  == [kind : Kinds, modules : ModuleSets]

(* The Blake2s Merkle root of the deduplicated columns: it binds their     *)
(* order, sizes and contents, so distinct trees have distinct roots.       *)
CommitTree0(ms) == <<ms.shape, ms.content>>
Roots == {CommitTree0(ms) : ms \in ModuleSets}

ASSUME NoneAssumption == None \notin Threads \cup Calls \cup Roots

PcValues == {"idle", "lookup", "lock", "twiddles", "commit", "insert",
             "returned", "panicked"}

CacheInit ==
    /\ rootCache = [k \in Shapes |-> None]
    /\ twiddleCache = {}
    /\ twiddleLock = None
    /\ poisoned = FALSE
    /\ leaked = [s \in Sizes |-> 0]
    /\ pc = [t \in Threads |-> "idle"]
    /\ call = [t \in Threads |-> None]
    /\ root = [t \in Threads |-> None]

(* Enter a call.  Calls share nothing but the caches, so two calls made    *)
(* one after the other by one thread behave as two threads, the second     *)
(* starting after the first returned.                                      *)
Begin(t, c) ==
    /\ pc[t] = "idle"
    /\ call' = [call EXCEPT ![t] = c]
    /\ pc' = [pc EXCEPT ![t] = IF c.kind = "cached" THEN "lookup" ELSE "lock"]
    /\ UNCHANGED <<rootCache, twiddleCache, twiddleLock, poisoned, leaked, root>>

(* Mutant: the key keeps the sizes and drops the ids. *)
SizesKey(ms) == (CHOOSE other \in ModuleSets : other.logSize = ms.logSize).shape

(* The key of PREPROCESSED_ROOT_CACHE: ids, sizes and blow-up, no content. *)
ShapeKey(ms) == ms.shape

(* Lock, look the key up, unlock: a hit returns at once. *)
LookupRoot(t) ==
    /\ pc[t] = "lookup"
    /\ LET hit == rootCache[ShapeKey(call[t].modules)]
       IN  IF hit # None
           THEN /\ root' = [root EXCEPT ![t] = hit]
                /\ pc' = [pc EXCEPT ![t] = "returned"]
           ELSE /\ pc' = [pc EXCEPT ![t] = "lock"]
                /\ UNCHANGED root
    /\ UNCHANGED <<rootCache, twiddleCache, twiddleLock, poisoned, leaked, call>>

(* Mutant: the mutex is dropped before the precomputation. *)
LockTwiddlesBriefly(t) ==
    /\ pc[t] = "lock"
    /\ twiddleLock = None
    /\ pc' = [pc EXCEPT ![t] = IF call[t].modules.logSize \in twiddleCache
                               THEN "commit" ELSE "twiddles"]
    /\ UNCHANGED <<rootCache, twiddleCache, twiddleLock, poisoned, leaked, call, root>>

(* cached_twiddles: take the mutex; a poisoned one panics the caller, a    *)
(* cached size is returned under the lock, a missing one is computed with  *)
(* the lock held.                                                          *)
LockTwiddles(t) ==
    /\ pc[t] = "lock"
    /\ twiddleLock = None
    /\ IF poisoned
       THEN /\ pc' = [pc EXCEPT ![t] = "panicked"]
            /\ UNCHANGED twiddleLock
       ELSE IF call[t].modules.logSize \in twiddleCache
            THEN /\ pc' = [pc EXCEPT ![t] = "commit"]
                 /\ UNCHANGED twiddleLock
            ELSE /\ pc' = [pc EXCEPT ![t] = "twiddles"]
                 /\ twiddleLock' = t
    /\ UNCHANGED <<rootCache, twiddleCache, poisoned, leaked, call, root>>

(* Precompute, leak and insert the tree, then drop the guard. *)
PrecomputeTwiddles(t) ==
    LET size == call[t].modules.logSize IN
    /\ pc[t] = "twiddles"
    /\ size \notin Panics
    /\ leaked' = [leaked EXCEPT ![size] = @ + 1]
    /\ twiddleCache' = twiddleCache \cup {size}
    /\ twiddleLock' = None
    /\ pc' = [pc EXCEPT ![t] = "commit"]
    /\ UNCHANGED <<rootCache, poisoned, call, root>>

(* Mutant: the panicking thread keeps the mutex. *)
PanicsHolding(t) ==
    /\ pc[t] = "twiddles"
    /\ call[t].modules.logSize \in Panics
    /\ pc' = [pc EXCEPT ![t] = "panicked"]
    /\ UNCHANGED <<rootCache, twiddleCache, twiddleLock, poisoned, leaked, call, root>>

(* The precomputation panics: unwinding drops the guard and poisons it. *)
PrecomputePanics(t) ==
    /\ pc[t] = "twiddles"
    /\ call[t].modules.logSize \in Panics
    /\ twiddleLock' = None
    /\ poisoned' = TRUE
    /\ pc' = [pc EXCEPT ![t] = "panicked"]
    /\ UNCHANGED <<rootCache, twiddleCache, leaked, call, root>>

(* Write and commit tree 0, no lock held. *)
Commit(t) ==
    /\ pc[t] = "commit"
    /\ root' = [root EXCEPT ![t] = CommitTree0(call[t].modules)]
    /\ pc' = [pc EXCEPT ![t] = IF call[t].kind = "cached" THEN "insert" ELSE "returned"]
    /\ UNCHANGED <<rootCache, twiddleCache, twiddleLock, poisoned, leaked, call>>

(* Lock, insert (overwriting what another thread put there), unlock. *)
InsertRoot(t) ==
    /\ pc[t] = "insert"
    /\ rootCache' = [rootCache EXCEPT ![ShapeKey(call[t].modules)] = root[t]]
    /\ pc' = [pc EXCEPT ![t] = "returned"]
    /\ UNCHANGED <<twiddleCache, twiddleLock, poisoned, leaked, call, root>>

Work(t) ==
    \/ LookupRoot(t)
    \/ LockTwiddles(t)
    \/ PrecomputeTwiddles(t)
    \/ PrecomputePanics(t)
    \/ Commit(t)
    \/ InsertRoot(t)

CacheNext == \E t \in Threads : Work(t) \/ \E c \in Calls : Begin(t, c)

CacheSpec == CacheInit /\ [][CacheNext]_cacheVars

(* A thread that can run does run.  std's Mutex promises no more: with a   *)
(* finite number of calls, none of them can be overtaken for ever.         *)
CacheFairSpec == CacheSpec /\ \A t \in Threads : WF_cacheVars(Work(t))

----------------------------------------------------------------------------
CacheTypeOK ==
    /\ rootCache \in [Shapes -> Roots \cup {None}]
    /\ twiddleCache \subseteq Sizes
    /\ twiddleLock \in Threads \cup {None}
    /\ poisoned \in BOOLEAN
    /\ leaked \in [Sizes -> Nat]
    /\ pc \in [Threads -> PcValues]
    /\ call \in [Threads -> Calls \cup {None}]
    /\ root \in [Threads -> Roots \cup {None}]
    /\ \A t \in Threads : pc[t] # "idle" => call[t] \in Calls

(* The invariant prove asserts inside one composition, over every call of  *)
(* the process: equal ids have equal content.                              *)
IdDeterminesContent ==
    \A a, b \in ModuleSets : a.shape = b.shape => a.content = b.content

(* Every call that returns hands out the root of its own modules, however  *)
(* the lookups and inserts of other threads fell in between.               *)
ReturnedRootIsOwn ==
    \A t \in Threads : pc[t] = "returned" => root[t] = CommitTree0(call[t].modules)

(* An entry of the root cache, once written, keeps its value: the second   *)
(* of two racing inserts at one key writes what the first one wrote.       *)
EntriesAreFinal ==
    [][\A k \in Shapes : rootCache[k] # None => rootCache'[k] = rootCache[k]]_cacheVars

(* Leaked memory is bounded by one twiddle tree per size, because the      *)
(* mutex is held from the failed lookup to the insert.                     *)
OneTreePerSize == \A s \in Sizes : leaked[s] <= 1

(* The caches are invisible: what callers see is a service that answers    *)
(* each call, once, with a root that depends on its own modules only, and  *)
(* that leaves no call unanswered.                                         *)
Unwound == <<>>

Answers ==
    [t \in Threads |-> IF pc[t] = "returned" THEN root[t]
                       ELSE IF pc[t] = "panicked" THEN Unwound ELSE None]

Service == INSTANCE RootService WITH
    RootOf <- [ms \in ModuleSets |-> CommitTree0(ms)],
    Panicked <- Unwound,
    answer <- Answers

CachesAreInvisible == Service!FairSpec

(* Every call ends: it returns, or it panics on a poisoned mutex.  No      *)
(* thread waits for ever on a mutex whose holder is gone.                  *)
CallsEnd ==
    \A t \in Threads : pc[t] \in {"lookup", "lock"} ~> pc[t] \in {"returned", "panicked"}
=============================================================================
