---------------------------- MODULE RootService ----------------------------
(***************************************************************************)
(* What the cached and the uncached root functions of air-core promise to  *)
(* their callers, with no cache in sight: a call made for a module set is  *)
(* answered once, with the root that is a function of that module set      *)
(* alone, or ends in a panic.  Callers neither see nor wait for each other.*)
(***************************************************************************)
CONSTANTS
    Threads,   \* the callers
    Calls,     \* what a caller may ask: records with a field modules
    RootOf,    \* the root of every module set
    None,      \* not asked, not answered
    Panicked   \* the call unwound instead of returning

VARIABLES call, answer

vars == <<call, answer>>

Init ==
    /\ call = [t \in Threads |-> None]
    /\ answer = [t \in Threads |-> None]

Ask(t, c) ==
    /\ call[t] = None
    /\ call' = [call EXCEPT ![t] = c]
    /\ UNCHANGED answer

Reply(t) ==
    /\ call[t] # None
    /\ answer[t] = None
    /\ \/ answer' = [answer EXCEPT ![t] = RootOf[call[t].modules]]
       \/ answer' = [answer EXCEPT ![t] = Panicked]
    /\ UNCHANGED call

Next == \E t \in Threads : Reply(t) \/ \E c \in Calls : Ask(t, c)

Spec == Init /\ [][Next]_vars

FairSpec == Spec /\ \A t \in Threads : WF_vars(Reply(t))
=============================================================================
