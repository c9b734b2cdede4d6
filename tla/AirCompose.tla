----------------------------- MODULE AirCompose -----------------------------
(***************************************************************************)
(* The shared-transcript protocol of crates/air-core/src/lib.rs: prove and *)
(* verify_with_expected_preprocessed_root drive the same modules, in the   *)
(* same order, through the same phases, each side on a channel and on      *)
(* shared relation handles (relations.rs) of its own.                      *)
(*                                                                         *)
(* A module is abstracted to what the phases do with it:                   *)
(*   name        identifies it in the transcript                           *)
(*   public      the parts of the statement its mix_public absorbs         *)
(*   fixed       the parts its preprocessed columns depend on              *)
(*   draws       whether draw_relations draws from the channel             *)
(*   sets        the handles draw_relations sets                           *)
(*   early       the handles draw_relations reads                          *)
(*   late        the handles write_interaction and build_components read   *)
(*   post        its post-interaction work: "none", "batch" and "bundle"   *)
(*               (coprocessor), "mac"                                      *)
(*   projection  the parts of the statement a coprocessor absorbs          *)
(* A channel is the sequence of what it absorbed and of its draws.  A      *)
(* challenge is a hash of everything before it, so it is represented by    *)
(* its position: two challenges agree when the channels agree up to them.  *)
(***************************************************************************)
EXTENDS Naturals, Sequences

CONSTANTS
    Sessions,  \* [modules, statement : per role; gates, pinned : BOOLEAN]
    Handles,   \* every shared relation handle
    Names,     \* module names
    Aspects,   \* parts of a statement
    Parts      \* parts of a proof that can differ on arrival

ASSUME PartsAssumption ==
    Parts \subseteq {"tree0", "tree1", "claims", "swapped", "tree2", "bundle", "tree3"}

Roles == {"prover", "verifier"}

Module ==
    [name : Names, public : SUBSET Aspects, fixed : SUBSET Aspects, draws : BOOLEAN,
     sets : SUBSET Handles, early : SUBSET Handles, late : SUBSET Handles,
     post : {"none", "batch", "bundle", "mac"}, projection : SUBSET Aspects]

ASSUME SessionsAssumption ==
    \A s \in Sessions : \A r \in Roles : s.modules[r] \in Seq(Module)

Coprocessors == {"batch", "bundle"}

(* What a module hands out it drew, and only a coprocessor absorbs a       *)
(* projection.                                                             *)
ASSUME ModulesAssumption ==
    \A s \in Sessions : \A r \in Roles : \A i \in DOMAIN s.modules[r] :
        /\ s.modules[r][i].sets # {} => s.modules[r][i].draws
        /\ s.modules[r][i].projection # {} => s.modules[r][i].post \in Coprocessors

OneCoprocessor(modules) ==
    \A i, j \in DOMAIN modules :
        modules[i].post \in Coprocessors /\ modules[j].post \in Coprocessors => i = j

(* The carried bundle is the whole proof's: a pipeline has one coprocessor. *)
ASSUME CoprocessorAssumption ==
    \A s \in Sessions : \A r \in Roles : OneCoprocessor(s.modules[r])

(* What holds of a module list that a pipeline builds: a handle is set by  *)
(* some module, by an earlier one when it is read while the relations are  *)
(* drawn; a MAC follows its bundle, and there is one coprocessor.          *)
WiredInOrder(modules) ==
    /\ \A i \in DOMAIN modules :
           /\ \A h \in modules[i].early : \E j \in 1 .. i - 1 : h \in modules[j].sets
           /\ \A h \in modules[i].late : \E j \in DOMAIN modules : h \in modules[j].sets
           /\ modules[i].post = "mac" => \E j \in 1 .. i - 1 : modules[j].post = "bundle"
    /\ OneCoprocessor(modules)

WiredSessions == \A s \in Sessions : \A r \in Roles : WiredInOrder(s.modules[r])

VARIABLES
    session,   \* who proves what to whom
    damage,    \* the part of the delivered proof that is not the prover's, or "none"
    phase,     \* each side's phase, or how it ended
    at,        \* each side's position in the phase's loop over the modules
    chan,      \* each side's Fiat-Shamir channel
    handle,    \* the position at which each shared relation was drawn, or Unset
    seed,      \* the position at which the coprocessor's seed was drawn, or Unset
    macState,  \* the seed whose a_v and tags are published to the MAC module, or Unset
    av         \* the seed whose a_v the MAC module took, or Unset

vars == <<session, damage, phase, at, chan, handle, seed, macState, av>>

(* The configuration is mixed before anything is drawn: 0 is no position. *)
Unset == 0

Modules(r) == session.modules[r]
Here(r) == Modules(r)[at[r]]
InLoop(r) == at[r] <= Len(Modules(r))

Item(kind, from, what) == [kind |-> kind, from |-> from, what |-> what]
Draw == Item("draw", <<>>, <<>>)

(* What the transcript says of a part of the proof: the verifier absorbs   *)
(* what was delivered.                                                     *)
Version(r, part) == IF r = "verifier" /\ damage = part THEN 1 ELSE 0

(* Mutant: only the total of the claimed sums is absorbed. *)
TotalVersion(r) == Version(r, "claims")

ClaimsVersion(r) == Version(r, "claims") + 2 * Version(r, "swapped")

StatementPart(r, names) == [a \in names |-> session.statement[r][a]]

(* The tree-0 root of a side's own module construction. *)
Root(r) ==
    [i \in DOMAIN Modules(r) |->
        <<Modules(r)[i].name, StatementPart(r, Modules(r)[i].fixed)>>]

(* The tree-0 root in the proof that role r looks at. *)
ProofRoot(r) == <<Root("prover"), Version(r, "tree0")>>

Ended == {"waiting", "done", "accepted", "refused", "mismatch", "unbalanced",
          "rejected", "panicked"}

(* The phases in the order of prove and of verify, which has no            *)
(* interaction columns to write and checks the balance in their place.     *)
PhaseOrder ==
    [pin |-> "tree0", tree0 |-> "public", public |-> "tree1", tree1 |-> "draw",
     draw |-> "balance", interaction |-> "claims", balance |-> "claims", claims |-> "tree2",
     tree2 |-> "post", post |-> "tree3", tree3 |-> "components", components |-> "stark"]

(* Mutant: the relations are drawn before tree 1 is committed. *)
DrawsBeforeTrace(r) ==
    CASE phase[r] = "public" -> "draw"
      [] phase[r] = "draw"   -> "tree1"
      [] phase[r] = "tree1"  -> IF r = "prover" THEN "interaction" ELSE "balance"
      [] OTHER               -> PhaseOrder[phase[r]]

(* Mutant: the verifier absorbs the claimed sums after tree 2. *)
VerifierClaimsLate(r) ==
    CASE r = "prover" /\ phase[r] = "draw"      -> "interaction"
      [] r = "verifier" /\ phase[r] = "balance" -> "tree2"
      [] r = "verifier" /\ phase[r] = "tree2"   -> "claims"
      [] r = "verifier" /\ phase[r] = "claims"  -> "post"
      [] OTHER                                  -> PhaseOrder[phase[r]]

PhaseAfter(r) ==
    IF r = "prover" /\ phase[r] = "draw" THEN "interaction" ELSE PhaseOrder[phase[r]]

Init ==
    /\ session \in Sessions
    /\ damage = "none"
    /\ phase = [r \in Roles |-> IF r = "prover" THEN "tree0" ELSE "waiting"]
    /\ at = [r \in Roles |-> 1]
    /\ chan = [r \in Roles |-> <<>>]
    /\ handle = [r \in Roles |-> [h \in Handles |-> Unset]]
    /\ seed = [r \in Roles |-> Unset]
    /\ macState = [r \in Roles |-> Unset]
    /\ av = [r \in Roles |-> Unset]

GoTo(r, ph) == phase' = [phase EXCEPT ![r] = ph] /\ at' = [at EXCEPT ![r] = 1]
NextPhase(r) == GoTo(r, PhaseAfter(r))

NextModule(r) == at' = [at EXCEPT ![r] = @ + 1] /\ UNCHANGED phase
Absorb(r, items) == chan' = [chan EXCEPT ![r] = @ \o items]

EndLoop(r) ==
    /\ phase[r] \in {"public", "draw", "interaction", "claims", "post", "components"}
    /\ ~InLoop(r)
    /\ NextPhase(r)
    /\ UNCHANGED <<session, damage, chan, handle, seed, macState, av>>

(* A fourth tree is committed when some module has post-interaction        *)
(* columns; the MAC module writes them from its a_v.                       *)
HasPostColumns(r) == \E i \in DOMAIN Modules(r) : Modules(r)[i].post = "mac"
HasBundle(r) == \E i \in DOMAIN Modules(r) : Modules(r)[i].post \in Coprocessors

(* The parts of the prover's proof that can differ on arrival. *)
ProofParts ==
    {p \in Parts : /\ p \in {"claims", "swapped"} => Modules("prover") # <<>>
                   /\ p = "tree3" => HasPostColumns("prover")
                   /\ p = "bundle" => HasBundle("prover")}

(* The proof reaches the verifier, perhaps with a part changed.  The       *)
(* pipeline's own checks on proof and statement come first.                *)
Deliver ==
    /\ phase["prover"] = "done"
    /\ phase["verifier"] = "waiting"
    /\ damage' \in ProofParts \cup {"none"}
    /\ GoTo("verifier", IF session.gates THEN "pin" ELSE "refused")
    /\ UNCHANGED <<session, chan, handle, seed, macState, av>>

(* With an expected root, the proof's is compared before it is absorbed. *)
PinRoot(r) ==
    /\ phase[r] = "pin"
    /\ IF session.pinned /\ ProofRoot(r) # <<Root(r), 0>>
       THEN GoTo(r, "mismatch")
       ELSE NextPhase(r)
    /\ UNCHANGED <<session, damage, chan, handle, seed, macState, av>>

CommitTree0(r) ==
    /\ phase[r] = "tree0"
    /\ Absorb(r, <<Item("config", <<>>, <<>>), Item("tree0", <<>>, ProofRoot(r))>>)
    /\ NextPhase(r)
    /\ UNCHANGED <<session, damage, handle, seed, macState, av>>

MixPublic(r) ==
    /\ phase[r] = "public"
    /\ InLoop(r)
    /\ Absorb(r, <<Item("public", Here(r).name, StatementPart(r, Here(r).public))>>)
    /\ NextModule(r)
    /\ UNCHANGED <<session, damage, handle, seed, macState, av>>

CommitTree1(r) ==
    /\ phase[r] = "tree1"
    /\ Absorb(r, <<Item("tree1", <<>>, Version(r, "tree1"))>>)
    /\ NextPhase(r)
    /\ UNCHANGED <<session, damage, handle, seed, macState, av>>

(* SharedRelation::get panics on a handle nobody has set. *)
CanRead(r, handles) == \A h \in handles : handle[r][h] # Unset

DrawRelations(r) ==
    /\ phase[r] = "draw"
    /\ InLoop(r)
    /\ IF CanRead(r, Here(r).early)
       THEN /\ Absorb(r, IF Here(r).draws THEN <<Draw>> ELSE <<>>)
            /\ handle' = [handle EXCEPT ![r] =
                   [h \in Handles |->
                       IF h \in Here(r).sets THEN Len(chan'[r]) ELSE handle[r][h]]]
            /\ NextModule(r)
       ELSE /\ GoTo(r, "panicked")
            /\ UNCHANGED <<chan, handle>>
    /\ UNCHANGED <<session, damage, seed, macState, av>>

(* The prover's LogUp columns read the consumed relations. *)
WriteInteraction(r) ==
    /\ phase[r] = "interaction"
    /\ InLoop(r)
    /\ IF CanRead(r, Here(r).late) THEN NextModule(r) ELSE GoTo(r, "panicked")
    /\ UNCHANGED <<session, damage, chan, handle, seed, macState, av>>

(* The verifier's global LogUp balance: all claimed sums add up to zero.   *)
(* "claims" no longer do, "swapped" still do.                              *)
CheckBalance(r) ==
    /\ phase[r] = "balance"
    /\ IF Version(r, "claims") = 0 THEN NextPhase(r) ELSE GoTo(r, "unbalanced")
    /\ UNCHANGED <<session, damage, chan, handle, seed, macState, av>>

MixClaimedSums(r) ==
    /\ phase[r] = "claims"
    /\ InLoop(r)
    /\ Absorb(r, <<Item("claims", Here(r).name, ClaimsVersion(r))>>)
    /\ NextModule(r)
    /\ UNCHANGED <<session, damage, handle, seed, macState, av>>

CommitTree2(r) ==
    /\ phase[r] = "tree2"
    /\ Absorb(r, <<Item("tree2", <<>>, Version(r, "tree2"))>>)
    /\ NextPhase(r)
    /\ UNCHANGED <<session, damage, handle, seed, macState, av>>
----------------------------------------------------------------------------
(* The post-interaction work of a coprocessor: absorb the projections of   *)
(* its ECDSA statements, draw the seed its bundle is proved under, publish *)
(* what the MAC module needs, absorb the bundle.  The verifier accepts the *)
(* bundle only under the seed it was proved with.                          *)
SeedIsProvers(r, position) ==
    /\ position = seed["prover"]
    /\ SubSeq(chan'[r], 1, position) = SubSeq(chan["prover"], 1, position)

Coprocessor(r) ==
    LET drawn == Len(chan[r]) + 2 IN
    /\ phase[r] = "post"
    /\ InLoop(r)
    /\ Here(r).post \in Coprocessors
    /\ Absorb(r, <<Item("projection", Here(r).name, StatementPart(r, Here(r).projection)),
                   Draw,
                   Item("rejoin", Here(r).name, Version(r, "bundle"))>>)
    /\ seed' = [seed EXCEPT ![r] = drawn]
    /\ IF r = "prover" \/ (SeedIsProvers(r, drawn) /\ Version(r, "bundle") = 0)
       THEN /\ macState' = IF Here(r).post = "bundle"
                           THEN [macState EXCEPT ![r] = drawn] ELSE macState
            /\ NextModule(r)
       ELSE /\ GoTo(r, "rejected")
            /\ UNCHANGED macState
    /\ UNCHANGED <<session, damage, handle, av>>

(* The MAC module takes a_v and the tags: the prover expects them, the     *)
(* verifier rejects a proof that did not publish them.                     *)
MacPostInteraction(r) ==
    /\ phase[r] = "post"
    /\ InLoop(r)
    /\ Here(r).post = "mac"
    /\ IF macState[r] # Unset
       THEN /\ Absorb(r, <<Item("av", Here(r).name, macState[r])>>)
            /\ av' = [av EXCEPT ![r] = macState[r]]
            /\ NextModule(r)
       ELSE /\ GoTo(r, IF r = "prover" THEN "panicked" ELSE "rejected")
            /\ UNCHANGED <<chan, av>>
    /\ UNCHANGED <<session, damage, handle, seed, macState>>

NoPostInteraction(r) ==
    /\ phase[r] = "post"
    /\ InLoop(r)
    /\ Here(r).post = "none"
    /\ NextModule(r)
    /\ UNCHANGED <<session, damage, chan, handle, seed, macState, av>>

CommitTree3(r) ==
    /\ phase[r] = "tree3"
    /\ Absorb(r, IF HasPostColumns(r)
                 THEN <<Item("tree3", <<>>, Version(r, "tree3"))>> ELSE <<>>)
    /\ NextPhase(r)
    /\ UNCHANGED <<session, damage, handle, seed, macState, av>>

BuildComponents(r) ==
    /\ phase[r] = "components"
    /\ InLoop(r)
    /\ IF CanRead(r, Here(r).late) THEN NextModule(r) ELSE GoTo(r, "panicked")
    /\ UNCHANGED <<session, damage, chan, handle, seed, macState, av>>

(* stark_prove opens the trees at challenges drawn after everything that   *)
(* was absorbed; stark_verify accepts these openings only when its channel *)
(* is the one they were made for.                                          *)
Stark(r) ==
    /\ phase[r] = "stark"
    /\ GoTo(r, IF r = "prover" THEN "done"
               ELSE IF chan[r] = chan["prover"] THEN "accepted" ELSE "rejected")
    /\ UNCHANGED <<session, damage, chan, handle, seed, macState, av>>

Prove ==
    \/ CommitTree0("prover") \/ MixPublic("prover") \/ CommitTree1("prover")
    \/ DrawRelations("prover") \/ WriteInteraction("prover")
    \/ MixClaimedSums("prover") \/ CommitTree2("prover")
    \/ Coprocessor("prover") \/ MacPostInteraction("prover") \/ NoPostInteraction("prover")
    \/ CommitTree3("prover") \/ BuildComponents("prover") \/ Stark("prover")
    \/ EndLoop("prover")

Verify ==
    \/ PinRoot("verifier") \/ CommitTree0("verifier") \/ MixPublic("verifier")
    \/ CommitTree1("verifier") \/ DrawRelations("verifier") \/ CheckBalance("verifier")
    \/ MixClaimedSums("verifier") \/ CommitTree2("verifier")
    \/ Coprocessor("verifier") \/ MacPostInteraction("verifier")
    \/ NoPostInteraction("verifier") \/ CommitTree3("verifier")
    \/ BuildComponents("verifier") \/ Stark("verifier") \/ EndLoop("verifier")

Next == Prove \/ Deliver \/ Verify

Spec == Init /\ [][Next]_vars

(* prove and verify are loops that run to their end; whether a proof is    *)
(* ever delivered is up to the caller.                                     *)
FairSpec == Spec /\ WF_vars(Prove) /\ WF_vars(Verify)

----------------------------------------------------------------------------
(* The channel holds an item of this kind and origin before the challenge  *)
(* at a position is drawn.                                                 *)
BoundBefore(r, position, kind, from) ==
    \E i \in 1 .. position - 1 : chan[r][i].kind = kind /\ chan[r][i].from = from

(* A shared relation is drawn only after trees 0 and 1 and the public      *)
(* statement of every module, the ones after its provider included, are in *)
(* the transcript, on both sides.                                          *)
RelationsBindTrace ==
    \A r \in Roles : \A h \in Handles :
        handle[r][h] # Unset =>
            /\ BoundBefore(r, handle[r][h], "tree0", <<>>)
            /\ BoundBefore(r, handle[r][h], "tree1", <<>>)
            /\ \A i \in DOMAIN Modules(r) :
                   BoundBefore(r, handle[r][h], "public", Modules(r)[i].name)

(* The coprocessor's seed, and with it the MAC key a_v, is drawn only      *)
(* after tree 1 (which commits the MAC's a_p and x), every claimed sum and *)
(* tree 2; and the MAC module uses the a_v of that very seed.              *)
SeedBindsCommitments ==
    \A r \in Roles :
        /\ seed[r] # Unset =>
               /\ BoundBefore(r, seed[r], "tree1", <<>>)
               /\ BoundBefore(r, seed[r], "tree2", <<>>)
               /\ \A i \in DOMAIN Modules(r) :
                      BoundBefore(r, seed[r], "claims", Modules(r)[i].name)
        /\ av[r] # Unset => av[r] = seed[r]

(* A MAC module is never built with the zero a_v that build_components     *)
(* falls back to.                                                          *)
MacBuiltWithKey ==
    \A r \in Roles :
        (phase[r] \in {"components", "stark", "done", "accepted"} /\ HasPostColumns(r))
            => av[r] # Unset

(* No module reads a shared relation before its provider drew it, and the  *)
(* prover's MAC module finds its key published.                            *)
NoReadBeforeDraw == \A r \in Roles : phase[r] # "panicked"

(* Every challenge comes after what it must bind. *)
ChallengesBindTrace == RelationsBindTrace /\ SeedBindsCommitments

(* Everything a module reads of another is there when it reads it. *)
NothingReadEarly == NoReadBeforeDraw /\ MacBuiltWithKey

(* An untouched proof of the verifier's own statement. *)
SameSession ==
    /\ session.modules["prover"] = session.modules["verifier"]
    /\ session.statement["prover"] = session.statement["verifier"]
    /\ damage = "none"

(* An accepted proof arrived unchanged, was made by the verifier's modules *)
(* in the verifier's order, and every part of the statement that some      *)
(* module declares is the verifier's.                                      *)
DeclaredParts(r) ==
    UNION {Modules(r)[i].public \cup Modules(r)[i].projection : i \in DOMAIN Modules(r)}

AcceptedIsIntended ==
    phase["verifier"] = "accepted" =>
        /\ damage = "none"
        /\ [i \in DOMAIN Modules("prover") |-> Modules("prover")[i].name]
               = [i \in DOMAIN Modules("verifier") |-> Modules("verifier")[i].name]
        /\ \A a \in DeclaredParts("verifier") :
               session.statement["prover"][a] = session.statement["verifier"][a]
        /\ session.pinned => Root("prover") = Root("verifier")

(* An untouched proof of the verifier's own statement passes the pipeline's *)
(* checks and is accepted.                                                 *)
OwnProofAccepted ==
    (SameSession /\ phase["verifier"] # "waiting") ~> (phase["verifier"] = "accepted")
=============================================================================
