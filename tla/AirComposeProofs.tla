-------------------------- MODULE AirComposeProofs --------------------------
(***************************************************************************)
(* Proofs about the shared-transcript protocol, for every session: module  *)
(* lists of any length, any handles, any statement, any damage.            *)
(***************************************************************************)
EXTENDS AirCompose, MdocPipeline, SequenceTheorems, TLAPS

(* A sequence, whatever it holds. *)
IsSequence(s) == s \in Seq({s[i] : i \in DOMAIN s})

PastPublic == {"tree1", "draw", "interaction", "balance", "claims", "tree2", "post",
               "tree3", "components", "stark", "done", "accepted"}
PastTree0 == {"public"} \cup PastPublic
PastTree1 == PastPublic \ {"tree1"}
PastDraw == PastTree1 \ {"draw"}
PastClaims == PastDraw \ {"interaction", "balance", "claims"}
PastTree2 == PastClaims \ {"tree2"}
PastPost == PastTree2 \ {"post"}
PastTree3 == PastPost \ {"tree3"}
BeforePost == {"waiting", "pin", "tree0", "public", "tree1", "draw", "interaction", "balance",
               "claims", "tree2"}

Phases(r) ==
    IF r = "prover"
    THEN {"tree0", "public", "tree1", "draw", "interaction", "claims", "tree2", "post",
          "tree3", "components", "stark", "done", "panicked"}
    ELSE {"waiting", "pin", "tree0", "public", "tree1", "draw", "balance", "claims",
          "tree2", "post", "tree3", "components", "stark", "accepted", "refused",
          "mismatch", "unbalanced", "rejected", "panicked"}

(* The modules whose turn in a phase's loop is over. *)
Covered(r, loop, past) ==
    {i \in DOMAIN Modules(r) : phase[r] \in past \/ (phase[r] = loop /\ i < at[r])}

PlaceType ==
    /\ DOMAIN phase = Roles /\ \A r \in Roles : phase[r] \in Phases(r)
    /\ at \in [Roles -> Nat] /\ \A r \in Roles : at[r] \in 1 .. Len(Modules(r)) + 1

ChanType == DOMAIN chan = Roles /\ \A r \in Roles : IsSequence(chan[r])

StoreType ==
    /\ handle \in [Roles -> [Handles -> Nat]]
    /\ seed \in [Roles -> Nat] /\ macState \in [Roles -> Nat] /\ av \in [Roles -> Nat]

TypeInv ==
    /\ session \in Sessions
    /\ damage \in ProofParts \cup {"none"}
    /\ PlaceType /\ ChanType /\ StoreType

PublicItem(r, i) ==
    Item("public", Modules(r)[i].name, StatementPart(r, Modules(r)[i].public))

(* The head of the transcript: configuration, tree 0, one item per module,
   tree 1. *)
HeadInv(r) ==
    /\ phase[r] \in PastTree0 =>
           Len(chan[r]) >= 2 /\ chan[r][2] = Item("tree0", <<>>, ProofRoot(r))
    /\ \A i \in Covered(r, "public", PastPublic) :
           i + 2 <= Len(chan[r]) /\ chan[r][i + 2] = PublicItem(r, i)
    /\ phase[r] \in {"waiting", "pin", "tree0"} => Len(chan[r]) = 0
    /\ phase[r] = "public" => Len(chan[r]) = at[r] + 1
    /\ phase[r] \in PastPublic => Len(chan[r]) >= Len(Modules(r)) + 2
    /\ phase[r] = "tree1" => Len(chan[r]) = Len(Modules(r)) + 2
    /\ phase[r] \in PastTree1 =>
           /\ Len(chan[r]) >= Len(Modules(r)) + 3
           /\ chan[r][Len(Modules(r)) + 3] = Item("tree1", <<>>, Version(r, "tree1"))

(* What an item of a kind says, and where it may stand. *)
ItemFits(r, item, k) ==
    /\ item.kind = "public" => k \in 3 .. Len(Modules(r)) + 2
    /\ item.kind = "tree1" => k = Len(Modules(r)) + 3
    /\ item.kind = "tree2" => item.what = Version(r, "tree2")
    /\ item.kind = "tree3" => item.what = Version(r, "tree3")
    /\ item.kind = "claims" => item.what = ClaimsVersion(r)
    /\ item.kind = "rejoin" => item.what = Version(r, "bundle")

ItemInv(r) == \A k \in 1 .. Len(chan[r]) : ItemFits(r, chan[r][k], k)

HasItem(r, kind, from) ==
    \E k \in 1 .. Len(chan[r]) : chan[r][k].kind = kind /\ chan[r][k].from = from

(* What is in the transcript once its phase is over. *)
TailInv(r) ==
    /\ \A i \in Covered(r, "claims", PastClaims) : HasItem(r, "claims", Modules(r)[i].name)
    /\ phase[r] \in PastTree2 => HasItem(r, "tree2", <<>>)
    /\ \A i \in Covered(r, "post", PastPost) :
           Modules(r)[i].post \in Coprocessors => HasItem(r, "rejoin", Modules(r)[i].name)
    /\ phase[r] \in PastTree3 /\ HasPostColumns(r) => HasItem(r, "tree3", <<>>)

(* Handles are set in the draw loop, at positions that bind. *)
HandleInv(r) ==
    /\ \A h \in Handles : handle[r][h] # Unset =>
           /\ handle[r][h] \in 1 .. Len(chan[r])
           /\ BoundBefore(r, handle[r][h], "tree0", <<>>)
           /\ BoundBefore(r, handle[r][h], "tree1", <<>>)
           /\ \A i \in DOMAIN Modules(r) :
                  BoundBefore(r, handle[r][h], "public", Modules(r)[i].name)
    /\ \A i \in Covered(r, "draw", PastDraw) :
           \A h \in Modules(r)[i].sets : handle[r][h] # Unset

(* The coprocessor's seed, and the key it gives the MAC. *)
SeedInv(r) ==
    /\ phase[r] \in BeforePost => seed[r] = Unset
    /\ seed[r] # Unset =>
           /\ seed[r] \in 2 .. Len(chan[r])
           /\ BoundBefore(r, seed[r], "tree1", <<>>)
           /\ BoundBefore(r, seed[r], "tree2", <<>>)
           /\ \A i \in DOMAIN Modules(r) :
                  BoundBefore(r, seed[r], "claims", Modules(r)[i].name)
           /\ \E i \in DOMAIN Modules(r) :
                  /\ Modules(r)[i].post \in Coprocessors
                  /\ phase[r] = "post" => i < at[r]
                  /\ chan[r][seed[r] - 1] =
                         Item("projection", Modules(r)[i].name,
                              StatementPart(r, Modules(r)[i].projection))
    /\ macState[r] # Unset => macState[r] = seed[r]
    /\ av[r] # Unset => av[r] = seed[r]
    /\ \A i \in Covered(r, "post", PastPost) :
           /\ Modules(r)[i].post = "bundle" => macState[r] # Unset
           /\ Modules(r)[i].post = "mac" => av[r] # Unset

RoleInv(r) == HeadInv(r) /\ ItemInv(r) /\ TailInv(r) /\ HandleInv(r) /\ SeedInv(r)

(* What the verifier compared with the prover's side. *)
VerifierInv ==
    /\ phase["verifier"] # "waiting" => phase["prover"] = "done"
    /\ phase["verifier"] \in PastTree0 \cup {"tree0"} =>
           (session.pinned => ProofRoot("verifier") = <<Root("verifier"), 0>>)
    /\ \A i \in Covered("verifier", "post", PastPost) :
           \A a \in Modules("verifier")[i].projection :
               session.statement["prover"][a] = session.statement["verifier"][a]
    /\ phase["verifier"] = "accepted" => chan["verifier"] = chan["prover"]

IInv ==
    /\ TypeInv
    /\ \A r \in Roles : RoleInv(r)
    /\ VerifierInv

-----------------------------------------------------------------------------
(* Absorbing items keeps a transcript and puts them at its end.            *)
LEMMA Appended ==
    ASSUME NEW s, NEW t, IsSequence(s), IsSequence(t)
    PROVE  /\ IsSequence(s \o t)
           /\ Len(s) \in Nat /\ Len(t) \in Nat
           /\ Len(s \o t) = Len(s) + Len(t)
           /\ \A i \in 1 .. Len(s) : (s \o t)[i] = s[i]
           /\ \A i \in 1 .. Len(t) : (s \o t)[Len(s) + i] = t[i]
<1> DEFINE S == {s[i] : i \in DOMAIN s} \cup {t[i] : i \in DOMAIN t}
           u == s \o t
<1>1. s \in Seq(S) /\ t \in Seq(S)
    BY SeqMonotonic DEF IsSequence
<1> HIDE DEF S
<1>2. Len(s) \in Nat /\ Len(t) \in Nat
    BY <1>1, LenProperties
<1>3. /\ u \in Seq(S)
      /\ Len(u) = Len(s) + Len(t)
      /\ \A i \in 1 .. Len(s) + Len(t) : u[i] = IF i <= Len(s) THEN s[i] ELSE t[i - Len(s)]
    BY <1>1, ConcatProperties
<1> HIDE DEF u
<1>4. u \in Seq({u[i] : i \in DOMAIN u})
  <2>1. DOMAIN u = 1 .. Len(u) /\ u \in [1 .. Len(u) -> S] /\ Len(u) \in Nat
    BY <1>3, LenProperties
  <2> DEFINE R == {u[i] : i \in DOMAIN u}
  <2>2. \A i \in 1 .. Len(u) : u[i] \in R
    BY <2>1
  <2> HIDE DEF R
  <2>3. [i \in 1 .. Len(u) |-> u[i]] \in Seq(R)
    BY <2>1, <2>2 
  <2>4. u = [i \in 1 .. Len(u) |-> u[i]]
    BY <2>1
  <2> QED BY <2>3, <2>4 DEF R
<1>5. \A i \in 1 .. Len(s) : u[i] = s[i]
    BY <1>2, <1>3
<1>6. \A i \in 1 .. Len(t) : u[Len(s) + i] = t[i]
    BY <1>2, <1>3
<1> QED BY <1>2, <1>3, <1>4, <1>5, <1>6 DEF IsSequence, u

(* The items of a literal transcript.                                      *)
LEMMA Literals ==
    ASSUME NEW x, NEW y, NEW z
    PROVE  /\ IsSequence(<<>>) /\ Len(<<>>) = 0
           /\ IsSequence(<<x>>) /\ Len(<<x>>) = 1 /\ <<x>>[1] = x
           /\ IsSequence(<<x, y>>) /\ Len(<<x, y>>) = 2
           /\ <<x, y>>[1] = x /\ <<x, y>>[2] = y
           /\ IsSequence(<<x, y, z>>) /\ Len(<<x, y, z>>) = 3
           /\ <<x, y, z>>[1] = x /\ <<x, y, z>>[2] = y /\ <<x, y, z>>[3] = z
<1>1. IsSequence(<<>>) /\ Len(<<>>) = 0
    BY DEF IsSequence
<1>2. IsSequence(<<x>>) /\ Len(<<x>>) = 1 /\ <<x>>[1] = x
    BY DEF IsSequence
<1>3. IsSequence(<<x, y>>) /\ Len(<<x, y>>) = 2 /\ <<x, y>>[1] = x /\ <<x, y>>[2] = y
    BY DEF IsSequence
<1>4. IsSequence(<<x, y, z>>) /\ Len(<<x, y, z>>) = 3
    BY DEF IsSequence
<1>5. <<x, y, z>>[1] = x /\ <<x, y, z>>[2] = y /\ <<x, y, z>>[3] = z
    OBVIOUS
<1> QED BY <1>1, <1>2, <1>3, <1>4, <1>5

(* A transcript that only grew. *)
Grew(r) ==
    /\ Len(chan[r]) \in Nat /\ Len(chan'[r]) \in Nat
    /\ Len(chan[r]) <= Len(chan'[r])
    /\ \A k \in 1 .. Len(chan[r]) : chan'[r][k] = chan[r][k]

(* What Absorb does to a side's transcript.                                *)
LEMMA Absorbed ==
    ASSUME TypeInv, NEW r \in Roles, NEW items, IsSequence(items), Absorb(r, items)
    PROVE  /\ DOMAIN chan' = Roles /\ IsSequence(chan'[r]) /\ Grew(r)
           /\ Len(items) \in Nat
           /\ Len(chan'[r]) = Len(chan[r]) + Len(items)
           /\ \A k \in 1 .. Len(items) : chan'[r][Len(chan[r]) + k] = items[k]
           /\ \A q \in Roles \ {r} : chan'[q] = chan[q]
<1>1. DOMAIN chan = Roles /\ IsSequence(chan[r])
    BY DEF TypeInv, ChanType
<1>2. chan'[r] = chan[r] \o items
    BY <1>1 DEF Absorb
<1>3. DOMAIN chan' = Roles /\ \A q \in Roles \ {r} : chan'[q] = chan[q]
    BY <1>1 DEF Absorb
<1>4. /\ IsSequence(chan[r] \o items)
      /\ Len(chan[r]) \in Nat /\ Len(items) \in Nat
      /\ Len(chan[r] \o items) = Len(chan[r]) + Len(items)
      /\ \A k \in 1 .. Len(chan[r]) : (chan[r] \o items)[k] = chan[r][k]
      /\ \A k \in 1 .. Len(items) : (chan[r] \o items)[Len(chan[r]) + k] = items[k]
    BY <1>1, Appended
<1> QED BY <1>2, <1>3, <1>4 DEF Grew

(* The common case of one item.                                            *)
LEMMA AbsorbedOne ==
    ASSUME TypeInv, NEW r \in Roles, NEW item, Absorb(r, <<item>>)
    PROVE  /\ Grew(r)
           /\ Len(chan'[r]) = Len(chan[r]) + 1
           /\ chan'[r][Len(chan[r]) + 1] = item
<1>1. IsSequence(<<item>>) /\ Len(<<item>>) = 1 /\ <<item>>[1] = item
    BY Literals
<1> DEFINE items == <<item>>
<1>2. IsSequence(items) /\ Len(items) = 1 /\ items[1] = item /\ Absorb(r, items)
    BY <1>1
<1> HIDE DEF items
<1>3. /\ Grew(r) /\ Len(chan'[r]) = Len(chan[r]) + Len(items)
      /\ \A k \in 1 .. Len(items) : chan'[r][Len(chan[r]) + k] = items[k]
    BY <1>2, Absorbed
<1> QED BY <1>2, <1>3

(* A side's module list is a sequence of modules, and stays.               *)
LEMMA ModuleList ==
    ASSUME TypeInv, NEW r \in Roles
    PROVE  /\ Modules(r) \in Seq(Module)
           /\ Len(Modules(r)) \in Nat
           /\ DOMAIN Modules(r) = 1 .. Len(Modules(r))
           /\ \A i \in DOMAIN Modules(r) : Modules(r)[i] \in Module
<1>1. Modules(r) \in Seq(Module)
    BY SessionsAssumption DEF TypeInv, Modules
<1> QED BY <1>1, LenProperties, ElementOfSeq

(* Where the phases lead.                                                  *)
LEMMA PhaseSteps ==
    ASSUME NEW r \in Roles
    PROVE  /\ phase[r] = "pin" => PhaseAfter(r) = "tree0"
           /\ phase[r] = "tree0" => PhaseAfter(r) = "public"
           /\ phase[r] = "public" => PhaseAfter(r) = "tree1"
           /\ phase[r] = "tree1" => PhaseAfter(r) = "draw"
           /\ phase[r] = "draw" => PhaseAfter(r) = IF r = "prover" THEN "interaction" ELSE "balance"
           /\ phase[r] = "interaction" => PhaseAfter(r) = "claims"
           /\ phase[r] = "balance" => PhaseAfter(r) = "claims"
           /\ phase[r] = "claims" => PhaseAfter(r) = "tree2"
           /\ phase[r] = "tree2" => PhaseAfter(r) = "post"
           /\ phase[r] = "post" => PhaseAfter(r) = "tree3"
           /\ phase[r] = "tree3" => PhaseAfter(r) = "components"
           /\ phase[r] = "components" => PhaseAfter(r) = "stark"
BY DEF PhaseAfter, PhaseOrder

(* The phase and the loop position after the two kinds of moves.           *)
LEMMA Moved ==
    ASSUME TypeInv, NEW r \in Roles
    PROVE  /\ NextModule(r) => /\ phase' = phase
                               /\ at' \in [Roles -> Nat]
                               /\ at'[r] = at[r] + 1
                               /\ \A q \in Roles \ {r} : at'[q] = at[q]
           /\ \A ph : GoTo(r, ph) =>
                   /\ DOMAIN phase' = Roles /\ phase'[r] = ph
                   /\ at' \in [Roles -> Nat] /\ at'[r] = 1
                   /\ \A q \in Roles \ {r} : phase'[q] = phase[q] /\ at'[q] = at[q]
<1>0. DOMAIN phase = Roles /\ at \in [Roles -> Nat]
    BY DEF TypeInv, PlaceType
<1>1. ASSUME NextModule(r)
      PROVE  /\ phase' = phase /\ at' \in [Roles -> Nat] /\ at'[r] = at[r] + 1
             /\ \A q \in Roles \ {r} : at'[q] = at[q]
    BY <1>0, <1>1 DEF NextModule
<1>2. ASSUME NEW ph, GoTo(r, ph)
      PROVE  /\ DOMAIN phase' = Roles /\ phase'[r] = ph
             /\ at' \in [Roles -> Nat] /\ at'[r] = 1
             /\ \A q \in Roles \ {r} : phase'[q] = phase[q] /\ at'[q] = at[q]
    BY <1>0, <1>2 DEF GoTo
<1> QED BY <1>1, <1>2

(* Every operation of one side. *)
Step(r) ==
    \/ PinRoot(r) \/ CommitTree0(r) \/ MixPublic(r) \/ CommitTree1(r) \/ DrawRelations(r)
    \/ WriteInteraction(r) \/ CheckBalance(r) \/ MixClaimedSums(r) \/ CommitTree2(r)
    \/ Coprocessor(r) \/ MacPostInteraction(r) \/ NoPostInteraction(r) \/ CommitTree3(r)
    \/ BuildComponents(r) \/ Stark(r) \/ EndLoop(r)

(* Moving to the next module or to a phase of its own keeps a side's place *)
(* in range.                                                               *)
LEMMA PlaceKept ==
    ASSUME TypeInv, NEW r \in Roles, session' = session,
           \/ NextModule(r) /\ InLoop(r)
           \/ \E ph \in Phases(r) : GoTo(r, ph)
    PROVE  PlaceType'
<1>0. Len(Modules(r)) \in Nat /\ \A q \in Roles : Modules(q)' = Modules(q)
    BY ModuleList DEF Modules
<1>1. PlaceType
    BY DEF TypeInv
<1>2. CASE NextModule(r) /\ InLoop(r)
  <2>1. /\ phase' = phase /\ at' \in [Roles -> Nat] /\ at'[r] = at[r] + 1
        /\ \A q \in Roles \ {r} : at'[q] = at[q]
    BY <1>2, Moved
  <2>2. at'[r] \in 1 .. Len(Modules(r)) + 1
    BY <1>0, <1>1, <1>2, <2>1 DEF PlaceType, InLoop
  <2>3. \A q \in Roles : at'[q] \in 1 .. Len(Modules(q)) + 1
    BY <1>1, <2>1, <2>2 DEF PlaceType
  <2> QED BY <1>0, <1>1, <2>1, <2>3 DEF PlaceType
<1>3. CASE \E ph \in Phases(r) : GoTo(r, ph)
  <2>1. PICK ph \in Phases(r) : GoTo(r, ph)
    BY <1>3
  <2>3. /\ DOMAIN phase' = Roles /\ phase'[r] = ph
        /\ at' \in [Roles -> Nat] /\ at'[r] = 1
        /\ \A q \in Roles \ {r} : phase'[q] = phase[q] /\ at'[q] = at[q]
    BY <2>1, Moved
  <2>4. \A q \in Roles : phase'[q] \in Phases(q)
    BY <1>1, <2>1, <2>3 DEF PlaceType
  <2>5. at'[r] \in 1 .. Len(Modules(r)) + 1
    BY <1>0, <2>3
  <2>6. \A q \in Roles : at'[q] \in 1 .. Len(Modules(q)) + 1
    BY <1>1, <2>3, <2>5 DEF PlaceType
  <2> QED BY <1>0, <2>3, <2>4, <2>6 DEF PlaceType
<1> QED BY <1>2, <1>3

(* The next phase is one of the side's own.                                *)
LEMMA NextPhaseKept ==
    ASSUME TypeInv, NEW r \in Roles, phase[r] \notin Ended \cup {"stark"}
    PROVE  PhaseAfter(r) \in Phases(r)
<1>1. phase[r] \in Phases(r)
    BY DEF TypeInv, PlaceType
<1>2. CASE r = "prover"
    BY <1>1, <1>2, PhaseSteps DEF Phases, Ended
<1>3. CASE r = "verifier"
    BY <1>1, <1>3, PhaseSteps DEF Phases, Ended
<1> QED BY <1>2, <1>3 DEF Roles

(* Each operation of a side keeps its place, its transcript and its store  *)
(* well typed.                                                             *)
LEMMA StepType ==
    ASSUME TypeInv, NEW r \in Roles, Step(r)
    PROVE  TypeInv'
<1>0. /\ session' = session /\ damage' = damage
    BY DEF Step, PinRoot, CommitTree0, MixPublic, CommitTree1, DrawRelations, WriteInteraction,
           CheckBalance, MixClaimedSums, CommitTree2, Coprocessor, MacPostInteraction,
           NoPostInteraction, CommitTree3, BuildComponents, Stark, EndLoop
<1>1. PlaceType'
  <2>1. phase[r] \in Phases(r)
    BY DEF TypeInv, PlaceType
  <2>2. SUFFICES \/ NextModule(r) /\ InLoop(r)
                 \/ NextPhase(r) /\ phase[r] \notin Ended \cup {"stark"}
                 \/ \E ph \in Phases(r) : GoTo(r, ph)
    BY <1>0, PlaceKept, NextPhaseKept DEF NextPhase
  <2>3. CASE PinRoot(r)
    BY <2>1, <2>3 DEF PinRoot, Phases, Roles, Ended
  <2>4. CASE CommitTree0(r) \/ CommitTree1(r) \/ CommitTree2(r) \/ CommitTree3(r)
    BY <2>4 DEF CommitTree0, CommitTree1, CommitTree2, CommitTree3, Ended
  <2>5. CASE EndLoop(r)
    BY <2>5 DEF EndLoop, Ended
  <2>6. CASE MixPublic(r) \/ MixClaimedSums(r) \/ NoPostInteraction(r)
    BY <2>6 DEF MixPublic, MixClaimedSums, NoPostInteraction
  <2>7. CASE DrawRelations(r) \/ WriteInteraction(r) \/ BuildComponents(r)
    <3>1. "panicked" \in Phases(r)
      BY DEF Phases, Roles
    <3> QED BY <2>7, <3>1 DEF DrawRelations, WriteInteraction, BuildComponents
  <2>8. CASE CheckBalance(r)
    <3>1. phase[r] = "balance"
      BY <2>8 DEF CheckBalance
    <3>2. "unbalanced" \in Phases(r)
      BY <2>1, <3>1 DEF Phases, Roles
    <3> QED BY <2>8, <3>1, <3>2 DEF CheckBalance, Ended
  <2>9. CASE Coprocessor(r)
    <3>1. r # "prover" => "rejected" \in Phases(r)
      BY DEF Phases, Roles
    <3> QED BY <2>9, <3>1 DEF Coprocessor
  <2>10. CASE MacPostInteraction(r)
    <3>1. (IF r = "prover" THEN "panicked" ELSE "rejected") \in Phases(r)
      BY DEF Phases, Roles
    <3> QED BY <2>10, <3>1 DEF MacPostInteraction
  <2>11. CASE Stark(r)
    <3>1. (IF r = "prover" THEN "done"
           ELSE IF chan[r] = chan["prover"] THEN "accepted" ELSE "rejected") \in Phases(r)
      BY DEF Phases, Roles
    <3> QED BY <2>11, <3>1 DEF Stark
  <2> QED BY <2>3, <2>4, <2>5, <2>6, <2>7, <2>8, <2>9, <2>10, <2>11 DEF Step
<1>2. ChanType'
  <2>1. SUFFICES ASSUME chan' # chan
                 PROVE  \E items : IsSequence(items) /\ Absorb(r, items)
    <3>1. CASE chan' = chan
      BY <3>1 DEF TypeInv, ChanType
    <3>2. CASE chan' # chan
      <4>1. PICK items : IsSequence(items) /\ Absorb(r, items)
        BY <2>1, <3>2
      <4> QED BY <4>1, Absorbed DEF TypeInv, ChanType
    <3> QED BY <3>1, <3>2
  <2>2. CASE CommitTree0(r)
    BY <2>2, Literals DEF CommitTree0
  <2>3. CASE MixPublic(r)
    BY <2>3, Literals DEF MixPublic
  <2>4. CASE CommitTree1(r) \/ CommitTree2(r) \/ CommitTree3(r)
    BY <2>4, Literals DEF CommitTree1, CommitTree2, CommitTree3
  <2>5. CASE DrawRelations(r)
    BY <2>1, <2>5, Literals DEF DrawRelations
  <2>6. CASE MixClaimedSums(r)
    BY <2>6, Literals DEF MixClaimedSums
  <2>7. CASE Coprocessor(r)
    BY <2>7, Literals DEF Coprocessor
  <2>8. CASE MacPostInteraction(r)
    BY <2>1, <2>8, Literals DEF MacPostInteraction
  <2> QED BY <2>1, <2>2, <2>3, <2>4, <2>5, <2>6, <2>7, <2>8
          DEF Step, PinRoot, WriteInteraction, CheckBalance, NoPostInteraction,
              BuildComponents, Stark, EndLoop
<1>3. StoreType'
  <2>1. StoreType
    BY DEF TypeInv
  <2>2. CASE DrawRelations(r)
    <3>1. \A q \in Roles : Len(chan'[q]) \in Nat
      BY <1>2, LenProperties DEF ChanType, IsSequence
    <3>2. PICK n \in Nat : handle' = handle \/
              handle' = [handle EXCEPT ![r] =
                            [h \in Handles |-> IF h \in Here(r).sets THEN n ELSE handle[r][h]]]
      BY <2>2, <3>1 DEF DrawRelations
    <3>3. [h \in Handles |-> IF h \in Here(r).sets THEN n ELSE handle[r][h]] \in [Handles -> Nat]
      BY <2>1 DEF StoreType
    <3>4. handle' \in [Roles -> [Handles -> Nat]]
      BY <2>1, <3>2, <3>3 DEF StoreType
    <3> QED BY <2>1, <2>2, <3>4 DEF StoreType, DrawRelations
  <2>3. CASE Coprocessor(r)
    <3>1. Len(chan[r]) + 2 \in Nat
      BY LenProperties DEF TypeInv, ChanType, IsSequence
    <3>2. seed' \in [Roles -> Nat]
      BY <2>1, <2>3, <3>1 DEF StoreType, Coprocessor
    <3>3. macState' \in [Roles -> Nat]
      BY <2>1, <2>3, <3>1 DEF StoreType, Coprocessor
    <3> QED BY <2>1, <2>3, <3>2, <3>3 DEF StoreType, Coprocessor
  <2>4. CASE MacPostInteraction(r)
    <3>1. av' \in [Roles -> Nat]
      BY <2>1, <2>4 DEF StoreType, MacPostInteraction
    <3> QED BY <2>1, <2>4, <3>1 DEF StoreType, MacPostInteraction
  <2> QED BY <2>1, <2>2, <2>3, <2>4
          DEF Step, StoreType, PinRoot, CommitTree0, MixPublic, CommitTree1, WriteInteraction,
              CheckBalance, MixClaimedSums, CommitTree2, NoPostInteraction, CommitTree3,
              BuildComponents, Stark, EndLoop
<1>4. ProofParts' = ProofParts
    BY <1>0 DEF ProofParts, HasPostColumns, HasBundle, Modules
<1> QED BY <1>0, <1>1, <1>2, <1>3, <1>4 DEF TypeInv

-----------------------------------------------------------------------------
(* When nothing of a side changes, its invariants do not: damage is no     *)
(* part of what the prover says.                                           *)
LEMMA RoleFrame ==
    ASSUME NEW r \in Roles, RoleInv(r), session' = session, damage' = damage \/ r = "prover",
           phase'[r] = phase[r], at'[r] = at[r], chan'[r] = chan[r], handle'[r] = handle[r],
           seed'[r] = seed[r], macState'[r] = macState[r], av'[r] = av[r]
    PROVE  RoleInv(r)'
<1>1. /\ Modules(r)' = Modules(r)
      /\ \A part : Version(r, part)' = Version(r, part)
      /\ ProofRoot(r)' = ProofRoot(r)
    BY DEF Modules, Version, ProofRoot, Root, StatementPart
<1>2. HeadInv(r)'
    BY <1>1 DEF RoleInv, HeadInv, Covered, PublicItem, StatementPart
<1>3. ItemInv(r)'
    BY <1>1 DEF RoleInv, ItemInv, ItemFits, ClaimsVersion
<1>4. TailInv(r)'
    BY <1>1 DEF RoleInv, TailInv, Covered, HasItem, HasPostColumns
<1>5. HandleInv(r)'
    BY <1>1 DEF RoleInv, HandleInv, Covered, BoundBefore
<1>6. SeedInv(r)'
    BY <1>1 DEF RoleInv, SeedInv, Covered, BoundBefore, StatementPart
<1> QED BY <1>2, <1>3, <1>4, <1>5, <1>6 DEF RoleInv

(* The operations that only move: nothing is absorbed, drawn or set.       *)
Still(r) ==
    \/ PinRoot(r) \/ WriteInteraction(r) \/ CheckBalance(r) \/ NoPostInteraction(r)
    \/ BuildComponents(r) \/ Stark(r) \/ EndLoop(r)

(* A move keeps what the transcript, the handles and the keys say.         *)
LEMMA StillKept ==
    ASSUME TypeInv, NEW r \in Roles, RoleInv(r), Still(r)
    PROVE  RoleInv(r)'
<1>1. /\ session' = session /\ damage' = damage /\ chan' = chan /\ handle' = handle
      /\ seed' = seed /\ macState' = macState /\ av' = av
    BY DEF Still, PinRoot, WriteInteraction, CheckBalance, NoPostInteraction, BuildComponents,
           Stark, EndLoop
<1>2. /\ Modules(r)' = Modules(r)
      /\ Version(r, "tree1")' = Version(r, "tree1")
      /\ ProofRoot(r)' = ProofRoot(r)
    BY <1>1 DEF Modules, Version, ProofRoot, Root, StatementPart
<1>3. /\ at[r] \in 1 .. Len(Modules(r)) + 1 /\ Len(Modules(r)) \in Nat
      /\ DOMAIN Modules(r) = 1 .. Len(Modules(r))
      /\ ~InLoop(r) => at[r] = Len(Modules(r)) + 1
    BY ModuleList DEF TypeInv, PlaceType, InLoop
<1>4. \/ phase[r] = "pin" /\ phase'[r] \in {"tree0", "mismatch"} /\ at'[r] = 1
      \/ phase[r] = "public" /\ phase'[r] = "tree1" /\ at[r] = Len(Modules(r)) + 1
      \/ phase[r] = "draw" /\ phase'[r] \in {"interaction", "balance"}
             /\ at[r] = Len(Modules(r)) + 1 /\ at'[r] = 1
      \/ phase[r] = "claims" /\ phase'[r] = "tree2" /\ at[r] = Len(Modules(r)) + 1
      \/ phase[r] = "post" /\ phase'[r] = "tree3" /\ at[r] = Len(Modules(r)) + 1
      \/ phase[r] \in {"interaction", "balance"} /\ phase'[r] = "claims" /\ at'[r] = 1
      \/ phase[r] \in {"interaction", "components"} /\ phase'[r] = phase[r]
      \/ phase[r] = "components" /\ phase'[r] = "stark"
      \/ phase[r] = "stark" /\ phase'[r] \in {"done", "accepted", "rejected"}
      \/ phase'[r] \in {"panicked", "unbalanced"}
      \/ NoPostInteraction(r) /\ phase[r] = "post" /\ phase'[r] = "post" /\ at'[r] = at[r] + 1
  <2>1. CASE PinRoot(r)
    BY <2>1, PhaseSteps, Moved DEF PinRoot, NextPhase
  <2>2. CASE WriteInteraction(r) \/ BuildComponents(r)
    BY <2>2, Moved DEF WriteInteraction, BuildComponents
  <2>3. CASE CheckBalance(r)
    BY <2>3, PhaseSteps, Moved DEF CheckBalance, NextPhase
  <2>4. CASE NoPostInteraction(r)
    BY <2>4, Moved DEF NoPostInteraction
  <2>5. CASE Stark(r)
    BY <2>5, Moved DEF Stark
  <2>6. CASE EndLoop(r)
    BY <1>3, <2>6, PhaseSteps, Moved DEF EndLoop, NextPhase
  <2> QED BY <2>1, <2>2, <2>3, <2>4, <2>5, <2>6 DEF Still
<1>5. HeadInv(r)'
    BY <1>1, <1>2, <1>3, <1>4, SMTT(30)
       DEF RoleInv, HeadInv, Covered, PublicItem, StatementPart, PastTree0, PastTree1, PastPublic
<1>6. ItemInv(r)'
    BY <1>1, <1>2 DEF RoleInv, ItemInv, ItemFits, ClaimsVersion, Version
<1>7. TailInv(r)'
  <2>1. ASSUME NEW i \in Covered(r, "claims", PastClaims)'
        PROVE  HasItem(r, "claims", Modules(r)[i].name)'
    BY <1>1, <1>2, <1>3, <1>4, <2>1, SMTT(30)
       DEF RoleInv, TailInv, Covered, HasItem, PastClaims, PastDraw, PastTree1, PastPublic
  <2>2. (phase[r] \in PastTree2 => HasItem(r, "tree2", <<>>))'
    BY <1>1, <1>2, <1>3, <1>4
       DEF RoleInv, TailInv, HasItem, PastTree2, PastClaims, PastDraw, PastTree1, PastPublic
  <2>3. ASSUME NEW i \in Covered(r, "post", PastPost)', Modules(r)[i].post \in Coprocessors
        PROVE  HasItem(r, "rejoin", Modules(r)[i].name)'
    <3>1. i \in DOMAIN Modules(r) /\ (phase'[r] \in PastPost \/ (phase'[r] = "post" /\ i < at'[r]))
      BY <1>2, <2>3 DEF Covered
    <3>2. ~(NoPostInteraction(r) /\ i = at[r])
      BY <2>3 DEF NoPostInteraction, Here, Coprocessors
    <3>3. i \in Nat /\ at[r] \in Nat
      BY <1>3, <3>1
    <3>4. phase[r] \in PastPost \/ (phase[r] = "post" /\ i < at[r])
      BY <1>3, <1>4, <3>1, <3>2, <3>3
         DEF PastPost, PastTree2, PastClaims, PastDraw, PastTree1, PastPublic
    <3>5. HasItem(r, "rejoin", Modules(r)[i].name)
      BY <2>3, <3>1, <3>4 DEF RoleInv, TailInv, Covered
    <3>6. Modules(r)'[i].name = Modules(r)[i].name
      BY <1>2
    <3> QED BY <1>1, <3>5, <3>6 DEF HasItem
  <2>4. (phase[r] \in PastTree3 /\ HasPostColumns(r) => HasItem(r, "tree3", <<>>))'
    BY <1>1, <1>2, <1>3, <1>4
       DEF RoleInv, TailInv, HasItem, HasPostColumns, PastTree3, PastPost, PastTree2, PastClaims,
           PastDraw, PastTree1, PastPublic
  <2> QED BY <1>2, <2>1, <2>2, <2>3, <2>4 DEF TailInv
<1>8. HandleInv(r)'
  <2>1. Covered(r, "draw", PastDraw)' \subseteq Covered(r, "draw", PastDraw)
    BY <1>1, <1>2, <1>3, <1>4 DEF Covered, PastDraw, PastTree1, PastPublic
  <2> QED BY <1>1, <1>2, <2>1 DEF RoleInv, HandleInv, BoundBefore
<1>9. SeedInv(r)'
  <2>1. (phase[r] = "post")' => phase[r] = "post" /\ at[r] <= at'[r]
    BY <1>3, <1>4
  <2>2. ASSUME NEW i \in Covered(r, "post", PastPost)'
        PROVE  /\ Modules(r)[i].post = "bundle" => macState[r] # Unset
               /\ Modules(r)[i].post = "mac" => av[r] # Unset
    BY <1>1, <1>2, <1>3, <1>4, <2>2
       DEF RoleInv, SeedInv, Covered, PastPost, PastTree2, PastClaims, PastDraw,
           PastTree1, PastPublic, NoPostInteraction, Here
  <2>3. ASSUME seed[r] # Unset
        PROVE  \E i \in DOMAIN Modules(r) :
                  /\ Modules(r)[i].post \in Coprocessors
                  /\ (phase[r] = "post")' => i < at'[r]
                  /\ chan[r][seed[r] - 1] =
                         Item("projection", Modules(r)[i].name,
                              StatementPart(r, Modules(r)[i].projection))
    <3>1. PICK i \in DOMAIN Modules(r) :
              /\ Modules(r)[i].post \in Coprocessors
              /\ phase[r] = "post" => i < at[r]
              /\ chan[r][seed[r] - 1] =
                     Item("projection", Modules(r)[i].name,
                          StatementPart(r, Modules(r)[i].projection))
      BY <2>3 DEF RoleInv, SeedInv
    <3>2. (phase[r] = "post")' => i < at'[r]
      BY <1>3, <1>4, <2>1, <3>1
    <3> QED BY <3>1, <3>2
  <2>4. \A names : StatementPart(r, names)' = StatementPart(r, names)
    BY <1>1 DEF StatementPart
  <2>5. \A p, k, f : BoundBefore(r, p, k, f)' = BoundBefore(r, p, k, f)
    BY <1>1 DEF BoundBefore
  <2>6. phase'[r] \in BeforePost => phase[r] \in BeforePost
    BY <1>4 DEF BeforePost
  <2> QED BY <1>1, <1>2, <2>2, <2>3, <2>4, <2>5, <2>6 DEF RoleInv, SeedInv
<1> QED BY <1>5, <1>6, <1>7, <1>8, <1>9 DEF RoleInv

(* A transcript that grew holds what it held, before the same challenges.  *)
LEMMA GrewKeeps ==
    ASSUME NEW r \in Roles, Grew(r)
    PROVE  /\ \A k, f : HasItem(r, k, f) => HasItem(r, k, f)'
           /\ \A p \in 0 .. Len(chan[r]) + 1 : \A k, f :
                  BoundBefore(r, p, k, f) => BoundBefore(r, p, k, f)'
<1>1. ASSUME NEW k, NEW f, HasItem(r, k, f)
      PROVE  HasItem(r, k, f)'
    BY <1>1 DEF HasItem, Grew
<1>2. ASSUME NEW p \in 0 .. Len(chan[r]) + 1, NEW k, NEW f, BoundBefore(r, p, k, f)
      PROVE  BoundBefore(r, p, k, f)'
    BY <1>2, SMTT(30) DEF BoundBefore, Grew
<1> QED BY <1>1, <1>2

(* The head of a transcript is settled once tree 1 is committed.           *)
LEMMA HeadKept ==
    ASSUME TypeInv, NEW r \in Roles, RoleInv(r), Grew(r), session' = session, damage' = damage,
           phase[r] \in PastTree1, phase'[r] \in PastTree1 \cup {"panicked", "rejected"}
    PROVE  HeadInv(r)'
<1>1. /\ Modules(r)' = Modules(r)
      /\ Version(r, "tree1")' = Version(r, "tree1")
      /\ ProofRoot(r)' = ProofRoot(r)
      /\ \A i : PublicItem(r, i)' = PublicItem(r, i)
    BY DEF Modules, Version, ProofRoot, Root, StatementPart, PublicItem
<1>2. Len(Modules(r)) \in Nat /\ DOMAIN Modules(r) = 1 .. Len(Modules(r))
    BY ModuleList
<1>3. HeadInv(r)
    BY DEF RoleInv
<1>4. \A i \in Covered(r, "public", PastPublic)' :
          i + 2 <= Len(chan'[r]) /\ chan'[r][i + 2] = PublicItem(r, i)
  <2>1. \A i \in DOMAIN Modules(r) : i + 2 <= Len(chan[r]) /\ chan[r][i + 2] = PublicItem(r, i)
    BY <1>3 DEF HeadInv, Covered, PastTree1
  <2> QED BY <1>1, <1>2, <2>1, SMTT(30) DEF Covered, Grew
<1>5. Len(chan[r]) >= Len(Modules(r)) + 3
    BY <1>3 DEF HeadInv
<1>6. chan[r][2] = Item("tree0", <<>>, ProofRoot(r))
      /\ chan[r][Len(Modules(r)) + 3] = Item("tree1", <<>>, Version(r, "tree1"))
    BY <1>3 DEF HeadInv, PastTree1, PastTree0
<1>7. chan'[r][2] = chan[r][2] /\ chan'[r][Len(Modules(r)) + 3] = chan[r][Len(Modules(r)) + 3]
    BY <1>2, <1>5 DEF Grew
<1>8. Len(chan'[r]) >= Len(Modules(r)) + 3
    BY <1>2, <1>5 DEF Grew
<1>9. phase'[r] \notin {"waiting", "pin", "tree0", "public", "tree1"}
    BY DEF PastTree1, PastPublic
<1> QED BY <1>1, <1>2, <1>4, <1>6, <1>7, <1>8, <1>9 DEF HeadInv

(* Every absorbed item must fit where it lands.                            *)
LEMMA ItemsFit ==
    ASSUME TypeInv, NEW r \in Roles, RoleInv(r), Grew(r), session' = session, damage' = damage,
           \A k \in Len(chan[r]) + 1 .. Len(chan'[r]) : ItemFits(r, chan'[r][k], k)
    PROVE  ItemInv(r)'
<1>1. ASSUME NEW item, NEW k, ItemFits(r, item, k)
      PROVE  ItemFits(r, item, k)'
  <2>1. /\ Modules(r)' = Modules(r) /\ ClaimsVersion(r)' = ClaimsVersion(r)
        /\ \A part : Version(r, part)' = Version(r, part)
    BY DEF Modules, Version, ClaimsVersion
  <2> QED BY <1>1, <2>1 DEF ItemFits
<1>2. \A k \in 1 .. Len(chan[r]) : ItemFits(r, chan'[r][k], k)
    BY DEF RoleInv, ItemInv, Grew
<1>3. \A k \in 1 .. Len(chan'[r]) : ItemFits(r, chan'[r][k], k)
    BY <1>2 DEF Grew
<1>4. ASSUME NEW k \in 1 .. Len(chan'[r])
      PROVE  ItemFits(r, chan[r][k], k)'
  <2>1. PICK item : item = chan'[r][k]
    OBVIOUS
  <2>2. ItemFits(r, item, k)'
    BY <1>1, <1>3, <2>1
  <2> QED BY <2>1, <2>2
<1> QED BY <1>4 DEF ItemInv

(* What the tail held it holds; what is newly over must be there.          *)
LEMMA TailKept ==
    ASSUME TypeInv, NEW r \in Roles, RoleInv(r), Grew(r), session' = session,
           \A i \in Covered(r, "claims", PastClaims)' :
               \/ i \in Covered(r, "claims", PastClaims)
               \/ HasItem(r, "claims", Modules(r)[i].name)',
           phase'[r] \in PastTree2 => phase[r] \in PastTree2 \/ HasItem(r, "tree2", <<>>)',
           \A i \in Covered(r, "post", PastPost)' :
               \/ i \in Covered(r, "post", PastPost)
               \/ Modules(r)[i].post \notin Coprocessors
               \/ HasItem(r, "rejoin", Modules(r)[i].name)',
           phase'[r] \in PastTree3 =>
               phase[r] \in PastTree3 \/ ~HasPostColumns(r) \/ HasItem(r, "tree3", <<>>)'
    PROVE  TailInv(r)'
<1>1. Modules(r)' = Modules(r) /\ HasPostColumns(r)' = HasPostColumns(r)
    BY DEF Modules, HasPostColumns
<1>2. \A k, f : HasItem(r, k, f) => HasItem(r, k, f)'
    BY GrewKeeps
<1>3. TailInv(r)
    BY DEF RoleInv
<1> QED BY <1>1, <1>2, <1>3 DEF TailInv

(* What the handles bind they bind, when no module's draw is newly over.   *)
LEMMA HandlesKept ==
    ASSUME TypeInv, NEW r \in Roles, RoleInv(r), Grew(r), session' = session,
           handle'[r] = handle[r],
           Covered(r, "draw", PastDraw)' \subseteq Covered(r, "draw", PastDraw)
    PROVE  HandleInv(r)'
<1>1. Modules(r)' = Modules(r)
    BY DEF Modules
<1>2. \A p \in 0 .. Len(chan[r]) + 1 : \A k, f :
          BoundBefore(r, p, k, f) => BoundBefore(r, p, k, f)'
    BY GrewKeeps
<1>3. HandleInv(r)
    BY DEF RoleInv
<1>4. ASSUME NEW h \in Handles, handle[r][h] # Unset
      PROVE  /\ handle[r][h] \in 1 .. Len(chan'[r])
             /\ BoundBefore(r, handle[r][h], "tree0", <<>>)'
             /\ BoundBefore(r, handle[r][h], "tree1", <<>>)'
             /\ \A i \in DOMAIN Modules(r) :
                    BoundBefore(r, handle[r][h], "public", Modules(r)[i].name)'
  <2>1. PICK p : p = handle[r][h]
    OBVIOUS
  <2>2. p \in 1 .. Len(chan[r]) /\ p \in 0 .. Len(chan[r]) + 1 /\ p \in 1 .. Len(chan'[r])
    BY <1>3, <1>4, <2>1 DEF HandleInv, Grew
  <2>3. /\ BoundBefore(r, p, "tree0", <<>>)'
        /\ BoundBefore(r, p, "tree1", <<>>)'
        /\ \A i \in DOMAIN Modules(r) : BoundBefore(r, p, "public", Modules(r)[i].name)'
    BY <1>1, <1>2, <1>3, <1>4, <2>1, <2>2 DEF HandleInv
  <2> QED BY <2>1, <2>2, <2>3
<1> QED BY <1>1, <1>3, <1>4 DEF HandleInv

(* What the seed binds it binds while it is left alone; the MAC module may *)
(* take the published key.                                                 *)
LEMMA SeedKept ==
    ASSUME TypeInv, NEW r \in Roles, RoleInv(r), Grew(r), session' = session,
           seed'[r] = seed[r], macState'[r] = macState[r],
           av'[r] = av[r] \/ (av'[r] = macState[r] /\ macState[r] # Unset),
           phase'[r] \in BeforePost => phase[r] \in BeforePost,
           phase'[r] = "post" => phase[r] \in BeforePost \/ (phase[r] = "post" /\ at[r] <= at'[r]),
           at[r] \in Nat, at'[r] \in Nat,
           \A i \in Covered(r, "post", PastPost)' :
               \/ i \in Covered(r, "post", PastPost)
               \/ Modules(r)[i].post = "none"
               \/ Modules(r)[i].post = "mac" /\ av'[r] # Unset
    PROVE  SeedInv(r)'
<1>1. Modules(r)' = Modules(r) /\ \A names : StatementPart(r, names)' = StatementPart(r, names)
    BY DEF Modules, StatementPart
<1>2. \A p \in 0 .. Len(chan[r]) + 1 : \A k, f :
          BoundBefore(r, p, k, f) => BoundBefore(r, p, k, f)'
    BY GrewKeeps
<1>3. SeedInv(r)
    BY DEF RoleInv
<1>4. ASSUME seed[r] # Unset
      PROVE  /\ seed[r] \in 2 .. Len(chan'[r])
             /\ BoundBefore(r, seed[r], "tree1", <<>>)'
             /\ BoundBefore(r, seed[r], "tree2", <<>>)'
             /\ \A i \in DOMAIN Modules(r) :
                    BoundBefore(r, seed[r], "claims", Modules(r)[i].name)'
             /\ chan'[r][seed[r] - 1] = chan[r][seed[r] - 1]
  <2>1. PICK p : p = seed[r]
    OBVIOUS
  <2>2. p \in 2 .. Len(chan[r]) /\ p \in 0 .. Len(chan[r]) + 1 /\ p \in 2 .. Len(chan'[r])
    BY <1>3, <1>4, <2>1 DEF SeedInv, Grew
  <2>3. /\ BoundBefore(r, p, "tree1", <<>>)'
        /\ BoundBefore(r, p, "tree2", <<>>)'
        /\ \A i \in DOMAIN Modules(r) : BoundBefore(r, p, "claims", Modules(r)[i].name)'
    BY <1>1, <1>2, <1>3, <1>4, <2>1, <2>2 DEF SeedInv
  <2>4. chan'[r][p - 1] = chan[r][p - 1]
    BY <2>2 DEF Grew
  <2> QED BY <2>1, <2>2, <2>3, <2>4
<1>5. ASSUME seed[r] # Unset
      PROVE  \E i \in DOMAIN Modules(r) :
                 /\ Modules(r)[i].post \in Coprocessors
                 /\ phase'[r] = "post" => i < at'[r]
                 /\ chan'[r][seed[r] - 1] =
                        Item("projection", Modules(r)[i].name,
                             StatementPart(r, Modules(r)[i].projection))
  <2>1. PICK i \in DOMAIN Modules(r) :
            /\ Modules(r)[i].post \in Coprocessors
            /\ phase[r] = "post" => i < at[r]
            /\ chan[r][seed[r] - 1] =
                   Item("projection", Modules(r)[i].name,
                        StatementPart(r, Modules(r)[i].projection))
    BY <1>3, <1>5 DEF SeedInv
  <2>2. phase'[r] = "post" => i < at'[r]
    <3>1. DOMAIN Modules(r) = 1 .. Len(Modules(r)) /\ Len(Modules(r)) \in Nat
      BY ModuleList
    <3>2. phase[r] \notin BeforePost
      BY <1>3, <1>5 DEF SeedInv
    <3> QED BY <1>5, <2>1, <3>1, <3>2
  <2> QED BY <1>4, <1>5, <2>1, <2>2
<1>6. /\ macState[r] # Unset => macState[r] = seed[r]
      /\ av'[r] # Unset => av'[r] = seed[r]
      /\ \A i \in Covered(r, "post", PastPost)' :
             /\ Modules(r)[i].post = "bundle" => macState[r] # Unset
             /\ Modules(r)[i].post = "mac" => av'[r] # Unset
    BY <1>3 DEF SeedInv
<1>7. phase'[r] \in BeforePost => seed[r] = Unset
    BY <1>3 DEF SeedInv
<1> QED BY <1>1, <1>4, <1>5, <1>6, <1>7 DEF SeedInv

-----------------------------------------------------------------------------
(* Each absorbing operation, up to the end of tree 1.                      *)
LEMMA CommitTree0Kept ==
    ASSUME TypeInv, NEW r \in Roles, RoleInv(r), CommitTree0(r)
    PROVE  RoleInv(r)'
<1> DEFINE items == <<Item("config", <<>>, <<>>), Item("tree0", <<>>, ProofRoot(r))>>
<1>1. /\ session' = session /\ damage' = damage /\ handle' = handle /\ seed' = seed
      /\ macState' = macState /\ av' = av /\ phase[r] = "tree0" /\ phase'[r] = "public"
      /\ at'[r] = 1
    BY PhaseSteps, Moved DEF CommitTree0, NextPhase
<1>2. IsSequence(items) /\ Len(items) = 2 /\ items[1] = Item("config", <<>>, <<>>)
      /\ items[2] = Item("tree0", <<>>, ProofRoot(r))
    BY Literals
<1> HIDE DEF items
<1>3. Absorb(r, items)
    BY DEF CommitTree0, items
<1>4. /\ Grew(r) /\ Len(chan'[r]) = Len(chan[r]) + 2
      /\ chan'[r][Len(chan[r]) + 1] = items[1] /\ chan'[r][Len(chan[r]) + 2] = items[2]
  <2>1. IsSequence(items)
    BY <1>2
  <2>2. /\ Grew(r) /\ Len(chan'[r]) = Len(chan[r]) + Len(items)
        /\ \A k \in 1 .. Len(items) : chan'[r][Len(chan[r]) + k] = items[k]
    BY <2>1, <1>3, Absorbed
  <2> QED BY <1>2, <2>2
<1>5. Len(chan[r]) = 0
    BY <1>1 DEF RoleInv, HeadInv
<1>6. /\ Modules(r)' = Modules(r) /\ ProofRoot(r)' = ProofRoot(r)
      /\ Len(Modules(r)) \in Nat /\ DOMAIN Modules(r) = 1 .. Len(Modules(r))
    BY <1>1, ModuleList DEF Modules, Version, ProofRoot, Root, StatementPart
<1>7. HeadInv(r)'
    BY <1>1, <1>2, <1>4, <1>5, <1>6
       DEF HeadInv, Covered, PastTree0, PastTree1, PastPublic
<1>8. ItemInv(r)'
  <2>1. \A k \in Len(chan[r]) + 1 .. Len(chan'[r]) : chan'[r][k] \in {items[1], items[2]}
    BY <1>4, <1>5
  <2>2. \A k \in Len(chan[r]) + 1 .. Len(chan'[r]) : ItemFits(r, chan'[r][k], k)
    BY <1>2, <2>1 DEF ItemFits, Item
  <2> QED BY <1>1, <1>4, <2>2, ItemsFit
<1>9. TailInv(r)'
    BY <1>1 DEF TailInv, Covered, PastClaims, PastTree2, PastPost, PastTree3, PastDraw,
                PastTree1, PastPublic
<1>10. HandleInv(r)'
    BY <1>1, <1>4, HandlesKept DEF Covered, PastDraw, PastTree1, PastPublic
<1>11. SeedInv(r)'
    BY <1>1, <1>4, SeedKept, SMTT(30) DEF Covered, PastClaims, PastTree2, PastPost, PastDraw,
                                PastTree1, PastPublic, TypeInv, PlaceType, BeforePost
<1> QED BY <1>7, <1>8, <1>9, <1>10, <1>11 DEF RoleInv

(* The statement of one module joins the head.                             *)
LEMMA MixPublicKept ==
    ASSUME TypeInv, NEW r \in Roles, RoleInv(r), MixPublic(r)
    PROVE  RoleInv(r)'
<1> DEFINE item == PublicItem(r, at[r])
<1>1. /\ session' = session /\ damage' = damage /\ handle' = handle /\ seed' = seed
      /\ macState' = macState /\ av' = av /\ phase[r] = "public" /\ phase'[r] = "public"
      /\ at'[r] = at[r] + 1
    BY Moved DEF MixPublic
<1>3. Absorb(r, <<item>>)
    BY DEF MixPublic, PublicItem, Here
<1> HIDE DEF item
<1>4. Grew(r) /\ Len(chan'[r]) = Len(chan[r]) + 1 /\ chan'[r][Len(chan[r]) + 1] = item
    BY <1>3, AbsorbedOne
<1>5. Len(chan[r]) = at[r] + 1
    BY <1>1 DEF RoleInv, HeadInv
<1>6. /\ Modules(r)' = Modules(r) /\ ProofRoot(r)' = ProofRoot(r)
      /\ \A i : PublicItem(r, i)' = PublicItem(r, i)
      /\ Len(Modules(r)) \in Nat /\ DOMAIN Modules(r) = 1 .. Len(Modules(r))
      /\ at[r] \in 1 .. Len(Modules(r))
    BY <1>1, ModuleList DEF Modules, Version, ProofRoot, Root, StatementPart, PublicItem,
                            MixPublic, InLoop, TypeInv, PlaceType
<1>7. HeadInv(r)'
  <2>1. Len(chan'[r]) >= 2 /\ chan'[r][2] = Item("tree0", <<>>, ProofRoot(r))
    BY <1>1, <1>4, <1>5, <1>6 DEF RoleInv, HeadInv, Grew, PastTree0
  <2>2. \A i \in 1 .. at[r] : i + 2 <= Len(chan'[r]) /\ chan'[r][i + 2] = PublicItem(r, i)
    <3>1. ASSUME NEW i \in 1 .. at[r] - 1
          PROVE  i + 2 <= Len(chan'[r]) /\ chan'[r][i + 2] = PublicItem(r, i)
      <4>1. i \in Covered(r, "public", PastPublic)
        BY <1>1, <1>6 DEF Covered
      <4>2. i + 2 <= Len(chan[r]) /\ chan[r][i + 2] = PublicItem(r, i)
        BY <4>1 DEF RoleInv, HeadInv
      <4> QED BY <1>4, <4>2 DEF Grew
    <3>2. at[r] + 2 <= Len(chan'[r]) /\ chan'[r][at[r] + 2] = PublicItem(r, at[r])
      BY <1>4, <1>5, <1>6 DEF item
    <3> QED BY <1>6, <3>1, <3>2
  <2>3. \A i \in Covered(r, "public", PastPublic)' : i \in 1 .. at[r]
    BY <1>1, <1>6 DEF Covered, PastPublic
  <2> QED BY <1>1, <1>4, <1>5, <1>6, <2>1, <2>2, <2>3 DEF HeadInv, PastTree0, PastTree1, PastPublic
<1>8. ItemInv(r)'
  <2>1. ItemFits(r, item, Len(chan[r]) + 1)
    BY <1>5, <1>6 DEF ItemFits, PublicItem, Item, item
  <2> QED BY <1>1, <1>4, <2>1, ItemsFit DEF Grew
<1>9. TailInv(r)'
    BY <1>1 DEF TailInv, Covered, PastClaims, PastTree2, PastPost, PastTree3, PastDraw,
                PastTree1, PastPublic
<1>10. HandleInv(r)'
    BY <1>1, <1>4, HandlesKept DEF Covered, PastDraw, PastTree1, PastPublic
<1>11. SeedInv(r)'
    BY <1>1, <1>4, SeedKept, SMTT(30) DEF Covered, PastClaims, PastTree2, PastPost, PastDraw,
                                PastTree1, PastPublic, TypeInv, PlaceType, BeforePost
<1> QED BY <1>7, <1>8, <1>9, <1>10, <1>11 DEF RoleInv

(* Tree 1 is committed right after the public statements.                  *)
LEMMA CommitTree1Kept ==
    ASSUME TypeInv, NEW r \in Roles, RoleInv(r), CommitTree1(r)
    PROVE  RoleInv(r)'
<1> DEFINE item == Item("tree1", <<>>, Version(r, "tree1"))
<1>1. /\ session' = session /\ damage' = damage /\ handle' = handle /\ seed' = seed
      /\ macState' = macState /\ av' = av /\ phase[r] = "tree1" /\ phase'[r] = "draw"
      /\ at'[r] = 1
    BY PhaseSteps, Moved DEF CommitTree1, NextPhase
<1>3. Absorb(r, <<item>>)
    BY DEF CommitTree1
<1> HIDE DEF item
<1>4. Grew(r) /\ Len(chan'[r]) = Len(chan[r]) + 1 /\ chan'[r][Len(chan[r]) + 1] = item
    BY <1>3, AbsorbedOne
<1>5. Len(chan[r]) = Len(Modules(r)) + 2
    BY <1>1 DEF RoleInv, HeadInv
<1>6. /\ Modules(r)' = Modules(r) /\ ProofRoot(r)' = ProofRoot(r)
      /\ Version(r, "tree1")' = Version(r, "tree1")
      /\ \A i : PublicItem(r, i)' = PublicItem(r, i)
      /\ Len(Modules(r)) \in Nat /\ DOMAIN Modules(r) = 1 .. Len(Modules(r))
    BY <1>1, ModuleList DEF Modules, Version, ProofRoot, Root, StatementPart, PublicItem
<1>7. HeadInv(r)'
  <2>1. Len(chan'[r]) >= 2 /\ chan'[r][2] = Item("tree0", <<>>, ProofRoot(r))
    BY <1>1, <1>4, <1>5, <1>6 DEF RoleInv, HeadInv, Grew, PastTree0, PastPublic
  <2>2. \A i \in DOMAIN Modules(r) : i + 2 <= Len(chan'[r]) /\ chan'[r][i + 2] = PublicItem(r, i)
    <3>1. ASSUME NEW i \in DOMAIN Modules(r)
          PROVE  i + 2 <= Len(chan'[r]) /\ chan'[r][i + 2] = PublicItem(r, i)
      <4>1. i \in Covered(r, "public", PastPublic)
        BY <1>1, <3>1 DEF Covered, PastPublic
      <4>2. i + 2 <= Len(chan[r]) /\ chan[r][i + 2] = PublicItem(r, i)
        BY <4>1 DEF RoleInv, HeadInv
      <4> QED BY <1>4, <1>6, <4>2 DEF Grew
    <3> QED BY <3>1
  <2>3. \A i \in Covered(r, "public", PastPublic)' : i \in DOMAIN Modules(r)
    BY <1>6 DEF Covered
  <2>4. chan'[r][Len(Modules(r)) + 3] = item
    BY <1>4, <1>5, <1>6
  <2> QED BY <1>1, <1>4, <1>5, <1>6, <2>1, <2>2, <2>3, <2>4
          DEF HeadInv, PastTree0, PastTree1, PastPublic, item
<1>8. ItemInv(r)'
  <2>1. ItemFits(r, item, Len(chan[r]) + 1)
    BY <1>5, <1>6 DEF ItemFits, Item, item
  <2> QED BY <1>1, <1>4, <2>1, ItemsFit DEF Grew
<1>9. TailInv(r)'
    BY <1>1 DEF TailInv, Covered, PastClaims, PastTree2, PastPost, PastTree3, PastDraw,
                PastTree1, PastPublic
<1>10. HandleInv(r)'
  <2>1. Covered(r, "draw", PastDraw)' = {}
    BY <1>1, <1>6 DEF Covered, PastDraw, PastTree1, PastPublic
  <2> QED BY <1>1, <1>4, <2>1, HandlesKept
<1>11. SeedInv(r)'
    BY <1>1, <1>4, SeedKept DEF Covered, PastClaims, PastTree2, PastPost, PastDraw,
                                PastTree1, PastPublic, TypeInv, PlaceType, BeforePost
<1> QED BY <1>7, <1>8, <1>9, <1>10, <1>11 DEF RoleInv

(* A challenge drawn after tree 1 binds trees 0 and 1 and every module's   *)
(* public statement.                                                       *)
LEMMA DrawnBinds ==
    ASSUME TypeInv, NEW r \in Roles, HeadInv(r), phase[r] \in PastTree1,
           NEW p \in Nat, p > Len(Modules(r)) + 3
    PROVE  /\ BoundBefore(r, p, "tree0", <<>>)
           /\ BoundBefore(r, p, "tree1", <<>>)
           /\ \A i \in DOMAIN Modules(r) : BoundBefore(r, p, "public", Modules(r)[i].name)
<1>1. Len(Modules(r)) \in Nat /\ DOMAIN Modules(r) = 1 .. Len(Modules(r))
    BY ModuleList
<1>2. BoundBefore(r, p, "tree0", <<>>)
  <2>1. chan[r][2] = Item("tree0", <<>>, ProofRoot(r)) /\ 2 \in 1 .. p - 1
    BY <1>1 DEF HeadInv, PastTree0, PastTree1
  <2> QED BY <2>1 DEF BoundBefore, Item
<1>3. BoundBefore(r, p, "tree1", <<>>)
  <2>1. /\ chan[r][Len(Modules(r)) + 3] = Item("tree1", <<>>, Version(r, "tree1"))
        /\ Len(Modules(r)) + 3 \in 1 .. p - 1
    BY <1>1 DEF HeadInv
  <2> QED BY <2>1 DEF BoundBefore, Item
<1>4. ASSUME NEW i \in DOMAIN Modules(r)
      PROVE  BoundBefore(r, p, "public", Modules(r)[i].name)
  <2>1. i \in Covered(r, "public", PastPublic)
    BY DEF Covered, PastTree1
  <2>2. chan[r][i + 2] = PublicItem(r, i) /\ i + 2 \in 1 .. p - 1
    BY <1>1, <2>1 DEF HeadInv
  <2> QED BY <2>2 DEF BoundBefore, PublicItem, Item
<1> QED BY <1>2, <1>3, <1>4

(* A module's relations are drawn where the draw binds, and a module that  *)
(* has drawn has set what it hands out.                                    *)
LEMMA DrawRelationsKept ==
    ASSUME TypeInv, NEW r \in Roles, RoleInv(r), DrawRelations(r)
    PROVE  RoleInv(r)'
<1> DEFINE items == IF Here(r).draws THEN <<Draw>> ELSE <<>>
<1>1. /\ session' = session /\ damage' = damage /\ seed' = seed /\ macState' = macState
      /\ av' = av /\ phase[r] = "draw" /\ at[r] \in DOMAIN Modules(r)
      /\ Modules(r)' = Modules(r)
      /\ Len(Modules(r)) \in Nat /\ DOMAIN Modules(r) = 1 .. Len(Modules(r))
    BY ModuleList DEF DrawRelations, Modules, InLoop, TypeInv, PlaceType
<1>2. \/ phase'[r] = "draw" /\ at'[r] = at[r] + 1 /\ Absorb(r, items)
             /\ handle' = [handle EXCEPT ![r] =
                    [h \in Handles |->
                        IF h \in Here(r).sets THEN Len(chan'[r]) ELSE handle[r][h]]]
      \/ phase'[r] = "panicked" /\ chan' = chan /\ handle' = handle
  <2>1. CASE CanRead(r, Here(r).early)
    BY <1>1, <2>1, Moved DEF DrawRelations
  <2>2. CASE ~CanRead(r, Here(r).early)
    BY <1>1, <2>2, Moved DEF DrawRelations
  <2> QED BY <2>1, <2>2
<1>3. /\ IsSequence(items) /\ Len(items) \in {0, 1}
      /\ Here(r).draws => Len(items) = 1
      /\ \A k \in 1 .. Len(items) : items[k] = Draw
  <2>1. CASE Here(r).draws
    <3>1. items = <<Draw>>
      BY <2>1
    <3>2. IsSequence(<<Draw>>) /\ Len(<<Draw>>) = 1 /\ <<Draw>>[1] = Draw
      BY Literals
    <3> QED BY <2>1, <3>1, <3>2
  <2>2. CASE ~Here(r).draws
    <3>1. items = <<>>
      BY <2>2
    <3>2. IsSequence(<<>>) /\ Len(<<>>) = 0
      BY Literals
    <3> QED BY <2>2, <3>1, <3>2
  <2> QED BY <2>1, <2>2
<1> HIDE DEF items
<1>4. /\ Grew(r)
      /\ \A k \in Len(chan[r]) + 1 .. Len(chan'[r]) : chan'[r][k] = Draw
      /\ phase'[r] = "draw" => Len(chan'[r]) = Len(chan[r]) + Len(items)
  <2>1. CASE Absorb(r, items)
    <3>1. IsSequence(items)
      BY <1>3
    <3>2. /\ Grew(r) /\ Len(chan'[r]) = Len(chan[r]) + Len(items)
          /\ \A k \in 1 .. Len(items) : chan'[r][Len(chan[r]) + k] = items[k]
      BY <2>1, <3>1, Absorbed
    <3>3. \A k \in Len(chan[r]) + 1 .. Len(chan'[r]) :
              k = Len(chan[r]) + 1 /\ chan'[r][k] = items[1] /\ 1 \in 1 .. Len(items)
      BY <1>3, <3>2, SMTT(30) DEF Grew
    <3> QED BY <1>3, <3>2, <3>3
  <2>2. CASE chan' = chan /\ phase'[r] = "panicked"
    <3>1. Len(chan[r]) \in Nat
      BY LenProperties DEF TypeInv, ChanType, IsSequence
    <3> QED BY <2>2, <3>1 DEF Grew
  <2> QED BY <1>2, <2>1, <2>2
<1>5. phase[r] \in PastTree1 /\ phase'[r] \in PastTree1 \cup {"panicked", "rejected"}
    BY <1>1, <1>2 DEF PastTree1, PastPublic
<1>6. HeadInv(r)'
    BY <1>1, <1>4, <1>5, HeadKept
<1>7. ItemInv(r)'
    BY <1>1, <1>4, ItemsFit DEF ItemFits, Draw, Item
<1>8. TailInv(r)'
    BY <1>1, <1>2 DEF TailInv, Covered, PastClaims, PastTree2, PastPost, PastTree3, PastDraw,
                      PastTree1, PastPublic
<1>9. HandleInv(r)'
  <2>1. CASE phase'[r] = "panicked"
    <3>1. Covered(r, "draw", PastDraw)' = {}
      BY <1>1, <2>1 DEF Covered, PastDraw, PastTree1, PastPublic
    <3> QED BY <1>1, <1>2, <1>4, <2>1, <3>1, HandlesKept
  <2>2. CASE phase'[r] = "draw"
    <3>0. PICK p \in Nat : p = Len(chan[r]) + 1
      BY <1>4 DEF Grew
    <3>1. /\ HandleInv(r) /\ HeadInv(r) /\ Len(chan[r]) \in Nat
          /\ Len(chan[r]) >= Len(Modules(r)) + 3
      BY <1>4, <1>5 DEF RoleInv, HeadInv, Grew
    <3>2. /\ BoundBefore(r, p, "tree0", <<>>)' /\ BoundBefore(r, p, "tree1", <<>>)'
          /\ \A i \in DOMAIN Modules(r) : BoundBefore(r, p, "public", Modules(r)[i].name)'
      <4>1. p \in 0 .. Len(chan[r]) + 1 /\ p \in Nat /\ p > Len(Modules(r)) + 3
        BY <1>1, <3>0, <3>1
      <4>2. /\ BoundBefore(r, p, "tree0", <<>>) /\ BoundBefore(r, p, "tree1", <<>>)
            /\ \A i \in DOMAIN Modules(r) : BoundBefore(r, p, "public", Modules(r)[i].name)
        BY <1>5, <3>1, <4>1, DrawnBinds
      <4>3. \A k, f : BoundBefore(r, p, k, f) => BoundBefore(r, p, k, f)'
        BY <1>4, <4>1, GrewKeeps
      <4> QED BY <1>1, <4>2, <4>3
    <3>3. ASSUME NEW h \in Here(r).sets
           PROVE  Len(chan'[r]) = p
      <4>1. session \in Sessions
        BY DEF TypeInv
      <4>2. Here(r).draws
        BY <1>1, <3>3, <4>1, ModulesAssumption DEF Here, Modules
      <4> QED BY <1>3, <1>4, <2>2, <3>0, <4>2
    <3>4. \A h \in Handles :
              handle'[r][h] = IF h \in Here(r).sets THEN p ELSE handle[r][h]
      <4>2. handle \in [Roles -> [Handles -> Nat]]
        BY DEF TypeInv, StoreType
      <4>3. handle' = [handle EXCEPT ![r] =
                    [h \in Handles |->
                        IF h \in Here(r).sets THEN Len(chan'[r]) ELSE handle[r][h]]]
        BY <1>2, <2>2
      <4> QED BY <3>3, <4>2, <4>3
    <3>5. ASSUME NEW h \in Handles, handle'[r][h] # Unset
          PROVE  /\ handle'[r][h] \in 1 .. Len(chan'[r])
                 /\ BoundBefore(r, handle[r][h], "tree0", <<>>)'
                 /\ BoundBefore(r, handle[r][h], "tree1", <<>>)'
                 /\ \A i \in DOMAIN Modules(r) :
                        BoundBefore(r, handle[r][h], "public", Modules(r)[i].name)'
      <4>1. PICK q : q = handle'[r][h]
        OBVIOUS
      <4>2. CASE h \in Here(r).sets
        <5>1. q = p
          BY <3>4, <4>1, <4>2
        <5>2. p \in 1 .. Len(chan'[r])
          BY <3>0, <3>1, <3>3, <4>2
        <5> QED BY <3>2, <4>1, <5>1, <5>2
      <4>3. CASE h \notin Here(r).sets
        <5>1. q = handle[r][h] /\ q # Unset
          BY <3>4, <3>5, <4>1, <4>3
        <5>2. q \in 1 .. Len(chan[r]) /\ q \in 0 .. Len(chan[r]) + 1 /\ q \in 1 .. Len(chan'[r])
          BY <1>4, <3>1, <5>1 DEF HandleInv, Grew
        <5>3. /\ BoundBefore(r, q, "tree0", <<>>) /\ BoundBefore(r, q, "tree1", <<>>)
              /\ \A i \in DOMAIN Modules(r) : BoundBefore(r, q, "public", Modules(r)[i].name)
          BY <3>1, <5>1 DEF HandleInv
        <5>4. \A k, f : BoundBefore(r, q, k, f) => BoundBefore(r, q, k, f)'
          BY <1>4, <5>2, GrewKeeps
        <5>5. /\ BoundBefore(r, q, "tree0", <<>>)' /\ BoundBefore(r, q, "tree1", <<>>)'
              /\ \A i \in DOMAIN Modules(r) : BoundBefore(r, q, "public", Modules(r)[i].name)'
          BY <1>1, <5>3, <5>4
        <5> QED BY <4>1, <5>2, <5>5
      <4> QED BY <4>2, <4>3
    <3>6. ASSUME NEW i \in Covered(r, "draw", PastDraw)', NEW h \in Modules(r)[i].sets
          PROVE  h \in Handles => handle'[r][h] # Unset
      <4>1. i \in Covered(r, "draw", PastDraw) \/ i = at[r]
        BY <1>1, <1>2, <2>2, <3>6 DEF Covered, PastDraw, PastTree1, PastPublic, TypeInv, PlaceType
      <4>2. CASE i = at[r]
        BY <3>0, <3>1, <3>4, <3>6, <4>2 DEF Here, Unset
      <4>3. CASE i \in Covered(r, "draw", PastDraw)
        <5>1. handle[r][h] # Unset
          BY <3>1, <3>6, <4>3 DEF HandleInv
        <5> QED BY <3>0, <3>1, <3>4, <5>1 DEF Unset
      <4> QED BY <4>1, <4>2, <4>3
    <3>7. \A i \in DOMAIN Modules(r) : Modules(r)[i].sets \subseteq Handles
      BY ModuleList DEF Module
    <3>8. \A i \in Covered(r, "draw", PastDraw)' : i \in DOMAIN Modules(r)
      BY <1>1 DEF Covered
    <3> QED BY <1>1, <3>5, <3>6, <3>7, <3>8 DEF HandleInv
  <2> QED BY <1>2, <2>1, <2>2
<1>10. SeedInv(r)'
  <2>1. at[r] \in Nat /\ at'[r] \in Nat
    BY StepType DEF Step, TypeInv, PlaceType
  <2>2. phase'[r] # "post" /\ Covered(r, "post", PastPost)' = {}
    BY <1>1, <1>2 DEF Covered, PastClaims, PastTree2, PastPost, PastDraw, PastTree1, PastPublic
  <2>3. phase[r] \in BeforePost
    BY <1>1 DEF BeforePost
  <2> QED BY <1>1, <1>4, <2>1, <2>2, <2>3, SeedKept
<1> QED BY <1>6, <1>7, <1>8, <1>9, <1>10 DEF RoleInv

-----------------------------------------------------------------------------
(* The absorbing operations after the draws.                               *)
(*                                                                         *)
(* The claimed sums of one module join the tail.                           *)
LEMMA MixClaimedSumsKept ==
    ASSUME TypeInv, NEW r \in Roles, RoleInv(r), MixClaimedSums(r)
    PROVE  RoleInv(r)'
<1> DEFINE item == Item("claims", Here(r).name, ClaimsVersion(r))
<1>1. /\ session' = session /\ damage' = damage /\ handle' = handle /\ seed' = seed
      /\ macState' = macState /\ av' = av /\ phase[r] = "claims" /\ phase'[r] = "claims"
      /\ at'[r] = at[r] + 1
    BY Moved DEF MixClaimedSums
<1>2. Absorb(r, <<item>>)
    BY DEF MixClaimedSums
<1> HIDE DEF item
<1>3. Grew(r) /\ Len(chan'[r]) = Len(chan[r]) + 1 /\ chan'[r][Len(chan[r]) + 1] = item
    BY <1>2, AbsorbedOne
<1>4. /\ Modules(r)' = Modules(r) /\ Len(Modules(r)) \in Nat
      /\ DOMAIN Modules(r) = 1 .. Len(Modules(r)) /\ at[r] \in Nat /\ at'[r] \in Nat
    BY <1>1, ModuleList DEF Modules, TypeInv, PlaceType
<1>5. HeadInv(r)'
    BY <1>1, <1>3, HeadKept DEF PastTree1, PastPublic
<1>6. ItemInv(r)'
  <2>1. ItemFits(r, item, Len(chan[r]) + 1)
    BY DEF ItemFits, Item, item
  <2> QED BY <1>1, <1>3, <2>1, ItemsFit DEF Grew
<1>7. TailInv(r)'
  <2>0. PICK n : n = at[r]
    OBVIOUS
  <2>1. \A i \in Covered(r, "claims", PastClaims)' : i \in Covered(r, "claims", PastClaims) \/ i = n
    BY <1>1, <1>4, <2>0 DEF Covered, PastClaims, PastDraw, PastTree1, PastPublic
  <2>2. HasItem(r, "claims", Modules(r)[n].name)'
    BY <1>3, <1>4, <2>0, SMTT(30) DEF HasItem, item, Item, Grew, Here
  <2>3. phase'[r] \notin PastTree2 /\ phase'[r] \notin PastTree3 /\ Covered(r, "post", PastPost)' = {}
    BY <1>1 DEF Covered, PastTree2, PastTree3, PastPost, PastClaims, PastDraw, PastTree1, PastPublic
  <2> QED BY <1>1, <1>3, <2>1, <2>2, <2>3, TailKept
<1>8. HandleInv(r)'
  <2>1. Covered(r, "draw", PastDraw)' \subseteq Covered(r, "draw", PastDraw)
    BY <1>1, <1>4 DEF Covered, PastDraw, PastTree1, PastPublic
  <2> QED BY <1>1, <1>3, <2>1, HandlesKept
<1>9. SeedInv(r)'
  <2>1. Covered(r, "post", PastPost)' = {}
    BY <1>1 DEF Covered, PastTree2, PastPost, PastClaims, PastDraw, PastTree1, PastPublic
  <2> QED BY <1>1, <1>3, <1>4, <2>1, SeedKept DEF BeforePost
<1> QED BY <1>5, <1>6, <1>7, <1>8, <1>9 DEF RoleInv

(* Tree 2 joins the tail.                                                  *)
LEMMA CommitTree2Kept ==
    ASSUME TypeInv, NEW r \in Roles, RoleInv(r), CommitTree2(r)
    PROVE  RoleInv(r)'
<1> DEFINE item == Item("tree2", <<>>, Version(r, "tree2"))
<1>1. /\ session' = session /\ damage' = damage /\ handle' = handle /\ seed' = seed
      /\ macState' = macState /\ av' = av /\ phase[r] = "tree2" /\ phase'[r] = "post"
      /\ at'[r] = 1
    BY PhaseSteps, Moved DEF CommitTree2, NextPhase
<1>2. Absorb(r, <<item>>)
    BY DEF CommitTree2
<1> HIDE DEF item
<1>3. Grew(r) /\ Len(chan'[r]) = Len(chan[r]) + 1 /\ chan'[r][Len(chan[r]) + 1] = item
    BY <1>2, AbsorbedOne
<1>4. /\ Modules(r)' = Modules(r) /\ Len(Modules(r)) \in Nat
      /\ DOMAIN Modules(r) = 1 .. Len(Modules(r)) /\ at[r] \in Nat
    BY <1>1, ModuleList DEF Modules, TypeInv, PlaceType
<1>5. HeadInv(r)'
    BY <1>1, <1>3, HeadKept DEF PastTree1, PastPublic
<1>6. ItemInv(r)'
  <2>1. ItemFits(r, item, Len(chan[r]) + 1)
    BY DEF ItemFits, Item, item
  <2> QED BY <1>1, <1>3, <2>1, ItemsFit DEF Grew
<1>7. TailInv(r)'
  <2>1. HasItem(r, "tree2", <<>>)'
    BY <1>3 DEF HasItem, item, Item, Grew
  <2>2. \A i \in Covered(r, "claims", PastClaims)' : i \in Covered(r, "claims", PastClaims)
    BY <1>1, <1>4 DEF Covered, PastClaims, PastDraw, PastTree1, PastPublic
  <2>3. phase'[r] \notin PastTree3 /\ Covered(r, "post", PastPost)' = {}
    BY <1>1, <1>4 DEF Covered, PastTree2, PastTree3, PastPost, PastClaims, PastDraw, PastTree1,
                      PastPublic
  <2> QED BY <1>1, <1>3, <2>1, <2>2, <2>3, TailKept
<1>8. HandleInv(r)'
  <2>1. Covered(r, "draw", PastDraw)' \subseteq Covered(r, "draw", PastDraw)
    BY <1>1, <1>4 DEF Covered, PastDraw, PastTree1, PastPublic
  <2> QED BY <1>1, <1>3, <2>1, HandlesKept
<1>9. SeedInv(r)'
  <2>1. Covered(r, "post", PastPost)' = {}
    BY <1>1, <1>4 DEF Covered, PastTree2, PastPost, PastClaims, PastDraw, PastTree1, PastPublic
  <2> QED BY <1>1, <1>3, <1>4, <2>1, SeedKept DEF BeforePost
<1> QED BY <1>5, <1>6, <1>7, <1>8, <1>9 DEF RoleInv

(* The common case of the coprocessor's three items.                       *)
LEMMA AbsorbedThree ==
    ASSUME TypeInv, NEW r \in Roles, NEW x, NEW y, NEW z, Absorb(r, <<x, y, z>>)
    PROVE  /\ Grew(r)
           /\ Len(chan'[r]) = Len(chan[r]) + 3
           /\ chan'[r][Len(chan[r]) + 1] = x
           /\ chan'[r][Len(chan[r]) + 2] = y
           /\ chan'[r][Len(chan[r]) + 3] = z
<1> DEFINE items == <<x, y, z>>
<1>1. IsSequence(items)
    BY Literals
<1>2. Len(items) = 3 /\ items[1] = x /\ items[2] = y /\ items[3] = z
    BY Literals
<1>3. Absorb(r, items)
    OBVIOUS
<1> HIDE DEF items
<1>4. /\ Grew(r) /\ Len(chan'[r]) = Len(chan[r]) + Len(items)
      /\ \A k \in 1 .. Len(items) : chan'[r][Len(chan[r]) + k] = items[k]
    BY <1>1, <1>3, Absorbed
<1> QED BY <1>2, <1>4

(* The seed is drawn once, after everything it must bind and right after   *)
(* the projection.                                                         *)
LEMMA CoprocessorKept ==
    ASSUME TypeInv, NEW r \in Roles, RoleInv(r), Coprocessor(r)
    PROVE  RoleInv(r)'
<1> DEFINE projection ==
               Item("projection", Here(r).name, StatementPart(r, Here(r).projection))
           rejoin == Item("rejoin", Here(r).name, Version(r, "bundle"))
<1>1. /\ session' = session /\ damage' = damage /\ handle' = handle /\ av' = av
      /\ phase[r] = "post" /\ Here(r).post \in Coprocessors
      /\ \/ phase'[r] = "post" /\ at'[r] = at[r] + 1
         \/ phase'[r] = "rejected"
  <2>1. NextModule(r) \/ GoTo(r, "rejected")
    BY DEF Coprocessor
  <2> QED BY <2>1, Moved DEF Coprocessor
<1>2. Absorb(r, <<projection, Draw, rejoin>>)
    BY DEF Coprocessor
<1>3. /\ Grew(r) /\ Len(chan'[r]) = Len(chan[r]) + 3
      /\ chan'[r][Len(chan[r]) + 1] = projection /\ chan'[r][Len(chan[r]) + 2] = Draw
      /\ chan'[r][Len(chan[r]) + 3] = rejoin
    BY <1>2, AbsorbedThree
<1>4. /\ Modules(r)' = Modules(r) /\ Len(Modules(r)) \in Nat
      /\ DOMAIN Modules(r) = 1 .. Len(Modules(r)) /\ at[r] \in Nat /\ at'[r] \in Nat
      /\ at[r] \in DOMAIN Modules(r)
      /\ \A names : StatementPart(r, names)' = StatementPart(r, names)
  <2>1. at'[r] \in Nat
    BY StepType DEF Step, TypeInv, PlaceType
  <2> QED BY <1>1, <2>1, ModuleList DEF Modules, TypeInv, PlaceType, Coprocessor, InLoop, StatementPart
<1>5. PICK n \in Nat : n = Len(chan[r])
    BY <1>3 DEF Grew
<1>6. PICK m \in DOMAIN Modules(r) : m = at[r]
    BY <1>4
<1>7. HeadInv(r)'
    BY <1>1, <1>3, HeadKept DEF PastTree1, PastPublic
<1>8. ItemInv(r)'
  <2>1. \A k \in Len(chan[r]) + 1 .. Len(chan'[r]) : chan'[r][k] \in {projection, Draw, rejoin}
    BY <1>3 DEF Grew
  <2>2. \A k : ItemFits(r, projection, k) /\ ItemFits(r, Draw, k) /\ ItemFits(r, rejoin, k)
    BY DEF ItemFits, Item, Draw
  <2> QED BY <1>1, <1>3, <2>1, <2>2, ItemsFit
<1> HIDE DEF projection
<1>9. TailInv(r)'
  <2>1. HasItem(r, "rejoin", Modules(r)[m].name)'
    <3>1. n + 3 \in 1 .. Len(chan'[r]) /\ chan'[r][n + 3] = rejoin
      BY <1>3, <1>5
    <3>2. rejoin.kind = "rejoin" /\ rejoin.from = Modules(r)[m].name
      BY <1>6 DEF Item, Here
    <3> HIDE DEF rejoin
    <3> QED BY <1>4, <3>1, <3>2 DEF HasItem
  <2>2. \A i \in Covered(r, "post", PastPost)' : i \in Covered(r, "post", PastPost) \/ i = m
    BY <1>1, <1>4, <1>6
       DEF Covered, PastTree2, PastPost, PastClaims, PastDraw, PastTree1, PastPublic
  <2>3. /\ \A i \in Covered(r, "claims", PastClaims)' : i \in Covered(r, "claims", PastClaims)
        /\ phase'[r] \notin PastTree3 /\ (phase'[r] \in PastTree2 => phase[r] \in PastTree2)
    BY <1>1, <1>4
       DEF Covered, PastTree3, PastTree2, PastPost, PastClaims, PastDraw, PastTree1, PastPublic
  <2> QED BY <1>1, <1>3, <2>1, <2>2, <2>3, TailKept
<1>10. HandleInv(r)'
  <2>1. Covered(r, "draw", PastDraw)' \subseteq Covered(r, "draw", PastDraw)
    BY <1>1, <1>4 DEF Covered, PastDraw, PastTree1, PastPublic
  <2> QED BY <1>1, <1>3, <2>1, HandlesKept
<1>11. SeedInv(r)'
  <2>1. seed[r] = Unset /\ macState[r] = Unset /\ av[r] = Unset
    <3>1. ASSUME seed[r] # Unset
          PROVE  FALSE
      <4>1. PICK i \in DOMAIN Modules(r) : Modules(r)[i].post \in Coprocessors /\ i < at[r]
        BY <1>1, <3>1 DEF RoleInv, SeedInv
      <4>2. OneCoprocessor(Modules(r))
        BY CoprocessorAssumption DEF TypeInv, Modules
      <4>3. i = at[r]
        BY <1>1, <1>4, <4>1, <4>2 DEF OneCoprocessor, Here
      <4> QED BY <1>4, <4>1, <4>3
    <3> QED BY <3>1 DEF RoleInv, SeedInv
  <2>2. seed'[r] = n + 2 /\ (macState'[r] = n + 2 \/ macState'[r] = Unset)
    <3>1. seed \in [Roles -> Nat] /\ macState \in [Roles -> Nat]
      BY DEF TypeInv, StoreType
    <3>2. seed' = [seed EXCEPT ![r] = n + 2]
      BY <1>5 DEF Coprocessor
    <3>3. macState' = [macState EXCEPT ![r] = n + 2] \/ macState' = macState
      BY <1>5 DEF Coprocessor
    <3> QED BY <2>1, <3>1, <3>2, <3>3
  <2>3. /\ BoundBefore(r, n + 2, "tree1", <<>>)'
        /\ BoundBefore(r, n + 2, "tree2", <<>>)'
        /\ \A i \in DOMAIN Modules(r) : BoundBefore(r, n + 2, "claims", Modules(r)[i].name)'
    <3>1. ASSUME NEW k, NEW f, HasItem(r, k, f)
          PROVE  BoundBefore(r, n + 2, k, f)'
      BY <1>3, <1>5, <3>1, SMTT(30) DEF HasItem, BoundBefore, Grew
    <3>2. HasItem(r, "tree1", <<>>)
      <4>1. /\ chan[r][Len(Modules(r)) + 3] = Item("tree1", <<>>, Version(r, "tree1"))
            /\ Len(Modules(r)) + 3 \in 1 .. Len(chan[r])
        BY <1>1, <1>3, <1>4 DEF RoleInv, HeadInv, PastTree1, PastPublic, Grew
      <4> QED BY <4>1 DEF HasItem, Item
    <3>3. HasItem(r, "tree2", <<>>)
      BY <1>1 DEF RoleInv, TailInv, PastTree2, PastClaims, PastDraw, PastTree1, PastPublic
    <3>4. \A i \in DOMAIN Modules(r) : HasItem(r, "claims", Modules(r)[i].name)
      BY <1>1 DEF RoleInv, TailInv, Covered, PastClaims, PastDraw, PastTree1, PastPublic
    <3> QED BY <1>4, <3>1, <3>2, <3>3, <3>4
  <2>4. chan'[r][n + 1] =
            Item("projection", Modules(r)[m].name, StatementPart(r, Modules(r)[m].projection))
    BY <1>3, <1>5, <1>6 DEF projection, Here
  <2>5. \A i \in Covered(r, "post", PastPost)' :
            /\ Modules(r)[i].post = "bundle" => macState'[r] # Unset
            /\ Modules(r)[i].post = "mac" => av'[r] # Unset
    <3>1. CASE phase'[r] = "rejected"
      BY <1>1, <3>1
         DEF Covered, PastTree2, PastPost, PastClaims, PastDraw, PastTree1, PastPublic
    <3>2. CASE phase'[r] = "post" /\ at'[r] = at[r] + 1
      <4>1. \A i \in Covered(r, "post", PastPost)' : i \in Covered(r, "post", PastPost) \/ i = at[r]
        BY <1>1, <1>4, <3>2
           DEF Covered, PastTree2, PastPost, PastClaims, PastDraw, PastTree1, PastPublic
      <4>2. Here(r).post = "bundle" => macState'[r] = n + 2
        <5>1. macState \in [Roles -> Nat]
          BY DEF TypeInv, StoreType
        <5>2. phase'[r] # "rejected"
          BY <3>2
        <5> QED BY <1>5, <5>1, <5>2, Moved DEF Coprocessor
      <4>3. Here(r).post # "mac"
        BY <1>1 DEF Coprocessors
      <4>4. \A i \in Covered(r, "post", PastPost) :
                Modules(r)[i].post # "bundle" /\ Modules(r)[i].post # "mac"
        BY <2>1 DEF RoleInv, SeedInv
      <4> QED BY <4>1, <4>2, <4>3, <4>4 DEF Here, Unset
    <3> QED BY <1>1, <3>1, <3>2
  <2>6. m \in DOMAIN Modules(r) /\ Modules(r)[m].post \in Coprocessors /\ (phase'[r] = "post" => m < at'[r])
    BY <1>1, <1>4, <1>6 DEF Here
  <2>7. phase'[r] \notin BeforePost
    BY <1>1 DEF BeforePost
  <2>8. n + 2 \in 2 .. Len(chan'[r])
    BY <1>3, <1>5
  <2>9. PICK p : p = n + 2 /\ p - 1 = n + 1
    OBVIOUS
  <2>10. /\ seed'[r] = p /\ p \in 2 .. Len(chan'[r])
         /\ BoundBefore(r, p, "tree1", <<>>)'
         /\ BoundBefore(r, p, "tree2", <<>>)'
         /\ \A i \in DOMAIN Modules(r) : BoundBefore(r, p, "claims", Modules(r)[i].name)'
         /\ chan'[r][p - 1] =
                Item("projection", Modules(r)[m].name, StatementPart(r, Modules(r)[m].projection))
    BY <2>2, <2>3, <2>4, <2>8, <2>9
  <2> QED BY <1>1, <1>4, <2>1, <2>2, <2>5, <2>6, <2>7, <2>9, <2>10 DEF SeedInv
<1> QED BY <1>7, <1>8, <1>9, <1>10, <1>11 DEF RoleInv

(* The MAC module takes the published key, or ends the run.                *)
LEMMA MacPostInteractionKept ==
    ASSUME TypeInv, NEW r \in Roles, RoleInv(r), MacPostInteraction(r)
    PROVE  RoleInv(r)'
<1> DEFINE item == Item("av", Here(r).name, macState[r])
<1>1. /\ session' = session /\ damage' = damage /\ handle' = handle /\ seed' = seed
      /\ macState' = macState /\ phase[r] = "post" /\ Here(r).post = "mac"
      /\ at[r] \in DOMAIN Modules(r)
    BY ModuleList DEF MacPostInteraction, TypeInv, PlaceType, InLoop
<1>2. \/ /\ phase'[r] = "post" /\ at'[r] = at[r] + 1 /\ Absorb(r, <<item>>)
         /\ macState[r] # Unset /\ av'[r] = macState[r]
      \/ /\ phase'[r] \in {"panicked", "rejected"} /\ chan' = chan /\ av' = av
  <2>1. av \in [Roles -> Nat]
    BY DEF TypeInv, StoreType
  <2>2. CASE macState[r] # Unset
    BY <1>1, <2>1, <2>2, Moved DEF MacPostInteraction
  <2>3. CASE macState[r] = Unset
    BY <1>1, <2>3, Moved DEF MacPostInteraction
  <2> QED BY <2>2, <2>3
<1> HIDE DEF item
<1>3. /\ Modules(r)' = Modules(r) /\ Len(Modules(r)) \in Nat
      /\ DOMAIN Modules(r) = 1 .. Len(Modules(r)) /\ at[r] \in Nat /\ at'[r] \in Nat
  <2>1. at'[r] \in Nat
    BY StepType DEF Step, TypeInv, PlaceType
  <2> QED BY <1>1, <2>1, ModuleList DEF Modules, TypeInv, PlaceType
<1>4. Grew(r) /\ \A k \in Len(chan[r]) + 1 .. Len(chan'[r]) : chan'[r][k] = item
  <2>1. CASE Absorb(r, <<item>>)
    BY <2>1, AbsorbedOne DEF Grew
  <2>2. CASE chan' = chan
    <3>1. Len(chan[r]) \in Nat
      BY LenProperties DEF TypeInv, ChanType, IsSequence
    <3> QED BY <2>2, <3>1 DEF Grew
  <2> QED BY <1>2, <2>1, <2>2
<1>5. HeadInv(r)'
    BY <1>1, <1>2, <1>4, HeadKept DEF PastTree1, PastPublic
<1>6. ItemInv(r)'
  <2>1. \A k : ItemFits(r, item, k)
    BY DEF ItemFits, Item, item
  <2> QED BY <1>1, <1>4, <2>1, ItemsFit
<1>7. \A i \in Covered(r, "post", PastPost)' : i \in Covered(r, "post", PastPost)
                                                   \/ (Modules(r)[i].post = "mac" /\ av'[r] # Unset)
    BY <1>1, <1>2, <1>3
       DEF Covered, PastTree2, PastPost, PastClaims, PastDraw, PastTree1, PastPublic, Here
<1>8. TailInv(r)'
  <2>1. /\ \A i \in Covered(r, "claims", PastClaims)' : i \in Covered(r, "claims", PastClaims)
        /\ phase'[r] \notin PastTree3 /\ (phase'[r] \in PastTree2 => phase[r] \in PastTree2)
    BY <1>1, <1>2, <1>3
       DEF Covered, PastTree3, PastTree2, PastPost, PastClaims, PastDraw, PastTree1, PastPublic
  <2> QED BY <1>1, <1>4, <1>7, <2>1, TailKept DEF Coprocessors
<1>9. HandleInv(r)'
  <2>1. Covered(r, "draw", PastDraw)' \subseteq Covered(r, "draw", PastDraw)
    BY <1>1, <1>2, <1>3 DEF Covered, PastDraw, PastTree1, PastPublic
  <2> QED BY <1>1, <1>4, <2>1, HandlesKept
<1>10. SeedInv(r)'
    BY <1>1, <1>2, <1>3, <1>4, <1>7, SeedKept DEF BeforePost
<1> QED BY <1>5, <1>6, <1>8, <1>9, <1>10 DEF RoleInv

(* Tree 3 joins the tail when some module has columns in it.               *)
LEMMA CommitTree3Kept ==
    ASSUME TypeInv, NEW r \in Roles, RoleInv(r), CommitTree3(r)
    PROVE  RoleInv(r)'
<1> DEFINE item == Item("tree3", <<>>, Version(r, "tree3"))
<1>1. /\ session' = session /\ damage' = damage /\ handle' = handle /\ seed' = seed
      /\ macState' = macState /\ av' = av /\ phase[r] = "tree3" /\ phase'[r] = "components"
      /\ at'[r] = 1
    BY PhaseSteps, Moved DEF CommitTree3, NextPhase
<1>2. Absorb(r, IF HasPostColumns(r) THEN <<item>> ELSE <<>>)
    BY DEF CommitTree3
<1> HIDE DEF item
<1>3. /\ Grew(r) /\ \A k \in Len(chan[r]) + 1 .. Len(chan'[r]) : chan'[r][k] = item
      /\ HasPostColumns(r) => Len(chan'[r]) = Len(chan[r]) + 1
  <2>1. CASE HasPostColumns(r)
    <3>1. Absorb(r, <<item>>)
      BY <1>2, <2>1
    <3> QED BY <3>1, AbsorbedOne DEF Grew
  <2>2. CASE ~HasPostColumns(r)
    <3>1. Absorb(r, <<>>) /\ IsSequence(<<>>) /\ Len(<<>>) = 0
      BY <1>2, <2>2, Literals
    <3>2. Grew(r) /\ Len(chan'[r]) = Len(chan[r]) + 0
      BY <3>1, Absorbed
    <3> QED BY <2>2, <3>2 DEF Grew
  <2> QED BY <2>1, <2>2
<1>4. /\ Modules(r)' = Modules(r) /\ Len(Modules(r)) \in Nat
      /\ DOMAIN Modules(r) = 1 .. Len(Modules(r)) /\ at[r] \in Nat
    BY <1>1, ModuleList DEF Modules, TypeInv, PlaceType
<1>5. HeadInv(r)'
    BY <1>1, <1>3, HeadKept DEF PastTree1, PastPublic
<1>6. ItemInv(r)'
  <2>1. \A k : ItemFits(r, item, k)
    BY DEF ItemFits, Item, item
  <2> QED BY <1>1, <1>3, <2>1, ItemsFit
<1>7. \A i \in Covered(r, "post", PastPost)' : i \in Covered(r, "post", PastPost)
    BY <1>1, <1>4
       DEF Covered, PastTree2, PastPost, PastClaims, PastDraw, PastTree1, PastPublic
<1>8. TailInv(r)'
  <2>1. HasPostColumns(r) => HasItem(r, "tree3", <<>>)'
    BY <1>3 DEF HasItem, item, Item, Grew
  <2>2. \A i \in Covered(r, "claims", PastClaims)' : i \in Covered(r, "claims", PastClaims)
    BY <1>1, <1>4 DEF Covered, PastClaims, PastDraw, PastTree1, PastPublic
  <2>3. phase[r] \in PastTree2
    BY <1>1 DEF PastTree2, PastClaims, PastDraw, PastTree1, PastPublic
  <2> QED BY <1>1, <1>3, <1>7, <2>1, <2>2, <2>3, TailKept
<1>9. HandleInv(r)'
  <2>1. Covered(r, "draw", PastDraw)' \subseteq Covered(r, "draw", PastDraw)
    BY <1>1, <1>4 DEF Covered, PastDraw, PastTree1, PastPublic
  <2> QED BY <1>1, <1>3, <2>1, HandlesKept
<1>10. SeedInv(r)'
    BY <1>1, <1>3, <1>4, <1>7, SeedKept DEF BeforePost
<1> QED BY <1>5, <1>6, <1>8, <1>9, <1>10 DEF RoleInv

-----------------------------------------------------------------------------
(* Every operation of a side keeps that side's invariants.                 *)
LEMMA StepKept ==
    ASSUME TypeInv, NEW r \in Roles, RoleInv(r), Step(r)
    PROVE  RoleInv(r)'
<1>1. CASE Still(r)
    BY <1>1, StillKept
<1>2. CASE CommitTree0(r)
    BY <1>2, CommitTree0Kept
<1>3. CASE MixPublic(r)
    BY <1>3, MixPublicKept
<1>4. CASE CommitTree1(r)
    BY <1>4, CommitTree1Kept
<1>5. CASE DrawRelations(r)
    BY <1>5, DrawRelationsKept
<1>6. CASE MixClaimedSums(r)
    BY <1>6, MixClaimedSumsKept
<1>7. CASE CommitTree2(r)
    BY <1>7, CommitTree2Kept
<1>8. CASE Coprocessor(r)
    BY <1>8, CoprocessorKept
<1>9. CASE MacPostInteraction(r)
    BY <1>9, MacPostInteractionKept
<1>10. CASE CommitTree3(r)
    BY <1>10, CommitTree3Kept
<1> QED BY <1>1, <1>2, <1>3, <1>4, <1>5, <1>6, <1>7, <1>8, <1>9, <1>10 DEF Step, Still

(* The two sides share nothing: an operation of one leaves the other's     *)
(* phase, transcript, handles and keys alone.                              *)
LEMMA Apart ==
    ASSUME TypeInv, NEW r \in Roles, Step(r), NEW q \in Roles \ {r}
    PROVE  /\ session' = session /\ damage' = damage
           /\ phase'[q] = phase[q] /\ at'[q] = at[q] /\ chan'[q] = chan[q]
           /\ handle'[q] = handle[q] /\ seed'[q] = seed[q]
           /\ macState'[q] = macState[q] /\ av'[q] = av[q]
<1>0. /\ handle \in [Roles -> [Handles -> Nat]] /\ DOMAIN chan = Roles
      /\ seed \in [Roles -> Nat] /\ macState \in [Roles -> Nat] /\ av \in [Roles -> Nat]
    BY DEF TypeInv, StoreType, ChanType
<1>1. phase'[q] = phase[q] /\ at'[q] = at[q]
  <2>1. NextModule(r) \/ \E ph : GoTo(r, ph)
    BY DEF Step, PinRoot, CommitTree0, MixPublic, CommitTree1, DrawRelations, WriteInteraction,
           CheckBalance, MixClaimedSums, CommitTree2, Coprocessor, MacPostInteraction,
           NoPostInteraction, CommitTree3, BuildComponents, Stark, EndLoop, NextPhase
  <2> QED BY <2>1, Moved
<1>2. chan'[q] = chan[q]
  <2>1. chan' = chan \/ \E items : Absorb(r, items)
    BY DEF Step, PinRoot, CommitTree0, MixPublic, CommitTree1, DrawRelations, WriteInteraction,
           CheckBalance, MixClaimedSums, CommitTree2, Coprocessor, MacPostInteraction,
           NoPostInteraction, CommitTree3, BuildComponents, Stark, EndLoop
  <2> QED BY <1>0, <2>1 DEF Absorb
<1>3. handle'[q] = handle[q]
  <2>1. handle' = handle \/ \E f : handle' = [handle EXCEPT ![r] = f]
    BY DEF Step, PinRoot, CommitTree0, MixPublic, CommitTree1, DrawRelations, WriteInteraction,
           CheckBalance, MixClaimedSums, CommitTree2, Coprocessor, MacPostInteraction,
           NoPostInteraction, CommitTree3, BuildComponents, Stark, EndLoop
  <2> QED BY <1>0, <2>1
<1>4. seed'[q] = seed[q] /\ macState'[q] = macState[q]
  <2>1. CASE Coprocessor(r)
    BY <1>0, <2>1 DEF Coprocessor
  <2>2. CASE ~Coprocessor(r)
    BY <2>2 DEF Step, PinRoot, CommitTree0, MixPublic, CommitTree1, DrawRelations,
           WriteInteraction, CheckBalance, MixClaimedSums, CommitTree2, MacPostInteraction,
           NoPostInteraction, CommitTree3, BuildComponents, Stark, EndLoop
  <2> QED BY <2>1, <2>2
<1>5. av'[q] = av[q]
  <2>1. CASE MacPostInteraction(r)
    BY <1>0, <2>1 DEF MacPostInteraction
  <2>2. CASE ~MacPostInteraction(r)
    BY <2>2 DEF Step, PinRoot, CommitTree0, MixPublic, CommitTree1, DrawRelations,
           WriteInteraction, CheckBalance, MixClaimedSums, CommitTree2, Coprocessor,
           NoPostInteraction, CommitTree3, BuildComponents, Stark, EndLoop
  <2> QED BY <2>1, <2>2
<1>6. session' = session /\ damage' = damage
    BY DEF Step, PinRoot, CommitTree0, MixPublic, CommitTree1, DrawRelations, WriteInteraction,
           CheckBalance, MixClaimedSums, CommitTree2, Coprocessor, MacPostInteraction,
           NoPostInteraction, CommitTree3, BuildComponents, Stark, EndLoop
<1> QED BY <1>1, <1>2, <1>3, <1>4, <1>5, <1>6

(* No operation reads what is not there: an early handle was set by an     *)
(* earlier module's draw, a late one in the draw loop, the MAC's key by    *)
(* its bundle.                                                             *)
LEMMA StepNeverPanics ==
    ASSUME WiredSessions, TypeInv, NEW r \in Roles, RoleInv(r), Step(r), phase[r] # "panicked"
    PROVE  phase'[r] # "panicked"
<1>0. /\ Len(Modules(r)) \in Nat /\ DOMAIN Modules(r) = 1 .. Len(Modules(r))
      /\ InLoop(r) => at[r] \in DOMAIN Modules(r)
      /\ phase[r] \in Phases(r)
    BY ModuleList DEF TypeInv, PlaceType, InLoop
<1>1. WiredInOrder(Modules(r))
    BY DEF TypeInv, Modules, WiredSessions
<1>2. CASE DrawRelations(r)
  <2>1. ASSUME NEW h \in Here(r).early
        PROVE  handle[r][h] # Unset
    <3>1. at[r] \in DOMAIN Modules(r) /\ phase[r] = "draw"
      BY <1>0, <1>2 DEF DrawRelations
    <3>2. PICK j \in 1 .. at[r] - 1 : h \in Modules(r)[j].sets
      BY <1>1, <2>1, <3>1 DEF WiredInOrder, Here
    <3>3. j \in Covered(r, "draw", PastDraw)
      BY <1>0, <3>1, <3>2 DEF Covered
    <3> QED BY <3>2, <3>3 DEF RoleInv, HandleInv
  <2>2. NextModule(r)
    BY <1>2, <2>1 DEF DrawRelations, CanRead
  <2> QED BY <2>2, Moved
<1>3. CASE WriteInteraction(r) \/ BuildComponents(r)
  <2>1. ASSUME NEW h \in Here(r).late
        PROVE  handle[r][h] # Unset
    <3>1. at[r] \in DOMAIN Modules(r) /\ phase[r] \in PastDraw
      BY <1>0, <1>3 DEF WriteInteraction, BuildComponents, PastDraw, PastTree1, PastPublic
    <3>2. PICK j \in DOMAIN Modules(r) : h \in Modules(r)[j].sets
      BY <1>1, <2>1, <3>1 DEF WiredInOrder, Here
    <3>3. j \in Covered(r, "draw", PastDraw)
      BY <3>1, <3>2 DEF Covered
    <3> QED BY <3>2, <3>3 DEF RoleInv, HandleInv
  <2>2. NextModule(r)
    BY <1>3, <2>1 DEF WriteInteraction, BuildComponents, CanRead
  <2> QED BY <2>2, Moved
<1>4. CASE MacPostInteraction(r)
  <2>1. at[r] \in DOMAIN Modules(r) /\ phase[r] = "post" /\ Here(r).post = "mac"
    BY <1>0, <1>4 DEF MacPostInteraction
  <2>2. PICK j \in 1 .. at[r] - 1 : Modules(r)[j].post = "bundle"
    BY <1>1, <2>1 DEF WiredInOrder, Here
  <2>3. j \in Covered(r, "post", PastPost)
    BY <1>0, <2>1, <2>2 DEF Covered
  <2>4. macState[r] # Unset
    BY <2>2, <2>3 DEF RoleInv, SeedInv
  <2>5. NextModule(r)
    BY <1>4, <2>4 DEF MacPostInteraction
  <2> QED BY <2>5, Moved
<1>5. CASE NextModule(r)
    BY <1>5, Moved
<1>6. CASE NextPhase(r) /\ phase[r] \notin Ended \cup {"stark"}
  <2>1. PhaseAfter(r) # "panicked"
    BY <1>0, <1>6, PhaseSteps DEF Phases, Ended
  <2> QED BY <1>6, <2>1, Moved DEF NextPhase
<1>7. CASE \E ph \in {"mismatch", "unbalanced", "rejected", "done", "accepted"} : GoTo(r, ph)
    BY <1>7, Moved
<1> QED
  <2>1. CASE PinRoot(r) \/ CheckBalance(r)
    BY <1>6, <1>7, <2>1 DEF PinRoot, CheckBalance, Ended
  <2>2. CASE CommitTree0(r) \/ CommitTree1(r) \/ CommitTree2(r) \/ CommitTree3(r) \/ EndLoop(r)
    BY <1>6, <2>2 DEF CommitTree0, CommitTree1, CommitTree2, CommitTree3, EndLoop, Ended
  <2>3. CASE MixPublic(r) \/ MixClaimedSums(r) \/ NoPostInteraction(r)
    BY <1>5, <2>3 DEF MixPublic, MixClaimedSums, NoPostInteraction
  <2>4. CASE Coprocessor(r)
    BY <1>5, <1>7, <2>4 DEF Coprocessor
  <2>5. CASE Stark(r)
    BY <1>7, <2>5 DEF Stark
  <2> QED BY <1>2, <1>3, <1>4, <2>1, <2>2, <2>3, <2>4, <2>5 DEF Step

(* How an operation can move its side.                                     *)
LEMMA StepMoves ==
    ASSUME TypeInv, NEW r \in Roles, Step(r)
    PROVE  \/ /\ phase'[r] = phase[r] /\ at'[r] = at[r] + 1 /\ InLoop(r)
              /\ phase[r] \in {"public", "draw", "interaction", "claims", "post", "components"}
           \/ /\ phase[r] \notin Ended \cup {"stark"}
              /\ phase'[r] = PhaseAfter(r) /\ at'[r] = 1
              /\ phase[r] = "post" => ~InLoop(r)
           \/ phase'[r] \in {"mismatch", "unbalanced", "rejected", "panicked"}
           \/ phase[r] = "stark" /\ Stark(r) /\ phase'[r] \in {"done", "accepted", "rejected"}
<1>1. CASE PinRoot(r) \/ CheckBalance(r)
    BY <1>1, Moved DEF PinRoot, CheckBalance, NextPhase, Ended
<1>2. CASE CommitTree0(r) \/ CommitTree1(r) \/ CommitTree2(r) \/ CommitTree3(r) \/ EndLoop(r)
    BY <1>2, Moved DEF CommitTree0, CommitTree1, CommitTree2, CommitTree3, EndLoop, NextPhase, Ended
<1>3. CASE MixPublic(r) \/ MixClaimedSums(r) \/ NoPostInteraction(r)
    BY <1>3, Moved DEF MixPublic, MixClaimedSums, NoPostInteraction
<1>4. CASE DrawRelations(r) \/ WriteInteraction(r) \/ BuildComponents(r)
    BY <1>4, Moved DEF DrawRelations, WriteInteraction, BuildComponents
<1>5. CASE Coprocessor(r) \/ MacPostInteraction(r)
    BY <1>5, Moved DEF Coprocessor, MacPostInteraction
<1>6. CASE Stark(r)
    BY <1>6, Moved DEF Stark
<1> QED BY <1>1, <1>2, <1>3, <1>4, <1>5, <1>6 DEF Step

(* Sequences that agree on a prefix agree on its items.                    *)
LEMMA PrefixItems ==
    ASSUME NEW s, NEW t, NEW n \in Nat, SubSeq(s, 1, n) = SubSeq(t, 1, n), NEW k \in 1 .. n
    PROVE  s[k] = t[k]
<1> DEFINE S == {s[i] : i \in 1 .. n} \cup {t[i] : i \in 1 .. n}
<1>1. \A i \in 1 .. n : s[i] \in S /\ t[i] \in S
    OBVIOUS
<1> HIDE DEF S
<1>2. \A i \in 1 .. n - 1 + 1 : SubSeq(s, 1, n)[i] = s[1 + i - 1]
    BY <1>1, SubSeqProperties
<1>3. \A i \in 1 .. n - 1 + 1 : SubSeq(t, 1, n)[i] = t[1 + i - 1]
    BY <1>1, SubSeqProperties
<1>4. SubSeq(s, 1, n)[k] = s[k] /\ SubSeq(t, 1, n)[k] = t[k]
  <2>1. k \in 1 .. n - 1 + 1 /\ 1 + k - 1 = k
    OBVIOUS
  <2> QED BY <1>2, <1>3, <2>1
<1> QED BY <1>4

(* A bundle is accepted only when the projections of the verifier's        *)
(* coprocessor are parts of the prover's statement.                        *)
LEMMA ProjectionsAgree ==
    ASSUME IInv, Coprocessor("verifier"), phase'["verifier"] # "rejected",
           NEW a \in Here("verifier").projection
    PROVE  session.statement["prover"][a] = session.statement["verifier"][a]
<1> DEFINE v == "verifier"
           p == "prover"
<1>0. TypeInv /\ v \in Roles /\ p \in Roles /\ SeedInv(p)
    BY DEF IInv, RoleInv, Roles
<1>1. PICK n \in Nat : n = Len(chan[v])
    BY <1>0, LenProperties DEF TypeInv, ChanType, IsSequence
<1>2. SeedIsProvers(v, n + 2)
    BY <1>0, <1>1, Moved DEF Coprocessor
<1>3. seed[p] = n + 2 /\ \A k \in 1 .. n + 2 : chan'[v][k] = chan[p][k]
    BY <1>1, <1>2, PrefixItems DEF SeedIsProvers
<1>4. chan'[v][n + 1] =
          Item("projection", Here(v).name, StatementPart(v, Here(v).projection))
  <2>1. Absorb(v, <<Item("projection", Here(v).name, StatementPart(v, Here(v).projection)),
                    Draw, Item("rejoin", Here(v).name, Version(v, "bundle"))>>)
    BY DEF Coprocessor
  <2> QED BY <1>0, <1>1, <2>1, AbsorbedThree
<1>5. PICK i \in DOMAIN Modules(p) :
          chan[p][n + 1] =
              Item("projection", Modules(p)[i].name, StatementPart(p, Modules(p)[i].projection))
  <2>1. seed[p] # Unset /\ seed[p] - 1 = n + 1
    BY <1>1, <1>3 DEF Unset
  <2> QED BY <1>0, <2>1 DEF SeedInv
<1>6. StatementPart(v, Here(v).projection) = StatementPart(p, Modules(p)[i].projection)
    BY <1>1, <1>3, <1>4, <1>5 DEF Item
<1>7. Here(v).projection = Modules(p)[i].projection
  <2>1. DOMAIN StatementPart(v, Here(v).projection) = Here(v).projection
    BY DEF StatementPart
  <2>2. DOMAIN StatementPart(p, Modules(p)[i].projection) = Modules(p)[i].projection
    BY DEF StatementPart
  <2> QED BY <1>6, <2>1, <2>2
<1> QED BY <1>6, <1>7 DEF StatementPart

(* What the verifier compared stays true: the prover is done, and each     *)
(* comparison was made on the way.                                         *)
LEMMA VerifierStep ==
    ASSUME IInv, Step("verifier")
    PROVE  VerifierInv'
<1> DEFINE v == "verifier"
           p == "prover"
<1>0. /\ TypeInv /\ VerifierInv /\ v \in Roles /\ p \in Roles /\ p # v
      /\ phase[v] \in Phases(v) /\ at[v] \in Nat
    BY DEF IInv, Roles, TypeInv, PlaceType
<1>1. session' = session /\ damage' = damage /\ phase'[p] = phase[p] /\ chan'[p] = chan[p]
    BY <1>0, Apart
<1>2. /\ Modules(v)' = Modules(v) /\ DOMAIN Modules(v) = 1 .. Len(Modules(v))
      /\ Len(Modules(v)) \in Nat
      /\ ProofRoot(v)' = ProofRoot(v) /\ Root(v)' = Root(v)
    BY <1>0, <1>1, ModuleList DEF Modules, Version, ProofRoot, Root, StatementPart
<1>3. phase[p] = "done"
  <2>1. phase[v] # "waiting"
    BY DEF Step, PinRoot, CommitTree0, MixPublic, CommitTree1, DrawRelations, WriteInteraction,
           CheckBalance, MixClaimedSums, CommitTree2, Coprocessor, MacPostInteraction,
           NoPostInteraction, CommitTree3, BuildComponents, Stark, EndLoop
  <2> QED BY <1>0, <2>1 DEF VerifierInv
<1>4. ASSUME phase'[v] \in PastTree0 \cup {"tree0"}, session.pinned
      PROVE  ProofRoot(v) = <<Root(v), 0>>
  <2>1. CASE PinRoot(v)
    BY <1>0, <1>4, <2>1, Moved DEF PinRoot, PastTree0, PastPublic
  <2>2. CASE phase[v] # "pin"
    <3>1. phase[v] \in PastTree0 \cup {"tree0"}
      BY <1>0, <1>4, <2>2, StepMoves, PhaseSteps DEF PastTree0, PastPublic, Ended, Phases
    <3> QED BY <1>0, <1>4, <3>1 DEF VerifierInv
  <2> QED BY <2>1, <2>2
          DEF Step, CommitTree0, MixPublic, CommitTree1, DrawRelations, WriteInteraction,
              CheckBalance, MixClaimedSums, CommitTree2, Coprocessor, MacPostInteraction,
              NoPostInteraction, CommitTree3, BuildComponents, Stark, EndLoop
<1>5. ASSUME NEW i \in Covered(v, "post", PastPost)', NEW a \in Modules(v)[i].projection
      PROVE  session.statement[p][a] = session.statement[v][a]
  <2>1. CASE i \in Covered(v, "post", PastPost)
    BY <1>0, <1>5, <2>1 DEF VerifierInv
  <2>2. CASE i \notin Covered(v, "post", PastPost)
    <3>1. i \in DOMAIN Modules(v) /\ phase'[v] \in PastPost \cup {"post"}
      BY <1>2, <1>5 DEF Covered
    <3>2. phase[v] = "post" /\ phase'[v] = "post" /\ i = at[v]
      <4>1. phase[v] = "post" => i >= at[v]
        BY <1>0, <1>2, <2>2, <3>1 DEF Covered
      <4>2. phase[v] \notin PastPost
        BY <2>2, <3>1 DEF Covered
      <4>3. phase'[v] = "post" => i < at'[v]
        BY <1>5 DEF Covered, PastPost
      <4>4. phase[v] = "post" /\ phase'[v] = "post" /\ at'[v] = at[v] + 1
        BY <1>0, <1>2, <3>1, <4>1, <4>2, <4>3, StepMoves, PhaseSteps
           DEF PastPost, PastTree2, PastClaims, PastDraw, PastTree1, PastPublic, Ended, Phases, InLoop
      <4> QED BY <1>0, <1>2, <3>1, <4>1, <4>3, <4>4
    <3>3. Here(v) = Modules(v)[i] /\ InLoop(v)
      BY <1>0, <1>2, <3>1, <3>2 DEF Here, InLoop
    <3>4. Here(v).post \in Coprocessors
      <4>1. session \in Sessions
        BY <1>0 DEF TypeInv
      <4>2. Modules(v)[i].projection # {}
        BY <1>5
      <4> QED BY <1>0, <3>1, <3>3, <4>1, <4>2, ModulesAssumption DEF Modules
    <3>5. Coprocessor(v)
      BY <3>2, <3>3, <3>4
         DEF Step, PinRoot, CommitTree0, MixPublic, CommitTree1, DrawRelations, WriteInteraction,
             CheckBalance, MixClaimedSums, CommitTree2, MacPostInteraction, NoPostInteraction,
             CommitTree3, BuildComponents, Stark, EndLoop, Coprocessors
    <3> QED BY <1>5, <3>2, <3>3, <3>5, ProjectionsAgree
  <2> QED BY <2>1, <2>2
<1>6. ASSUME phase'[v] = "accepted"
      PROVE  chan'[v] = chan'[p]
  <2>1. Stark(v)
    BY <1>0, <1>6, StepMoves, PhaseSteps DEF Ended, Phases
  <2> QED BY <1>0, <1>6, <2>1, Moved DEF Stark
<1> QED BY <1>1, <1>2, <1>3, <1>4, <1>5, <1>6 DEF VerifierInv

(* The prover's operations come before the delivery: the verifier waits.   *)
LEMMA ProverStep ==
    ASSUME IInv, Step("prover")
    PROVE  VerifierInv'
<1> DEFINE v == "verifier"
           p == "prover"
<1>0. TypeInv /\ VerifierInv /\ v \in Roles /\ p \in Roles /\ p # v
    BY DEF IInv, Roles
<1>1. session' = session /\ phase'[v] = phase[v]
    BY <1>0, Apart
<1>2. phase[p] # "done"
    BY DEF Step, PinRoot, CommitTree0, MixPublic, CommitTree1, DrawRelations, WriteInteraction,
           CheckBalance, MixClaimedSums, CommitTree2, Coprocessor, MacPostInteraction,
           NoPostInteraction, CommitTree3, BuildComponents, Stark, EndLoop
<1>3. phase'[v] = "waiting"
    BY <1>0, <1>1, <1>2 DEF VerifierInv
<1>4. \A i \in Covered(v, "post", PastPost)' : FALSE
    BY <1>3 DEF Covered, PastPost, PastTree2, PastClaims, PastDraw, PastTree1, PastPublic
<1> QED BY <1>3, <1>4 DEF VerifierInv, PastTree0, PastPublic

(* A delivery starts the verifier on an empty transcript.                  *)
LEMMA DeliverKept ==
    ASSUME IInv, Deliver
    PROVE  IInv'
<1> DEFINE v == "verifier"
           p == "prover"
<1>0. /\ TypeInv /\ VerifierInv /\ v \in Roles /\ p \in Roles /\ p # v
      /\ RoleInv(p) /\ RoleInv(v)
    BY DEF IInv, Roles
<1>1. /\ session' = session /\ chan' = chan /\ handle' = handle /\ seed' = seed
      /\ macState' = macState /\ av' = av /\ damage' \in ProofParts \cup {"none"}
      /\ phase[p] = "done" /\ phase[v] = "waiting"
    BY DEF Deliver
<1>2. /\ GoTo(v, IF session.gates THEN "pin" ELSE "refused")
      /\ phase'[v] \in {"pin", "refused"} /\ at'[v] = 1
      /\ phase'[p] = phase[p] /\ at'[p] = at[p]
    BY <1>0, Moved DEF Deliver
<1>3. TypeInv'
  <2>1. PlaceType'
    <3>1. (IF session.gates THEN "pin" ELSE "refused") \in Phases(v)
      BY DEF Phases
    <3> QED BY <1>0, <1>1, <1>2, <3>1, PlaceKept
  <2>2. ProofParts' = ProofParts
    BY <1>1 DEF ProofParts, HasPostColumns, HasBundle, Modules
  <2> QED BY <1>0, <1>1, <2>1, <2>2 DEF TypeInv, ChanType, StoreType
<1>4. RoleInv(p)'
    BY <1>0, <1>1, <1>2, RoleFrame
<1>5. RoleInv(v)'
  <2>1. Len(chan[v]) = 0 /\ seed[v] = Unset /\ macState[v] = Unset /\ av[v] = Unset
    BY <1>0, <1>1 DEF RoleInv, HeadInv, SeedInv, BeforePost
  <2>2. \A h \in Handles : handle[v][h] = Unset
    BY <1>0, <2>1 DEF RoleInv, HandleInv
  <2>3. \A i \in Covered(v, "public", PastPublic)' : FALSE
    BY <1>2 DEF Covered, PastPublic
  <2>4. \A i \in Covered(v, "draw", PastDraw)' : FALSE
    BY <1>2 DEF Covered, PastPublic, PastDraw, PastTree1
  <2>5. \A i \in Covered(v, "claims", PastClaims)' : FALSE
    BY <1>2 DEF Covered, PastPublic, PastDraw, PastTree1, PastClaims
  <2>6. \A i \in Covered(v, "post", PastPost)' : FALSE
    BY <1>2 DEF Covered, PastPublic, PastDraw, PastTree1, PastClaims, PastTree2, PastPost
  <2>7. HeadInv(v)'
    BY <1>1, <1>2, <2>1, <2>3 DEF HeadInv, PastTree0, PastTree1, PastPublic
  <2>8. ItemInv(v)'
    BY <1>1, <2>1 DEF ItemInv
  <2>9. TailInv(v)'
    BY <1>2, <2>5, <2>6 DEF TailInv, PastTree3, PastPublic, PastDraw, PastTree1, PastClaims,
                            PastTree2, PastPost
  <2>10. HandleInv(v)'
    BY <1>1, <2>2, <2>4 DEF HandleInv
  <2>11. SeedInv(v)'
    BY <1>1, <2>1, <2>6 DEF SeedInv
  <2> QED BY <2>7, <2>8, <2>9, <2>10, <2>11 DEF RoleInv
<1>6. VerifierInv'
  <2>1. \A i \in Covered(v, "post", PastPost)' : FALSE
    BY <1>2 DEF Covered, PastPublic, PastDraw, PastTree1, PastClaims, PastTree2, PastPost
  <2> QED BY <1>1, <1>2, <2>1 DEF VerifierInv, PastTree0, PastPublic
<1>8. \A r \in Roles : RoleInv(r)'
    BY <1>4, <1>5 DEF Roles
<1> QED BY <1>3, <1>6, <1>8 DEF IInv

(* Nothing is absorbed, drawn or set when a session starts.                *)
LEMMA InitKept ==
    ASSUME Init
    PROVE  IInv
<1>0. /\ \A r \in Roles : phase[r] = IF r = "prover" THEN "tree0" ELSE "waiting"
      /\ \A r \in Roles : /\ at[r] = 1 /\ chan[r] = <<>> /\ seed[r] = Unset
                          /\ macState[r] = Unset /\ av[r] = Unset
                          /\ \A h \in Handles : handle[r][h] = Unset
    BY DEF Init
<1>1. TypeInv
  <2>1. ASSUME NEW r \in Roles
        PROVE  Len(Modules(r)) \in Nat
    <3>1. Modules(r) \in Seq(Module)
      BY SessionsAssumption DEF Init, Modules
    <3> QED BY <3>1, LenProperties
  <2>2. PlaceType
    BY <1>0, <2>1 DEF Init, PlaceType, Phases
  <2>3. ChanType
    BY <1>0, Literals DEF Init, ChanType
  <2>4. StoreType
    BY DEF Init, StoreType, Unset
  <2> QED BY <2>2, <2>3, <2>4 DEF Init, TypeInv
<1>2. ASSUME NEW r \in Roles
      PROVE  RoleInv(r)
  <2>1. Len(chan[r]) = 0 /\ phase[r] \in {"tree0", "waiting"}
    BY <1>0
  <2>2. \A i \in Covered(r, "public", PastPublic) : FALSE
    BY <2>1 DEF Covered, PastPublic
  <2>3. \A i \in Covered(r, "draw", PastDraw) : FALSE
    BY <2>1 DEF Covered, PastPublic, PastDraw, PastTree1
  <2>4. \A i \in Covered(r, "claims", PastClaims) : FALSE
    BY <2>1 DEF Covered, PastPublic, PastDraw, PastTree1, PastClaims
  <2>5. \A i \in Covered(r, "post", PastPost) : FALSE
    BY <2>1 DEF Covered, PastPublic, PastDraw, PastTree1, PastClaims, PastTree2, PastPost
  <2>6. HeadInv(r)
    BY <2>1, <2>2 DEF HeadInv, PastTree0, PastTree1, PastPublic
  <2>7. ItemInv(r)
    BY <2>1 DEF ItemInv
  <2>8. TailInv(r)
    BY <2>1, <2>4, <2>5 DEF TailInv, PastTree3, PastPublic, PastDraw, PastTree1, PastClaims,
                            PastTree2, PastPost
  <2>9. HandleInv(r)
    BY <1>0, <2>3 DEF HandleInv
  <2>10. SeedInv(r)
    BY <1>0, <2>5 DEF SeedInv
  <2> QED BY <2>6, <2>7, <2>8, <2>9, <2>10 DEF RoleInv
<1>3. VerifierInv
  <2>1. phase["verifier"] = "waiting"
    BY <1>0 DEF Roles
  <2>2. \A i \in Covered("verifier", "post", PastPost) : FALSE
    BY <2>1 DEF Covered, PastPublic, PastDraw, PastTree1, PastClaims, PastTree2, PastPost
  <2> QED BY <2>1, <2>2 DEF VerifierInv, PastTree0, PastPublic
<1> QED BY <1>1, <1>2, <1>3 DEF IInv

(* The inductive invariant: the type, what each side's transcript, handles *)
(* and keys hold in each phase, and what the verifier compared.            *)
THEOREM InductiveInvariant == Spec => []IInv
<1>1. Init => IInv
    BY InitKept
<1>2. ASSUME IInv, NEW r \in Roles, Step(r)
      PROVE  IInv'
  <2>0. TypeInv /\ \A q \in Roles : RoleInv(q)
    BY <1>2 DEF IInv
  <2>1. TypeInv'
    BY <1>2, <2>0, StepType
  <2>2. RoleInv(r)'
    BY <1>2, <2>0, StepKept
  <2>3. ASSUME NEW q \in Roles \ {r}
        PROVE  RoleInv(q)' /\ phase'[q] = phase[q]
    BY <1>2, <2>0, <2>3, Apart, RoleFrame
  <2>4. VerifierInv'
    BY <1>2, ProverStep, VerifierStep DEF Roles
  <2>5. \A q \in Roles : RoleInv(q)'
    BY <2>2, <2>3
  <2> QED BY <2>1, <2>4, <2>5 DEF IInv
<1>3. ASSUME IInv, UNCHANGED vars
      PROVE  IInv'
  <2>1. \A r \in Roles : RoleInv(r)'
    BY <1>3, RoleFrame DEF vars, IInv
  <2>2. TypeInv'
    BY <1>3 DEF vars, IInv, TypeInv, ProofParts, HasPostColumns, HasBundle, Modules, PlaceType,
                ChanType, StoreType
  <2>3. VerifierInv'
    BY <1>3 DEF vars, IInv, VerifierInv, ProofRoot, Root, StatementPart, Version, Modules, Covered
  <2> QED BY <2>1, <2>2, <2>3 DEF IInv
<1>4. IInv /\ [Next]_vars => IInv'
  <2>1. ASSUME IInv, Next
        PROVE  IInv'
    <3>1. CASE Prove
      BY <1>2, <2>1, <3>1 DEF Prove, Step, Roles
    <3>2. CASE Deliver
      BY <2>1, <3>2, DeliverKept
    <3>3. CASE Verify
      BY <1>2, <2>1, <3>3 DEF Verify, Step, Roles
    <3> QED BY <2>1, <3>1, <3>2, <3>3 DEF Next
  <2> QED BY <1>3, <2>1
<1> QED BY <1>1, <1>4, PTL DEF Spec

-----------------------------------------------------------------------------
(* Every reachable state is well typed.                                    *)
THEOREM TypeCorrect == Spec => []TypeInv
<1>1. IInv => TypeInv
    BY DEF IInv
<1> QED BY <1>1, InductiveInvariant, PTL

(* Every challenge of either side comes after what it must bind: a         *)
(* relation after trees 0 and 1 and every module's public statement, the   *)
(* coprocessor's seed after tree 1, the claimed sums and tree 2; and the   *)
(* MAC's key is of that seed.                                              *)
THEOREM ChallengesBind == Spec => []ChallengesBindTrace
<1>1. ASSUME IInv
      PROVE  ChallengesBindTrace
  <2>1. \A r \in Roles : HandleInv(r) /\ SeedInv(r)
    BY <1>1 DEF IInv, RoleInv
  <2>2. RelationsBindTrace
    BY <2>1 DEF RelationsBindTrace, HandleInv
  <2>3. SeedBindsCommitments
    BY <2>1 DEF SeedBindsCommitments, SeedInv
  <2> QED BY <2>2, <2>3 DEF ChallengesBindTrace
<1> QED BY <1>1, InductiveInvariant, PTL

(* Once wired in order, no side ever panics.                               *)
LEMMA NeverPanics == WiredSessions => (Spec => []NoReadBeforeDraw)
<1> SUFFICES ASSUME WiredSessions PROVE Spec => []NoReadBeforeDraw
    OBVIOUS
<1>1. Init => NoReadBeforeDraw
    BY DEF Init, NoReadBeforeDraw
<1>2. ASSUME IInv, NoReadBeforeDraw, NEW r \in Roles, Step(r)
      PROVE  NoReadBeforeDraw'
  <2>1. phase'[r] # "panicked"
    BY <1>2, StepNeverPanics DEF IInv, NoReadBeforeDraw
  <2>2. ASSUME NEW q \in Roles \ {r}
        PROVE  phase'[q] = phase[q]
    BY <1>2, <2>2, Apart DEF IInv
  <2> QED BY <1>2, <2>1, <2>2 DEF NoReadBeforeDraw
<1>3. ASSUME IInv, NoReadBeforeDraw, Deliver
      PROVE  NoReadBeforeDraw'
  <2>1. DOMAIN phase = Roles
    BY <1>3 DEF IInv, TypeInv, PlaceType
  <2>2. /\ phase'["prover"] = phase["prover"]
        /\ phase'["verifier"] \in {"pin", "refused"}
    BY <1>3, <2>1 DEF Deliver, GoTo, Roles
  <2> QED BY <1>3, <2>2 DEF NoReadBeforeDraw, Roles
<1>4. IInv /\ NoReadBeforeDraw /\ [Next]_vars => NoReadBeforeDraw'
  <2>1. ASSUME IInv, NoReadBeforeDraw, Next
        PROVE  NoReadBeforeDraw'
    <3>1. CASE Prove
      BY <1>2, <2>1, <3>1 DEF Prove, Step, Roles
    <3>2. CASE Deliver
      BY <1>3, <2>1, <3>2
    <3>3. CASE Verify
      BY <1>2, <2>1, <3>3 DEF Verify, Step, Roles
    <3> QED BY <2>1, <3>1, <3>2, <3>3 DEF Next
  <2>2. ASSUME NoReadBeforeDraw, UNCHANGED vars
        PROVE  NoReadBeforeDraw'
    BY <2>2 DEF vars, NoReadBeforeDraw
  <2> QED BY <2>1, <2>2
<1> QED BY <1>1, <1>4, InductiveInvariant, PTL DEF Spec

(* No side reads a relation before its provider drew it, and no MAC module *)
(* is built without the key its bundle published, whatever modules are     *)
(* wired in order; MdocWired and IdentityWired show that those of every    *)
(* pipeline are.                                                           *)
THEOREM ReadsAfterWrites == WiredSessions => (Spec => []NothingReadEarly)
<1> SUFFICES ASSUME WiredSessions PROVE Spec => []NothingReadEarly
    OBVIOUS
<1>1. ASSUME IInv, NoReadBeforeDraw
      PROVE  NothingReadEarly
  <2>1. ASSUME NEW r \in Roles, phase[r] \in {"components", "stark", "done", "accepted"},
               HasPostColumns(r)
        PROVE  av[r] # Unset
    <3>1. PICK i \in DOMAIN Modules(r) : Modules(r)[i].post = "mac"
      BY <2>1 DEF HasPostColumns
    <3>2. i \in Covered(r, "post", PastPost)
      BY <2>1 DEF Covered, PastPost, PastTree2, PastClaims, PastDraw, PastTree1, PastPublic
    <3> QED BY <1>1, <3>1, <3>2 DEF IInv, RoleInv, SeedInv
  <2> QED BY <1>1, <2>1 DEF NothingReadEarly, MacBuiltWithKey, IInv
<1> QED BY <1>1, InductiveInvariant, NeverPanics, PTL

(* Two sides with the same transcript up to the end have as many modules,  *)
(* of the same names and the same public parts.                            *)
LEMMA HeadsAgree ==
    ASSUME IInv, chan["verifier"] = chan["prover"],
           phase["verifier"] = "accepted", phase["prover"] = "done"
    PROVE  /\ Len(Modules("verifier")) = Len(Modules("prover"))
           /\ ProofRoot("verifier") = ProofRoot("prover")
           /\ Version("verifier", "tree1") = 0
           /\ \A i \in DOMAIN Modules("verifier") :
                  PublicItem("verifier", i) = PublicItem("prover", i)
<1> DEFINE v == "verifier"
           p == "prover"
<1>0. /\ TypeInv /\ v \in Roles /\ p \in Roles
      /\ HeadInv(v) /\ HeadInv(p) /\ ItemInv(p) /\ chan[v] = chan[p]
      /\ \A r \in Roles : Len(Modules(r)) \in Nat /\ DOMAIN Modules(r) = 1 .. Len(Modules(r))
    BY ModuleList DEF IInv, RoleInv, Roles
<1>1. \A r \in Roles : phase[r] \in PastTree0 /\ phase[r] \in PastTree1 /\ phase[r] \in PastPublic
    BY DEF Roles, PastTree0, PastTree1, PastPublic
<1>2. /\ Len(chan[v]) >= Len(Modules(v)) + 3
      /\ chan[v][Len(Modules(v)) + 3] = Item("tree1", <<>>, Version(v, "tree1"))
    BY <1>0, <1>1 DEF HeadInv
<1>3. chan[p][Len(Modules(p)) + 3] = Item("tree1", <<>>, Version(p, "tree1"))
    BY <1>0, <1>1 DEF HeadInv
<1>4. Len(Modules(v)) = Len(Modules(p))
  <2>1. PICK k : k = Len(Modules(v)) + 3
    OBVIOUS
  <2>2. Len(chan[v]) \in Nat
    BY <1>0, LenProperties DEF TypeInv, ChanType, IsSequence
  <2>3. k \in 1 .. Len(chan[p]) /\ chan[p][k].kind = "tree1"
    BY <1>0, <1>2, <2>1, <2>2 DEF Item
  <2>4. ItemFits(p, chan[p][k], k)
    BY <1>0, <2>3 DEF ItemInv
  <2> QED BY <1>0, <2>1, <2>3, <2>4 DEF ItemFits
<1>5. Version(v, "tree1") = 0
  <2>1. Version(v, "tree1") = Version(p, "tree1")
    BY <1>0, <1>2, <1>3, <1>4 DEF Item
  <2> QED BY <2>1 DEF Version
<1>6. ProofRoot(v) = ProofRoot(p)
    BY <1>0, <1>1 DEF HeadInv, Item
<1>7. ASSUME NEW i \in DOMAIN Modules(v)
      PROVE  PublicItem(v, i) = PublicItem(p, i)
  <2>1. i \in Covered(v, "public", PastPublic) /\ i \in Covered(p, "public", PastPublic)
    BY <1>0, <1>1, <1>4, <1>7 DEF Covered
  <2> QED BY <1>0, <2>1 DEF HeadInv
<1> QED BY <1>4, <1>5, <1>6, <1>7

(* An item of the common transcript shows that the part of the proof it    *)
(* absorbs arrived as it was sent.                                         *)
LEMMA PartArrived ==
    ASSUME IInv, chan["verifier"] = chan["prover"],
           NEW r \in Roles, NEW kind, NEW from, HasItem(r, kind, from)
    PROVE  /\ kind = "tree2" => Version("verifier", "tree2") = 0
           /\ kind = "tree3" => Version("verifier", "tree3") = 0
           /\ kind = "claims" => ClaimsVersion("verifier") = 0
           /\ kind = "rejoin" => Version("verifier", "bundle") = 0
<1> DEFINE v == "verifier"
           p == "prover"
<1>1. PICK k \in 1 .. Len(chan[r]) : chan[r][k].kind = kind
    BY DEF HasItem
<1>2. chan[r] = chan[v] /\ chan[r] = chan[p]
    BY DEF Roles
<1>3. ItemFits(v, chan[r][k], k) /\ ItemFits(p, chan[r][k], k)
    BY <1>1, <1>2 DEF IInv, RoleInv, ItemInv, Roles
<1>4. \A part : Version(p, part) = 0
    BY DEF Version
<1>5. ClaimsVersion(p) = 0
    BY <1>4 DEF ClaimsVersion
<1> QED BY <1>1, <1>3, <1>4, <1>5 DEF ItemFits

(* An accepted proof arrived as it was sent.                               *)
LEMMA AcceptedUndamaged ==
    ASSUME IInv, chan["verifier"] = chan["prover"],
           phase["verifier"] = "accepted", phase["prover"] = "done"
    PROVE  damage = "none"
<1> DEFINE v == "verifier"
           p == "prover"
<1>0. /\ v \in Roles /\ p \in Roles /\ TypeInv /\ TailInv(v) /\ TailInv(p)
      /\ \A part : Version(v, part) = 0 => damage # part
    BY DEF IInv, RoleInv, Roles, Version
<1>1. damage \in {"none", "tree0", "tree1", "claims", "swapped", "tree2", "bundle", "tree3"}
    BY <1>0, PartsAssumption DEF TypeInv, ProofParts
<1>2. damage # "tree0"
  <2>1. ProofRoot(v) = ProofRoot(p)
    BY HeadsAgree
  <2>2. Version(v, "tree0") = 0
    BY <2>1 DEF ProofRoot, Version
  <2> QED BY <1>0, <2>2
<1>3. damage # "tree1"
    BY <1>0, HeadsAgree
<1>4. damage # "tree2"
  <2>1. HasItem(v, "tree2", <<>>)
    BY <1>0 DEF TailInv, PastTree2, PastClaims, PastDraw, PastTree1, PastPublic
  <2> QED BY <1>0, <2>1, PartArrived
<1>5. damage \notin {"claims", "swapped"}
  <2>1. ASSUME damage \in {"claims", "swapped"}
        PROVE  FALSE
    <3>1. Modules(p) # <<>>
      BY <1>0, <2>1 DEF TypeInv, ProofParts
    <3>2. 1 \in DOMAIN Modules(p)
      BY <1>0, <3>1, ModuleList, EmptySeq
    <3>3. 1 \in Covered(p, "claims", PastClaims)
      BY <3>2 DEF Covered, PastClaims, PastDraw, PastTree1, PastPublic
    <3>4. HasItem(p, "claims", Modules(p)[1].name)
      BY <1>0, <3>3 DEF TailInv
    <3>5. ClaimsVersion(v) = 0
      BY <1>0, <3>4, PartArrived
    <3> QED BY <2>1, <3>5 DEF ClaimsVersion, Version
  <2> QED BY <2>1
<1>6. damage # "bundle"
  <2>1. ASSUME damage = "bundle"
        PROVE  FALSE
    <3>1. PICK i \in DOMAIN Modules(p) : Modules(p)[i].post \in Coprocessors
      BY <1>0, <2>1 DEF TypeInv, ProofParts, HasBundle
    <3>2. i \in Covered(p, "post", PastPost)
      BY DEF Covered, PastPost, PastTree2, PastClaims, PastDraw, PastTree1, PastPublic
    <3>3. HasItem(p, "rejoin", Modules(p)[i].name)
      BY <1>0, <3>1, <3>2 DEF TailInv
    <3> QED BY <1>0, <2>1, <3>3, PartArrived
  <2> QED BY <2>1
<1>7. damage # "tree3"
  <2>1. ASSUME damage = "tree3"
        PROVE  FALSE
    <3>1. HasPostColumns(p)
      BY <1>0, <2>1 DEF TypeInv, ProofParts
    <3>2. HasItem(p, "tree3", <<>>)
      BY <1>0, <3>1
         DEF TailInv, PastTree3, PastPost, PastTree2, PastClaims, PastDraw, PastTree1, PastPublic
    <3> QED BY <1>0, <2>1, <3>2, PartArrived
  <2> QED BY <2>1
<1> QED BY <1>1, <1>2, <1>3, <1>4, <1>5, <1>6, <1>7

(* A proof is accepted only as it was sent, by the verifier's modules in   *)
(* the verifier's order, for the declared parts of the verifier's          *)
(* statement, and under the pinned root.                                   *)
THEOREM AcceptedAsIntended == Spec => []AcceptedIsIntended
<1> DEFINE v == "verifier"
           p == "prover"
<1>1. ASSUME IInv, phase[v] = "accepted"
      PROVE  /\ damage = "none"
             /\ [i \in DOMAIN Modules(p) |-> Modules(p)[i].name]
                    = [i \in DOMAIN Modules(v) |-> Modules(v)[i].name]
             /\ \A a \in DeclaredParts(v) :
                    session.statement[p][a] = session.statement[v][a]
             /\ session.pinned => Root(p) = Root(v)
  <2>1. /\ phase[p] = "done" /\ chan[v] = chan[p] /\ TypeInv /\ VerifierInv
        /\ v \in Roles /\ p \in Roles
    BY <1>1 DEF IInv, VerifierInv, Roles
  <2>2. damage = "none"
    BY <1>1, <2>1, AcceptedUndamaged
  <2>3. /\ Len(Modules(v)) = Len(Modules(p)) /\ ProofRoot(v) = ProofRoot(p)
        /\ \A i \in DOMAIN Modules(v) : PublicItem(v, i) = PublicItem(p, i)
    BY <1>1, <2>1, HeadsAgree
  <2>4. DOMAIN Modules(v) = DOMAIN Modules(p)
    BY <2>1, <2>3, ModuleList
  <2>5. \A i \in DOMAIN Modules(v) : Modules(p)[i].name = Modules(v)[i].name
    BY <2>3 DEF PublicItem, Item
  <2>6. ASSUME NEW i \in DOMAIN Modules(v), NEW a \in Modules(v)[i].public
        PROVE  session.statement[p][a] = session.statement[v][a]
    <3>1. StatementPart(v, Modules(v)[i].public) = StatementPart(p, Modules(p)[i].public)
      BY <2>3 DEF PublicItem, Item
    <3>2. /\ DOMAIN StatementPart(v, Modules(v)[i].public) = Modules(v)[i].public
          /\ DOMAIN StatementPart(p, Modules(p)[i].public) = Modules(p)[i].public
      BY DEF StatementPart
    <3>3. Modules(v)[i].public = Modules(p)[i].public
      BY <3>1, <3>2
    <3> QED BY <3>1, <3>3 DEF StatementPart
  <2>7. ASSUME NEW i \in DOMAIN Modules(v), NEW a \in Modules(v)[i].projection
        PROVE  session.statement[p][a] = session.statement[v][a]
    <3>1. i \in Covered(v, "post", PastPost)
      BY <1>1 DEF Covered, PastPost, PastTree2, PastClaims, PastDraw, PastTree1, PastPublic
    <3> QED BY <2>1, <3>1 DEF VerifierInv
  <2>8. \A a \in DeclaredParts(v) : session.statement[p][a] = session.statement[v][a]
    BY <2>6, <2>7 DEF DeclaredParts
  <2>9. ASSUME session.pinned
        PROVE  Root(p) = Root(v)
    <3>1. ProofRoot(v) = <<Root(v), 0>>
      BY <1>1, <2>1, <2>9 DEF VerifierInv, PastTree0, PastPublic
    <3> QED BY <2>3, <3>1 DEF ProofRoot
  <2> QED BY <2>2, <2>4, <2>5, <2>8, <2>9
<1>2. IInv => AcceptedIsIntended
    BY <1>1 DEF AcceptedIsIntended
<1> QED BY <1>2, InductiveInvariant, PTL

-----------------------------------------------------------------------------
(* The pipelines wire their modules in order.                              *)
Elements(s) == {s[i] : i \in DOMAIN s}

(* A concatenation has the elements of its two parts.                      *)
LEMMA ConcatElements ==
    ASSUME NEW s, NEW t, IsSequence(s), IsSequence(t)
    PROVE  /\ IsSequence(s \o t)
           /\ Elements(s \o t) = Elements(s) \cup Elements(t)
           /\ Len(s) >= 1 => Len(s \o t) >= 1 /\ (s \o t)[1] = s[1]
<1> DEFINE u == s \o t
<1>1. /\ IsSequence(u) /\ Len(s) \in Nat /\ Len(t) \in Nat /\ Len(u) = Len(s) + Len(t)
      /\ \A i \in 1 .. Len(s) : u[i] = s[i]
      /\ \A i \in 1 .. Len(t) : u[Len(s) + i] = t[i]
    BY Appended
<1> HIDE DEF u
<1>2. DOMAIN s = 1 .. Len(s) /\ DOMAIN t = 1 .. Len(t) /\ DOMAIN u = 1 .. Len(u)
    BY <1>1, LenProperties DEF IsSequence
<1>3. ASSUME NEW i \in DOMAIN u
      PROVE  u[i] \in Elements(s) \cup Elements(t)
  <2>1. CASE i <= Len(s)
    BY <1>1, <1>2, <1>3, <2>1 DEF Elements
  <2>2. CASE i > Len(s)
    <3>1. i - Len(s) \in 1 .. Len(t) /\ i = Len(s) + (i - Len(s))
      BY <1>1, <1>2, <1>3, <2>2
    <3>2. u[i] = t[i - Len(s)]
      BY <1>1, <3>1
    <3> QED BY <1>2, <3>1, <3>2 DEF Elements
  <2> QED BY <1>1, <1>2, <1>3, <2>1, <2>2
<1>4. ASSUME NEW i \in DOMAIN s
      PROVE  s[i] \in Elements(u)
    BY <1>1, <1>2, <1>4 DEF Elements
<1>5. ASSUME NEW i \in DOMAIN t
      PROVE  t[i] \in Elements(u)
  <2>1. Len(s) + i \in DOMAIN u /\ u[Len(s) + i] = t[i]
    BY <1>1, <1>2, <1>5
  <2> QED BY <2>1 DEF Elements
<1>6. Elements(u) = Elements(s) \cup Elements(t)
    BY <1>3, <1>4, <1>5 DEF Elements
<1>7. Len(s) >= 1 => Len(u) >= 1 /\ u[1] = s[1]
    BY <1>1
<1> QED BY <1>1, <1>6, <1>7 DEF u

(* The elements of a literal list.                                         *)
LEMMA LiteralElements ==
    ASSUME NEW a, NEW b, NEW c
    PROVE  /\ IsSequence(<<>>) /\ Elements(<<>>) = {}
           /\ IsSequence(<<a>>) /\ Elements(<<a>>) = {a}
           /\ IsSequence(<<a, b>>) /\ Elements(<<a, b>>) = {a, b}
           /\ IsSequence(<<a, b, c>>) /\ Elements(<<a, b, c>>) = {a, b, c}
<1>1. IsSequence(<<>>) /\ Elements(<<>>) = {}
    BY DEF IsSequence, Elements
<1>2. IsSequence(<<a>>) /\ Elements(<<a>>) = {a}
    BY DEF IsSequence, Elements
<1>3. IsSequence(<<a, b>>) /\ Elements(<<a, b>>) = {a, b}
    BY DEF IsSequence, Elements
<1>4. IsSequence(<<a, b, c>>) /\ Elements(<<a, b, c>>) = {a, b, c}
    BY DEF IsSequence, Elements
<1> QED BY <1>1, <1>2, <1>3, <1>4

(* An optional module.                                                     *)
LEMMA OptionalElements ==
    ASSUME NEW present \in BOOLEAN, NEW module
    PROVE  /\ IsSequence(Optional(present, module))
           /\ Elements(Optional(present, module)) = IF present THEN {module} ELSE {}
<1>1. CASE present
    BY <1>1, LiteralElements DEF Optional
<1>2. CASE ~present
    BY <1>2, LiteralElements DEF Optional
<1> QED BY <1>1, <1>2

(* The hash modules of the disclosed attributes.                           *)
LEMMA AttributeElements ==
    ASSUME NEW n \in Nat
    PROVE  /\ IsSequence([i \in 1 .. n |-> AttributeSha(i)])
           /\ Elements([i \in 1 .. n |-> AttributeSha(i)]) = {AttributeSha(i) : i \in 1 .. n}
<1> DEFINE f == [i \in 1 .. n |-> AttributeSha(i)]
<1>1. f \in Seq({f[i] : i \in DOMAIN f})
  <2> DEFINE R == {f[i] : i \in DOMAIN f}
  <2>1. \A i \in 1 .. n : AttributeSha(i) \in R
    OBVIOUS
  <2> HIDE DEF R
  <2>2. [i \in 1 .. n |-> AttributeSha(i)] \in Seq(R)
    BY <2>1
  <2> QED BY <2>2 DEF R
<1> QED BY <1>1 DEF IsSequence, Elements

(* A module that reads no handle early but the SHA tables and has no       *)
(* post-interaction work.                                                  *)
Ordinary(m) == m.post = "none" /\ m.early \subseteq {H("sha_tables")}

Provided(modules, m) == \A h \in m.late : \E o \in modules : h \in o.sets

(* A list that starts with the SHA tables, goes on with ordinary modules   *)
(* and ends with the coprocessor and its MAC, if any, is wired in order.   *)
LEMMA ListWired ==
    ASSUME NEW front, IsSequence(front), Len(front) >= 1, front[1] = ShaTables,
           \A m \in Elements(front) : Ordinary(m),
           NEW last, last = <<>> \/ last = <<MdocCoprocessor, MdocMac>>,
           \A m \in Elements(front \o last) : Provided(Elements(front \o last), m)
    PROVE  WiredInOrder(front \o last)
<1> DEFINE list == front \o last
<1>0. /\ IsSequence(last) /\ Len(last) \in {0, 2}
      /\ Len(last) = 2 => last[1] = MdocCoprocessor /\ last[2] = MdocMac
  <2>1. CASE last = <<>>
    <3>1. IsSequence(<<>>) /\ Len(<<>>) = 0
      BY Literals
    <3> QED BY <2>1, <3>1
  <2>2. CASE last = <<MdocCoprocessor, MdocMac>>
    <3>1. \A x, y : /\ IsSequence(<<x, y>>) /\ Len(<<x, y>>) = 2
                    /\ <<x, y>>[1] = x /\ <<x, y>>[2] = y
        BY Literals
    <3>2. /\ IsSequence(<<MdocCoprocessor, MdocMac>>) /\ Len(<<MdocCoprocessor, MdocMac>>) = 2
          /\ <<MdocCoprocessor, MdocMac>>[1] = MdocCoprocessor
          /\ <<MdocCoprocessor, MdocMac>>[2] = MdocMac
        BY <3>1
    <3> QED BY <2>2, <3>2
  <2> QED BY <2>1, <2>2
<1>1. /\ IsSequence(list) /\ Len(front) \in Nat
      /\ Len(list) = Len(front) + Len(last)
      /\ \A i \in 1 .. Len(front) : list[i] = front[i]
      /\ \A i \in 1 .. Len(last) : list[Len(front) + i] = last[i]
    BY <1>0, Appended
<1>2. \A m \in Elements(list) : Provided(Elements(list), m)
    OBVIOUS
<1> HIDE DEF list
<1>3. DOMAIN list = 1 .. Len(list) /\ DOMAIN front = 1 .. Len(front)
    BY <1>1, LenProperties DEF IsSequence
<1>4. \A i \in 1 .. Len(front) : Ordinary(list[i])
    BY <1>1, <1>3 DEF Elements
<1>5. \A i \in DOMAIN list :
          \/ i \in 1 .. Len(front)
          \/ i = Len(front) + 1 /\ list[i] = MdocCoprocessor
          \/ i = Len(front) + 2 /\ list[i] = MdocMac /\ list[Len(front) + 1] = MdocCoprocessor
  <2>1. Len(last) = 2 => list[Len(front) + 1] = MdocCoprocessor /\ list[Len(front) + 2] = MdocMac
    BY <1>0, <1>1
  <2> SUFFICES ASSUME NEW i \in DOMAIN list
               PROVE  \/ i \in 1 .. Len(front)
                      \/ i = Len(front) + 1 /\ list[i] = MdocCoprocessor
                      \/ /\ i = Len(front) + 2 /\ list[i] = MdocMac
                         /\ list[Len(front) + 1] = MdocCoprocessor
    OBVIOUS
  <2>2. i \in 1 .. Len(front) + Len(last)
    BY <1>1, <1>3
  <2>3. CASE Len(last) = 0
    BY <1>1, <2>2, <2>3
  <2>4. CASE Len(last) = 2
    <3>1. i \in 1 .. Len(front) \/ i = Len(front) + 1 \/ i = Len(front) + 2
      BY <1>1, <2>2, <2>4
    <3> QED BY <2>1, <2>4, <3>1
  <2> QED BY <1>0, <2>3, <2>4
<1>6. /\ MdocCoprocessor.post = "bundle" /\ MdocCoprocessor.early = {}
      /\ MdocMac.post = "mac" /\ MdocMac.early = {}
  <2>1. MdocCoprocessor.post = "bundle" /\ MdocCoprocessor.early = {}
    BY DEF MdocCoprocessor, Quiet
  <2>2. MdocMac.post = "mac" /\ MdocMac.early = {}
    <3> DEFINE late == {H("issuer_digest"), H("issuer_field")}
               mac == Drawing("mdoc_mac", 0, {}, {}, late)
    <3>1. mac.early = {}
      BY DEF Drawing, Quiet
    <3>2. DOMAIN mac = {"name", "public", "fixed", "draws", "sets", "early", "late", "post",
                        "projection"}
      BY DEF Drawing, Quiet
    <3>3. MdocMac = [mac EXCEPT !.post = "mac"]
      BY DEF MdocMac
    <3> HIDE DEF mac
    <3> QED BY <3>1, <3>2, <3>3
  <2> QED BY <2>1, <2>2
<1>7. ShaTables.sets = {H("sha_tables")} /\ ShaTables.early = {}
    BY DEF ShaTables, Drawing, Quiet
<1>8. ASSUME NEW i \in DOMAIN list, NEW h \in list[i].early
      PROVE  \E j \in 1 .. i - 1 : h \in list[j].sets
  <2>1. i \in 1 .. Len(front) /\ h = H("sha_tables")
    BY <1>4, <1>5, <1>6, <1>8 DEF Ordinary
  <2>2. i # 1
    BY <1>1, <1>7, <1>8, <2>1
  <2>3. h \in list[1].sets /\ 1 \in 1 .. i - 1
    BY <1>1, <1>7, <2>1, <2>2
  <2> QED BY <2>3
<1>9. ASSUME NEW i \in DOMAIN list, NEW h \in list[i].late
      PROVE  \E j \in DOMAIN list : h \in list[j].sets
    BY <1>2, <1>9 DEF Provided, Elements
<1>10. ASSUME NEW i \in DOMAIN list, list[i].post = "mac"
       PROVE  \E j \in 1 .. i - 1 : list[j].post = "bundle"
  <2>1. i = Len(front) + 2 /\ list[Len(front) + 1] = MdocCoprocessor
    BY <1>4, <1>5, <1>6, <1>10 DEF Ordinary
  <2>2. Len(front) + 1 \in 1 .. i - 1
    BY <1>1, <2>1
  <2> QED BY <1>6, <2>1, <2>2
<1>11. ASSUME NEW i \in DOMAIN list, list[i].post \in Coprocessors
       PROVE  i = Len(front) + 1
    BY <1>4, <1>5, <1>6, <1>11 DEF Ordinary, Coprocessors
<1>12. WiredInOrder(list)
    BY <1>8, <1>9, <1>10, <1>11 DEF WiredInOrder, OneCoprocessor
<1> QED BY <1>12 DEF list

(* What the modules of an mdoc proof hand out and read.                    *)
LEMMA MdocModuleFields ==
    ASSUME NEW st, NEW i, NEW field
    PROVE  /\ ShaTables.late = {} /\ Ordinary(ShaTables)
           /\ IssuerSha.sets = {H("issuer_digest"), H("issuer_field")}
           /\ IssuerSha.late = {} /\ Ordinary(IssuerSha)
           /\ DeviceSha.sets = {H("device_digest")}
           /\ DeviceSha.late = {} /\ Ordinary(DeviceSha)
           /\ MsoSha.sets = {H("mso_digest"), H("mso_field")}
           /\ MsoSha.late = {} /\ Ordinary(MsoSha)
           /\ RevocationSha.sets = {H("revocation_digest"), H("revocation_message_field")}
           /\ RevocationSha.late = {} /\ Ordinary(RevocationSha)
           /\ AttributeSha(i).sets = {AttributeDigest(i), AttributeField(i)}
           /\ AttributeSha(i).late = {} /\ Ordinary(AttributeSha(i))
           /\ WindowBind(st).late = {H("issuer_field")}
                 \cup {AttributeField(k) : k \in 1 .. st.attributes}
                 \cup {AttributeDigest(k) : k \in 1 .. st.attributes}
           /\ Ordinary(WindowBind(st))
           /\ Validity.late = {H("issuer_field")} /\ Ordinary(Validity)
           /\ MsoPayloadBind.late = {H("issuer_field"), H("mso_field")}
           /\ Ordinary(MsoPayloadBind)
           /\ Age(field).late = {field} /\ Ordinary(Age(field))
           /\ Nat256(field).late = {field} /\ Ordinary(Nat256(field))
           /\ RevocationPublic.late = {} /\ Ordinary(RevocationPublic)
           /\ RevocationRange(st).late = {H("mso_digest")}
                 \cup (IF st.signature THEN {H("revocation_message_field")} ELSE {})
           /\ Ordinary(RevocationRange(st))
           /\ MdocCoprocessor.late = {}
           /\ MdocMac.late = {H("issuer_digest"), H("issuer_field")}
<1>1. ShaTables.late = {} /\ Ordinary(ShaTables)
  BY DEF ShaTables, Drawing, Quiet, Ordinary
<1>2. /\ IssuerSha.sets = {H("issuer_digest"), H("issuer_field")}
      /\ IssuerSha.late = {} /\ Ordinary(IssuerSha)
  BY DEF IssuerSha, Sha, Drawing, Quiet, Ordinary
<1>3. /\ DeviceSha.sets = {H("device_digest")}
      /\ DeviceSha.late = {} /\ Ordinary(DeviceSha)
  BY DEF DeviceSha, Sha, Drawing, Quiet, Ordinary
<1>4. /\ MsoSha.sets = {H("mso_digest"), H("mso_field")}
      /\ MsoSha.late = {} /\ Ordinary(MsoSha)
  BY DEF MsoSha, Sha, Drawing, Quiet, Ordinary
<1>5. /\ RevocationSha.sets = {H("revocation_digest"), H("revocation_message_field")}
      /\ RevocationSha.late = {} /\ Ordinary(RevocationSha)
  BY DEF RevocationSha, Sha, Drawing, Quiet, Ordinary
<1>6. /\ AttributeSha(i).sets = {AttributeDigest(i), AttributeField(i)}
      /\ AttributeSha(i).late = {} /\ Ordinary(AttributeSha(i))
  BY DEF AttributeSha, Sha, Drawing, Quiet, Ordinary
<1>7. /\ WindowBind(st).late = {H("issuer_field")}
            \cup {AttributeField(k) : k \in 1 .. st.attributes}
            \cup {AttributeDigest(k) : k \in 1 .. st.attributes}
      /\ Ordinary(WindowBind(st))
  BY DEF WindowBind, Drawing, Quiet, Ordinary
<1>8. Validity.late = {H("issuer_field")} /\ Ordinary(Validity)
  BY DEF Validity, Drawing, Quiet, Ordinary
<1>9. MsoPayloadBind.late = {H("issuer_field"), H("mso_field")} /\ Ordinary(MsoPayloadBind)
  BY DEF MsoPayloadBind, Drawing, Quiet, Ordinary
<1>10. Age(field).late = {field} /\ Ordinary(Age(field))
  BY DEF Age, Drawing, Quiet, Ordinary
<1>11. Nat256(field).late = {field} /\ Ordinary(Nat256(field))
  BY DEF Nat256, Drawing, Quiet, Ordinary
<1>12. RevocationPublic.late = {} /\ Ordinary(RevocationPublic)
  BY DEF RevocationPublic, Quiet, Ordinary
<1>13. /\ RevocationRange(st).late = {H("mso_digest")}
             \cup (IF st.signature THEN {H("revocation_message_field")} ELSE {})
       /\ Ordinary(RevocationRange(st))
  BY DEF RevocationRange, Drawing, Quiet, Ordinary
<1>14. MdocCoprocessor.late = {}
  BY DEF MdocCoprocessor, Quiet
<1>15. MdocMac.late = {H("issuer_digest"), H("issuer_field")}
  BY DEF MdocMac, Drawing, Quiet
<1> QED
  BY <1>1, <1>2, <1>3, <1>4, <1>5, <1>6, <1>7, <1>8, <1>9, <1>10, <1>11, <1>12, <1>13, <1>14, <1>15

(* The statements mdoc.rs proves: the predicates read disclosed attributes. *)
MdocStatement(st) ==
    /\ st.attributes \in Nat
    /\ st.age \in 0 .. st.attributes /\ st.nat \in 0 .. st.attributes
    /\ st.coprocessor \in BOOLEAN
    /\ st.range \in BOOLEAN /\ st.public \in BOOLEAN /\ st.signature \in BOOLEAN

(* The module list of every mdoc statement is wired in order: no relation  *)
(* handle is read before the module that sets it has run (the get of       *)
(* relations.rs panics on an unset handle), the MAC follows its bundle and *)
(* there is one coprocessor.                                               *)
THEOREM MdocWired ==
    ASSUME NEW st, MdocStatement(st)
    PROVE  WiredInOrder(MdocModules(st))
<1> DEFINE issuerP256 == P256("issuer_p256", {"issuerKey"}, {H("issuer_scalar_z")})
           deviceP256 == P256("device_p256", {"session"}, {H("device_scalar_z")})
           revocationP256 ==
               P256("revocation_p256", {"revocationKey"}, {H("revocation_scalar_z")})
           issuerBridge == DigestBind("issuer_bridge", H("issuer_scalar_z"), H("issuer_digest"))
           deviceBridge == DigestBind("device_bridge", H("device_scalar_z"), H("device_digest"))
           revocationBridge ==
               DigestBind("revocation_bridge", H("revocation_scalar_z"), H("revocation_digest"))
           deviceBind ==
               PublicDigestBind("device_public_digest_bind", {"session"}, H("device_digest"))
           revocationBind ==
               PublicDigestBind("revocation_public_digest_bind", {}, H("revocation_digest"))
           p1 == IF st.coprocessor
                 THEN <<IssuerSha, DeviceSha, deviceBind>>
                 ELSE <<issuerP256, IssuerSha, issuerBridge, deviceP256, DeviceSha, deviceBridge>>
           p2 == Optional(~st.coprocessor /\ st.signature, revocationP256)
           p3 == Optional(st.range, MsoSha)
           p4 == Optional(st.signature, RevocationSha)
           p5 == Optional(~st.coprocessor /\ st.signature, revocationBridge)
           p6 == Optional(st.coprocessor /\ st.signature, revocationBind)
           p7 == [i \in 1 .. st.attributes |-> AttributeSha(i)]
           p8 == <<WindowBind(st), Validity>>
           p9 == Optional(st.range, MsoPayloadBind)
           p10 == Optional(st.age # 0, Age(AttributeField(st.age)))
           p11 == Optional(st.nat # 0, Nat256(AttributeField(st.nat)))
           p12 == Optional(st.public, RevocationPublic)
           p13 == Optional(st.range, RevocationRange(st))
           l0 == <<ShaTables>>
           l1 == l0 \o p1
           l2 == l1 \o p2
           l3 == l2 \o p3
           l4 == l3 \o p4
           l5 == l4 \o p5
           l6 == l5 \o p6
           l7 == l6 \o p7
           l8 == l7 \o p8
           l9 == l8 \o p9
           l10 == l9 \o p10
           l11 == l10 \o p11
           l12 == l11 \o p12
           l13 == l12 \o p13
           last == IF st.coprocessor THEN <<MdocCoprocessor, MdocMac>> ELSE <<>>
<1>1. MdocModules(st) = l13 \o last
  BY DEF MdocModules
<1>2. \A present \in BOOLEAN : \A module :
         /\ IsSequence(Optional(present, module))
         /\ Elements(Optional(present, module)) = IF present THEN {module} ELSE {}
  BY OptionalElements
<1>3. /\ st.coprocessor \in BOOLEAN /\ st.range \in BOOLEAN /\ st.public \in BOOLEAN
      /\ st.signature \in BOOLEAN /\ (~st.coprocessor /\ st.signature) \in BOOLEAN
      /\ (st.coprocessor /\ st.signature) \in BOOLEAN
      /\ (st.age # 0) \in BOOLEAN /\ (st.nat # 0) \in BOOLEAN /\ st.attributes \in Nat
  BY DEF MdocStatement
<1>set. /\ issuerP256.sets = {H("issuer_scalar_z")} /\ issuerP256.late = {}
        /\ deviceP256.sets = {H("device_scalar_z")} /\ deviceP256.late = {}
        /\ revocationP256.sets = {H("revocation_scalar_z")} /\ revocationP256.late = {}
  BY DEF P256, Drawing, Quiet
<1>read. /\ issuerBridge.late = {H("issuer_scalar_z"), H("issuer_digest")}
         /\ deviceBridge.late = {H("device_scalar_z"), H("device_digest")}
         /\ revocationBridge.late = {H("revocation_scalar_z"), H("revocation_digest")}
         /\ deviceBind.late = {H("device_digest")} /\ revocationBind.late = {H("revocation_digest")}
  BY DEF DigestBind, PublicDigestBind, Drawing, Quiet
<1>plain. /\ Ordinary(issuerP256) /\ Ordinary(deviceP256) /\ Ordinary(revocationP256)
          /\ Ordinary(issuerBridge) /\ Ordinary(deviceBridge) /\ Ordinary(revocationBridge)
          /\ Ordinary(deviceBind) /\ Ordinary(revocationBind)
  BY DEF P256, DigestBind, PublicDigestBind, Drawing, Quiet, Ordinary
<1> HIDE DEF issuerP256, deviceP256, revocationP256, issuerBridge, deviceBridge, revocationBridge,
             deviceBind, revocationBind
<1>4. /\ IsSequence(l0) /\ Elements(l0) = {ShaTables} /\ Len(l0) >= 1 /\ l0[1] = ShaTables
  <2>1. \A m : IsSequence(<<m>>) /\ Elements(<<m>>) = {m}
    BY LiteralElements
  <2>2. \A m : Len(<<m>>) = 1 /\ <<m>>[1] = m
    BY Literals
  <2> QED BY <2>1, <2>2
<1>5. /\ IsSequence(p1)
      /\ Elements(p1) = 
          IF st.coprocessor
          THEN {IssuerSha, DeviceSha, deviceBind}
          ELSE {issuerP256, IssuerSha, issuerBridge, deviceP256, DeviceSha, deviceBridge}
  <2>1. CASE st.coprocessor
    <3> DEFINE three == <<IssuerSha, DeviceSha, deviceBind>>
    <3>1. IsSequence(three)
      BY DEF IsSequence
    <3>2. Elements(three) = {IssuerSha, DeviceSha, deviceBind}
      BY DEF Elements
    <3> QED BY <2>1, <3>1, <3>2
  <2>2. CASE ~st.coprocessor
    <3> DEFINE six == <<issuerP256, IssuerSha, issuerBridge, deviceP256, DeviceSha, deviceBridge>>
    <3>1. IsSequence(six)
      BY DEF IsSequence
    <3>2. Elements(six) = {issuerP256, IssuerSha, issuerBridge, deviceP256, DeviceSha, deviceBridge}
      BY DEF Elements
    <3> QED BY <2>2, <3>1, <3>2
  <2> QED BY <1>3, <2>1, <2>2
<1>6. /\ IsSequence(p2)
      /\ Elements(p2) = IF ~st.coprocessor /\ st.signature THEN {revocationP256} ELSE {}
  BY <1>2, <1>3
<1>7. /\ IsSequence(p3)
      /\ Elements(p3) = IF st.range THEN {MsoSha} ELSE {}
  BY <1>2, <1>3
<1>8. /\ IsSequence(p4)
      /\ Elements(p4) = IF st.signature THEN {RevocationSha} ELSE {}
  BY <1>2, <1>3
<1>9. /\ IsSequence(p5)
      /\ Elements(p5) = IF ~st.coprocessor /\ st.signature THEN {revocationBridge} ELSE {}
  BY <1>2, <1>3
<1>10. /\ IsSequence(p6)
       /\ Elements(p6) = IF st.coprocessor /\ st.signature THEN {revocationBind} ELSE {}
  BY <1>2, <1>3
<1>11. /\ IsSequence(p7)
       /\ Elements(p7) = {AttributeSha(i) : i \in 1 .. st.attributes}
  BY <1>3, AttributeElements
<1>12. /\ IsSequence(p8)
       /\ Elements(p8) = {WindowBind(st), Validity}
  BY LiteralElements
<1>13. /\ IsSequence(p9)
       /\ Elements(p9) = IF st.range THEN {MsoPayloadBind} ELSE {}
  BY <1>2, <1>3
<1>14. /\ IsSequence(p10)
       /\ Elements(p10) = IF st.age # 0 THEN {Age(AttributeField(st.age))} ELSE {}
  BY <1>2, <1>3
<1>15. /\ IsSequence(p11)
       /\ Elements(p11) = IF st.nat # 0 THEN {Nat256(AttributeField(st.nat))} ELSE {}
  BY <1>2, <1>3
<1>16. /\ IsSequence(p12)
       /\ Elements(p12) = IF st.public THEN {RevocationPublic} ELSE {}
  BY <1>2, <1>3
<1>17. /\ IsSequence(p13)
       /\ Elements(p13) = IF st.range THEN {RevocationRange(st)} ELSE {}
  BY <1>2, <1>3
<1>18. /\ IsSequence(last)
       /\ last = <<>> \/ last = <<MdocCoprocessor, MdocMac>>
       /\ Elements(last) = IF st.coprocessor THEN {MdocCoprocessor, MdocMac} ELSE {}
  BY <1>3, LiteralElements
<1> HIDE DEF p1, p2, p3, p4, p5, p6, p7, p8, p9, p10, p11, p12, p13, l0, last
<1>19. /\ IsSequence(l1) /\ Elements(l1) = Elements(l0) \cup Elements(p1)
       /\ Len(l1) >= 1 /\ l1[1] = ShaTables
  BY <1>4, <1>5, ConcatElements
<1> HIDE DEF l1
<1>20. /\ IsSequence(l2) /\ Elements(l2) = Elements(l1) \cup Elements(p2)
       /\ Len(l2) >= 1 /\ l2[1] = ShaTables
  BY <1>19, <1>6, ConcatElements
<1> HIDE DEF l2
<1>21. /\ IsSequence(l3) /\ Elements(l3) = Elements(l2) \cup Elements(p3)
       /\ Len(l3) >= 1 /\ l3[1] = ShaTables
  BY <1>20, <1>7, ConcatElements
<1> HIDE DEF l3
<1>22. /\ IsSequence(l4) /\ Elements(l4) = Elements(l3) \cup Elements(p4)
       /\ Len(l4) >= 1 /\ l4[1] = ShaTables
  BY <1>21, <1>8, ConcatElements
<1> HIDE DEF l4
<1>23. /\ IsSequence(l5) /\ Elements(l5) = Elements(l4) \cup Elements(p5)
       /\ Len(l5) >= 1 /\ l5[1] = ShaTables
  BY <1>22, <1>9, ConcatElements
<1> HIDE DEF l5
<1>24. /\ IsSequence(l6) /\ Elements(l6) = Elements(l5) \cup Elements(p6)
       /\ Len(l6) >= 1 /\ l6[1] = ShaTables
  BY <1>23, <1>10, ConcatElements
<1> HIDE DEF l6
<1>25. /\ IsSequence(l7) /\ Elements(l7) = Elements(l6) \cup Elements(p7)
       /\ Len(l7) >= 1 /\ l7[1] = ShaTables
  BY <1>24, <1>11, ConcatElements
<1> HIDE DEF l7
<1>26. /\ IsSequence(l8) /\ Elements(l8) = Elements(l7) \cup Elements(p8)
       /\ Len(l8) >= 1 /\ l8[1] = ShaTables
  BY <1>25, <1>12, ConcatElements
<1> HIDE DEF l8
<1>27. /\ IsSequence(l9) /\ Elements(l9) = Elements(l8) \cup Elements(p9)
       /\ Len(l9) >= 1 /\ l9[1] = ShaTables
  BY <1>26, <1>13, ConcatElements
<1> HIDE DEF l9
<1>28. /\ IsSequence(l10) /\ Elements(l10) = Elements(l9) \cup Elements(p10)
       /\ Len(l10) >= 1 /\ l10[1] = ShaTables
  BY <1>27, <1>14, ConcatElements
<1> HIDE DEF l10
<1>29. /\ IsSequence(l11) /\ Elements(l11) = Elements(l10) \cup Elements(p11)
       /\ Len(l11) >= 1 /\ l11[1] = ShaTables
  BY <1>28, <1>15, ConcatElements
<1> HIDE DEF l11
<1>30. /\ IsSequence(l12) /\ Elements(l12) = Elements(l11) \cup Elements(p12)
       /\ Len(l12) >= 1 /\ l12[1] = ShaTables
  BY <1>29, <1>16, ConcatElements
<1> HIDE DEF l12
<1>31. /\ IsSequence(l13) /\ Elements(l13) = Elements(l12) \cup Elements(p13)
       /\ Len(l13) >= 1 /\ l13[1] = ShaTables
  BY <1>30, <1>17, ConcatElements
<1> HIDE DEF l13
<1>32. /\ IsSequence(l13 \o last)
       /\ Elements(l13 \o last) = Elements(l13) \cup Elements(last)
  <2>1. IsSequence(l13) /\ IsSequence(last)
    BY <1>31, <1>18
  <2> QED BY <2>1, ConcatElements
<1> DEFINE all == Elements(l13 \o last)
<1>33. all = Elements(l0) \cup Elements(p1) \cup Elements(p2) \cup Elements(p3) \cup Elements(p4)
             \cup Elements(p5) \cup Elements(p6) \cup Elements(p7) \cup Elements(p8)
             \cup Elements(p9) \cup Elements(p10) \cup Elements(p11) \cup Elements(p12)
             \cup Elements(p13) \cup Elements(last)
  BY <1>19, <1>20, <1>21, <1>22, <1>23, <1>24, <1>25, <1>26, <1>27, <1>28, <1>29, <1>30, <1>31, <1>32
<1>34. Elements(l13) \subseteq Elements(l0) \cup Elements(p1) \cup Elements(p2) \cup Elements(p3)
             \cup Elements(p4) \cup Elements(p5) \cup Elements(p6) \cup Elements(p7)
             \cup Elements(p8) \cup Elements(p9) \cup Elements(p10) \cup Elements(p11)
             \cup Elements(p12) \cup Elements(p13)
  BY <1>19, <1>20, <1>21, <1>22, <1>23, <1>24, <1>25, <1>26, <1>27, <1>28, <1>29, <1>30, <1>31
<1> HIDE DEF all
<1>35. /\ IssuerSha \in all /\ DeviceSha \in all
       /\ ~st.coprocessor => issuerP256 \in all /\ deviceP256 \in all
       /\ ~st.coprocessor /\ st.signature => revocationP256 \in all
       /\ st.range => MsoSha \in all
       /\ st.signature => RevocationSha \in all
       /\ \A k \in 1 .. st.attributes : AttributeSha(k) \in all
  <2>1. IssuerSha \in all /\ DeviceSha \in all
    BY <1>5, <1>33
  <2>2. ~st.coprocessor => issuerP256 \in all /\ deviceP256 \in all
    BY <1>5, <1>33
  <2>3. ~st.coprocessor /\ st.signature => revocationP256 \in all
    BY <1>6, <1>33
  <2>4. st.range => MsoSha \in all
    BY <1>7, <1>33
  <2>5. st.signature => RevocationSha \in all
    BY <1>8, <1>33
  <2>6. \A k \in 1 .. st.attributes : AttributeSha(k) \in all
    BY <1>11, <1>33
  <2> QED BY <2>1, <2>2, <2>3, <2>4, <2>5, <2>6
<1>36. /\ H("issuer_digest") \in IssuerSha.sets /\ H("issuer_field") \in IssuerSha.sets
       /\ H("device_digest") \in DeviceSha.sets
       /\ H("mso_digest") \in MsoSha.sets /\ H("mso_field") \in MsoSha.sets
       /\ H("revocation_digest") \in RevocationSha.sets
       /\ H("revocation_message_field") \in RevocationSha.sets
       /\ \A k : AttributeDigest(k) \in AttributeSha(k).sets
               /\ AttributeField(k) \in AttributeSha(k).sets
       /\ H("issuer_scalar_z") \in issuerP256.sets /\ H("device_scalar_z") \in deviceP256.sets
       /\ H("revocation_scalar_z") \in revocationP256.sets
  <2>1. /\ H("issuer_digest") \in IssuerSha.sets /\ H("issuer_field") \in IssuerSha.sets
        /\ H("device_digest") \in DeviceSha.sets
        /\ H("mso_digest") \in MsoSha.sets /\ H("mso_field") \in MsoSha.sets
        /\ H("revocation_digest") \in RevocationSha.sets
        /\ H("revocation_message_field") \in RevocationSha.sets
    BY MdocModuleFields
  <2>2. \A k : AttributeSha(k).sets = {AttributeDigest(k), AttributeField(k)}
    BY MdocModuleFields
  <2>3. /\ H("issuer_scalar_z") \in issuerP256.sets /\ H("device_scalar_z") \in deviceP256.sets
        /\ H("revocation_scalar_z") \in revocationP256.sets
    BY <1>set
  <2> QED BY <2>1, <2>2, <2>3
<1> DEFINE Has(h) == \E o \in all : h \in o.sets
<1>37. /\ Has(H("issuer_digest")) /\ Has(H("issuer_field")) /\ Has(H("device_digest"))
       /\ st.range => Has(H("mso_digest")) /\ Has(H("mso_field"))
       /\ st.signature => Has(H("revocation_digest")) /\ Has(H("revocation_message_field"))
       /\ \A k \in 1 .. st.attributes : Has(AttributeDigest(k)) /\ Has(AttributeField(k))
       /\ ~st.coprocessor => Has(H("issuer_scalar_z")) /\ Has(H("device_scalar_z"))
       /\ ~st.coprocessor /\ st.signature => Has(H("revocation_scalar_z"))
  BY <1>35, <1>36
<1> HIDE DEF Has
<1> DEFINE Fine(m) == Ordinary(m) /\ \A h \in m.late : Has(h)
<1>38. \A m \in Elements(l0) : Fine(m)
  BY <1>4, MdocModuleFields
<1>39. \A m \in Elements(p1) : Fine(m)
  <2>1. Fine(IssuerSha) /\ Fine(DeviceSha)
    BY MdocModuleFields
  <2>2. Fine(deviceBind)
    BY <1>37, <1>read, <1>plain
  <2>3. ~st.coprocessor => Fine(issuerP256) /\ Fine(deviceP256)
    BY <1>set, <1>plain
  <2>4. ~st.coprocessor => Fine(issuerBridge) /\ Fine(deviceBridge)
    BY <1>37, <1>read, <1>plain
  <2> QED BY <1>5, <2>1, <2>2, <2>3, <2>4
<1>40. \A m \in Elements(p2) : Fine(m)
  BY <1>6, <1>set, <1>plain
<1>41. \A m \in Elements(p3) : Fine(m)
  BY <1>7, MdocModuleFields
<1>42. \A m \in Elements(p4) : Fine(m)
  BY <1>8, MdocModuleFields
<1>43. \A m \in Elements(p5) : Fine(m)
  BY <1>9, <1>37, <1>read, <1>plain
<1>44. \A m \in Elements(p6) : Fine(m)
  BY <1>10, <1>37, <1>read, <1>plain
<1>45. \A m \in Elements(p7) : Fine(m)
  <2>1. \A k : AttributeSha(k).late = {} /\ Ordinary(AttributeSha(k))
    BY MdocModuleFields
  <2> QED BY <1>11, <2>1
<1>46. \A m \in Elements(p8) : Fine(m)
  <2>1. Fine(Validity)
    BY <1>37, MdocModuleFields
  <2>2. Fine(WindowBind(st))
    <3>1. /\ Ordinary(WindowBind(st))
          /\ WindowBind(st).late = {H("issuer_field")}
                \cup {AttributeField(k) : k \in 1 .. st.attributes}
                \cup {AttributeDigest(k) : k \in 1 .. st.attributes}
      BY MdocModuleFields
    <3> QED BY <1>37, <3>1
  <2> QED BY <1>12, <2>1, <2>2
<1>47. \A m \in Elements(p9) : Fine(m)
  BY <1>13, <1>37, MdocModuleFields
<1>48. \A m \in Elements(p10) : Fine(m)
  <2>1. st.age # 0 => st.age \in 1 .. st.attributes
    BY DEF MdocStatement
  <2>2. \A field : Age(field).late = {field} /\ Ordinary(Age(field))
    BY MdocModuleFields
  <2> QED BY <1>14, <1>37, <2>1, <2>2
<1>49. \A m \in Elements(p11) : Fine(m)
  <2>1. st.nat # 0 => st.nat \in 1 .. st.attributes
    BY DEF MdocStatement
  <2>2. \A field : Nat256(field).late = {field} /\ Ordinary(Nat256(field))
    BY MdocModuleFields
  <2> QED BY <1>15, <1>37, <2>1, <2>2
<1>50. \A m \in Elements(p12) : Fine(m)
  BY <1>16, MdocModuleFields
<1>51. \A m \in Elements(p13) : Fine(m)
  <2>1. /\ RevocationRange(st).late = {H("mso_digest")}
              \cup (IF st.signature THEN {H("revocation_message_field")} ELSE {})
        /\ Ordinary(RevocationRange(st))
    BY MdocModuleFields
  <2> QED BY <1>17, <1>37, <2>1
<1>52. \A m \in Elements(last) : \A h \in m.late : Has(h)
  BY <1>18, <1>37, MdocModuleFields
<1>53. \A m \in Elements(l13) : Fine(m)
  BY <1>34, <1>38, <1>39, <1>40, <1>41, <1>42, <1>43, <1>44, <1>45, <1>46, <1>47, <1>48, <1>49, <1>50, <1>51
<1>54. \A m \in Elements(l13 \o last) : Provided(Elements(l13 \o last), m)
  BY <1>32, <1>52, <1>53 DEF Provided, Has, all
<1>55. \A m \in Elements(l13) : Ordinary(m)
  BY <1>53
<1>56. WiredInOrder(l13 \o last)
  BY <1>31, <1>18, <1>54, <1>55, ListWired
<1> QED BY <1>1, <1>56

(* The module list of every identity statement is wired in order.          *)
THEOREM IdentityWired ==
    ASSUME NEW st, st.coprocessor \in BOOLEAN
    PROVE  WiredInOrder(IdentityModules(st))
<1> DEFINE signature == P256("p256", {"issuerKey"}, {H("scalar_z")})
           nonce == P256("nonce_p256", {"session"}, {})
           bridge == DigestBind("bridge", H("scalar_z"), H("digest"))
           bind == PublicDigestBind("public_digest_bind", {}, H("digest"))
           age == Age(H("field"))
           nat == Nat256(H("field"))
           coprocessor == [Quiet EXCEPT !.name = H("coprocessor"), !.post = "batch",
                                        !.projection = {"issuerKey", "session"}]
           coprocessed == <<IdentitySha, bind, age, nat, coprocessor>>
           inCircuit == <<signature, nonce, IdentitySha, bridge, age, nat>>
<1>1. /\ IdentitySha.sets = {H("digest"), H("field")} /\ IdentitySha.late = {}
      /\ IdentitySha.early = {} /\ IdentitySha.post = "none"
  BY DEF IdentitySha, Drawing, Quiet
<1>2. /\ signature.sets = {H("scalar_z")} /\ signature.late = {}
      /\ signature.early = {} /\ signature.post = "none"
      /\ nonce.late = {} /\ nonce.early = {} /\ nonce.post = "none"
  BY DEF P256, Drawing, Quiet
<1>3. /\ bridge.late = {H("scalar_z"), H("digest")} /\ bridge.early = {} /\ bridge.post = "none"
      /\ bind.late = {H("digest")} /\ bind.early = {} /\ bind.post = "none"
  BY DEF DigestBind, PublicDigestBind, Drawing, Quiet
<1>4. /\ age.late = {H("field")} /\ age.early = {} /\ age.post = "none"
      /\ nat.late = {H("field")} /\ nat.early = {} /\ nat.post = "none"
  BY DEF Age, Nat256, Drawing, Quiet
<1>5. coprocessor.late = {} /\ coprocessor.early = {} /\ coprocessor.post = "batch"
  BY DEF Quiet
<1>6. IdentityModules(st) = IF st.coprocessor THEN coprocessed ELSE inCircuit
  BY DEF IdentityModules
<1> HIDE DEF signature, nonce, bridge, bind, age, nat, coprocessor
<1>7. /\ DOMAIN coprocessed = 1 .. 5
      /\ coprocessed[1] = IdentitySha /\ coprocessed[2] = bind /\ coprocessed[3] = age /\ coprocessed[4] = nat
      /\ coprocessed[5] = coprocessor
  OBVIOUS
<1>8. /\ DOMAIN inCircuit = 1 .. 6
      /\ inCircuit[1] = signature /\ inCircuit[2] = nonce /\ inCircuit[3] = IdentitySha
      /\ inCircuit[4] = bridge /\ inCircuit[5] = age /\ inCircuit[6] = nat
  OBVIOUS
<1> HIDE DEF coprocessed, inCircuit
<1>9. WiredInOrder(coprocessed)
  <2>1. \A i \in DOMAIN coprocessed : coprocessed[i].early = {} /\ coprocessed[i].post # "mac"
    BY <1>1, <1>3, <1>4, <1>5, <1>7
  <2>2. \A i \in DOMAIN coprocessed : coprocessed[i].post \in Coprocessors => i = 5
    BY <1>1, <1>3, <1>4, <1>5, <1>7 DEF Coprocessors
  <2>3. \A i \in DOMAIN coprocessed : \A h \in coprocessed[i].late : h \in coprocessed[1].sets
    BY <1>1, <1>3, <1>4, <1>5, <1>7
  <2> QED BY <1>7, <2>1, <2>2, <2>3 DEF WiredInOrder, OneCoprocessor
<1>10. WiredInOrder(inCircuit)
  <2>1. \A i \in DOMAIN inCircuit : inCircuit[i].early = {} /\ inCircuit[i].post = "none"
    BY <1>1, <1>2, <1>3, <1>4, <1>8
  <2>2. \A i \in DOMAIN inCircuit : \A h \in inCircuit[i].late :
            h \in inCircuit[1].sets \/ h \in inCircuit[3].sets
    BY <1>1, <1>2, <1>3, <1>4, <1>8
  <2> QED BY <1>8, <2>1, <2>2 DEF WiredInOrder, OneCoprocessor, Coprocessors
<1> QED BY <1>6, <1>9, <1>10
=============================================================================
