# TLA+ models of eu-id

eu-id proves statements about a signed EU identity credential ("over 18 on this
date", "nationality in this set", "not revoked") in zero knowledge. Several
AIR modules (SHA-256, P-256, predicates, byte-window bindings) are composed into
one STARK proof; with the `ec-coprocessor` feature the ECDSA checks move to a
sumcheck/Ligero prover whose output is bound to the STARK by a MAC.

The cryptography is assumed: hashes do not collide, the STARK and the
coprocessor accept only what they should. What is modelled is the code around
it, where the order of operations, the wiring between modules and state shared
by calls decide whether the cryptography is applied to the right thing.

## Inventory

| Component | State it keeps | Operations | Interacts through |
|---|---|---|---|
| air-core orchestration (`air-core/src/lib.rs`) | Fiat-Shamir channel, commitment scheme | `prove`, `verify_with_expected_preprocessed_root` | the `Air`/`AirProver` calls on each module |
| tree-0 assembly (same file) | seen ids, selected ids, layout | `assert_preprocessed_id_content_invariant`, `select_first_preprocessed_ids`, `write_selected_preprocessed`, `unique_preprocessed_layout` | column ids shared by modules |
| process caches (same file) | `TWIDDLE_CACHE`, `PREPROCESSED_ROOT_CACHE` | `cached_twiddles`, `compute_preprocessed_root[_uncached]` | two global mutexes |
| shared relations (`air-core/src/relations.rs`) | `Rc<RefCell<Option<R>>>` | `set`, `get` | handed from provider module to consumers |
| identity and mdoc composition (`eu-id-prover/src/lib.rs`, `mdoc.rs`, `mdoc_*.rs`) | module list, handles, MAC shared state, carried claims | `prove_identity*`, `prove_mdoc_circuit*`, `verify_*` | air-core, coprocessor bundle |
| mdoc parsing and extraction (`mdoc.rs`) | none | CBOR/COSE/DER readers, statement construction | byte windows used by the binding modules |
| ec-coprocessor ECDSA (`eu-id-ec-coprocessor/src/ecdsa.rs`) | witness tables, the bundle and its consistency values | `generate_witness`, `verify_witness`, the six circuit families, prove and verify of a batch or an mdoc bundle | fork/join with the STARK transcript, the MAC |
| ec-coprocessor protocols (`sumcheck.rs`, `ligero.rs`, `merkle.rs`) | transcript, Ligero tableau, Merkle tree | sumcheck, Ligero commit/open, Merkle openings | one verdict per circuit and one for the Ligero batch |
| predicates (`predicates`) | witness rows, lookup tables | age range check, nationality membership | the credential's field relation |
| stwo-p256 (`proof/mod.rs`, `components/fake_glv`, `final_check`, `scalar_setup`, ...) | the claim under construction, then tables | builder of a claim, half-GCD, prepared tables, chains, final addition, AIR components | a dozen internal relations; scalars, digests and keys of the credential |
| stwo-sha256 | traces and lookup tables | AIR components | digest, field and table relations |
| FFI, SDK, mobile | handles, buffers | C ABI and Kotlin/Swift API | eu-id-prover |

Hard behaviours: two threads in the caches with a lock released between lookup
and insert; poisoning; a deduplicated tree that four loops must agree about; a
transcript replayed by two separately written functions over module lists of a
dozen optional entries; interior-mutable handles read at the right time only if
the order is right; a key drawn after everything it authenticates; carry and
boundary cases in the predicates' arithmetic; a batch whose values are unlabelled
and are matched by the order of two separate walks; group operations that are
incomplete at the point at infinity; tables that number the same rows
independently. The full list, with lines, is
`hazards` in `PROJECT.json`.

What makes each component correct:

- *caches*: a call gets the root of its own modules; a lookup and an insert by
  two threads change nothing for a third; a size's twiddles are leaked once; a
  panic behind the mutex strands nobody.
- *tree 0*: one tree, the same for prover, verifier and root; every module's
  constraints read that module's column.
- *orchestration*: challenges come after everything they must depend on; both
  sides absorb the same; no handle is read before it is set; a proof is accepted
  only for the statement it was made for, and then always.
- *binding*: what the predicates, ECDSA and the revocation check were proven for
  are bytes of the messages whose digests were signed.
- *predicates*: what is accepted is what the calendar says; what validation
  admits is proved and verified.
- *SHA-256*: one digest per trace, and the exposed bytes are of its message.
- *coprocessor ECDSA*: native verification is ECDSA; what has a witness is
  accepted by all six circuits and they bind the final point; the bundle is
  accepted exactly when all its circuits speak of the published signatures.
- *P-256*: a claim is built exactly for valid signatures, up to the scalars that
  the group operations cannot treat, and the tables of a built claim agree.

## Modules and their correspondence to the code

| Module | Models | State | Actions |
|---|---|---|---|
| `ProcessCaches` | both global caches of air-core | the two maps, the twiddle mutex with its poison flag, leaked trees, per-thread pc | one per critical section of `cached_twiddles` and `compute_preprocessed_root[_uncached]`, and the panic inside of the precomputation |
| `RootService` | the promise behind the caches: a call is answered once, with the root that is a function of its module set, or panics | per caller: what was asked, what was answered | `Ask`, `Reply` |
| `Tree0` | preprocessed-tree assembly | loop position, `seen`, unique ids, per-module selections, tree, layout | one per loop body and loop end; the assertions that may fire |
| `AirCompose` | `prove`, `verify_with_expected_preprocessed_root` | per side: phase, loop position, channel, handles, coprocessor seed, MAC state | `Prove` and `Verify` advance one phase for one module; `Deliver` hands over the proof, one part possibly changed |
| `MdocPipeline` | `prove/verify_mdoc_circuit_with_config`, `prove/verify_identity*` | none (operators) | which modules, order, handles, gates |
| `Age` | age predicate, both strategies | statement, birth, row, step | validation, witness, trace row, commitment, verification |
| `Sha256Trace` | `Sha256Eval`, `generate_trace`, `field_exposure.rs` | the last row's cells, what was yielded | next round, next block |
| `MdocValidity` | date and country rows | none (operators) | the constraints of a row |
| `MdocBinding` | statement extraction, exposed windows, rows of every binding module, the sum over the relations | credential, statement, hashed messages, rows, stage, verdict | one per module that writes its trace; `Refuses`; `Verify` |
| `EcdsaWitness` | `generate_witness`, `verify_witness`, the families c1, c2, c3, c11, c12, c14 of the coprocessor's ECDSA | the witness as far as it is written, the ladder in progress, three verdicts | one per step of witness generation and per ladder bit; one slot altered; native verification; the circuits |
| `CoprocessorBundle` | prove and verify of the batch and of the mdoc bundle | bundle, both sides' layouts, linear claims, the cursor over the consistency values, what the verifier keeps per signer | lay out per instance and commit; prove and claim per instance; transmission with at most one fault; the verifier's layout and walk per instance; the final checks |
| `FakeGlv` | half-GCD, hint, selectors, prepared table and chain step of stwo-p256 | none (operators) | |
| `P256Claim` | native reference verification and the builder of a P-256 claim | scalars, the rows of the half-GCD, hint, selectors, tables, chain accumulator, final check and addition | one per builder step; one per half-GCD and chain step; every refusal |
| `P256Air` | the entries that the tables of a built claim add to the internal relations | none (operators over `P256Claim`'s state) | |
| `LimbRows` | what single rows of the scalar's constraints admit: canonical limbs, digest reduction, product chunks and digits, reduction carries, half scalars cut out of selector bits | none (operators) | |
| `ScalarSetup` | the constraints from digest, r and s to u1, u2 and a hint's half scalars, for any prover and for the one the code computes | what the filled rows hold; of the product in progress the digit, the quotient's limbs, the two accumulators and the carry | one per row or per product digit; `Refuse` |
| `*Proofs` | theorems of the module they are named for; `Tree0Proofs` also those of `ProcessCaches`, which keeps the root that `Tree0` assembles; `SignatureProofs` those of `Sha256Trace`, which hashes the signed message, and of `EcdsaWitness`, which verifies the signature | | |
| `MC*` | constants for TLC | | |

`MCMdocPipeline` composes `AirCompose` with `MdocPipeline`: the protocol is
generic in its module lists, the pipelines supply them. `MdocBinding` uses
`MdocValidity`, and stands on the guarantees of `Sha256Trace` (bytes exposed are
bytes of the hashed message) and of `AirCompose` (the sum is verified for the
intended statement); `AirCompose` stands on `Tree0`. `MdocBinding` takes the
ECDSA proof as a fact about a hash and a key: `P256Claim` and `P256Air` show it
for the build in the STARK, `EcdsaWitness` and `CoprocessorBundle` for the
coprocessor build. At these seams one module assumes what another one shows; the
composition of all of them in one state space is not checked. `P256Air` extends
`P256Claim`, which extends `FakeGlv`. `ScalarSetup` extends `LimbRows`, which
extends `FakeGlv`: it shows of the scalars, limb by limb, what `P256Claim`
computes with as integers. `ProcessCaches` implements `RootService`:
`Service == INSTANCE RootService` with the refinement mapping that shows a
thread's call while it runs and its answer once it returned.

The cryptography is abstract throughout: a channel is the list of what it
absorbed, a challenge is its position; a SHA-256 value is the sequence of blocks
absorbed (`Sha256Trace`) or an operator constant (`MdocBinding`, where nothing
assumes that it does not collide: a collision would be accepted, and the
properties speak of hashes); a committed column is its content. `EcdsaWitness`
computes on a real short Weierstrass curve over a small field, because its
circuits are equations over coordinates. In `P256Claim` a point is its discrete
logarithm, since the builder and the relations only add, double, negate and
compare points and read x coordinates, which are a constant table; an
elliptic-curve formula that is wrong for finite points would not be seen there.
`ScalarSetup` computes in a small prime field with real limbs; a lookup between
two rows is the equality it enforces, because the fixed schedule asks for each
limb and each digit of a product id as often as one complete set of rows offers
it. In `CoprocessorBundle` a committed value is a token that is or is not the value of
the signature meant.

## Runs

| Run | Instance | Shows |
|---|---|---|
| `caches` | 3 threads, 3 default-build module sets in 2 sizes, 1 size whose precomputation panics | own roots, one twiddle tree per size, every call ends, refinement of `RootService` |
| `caches_legacy` (violation) | 2 threads, 1 shape with witness-dependent content | the cached variant returns a foreign root |
| `tree0` | all compositions of 2 modules with up to 2 columns and of 3 with up to 1, 2 ids, 3 columns | modules that write partial trees or not, that expose fingerprints or not: ids resolve to own columns; the layout describes the tree; no panic in composable lists |
| `mdoc_compose` | every pipeline, both builds, all options; the verifier's statement differs in nothing, in one aspect or one option; every proof part damaged | transcript, handle and acceptance properties, completeness |
| `age` | 21 statements at leap days, year ends, century years and the widest bounds whose keys fit 30 bits, among them bounds that disagree; 1089 births | both strategies accept exactly what birthdays say; a panic or a late rejection comes of disagreeing bounds alone |
| `sha256_trace` | up to 4 blocks of 4 rows, 3 messages, 5 exposures, honest and any prover | one digest, exposed bytes hashed, nothing twice, honest traces admitted |
| `mdoc_binding` | 4 credentials of 1-4 attributes of every mode, both builds, 5 revocation settings, honest and any prover | accepted proofs keep all promises; every honest proof is accepted, or refused for what its row says |
| `ecdsa_witness` | the curve y^2 = x^3 - 3x + 10 over 11 elements, order 7; every hash, r and s in 0..7, every key, a key off the curve and one out of the field | which inputs have a witness; native verification is ECDSA; the circuits agree with it and bind the final point |
| `coprocessor_bundle` | every projection of 1-3 signers, batch and mdoc, with and without revocation; single and joint deviations of cells; 10 faults of the bundle; verifiers called with other arguments | honest bundles accepted; accepted ones speak of one point, of the published values, of the signed hash and key, and of the intended call |
| `p256_claim` | group of order 46337, 5167 inputs | every half-GCD fits; chains bind the hint point; only scalars 1 and -1 are refused wrongly; claims only for valid signatures; all relations of a built claim balance |
| `scalar_setup` | order 491 in three limbs of four bits, a field of 2003; 30 inputs, 8 of them with a certificate followed to its half scalars; honest and any prover | whatever fills every row is the signature's u1 and u2 and a lattice relation of the followed scalar; honest values fill every row |
| `p256_reference` (violation) | the same as `p256_claim` | the native check accepts an r that is not the final x modulo the order |

Why the bounds are enough:

- *caches*: two threads make every race of the two lock sections, the third adds
  a bystander and a waiter behind a poisoned mutex; three module sets give equal
  and different sizes and different shapes.
- *tree0*: two modules show sharing, three show that the first of two earlier
  writers wins; two columns in a module show the partial write.
- *mdoc_compose*: module lists are the real ones, so nothing is scaled down but
  the number of aspects (one value and one other). More than one difference at a
  time only adds rejections.
- *age*: all comparisons are at a boundary, one below and one above; the
  supported years end on both sides within the births. The supported ages differ
  from the span of the years by two, 20 and 102 years, and are 14 and 30.
- *sha256_trace*: block 0 and the later blocks are exposed on different paths;
  two later blocks and one beyond the message occur. Four rows keep one row
  before, at and after the message row, which is all that the constraints tell
  apart.
- *mdoc_binding*: windows are compared byte by byte and by field id, so three-byte
  digests exercise what 32 do; a revocation id takes two of the three bytes, the
  least at which a byte chain hands on a carry and the digest has a tail. The
  range is absent, wide (unsigned and signed), the id's direct neighbours, or has
  the id itself for a neighbour. One element name has 24 bytes, so a two-byte CBOR
  head. Four attributes are the code's maximum. The dishonest prover's messages are those of the same shape
  with another item, key, date or permutation, its cells all hashes, copies and
  values that occur in them.
- *ecdsa_witness*: the instance is complete for its curve, so every exceptional
  case of the incomplete additions occurs: a ladder that passes infinity, equal
  and opposite addends, a final x at or above the order (two abscissae are), a
  zero u1, an r or s of zero or of the order.
- *coprocessor_bundle*: at most three signers exist in the code; signers beyond
  the first differ from it by their index only. The circuits' inner gates are
  assumed, so one value besides the right one is enough.
- *p256_claim*: the order is a prime just below the square of 2^7.75, so halves
  need the full width of 8 bits (C = 3 chunks), as 128 bits are needed for the
  256-bit order. Three abscissae and three digests lie at or above the order. All
  reachable answers of the builder occur (`SignatureInvalid`, `PointOffCurve`,
  `Zero`, `NonCanonical`, `InfinityFinalR`, `SignatureRMismatch`,
  `ProjectiveOutputMismatch`), the final addition adds and doubles, hints agree
  and differ in their signs, and certificate 1 is inactive for u1 = 0. The error
  paths for an unbounded hint, a use count out of range and inverse addends of
  the final addition are in the model and unreachable; the first is a theorem.

- *scalar_setup*: three limbs give coefficients of one, two and three terms, so of
  one and of two chunks; C = 2 makes a selector chunk straddle a limb, as chunks
  straddle the code's limbs of 13 bits; half scalars take two limbs. The field is
  just large enough that no honest expression reaches half of it, so everything
  that may wrap does. A dishonest prover tries every value below the order for
  u1, u2 and the quotients, every digit, carry and half scalar its rows admit.
  r and s lie at both ends of their range and outside of it; the digest is zero,
  below, at and above the order. A behaviour follows one certificate: the two
  share nothing but the setup row. Without the inverse of a nonzero scalar, or
  with unsigned carries in the digest's reduction, a property fails.

`mdoc_binding` prunes with `CONSTRAINT Supplied`: a dishonest prover's state is
not continued once a row that is already written is supplied by no window. The
windows are all there before the first row and never change, so such a state
cannot become accepted; the honest prover is never pruned. The theorems of
`MdocBindingProofs` use no such constraint.

Fairness. `AirCompose!FairSpec` has weak fairness of `Prove` and of `Verify`:
both are sequential loops that run to their end; whether a proof is ever
delivered is the caller's decision and is not assumed. `ProcessCaches!CacheFairSpec`
has weak fairness of every thread's `Work`: a thread that can run does, and a
mutex with finitely many callers is handed on. `CachesAreInvisible` includes the
fairness of `RootService`: no caller waits for another one forever. Nothing else
is a liveness claim. Deadlock checking is off where a run of the program ends;
`EcdsaWitness`, `CoprocessorBundle` and `P256Claim` mark their ends with a
stuttering action and keep it on. In `scalar_setup` a dishonest prover stops
wherever no value fills the next row; that the honest one does not is
`HonestSetupProves`.

## Theorems

| Theorem | Property | Rests on |
|---|---|---|
| `Tree0Proofs!CachesTypeCorrect`, `TwiddlesComputedOnce` | the types; `OneTreePerSize` | constants' types; the lock is held exactly by the thread that precomputes, and only for a missing size |
| `Tree0Proofs!RootSoundness`, `CacheStability`, `CachesRefineService` | `ReturnedRootIsOwn`; entries are final; every behaviour is one of `RootService` | `IdDeterminesContent`: two module sets of one shape have one content, which is what the legacy build breaks; invariant: every cached root is the root of every module set of its shape |
| `Tree0Proofs!TypeCorrect`, `OwnColumnsCommitted` | the types; `IdsResolveToOwnColumn` | `FingerprintsSeparate`; invariant: each seen id carries its first declaration's fingerprint, selections are disjoint and in order, the written tree is their concatenation |
| `Tree0Proofs!LayoutMatchesTree`, `ComposableIsCommitted` | `LayoutDescribesTree`; `ComposableNeverPanics` | nothing more; invariant: ids, selections and layout are all lists of first declarations up to the loop's position |
| `AirComposeProofs!InductiveInvariant`, `TypeCorrect`, `ChallengesBind`, `AcceptedAsIntended` | the invariant and the types; `ChallengesBindTrace`; `AcceptedIsIntended` | `PartsAssumption`, `SessionsAssumption`, `ModulesAssumption` (what sets a handle draws, only a coprocessor absorbs a projection), `CoprocessorAssumption` (one coprocessor in a list); TLC evaluates all four on the pipelines' lists |
| `AirComposeProofs!ReadsAfterWrites` | `NothingReadEarly` | the hypothesis `WiredSessions`: every list is wired in order |
| `AirComposeProofs!MdocWired`, `IdentityWired` | (the hypothesis `WiredSessions` for every list that `MdocPipeline` builds, any statement and both builds) | types of the statement's options |
| `AgeProofs!RangeCheckSound` | `AcceptedIsOldEnough` (range check) | types of statement and births; the borrow chain in M31 does not wrap because tables bound the deltas |
| `AgeProofs!BothStrategiesSound` | `AcceptedIsOldEnough` (both strategies) | the hypothesis `NarrowSpans`: date keys span at most 30 bits (those of `AgeBounds::new` take 16) |
| `AgeProofs!OutcomeDecided` | `OutcomeIsAge` (both strategies) | types of statements and births; bounds that disagree with each other are admitted, and `BoundsAgree` occurs in the property only |
| `SignatureProofs!HonestTraceComplete` | `HonestTraceProves` | `SizesAssumption` (a size for every message); invariant: the honest cells are the message's at the current block and round |
| `SignatureProofs` (`SingleDigest`, `FieldsOfHashedMessage`, `FieldsYieldedOnce`, `HonestTraceAdmitted`) | `OneDigest`, `ExposedBytesAreHashed`, `OneValuePerTarget`, `HonestRowsAdmitted` | row counts; invariant over the running chaining value, what was absorbed and what was exposed |
| `SignatureProofs` (`WitnessInvariant`, `OnlyExceptionalInputsRefused`, `NativeCheckIsEcdsa`, `CircuitsAgree`, `AcceptedFinalIsBound`) | the inductive invariant; `OnlyExceptionalRefused`; `NativeIsEcdsa`; `CircuitsAgreeWithNative`; `CircuitsBindFinal` | `PrimeAssumption` (order and field), `GroupAssumption` (the addition formulas are a group law on the curve, of that order), `CurveAssumption` (sizes, and Hasse's P < 2N), `InputsAssumption` |
| `MdocBindingProofs` (`TypeIsCorrect`, `DisclosedItemsAreIssued`, `PredicatesAreOfItems`, `PolicyDateIsCovered`, `DeviceKeyIsIssued`, `RevocationRangeIsBound`) | `ItemsAreIssued`, `PredicatesHold`, `ValidOnPolicyDate`, `SignedByDeviceKey`, `NotRevoked` (and type correctness) | the named assumptions on constants; `RevocationRangeIsBound` also on what a byte chain says of numbers (`ChainIsOrder`) |
| `MdocBindingProofs!HonestProofsBalance` | `HonestIsAccepted` | also `WidthsAssumption` and `BytesAssumption`: digests, key coordinates and revocation ids have the widths of their Rust arrays, and a digest and the neighbours are bytes |
| `CoprocessorBundleProofs!Invariance` | (the inductive invariant of both sides' loops) | `CasesAssumption` (what a call and a fault are), `BundleAssumption` (pad counts, row width) |
| `CoprocessorBundleProofs!IntendedAccepted`, `OnePoint`, `Published`, `MacOverSigned` | `AcceptedIsIntended`; `AcceptedIsOnePoint`; `AcceptedIsPublished`; `AcceptedMacIsOverSigned` | nothing more |
| `CoprocessorBundleProofs!HonestInvariance`, `HonestAccepted` | `HonestIsAccepted` (and what every phase of an honest run has made) | nothing more |
| `P256ClaimProofs!DecompositionAlwaysFits`, `BuiltIsValid`, `ChainAlwaysBinds` | `DecompositionFits`; `BuiltOnlyIfValid`; `ChainBindsHint` | `OrderAssumption` (a prime order whose halves fit), `WordAssumption`, `InputAssumption` |
| `P256ClaimProofs!OnlyUnitsRefused` | `OnlyUnitScalarsRefused` | also `LargeOrderAssumption`: a group of at least 49 points; in groups of 5 and 13 points other scalars meet infinity too |
| `P256ClaimProofs!BuiltRelationsBalance` | `RelationsBalance` | those of `OnlyUnitsRefused`, whose invariant it builds on |
| `ScalarSetupProofs!ProductEnds`, `RowsBound`, `ScalarsBound` | the product of any three rows as an equation of integers; the inductive invariant; `AcceptedScalarsAreBound` | `OrderAssumption`, `LimbAssumption` (limb sizes and a prime field), `FieldAssumption` (no equation of a row reaches the modulus, which `scalar_mod_mul_fits_m31_centered` asserts of the code's sizes), `InputsAssumption` |

The argument in `AgeProofs`: keys compare as birthdays do (`KeysCompareAges`), and
`max_days_at` is the Gregorian month length, so what the witness code refuses is
what the calendar and the birthday refuse. The honest row's deltas are the borrow
subtraction of dates, each inside its table and below the modulus
(`HonestRangeCheck`); its calendar index lies in the table because the table's
months are those of the supported years (`HonestLookups`); every decomposed value
takes no more bits than its bound needs (`BitsFit`, `HonestBits`). The invariant
`OutcomeInv` says of every step whether the holder is old enough. Bounds that
agree have tables of the right size (`CalendarSize`, `AgreeingCalendarFits`), and the
committed year delta is the number of years by which the holder is older than
asked (`YearDeltaIsSurplus`), so their table of deltas has it (`AgreeingDeltaFits`):
only other bounds panic or reject. Conversely a birth after the cutoff wraps its
slack to more than 2^31 - 2^26, which has more bits than any key of a narrow span
(`BitsAreSound`). The hypothesis `NarrowSpans` is needed: the remarks under Findings
say what the code does with wider spans.

The argument in `MdocBindingProofs`: finitely many requirements that balance
have a yield each (`UsedIsYielded`); up to four attributes the field ids of one
source are pairwise distinct, so the yield comes from the one window of that id
(`IssuerWindows`, `ItemWindows`); the message shows the row's cells at that
window (`Reading`). The invariant `IInv` adds that every row written so far
satisfies its own constraints and that a verdict keeps its promises; without the
first, a verdict would have nothing to lean on, since the properties speak only
of accepted proofs. The signed dates are compared as packed keys modulo M31;
`FittingDifference` and `KeyOrder` turn that into the order of calendar dates.
The revocation range is a row of two byte chains with carries and slack bytes.
A number is its bytes by Horner's rule (`HornerSteps`); whatever carries a prover
chose, from the highest byte down the first number with the carry that is still
due does not exceed the second, so at the lowest byte, where the carry is one, it
is smaller (`ChainOrders`). For two numbers in order the carries that an addition
makes fill the chain, and if their last one were not zero, from the highest byte
down the first number would be at or above the second (`ChainExists`). Both are
inductions over bytes, done by least counterexample.

The converse, `HonestProofsBalance`, is about lists that different functions
write. A window and a requirement belong to one field id of one source; on either
side an id occurs once (`WindowsUnique`, `UsesUnique`), every window has its row
(`WindowsUsed`) and every row its window (`UsesSupplied`), because extraction
found each value where the rows look for it. So the two sides pair off tuple by
tuple, and digests do likewise (`HonestDigestsMatch`). The invariant `HInv` adds
that as long as nobody deviates, the messages and rows written so far are the
honest ones, stage by stage; at the verdict they are all there (`HonestBalances`).
It also keeps that a refusal is one of the honest row itself; `RefusalIsDue` says of
which number, birth or country.

The argument in `AirComposeProofs`: a transcript is a fixed head (configuration,
tree 0, every module's public statement, tree 1), then draws, claimed sums and
tree 2, then what the post-interaction work adds. The invariant `IInv` says for
each side and each phase which of these the channel already holds and where
(`HeadInv`, `ItemInv`, `TailInv`), that every handle points at a draw behind the
head (`HandleInv`) and the seed at one behind tree 2 (`SeedInv`), and of the
verifier what it has compared with the prover's so far (`VerifierInv`). None of
this depends on the wiring. `AcceptedIsIntended` follows by comparing the two final
transcripts, which are equal: position by position the heads give the modules'
names, their number and their public parts, the items give the damage, and the
projections come from the comparison that accepted the bundle. Only
`NothingReadEarly` needs the order of the module lists, which `MdocWired` and
`IdentityWired` prove of the lists for any number of attributes, not only for
those that TLC runs.

The argument in `Tree0Proofs` for the layout: selection, writing and layout are
separate loops over the same modules. `Lists(L, j, l)` says that a sequence holds
exactly the first declarations before position `l` of module `j`, in their order;
two sequences that do are equal (`OneList`), so all loops agree without being
compared with one another.

The argument in `CoprocessorBundleProofs`: the values in a bundle carry no
labels, so what an accepted one binds rests on five loops that must agree: the
prover's layout, its proofs, its claims, the verifier's layout and its walk. The
number of consistency values sent before instance j is a running sum, `Mark`; the
place where its committed values begin is another, `Place`. Both are functions of
the case alone, and `IInv` has one part per phase that measures the loop by them:
in `InClaims` the prover has sent `Mark[at]` values, in `InInstances` the
verifier's cursor stands at `Mark[at]`. `Delivered` records the one mark that each
fault leaves; counts, root and openings exclude six faults and a differing mode,
seed or number of signatures before the walk begins (`Agreed`). For every instance
that the walk has passed, `Passed` says that its transcript was the verifier's own,
which claims were made of which cells, and what was kept. The two sides' separate
lists of instances are equal (`SameWalk`), and so are their lists of cells
(`SentIsPrivate`, `TakenIsPrivate`). When the batch opens, each claim speaks of
the committed cell (`HeldCell`), so what was kept is what was committed, and the
comparisons between families, with the published values and with the MAC's halves
become equalities of cells. A lost or added value leaves the cursor off
`Mark[N + 1]`; a changed one is no cell's; swapped proofs, and a
projection that the prover did not prove for, are in some transcript.

The converse, that nothing refuses an honest bundle, needs more than agreement:
`IInv` says where things lie and how many there are, the second invariant `HInv`
says what each of them is. Committed values, sent values and claims are each a
sequence of parts strung together in the instances' order (`Strung`, with `Place`,
`Mark` and `ClaimMark` the totals before each part); two sequences of the same
parts are equal (`StrungSame`), so the verifier's claims are the prover's and the
combined opening's weights and challenge are its own, and a part is cut out where
it begins (`PartCut`), so it takes what was sent of each instance. The circuits are
satisfied because every cell holds the signature's value (`SumcheckHonest`), the
families agree because what is kept of each is one signature's point
(`KeptHonest`), and `ClaimsHold` goes through the six kinds of claims: those of
inputs, pads and single cells open in group A, those of the MAC's quotients in
group B, which begins after group A's last row (`RowsCover`).

The argument in `P256ClaimProofs`: both rows of the half-GCD stay combinations
of the order and the scalar, their coefficients lie on different sides of zero
and their cross product stays the order. So a coefficient is at most the order
divided by the previous remainder, which is above the root while the division
goes on; primality keeps a remainder from being zero before it falls below the
root. The invariant `HintInv` has one part per stage: the scalars, the start of
the walk, the lattice and what the hint proves.

A claim is valid because of `ClaimInv`, again one part per stage: u1 and u2 are
the scalars of the signature, the hints are those of u1 and u2, every table is
that of its hint, the final point is u1 G + u2 Q, its x is r modulo the order.
For the converse half each refusal after the native check contradicts validity.
`ChainInv` follows one chain: after i steps the accumulator is the combination of
base and hint point with the digits that the selectors have shown so far
(`Prefix`), so after the last it is the combination with the half scalars, and the
scalar equation modulo the prime order cancels everything but the hint point.
The powers and prefixes are recursive functions; that they are defined is shown
by a least counterexample, since the induction theorems cannot be used.

`OnlyUnitsRefused` says when a row cannot be computed again: when it doubles or
adds onto infinity. The pairs (a, b) with a P + b R infinity, for base P and hint
R, form a lattice; the hint's half scalars are one of its vectors, short, and
coprime (`Short`, from the cross product of the half-GCD). A pair that an
operation starts from differs so little from a part of the hint that its cross
product with the hint is below the order; if it is in the lattice it is therefore
a multiple of the hint (`Parallel`), and the sizes leave only the hint (1, 1), of
the scalars 1 and -1: above the lowest chunk (`PrefixFinite`), before the last
correction (`LastFinite`) and for the table's point of the lowest chunk, which
for them is infinity (`FirstFinite`). `RowInv` carries this through the claim: the
rows of every other scalar are good, and the comparison that finds a bad one is
the only refusal of its name.

`BuiltRelationsBalance` adds what the tables look like. `ChainsMade` says of every
chain, as far as it is walked, what row stands at which place (`RowKept`: kind, step,
operand, the accumulator before and after) and where its curve operations stand
among all of them; `FinalMade` says that the final check and addition are made of
the two hints, each turned to its sign. Then each relation is taken alone. A sum over
all entries of one tuple is zero if the tuple has one provider whose multiplicity
is the number of its uses (`ProvidedBalanced`, `GroupProvided`; of one use each,
`MatchedBalanced`), so every proof names the provider and counts the users. Where
rows are numbered across both chains, the numbering is shown to hit every row once.
The prepared tables are followed by role: the schedule's cells of one role hold
the same point (`RoleCells`) and are as many as the provider says (`PlaceCounts`); a
table point is drawn as often as its use count says (`DrawsCounted`). An inactive certificate has no rows and takes part in nothing.

The argument in `ScalarSetupProofs`: an equation of a row holds in the field only.
`FieldAssumption` keeps both of its sides below the modulus, so it holds of
integers (`SmallVanishes`; `BitsAreBits` uses that the field is prime). The
equations of a row's limbs, each handing its carry to the next, say together that
the value is the last carry (`CarryChain`): a canonical row lies below the order, a
reduced digest is the digest modulo the order. A product never exists as one
equation. Each chunk of a coefficient is cut into three digits, which a prover may
choose among several (`CoefficientExact`: whatever the choice, their sum is the
coefficient); the digits fall into the windows of this place and the next two; the
carry is signed. `ProductState` is what survives a digit: what the places so far
have settled, factors less quotient times order less result, is what the windows
and the carry owe at the current place (`DigitStep`). After the last place nothing
is owed, and the convolution of the limbs is the product of the values
(`ProductOfValues`), hence `ProductEnds`. Half scalars arrive as limbs that gather
selector bits and pass a carry (`GatheredFacts`, `HalfValue`); `selected_s1` is s1
or the order less s1 (`SelectedValue`). `RowsInv` has one part for the input, one
for the setup row, one for the products closed and in progress, one for the hint.
Totals, powers and digit sums are recursive functions; as in `P256ClaimProofs` a
least counterexample shows that they are defined.

The argument in `SignatureProofs` for the witness. P-256's group law is a theorem
about curves, not about this code, so `GroupAssumption` takes it: sums stay on the
curve, addition is associative, and the order's multiple of a point is infinity (TLC
evaluates all of this on the curve of 7 points). Everything else is shown. Residues
modulo a prime have unique inverses and no zero divisors (`InverseUnique`,
`NoZeroDivisors`), which `ScalarInverse` and `FieldInverse` return. So points of one
abscissa are equal or opposite (`SameAbscissa`), and for two points of different
abscissae any slope that solves the line's equation gives the sum (`SumBySlope`):
c11, whose slope comes from the input's builder, accepts exactly the sum
(`FinalAddition`). Multiples add up, and a multiple of a finite point is infinity
only for multiples of the order (`MultipleSum`, `MultipleInfinity`). A ladder that
starts at its base stands, when `left` bits are to be read, at the multiple by
2^(Bits - left) plus the bits read (`Walked`, `WalkStep`); a round refuses exactly
where the order divides that number, and 2^Bits bases taken off the end leave the
scalar's multiple (`WalkEnds`). Limbs cut out of a value add up to it again
(`LimbsOfValue`). `WitnessInv` says per phase which slots hold these values and, on a
generated witness, that either check asks only whether r was reached. After one
alteration it says `Loose`: the slots hold field elements and the reduction is of
some x or the generated one with its flag the wrong way round. That is what
`CircuitsBindFinal` needs: c14 relates x to r + N modulo P, so a prover who sets flag
1 and a chosen x at once is left to the other families, and the theorem, like the
run, speaks of single alterations.

The proof of `CachesRefineService` needs `RootSoundness`' invariant: a reply of
the service names the root of the call's own module set, and a thread may have
taken it from the cache. Its liveness half is model-checked only.

Only model-checked: all liveness (`CallsEnd`, `OwnProofAccepted`) and ENABLED
(`HonestSetupProves`), which are beyond the proof system.

## Findings

| Run | What it shows |
|---|---|
| `caches_legacy` | `identity_expected_preprocessed_root` uses the cached root in the legacy build, where ids do not determine content |
| `p256_reference` | the native ECDSA reference subtracts the order from the final x without its borrow and accepts r = x + 2^256 - n; the claim builder refuses it |

Remarks that are no findings:

- `age` (the reason for `BoundsAgree` in `OutcomeIsAge`; the run has such
  bounds, those of 31-bit keys excepted): a supported age below the year span
  passes `AgeBounds::validate` and panics in the calendar; supported ages 14 and 30 give two delta tables one id;
  the year delta's table is smaller than the deltas that validation admits; the
  constraints alone accept months 0 and above 12; with bounds whose keys take 31
  bits, over two million years apart, the bit-decomposition constraints accept a
  birth after the cutoff. None of these bounds is made by
  `PublicInput::new`.
- `MdocPipeline`: the SHA modules read the shared table handle in
  `draw_relations`, earlier than its documentation says; it works because the
  tables come first.
- `P256Claim`: `proof/mod.rs:326-335` says that a witness exists for any
  signature; a u1 or u2 of 1 or -1 modulo the order is answered with
  `ProjectiveOutputMismatch`. The comment at `decompose.rs:98` that k = n - 1 can
  degenerate is refuted by `DecompositionAlwaysFits`; the selector pair (0, 0) of
  the lowest bits never occurs for an honest hint; the comment at
  `proof/mod.rs:2563-2575` that the hints' signs agree is older than the code.

## Not modelled, and why

- Sumcheck, Ligero, Merkle openings and the STARK itself: their soundness is
  probabilistic and algebraic. They are one verdict per certificate.
- Round function and padding roles of SHA-256; lookup tables as multisets.
- CBOR, COSE and DER parsing and the trust policy on issuers: byte readers
  without state of their own.
- The limbs and carries of P-256's base-field multiplications, the range tables
  as multisets, and the γ-digests that compress limb tuples; the constraints of
  the curve formulas.
- Of `CoprocessorBundle`'s calls, published bytes that are no field element: both
  sides end with `InputBindingRejected` at the first claim that reads them. The
  families' circuits are stated of a constant-one wire that is one; the linear
  claims fix this wire for the MAC halves only.
- Of `P256Claim`'s final check, `ChainR3Mismatch`: the builder clones the chain's
  r3 from the table's (both are infinity in an inactive certificate), so the
  comparison cannot fail in a claim that it builds.
- Nationality's table and statement validation.
- FFI buffers and SDK sessions: argument conversion around the prover.
- Mobile shells, benches, examples and scripts hold no protocol logic.

## Plan: what is left

1. `Sha256Padding`: the message end inside of the last blocks, the padding flags
   and the length words, with the padded message as a reference operator; it
   closes the open end of the revocation copy in `NotRevoked`.
2. `FieldRows`: the carry chains of the hinted base-field multiplications against
   integers, as `LimbRows` does for the scalars.
3. `Nationality`: the accepted set, the padded table, multiplicities, statement
   validation; membership as the abstract specification.
4. The sumcheck and Ligero walks over a tiny field: transcript order and indices,
   below the verdicts that `CoprocessorBundle` takes.
5. `MdocParsing`: the CBOR reader's limits and canonical heads, duplicate keys,
   extraction errors; `FfiBuffers`: ownership and errors.

Abstract specifications worth stating next: tree 0 as the list of first writers
(refined by `Tree0`), a proof system as one atomic acceptance of a statement
(refined by `AirCompose`), a disclosure as a set of issued items (refined by
`MdocBinding`).
