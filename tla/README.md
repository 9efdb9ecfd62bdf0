# Verification of provii-crypto

provii-crypto is a Rust workspace that issues age credentials, proves in zero
knowledge that the holder is over or under an age, and verifies such proofs
(Groth16 over BLS12-381, with Jubjub, Pedersen and Blake2s inside the circuit).
This directory holds TLA+ models of it, the TLC configurations that check them,
and proofs that TLAPS checks for every value of the constants.

    tlc -workers 2 -config prover_dev.cfg MCProverRuntime.tla
    tlc -workers 2 -config vk_registry.cfg VkRegistry.tla
    tlc -workers 2 -config presentation.cfg MCPresentation.tla
    tlapm PresentationProofs.tla

`PROJECT.json` lists the components, the runs, the mutants that show each
property can fail, the source lines behind every definition, the findings, the
hazards and the theorems.

## 1. Inventory

| component | state it keeps | operations | talks to |
|---|---|---|---|
| prover runtime, `crypto-prover` | process-wide: `DEBUG_LOGGER` and `RUNTIME_CONFIG` (mutexes), `INIT` (a `Once`), the panic hook | `prove_age_snark`, `prove_age_snark_auto`, `load_proving_key`, `dump_debug_log` | the circuit (through bellman), the public inputs, the commitment |
| verifier, `crypto-verifier` | process-wide: `VK_REGISTRY`, a `OnceCell` | `init_with_vk_bytes`, `init_with_vk_registry`, `verify_age_snark` | the public inputs |
| age circuit, `crypto-circuit-age` | a constraint system | `AgeCircuit::synthesize` and its gadgets | assigned by the prover, its inputs packed by the verifier |
| public inputs, `crypto-public-inputs` | none | packing of direction, cutoff, RP hash, issuer key, nullifier | prover and verifier must agree on it |
| attestations, `crypto-commons` | none of its own: an attestation and two clocks | `create`, `create_bound`, `verify`, `verify_with_timestamp` | issuer and whoever consumes the attestation |
| credentials, `crypto-commons` and `crypto-commit` | none: commitment, nullifier, prehash | commitment opening, nullifier derivation | issuer signs what the circuit opens |
| signatures, `crypto-sig-redjubjub` | keys, zeroised on drop | key generation, sign, verify, byte parsing | issuer, circuit |
| protocol helpers, `crypto-protocol` | none | challenges, nonces, consent and replay tags | relying parties |
| parameters: `gen_params`, a workflow, two shell scripts | files: parameters, verifying key, manifests; a bucket, releases, branches | generate, publish, propagate, check | every consumer embeds the files |
| issuer tools: `keygen`, `issuer-gen` | one output file each | write keys, write configurations | issuers |
| curve and hash gadgets | none | field and curve arithmetic | the circuit |

How they interact: an issuer signs a commitment to a date of birth; the holder's
prover builds the circuit, whose private direction, cutoff and date bits are
tied to public inputs and to the commitment; the relying party's verifier packs
the same public inputs and looks a verifying key up by `vk_id`. Prover and
verifier share no state, but each has process-wide state that concurrent calls
of a host application (a server, a mobile app behind an FFI) share.

What is hard in it:

- *concurrency*: calls of the prover share a log buffer, a configuration and a
  one-time initialisation; initialisations of the verifier race;
- *failure*: panics of the prover, retries, `catch_unwind` around some of the
  attempts, a mutex that is poisoned, a panic hook that locks, and profiles that
  abort instead of unwinding;
- *the gap between witness and constraint*: an honest prover computes one
  assignment, the constraints must exclude every other one;
- *edges of numbers*: signed days compared as unsigned words, clocks that
  saturate, zero scalars;
- *encodings*: optional fields, separators, hashes of concatenations;
- *two implementations of one thing*: commitment, nullifier, message and signature
  are computed by host code and again by the circuit, with other formulas;
- *files written one after the other*, by runs that may stop anywhere, race for a
  push and are merged in any order.

What makes each part correct: a returned proof reads back and verifies; one
call's failure never blocks or corrupts another's; the registry is written once
and a proof is accepted only under it; satisfied constraints imply the statement
and a true statement has an assignment; an accepted attestation was issued and
is fresh; different messages have different canonical bytes; a manifest names a
file that exists.

## 2. Modules

| module | models |
|---|---|
| `Presentation` | a credential from issuance to acceptance: issuers, holders, provers of any kind, relying parties |
| `AgeVerification` | abstract specification: what the system promises |
| `Encodings` | the byte strings that are signed, hashed and compared |
| `MCPresentation` | an instance |
| `PresentationProofs` | what the strings determine; the invariant, the properties, the refinement |
| `ProverRuntime` | concurrent calls into `crypto-prover` over its statics |
| `MCProverRuntime` | its instances for TLC |
| `ProverRuntimeProofs` | its inductive invariant and the theorems |
| `VkRegistry` | `crypto-verifier`: initialisation and verification |
| `WriteOnce` | abstract specification: a cell one publisher fills |
| `VkRegistryProofs` | its invariant, its theorems, the refinement |
| `Days` | signed days as words: the bias |
| `AgeCheck` | mux, borrow chain and packing of the circuit |
| `AgeCheckProofs` | order of the bias, the invariant of the borrow, soundness, honest completeness |
| `Jubjub` | the curve gadgets, as the results their constraints allow |
| `HostCircuit` | commitment, nullifier and signature, by host and by circuit |
| `MCHostCircuit` | a curve of 8 * 37 points |
| `HostCircuitProofs` | the curve is a group; the gadgets leave only the host's result; the Pedersen hash; commitments, nullifiers, signatures |
| `Attestation` | signed dates of birth: canonical bytes, two clocks |
| `MCAttestation` | its instance |
| `AttestationProofs` | what the bytes determine, and what acceptance means |
| `ParamRelease` | parameter generation, release, propagation, merge and check |
| `MCParamRelease` | its symmetry |
| `ParamReleaseProofs` | its invariant and the properties |
| `SharedLemmas` | induction over a set of numbers, tables of loops, residues, powers of two, concatenations and length prefixes |

How they fit together: `Presentation` composes the protocol and takes from
`Encodings` and `Days` what is hashed and compared. What it assumes of its parts is
what other modules look at: that a comparison of words is forced by the
constraints (`AgeCheck`), that host and circuit agree on commitments, nullifiers
and signatures (`HostCircuit`), that a proof is checked under the registered key
(`VkRegistry`) and that a returned proof verifies (`ProverRuntime`).

A definition whose comment begins with "Broken:" is a mutant: a plausible mistake in
the definition that follows it, used only to show that a property notices it.

### ProverRuntime

Each member of `Calls` is a thread inside one public function; `pc` is its place
in `crypto-prover/src/lib.rs`, `doing` tells a running thread from one that is
panicking, unwinding, stuck ("wedged") or whose panic has left the call
("escaped"). The statics are `logger`/`poisoned`/`logs` (`DEBUG_LOGGER`),
`config` (`RUNTIME_CONFIG`), `once` (`INIT`) and `hooks` (how often the panic hook
was wrapped). `snap`, `proof`, `wire`, `result` and `dump` are the locals that
matter; `since` is history: the lines written since the call's own
`start_session`.

- A critical section of `RUNTIME_CONFIG` is one step: it is a copy or an
  assignment and cannot panic. A critical section of `DEBUG_LOGGER` is one step
  unless `eprintln!` panics in it; then `logger` names the holder until the panic
  is dealt with.
- A log line is its call and its phase; lines of one phase are one line, and
  wording is left out. Lines are written to stderr before they are buffered, so
  a line that fails is not in `logs`.
- `CallOnce`, `SetConfig`, `SetHook`, the `init_log` line and `FinishInit` are the
  closure of `INIT.call_once`. The closure's only panicking statement comes after
  the hook is in place, and there the hook never lets the panic unwind, so `INIT`
  is never poisoned; the model has no such state.
- `Provable` and `Reread` leave bellman nondeterministic: a good witness may
  still give a proof that does not verify (parameters of another circuit), any
  attempt may fail or panic, and bytes may not read back (`Proof::read` refuses
  points at infinity that `Proof::write` produces).
- `HookFails`, `RunHook`, `Abort` and `Unwind` are the panic machinery: the hook runs
  first; a panic in a hook aborts; the hook's own `DEBUG_LOGGER.lock()` never
  returns when its thread holds the mutex; then the thread unwinds to a
  `catch_unwind` (first and third attempt only), out of the call, or, under
  `panic = "abort"`, the process ends.
- Not in the model: the contents of log lines and of `DebugInfo`, the error of
  serialising the verifying key and the fallbacks for a poisoned
  `RUNTIME_CONFIG` (both unreachable), and a panic of `test_circuit_synthesis`, which
  runs outside `catch_unwind` but has no statement that a validated input makes
  panic, apart from its log lines. The single tests of
  `validate_inputs_detailed` are one verdict of `input` here and spelled out in
  `Presentation`.

### VkRegistry and WriteOnce

`BeginBytes`, `BeginRegistry`, `LoadEntry` and `SetRegistry` are the init functions,
entry by entry; `Lookup` and `CheckProof` are `verify_age_snark`, with the registry
read before the proof is parsed. A proof is the key and the inputs it was made
for, so verification is equality: the soundness of Groth16 is assumed.
`VerifyResult` repeats the arguments and is left out. `WriteOnce` says what a
caller relies on: a publisher wins, loses or is rejected, and the cell changes
once. `ImplementsWriteOnce` maps the cell to `registry` and the outcome of a
publisher to the result of its call.

### AgeCheck

`stmt` is what the verifier packs together with the committed date of birth; the
prover is honest (it assigns what the code computes) or assigns every bit
freely. A constraint system is a set of equations, so the order of the code's
loops says nothing: `Position` visits bit `n` of the three words, the mux and the
borrow at once, `LastPosition` is the branch of `enforce_ge` for the top bit, whose
borrow is computed by gates, and `Pack` is `pack_into_inputs` for direction and
cutoff, and the opening of the commitment for the date. The booleanity of
allocated bits is that of `AllocatedBit::alloc`. Equations over the scalar field
are modelled over the integers: every side is between -4 and 4.

### Attestation

An issuer signs by `issuerClock`; a verifier with `verifierClock`, at most `Drift`
away, is given fields that may differ from the signed ones in anything, with a
signature that was made. `Create` is `create` and `create_with_rng`, `CreateBound`
is `create_bound`; fields with only one of the two optional identifiers are never
signed, but can be presented, since they are read from JSON. A signature is the
byte string it was made for (Ed25519 and Blake2s ideal, one issuer key).
`Message` is the layout of `compute_message_bytes`: identifiers are sequences of
bytes behind a length, the fixed-width fields are one element each. `Verdict`
makes the tests in the code's order, with saturating arithmetic. The verifier
keeps no state, so `answer` holds the last call's result until a clock moves.
That callers pass the current time as `timestamp` and `current_time` is their
contract; the library does not read a clock. Clocks do not step back.

### Presentation, Encodings and AgeVerification

`Issue` is the commitment (`pedersen_commit_dob_validated`) and the signature
(`sign_cred_v2`) of one credential; `Open` a relying party's fresh nonce;
`ProveAuto` is `AgeWitness::new` and `prove_age_snark_auto` for a holder, who may be
at another origin than the session's; `ProveAnyhow` lets anybody take names and
times from one credential, the issuer's key from another, any date and
randomness, and either the commitment they open to or the one that was signed.
`Verify` takes any proof to any open session, any number of times; `Accept` is
`verify_age_snark` with the session's own policy and the relying party's look at
the replay tag. The last is not in the repository: it is what
`compute_replay_tag` is for.

- A hash stands for its preimage, a Pedersen hash is a number and collision
  free, up to the zeros that fill the last window of three bits: `Padded`. So
  randomness `r` and `r` followed by a zero may give one commitment, in the model
  as in the code; the fixed 128 bits of the circuit are what makes the opening
  unique, and the theorems use it.
- A signature is the pair of issuer and message that was signed: it cannot be
  forged. A proof exists for public inputs if some witness satisfies
  `Synthesize`, and verifies if the inputs are equal: Groth16 is sound.
- A fixed-width field is one letter; names of variable length are sequences, and
  the one length that counts in them is written as a number.
  `cred_v2_prehash_bytes` writes it from the message, `build_prehash_bits` from
  constants; the two agree only on messages of the circuit's sizes.
- `validate_inputs_detailed` is the prover's own list of limits. They are not the
  circuit's, which is why `ProveAnyhow` does not have them, and why
  `ProvableIffTrue` names them in `WithinLimits`.
- `prove_age_snark_auto` hashes the relying party's challenge once more with Blake2s
  before it becomes an input, and whoever verifies has to as well: under an ideal
  hash that is the identity (`rp_hash`).
- In the code `exp` is compared with the current time only to log it; nothing
  refuses an expired credential, and nothing here does.

`AgeVerification` has three actions: a credential comes into being, a session
opens, a session is granted, at most once and only for a credential that
satisfies its policy. `AV` maps grants to acceptances; proofs, signatures and tags
are invisible to it.

### Jubjub and HostCircuit

A gadget allocates numbers and constrains them; whoever proves chooses them. So
`Double`, `Add`, `mul`, `into_edwards`, `pedersen_hash` and `repr` return the *set* of
results that their equations allow. The set is a singleton when the gadget is
complete and sound; it is empty where an honest `invert()` would fail, and larger
where numerator and denominator both vanish. `Solve` is the one place where that
is decided. Host functions (`HostAdd`, `HostMul`, `HostPedersen`) are those of
jubjub and sapling-crypto, which are not in the repository.

`CircuitCommit = {host.ok}` therefore says that the circuit opens the host's
commitment and no other. The equations are those of `sapling_ecc.rs`, window by
window and segment by segment, with the personalization in front. Blake2s and
the challenge hash are oracles: any value may come out. The constraints that tie the
bits of the key and of `R` to the public bytes (`redjubjub.rs:93-98`, `:174-179`) only feed
that hash and are left out, and so is the length test of `validate_com`
(`crypto-commit/src/lib.rs:173`), which its later minimum implies. `Claim` makes up
`R = sG - cV`, plus a point of small order, for any `s` and `c`, so that the equation
holds in the circuit up to that point. What the module does not have: the parts
of `synthesize` that only move bits.

The gadgets add segments with the *incomplete* Montgomery addition, which has no
result for equal or opposite points. `SegmentSum` is the multiple of its generator that
a segment of windows encodes; the last conjunct of `PedersenAssumption` says that
it is never a multiple of the group order, and that is what keeps the incomplete
addition away from its exceptions (section 4). `stage` remembers which step made
the current `input` and `host`, and `Origins` says what that step established.

### ParamRelease

Each member of `Runs` is a run of `generate-params.yml`, or of `gen_params` by hand in
the workspace root or elsewhere: `pc` is the file being written or the step of
the job, and `Stop` may end it anywhere, tearing that file. The parameters are
identified by the run, since `vk_id` is a hash of the verifying key. `Push` is refused
if another run was first. `Edit`, `PushBranch` and `OpenPullRequest` are the propagate
job of one repository, `Merge` is a maintainer who merges what does not
conflict. A repository is the places that hold an id or something derived from
the parameters: `References`, and what lies under `manifest/`. `ByOld` and `ByName` say
how the script finds a reference, `ByOtherCalls` are those the workflow never
changes. `First` is what the branches name before any run: any ids, so references
may have drifted apart. The script reads the old id in one place (`Detected`) and
replaces that id elsewhere, so a place that differs from it is `Drifted` and stays
behind. `Passes` is the consistency check: it compares the places in `Checked` with the
manifest and scans the sources for a fixed list of ids, `Retired`.

Three facts about the scripts show in the operators and not as properties:

- `detect_old_vk_id` is called for provii-management with `'\[[0-9]\+\]'` under
  `grep -E`, which matches no id, so its job always ends there and the fallback
  after it is not reached.
- `git add -- '*.json' '*.toml' '*.rs' '*.bin'` leaves the TypeScript files of
  provii-agegate out. Its job fails there if one of the patterns matches nothing,
  and otherwise makes a pull request of the files under `manifest/` alone.
- The artifact with the manifest and the verifying key is downloaded into the
  checkout (`generate-params.yml:221-225`), so that `git add` finds both under
  `manifest/`. Every commit has them, and the test for an empty commit, which is
  `PushBranch`'s guard, never stops a job for parameters that are new.

## 3. Runs

| run | instance | shows |
|---|---|---|
| `prover_dev` | 2 calls, level Verbose, stderr works, unwinding | in every interleaving: proofs verify, the configuration is the detected one, the hook is set once, logs are fresh, and every call comes back |
| `prover_stderr` | 2 calls, level Verbose, stderr may fail, unwinding | the inductive invariant holds with poison and wedged threads; where panics leave a call; poison stays contained |
| `prover_release` | 3 calls, level None, stderr may fail, aborting | the shipped profile: nothing is logged, locked or poisoned |
| `vk_registry` | 2 inits, 1 verification, 2 ids, 2 keys, 2 inputs, lists up to 2 | one winner, acceptance only under the registered key, the write-once refinement, and that a well-formed initialisation leaves the registry filled |
| `age_check` | 3-bit days, both directions, honest and free assignments | soundness and honest completeness on every statement |
| `attestation` | clocks 0..5, age 2, tolerance 1, drift 2, identifiers of 0, 1 and 2 bytes of which 1 is allowed, 2 dates of birth | acceptance means issued and recent, fresh means accepted, windows close once |
| `presentation` | 6 credentials of 2 issuers, 4 sessions at 2 origins; at most 2 issued, 2 opened, 2 proofs; 6 days | soundness, binding, single use, what a holder can prove, and the refinement of `AgeVerification` |
| `host_circuit` | field of 293, subgroup of 37, 3 segments of 2 windows, dates of 3 bits, randomness of 0 to 10 bits, scalars of 6 bits | host and circuit agree on every commitment, nullifier and signature |
| `param_release` | 2 runs, 4 repositories, any stop, any order of merges | manifests name whole, valid and published parameters; a consistency check that passes misses only what had drifted before |
| `attestation_future`, `hook_returns`, `pull_request` | 1 or 2 actors | what documentation says and the code does not do (section 5) |

Every property of a passing run has a mutant in `PROJECT.json` under which that
very run reports it violated.

### Bounds, and why they are enough

- Two calls show every pairwise race: a thread arriving while another is inside
  `INIT`, one clearing the other's lines, one blocking on a mutex the other
  poisoned. No action looks at more than one other call. Three calls are checked
  where the state space allows (`prover_release`), and the theorems hold for any
  number.
- Level 2 lets every line through, so every place is visited where a line may fail
  or land between two of another call; level 0 is the silent build and takes the
  other branch of the level test. At level 1, the default of a development build,
  the phase of `log_detailed_inputs` may or may not write, since some inputs give a
  Basic warning and others only Verbose lines; `hook_returns` runs at that level.
- Two inits are needed for a race; two ids and lists of up to two entries give a
  repeated id, a missing id, and garbage before and after a good entry.
- Three bits are the least width with a first, an inner and a last position; the
  width is 32 in the code, and the theorems hold for every width.
- A drift of 2 is beyond the tolerance of 1, so clocks are checked within and
  beyond it; 0..5 leaves room before and after the window and puts it at both
  ends of the word. The one identifier byte equals a possible length, so a
  length read as content, or the reverse, would show. One signature is enough:
  the verifier is stateless, and every alteration of its fields is tried, the date
  of birth included (two dates that are alike, by symmetry). There is one nonce:
  it is one element of the signed bytes as the date is, and a second value would
  only multiply the states; `AcceptedWasIssued` is a theorem for any set of both.
- `presentation`: two credentials, sessions and proofs are the least for a
  mixture, a replay and a mistaken session. One origin is a prefix of the other
  and the nonces begin with the same byte, so that bytes could move between them.
  Days -3..2 with `MaxDay` 1 put credentials and cutoffs on both sides of day 0, on
  it, and above the prover's limit; names of one, two and three bytes are what
  the circuit takes, what only the issuer takes, and what it refuses; randomness
  of one bit is refused, of three can be committed and not presented.
- `host_circuit`: 3 segments of 2 windows hold 18 bits: 6 of personalization,
  3 of the date and 9 of randomness, one less than the longest that is tried, so
  every partial last window and segment occurs, the capacity and the length
  beyond it. The personalization fills the first segment; in the code it is 2 of
  63 windows. 293 is the size at which all properties the real curve has hold
  (-1 is a square, d is not, cofactor 8, a large prime subgroup) and pairs
  (p, p + P) still fit the 9 bits of an encoding, as in the code for 255 bits.
  Foreign keys include points of even order and of small order.
- `param_release`: two runs are needed for a lost push and a merge out of order;
  no action looks at more than two. Its runs are symmetric. At first, a test of
  provii-verifier and of provii-mobile-sdk, the schema of provii-management and the
  URL of the proving key have drifted to an id that the consistency check does not
  scan for, and the JSDoc of provii-agegate to one that it does: so there is drift
  that the script repairs (the URL, found by name), leaves, and cannot touch, and
  drift that the check reports and that it passes over. In `pull_request` nothing
  has drifted.
- Three runs have `CHECK_DEADLOCK FALSE`. `presentation` and `param_release` end:
  the bounded sessions are used up, the runs are over. In `prover_stderr` the system
  really stops, because a thread wedged in the hook holds `DEBUG_LOGGER` for good
  and the others wait on it. Its states without such a thread have successors.

### Fairness

`FairSpec` gives weak fairness to the steps of each call: threads are scheduled
by the operating system, and a thread that can move eventually does. That is
enough although mutexes are not fair queues: a critical section is one step, so
a mutex is held between steps only by a thread that is panicking, and every call
locks finitely often. Nothing in `VkRegistry` waits. bellman is assumed to return,
fail or panic, not to loop. `prover_release` and the safety-only runs state no
fairness. Nothing promises progress in `Presentation` (nobody has to prove) or in
`ParamRelease` (a run may stop, a maintainer need not merge), so no liveness is
stated there.

## 4. Proofs

All theorems hold for every value of the constants under their named
assumptions (`NoCall` is not a call, the level is one of four, ids contain 0,
`Half = 2^(Bits-1)`, ...).

**ProverRuntime.** `IInv` has one part per concern. `LoggerInv`: the mutex is held
between steps exactly by a call whose line or dump panicked, and by nobody once
it is poisoned. `PanicInv`: a panicking thread holds the logger or is in an
attempt. `OnceInv`: at most one call is inside the closure, how far the closure
has come, and that a call past `INIT` finds it completed: this is what makes
`ProvesWithDetectedConfig` provable, which by itself says nothing about threads
that wait. `CallInv`: what a call has established at each place. `FreshInv`: the
buffer is younger than every session. `Inductive` proves `Init => IInv` and one
step per action; the seven safety properties and the action property
`ConfigWrittenOnce` follow.

**VkRegistry.** `LoadInv` says that a half-built map is what the entries so far
leave under each id, last one winning; `WinnerInv` is `OneWinner`; `VerifyInv` says
that a key found is still the registered one. From these follow `OneWinner`,
`AcceptedUnderRegisteredKey`, and `Refinement`: `Spec` implements
`WriteOnce`, step by step.

**AgeCheck.** `BiasKeepsOrder` and `BiasIsInvertible` are the facts about
`bias_for_circuit`. `MuxSelects` and `BorrowIsForced` show that the constraints leave
the prover no choice: the outputs of the mux and the borrow are determined.
`BorrowInv` is the loop invariant that `enforce_ge` has in mind: the borrow into
position n is 1 exactly when the low n bits of the left operand are below those
of the right one; it also keeps the selector equal to the lowest direction bit,
so that packing the direction decides the comparison. `AgeSound` follows: no
assignment proves a false statement, whatever the width. `HonestComplete` is the
other direction: an honest prover of a true statement, its words being the sums
of their bits, is never refused.

**Attestation.** `MessageDetermines` is the fact about the layout: equal bytes
mean equal fields, up to None for an empty identifier beside one that is there.
It rests on `SplitConcat` and `SplitFront` of `SharedLemmas`: a length in front makes an identifier
self-delimiting, whatever its bytes. `IInv` adds that signatures lie in the past of
the issuer's clock (`SignedInv`), that the clocks stay near, and that an answer is
the verdict on its fields. The four properties follow for every word size,
limit, tolerance, drift and set of identifiers.

**Encodings** (the theorems are in `PresentationProofs`). `PrehashDetermines`, `ChallengeDetermines`, `TagDetermines` and
`ConsentDetermines` say that equal strings have equal fields. The challenge has no
length between origin and nonce; its theorem needs the nonce's fixed length, and
`Nonce` is where the assumption stands. `CircuitLaysOutTheMessage` makes the circuit's
message the issuer's, for names of the circuit's sizes.

**Presentation.** `IInv`: nonces are fresh (`OpenedInv`), signatures belong to
credentials (`SignedInv`), proofs to signatures (`ProofInv`), acceptances verify
(`AcceptedInv`). The step that matters is `ProveAnyhow`: `WitnessIsIssued` shows that a
witness that satisfies `Synthesize` is a credential that was issued, with its own
date. It takes the signed message to a credential by `CircuitLaysOutTheMessage`
and `PrehashDetermines`, and the commitment to its date by `CommitBindsDob`, which
is where `Padded` and the fixed `RBits` are used. The five properties and the
refinement follow for any issuers, requests, sessions, origins and randomness,
from `HashAssumption` (Pedersen hashes are collision free) and the model's ideal
signatures and proofs.

**ParamRelease.** `FilesInv` says what a run has written at each step,
`PublishedInv` what it has published, `JobInv` that the references which the script
replaces are all as they were at first or all of one committed run, while the
others never change (`Unmixed`). That one run's propagation keeps this is
`CommittedIsUnmixed`, which rests on `OldIdIsFound`: the place where the old id is read
is never drifted itself, so what is compared with it splits as it did at first.
The properties follow, for any number of runs, any of the repositories and any
drift. `CheckMissesOnlyDrift` and `DriftKept` say together what the workflow and its
check do about drift: neither makes any, neither repairs what is looked up by the
old id, and the check passes over it where it does not look and the id is not in
its list.

**HostCircuit.** The theorems hold for every field, curve, generator, number of
windows and segments under five assumptions, which the primes and constants of
Jubjub satisfy and TLC evaluates on its small curve:

- `FieldAssumption`, `OrderAssumption`: P and the order of the subgroup are primes,
  stated as what is used, that a product vanishes only with a factor;
- `CurveAssumption`: -1 is a square and d is not, the Montgomery constants belong to
  the same curve, and P fits its encoding;
- `KeyAssumption`: the base point generates the subgroup, a scalar has room for the order;
- `PedersenAssumption`: generators lie in the subgroup, the inputs that are hashed fit
  (6 + 32 + 1096 = 1134 = 3 * 63 * 6 bits for a commitment), and no segment encodes a
  multiple of the order. The last is not taken on trust for the code's 63
  windows: `SegmentsDoNotVanish` proves it for n + 1 windows under any modulus m of at least
  4/15 of 16^n, and 16^62 * 4/15 is below the order of Jubjub's subgroup. The
  modulus of the TLC instance is too small for that argument (order 37, 2
  windows), and there TLC tries every segment.

The argument has four parts, in the order of the module.

1. *The curve is a group.* A number is zero in the field when it is a multiple of P
   (`Zero`), so that an equation modulo P is an identity of integers plus a multiple.
   `CrossNoRootOfOne` shows that the denominators 1 + d u1 u2 v1 v2 and 1 - d u1 u2 v1 v2
   never vanish, because otherwise d would be a square. `GroupLaw` (closed,
   commutative, associative, neutral and opposite) is then polynomial algebra:
   `ClosureIdentity` and `AssociativityIdentity` give the cofactors.
2. *The Edwards gadgets leave no choice.* `AdditionIsForced`: the constraints of `add` and
   `double` are satisfied by the host's sum and by nothing else. `MulMeans` carries this
   through the loop of `mul`, and `HostMulSum` and `HostMulProduct` are the laws of multiples.
3. *The Montgomery part is where a gadget could be incomplete.* `IsImage` relates a
   point to its Montgomery coordinates. `ThirdPoint` says that the chord through two images
   with different x meets the curve in the image of the opposite of the sum, which
   rests on `ChordXMeets` and `ChordYMeets`, identities in the four coordinates. So
   `MontgomeryAddMeans`: off the exceptions, incomplete addition is forced and
   right. The exceptions do not occur: in a segment, the partial sum before a window
   equals plus or minus the digit of that window only if one of two partial sums
   vanishes, the one with the digit and the one with its sign bit flipped, and both
   are sums of a segment (`DigitsDiffer`). `PedersenHashIsForced` adds up windows and segments:
   the circuit's hash is the host's, for all inputs that fit, and the constraints
   allow no other.
4. *What the two sides say.* `repr` is unique because its bits are compared with P
   (`ReprMeans`). `CommitmentAgreesTheorem` and `NullifierAgreesTheorem` follow from the
   hash; `MulIsForcedTheorem`, `SignedIsAcceptedTheorem` and
   `CircuitAgreesOnSignaturesTheorem` from the group and the cofactor
   (`NotSmallOrder`). `IInv` adds to the types `Origins`, what `input` and `host` are at each stage; it
   is inductive, and all else follows from it.

What a proof by induction is about is not an operator but a set of numbers: the
lemma `SetInduction` of `SharedLemmas` takes the set of those n for which the claim
holds, and `Iterates` states that a loop written as a recursive function has the
rows its definition gives. This is how the loops of `mul`, of the segments and of
the sums of bits are proved about for every length.

**Proved and not run by itself.** `TypeOK` of each module with proofs is a part of its
`IInv`, which a run checks; `PoisonExcludesWedge` and `DriftIsKept` follow from
`IInv`.

**Only model-checked.** Every safety property of every passing run is stated by a
theorem. Liveness (`EveryCallReturns`, `PoisonIsContained`, `GoodInitFillsRegistry`)
stays with TLC: the prover does not treat fairness and ENABLED.

## 5. What the code does differently from its documentation

- `HookReturns`: a log line whose write to stderr fails panics with `DEBUG_LOGGER`
  held, and the crate's own panic hook locks it again. It takes a stderr that
  fails once and then works: if it fails in the hook as well, the process
  aborts.
- `AcceptedIsNotInFuture`: `PROTOCOL.md:534` refuses any timestamp ahead of the
  verifier's clock, the code allows 60 seconds.

- `PullRequestIsWhatItSays`: `scripts/propagate-zk-params.sh:22` calls `--vk-binary`
  "required for provii-verifier", and the pull requests say "Updated ZK parameter
  references to new VK_ID" and "Updated verification key binary (if applicable)"
  (`generate-params.yml:265-266`), but the workflow does not pass it (`:229-232`): the
  pull request makes `include_bytes!` name a file that is not in `assets/` (the key
  comes along only under `manifest/`), and leaves `responses.rs` with the old id. The
  hedge is about the key; the reference in `responses.rs` has none. The consistency
  check notices both, when somebody runs it.

Seen in the models and left without a run of their own:

- After an error of the first attempt, the second `create_random_proof` runs
  outside `catch_unwind` (`crypto-prover/src/lib.rs:1179`), although `:1092` promises
  "panic protection"; `EscapesOnlyUnprotected` says where panics do leave.
- The release, worker and mobile profiles abort on panic, so `catch_unwind` recovers
  nothing in the builds that ship. (Profiles apply to builds of this workspace; a
  dependent workspace chooses its own.)
- The "scoped" debug session (`:370`) is one buffer for all threads: a returned log
  may hold lines of a concurrent call. `DumpIsFresh` says what is left of it.
- A second initialisation of the verifier with an empty list or malformed bytes
  is answered with the error of its arguments, because they are checked first
  (`crypto-verifier/src/lib.rs:51` and `:71`), while line 11 promises
  `AlreadyInitialized` for every second call. The registry is unaffected.
- Randomness of 192 bits (`README.md:67`, `crypto-commit/README.md:23`) can be
  committed and signed, and never presented: the circuit takes exactly 128.
- `PROTOCOL.md:399` says that over-long randomness gives the encoding of the
  identity; the code returns an error.
- The circuit accepts `s = 0` and scalars above the group order, and an `R` outside
  the subgroup if the equation holds all the same; the host's parsers refuse them.
  `CircuitAgreesOnSignatures` says that nothing else separates the two.
- `check-zk-param-consistency.sh:5-6` says that it verifies that all downstream
  repositories have consistent references. It looks at some of them, and scans the
  sources for three ids that are written in the script (`:227`), which do not include
  the one in use. `PassedCheckMissesOnlyDrift` says that what it can miss is exactly
  a reference that had drifted to another id before.
- Whoever was born on day 0 can be issued a credential that the prover refuses.

## 6. Not modelled

- Groth16, Blake2s, SHA-256 and Ed25519: taken as ideal. Curve arithmetic of
  255 bits: modelled over a small field only.
- `sign_with_rp` and `verify_with_rp` of `crypto-sig-redjubjub`: nothing else in the
  repository calls them. Zeroisation of keys: no step reads what was zeroised.
- `fixed_base_multiplication`, `generate_circuit_generator` and `inputize`: not part of
  the age circuit. The split of 256-bit public inputs at 255 bits: the same
  function of the same bytes on both sides.
- `validate_nonce`, `has_sufficient_entropy`, `code_challenge_s256`: pure functions of
  one argument. The retries of the randomness and nonce generators: they end in
  a value that passes, or in an error.
- Serialisation, logging text, `DebugInfo`, metadata, error types.
- `keygen` and `issuer-gen`: one sequence each, without a concurrent reader. The
  programs `check_key` and `test_proof` call what is modelled.
- Propagation to provii-admin-portal and provii-mobile, propagation by hand, a
  re-run of a job whose branch exists, and places that do not depend on the run
  (numbers of inputs, sizes of keys). Collisions of the 32-bit `vk_id`.
- Tests and fuzz targets, which are more than two thirds of the lines of the
  crates: about 7,500 of the 24,800 counted lines are code that runs.

## 7. Plan

Done: every component of the inventory that keeps state or that two sides must
agree on has a module, and each of these has proofs; every safety property that a
run checks is a theorem. Left, in this order:

1. `HostCircuit` over a second curve, with the first segment shared by
   personalization and data as in the code, and `sign_with_rp` next to
   `sign_cred_v2`, to compare what the two domains sign.
2. The packing of the 256-bit public inputs as bits, next to `AgeCheck`'s words.
3. Two relying parties with separate sets of tags, one of which loses its set:
   how long a nonce has to be remembered.
4. Re-runs of the propagate job: the branch that already exists, the run that is
   repeated after a later one.
