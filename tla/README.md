# TLA+ models of the verification pallet

This directory holds a TLA+ development of the verification (attestation) pallet in
`src/pallets/verification/src/lib.rs` and of the parachain node's chain-spec
selection (`src/nodes/parachain/src/chain_spec/`). It has:

- a specification of the pallet;
- an abstract specification of what the registry promises, which the pallet
  is checked to implement;
- a specification of how the node parses a chain id and loads its spec;
- TLC configurations that model-check them on small instances;
- TLAPS proofs, for every instance, of every property the passing runs
  check: the pallet's type, escrow, index, stability and authorization
  properties, its refinement of the registry, and the chain-spec selection.

## The system

The pallet stores one *verification credential* per claim hash. Its parts, and
the way they interact on each call:

| part | in the code | role |
|---|---|---|
| record store | `Verifications` (lib.rs:183-188) | claim hash → `VerificationDetails` (ctype, attester, optional authorization id, revoked, deposit) |
| secondary index | `ExternalVerifications` (lib.rs:190-196) | (authorization id, claim hash) → true, for records created under a delegation |
| calls | `add`, `revoke`, `remove`, `reclaim_deposit`, `change_deposit_owner`, `update_deposit` (lib.rs:263-493) | the only writers of the two maps |
| removal helper | `remove_verification` (lib.rs:497-514) | releases the deposit in the scheme the key is in, then deletes the record and its index entry |
| deposit collector | `VerificationStorageDepositCollector` (lib.rs:517-551) | hooks through which `kilt_support` re-holds and re-stores a deposit |
| deposit escrow | `T::Currency` (hold with reason `Deposit`) | external: hold and release a deposit |
| migration tracker | `T::BalanceMigrationManager` | external: tells whether a key's deposit is a hold (migrated) or a legacy reserve, excludes new keys, and releases legacy reserves |
| access control | `T::AccessControl` (`can_attest`, `can_revoke`, `can_remove`, `authorization_id`) | external: decides delegated calls |
| CType registry | `uid_credential::Ctypes` | external: is a CType known |

Every call runs on its own. FRAME dispatches each extrinsic inside a storage
transaction, so a call either applies all of its writes or, if it returns an
error, none of them. This applies to the escrow and the migration tracker too.
The hard parts are therefore not interleavings inside a call. They are:

- long sequences of calls by several actors;
- the two deposit schemes, legacy reserve and hold;
- keys that the migration manager migrates between calls;
- runtime upgrades that change `T::Deposit`;
- the rule that delegated calls are checked against the authorization id
  *stored* in the record.

## Modules

- **`Verification.tla`** is the pallet.
  - State:
    - `verifications`: `Verifications`, with `None` for an absent key;
    - `external`: `ExternalVerifications`, as a set of pairs;
    - `balance`: per account, its free, held and legacy reserved balance;
    - `migrated`: the keys whose deposit is a hold;
    - `rate`: `T::Deposit`;
    - `lastCall`: the last call, its caller and its outcome, standing in for
      the event or the error returned.
  - Actions. There is one action per call: `Add`, `Revoke`, `Remove`,
    `ReclaimDeposit`, `ChangeDepositOwner` and `UpdateDeposit`.
    - Each has an `…Error` operator. It returns the first error the code would
      return, with its checks in the code's order (the order decides which
      error is reported).
    - The action is either `Fail` (only `lastCall` changes) or the call's
      complete effect.
    - `RemoveVerification` is shared by `remove` and `reclaim_deposit`, as in
      the code.
    - `ReplaceDeposit` is the collector's change-owner/update path:
      1. release the old deposit in its scheme;
      2. mark the key migrated;
      3. hold the new amount;
      4. store the new deposit with `..verification`.
  - Two environment actions:
    - `Migrate`: the migration manager turns a legacy reserve into a hold;
    - `RuntimeUpgrade`: `T::Deposit` changes.
  - Constants. The collaborators are constants:
    - `KnownCTypes`;
    - `AuthIdOf`, `CanAttest`, `CanRevoke` and `CanRemove`, for the access
      control;
    - `Genesis`, the legacy records present at start;
    - `GenesisBalance`.
- **`MCVerification.tla`** with **`MCVerification.cfg`** is the instance TLC
  checks:
  - two claims, two CTypes (one unknown), two attesters, two accounts and two
    deposit rates;
  - a delegation d1 → d2, where token t1 lets a1 act for d1 and t2 lets a2 act
    for d2;
  - genesis record c2: a legacy record attested by a2 under d2, with a reserve
    of 1 held by u2.

  The genesis record puts the legacy branch of `remove_verification`, the
  migration of a key and delegated revoke/remove in reach. Two rates make
  `update_deposit` move different amounts. The balances of 3 make
  `InsufficientBalance` reachable after a few holds. TLC reaches 56,474
  distinct states at depth 8 and fires every action and every error branch
  but one. `FundsUnavailable` is never returned: under `EscrowConservation`
  every migrated deposit is held in full, so `free_deposit` cannot fall
  short while only this pallet moves `Deposit` holds.
- **`MCVerificationDelegated.cfg`** checks the documented delegation bound on
  the same instance.
- **`Registry.tla`** is the abstract registry (spec §3 and §8). It has no
  calls, origins, capabilities or deposit schemes.
  - State: `registry`, claim → credential or `None`; `escrow`, the funds
    locked on each account.
  - Actions:
    - `Create`: an unrevoked credential for a free claim, locking its deposit;
    - `Revoke`: sets the flag once;
    - `Redeposit`: unlocks the old deposit and locks a new one;
    - `Delete`: unlocks the deposit.
  - `Verification.tla` instantiates it as `R` with the refinement mapping
    `registry <- verifications` and `escrow <- Escrowed`, where `Escrowed` is
    each account's held plus reserved balance. Every pallet step must then be
    a registry step or a stutter:
    - a failed call, `Migrate` (reserve → hold) and `RuntimeUpgrade` are
      stutters;
    - `add` is `Create`;
    - `revoke` is `Revoke`;
    - `change_deposit_owner` and `update_deposit` are `Redeposit`;
    - `remove` and `reclaim_deposit` are `Delete`.
- **`ChainSpec.tla`** with **`MCChainSpec.cfg`** models
  `ParachainRuntime::from_str` (chain_spec/mod.rs:109-146) and `load_spec`
  (chain_spec/utils.rs:49-80).
  - An id is a sequence of *words*. Each word is one of the ten literal ids
    that have an arm of their own, or `"text"` for anything else. An id
    equals a literal exactly when it is that single word, and it contains
    `parachain-testnet` or `parachain-mainnet` exactly when one of its words
    does. That is all the match arms tell apart.
  - `FromStr` keeps the arms in the code's order, with an `IF` chain: the
    testnet literals, the testnet `contains` arm, the mainnet literals, the
    mainnet `contains` arm, then the testnet fallback.
  - `Loader` is the arm of `load_spec`: the spec type (testnet, standalone or
    mainnet) and its source (a generator, an embedded JSON, or
    `load_chain_spec` of the id as a path).
  - `LoadSpec` is the single step. Decoding an embedded JSON or reading a file
    may fail (`?`), so its status is chosen nondeterministically there. The
    generators cannot fail.
  - `MaxWords = 2` covers every arm: each literal alone, each literal next to
    other text (a `contains` arm or the fallback), and both patterns in one
    id. TLC reaches 390 states.
  - Deadlock is not checked (`CHECK_DEADLOCK FALSE`): `load_spec` runs once
    at start-up, and the node then leaves the model.
- **`VerificationProofs.tla`**, **`EscrowProofs.tla`**,
  **`RefinementProofs.tla`** and **`ChainSpecProofs.tla`** hold the TLAPS
  proofs (see Proofs).
- `DepositSum`, the sum of the deposits of a set of claims, is the number of
  their *deposit units*. A deposit of n on claim c is the n pairs `<<c, 1>>`
  to `<<c, n>>` (`DepositUnits`). This is the same number as a fold over the
  set. TLC evaluates it as easily, and the provers can reason about it
  through the cardinality facts of `FiniteSetTheorems`.
- The `match` tables of `from_str` and `load_spec` (`TestnetArms`,
  `MainnetArms`, `TestnetLoaders`, `MainnetLoaders`) are written as functions
  with a `CASE` per arm, so that the provers can expand them.

## Properties and runs

The `main` run passes. It checks:

- `TypeOK`. In particular, no balance goes negative.
- `EscrowConservation`: each account's hold equals the sum of the deposits of
  its live records with migrated keys. Its reserve equals the same sum over
  the unmigrated keys. Nothing is released twice or left orphaned, and the
  `is_key_migrated` branch always picks the scheme the deposit is actually in.
- `IndexConsistent`: `ExternalVerifications` holds (d, c) exactly when the
  live record of c carries authorization id d.
- `RecordStable` (action property): while a record lives, its ctype, attester
  and authorization id never change, and revocation is never undone.
- `RegistryRefined` (temporal property `R!Spec`): the pallet implements the
  abstract registry. Besides the record stability above, this means each
  account's locked funds (held + reserved) move exactly by the deposit of the
  record a call creates, re-deposits or deletes. Migration and runtime
  upgrades move no locked funds, and no call overwrites a stored record.
- `AuthorizedChange` (action property). A record is:
  - removed only by an entitled `remove` or by the deposit owner's
    `reclaim_deposit`;
  - revoked only by an entitled `revoke`;
  - moved to a new deposit owner only by the attester's
    `change_deposit_owner`.

  "Entitled" means the caller is the attester, or some capability accepts the
  caller against the *stored* authorization id.
That a legacy deposit is always reserved in full (so the saturating
unreserve at lib.rs:503 never falls short), and that a migrated one is always
held in full (so `free_deposit` never fails), are not checked as properties
of their own: each follows from `TypeOK` and `EscrowConservation` in every
state, and every bug that breaks one breaks `EscrowConservation`.

Each property has a mutant: a plausible bug in the mapped code, listed in
`PROJECT.json`, that TLC catches.

- `AddErrorNoBalance`: `add` without the balance check.
- `ReplaceDepositNoExclude`: the key is not excluded after a re-hold. This is
  the mutant of `EscrowConservation`: a later removal unreserves a deposit
  that is really held.
- `RemoveVerificationKeepIndex`: the index entry is not removed.
- `ReplaceDepositFresh`: the record is re-stored with `revoked` reset.
- `DelegatedTokenId`: the capability is checked against the token's own id.
- `AddErrorOverwrite`: `add` without the `AlreadyAttested` check (caught by
  `RegistryRefined`, since `Create` needs a free claim).

The `chain_spec` run passes. It checks:

- `SelectsReference`: for every id, the runtime is the one a per-id reference
  names. A literal gets its own arm. Any other id gets the mainnet runtime
  exactly when it contains `parachain-mainnet` and not `parachain-testnet`;
  otherwise it gets the testnet runtime. Mutant `FromStrContainsFirst` moves
  the testnet `contains` arm above the literals, so `parachain-testnet` is
  loaded as a file.
- `LoaderMatchesRuntime`: the spec built is of its runtime's family. A file is
  read only for an id that names no literal, and at the id's own path.
  Mutant `TestnetLoadersStandaloneMainnet` decodes the standalone JSON with
  the mainnet type.

The `delegated_bound` run is expected to be violated. It checks
`DelegatedBound`: at most `T::MaxDelegatedVerifications` records live under
one delegation. The code documents this bound and an error
`MaxDelegatedVerificationsExceeded` (lib.rs:155-158, 234-237), but `add`
inserts into the index without counting (lib.rs:313). With the bound 1, TLC
finds the violation in two steps: a2 adds c1 under d2 while c2 is still live
under d2. The spec (§3) describes the index only as bookkeeping, so this is
recorded as a divergence between the documentation and the code.

### Fairness

There is no liveness property. Every step is a call someone chooses to
submit, and nothing in the code promises that any call will eventually be
made. The specification is `Init /\ [][Next]_vars`, with no fairness.
Deadlock is checked: a failing call is always enabled.

## Proofs

Four modules hold TLAPS proofs. `VerificationProofs.tla`, `EscrowProofs.tla`
and `RefinementProofs.tla` hold for every value of the constants that
satisfies `ConstantsAssumption`. That assumption says:

- the claim hashes are finitely many (they are 32-byte hashes);
- known CTypes are CTypes;
- rates are positive naturals;
- genesis records and balances are well typed;
- `None`, `NoAuth` and `NoToken` are distinct from real values.

`ChainSpecProofs.tla` holds for every `MaxWords` in `Nat \ {0}`.

### The pallet (`VerificationProofs.tla`)

- **`TypeCorrect`**: `Spec => []TypeOK`. `TypeOK` is inductive as it stands.
  There is one step per action, and lemmas cover the building blocks:
  - `HoldType` and `ReleaseType`: a hold guarded by the free-balance check,
    and a release of a deposit that `ReleaseFails` excludes, keep balances
    natural;
  - `ReplaceDepositType`;
  - `ErrorsType`.
- **`IndexCorrect`**: `Spec => []IndexConsistent`. The invariant is inductive
  together with `TypeOK`.
  - The lemma `IndexStep` reduces every step to the one claim it names.
  - Add relies on the absent key having no index entry.
  - Revoke and the deposit calls keep the authorization id and the index.
  - Removal deletes the pair under the stored id.
- **`StableCorrect`**: `Spec => RecordStable`. Its step formula `StableStep`
  follows from `TypeOK` alone.
  - The lemma `StableByClaim` reduces a step to the claim it names.
  - `add` and `remove_verification` create or delete that record, so it is
    not live on both sides of the step.
  - `revoke` only sets the flag.
  - `ReplaceDepositStable`: the deposit calls rewrite only the deposit.
- **`AuthorizedCorrect`**: `Spec => AuthorizedChange`. Its step formula
  `AuthorizedStep` follows from `TypeOK`, with one step per action.
  - `AuthorizedByClaim` reduces a step to the claim it names;
    `AuthorizedUnchanged` disposes of the steps that leave it alone.
  - `DelegatedEntitled`: the delegated branches of `revoke` and `remove`
    pass only when a capability accepts the caller against the authorization
    id *stored* in the record, which is what `Entitled` says.
  - `reclaim_deposit` removes only for the deposit owner; `change_deposit_owner`
    changes the owner only for the attester. `update_deposit` keeps the owner.

### The escrow (`EscrowProofs.tla`)

The theorem `EscrowCorrect` holds from a genesis that conserves the escrow, that is, one
whose balances hold and reserve exactly the deposits of its records. That is
the hypothesis `EscrowConservation` on the initial state. It is a condition
on the constants `Genesis` and `GenesisBalance` alone, and the instance of
the main run satisfies it.

- **`EscrowCorrect`**: `Spec /\ EscrowConservation => []EscrowConservation`.
  The invariant is inductive together with `TypeOK`.
  - Lemmas about sums, with `Units(f, S)` the units of the amounts `f[c]`
    for `c` in `S`:
    - `UnitsFinite` and `UnitsType`: a finite set has finitely many units, and
      their number is a natural. This uses `FS_Surjection`, `FS_UNION` and
      `FS_Product`.
    - `UnitsAdd`: adding an element adds its amount. Its units are disjoint
      from the others' (`FS_Union`).
    - `UnitsSplit`, `UnitsBound` and `UnitsStep`: when two sets and two
      amount functions differ at most at `x`, the sums differ by what `x`
      contributes.

    These need no induction: every fact about sums is a fact about the
    cardinality of a disjoint union.
  - `EscrowByClaim`: a step that touches the record and the scheme of one
    claim `x` conserves the escrow if it moves each account's hold and
    reserve by `x`'s share before and after (`HeldShare`, `ReservedShare`).
  - One lemma per operation computes those shares and the balance changes:
    - `AddEscrow`;
    - `RevokeEscrow`;
    - `RemoveEscrow`, for both removals;
    - `ReplaceDepositEscrow`, for both deposit calls;
    - `MigrateEscrow`;
    - `UnchangedEscrow`, for failed calls and upgrades.

    `ReleaseShares` shows that a release takes exactly the deposit out of the
    scheme it is in. For a legacy key this needs `DepositCovered`: under
    conservation, a record's amount is at most the sum it is part of.
- The lemma `ReserveCorrect` (`Spec /\ EscrowConservation => []ReserveCovers`,
  where `ReserveCovers` says every legacy deposit is reserved in full on its
  owner) follows from `DepositCovered`. The refinement proof uses it.
  `ReserveCovers` is not inductive on its own: two records of one owner
  share its reserve, so only the sums keep one covered after the other is
  released.

### The refinement (`RefinementProofs.tla`)

- **`RefinementCorrect`**: `Spec /\ EscrowConservation => RegistryRefined`.
  It combines `RefinementUnderCover` (`Spec /\ []ReserveCovers =>
  RegistryRefined`) with `ReserveCorrect`. The lemmas of
  `RefinementUnderCover` are:
  - `InitRefined`: the genesis records and balances are a registry state.
  - `NextRefined`: every step is a registry step or a stutter of
    `<<registry, escrow>>`, with one step per action. `Fail`, `Migrate`
    (reserve → hold of the same amount) and `RuntimeUpgrade` are stutters.
  - `HoldEscrow`: `create_deposit` adds exactly the amount to the owner's
    locked funds.
  - `ReleaseEscrow`: releasing a live record's deposit removes exactly that
    amount. For a hold, this is because `free_deposit` fails on a smaller
    hold. For a legacy reserve, `release_reserved_deposit` saturates, so it
    holds only because the reserve covers the deposit.
  - `RemoveRefined` and `ReplaceDepositRefined` are the shared paths of the
    two removals and of the two deposit calls.

### The chain spec (`ChainSpecProofs.tla`)

- `FromStrReference`: for every id, `FromStr(i) = Reference(i)`, by cases on
  whether the id is a testnet literal, a mainnet literal or neither
  (`LiteralsDistinct`, `IsLiteralSingle`).
- `LoaderOfId`: the loader of the selected runtime is of its family, and
  reads a file only for a non-literal id, at the id's path (`NamedLoaders`).
- `InvInductive`: after `load_spec` the result is `FromStr(id)` and its
  loader.
- **`SelectsReferenceCorrect`**: `Spec => []SelectsReference`.
- **`LoaderCorrect`**: `Spec => []LoaderMatchesRuntime`.

### What only TLC checks

- `DelegatedBound`, which is violated.
- That a genesis conserves the escrow. The theorems assume it, and the main
  run's instance satisfies it.

A sum written as a fold (`MapThenSumSet` of `Folds`) would be out of reach.
Its lemmas need induction over finite sets, and the library's induction
theorems take an operator parameter, which the installed provers cannot
instantiate. Counting units avoids this.

Also out of the provers' reach, and left to TLC:

- liveness and `ENABLED` (there are none here);
- modules that declare `RECURSIVE` operators. None of these modules does.

## Not modelled

- **Collaborators.** The implementations of the collaborators are outside
  `src/`: `kilt_support`'s collector, the balance migration manager,
  `access_control.rs` and the delegation pallet. They are modelled from their
  contracts. The pieces taken from the contract (marked `spec_modelled` in
  `PROJECT.json`) are:
  - `Hold`;
  - `SatSub`;
  - `ReplaceDepositError`;
  - `Fail`;
  - `Migrate`.
- **`free_deposit`.** It releases exactly the deposit and fails if the hold is
  smaller (`ReleaseFails`). The legacy `release_reserved_deposit` unreserves
  and saturates.
- **`change_deposit_owner`.** It re-holds the amount stored in the record, as
  the spec says (§4.1), not the current rate.
- **Weights, events' payloads, logging and benchmarking.** These are left out.
  `lastCall` records only the call, the caller and the outcome.
- **Origins.** An origin is a (sender, subject) pair, so every combination of
  account and attester is enumerated.
- **Chain-spec contents.** The generators and the genesis they build (the
  `testnet`, `mainnet` and `standalone` modules and the embedded JSON) are
  configuration. Their effect on the pallet is the constant `Genesis`.
- **Not modelled at all.** The archived EVM node (process wiring, CLI and
  genesis configuration) and the unit tests. The tests' scenarios are behaviours of the `main` run.
