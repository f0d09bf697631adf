# TLA+ models of the GitOps promoter

This directory holds the formal models of the promotion controllers in `src/`:

- the TLA+ modules;
- the TLC configurations that model-check them on small instances;
- an abstract specification of the PullRequest life cycle, which the PullRequest model refines;
- two TLAPS proof modules.

`PROJECT.json` gives the machine-readable inventory:

- the components;
- the runs, and the mutants that show each checked property can fail;
- the map from every definition to the source lines it models;
- findings, hazards and theorems.

## The system

A `PromotionStrategy` lists environments in order, for example dev, staging and prod. Each environment has an active branch `env/<name>` and a proposed branch `env/<name>-next`.

Several actors interact only through the Kubernetes store and Git:

- **The hydrator** pushes each new dry commit to every `-next` branch. It is not in `src/`.
- **The ProposedCommit reconciler** resolves the dry and hydrated SHAs of both branches into the ProposedCommit status. When the branches differ, it creates the environment's `PullRequest` record. It is not in `src/`.
- **CI / Argo CD** write `CommitStatus` records. The CommitStatus reconciler publishes `spec.state` into `status.state`. Neither is in `src/`.
- **The PromotionStrategy reconciler** (`src/internal/controller/promotionstrategy_controller.go`) does three things:
  - it gets or creates each environment's ProposedCommit and waits for its SHAs;
  - it rolls the CommitStatus records up into the strategy status (`calculateStatus`);
  - for each environment in order, it flips the environment's `PullRequest` to `spec.state = merged` when the previous environment's active commit is the one proposed here and is healthy.
- **The PullRequest reconciler** (`src/unnamed/part_000`) converges each `PullRequest` record with the SCM provider. It handles the finalizer, Create, Merge and Close, and deletes the record once the provider PR is gone.
- **The provider.** Merging a PR moves the active branch to the head of the `-next` branch *at the time of the merge*.

## Modules

| Module | Models | State |
|---|---|---|
| `PullRequest` | PullRequest reconciler: `Reconcile`, `handleFinalizer`, `createPullRequest`, `mergePullRequest`, `closePullRequest`; plus the actions others take on records and on the provider | `pr[e]` (exists, spec, status, finalizer, deletionTimestamp), `provider[e]`, `storeErrors` |
| `PromotionStrategy` | PromotionStrategy reconciler, with `calculateStatus` as operators and the merge decision | `pc[e]`, `cs[k][s]`, `psPhase`/`psEnv` (where the current invocation is), `psSnap[e]` (the statuses it read and computed) |
| `Promoter` | the composition: Git (`gitActive`, `gitProposed`, `latestDry`, `promoted`), the hydrator, the ProposedCommit and CommitStatus reconcilers, CI, and the effect of a provider merge on Git | the union |
| `MCPromoter` | the check lists and auto-merge flags of the TLC instances | — |
| `PRLifecycle` | the abstract PR life cycle: what the owners of a record want (`want[e]`) and the provider's PR (`prov[e]`) | `want`, `prov` |
| `PullRequestProofs` | TLAPS proofs about `PullRequest`, with the refinement proof | — |
| `PromoterProofs` | TLAPS proofs about the composed system: type correctness and the flip's justification | — |
| `PromoterLifecycleProofs` | TLAPS proofs that the composed system keeps the finalizer guarantee and implements `PRLifecycle` | — |
| `PromoterGateProofs` | TLAPS proofs about the merge gate and the active roll-up | — |

The composition works by layering EXTENDS: `PullRequest` ← `PromotionStrategy` ← `Promoter` ← `MCPromoter`.

### PullRequest

`PRReconcile(e)` is one `Reconcile` call for environment `e`. Its branches follow the code's order, and each guard includes the negation of the early returns before it:

| Branch | Code |
|---|---|
| `PRFinalize` | deletion branch of `handleFinalizer` |
| `PRDeleteGone` | lines 100-110 |
| `PRInSync` | lines 113-116 |
| `PRCreate` | lines 119-124 |
| `PRMerge` | lines 127-140 |
| `PRClose` | lines 143-156 |

Adding the finalizer (`handleFinalizer`, lines 208-219) comes first in every non-deletion branch.

Each write to the store after a provider call (`WriteStatus`, `PRFinalize`) either succeeds or fails with `StoreError`. A failure leaves the old status in place and counts against `MaxStoreErrors`.

The provider refuses a Create when a PR is already open, and a Merge when there is none.

`updatePullRequest` (title and description) changes no state the properties tell apart, so it is a stutter.

**Refinement.** `PRLifecycle` states what the reconciler promises, without records, finalizers or status writes. For each environment it has two parts:

- `want[e]`: `absent`, `open`, `merged` or `closed`;
- `prov[e]`: the provider PR.

The provider PR follows three rules:

- it is opened only when it is wanted open;
- it is merged only when it is wanted merged;
- it is closed only when it is wanted closed or absent, or by a person where people close PRs (`PeopleClose`).

`PullRequest` instantiates it as `LC == INSTANCE PRLifecycle WITH want <- WantOf, prov <- provider, PeopleClose <- ManualCloses`. `WantOf[e]` is `absent` when there is no record or its deletionTimestamp is set, and the record's `spec.state` otherwise.

- `LifecycleSafe` (`LC!LCSafety`) says every step of the model maps to an abstract step or a stutter. The runs check it, and the theorem `Refinement` proves it.
- With `ManualCloses = TRUE` a person may close an open PR at any time, so the close rule constrains nothing. Only with `ManualCloses = FALSE` does `LifecycleSafe` say that the reconciler closes a PR only when the record asks for closed or is going away. `pr_safety` runs without manual closes for that reason: there, a close branch that skips the `spec.state` test violates it. `promoter_safety` keeps manual closes, so that `FlipOnlyPromotedUpstream` meets records deleted and re-created after a close. There `LifecycleSafe` checks opens, merges and what is wanted.
- `LifecycleRefined` (`LC!LCSpec`) adds the abstract fairness: whatever is wanted of an open PR is eventually done. `pr_liveness` checks it.

### PromotionStrategy

One invocation of `Reconcile` is split at the points where other actors can act in between:

- **`PSFetch(e)`**, in spec order: lines 80-87 and `createOrGetProposedCommit`. It creates the ProposedCommit if it is missing. It is enabled only once the four SHAs are resolved, which is the wait loop at 236-252. It then keeps the copy it read.
- **`PSCompute`**: `calculateStatus`. The roll-up operators are taken line by line from the code:
  - `Collected`: the records found exactly once;
  - `Sentinel`: `no-commit-status-found` / `to-many-matching-sha`;
  - `BubbleUp`: success unless a collected record's `status.state` is not success, in which case its `spec.state`;
  - `ActiveRollup`: lines 294-346, including the case of zero checks;
  - `ProposedRollup`: lines 348-398, including its use of the active list.
- **`PSPromote(e)`**: one iteration of the loop at 94-144.
  - `CopyStatuses(e)` (lines 98-106 and `copyCommitStatuses`) comes first.
  - `ActiveChecksPassed`, `ProposedChecksPassed` and `MayMerge` are lines 108-116.
  - `Flippable` is the List and the check of line 144.
  - If both hold, the invocation moves to the phase `flip`. Otherwise `NextEnvironment` moves to the next environment, or ends the invocation after the last one (the status update, lines 158-172).
- **`PSFlip(e)`**: the `RetryOnConflict` of lines 145-157. It re-Gets the record *by name* and sets `spec.state = merged` on whatever record holds the name by then, or finds none.
  - Between `PSPromote` and `PSFlip`, the other reconcilers and people may act. This gap is where the flip race lives.
- **`PSCopyFail(e)`**: a Create or Update of a copy fails after the copies before it in the key list were written (lines 455-457, 475-477).
- **`PSAbort`**: any other error return, which ends the invocation.

**Copies.** `copies[k][s]` is the `commit-status-copy` record of key `k` from source SHA `s`. It holds the SHA it was last written to and the state it copied. `copyCommitStatuses` is modelled by what it does:

- `CopySources`: the keys with a non-copy record on the source;
- `CopyMissing`: the keys whose copy does not exist yet;
- `CopyProcessed`: the keys handled before the function returns. After creating a missing copy it returns nil (line 458), so the later keys wait for the next invocation.

`ReportingEnvs` names the environments where CI reports checks. Leaving the last environment out keeps the copy runs small, and `promoter_order` (where only the first environment has a check, the health check `MCHealthKey`) reports on the first alone.

Data is abstracted as follows:

- Dry commits are `1..MaxDry` in commit order, so a dry SHA is also its commit time.
- The hydrated SHA of environment `e`, side `side`, for dry commit `d` is `<<e, side, d>>`.
- The CommitStatus records of key `k` on SHA `s` become `cs[k][s]`: their count (0, 1, or 2 meaning "more than one"), and the record's spec and status states.
- Environments are `1..NumEnvs`, and the status list is kept in spec order. `PreviousEnv` and `EnvironmentIndex` model `GetPreviousEnvironmentStatusByBranch` and `GetEnvironmentStatusByBranch` on such a list.

### Promoter (composition)

- `PRStep(e)` is `PRReconcile(e)`. When the provider PR goes from open to merged, it also sets `gitActive[e]` to the *current* `gitProposed[e]` and records the commit in `promoted[e]`.
- `PCReconcile(e)` refreshes the ProposedCommit from Git, and creates the PullRequest record when the branches differ and no record exists.
- `CSReport`, `CSDuplicate` and `CSPublish` are CI and the CommitStatus reconciler. `ReportableCells` makes checks land on the SHAs the branches currently hold.
- `ExternalClose` is `ProviderExternalClose` of `PullRequest`, a person closing the PR on the provider. It is enabled by `ManualCloses`, a constant of `PullRequest`.

The actors outside `src/` are modelled from `spec.md` and marked `spec_modelled` in the map.

## Runs

| Run | Cfg | Expect | What it shows |
|---|---|---|---|
| pr_safety | `PRSafety.cfg` | pass | With 2 environments, up to 2 failing store writes and no manual closes, an open provider PR is always guarded by a record holding the finalizer (`NoOrphanedProviderPR`), and the provider PR is opened, merged and closed only as the records ask (`LifecycleSafe`). |
| pr_liveness | `PRLiveness.cfg` | pass | With people closing PRs, a merged or closed record is eventually removed (`SettledRecordRemoved`), and an open request is eventually acknowledged (`OpenRequestAcknowledged`). |
| pr_partial_failure | `PRPartialFailure.cfg` | violation | Create succeeds, then the status write fails. Every retry calls Create on an existing PR, so the record never reaches status open. |
| promoter_liveness | `PromoterLiveness.cfg` | pass | Every dry commit eventually reaches every environment (`EveryCommitPromoted`). |
| promoter_safety | `PromoterSafety.cfg` | pass | With store errors and manual closes, environment `e` is flipped only for a dry commit environment `e-1` has actually run (`FlipOnlyPromotedUpstream`), and no PR is orphaned. |
| promoter_order | `PromoterOrder.cfg` | violation | `PromotedInOrder` fails: the gate compares the *snapshot's* proposed dry SHA, but the merge takes the branch head. If the hydrator pushes between the two, env 2 runs commit 3 before env 1 has it. |
| promoter_sentinel | `PromoterSentinel.cfg` | violation | A missing active check's sentinel is overwritten by success at line 338. |
| promoter_proposed_rollup | `PromoterProposedRollup.cfg` | violation | The proposed roll-up reports success with a proposed check missing (lines 385-397). |
| promoter_zero_checks | `PromoterZeroChecks.cfg` | violation | With zero active checks, Active stays `unknown` (line 334 writes Proposed), so the next environment can never be promoted automatically. |
| promoter_copy_batch | `PromoterCopyBatch.cfg` | pass | With two shared checks, duplicate records and a failing copy write, each check of the previous environment is eventually mirrored with its current state onto the proposed SHA (`CopiesEventuallyMirror`). The early return at line 458 and a partial failure only delay the copies. |
| promoter_copy_keys | `PromoterCopyKeys.cfg` | violation | A check configured only on the previous environment is never copied: line 101 selects by the *current* environment's keys. |
| promoter_flip_race | `PromoterFlipRace.cfg` | violation | `MergeRequestedOnlyOpened` fails (17 steps). The strategy passes the check of line 144, then a person closes the PR. The PullRequest reconciler deletes the record, and the ProposedCommit reconciler re-creates it under the same name. The flip's re-Get then marks the fresh record, which has no status, as merged. Nothing can merge or delete that record. |

The violations are written up under `findings` in `PROJECT.json`.

`pr_safety` and `promoter_safety` also check `LifecycleSafe`, and `pr_liveness` also checks `LifecycleRefined`.

`FlipOnlyPromotedUpstream` under duplicate CommitStatus records and checks that change state in any direction needs no run of its own. The theorem `FlipSafe` proves it for every value of `MaxCSPerSha` and `MonotoneChecks`.

The stale roll-up at line 340 is not kept as a run (see the hazard in `PROJECT.json`). With one check per environment and non-monotone checks, TLC violates `ActiveRollupSound` in 11 states: a success that CI withdrew after it was published still rolls up as success. spec.md 4.1 step 4 describes that behaviour.

Note on `FlipOnlyPromotedUpstream`: the gate is evaluated on the snapshot, and the snapshot's `aDry` came from a branch the previous environment did have. So the *flip* is sound. The hazard is what the provider merges afterwards, which `promoter_order` shows.

Every property of a passing run has a mutant in `PROJECT.json`: an operator defined just before the definition it replaces, such as `StoreErrorUnbounded`, `WriteStatusFinalizerLate`, `GoneOnlyIfOpen`, `PRCreateNoStatus`, `PRCreateAnyState`, `PRFinalizeNoClose`, `ActiveChecksPassedWrongSide`, `MayMergeUngated`, `CopyStatusesCreateOnly` or `CopyProcessedBeforeMissing`. TLC finds the property violated when the mutant is substituted.

## Bounds

- **Environments.** Two are enough for every relation between an environment and its predecessor.
- **Dry commits.** Two are enough for a promotion to chase a newer commit. The order violation needs three: one initial, one that env 2 is gated on, and one pushed before the merge.
- **Check keys.** Two (`health`, `ci`): one per list in most runs, and two in one list for the sentinel run.
- **Store errors.** 0-2, which covers a failure at each write of one life cycle.
- **Records per key and SHA.** `MaxCSPerSha = 2` stands for "more than one".
- **Flip race.** It needs `ManualCloses` and two dry commits, so that the record is re-created after the close.
- **Copies.** `promoter_copy_batch` has one dry commit, because two do not finish within the run budget. So the proposed SHA never moves and the retarget of an existing copy (line 464) is not exercised.
- **Passing runs.** Each explores between 529 and about 263,000 distinct states in under two minutes.

## Fairness

Controller-runtime re-invokes the strategy reconciler every 10 s (`RequeueAfter`, line 171). The PullRequest reconciler runs on generation changes, requeues (lines 139, 155) and the periodic resync. So each reconciler step is weakly fair:

- `PRStep(e)` / `WF_prVars(PRReconcile(e))`;
- `PSFetch`, `PSCompute`, `PSPromote` and `PSFlip`;
- `PCReconcile`.

The collaborators are assumed to make progress:

- the hydrator pushes;
- CI passes a pending check (`CIPasses`);
- the CommitStatus reconciler publishes.

Store errors and manual closes get no fairness. The liveness runs have no store errors (`MaxStoreErrors = 0`). `pr_liveness` lets people close PRs, which its properties survive. `promoter_liveness` does not (`ManualCloses = FALSE`), because a person who closes every PR forever can stop any promotion.

These fairness assumptions also assume two hazards away, and the hazard list says so. The wait at line 236 always ends, because the ProposedCommit reconciler is fair. An event dropped by the predicate at line 178 is always followed by a requeue or resync.

## Proofs (TLAPS)

`PullRequestProofs.tla` proves three theorems, for every `NumEnvs` and `MaxStoreErrors`, under the assumptions `NumEnvsAssumption` and `MaxStoreErrorsAssumption`:

- `TypeCorrect`: `PRSpec => []PRTypeOK`;
- `OrphanFree`: `PRSpec => []NoOrphanedProviderPR`;
- `Refinement`: `PRSpec => LifecycleSafe`.

`NoOrphanedProviderPR` is not inductive on its own. A `PRClose` or `PRFinalize` step on a record whose status says merged leaves the provider as it is. If the provider still had an open PR, removing the record would orphan it.

The strengthening `MergedStatusSettled` says that a status of merged implies spec merged and no open provider PR. The inductive invariant is

    IInv == PRTypeOK /\ NoOrphanedProviderPR /\ MergedStatusSettled

TLC checked `IInv` as an invariant on the `pr_safety` bounds before it was proved. `InitIInv` and `NextIInv` prove it inductive, with one case per action and one per branch of `PRReconcile`. The record-update lemmas (`FinUpdate`, `StatusUpdate`, ...) keep the SMT obligations small.

`Refinement` proves `PRSpec => LifecycleSafe`:

- `InitRefines` shows the initial states map to `LCInit`.
- `StepRefines` shows each step, given `PRTypeOK`, maps to an abstract step or a stutter. The proof has one case per action and one per branch of `PRReconcile`:
  - a status write keeps `WantOf`;
  - `PRDeleteGone` is `Withdraw`;
  - `PRCreate`, `PRMerge` and `PRClose` on the provider are `Open`, `Merge` and `Close`.

`PromoterProofs.tla` proves two theorems about the composed system, for every value of the constants:

- `PromoterTypeCorrect`: `Spec => []TypeOK`;
- `FlipSafe`: `Spec => FlipOnlyPromotedUpstream`.

Both rest on the inductive invariant

    PInv == TypeOK /\ IInv /\ SnapResolved /\ History /\ FlipJustified

Each conjunct beyond `TypeOK` and `IInv` is needed for the reason given:

- `SnapResolved`: a snapshot the invocation has fetched holds dry SHAs in `Dry`, not the empty SHA of an unresolved ProposedCommit. Without it, the copy and roll-up operators would be applied to ill-typed SHAs.
- `History`: every dry SHA an environment runs, and every SHA a ProposedCommit or snapshot records as active, has been promoted there (`promoted[e]`).
- `FlipJustified`: in the `flip` phase of environment `e > 1`, the snapshot's proposed dry SHA is in `promoted[e-1]`.
  - `GateJustifies` shows the gate establishes it. The gate requires the previous environment's active dry SHA to equal the proposed one and to be newer than this environment's. So it is not the empty SHA, and `History` puts it in `promoted[e-1]`.
  - Nothing between the gate and the flip removes it, because `promoted` only grows and `psSnap` is not written in that phase.

`FlipStep` shows that only `PSFlip` turns a `spec.state` from open to merged. `PRReconcileSpec` shows every branch of the PullRequest reconciler keeps `spec.state` or resets the record to the empty one. So the flip race does not break `FlipOnlyPromotedUpstream`: the record it marks wrongly is marked with a commit that was promoted upstream.

`FirstIndexMin`, the minimum of a nonempty set of naturals, comes from `WFMin` of `WellFoundedInduction` applied to `<` on `Nat`.

`PromoterLifecycleProofs.tla` proves the PullRequest guarantees for the composed system, where the strategy's flip and the ProposedCommit reconciler also write the records:

- `PromoterOrphanFree`: `Spec => []NoOrphanedProviderPR`. It follows from `PInv`, whose `IInv` conjunct already includes the property.
- `PromoterRefinement`: `Spec => LifecycleSafe`.

The refinement rests on `PInv` and one more invariant:

    NoCloseRequests == \A e \in Envs : pr[e].spec \in {"open", "merged"}

A flip writes spec merged on whatever record the re-Get returns (lines 145-156). That write is the abstract `Decide` only if the record asked for open. If the record asked for closed, the flip would move the abstract `want` from closed to merged, which `PRLifecycle` forbids. `NoCloseStep` shows that no step of the composed system creates a close request:

- the ProposedCommit reconciler creates records asking for open;
- the flip asks for merged;
- `PRReconcileSpec` shows the PullRequest reconciler keeps the spec or resets the record.

`PRRequestClose` exists in `PullRequest` but is not in `Promoter`'s `Next`, so this is a fact of the composition, not an assumption. TLC checked `NoCloseRequests` on the `promoter_safety` bounds before it was proved.

`PromoterStepRefines` shows that every step is a lifecycle step or a stutter:

- the PullRequest reconciler, record creation and a person's close are `PRNext` steps, mapped by `StepRefines`;
- `FlipRefines` maps the flip to `Decide`, or to a stutter when the record already asked for merged or is being deleted;
- every other step leaves `pr` and `provider` alone.

`FlipOf` names the record the flip writes, so that SMT never sees the nested EXCEPT.

`PromoterGateProofs.tla` proves the zero-checks finding for every configuration:

- `ZeroChecksBlockMerge`: `Spec => NoMergeAfterUnchecked`. When an environment has no active checks, no step turns the next environment's `spec.state` from open to merged. Only the flip makes that change (`FlipStep`). So this environment is never promoted automatically, whatever the number of environments, dry commits, keys or store errors.

It rests on `PInv` and on

    GInv == ZeroChecksUnknown /\ GateHeld

- `ZeroChecksUnknown`: an environment with no active checks keeps the active state `unknown`. `ZeroKeysRollup` shows `calculateStatus` computes `unknown` for an empty list. `FetchKeepsStates` shows the fetch writes only the SHAs.
- `GateHeld`: in the `flip` phase of environment `e > 1`, the previous environment's computed active state is `success` (`MayMergeGate`). Nothing writes `psSnap` between the decision and the flip.

TLC checked `GInv` and `NoMergeAfterUnchecked` on the `promoter_zero_checks` constants (with `MaxDry = 2`) before they were proved. In that instance the first environment is merged, so the property is not vacuous. No run keeps the property: it holds in every instance, and the `promoter_zero_checks` run keeps the violated statement of spec.md section 8 that it contradicts.

Two operator lemmas about the active roll-up hold for every key list:

- `RollupSuccessCollected`: the active state is `success` only if some key matched exactly one record.
- `SentinelOverwritten`: the active state is `success` once one key matched a record and every collected status is `success`, whatever the other keys found. This is the `promoter_sentinel` finding as a general fact.

## Only model-checked

- **Liveness** (`EveryCommitPromoted`, `SettledRecordRemoved`, `OpenRequestAcknowledged`, `CopiesEventuallyMirror`) and the fair part of the refinement (`LifecycleRefined`). TLAPS does not handle fairness and ENABLED.
- **The roll-up operators** beyond the two lemmas above. TLC checks them on bounded check lists.

## Not modelled

- **The `LastHealthyDryShas` cap** (line 290). The list is never appended to (spec.md 9, Q1), so the cap changes nothing. The guard `i >= len(...)` would also index out of range if it ever held.
- **A status list out of spec order** (line 288). The model keeps the list in spec order, as `UpsertEnvironmentStatus` leaves it when the spec is not edited. Reordering the spec's environments at run time is out of scope.
- **The copy's label writes** (lines 466-469). A copy found by Get was created with its labels, so its label map is never nil. The labels are folded into what `copies` records, a copy of a given key and source.
- **String utilities, SCM provider lookup, manager setup and CRDs** (`src/cmd/main.go`, the CRDs under `src/config/crd/bases/`): pure functions or wiring.

## Plan

1. Prove facts about the copies (`CopyStatuses`): which copies a failed batch leaves written.
2. Model the status list in stored order, to reach the index hazard at line 288.
