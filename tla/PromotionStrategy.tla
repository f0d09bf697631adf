------------------------- MODULE PromotionStrategy -------------------------
(***************************************************************************)
(* The PromotionStrategy reconciler                                        *)
(* (src/internal/controller/promotionstrategy_controller.go).              *)
(*                                                                         *)
(* One invocation is split into the steps between which other controllers *)
(* and the outside world can act:                                          *)
(*   PSFetch(e) - fetch-or-create environment e's ProposedCommit and wait  *)
(*                for its SHAs, in spec order;                             *)
(*   PSCompute  - calculateStatus;                                         *)
(*   PSPromote(e) - for each environment in spec order, the merge decision *)
(*                and the flip of its PullRequest, the last one followed   *)
(*                by the status update.                                    *)
(* Environments are the indices 1..NumEnvs in spec order (the fixed-order  *)
(* case: the status list is kept in the same order as the spec).           *)
(*                                                                         *)
(* Dry commits are numbered 1..MaxDry in commit order, so a dry SHA is     *)
(* also its commit time.  The hydrated SHA of environment e's active or    *)
(* proposed branch for dry commit d is <<e, side, d>>.                     *)
(***************************************************************************)
EXTENDS PullRequest, Sequences

CONSTANTS
    MaxDry,             \* number of dry commits
    Keys,               \* commit-status keys
    EnvActiveKeys,      \* EnvActiveKeys[e]: environment's activeCommitStatuses
    GlobalActiveKeys,   \* spec.activeCommitStatuses
    EnvProposedKeys,    \* EnvProposedKeys[e]: environment's proposedCommitStatuses
    GlobalProposedKeys, \* spec.proposedCommitStatuses
    AutoMerge,          \* AutoMerge[e]: environment.GetAutoMerge()
    CSStates            \* the CommitStatus states the run lets checks take

ASSUME MaxDryAssumption == MaxDry \in Nat \ {0}
ASSUME KeysAssumption ==
    /\ EnvActiveKeys \in [1..NumEnvs -> Seq(Keys)]
    /\ EnvProposedKeys \in [1..NumEnvs -> Seq(Keys)]
    /\ GlobalActiveKeys \in Seq(Keys)
    /\ GlobalProposedKeys \in Seq(Keys)
ASSUME AutoMergeAssumption == AutoMerge \in [1..NumEnvs -> BOOLEAN]
ASSUME CSStatesAssumption ==
    /\ CSStates \subseteq {"pending", "success", "failure"}
    /\ "pending" \in CSStates /\ "success" \in CSStates

VARIABLES
    pc,         \* pc[e]: the ProposedCommit of e (written by its reconciler)
    cs,         \* cs[k][s]: the CommitStatus records with key k on SHA s
    psPhase,    \* where the current invocation is
    psEnv,      \* the environment the invocation is at
    psSnap,     \* the environment statuses the invocation computed
    copies      \* copies[k][s]: the copy "proposed-<name>" of the record
                \* with key k on the active SHA s (copyCommitStatuses)

psVars == <<pc, cs, psPhase, psEnv, psSnap, copies>>

Dry == 1..MaxDry
NoSha == 0                  \* the empty SHA "" of a ProposedCommit status
Sides == {"active", "proposed"}
Sha == Envs \X Sides \X Dry
Hyd(e, side, d) == <<e, side, d>>
CommitTime(d) == d

\* The effective check lists: append(environment.X, ps.Spec.X...)
ActiveKeys(e) == EnvActiveKeys[e] \o GlobalActiveKeys
ProposedKeys(e) == EnvProposedKeys[e] \o GlobalProposedKeys

(***************************************************************************)
(* A ProposedCommit: whether it exists, and the dry SHAs of its active and *)
(* proposed branches (NoSha until its reconciler resolved them).  The      *)
(* hydrated SHAs follow from them.                                         *)
(***************************************************************************)
PCRecord == [exists: BOOLEAN, aDry: Dry \cup {NoSha}, pDry: Dry \cup {NoSha}]
NoPC == [exists |-> FALSE, aDry |-> NoSha, pDry |-> NoSha]
Resolved(p) == p.exists /\ p.aDry # NoSha /\ p.pDry # NoSha

(***************************************************************************)
(* The non-copy CommitStatus records with one key on one SHA: how many     *)
(* (0, 1, or 2 for "more than one"), and the spec.state and status.state   *)
(* of the record when there is exactly one ("none" before the CommitStatus *)
(* reconciler first published it).                                         *)
(***************************************************************************)
CSCell == [n: 0..2, spec: CSStates, status: CSStates \cup {"none"}]
NoCS == [n |-> 0, spec |-> "pending", status |-> "none"]

(***************************************************************************)
(* A copy of a record: the SHA it was last written to (spec.sha, NoCopy    *)
(* before it was created) and the spec.state it copied.  Copies carry the  *)
(* key label of their source and commit-status-copy=true.                  *)
(***************************************************************************)
NoCopy == <<>>
CopyRecord == [to: Sha \cup {NoCopy}, state: CSStates]
NoCopyRecord == [to |-> NoCopy, state |-> "pending"]

RollupStates ==
    CSStates \cup {"unknown", "no-commit-status-found", "to-many-matching-sha"}

EnvStatus == [aDry: Dry \cup {NoSha}, pDry: Dry \cup {NoSha},
              aState: RollupStates, pState: RollupStates]
NoEnvStatus == [aDry |-> NoSha, pDry |-> NoSha,
                aState |-> "unknown", pState |-> "unknown"]

PSTypeOK ==
    /\ pc \in [Envs -> PCRecord]
    /\ cs \in [Keys -> [Sha -> CSCell]]
    /\ psPhase \in {"idle", "fetch", "compute", "merge", "flip"}
    /\ psEnv \in Envs
    /\ psSnap \in [Envs -> EnvStatus]
    /\ copies \in [Keys -> [Sha -> CopyRecord]]

-----------------------------------------------------------------------------
(***************************************************************************)
(* calculateStatus: bubbling the CommitStatus records up into the          *)
(* environment's status.                                                   *)
(***************************************************************************)

\* List by key label and .spec.sha, dropping the copies (lines 298-316).
NonCopyCount(k, s) == cs[k][s].n

\* Indices of the keys whose lookup found exactly one record: they make up
\* allActiveCSList / allProposdedCSList, in this order (lines 318-319).
Collected(L, s) == {i \in DOMAIN L : NonCopyCount(L[i], s) = 1}

\* The collected records whose status.state is not success (line 340).
Failing(L, s) == {i \in Collected(L, s) : cs[L[i]][s].status # "success"}

FirstIndex(S) == CHOOSE i \in S : \A j \in S : i <= j

\* The sentinel written for a key that matched 0 or several records.
Sentinel(k, s) ==
    IF NonCopyCount(k, s) = 0 THEN "no-commit-status-found"
                              ELSE "to-many-matching-sha"

\* "success", overridden by the spec.state of the first collected record
\* whose status.state is not success (lines 338-345 and 390-397).
BubbleUp(L, s) ==
    IF Failing(L, s) = {} THEN "success"
    ELSE cs[L[FirstIndex(Failing(L, s))]][s].spec

(***************************************************************************)
(* Active state (lines 294-346).  With nothing collected the state is the  *)
(* sentinel of the last key (every key wrote one) or, with no key at all,  *)
(* the "unknown" the upsert put there: the success of line 334 goes to the *)
(* proposed state instead.  Otherwise the sentinels are overwritten.       *)
(***************************************************************************)
ActiveRollup(e, p) ==
    LET L == ActiveKeys(e)
        s == Hyd(e, "active", p.aDry)
    IN  IF Collected(L, s) = {}
          THEN IF L = <<>> THEN "unknown" ELSE Sentinel(L[Len(L)], s)
          ELSE BubbleUp(L, s)

(***************************************************************************)
(* Proposed state (lines 348-398): success when nothing was collected for  *)
(* the proposed keys, and otherwise the bubbling up of the ACTIVE list.    *)
(***************************************************************************)
ProposedRollup(e, p) ==
    IF Collected(ProposedKeys(e), Hyd(e, "proposed", p.pDry)) = {}
      THEN "success"
      ELSE BubbleUp(ActiveKeys(e), Hyd(e, "active", p.aDry))

EnvironmentStatus(e, p) ==
    [aDry |-> p.aDry, pDry |-> p.pDry,
     aState |-> ActiveRollup(e, p), pState |-> ProposedRollup(e, p)]

-----------------------------------------------------------------------------
(***************************************************************************)
(* The merge decision for environment e (lines 95-116), on the statuses    *)
(* this invocation computed; the previous environment is e - 1.            *)
(***************************************************************************)
\* The position of e in the status list ordered as the spec
\* (GetEnvironmentStatusByBranch), counted from 0.
EnvironmentIndex(e) == e - 1

\* The environment before e in that list (GetPreviousEnvironmentStatusByBranch);
\* the first environment has none.
PreviousEnv(e) == e - 1

\* Mutant: the previous environment's active dry SHA compared with this
\* environment's active one instead of its proposed one.
ActiveChecksPassedWrongSide(e) ==
    /\ EnvironmentIndex(e) > 0
    /\ psSnap[PreviousEnv(e)].aState = "success"
    /\ psSnap[PreviousEnv(e)].aDry = psSnap[e].aDry
    /\ CommitTime(psSnap[PreviousEnv(e)].aDry) > CommitTime(psSnap[e].aDry)

ActiveChecksPassed(e) ==
    /\ EnvironmentIndex(e) > 0
    /\ psSnap[PreviousEnv(e)].aState = "success"
    /\ psSnap[PreviousEnv(e)].aDry = psSnap[e].pDry
    /\ CommitTime(psSnap[PreviousEnv(e)].aDry) > CommitTime(psSnap[e].aDry)

ProposedChecksPassed(e) == psSnap[e].pState = "success"

\* Mutant: every environment merged like the first one.
MayMergeUngated(e) == AutoMerge[e]

MayMerge(e) ==
    /\ EnvironmentIndex(e) = 0 \/ (ActiveChecksPassed(e) /\ ProposedChecksPassed(e))
    /\ AutoMerge[e]

\* The PullRequest listed by label passes the test of line 144.
Flippable(e) ==
    pr[e].exists /\ pr[e].spec = "open" /\ pr[e].status = "open"

-----------------------------------------------------------------------------
(***************************************************************************)
(* The steps of one invocation.                                            *)
(***************************************************************************)

(***************************************************************************)
(* Lines 80-87 with createOrGetProposedCommit (191-255), for environment e *)
(* in spec order: create its ProposedCommit if it is missing, then wait    *)
(* (the loop at 236-252) until its four SHAs are set and keep the copy it  *)
(* read: calculateStatus and the merge decision use that copy, taken when  *)
(* this environment's wait ended, not the ProposedCommit as it is later.   *)
(***************************************************************************)
PSFetch(e) ==
    /\ \/ psPhase = "idle" /\ e = 1
       \/ psPhase = "fetch" /\ psEnv = e
    /\ IF ~pc[e].exists
         THEN /\ pc' = [pc EXCEPT ![e] = [NoPC EXCEPT !.exists = TRUE]]
              /\ psPhase' = "fetch" /\ psEnv' = e
              /\ UNCHANGED psSnap
         ELSE /\ Resolved(pc[e])
              /\ psSnap' = [psSnap EXCEPT ![e].aDry = pc[e].aDry,
                                          ![e].pDry = pc[e].pDry]
              /\ IF e = NumEnvs
                   THEN psPhase' = "compute" /\ UNCHANGED psEnv
                   ELSE psPhase' = "fetch" /\ psEnv' = e + 1
              /\ UNCHANGED pc
    /\ UNCHANGED <<cs, copies, prVars>>

\* calculateStatus (lines 89, 257-402) on the copies read above.
PSCompute ==
    /\ psPhase = "compute"
    /\ psSnap' = [e \in Envs |-> EnvironmentStatus(e, psSnap[e])]
    /\ psPhase' = "merge"
    /\ psEnv' = 1
    /\ UNCHANGED <<pc, cs, copies, prVars>>

-----------------------------------------------------------------------------
(***************************************************************************)
(* copyCommitStatuses (lines 98-106, 404-482), for environment e on the    *)
(* statuses this invocation computed.                                      *)
(***************************************************************************)

\* Lines 98-100: a previous environment whose active dry SHA is the one
\* proposed here.
CopyWanted(e) ==
    /\ EnvironmentIndex(e) > 0
    /\ psSnap[PreviousEnv(e)].aDry = psSnap[e].pDry

\* Line 101: from the previous environment's active hydrated SHA to this
\* environment's proposed hydrated SHA, for this environment's active keys.
CopyFrom(e) == Hyd(PreviousEnv(e), "active", psSnap[PreviousEnv(e)].aDry)
CopyTo(e) == Hyd(e, "proposed", psSnap[e].pDry)

\* The positions of the selector list whose key has a non-copy record on the
\* source SHA (lines 407-424).
CopySources(e) ==
    {i \in DOMAIN ActiveKeys(e) : NonCopyCount(ActiveKeys(e)[i], CopyFrom(e)) > 0}

\* Of those, the ones whose copy does not exist yet (Get fails, line 428).
CopyMissing(e) ==
    {i \in CopySources(e) : copies[ActiveKeys(e)[i]][CopyFrom(e)].to = NoCopy}

\* Mutant: stops before the first missing copy instead of after it.
CopyProcessedBeforeMissing(e) ==
    IF CopyMissing(e) = {} THEN CopySources(e)
    ELSE {i \in CopySources(e) : i < FirstIndex(CopyMissing(e))}

\* The positions handled before the function returns: all of them, or up to
\* the first missing copy, whose Create is followed by "return nil" (458).
CopyProcessed(e) ==
    IF CopyMissing(e) = {} THEN CopySources(e)
    ELSE {i \in CopySources(e) : i <= FirstIndex(CopyMissing(e))}

\* Create or Update (lines 431-477) the copies of the positions in P: the
\* copy takes the source's spec.state and is pointed at the proposed SHA.
WriteCopies(e, P) ==
    copies' = [k \in Keys |-> [s \in Sha |->
                 IF s = CopyFrom(e) /\ \E i \in P : ActiveKeys(e)[i] = k
                   THEN [to |-> CopyTo(e), state |-> cs[k][s].spec]
                   ELSE copies[k][s]]]

\* Mutant: existing copies are never updated.
CopyStatusesCreateOnly(e) ==
    IF CopyWanted(e) THEN WriteCopies(e, CopyProcessed(e) \cap CopyMissing(e))
                     ELSE UNCHANGED copies

CopyStatuses(e) ==
    IF CopyWanted(e) THEN WriteCopies(e, CopyProcessed(e))
                     ELSE UNCHANGED copies

\* The end of one iteration of the loop at lines 94-162: the next
\* environment, or after the last one the status write (164-172) and the
\* end of the invocation.
NextEnvironment(e) ==
    IF e = NumEnvs THEN psPhase' = "idle" /\ UNCHANGED psEnv
                   ELSE psPhase' = "merge" /\ psEnv' = e + 1

\* One iteration of the loop at lines 94-162: the copy, then the merge
\* decision on the PullRequest listed by label (lines 116-144).  A record
\* that passes the check at line 144 is flipped by PSFlip.
PSPromote(e) ==
    /\ psPhase = "merge" /\ psEnv = e
    /\ CopyStatuses(e)
    /\ IF MayMerge(e) /\ Flippable(e)
         THEN psPhase' = "flip" /\ UNCHANGED psEnv
         ELSE NextEnvironment(e)
    /\ UNCHANGED <<pc, cs, psSnap, prVars>>

(***************************************************************************)
(* Lines 145-156: RetryOnConflict re-Gets the PullRequest by name and sets *)
(* spec.state to merged on whatever record the store holds now, without    *)
(* repeating the test of line 144.  A record that is gone makes the Get    *)
(* fail and Reconcile return the error.                                    *)
(***************************************************************************)
PSFlip(e) ==
    /\ psPhase = "flip" /\ psEnv = e
    /\ \/ /\ pr[e].exists
          /\ pr' = [pr EXCEPT ![e].spec = "merged"]
          /\ NextEnvironment(e)
       \/ /\ ~pr[e].exists
          /\ psPhase' = "idle"
          /\ UNCHANGED <<psEnv, pr>>
    /\ UNCHANGED <<pc, cs, psSnap, copies, provider, storeErrors>>

\* A Create or Update of a copy fails (lines 455-457, 475-477) after the
\* copies before it in the list were written: Reconcile returns the error.
PSCopyFail(e) ==
    /\ psPhase = "merge" /\ psEnv = e
    /\ CopyWanted(e)
    /\ \E j \in CopyProcessed(e) : WriteCopies(e, {i \in CopyProcessed(e) : i < j})
    /\ StoreError
    /\ psPhase' = "idle"
    /\ UNCHANGED <<pc, cs, psEnv, psSnap, pr, provider>>

\* A store error returned to the framework (lines 82-84, 89-91, 102-104,
\* 125-127, 154-156, 164-166, 243): the invocation ends; the next one starts
\* from the beginning.
PSAbort ==
    /\ psPhase # "idle"
    /\ StoreError
    /\ psPhase' = "idle"
    /\ UNCHANGED <<pc, cs, psEnv, psSnap, copies, pr, provider>>

PSInit ==
    /\ pc = [e \in Envs |-> NoPC]
    /\ cs = [k \in Keys |-> [s \in Sha |-> NoCS]]
    /\ psPhase = "idle"
    /\ psEnv = 1
    /\ psSnap = [e \in Envs |-> NoEnvStatus]
    /\ copies = [k \in Keys |-> [s \in Sha |-> NoCopyRecord]]

PSNext ==
    \/ PSCompute
    \/ PSAbort
    \/ \E e \in Envs : PSFetch(e) \/ PSPromote(e) \/ PSFlip(e) \/ PSCopyFail(e)
=============================================================================
