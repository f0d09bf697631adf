----------------------------- MODULE Promoter -----------------------------
(***************************************************************************)
(* The promotion system: the PromotionStrategy and PullRequest reconcilers *)
(* of this repository, composed with the collaborators they talk to only   *)
(* through the store and Git:                                              *)
(*   - the hydrator, which pushes the newest dry commit to each            *)
(*     environment's proposed ("-next") branch;                            *)
(*   - the ProposedCommit reconciler, which reads the branches' SHAs into  *)
(*     the ProposedCommit status and opens a PullRequest record when the   *)
(*     proposed branch differs from the active one;                        *)
(*   - CI and Argo CD, which write CommitStatus records, and the           *)
(*     CommitStatus reconciler, which publishes spec.state into status;    *)
(*   - the provider, where merging a PR moves the active branch to the     *)
(*     proposed branch's head at the time of the merge.                    *)
(* The collaborators are not under src/: they are modelled from spec.md.   *)
(***************************************************************************)
EXTENDS PromotionStrategy

CONSTANTS
    MaxCSPerSha,        \* how many non-copy records one key may get on one SHA
    MonotoneChecks,     \* whether a check, once decided, keeps its state
    ReportingEnvs       \* the environments whose checks CI reports

ASSUME MaxCSPerShaAssumption == MaxCSPerSha \in {1, 2}
ASSUME MonotoneChecksAssumption == MonotoneChecks \in BOOLEAN
ASSUME ReportingEnvsAssumption == ReportingEnvs \subseteq 1..NumEnvs

VARIABLES
    gitActive,      \* gitActive[e]: dry commit on e's active branch
    gitProposed,    \* gitProposed[e]: dry commit on e's proposed branch
    latestDry,      \* newest dry commit
    promoted        \* promoted[e]: every dry commit e's active branch has had

gitVars == <<gitActive, gitProposed, latestDry, promoted>>
vars == <<prVars, psVars, gitVars>>

TypeOK ==
    /\ PRTypeOK
    /\ PSTypeOK
    /\ gitActive \in [Envs -> Dry]
    /\ gitProposed \in [Envs -> Dry]
    /\ latestDry \in Dry
    /\ promoted \in [Envs -> SUBSET Dry]

-----------------------------------------------------------------------------
(***************************************************************************)
(* Git and the hydrator.                                                   *)
(***************************************************************************)
NewDryCommit ==
    /\ latestDry < MaxDry
    /\ latestDry' = latestDry + 1
    /\ UNCHANGED <<gitActive, gitProposed, promoted, prVars, psVars>>

Hydrate(e) ==
    /\ gitProposed[e] # latestDry
    /\ gitProposed' = [gitProposed EXCEPT ![e] = latestDry]
    /\ UNCHANGED <<gitActive, latestDry, promoted, prVars, psVars>>

(***************************************************************************)
(* The ProposedCommit reconciler (its contract, spec.md 4.2): it resolves  *)
(* the SHAs of both branches and owns the environment's PullRequest.       *)
(***************************************************************************)
PCReconcile(e) ==
    /\ pc[e].exists
    /\ pc' = [pc EXCEPT ![e] = [exists |-> TRUE, aDry |-> gitActive[e],
                                pDry |-> gitProposed[e]]]
    /\ IF gitProposed[e] # gitActive[e] /\ ~pr[e].exists
         THEN PRCreated(e)
         ELSE UNCHANGED prVars
    /\ UNCHANGED <<cs, psPhase, psEnv, psSnap, copies, gitVars>>

(***************************************************************************)
(* CommitStatus records.  Checks are reported on the SHAs the branches     *)
(* hold now: an environment's active keys on its active hydrated SHA, its  *)
(* proposed keys on its proposed hydrated SHA, for the environments of     *)
(* ReportingEnvs (CI may leave the others unreported).                     *)
(***************************************************************************)
KeySet(L) == {L[i] : i \in DOMAIN L}

ReportableCells ==
    UNION {   {<<k, Hyd(e, "active", gitActive[e])>> : k \in KeySet(ActiveKeys(e))}
           \cup {<<k, Hyd(e, "proposed", gitProposed[e])>> :
                                                  k \in KeySet(ProposedKeys(e))}
           : e \in ReportingEnvs}

\* CI creates the record of a check, or changes its state.
CSReport(k, s, st) ==
    /\ <<k, s>> \in ReportableCells
    /\ \/ /\ cs[k][s].n = 0
          /\ cs' = [cs EXCEPT ![k][s] = [n |-> 1, spec |-> st, status |-> "none"]]
       \/ /\ cs[k][s].n = 1 /\ cs[k][s].spec # st
          /\ ~MonotoneChecks \/ cs[k][s].spec = "pending"
          /\ cs' = [cs EXCEPT ![k][s].spec = st]
    /\ UNCHANGED <<pc, psPhase, psEnv, psSnap, copies, prVars, gitVars>>

\* A second record for the same key and SHA.
CSDuplicate(k, s) ==
    /\ <<k, s>> \in ReportableCells
    /\ cs[k][s].n = 1 /\ MaxCSPerSha = 2
    /\ cs' = [cs EXCEPT ![k][s].n = 2]
    /\ UNCHANGED <<pc, psPhase, psEnv, psSnap, copies, prVars, gitVars>>

\* The CommitStatus reconciler publishes the spec and records it in status.
CSPublish(k, s) ==
    /\ cs[k][s].n = 1 /\ cs[k][s].status # cs[k][s].spec
    /\ cs' = [cs EXCEPT ![k][s].status = cs[k][s].spec]
    /\ UNCHANGED <<pc, psPhase, psEnv, psSnap, copies, prVars, gitVars>>

-----------------------------------------------------------------------------
(***************************************************************************)
(* The reconcilers of this repository, with the effect of a provider merge *)
(* on Git: the active branch takes the proposed branch's current head.     *)
(***************************************************************************)
PRStep(e) ==
    /\ PRReconcile(e)
    /\ IF provider[e] = "open" /\ provider'[e] = "merged"
         THEN /\ gitActive' = [gitActive EXCEPT ![e] = gitProposed[e]]
              /\ promoted' = [promoted EXCEPT ![e] = @ \cup {gitProposed[e]}]
         ELSE UNCHANGED <<gitActive, promoted>>
    /\ UNCHANGED <<gitProposed, latestDry, psVars>>

ExternalClose(e) ==
    /\ ProviderExternalClose(e)
    /\ UNCHANGED <<psVars, gitVars>>

PSStep ==
    /\ PSNext
    /\ UNCHANGED gitVars

Init ==
    /\ PRInit
    /\ PSInit
    /\ gitActive = [e \in Envs |-> 1]
    /\ gitProposed = [e \in Envs |-> 1]
    /\ latestDry = 1
    /\ promoted = [e \in Envs |-> {1}]

Next ==
    \/ PSStep
    \/ NewDryCommit
    \/ \E e \in Envs : Hydrate(e) \/ PCReconcile(e) \/ PRStep(e) \/ ExternalClose(e)
    \/ \E k \in Keys, s \in Sha :
           \/ \E st \in CSStates : CSReport(k, s, st)
           \/ CSDuplicate(k, s)
           \/ CSPublish(k, s)

(***************************************************************************)
(* Fairness.  The controllers are re-invoked by the work queue (the        *)
(* strategy every requeue period, the others on changes, requeues and      *)
(* resyncs), so each of their steps is weakly fair; store errors are not.  *)
(* The collaborators outside this repository are assumed to make progress: *)
(* the hydrator pushes the newest commit and CI eventually passes a check  *)
(* that is pending.                                                        *)
(***************************************************************************)
CIPasses == \E c \in ReportableCells : CSReport(c[1], c[2], "success")

Fairness ==
    /\ WF_vars(PSCompute /\ UNCHANGED gitVars)
    /\ \A e \in Envs :
           /\ WF_vars(PSFetch(e) /\ UNCHANGED gitVars)
           /\ WF_vars(PSPromote(e) /\ UNCHANGED gitVars)
           /\ WF_vars(PSFlip(e) /\ UNCHANGED gitVars)
           /\ WF_vars(PRStep(e))
           /\ WF_vars(PCReconcile(e))
           /\ WF_vars(Hydrate(e))
    /\ \A k \in Keys, s \in Sha : WF_vars(CSPublish(k, s))
    /\ WF_vars(NewDryCommit)
    /\ WF_vars(CIPasses)

Spec == Init /\ [][Next]_vars
FairSpec == Spec /\ Fairness

-----------------------------------------------------------------------------
(***************************************************************************)
(* Properties.                                                             *)
(***************************************************************************)

(***************************************************************************)
(* Every dry commit becomes active in every environment: with auto-merge   *)
(* on and checks that eventually pass, the strategy reconciler's gates,    *)
(* the PullRequest life cycle and the ProposedCommit hand-over never leave *)
(* an environment waiting forever.                                         *)
(***************************************************************************)
EveryCommitPromoted ==
    \A d \in Dry : (latestDry = d) ~> (\A e \in Envs : gitActive[e] >= d)

(***************************************************************************)
(* Environments are promoted in spec order: every dry commit that has been *)
(* active in environment e > 1 was active in environment e - 1 before.     *)
(* This is what the merge decision (previous.active.dry.sha ==             *)
(* proposed.dry.sha, lines 108-111) is there to guarantee.                 *)
(***************************************************************************)
PromotedInOrder ==
    \A e \in Envs \ {1} : promoted[e] \subseteq promoted[e - 1]

(***************************************************************************)
(* The strategy reconciler flips the PullRequest of environment e > 1 to   *)
(* merged only for a proposed dry commit that has really been active in    *)
(* environment e - 1.  The merge decision reads ProposedCommit statuses    *)
(* fetched before the roll-up, written by another reconciler from Git at   *)
(* some earlier time, so this relates what the snapshot says to the        *)
(* history of the previous environment's branch.                           *)
(***************************************************************************)
FlipOnlyPromotedUpstream ==
    [][\A e \in Envs \ {1} :
         (pr[e].spec = "open" /\ pr'[e].spec = "merged")
             => psSnap[e].pDry \in promoted[e - 1]]_vars

(***************************************************************************)
(* A PullRequest record is asked to merge only once the PullRequest        *)
(* reconciler has opened its PR and recorded a status.  A record asking    *)
(* for merged with no status is stuck: mergePullRequest finds nothing to   *)
(* merge, and the delete-when-gone branch (part_000 line 100) needs a      *)
(* status.  The strategy tests status open at line 144 for this, but its   *)
(* flip (lines 145-156) re-Gets the record by name and updates whatever    *)
(* record holds that name by then.                                         *)
(***************************************************************************)
MergeRequestedOnlyOpened ==
    \A e \in Envs : pr[e].exists /\ pr[e].spec = "merged" => pr[e].status # ""

\* Every check of list L on SHA s has exactly one record, whose state is success.
AllChecksGreen(L, s) ==
    \A i \in DOMAIN L : cs[L[i]][s].n = 1 /\ cs[L[i]][s].spec = "success"

(***************************************************************************)
(* The active commit-status roll-up computed by calculateStatus says       *)
(* success only when every configured active check on the active hydrated  *)
(* SHA has exactly one record and that record is successful; a missing or  *)
(* ambiguous check (a sentinel state, spec.md section 7) blocks promotion. *)
(***************************************************************************)
ActiveRollupSound ==
    [][PSCompute =>
        \A e \in Envs : psSnap'[e].aState = "success" =>
            AllChecksGreen(ActiveKeys(e), Hyd(e, "active", psSnap[e].aDry))]_vars

(***************************************************************************)
(* The same for the proposed roll-up and the proposed checks on the        *)
(* proposed hydrated SHA (spec.md 4.1 step 5: "same procedure as (4)").    *)
(***************************************************************************)
ProposedRollupSound ==
    [][PSCompute =>
        \A e \in Envs : psSnap'[e].pState = "success" =>
            AllChecksGreen(ProposedKeys(e), Hyd(e, "proposed", psSnap[e].pDry))]_vars

(***************************************************************************)
(* An environment with no active check has an active roll-up of success    *)
(* (spec.md section 8, property 3), so that the next environment may       *)
(* follow it.                                                              *)
(***************************************************************************)
ZeroChecksRollupSuccess ==
    [][PSCompute =>
        \A e \in Envs : ActiveKeys(e) = <<>> => psSnap'[e].aState = "success"]_vars

\* The active hydrated SHA of the environment before e, as Git has it now.
PrevActiveSha(e) == Hyd(PreviousEnv(e), "active", gitActive[PreviousEnv(e)])

\* The previous environment runs the dry commit proposed for e, and has one
\* record for key k on its active hydrated SHA.
CopyDue(e, k) ==
    /\ gitActive[PreviousEnv(e)] = gitProposed[e]
    /\ cs[k][PrevActiveSha(e)].n = 1

\* That record's copy points at e's proposed hydrated SHA with its state.
CopyCurrent(e, k) ==
    copies[k][PrevActiveSha(e)] =
        [to |-> Hyd(e, "proposed", gitProposed[e]),
         state |-> cs[k][PrevActiveSha(e)].spec]

(***************************************************************************)
(* Copy-forward (spec.md 4.1 step 6 and glossary): while environment e is  *)
(* proposed the dry commit the previous environment runs, each active      *)
(* check of the previous environment is eventually mirrored, with its      *)
(* current state, on e's proposed hydrated SHA, so that e's PR shows the   *)
(* prior stage's gate results.  copyCommitStatuses stops after the first   *)
(* copy it creates (line 458), so this rests on later invocations.         *)
(***************************************************************************)
CopiesEventuallyMirror ==
    \A e \in Envs \ {1} : \A k \in KeySet(ActiveKeys(PreviousEnv(e))) :
        CopyDue(e, k) ~> (CopyCurrent(e, k) \/ ~CopyDue(e, k))
=============================================================================
