---------------------------- MODULE PullRequest ----------------------------
(***************************************************************************)
(* The PullRequest reconciler (src/unnamed/part_000): one PullRequest      *)
(* record per environment, converged against the SCM provider.             *)
(*                                                                         *)
(* A record is identified by the environment it promotes (its name is a    *)
(* deterministic function of the branches, GetPullRequestName), so the     *)
(* records of one strategy are a function over the environment indices.    *)
(* The provider keeps at most one open PR per (source, target) branch      *)
(* pair, which is what provider[e] describes.                              *)
(***************************************************************************)
EXTENDS Naturals

CONSTANTS
    NumEnvs,            \* number of environments of the strategy
    MaxStoreErrors,     \* bound on the store operations that fail
    ManualCloses        \* whether people close PRs on the provider

ASSUME NumEnvsAssumption == NumEnvs \in Nat \ {0}
ASSUME MaxStoreErrorsAssumption == MaxStoreErrors \in Nat
ASSUME ManualClosesAssumption == ManualCloses \in BOOLEAN

VARIABLES
    pr,         \* pr[e]: the PullRequest record of environment e
    provider,   \* provider[e]: the provider-side PR for e's branches
    storeErrors    \* number of store operations that have failed so far

prVars == <<pr, provider, storeErrors>>

Envs == 1..NumEnvs

\* PullRequestState of the API: the desired (spec) and observed (status) state.
PRStates == {"open", "merged", "closed"}

(***************************************************************************)
(* A record: exists, spec.state, status.state ("" until first written),    *)
(* whether it holds the finalizer, and whether its deletionTimestamp is    *)
(* set.  A record that does not exist is the canonical NoPR.               *)
(***************************************************************************)
PRRecord == [exists: BOOLEAN, spec: PRStates, status: PRStates \cup {""},
             fin: BOOLEAN, del: BOOLEAN]

NoPR == [exists |-> FALSE, spec |-> "open", status |-> "",
         fin |-> FALSE, del |-> FALSE]

ProviderStates == {"none", "open", "merged", "closed"}

PRTypeOK ==
    /\ pr \in [Envs -> PRRecord]
    /\ provider \in [Envs -> ProviderStates]
    /\ storeErrors \in 0..MaxStoreErrors

(***************************************************************************)
(* Provider calls.  FindOpen reports an open PR for the branches.  Close   *)
(* closes an open PR and leaves any other one as it is.  Create and Merge  *)
(* fail (the reconciler returns the error) when the provider already has   *)
(* an open PR, respectively has no open PR to merge.                       *)
(***************************************************************************)
FindOpen(e) == provider[e] = "open"

ProviderClose(p) == IF p = "open" THEN "closed" ELSE p

\* Mutant: a failure count without its bound.
StoreErrorUnbounded ==
    storeErrors' = storeErrors + 1

\* A store write (Update or Status().Update) that fails after the provider
\* call before it has taken effect; the reconciler returns the error.
StoreError ==
    /\ storeErrors < MaxStoreErrors
    /\ storeErrors' = storeErrors + 1

(***************************************************************************)
(* handleFinalizer, deletion branch, with closePullRequest: a record under *)
(* deletion is closed on the provider unless its status says merged, then  *)
(* the finalizer is removed and the record disappears.  If the Update that *)
(* removes the finalizer fails, the provider is already closed and the     *)
(* record stays for the next attempt.                                      *)
(***************************************************************************)
\* Mutant: the finalizer is removed without closing the provider PR.
PRFinalizeNoClose(e) ==
    /\ pr[e].del
    /\ pr[e].fin
    /\ UNCHANGED provider
    /\ \/ pr' = [pr EXCEPT ![e] = NoPR] /\ UNCHANGED storeErrors
       \/ StoreError /\ UNCHANGED pr

PRFinalize(e) ==
    /\ pr[e].del
    /\ pr[e].fin
    /\ provider' = [provider EXCEPT ![e] =
                        IF pr[e].status = "merged" THEN @ ELSE ProviderClose(@)]
    /\ \/ pr' = [pr EXCEPT ![e] = NoPR] /\ UNCHANGED storeErrors
       \/ StoreError /\ UNCHANGED pr

(***************************************************************************)
(* The rest of Reconcile for a record not under deletion.  handleFinalizer *)
(* has added the finalizer first, so r is the record with fin = TRUE.      *)
(* The branches are tried in the order of the code; each guard includes    *)
(* the negation of the branches before it.                                 *)
(***************************************************************************)
\* Mutant: only records last seen open count as gone.
GoneOnlyIfOpen(e, r) == ~FindOpen(e) /\ r.status = "open"

\* Line 100: no open PR on the provider, and a status was recorded.
GoneFromProvider(e, r) == ~FindOpen(e) /\ r.status # ""

PRDeleteGone(e, r) ==
    \* lines 100-110
    /\ GoneFromProvider(e, r)
    /\ pr' = [pr EXCEPT ![e] = [r EXCEPT !.del = TRUE]]
    /\ UNCHANGED <<provider, storeErrors>>

PRInSync(e, r) ==
    \* lines 113-116 (observedGeneration is not modelled: a title update
    \* at lines 158-169 changes no state the model keeps)
    /\ ~GoneFromProvider(e, r)
    /\ r.status # "" /\ r.spec = r.status
    /\ pr' = [pr EXCEPT ![e] = r]
    /\ UNCHANGED <<provider, storeErrors>>

PRNeedsWork(e, r) ==
    /\ ~GoneFromProvider(e, r)
    /\ ~(r.status # "" /\ r.spec = r.status)

\* Mutant: the finalizer is only persisted together with the status.
WriteStatusFinalizerLate(e, r, st) ==
    \/ pr' = [pr EXCEPT ![e] = [r EXCEPT !.status = st]] /\ UNCHANGED storeErrors
    \/ StoreError /\ UNCHANGED pr

\* The store write that records a new status after a provider call: it
\* succeeds, or (a conflict or a store error) leaves the old status.
WriteStatus(e, r, st) ==
    \/ pr' = [pr EXCEPT ![e] = [r EXCEPT !.status = st]] /\ UNCHANGED storeErrors
    \/ StoreError /\ pr' = [pr EXCEPT ![e] = r]

\* Mutant: Create tried for any record whose status is not open.
PRCreateAnyState(e, r) ==
    /\ PRNeedsWork(e, r)
    /\ r.status # "open"
    /\ IF FindOpen(e)
         THEN /\ pr' = [pr EXCEPT ![e] = r]
              /\ UNCHANGED <<provider, storeErrors>>
         ELSE /\ provider' = [provider EXCEPT ![e] = "open"]
              /\ WriteStatus(e, r, "open")

\* Mutant: Create without recording the open status.
PRCreateNoStatus(e, r) ==
    /\ PRNeedsWork(e, r)
    /\ r.spec = "open" /\ r.status # "open"
    /\ pr' = [pr EXCEPT ![e] = r]
    /\ provider' = [provider EXCEPT ![e] = "open"]
    /\ UNCHANGED storeErrors

PRCreate(e, r) ==
    \* lines 119-124, createPullRequest 244-267, status write 165-169
    /\ PRNeedsWork(e, r)
    /\ r.spec = "open" /\ r.status # "open"
    /\ IF FindOpen(e)
         THEN /\ pr' = [pr EXCEPT ![e] = r]       \* duplicate: Create fails
              /\ UNCHANGED <<provider, storeErrors>>
         ELSE /\ provider' = [provider EXCEPT ![e] = "open"]
              /\ WriteStatus(e, r, "open")

PRMerge(e, r) ==
    \* lines 127-140, mergePullRequest 286-302
    /\ PRNeedsWork(e, r)
    /\ r.spec = "merged" /\ r.status # "merged"
    /\ IF FindOpen(e)
         THEN /\ provider' = [provider EXCEPT ![e] = "merged"]
              /\ WriteStatus(e, r, "merged")
         ELSE /\ pr' = [pr EXCEPT ![e] = r]       \* nothing to merge: error
              /\ UNCHANGED <<provider, storeErrors>>

PRClose(e, r) ==
    \* lines 143-156, closePullRequest 304-323
    /\ PRNeedsWork(e, r)
    /\ r.spec = "closed" /\ r.status # "closed"
    /\ IF r.status = "merged"
         THEN /\ pr' = [pr EXCEPT ![e] = r]
              /\ UNCHANGED <<provider, storeErrors>>
         ELSE /\ provider' = [provider EXCEPT ![e] = ProviderClose(@)]
              /\ WriteStatus(e, r, "closed")

(***************************************************************************)
(* One invocation of PullRequestReconciler.Reconcile for environment e.    *)
(***************************************************************************)
PRReconcile(e) ==
    /\ pr[e].exists
    /\ \/ PRFinalize(e)
       \/ /\ ~pr[e].del
          /\ LET r == [pr[e] EXCEPT !.fin = TRUE] IN
                \/ PRDeleteGone(e, r)
                \/ PRInSync(e, r)
                \/ PRCreate(e, r)
                \/ PRMerge(e, r)
                \/ PRClose(e, r)

(***************************************************************************)
(* What other actors do to the records and the provider.  A new record     *)
(* asks for an open PR; on the provider it finds whatever PR for the same  *)
(* branches is still open.  A desired state of merged or closed is written *)
(* over an open one.  Deletion sets the deletionTimestamp when the         *)
(* finalizer is held and removes the record otherwise.  A person may close *)
(* the PR on the provider.                                                 *)
(***************************************************************************)
PRCreated(e) ==
    /\ ~pr[e].exists
    /\ pr' = [pr EXCEPT ![e] = [NoPR EXCEPT !.exists = TRUE]]
    /\ provider' = [provider EXCEPT ![e] = IF @ = "open" THEN @ ELSE "none"]
    /\ UNCHANGED storeErrors

PRRequestMerge(e) ==
    \* the strategy reconciler's flip, with its guard (lines 144-153)
    /\ pr[e].exists /\ pr[e].spec = "open" /\ pr[e].status = "open"
    /\ pr' = [pr EXCEPT ![e].spec = "merged"]
    /\ UNCHANGED <<provider, storeErrors>>

PRRequestClose(e) ==
    /\ pr[e].exists /\ pr[e].spec = "open"
    /\ pr' = [pr EXCEPT ![e].spec = "closed"]
    /\ UNCHANGED <<provider, storeErrors>>

PRDelete(e) ==
    /\ pr[e].exists /\ ~pr[e].del
    /\ pr' = [pr EXCEPT ![e] = IF @.fin THEN [@ EXCEPT !.del = TRUE] ELSE NoPR]
    /\ UNCHANGED <<provider, storeErrors>>

\* A person closes the PR on the provider, where people do.
ProviderExternalClose(e) ==
    /\ ManualCloses
    /\ provider[e] = "open"
    /\ provider' = [provider EXCEPT ![e] = "closed"]
    /\ UNCHANGED <<pr, storeErrors>>

PRInit ==
    /\ pr = [e \in Envs |-> NoPR]
    /\ provider = [e \in Envs |-> "none"]
    /\ storeErrors = 0

PRNext ==
    \E e \in Envs :
        \/ PRReconcile(e)
        \/ PRCreated(e)
        \/ PRRequestMerge(e)
        \/ PRRequestClose(e)
        \/ PRDelete(e)
        \/ ProviderExternalClose(e)

\* The controller is re-invoked on every generation change, after a requeue
\* and on the periodic resync, so each record's reconcile is weakly fair.
PRSpec == PRInit /\ [][PRNext]_prVars /\ \A e \in Envs : WF_prVars(PRReconcile(e))

-----------------------------------------------------------------------------
(***************************************************************************)
(* Properties.                                                             *)
(***************************************************************************)

(***************************************************************************)
(* An open PR on the provider is always guarded by a record that holds the *)
(* finalizer: deleting the record (directly, or by cascade from the        *)
(* strategy) cannot leave an open PR behind.  This is what handleFinalizer *)
(* and the order "add finalizer, then Create" in Reconcile are for.        *)
(***************************************************************************)
NoOrphanedProviderPR ==
    \A e \in Envs : provider[e] = "open" => pr[e].exists /\ pr[e].fin

(***************************************************************************)
(* A record whose provider PR was merged or closed is eventually removed,  *)
(* so that a new record can be created for the next promotion (the         *)
(* delete-after-merge path of Reconcile and the finalizer).                *)
(***************************************************************************)
SettledRecordRemoved ==
    \A e \in Envs :
        (pr[e].exists /\ provider[e] \in {"merged", "closed"}) ~> ~pr[e].exists

(***************************************************************************)
(* A record that asks for an open PR eventually records it as open (or is  *)
(* given another desired state, or is deleted): the strategy reconciler    *)
(* only merges a PR whose status is open, so this is what lets a           *)
(* promotion start.                                                        *)
(***************************************************************************)
OpenRequestAcknowledged ==
    \A e \in Envs :
        (pr[e].exists /\ ~pr[e].del /\ pr[e].spec = "open")
            ~> (~pr[e].exists \/ pr[e].del \/ pr[e].spec # "open"
                \/ pr[e].status = "open")

-----------------------------------------------------------------------------
(***************************************************************************)
(* Refinement.  A record stands for what its owners want of the provider:  *)
(* nothing once it is gone or being deleted, otherwise its spec.state.     *)
(* The finalizer, the status and the store failures are hidden.            *)
(***************************************************************************)
WantOf ==
    [e \in Envs |-> IF ~pr[e].exists \/ pr[e].del THEN "absent" ELSE pr[e].spec]

LC == INSTANCE PRLifecycle
          WITH want <- WantOf, prov <- provider, PeopleClose <- ManualCloses

(***************************************************************************)
(* Every step of the reconciler and of its environment is a step of the    *)
(* lifecycle or leaves it unchanged: Reconcile opens the provider PR only  *)
(* for a live record that asks for open, merges only for one that asks for *)
(* merged, and closes it only for one that asks for closed or is being     *)
(* deleted (createPullRequest, mergePullRequest, closePullRequest and the  *)
(* finalizer branch of handleFinalizer).  Where people close PRs on the    *)
(* provider (ManualCloses) a close is allowed at any time, so only with    *)
(* ManualCloses = FALSE does this constrain the reconciler's closes.       *)
(***************************************************************************)
LifecycleSafe == LC!LCSafety

(***************************************************************************)
(* The same, with the lifecycle's fairness: an open PR that a record wants *)
(* merged or closed, or that no live record holds, is eventually merged or *)
(* closed, and a PR a record wants open is eventually opened, as long as   *)
(* each stays wanted.                                                      *)
(***************************************************************************)
LifecycleRefined == LC!LCSpec
=============================================================================
