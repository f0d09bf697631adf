------------------------- MODULE PullRequestProofs -------------------------
(***************************************************************************)
(* Proofs about the PullRequest reconciler, for every number of            *)
(* environments and every bound on store errors.                           *)
(***************************************************************************)
EXTENDS PullRequest, TLAPS

(***************************************************************************)
(* A record whose status says merged asks for merged, and its provider PR  *)
(* is no longer open: handleFinalizer skips the provider Close for such a  *)
(* record (closePullRequest returns early on status merged), so without    *)
(* this the finalizer could remove a record whose PR is still open.        *)
(***************************************************************************)
MergedStatusSettled ==
    \A e \in Envs :
        pr[e].status = "merged" => pr[e].spec = "merged" /\ provider[e] # "open"

\* The inductive invariant behind NoOrphanedProviderPR.
IInv == PRTypeOK /\ NoOrphanedProviderPR /\ MergedStatusSettled
-----------------------------------------------------------------------------
\* The record of a missing PullRequest is a record.
LEMMA NoPRType == NoPR \in PRRecord
BY DEF NoPR, PRRecord, PRStates

\* Setting one field of a record to a value of its type gives a record with
\* the other fields unchanged.
LEMMA FinUpdate ==
    ASSUME NEW r \in PRRecord, NEW b \in BOOLEAN
    PROVE  /\ [r EXCEPT !.fin = b] \in PRRecord
           /\ [r EXCEPT !.fin = b].exists = r.exists
           /\ [r EXCEPT !.fin = b].spec = r.spec
           /\ [r EXCEPT !.fin = b].status = r.status
           /\ [r EXCEPT !.fin = b].del = r.del
           /\ [r EXCEPT !.fin = b].fin = b
BY DEF PRRecord

LEMMA DelUpdate ==
    ASSUME NEW r \in PRRecord, NEW b \in BOOLEAN
    PROVE  /\ [r EXCEPT !.del = b] \in PRRecord
           /\ [r EXCEPT !.del = b].exists = r.exists
           /\ [r EXCEPT !.del = b].spec = r.spec
           /\ [r EXCEPT !.del = b].status = r.status
           /\ [r EXCEPT !.del = b].fin = r.fin
BY DEF PRRecord

LEMMA StatusUpdate ==
    ASSUME NEW r \in PRRecord, NEW st \in PRStates
    PROVE  /\ [r EXCEPT !.status = st] \in PRRecord
           /\ [r EXCEPT !.status = st].exists = r.exists
           /\ [r EXCEPT !.status = st].spec = r.spec
           /\ [r EXCEPT !.status = st].status = st
           /\ [r EXCEPT !.status = st].fin = r.fin
BY DEF PRRecord

LEMMA SpecUpdate ==
    ASSUME NEW r \in PRRecord, NEW st \in PRStates
    PROVE  /\ [r EXCEPT !.spec = st] \in PRRecord
           /\ [r EXCEPT !.spec = st].exists = r.exists
           /\ [r EXCEPT !.spec = st].spec = st
           /\ [r EXCEPT !.spec = st].status = r.status
           /\ [r EXCEPT !.spec = st].fin = r.fin
BY DEF PRRecord

LEMMA ExistsUpdate ==
    ASSUME NEW r \in PRRecord, NEW b \in BOOLEAN
    PROVE  /\ [r EXCEPT !.exists = b] \in PRRecord
           /\ [r EXCEPT !.exists = b].exists = b
           /\ [r EXCEPT !.exists = b].status = r.status
BY DEF PRRecord

\* The initial state satisfies the inductive invariant.
LEMMA InitIInv == PRInit => IInv
<1> SUFFICES ASSUME PRInit PROVE IInv
    OBVIOUS
<1>1. PRTypeOK
    BY NoPRType, MaxStoreErrorsAssumption DEF PRInit, PRTypeOK, ProviderStates
<1>2. NoOrphanedProviderPR /\ MergedStatusSettled
    BY DEF PRInit, NoOrphanedProviderPR, MergedStatusSettled, NoPR
<1> QED
    BY <1>1, <1>2 DEF IInv

\* A function is its own update at a point of its domain.
LEMMA SelfUpdate ==
    ASSUME NEW S, NEW T, NEW f \in [S -> T], NEW x \in S
    PROVE  f = [f EXCEPT ![x] = f[x]]
OBVIOUS

\* A store error keeps the count in its range.
LEMMA StoreErrorRange ==
    ASSUME storeErrors \in 0..MaxStoreErrors, StoreError
    PROVE  storeErrors' \in 0..MaxStoreErrors
BY MaxStoreErrorsAssumption DEF StoreError

\* Every step of the reconciler and of the other actors preserves IInv.
LEMMA NextIInv == IInv /\ [PRNext]_prVars => IInv'
<1> SUFFICES ASSUME IInv, [PRNext]_prVars PROVE IInv'
    OBVIOUS
<1>0. /\ pr \in [Envs -> PRRecord]
      /\ provider \in [Envs -> ProviderStates]
      /\ storeErrors \in 0..MaxStoreErrors
      /\ NoOrphanedProviderPR
      /\ MergedStatusSettled
    BY DEF IInv, PRTypeOK
<1>1. CASE UNCHANGED prVars
    BY <1>1 DEF prVars, IInv, PRTypeOK, NoOrphanedProviderPR, MergedStatusSettled
<1>2. ASSUME NEW e \in Envs, PRReconcile(e) PROVE IInv'
    <2>0. /\ pr[e] \in PRRecord /\ pr[e].exists
          /\ provider[e] \in ProviderStates
          /\ provider[e] = "open" => pr[e].fin
          /\ pr[e].status = "merged" => pr[e].spec = "merged" /\ provider[e] # "open"
        BY <1>0, <1>2 DEF PRReconcile, NoOrphanedProviderPR, MergedStatusSettled
    <2>9. pr = [pr EXCEPT ![e] = pr[e]] /\ provider = [provider EXCEPT ![e] = provider[e]]
        BY <1>0, SelfUpdate
    <2>1. CASE PRFinalize(e)
        <3> DEFINE Y == IF pr[e].status = "merged" THEN provider[e]
                                                   ELSE ProviderClose(provider[e])
        <3> USE DEF Y
        <3>1. Y \in ProviderStates /\ Y # "open" /\ provider' = [provider EXCEPT ![e] = Y]
            BY <2>0, <2>1 DEF PRFinalize, ProviderClose, ProviderStates
        <3>2. CASE pr' = [pr EXCEPT ![e] = NoPR] /\ UNCHANGED storeErrors
            <4>1. NoPR.status # "merged"
                BY DEF NoPR
            <4> QED
                BY <1>0, <3>1, <3>2, <4>1, NoPRType DEF IInv, PRTypeOK, NoOrphanedProviderPR, MergedStatusSettled
        <3>3. CASE StoreError /\ UNCHANGED pr
            BY <1>0, <2>0, <2>9, <3>1, <3>3, StoreErrorRange DEF IInv, PRTypeOK, NoOrphanedProviderPR, MergedStatusSettled
        <3> QED
            BY <2>1, <3>2, <3>3 DEF PRFinalize
    <2> DEFINE rec == [pr[e] EXCEPT !.fin = TRUE]
    <2> USE DEF rec
    <2>2. /\ rec \in PRRecord /\ rec.exists /\ rec.fin
          /\ rec.status = pr[e].status /\ rec.spec = pr[e].spec
        <3>1. pr[e] \in PRRecord
            BY <2>0
        <3>2. pr[e].exists
            BY <2>0
        <3>3. rec \in PRRecord
            BY <3>1, FinUpdate
        <3> QED
            BY <3>1, <3>2, <3>3, FinUpdate
    <2>3. CASE ~pr[e].del /\ PRDeleteGone(e, rec)
        <3> DEFINE X == [rec EXCEPT !.del = TRUE]
        <3> USE DEF X
        <3>1. X \in PRRecord /\ X.status = rec.status /\ X.spec = rec.spec
            BY <2>2, DelUpdate
        <3> QED
            BY <1>0, <2>0, <2>9, <2>2, <2>3, <3>1 DEF PRDeleteGone, FindOpen, IInv, PRTypeOK, NoOrphanedProviderPR, MergedStatusSettled
    <2>4. CASE ~pr[e].del /\ PRInSync(e, rec)
        BY <1>0, <2>0, <2>9, <2>2, <2>4 DEF PRInSync, IInv, PRTypeOK, NoOrphanedProviderPR, MergedStatusSettled
    <2>5. CASE ~pr[e].del /\ PRCreate(e, rec)
        <3>0. rec.status # "merged"
            BY <2>0, <2>2, <2>5 DEF PRCreate
        <3>1. CASE FindOpen(e)
            BY <1>0, <2>0, <2>9, <2>2, <2>5, <3>0, <3>1 DEF PRCreate, IInv, PRTypeOK, NoOrphanedProviderPR, MergedStatusSettled
        <3>2. CASE ~FindOpen(e)
            <4> DEFINE X == [rec EXCEPT !.status = "open"]
            <4> USE DEF X
            <4>1. X \in PRRecord /\ X.status = "open" /\ X.exists /\ X.fin
                <5>1. "open" \in PRStates
                    BY DEF PRStates
                <5>2. X \in PRRecord /\ X.status = "open"
                      /\ X.exists = rec.exists /\ X.fin = rec.fin
                    BY <2>2, <5>1, StatusUpdate
                <5> QED
                    BY <2>2, <5>2
            <4>2. provider' = [provider EXCEPT ![e] = "open"] /\ WriteStatus(e, rec, "open")
                BY <2>5, <3>2 DEF PRCreate
            <4>3. CASE pr' = [pr EXCEPT ![e] = X] /\ UNCHANGED storeErrors
                BY <1>0, <4>1, <4>2, <4>3 DEF ProviderStates, IInv, PRTypeOK, NoOrphanedProviderPR, MergedStatusSettled
            <4>4. CASE StoreError /\ pr' = [pr EXCEPT ![e] = rec]
                BY <1>0, <2>2, <3>0, <4>2, <4>4, StoreErrorRange DEF ProviderStates, IInv, PRTypeOK, NoOrphanedProviderPR, MergedStatusSettled
            <4> QED
                BY <4>2, <4>3, <4>4 DEF WriteStatus
        <3> QED
            BY <3>1, <3>2
    <2>6. CASE ~pr[e].del /\ PRMerge(e, rec)
        <3>0. rec.status # "merged" /\ rec.spec = "merged"
            BY <2>6 DEF PRMerge
        <3>1. CASE FindOpen(e)
            <4> DEFINE X == [rec EXCEPT !.status = "merged"]
            <4> USE DEF X
            <4>1. X \in PRRecord /\ X.status = "merged" /\ X.spec = "merged"
                BY <2>2, <3>0, StatusUpdate DEF PRStates
            <4>2. provider' = [provider EXCEPT ![e] = "merged"] /\ WriteStatus(e, rec, "merged")
                BY <2>6, <3>1 DEF PRMerge
            <4>3. CASE pr' = [pr EXCEPT ![e] = X] /\ UNCHANGED storeErrors
                BY <1>0, <4>1, <4>2, <4>3 DEF ProviderStates, IInv, PRTypeOK, NoOrphanedProviderPR, MergedStatusSettled
            <4>4. CASE StoreError /\ pr' = [pr EXCEPT ![e] = rec]
                BY <1>0, <2>2, <3>0, <4>2, <4>4, StoreErrorRange DEF ProviderStates, IInv, PRTypeOK, NoOrphanedProviderPR, MergedStatusSettled
            <4> QED
                BY <4>2, <4>3, <4>4 DEF WriteStatus
        <3>2. CASE ~FindOpen(e)
            BY <1>0, <2>0, <2>9, <2>2, <2>6, <3>0, <3>2 DEF PRMerge, FindOpen, IInv, PRTypeOK, NoOrphanedProviderPR, MergedStatusSettled
        <3> QED
            BY <3>1, <3>2
    <2>7. CASE ~pr[e].del /\ PRClose(e, rec)
        <3>1. CASE rec.status = "merged"
            BY <1>0, <2>0, <2>9, <2>2, <2>7, <3>1 DEF PRClose, IInv, PRTypeOK, NoOrphanedProviderPR, MergedStatusSettled
        <3>2. CASE rec.status # "merged"
            <4> DEFINE X == [rec EXCEPT !.status = "closed"]
                       Y == ProviderClose(provider[e])
            <4> USE DEF X, Y
            <4>1. X \in PRRecord /\ X.status = "closed"
                BY <2>2, StatusUpdate DEF PRStates
            <4>2. Y \in ProviderStates /\ Y # "open"
                BY <2>0 DEF ProviderClose, ProviderStates
            <4>3. provider' = [provider EXCEPT ![e] = Y] /\ WriteStatus(e, rec, "closed")
                BY <2>7, <3>2 DEF PRClose
            <4>4. CASE pr' = [pr EXCEPT ![e] = X] /\ UNCHANGED storeErrors
                BY <1>0, <4>1, <4>2, <4>3, <4>4 DEF IInv, PRTypeOK, NoOrphanedProviderPR, MergedStatusSettled
            <4>5. CASE StoreError /\ pr' = [pr EXCEPT ![e] = rec]
                BY <1>0, <2>2, <3>2, <4>2, <4>3, <4>5, StoreErrorRange DEF IInv, PRTypeOK, NoOrphanedProviderPR, MergedStatusSettled
            <4> QED
                BY <4>3, <4>4, <4>5 DEF WriteStatus
        <3> QED
            BY <3>1, <3>2
    <2> QED
        BY <1>2, <2>1, <2>3, <2>4, <2>5, <2>6, <2>7 DEF PRReconcile
<1>3. ASSUME NEW e \in Envs, PRCreated(e) PROVE IInv'
    <2> DEFINE X == [NoPR EXCEPT !.exists = TRUE]
    <2> USE DEF X
    <2>1. X \in PRRecord /\ X.status = ""
        BY NoPRType, ExistsUpdate DEF NoPR
    <2>2. provider[e] # "open"
        BY <1>0, <1>3 DEF PRCreated, NoOrphanedProviderPR
    <2>3. provider' = [provider EXCEPT ![e] = "none"]
        BY <1>3, <2>2 DEF PRCreated
    <2> QED
        BY <1>0, <1>3, <2>1, <2>3 DEF PRCreated, ProviderStates, IInv, PRTypeOK, NoOrphanedProviderPR, MergedStatusSettled
<1>4. ASSUME NEW e \in Envs, PRRequestMerge(e) PROVE IInv'
    <2> DEFINE X == [pr[e] EXCEPT !.spec = "merged"]
    <2> USE DEF X
    <2>1. X \in PRRecord /\ X.status = pr[e].status /\ X.exists = pr[e].exists
          /\ X.fin = pr[e].fin
        BY <1>0, SpecUpdate DEF PRStates
    <2>2. pr' = [pr EXCEPT ![e] = X] /\ pr[e].status = "open"
        BY <1>4 DEF PRRequestMerge
    <2> QED
        BY <1>0, <1>4, <2>1, <2>2, SelfUpdate
           DEF PRRequestMerge, NoOrphanedProviderPR, IInv, PRTypeOK, NoOrphanedProviderPR, MergedStatusSettled
<1>5. ASSUME NEW e \in Envs, PRRequestClose(e) PROVE IInv'
    <2> DEFINE X == [pr[e] EXCEPT !.spec = "closed"]
    <2> USE DEF X
    <2>1. X \in PRRecord /\ X.status = pr[e].status /\ X.exists = pr[e].exists
          /\ X.fin = pr[e].fin
        BY <1>0, SpecUpdate DEF PRStates
    <2>2. pr' = [pr EXCEPT ![e] = X] /\ pr[e].status # "merged"
        BY <1>0, <1>5 DEF PRRequestClose, MergedStatusSettled
    <2> QED
        BY <1>0, <1>5, <2>1, <2>2, SelfUpdate
           DEF PRRequestClose, NoOrphanedProviderPR, IInv, PRTypeOK, NoOrphanedProviderPR, MergedStatusSettled
<1>6. ASSUME NEW e \in Envs, PRDelete(e) PROVE IInv'
    <2>1. CASE pr[e].fin
        <3> DEFINE X == [pr[e] EXCEPT !.del = TRUE]
        <3> USE DEF X
        <3>1. X \in PRRecord /\ X.status = pr[e].status /\ X.spec = pr[e].spec
              /\ X.exists = pr[e].exists /\ X.fin = pr[e].fin
            BY <1>0, DelUpdate
        <3> QED
            BY <1>0, <1>6, <2>1, <3>1, SelfUpdate
               DEF PRDelete, NoOrphanedProviderPR, MergedStatusSettled, IInv, PRTypeOK, NoOrphanedProviderPR, MergedStatusSettled
    <2>2. CASE ~pr[e].fin
        <3>1. NoPR.status # "merged" /\ provider[e] # "open"
            BY <1>0, <2>2 DEF NoPR, NoOrphanedProviderPR
        <3> QED
            BY <1>0, <1>6, <2>2, <3>1, NoPRType, SelfUpdate DEF PRDelete, IInv, PRTypeOK, NoOrphanedProviderPR, MergedStatusSettled
    <2> QED
        BY <2>1, <2>2
<1>7. ASSUME NEW e \in Envs, ProviderExternalClose(e) PROVE IInv'
    BY <1>0, <1>7, SelfUpdate
       DEF ProviderExternalClose, ProviderStates, NoOrphanedProviderPR, MergedStatusSettled, IInv, PRTypeOK, NoOrphanedProviderPR, MergedStatusSettled
<1> QED
    BY <1>1, <1>2, <1>3, <1>4, <1>5, <1>6, <1>7 DEF PRNext

-----------------------------------------------------------------------------
(***************************************************************************)
(* Type correctness of the reconciler for every number of environments:    *)
(* the records, the provider PRs and the store-error count stay in their   *)
(* domains under every interleaving of reconciles and other actors.        *)
(***************************************************************************)
THEOREM TypeCorrect == PRSpec => []PRTypeOK
<1>1. IInv => PRTypeOK
    BY DEF IInv
<1> QED
    BY InitIInv, NextIInv, <1>1, PTL DEF PRSpec

(***************************************************************************)
(* No provider PR is left open without a record holding the finalizer,     *)
(* whatever the number of environments, the store errors, the deletions    *)
(* and the manual closes: handleFinalizer's add-before-Create and          *)
(* close-before-remove order, and the early return of closePullRequest on  *)
(* a merged status, never orphan an open PR.                               *)
(***************************************************************************)
THEOREM OrphanFree == PRSpec => []NoOrphanedProviderPR
<1>1. IInv => NoOrphanedProviderPR
    BY DEF IInv
<1> QED
    BY InitIInv, NextIInv, <1>1, PTL DEF PRSpec

-----------------------------------------------------------------------------
(***************************************************************************)
(* Refinement of the lifecycle (PRLifecycle, through LC in PullRequest).   *)
(***************************************************************************)

\* What one record stands for in the lifecycle.
WantOfRecord(r) == IF ~r.exists \/ r.del THEN "absent" ELSE r.spec

\* Replacing one record changes the lifecycle's want at that point only.
LEMMA WantOfStep ==
    ASSUME NEW e \in Envs, NEW X, pr \in [Envs -> PRRecord],
           pr' = [pr EXCEPT ![e] = X]
    PROVE  WantOf' = [WantOf EXCEPT ![e] = WantOfRecord(X)]
BY DEF WantOf, WantOfRecord

\* ... and not at all when the new record stands for the same want.
LEMMA WantOfSame ==
    ASSUME NEW e \in Envs, NEW X, pr \in [Envs -> PRRecord],
           pr' = [pr EXCEPT ![e] = X], WantOfRecord(X) = WantOfRecord(pr[e])
    PROVE  WantOf' = WantOf
BY DEF WantOf, WantOfRecord

\* A step that changes neither the wants nor the provider is a stutter of
\* the lifecycle, and each lifecycle action is a lifecycle step.
LEMMA AbstractStep ==
    ASSUME NEW e \in Envs,
           \/ LC!Request(e) \/ LC!Decide(e) \/ LC!Withdraw(e) \/ LC!Open(e)
           \/ LC!Merge(e) \/ LC!Close(e) \/ LC!PersonCloses(e)
           \/ WantOf' = WantOf /\ provider' = provider
    PROVE  [LC!LCNext]_LC!lcVars
BY DEF LC!LCNext, LC!LCEnvs, Envs, LC!lcVars

\* The initial records and provider are the lifecycle's initial state.
LEMMA InitRefines == PRInit => LC!LCInit
<1> SUFFICES ASSUME PRInit PROVE LC!LCInit
    OBVIOUS
<1>1. \A e \in Envs : ~pr[e].exists
    BY DEF PRInit, NoPR
<1>2. WantOf = [e \in Envs |-> "absent"]
    BY <1>1 DEF WantOf
<1> QED
    BY <1>2 DEF PRInit, LC!LCInit, LC!LCEnvs, Envs

\* Every step of the reconciler and of the other actors is a step of the
\* lifecycle or leaves the wants and the provider as they are.
LEMMA StepRefines == PRTypeOK /\ [PRNext]_prVars => [LC!LCNext]_LC!lcVars
<1> SUFFICES ASSUME PRTypeOK, [PRNext]_prVars PROVE [LC!LCNext]_LC!lcVars
    OBVIOUS
<1>0. pr \in [Envs -> PRRecord] /\ provider \in [Envs -> ProviderStates]
    BY DEF PRTypeOK
<1>1. CASE UNCHANGED prVars
    <2>1. WantOf' = WantOf
        BY <1>1 DEF prVars, WantOf
    <2> QED
        BY <1>1, <2>1 DEF prVars, LC!lcVars
<1>2. ASSUME NEW e \in Envs, PRReconcile(e) PROVE [LC!LCNext]_LC!lcVars
    <2>0. /\ pr[e] \in PRRecord /\ pr[e].exists
          /\ provider = [provider EXCEPT ![e] = provider[e]]
        BY <1>0, <1>2, SelfUpdate DEF PRReconcile
    <2>1. CASE PRFinalize(e)
        <3>1. WantOf' = WantOf
            <4>1. WantOfRecord(pr[e]) = "absent" /\ WantOfRecord(NoPR) = "absent"
                BY <2>1 DEF PRFinalize, WantOfRecord, NoPR
            <4>2. CASE pr' = [pr EXCEPT ![e] = NoPR]
                BY <1>0, <4>1, <4>2, WantOfSame
            <4>3. CASE UNCHANGED pr
                BY <4>3 DEF WantOf
            <4> QED
                BY <2>1, <4>2, <4>3 DEF PRFinalize
        <3>2. CASE provider[e] = "open" /\ pr[e].status # "merged"
            <4>1. LC!Close(e)
                BY <1>0, <2>1, <3>1, <3>2 DEF PRFinalize, ProviderClose, LC!Close, WantOf
            <4> QED
                BY <4>1, AbstractStep
        <3>3. CASE ~(provider[e] = "open" /\ pr[e].status # "merged")
            <4>1. provider' = provider
                BY <2>0, <2>1, <3>3 DEF PRFinalize, ProviderClose
            <4> QED
                BY <3>1, <4>1, AbstractStep
        <3> QED
            BY <3>2, <3>3
    <2> DEFINE rec == [pr[e] EXCEPT !.fin = TRUE]
    <2> USE DEF rec
    <2>2. /\ rec \in PRRecord /\ rec.exists
          /\ rec.spec = pr[e].spec /\ rec.del = pr[e].del
        BY <2>0 DEF PRRecord
    <2>3. ASSUME NEW st \in PRStates
          PROVE  WantOfRecord([rec EXCEPT !.status = st]) = WantOfRecord(pr[e])
        BY <2>0, <2>2 DEF PRRecord, WantOfRecord
    <2>4. WantOfRecord(rec) = WantOfRecord(pr[e])
        BY <2>2 DEF WantOfRecord
    <2>5. ASSUME ~pr[e].del, PRCreate(e, rec) \/ PRMerge(e, rec) \/ PRClose(e, rec)
          PROVE  WantOf' = WantOf
        <3>1. \/ pr' = [pr EXCEPT ![e] = rec]
              \/ \E st \in PRStates : pr' = [pr EXCEPT ![e] = [rec EXCEPT !.status = st]]
            BY <2>5 DEF PRCreate, PRMerge, PRClose, WriteStatus, PRStates
        <3> QED
            BY <1>0, <2>3, <2>4, <3>1, WantOfSame
    <2>6. ~pr[e].del => WantOf[e] = pr[e].spec
        BY <2>0 DEF WantOf
    <2>7. CASE ~pr[e].del /\ PRDeleteGone(e, rec)
        <3> DEFINE X == [rec EXCEPT !.del = TRUE]
        <3>1. WantOfRecord(X) = "absent"
            BY <2>2 DEF PRRecord, WantOfRecord
        <3>2. WantOf' = [WantOf EXCEPT ![e] = "absent"]
            BY <1>0, <2>7, <3>1, WantOfStep DEF PRDeleteGone
        <3>3. WantOf[e] # "absent"
            BY <2>0, <2>6, <2>7 DEF PRRecord, PRStates
        <3>4. LC!Withdraw(e)
            BY <2>7, <3>2, <3>3 DEF PRDeleteGone, LC!Withdraw
        <3> QED
            BY <3>4, AbstractStep
    <2>8. CASE ~pr[e].del /\ PRInSync(e, rec)
        <3>1. WantOf' = WantOf
            BY <1>0, <2>4, <2>8, WantOfSame DEF PRInSync
        <3> QED
            BY <2>8, <3>1, AbstractStep DEF PRInSync
    <2>9. CASE ~pr[e].del /\ PRCreate(e, rec)
        <3>1. WantOf' = WantOf
            BY <2>5, <2>9
        <3>2. CASE FindOpen(e)
            BY <2>9, <3>1, <3>2, AbstractStep DEF PRCreate
        <3>3. CASE ~FindOpen(e)
            <4>1. LC!Open(e)
                BY <2>2, <2>6, <2>9, <3>1, <3>3 DEF PRCreate, FindOpen, LC!Open
            <4> QED
                BY <4>1, AbstractStep
        <3> QED
            BY <3>2, <3>3
    <2>10. CASE ~pr[e].del /\ PRMerge(e, rec)
        <3>1. WantOf' = WantOf
            BY <2>5, <2>10
        <3>2. CASE FindOpen(e)
            <4>1. LC!Merge(e)
                BY <2>2, <2>6, <2>10, <3>1, <3>2 DEF PRMerge, FindOpen, LC!Merge
            <4> QED
                BY <4>1, AbstractStep
        <3>3. CASE ~FindOpen(e)
            BY <2>10, <3>1, <3>3, AbstractStep DEF PRMerge
        <3> QED
            BY <3>2, <3>3
    <2>11. CASE ~pr[e].del /\ PRClose(e, rec)
        <3>1. WantOf' = WantOf
            BY <2>5, <2>11
        <3>2. CASE rec.status # "merged" /\ provider[e] = "open"
            <4>1. LC!Close(e)
                BY <2>2, <2>6, <2>11, <3>1, <3>2 DEF PRClose, ProviderClose, LC!Close
            <4> QED
                BY <4>1, AbstractStep
        <3>3. CASE ~(rec.status # "merged" /\ provider[e] = "open")
            <4>1. provider' = provider
                BY <2>0, <2>11, <3>3 DEF PRClose, ProviderClose
            <4> QED
                BY <3>1, <4>1, AbstractStep
        <3> QED
            BY <3>2, <3>3
    <2> QED
        BY <1>2, <2>1, <2>7, <2>8, <2>9, <2>10, <2>11 DEF PRReconcile
<1>3. ASSUME NEW e \in Envs, PRCreated(e) PROVE [LC!LCNext]_LC!lcVars
    <2> DEFINE X == [NoPR EXCEPT !.exists = TRUE]
    <2>1. WantOfRecord(X) = "open"
        BY DEF NoPR, WantOfRecord
    <2>2. WantOf' = [WantOf EXCEPT ![e] = "open"] /\ WantOf[e] = "absent"
        BY <1>0, <1>3, <2>1, WantOfStep DEF PRCreated, WantOf
    <2>3. LC!Request(e)
        BY <1>3, <2>2 DEF PRCreated, LC!Request
    <2> QED
        BY <2>3, AbstractStep
<1>4. ASSUME NEW e \in Envs, NEW st \in {"merged", "closed"},
             pr[e].exists, pr[e].spec = "open",
             pr' = [pr EXCEPT ![e].spec = st], UNCHANGED provider
      PROVE  [LC!LCNext]_LC!lcVars
    <2> DEFINE X == [pr[e] EXCEPT !.spec = st]
    <2>0. pr' = [pr EXCEPT ![e] = X] /\ pr[e] \in PRRecord
        BY <1>0, <1>4
    <2>1. CASE pr[e].del
        <3>1. WantOfRecord(X) = WantOfRecord(pr[e])
            BY <2>0, <2>1 DEF PRRecord, WantOfRecord
        <3> QED
            BY <1>0, <1>4, <2>0, <3>1, WantOfSame, AbstractStep
    <2>2. CASE ~pr[e].del
        <3>1. WantOfRecord(X) = st /\ WantOf[e] = "open"
            BY <1>4, <2>0, <2>2 DEF PRRecord, WantOfRecord, WantOf
        <3>2. WantOf' = [WantOf EXCEPT ![e] = st]
            BY <1>0, <2>0, <3>1, WantOfStep
        <3>3. LC!Decide(e)
            BY <1>4, <3>1, <3>2 DEF LC!Decide
        <3> QED
            BY <3>3, AbstractStep
    <2> QED
        BY <2>1, <2>2
<1>5. ASSUME NEW e \in Envs, PRDelete(e) PROVE [LC!LCNext]_LC!lcVars
    <2> DEFINE X == IF pr[e].fin THEN [pr[e] EXCEPT !.del = TRUE] ELSE NoPR
    <2>1. WantOfRecord(X) = "absent" /\ WantOf[e] # "absent"
        BY <1>0, <1>5 DEF PRDelete, PRRecord, PRStates, WantOfRecord, WantOf, NoPR
    <2>2. WantOf' = [WantOf EXCEPT ![e] = "absent"]
        BY <1>0, <1>5, <2>1, WantOfStep DEF PRDelete
    <2>3. LC!Withdraw(e)
        BY <1>5, <2>1, <2>2 DEF PRDelete, LC!Withdraw
    <2> QED
        BY <2>3, AbstractStep
<1>6. ASSUME NEW e \in Envs, ProviderExternalClose(e) PROVE [LC!LCNext]_LC!lcVars
    <2>1. WantOf' = WantOf
        BY <1>6 DEF ProviderExternalClose, WantOf
    <2>2. LC!PersonCloses(e)
        BY <1>6, <2>1 DEF ProviderExternalClose, LC!PersonCloses
    <2> QED
        BY <2>2, AbstractStep
<1> QED
    BY <1>1, <1>2, <1>3, <1>4, <1>5, <1>6
       DEF PRNext, PRRequestMerge, PRRequestClose

(***************************************************************************)
(* The reconciler implements the lifecycle, for every number of            *)
(* environments and every bound on store errors: under the mapping WantOf  *)
(* (a record stands for its spec.state, or for nothing once it is being    *)
(* deleted), createPullRequest, mergePullRequest, closePullRequest and the *)
(* finalizer move the provider PR only as the lifecycle allows.            *)
(***************************************************************************)
THEOREM Refinement == PRSpec => LifecycleSafe
BY InitRefines, StepRefines, TypeCorrect, PTL DEF PRSpec, LifecycleSafe, LC!LCSafety
=============================================================================
