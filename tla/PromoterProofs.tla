--------------------------- MODULE PromoterProofs ---------------------------
(***************************************************************************)
(* Proofs about the composed promotion system (Promoter), for every number *)
(* of environments and dry commits, every configuration of check keys and  *)
(* auto-merge, and every bound on store errors.                            *)
(***************************************************************************)
EXTENDS Promoter, PullRequestProofs, SequenceTheorems, WellFoundedInduction, TLAPS

(***************************************************************************)
(* The snapshot an invocation works on is resolved (both dry SHAs set) for *)
(* every environment it has fetched: PSFetch waits for Resolved, and the   *)
(* later steps only run once every environment was fetched.  Without this *)
(* the hydrated SHAs the roll-up and the copies name would not be SHAs.    *)
(***************************************************************************)
SnapResolved ==
    \A e \in Envs :
        (psPhase \in {"compute", "merge", "flip"} \/ (psPhase = "fetch" /\ e < psEnv))
            => psSnap[e].aDry \in Dry /\ psSnap[e].pDry \in Dry

(***************************************************************************)
(* What the ProposedCommit and the snapshot say is active in e was once    *)
(* active in e: the ProposedCommit reconciler reads the branch, and the    *)
(* strategy copies the ProposedCommit.                                     *)
(***************************************************************************)
History ==
    \A e \in Envs :
        /\ gitActive[e] \in promoted[e]
        /\ pc[e].aDry \in promoted[e] \cup {NoSha}
        /\ psSnap[e].aDry \in promoted[e] \cup {NoSha}

\* An invocation about to flip environment e > 1 has a proposed dry commit
\* that was active in e - 1.
FlipJustified ==
    psPhase = "flip" /\ psEnv # 1 => psSnap[psEnv].pDry \in promoted[psEnv - 1]

\* The inductive invariant.
PInv == TypeOK /\ IInv /\ SnapResolved /\ History /\ FlipJustified
-----------------------------------------------------------------------------
\* FirstIndex picks the least element of a non-empty set of naturals.
LEMMA FirstIndexMin ==
    ASSUME NEW S \in SUBSET Nat, S # {}
    PROVE  FirstIndex(S) \in S /\ \A j \in S : FirstIndex(S) <= j
<1> DEFINE R == OpToRel(<, Nat)
<1>0. IsWellFoundedOn(R, Nat)
    BY NatLessThanWellFounded
<1>1. \E x \in S : \A y \in S : ~(<<y, x>> \in R)
    <2> HIDE DEF R
    <2> QED
        BY <1>0, WFMin, Zenon
<1>2. \E x \in S : \A y \in S : x <= y
    <2>1. PICK x \in S : \A y \in S : ~(<<y, x>> \in R)
        BY <1>1
    <2>2. ASSUME NEW y \in S PROVE x <= y
        <3>1. ~(<<y, x>> \in R)
            BY <2>1
        <3>2. x \in Nat /\ y \in Nat
            OBVIOUS
        <3> QED
            BY <3>1, <3>2 DEF R, OpToRel
    <2> QED
        BY <2>2
<1> QED
    BY <1>2 DEF FirstIndex

\* The effective check lists are sequences of keys.
LEMMA KeyLists ==
    ASSUME NEW e \in Envs
    PROVE  ActiveKeys(e) \in Seq(Keys) /\ ProposedKeys(e) \in Seq(Keys)
BY KeysAssumption, ConcatProperties DEF ActiveKeys, ProposedKeys, Envs

\* The bubbled-up state is a check state.
LEMMA BubbleUpType ==
    ASSUME cs \in [Keys -> [Sha -> CSCell]], NEW L \in Seq(Keys), NEW s \in Sha
    PROVE  BubbleUp(L, s) \in CSStates
<1>1. CASE Failing(L, s) = {}
    BY <1>1, CSStatesAssumption DEF BubbleUp
<1>2. CASE Failing(L, s) # {}
    <2>1. Failing(L, s) \subseteq 1..Len(L)
        BY DEF Failing, Collected
    <2>2. FirstIndex(Failing(L, s)) \in 1..Len(L)
        BY <1>2, <2>1, FirstIndexMin
    <2>3. L[FirstIndex(Failing(L, s))] \in Keys
        BY <2>2
    <2> QED
        BY <1>2, <2>3 DEF BubbleUp, CSCell
<1> QED
    BY <1>1, <1>2

\* calculateStatus yields an environment status, on a resolved snapshot.
LEMMA RollupType ==
    ASSUME cs \in [Keys -> [Sha -> CSCell]], NEW e \in Envs,
           NEW p \in EnvStatus, p.aDry \in Dry, p.pDry \in Dry
    PROVE  EnvironmentStatus(e, p) \in EnvStatus
<1>1. Hyd(e, "active", p.aDry) \in Sha /\ Hyd(e, "proposed", p.pDry) \in Sha
    BY DEF Hyd, Sha, Sides
<1>2. ActiveKeys(e) \in Seq(Keys) /\ ProposedKeys(e) \in Seq(Keys)
    BY KeyLists
<1>3. BubbleUp(ActiveKeys(e), Hyd(e, "active", p.aDry)) \in CSStates
    BY <1>1, <1>2, BubbleUpType
<1>4. ActiveRollup(e, p) \in RollupStates
    BY <1>3 DEF ActiveRollup, Sentinel, RollupStates
<1>5. ProposedRollup(e, p) \in RollupStates
    BY <1>3, CSStatesAssumption DEF ProposedRollup, RollupStates
<1> QED
    BY <1>4, <1>5 DEF EnvironmentStatus, EnvStatus

\* Writing copies for a resolved environment keeps the copies typed.
LEMMA WriteCopiesType ==
    ASSUME cs \in [Keys -> [Sha -> CSCell]], copies \in [Keys -> [Sha -> CopyRecord]],
           NEW e \in Envs, psSnap[e].pDry \in Dry, NEW P, WriteCopies(e, P)
    PROVE  copies' \in [Keys -> [Sha -> CopyRecord]]
<1>1. CopyTo(e) \in Sha
    BY DEF CopyTo, Hyd, Sha, Sides
<1> QED
    BY <1>1 DEF WriteCopies, CopyRecord, CSCell

\* A step that leaves the records and the provider alone and keeps the
\* store-error count in range preserves the PullRequest invariant.
LEMMA PRFrame ==
    ASSUME IInv, UNCHANGED <<pr, provider>>, storeErrors' \in 0..MaxStoreErrors
    PROVE  IInv'
BY DEF IInv, PRTypeOK, NoOrphanedProviderPR, MergedStatusSettled

\* A step that leaves the strategy's state alone, lets the promoted sets only
\* grow and keeps each active branch among them preserves the strategy's
\* part of the invariant.
LEMMA PSFrame ==
    ASSUME PInv, UNCHANGED psVars,
           \A e \in Envs : promoted[e] \subseteq promoted'[e],
           \A e \in Envs : gitActive'[e] \in promoted'[e]
    PROVE  SnapResolved' /\ History' /\ FlipJustified'
<1>1. psPhase' = psPhase /\ psEnv' = psEnv /\ psSnap' = psSnap /\ pc' = pc
    BY DEF psVars
<1>2. SnapResolved'
    BY <1>1 DEF PInv, SnapResolved
<1>3. History'
    BY <1>1 DEF PInv, History, TypeOK
<1>4. FlipJustified'
    <2>0. psEnv \in Envs
        BY DEF PInv, TypeOK, PSTypeOK
    <2>1. psPhase = "flip" /\ psEnv # 1 => psEnv - 1 \in Envs
        BY <2>0, NumEnvsAssumption DEF Envs
    <2> QED
        BY <1>1, <2>1 DEF PInv, FlipJustified
<1> QED
    BY <1>2, <1>3, <1>4

\* The initial state satisfies the invariant.
LEMMA InitPInv == Init => PInv
<1> SUFFICES ASSUME Init PROVE PInv
    OBVIOUS
<1>1. IInv
    BY InitIInv DEF Init
<1>2. 1 \in Envs /\ 1 \in Dry
    BY NumEnvsAssumption, MaxDryAssumption DEF Envs, Dry
<1>3. PSTypeOK
    <2>1. NoPC \in PCRecord /\ NoCS \in CSCell /\ NoEnvStatus \in EnvStatus
          /\ NoCopyRecord \in CopyRecord
        BY CSStatesAssumption DEF NoPC, PCRecord, NoCS, CSCell, NoEnvStatus,
                                  EnvStatus, RollupStates, NoCopyRecord, CopyRecord
    <2> QED
        BY <1>2, <2>1 DEF Init, PSInit, PSTypeOK
<1>4. TypeOK
    BY <1>1, <1>2, <1>3 DEF Init, TypeOK, IInv
<1>5. SnapResolved /\ FlipJustified
    BY DEF Init, PSInit, SnapResolved, FlipJustified
<1>6. History
    BY DEF Init, PSInit, History, NoPC, NoEnvStatus
<1> QED
    BY <1>1, <1>4, <1>5, <1>6 DEF PInv

\* The hydrator and new dry commits.
LEMMA GitStep ==
    ASSUME PInv, NewDryCommit \/ \E e \in Envs : Hydrate(e)
    PROVE  PInv'
<1>1. TypeOK'
    <2>1. CASE NewDryCommit
        BY <2>1, MaxDryAssumption DEF PInv, TypeOK, PRTypeOK, PSTypeOK, NewDryCommit, Dry, prVars, psVars
    <2>2. CASE \E e \in Envs : Hydrate(e)
        BY <2>2 DEF PInv, TypeOK, PRTypeOK, PSTypeOK, Hydrate, prVars, psVars
    <2> QED
        BY <2>1, <2>2
<1>2. IInv'
    BY PRFrame DEF PInv, TypeOK, PRTypeOK, NewDryCommit, Hydrate, prVars
<1>3. SnapResolved' /\ History' /\ FlipJustified'
    BY PSFrame DEF PInv, History, NewDryCommit, Hydrate
<1> QED
    BY <1>1, <1>2, <1>3 DEF PInv

\* Replacing one cell by a cell keeps the records typed.
LEMMA CellUpdate ==
    ASSUME NEW k \in Keys, NEW s \in Sha, NEW c \in CSCell,
           cs \in [Keys -> [Sha -> CSCell]]
    PROVE  [cs EXCEPT ![k][s] = c] \in [Keys -> [Sha -> CSCell]]
OBVIOUS

\* CI and the CommitStatus reconciler.
LEMMA CSStep ==
    ASSUME PInv, NEW k \in Keys, NEW s \in Sha,
           \/ \E st \in CSStates : CSReport(k, s, st)
           \/ CSDuplicate(k, s)
           \/ CSPublish(k, s)
    PROVE  PInv'
<1>0. cs[k][s] \in CSCell
    BY DEF PInv, TypeOK, PSTypeOK
<1>1. cs' \in [Keys -> [Sha -> CSCell]]
    <2>0. cs \in [Keys -> [Sha -> CSCell]]
        BY DEF PInv, TypeOK, PSTypeOK
    <2>1. CASE \E st \in CSStates : CSReport(k, s, st)
        <3>1. PICK st \in CSStates : CSReport(k, s, st)
            BY <2>1
        <3>2. \/ cs' = [cs EXCEPT ![k][s] = [n |-> 1, spec |-> st, status |-> "none"]]
              \/ cs' = [cs EXCEPT ![k][s] = [cs[k][s] EXCEPT !.spec = st]]
            BY <3>1 DEF CSReport
        <3>3. [n |-> 1, spec |-> st, status |-> "none"] \in CSCell
              /\ [cs[k][s] EXCEPT !.spec = st] \in CSCell
            BY <1>0 DEF CSCell
        <3>4. [cs EXCEPT ![k][s] = [n |-> 1, spec |-> st, status |-> "none"]]
                  \in [Keys -> [Sha -> CSCell]]
            BY <2>0, <3>3, CellUpdate
        <3>5. [cs EXCEPT ![k][s] = [cs[k][s] EXCEPT !.spec = st]]
                  \in [Keys -> [Sha -> CSCell]]
            BY <2>0, <3>3, CellUpdate
        <3> QED
            BY <3>2, <3>4, <3>5
    <2>2. CASE CSDuplicate(k, s)
        <3>1. cs' = [cs EXCEPT ![k][s] = [cs[k][s] EXCEPT !.n = 2]]
            BY <2>2 DEF CSDuplicate
        <3>2. [cs[k][s] EXCEPT !.n = 2] \in CSCell
            BY <1>0 DEF CSCell
        <3> QED
            BY <2>0, <3>1, <3>2, CellUpdate
    <2>3. CASE CSPublish(k, s)
        <3>1. cs' = [cs EXCEPT ![k][s] = [cs[k][s] EXCEPT !.status = cs[k][s].spec]]
            BY <2>3 DEF CSPublish
        <3>2. [cs[k][s] EXCEPT !.status = cs[k][s].spec] \in CSCell
            BY <1>0 DEF CSCell
        <3> QED
            BY <2>0, <3>1, <3>2, CellUpdate
    <2> QED
        BY <2>1, <2>2, <2>3
<1>2. /\ UNCHANGED <<pc, psPhase, psEnv, psSnap, copies, prVars, gitVars>>
    BY DEF CSReport, CSDuplicate, CSPublish
<1>3. TypeOK'
    BY <1>1, <1>2 DEF PInv, TypeOK, PRTypeOK, PSTypeOK, prVars, gitVars
<1>4. IInv'
    BY <1>2, PRFrame DEF PInv, TypeOK, PRTypeOK, prVars
<1>5. SnapResolved' /\ History' /\ FlipJustified'
    BY <1>2 DEF PInv, SnapResolved, History, FlipJustified, gitVars
<1> QED
    BY <1>3, <1>4, <1>5 DEF PInv

\* The PullRequest reconciler, with the effect of a merge on Git.
LEMMA PRStepPInv ==
    ASSUME PInv, NEW e \in Envs, PRStep(e)
    PROVE  PInv'
<1>1. IInv'
    BY NextIInv DEF PInv, PRStep, PRNext
<1>2. /\ gitActive' \in [Envs -> Dry]
      /\ promoted' \in [Envs -> SUBSET Dry]
      /\ \A x \in Envs : promoted[x] \subseteq promoted'[x]
      /\ \A x \in Envs : gitActive'[x] \in promoted'[x]
    BY DEF PInv, TypeOK, History, PRStep
<1>3. TypeOK'
    BY <1>1, <1>2 DEF PInv, TypeOK, IInv, PSTypeOK, PRStep, psVars
<1>4. SnapResolved' /\ History' /\ FlipJustified'
    BY <1>2, PSFrame DEF PRStep
<1> QED
    BY <1>1, <1>3, <1>4 DEF PInv

\* A person closing a PR.
LEMMA ExternalClosePInv ==
    ASSUME PInv, NEW e \in Envs, ExternalClose(e)
    PROVE  PInv'
<1>1. IInv'
    BY NextIInv DEF PInv, ExternalClose, PRNext, prVars
<1>2. TypeOK'
    BY <1>1 DEF PInv, TypeOK, IInv, PSTypeOK, ExternalClose, ProviderExternalClose,
                psVars, gitVars
<1>3. SnapResolved' /\ History' /\ FlipJustified'
    BY PSFrame DEF PInv, History, ExternalClose, ProviderExternalClose, gitVars
<1> QED
    BY <1>1, <1>2, <1>3 DEF PInv

\* The ProposedCommit reconciler, which may create the PullRequest record.
LEMMA PCReconcilePInv ==
    ASSUME PInv, NEW e \in Envs, PCReconcile(e)
    PROVE  PInv'
<1>0. [exists |-> TRUE, aDry |-> gitActive[e], pDry |-> gitProposed[e]] \in PCRecord
    BY DEF PInv, TypeOK, PCRecord
<1>1. IInv'
    BY NextIInv DEF PInv, PCReconcile, PRNext
<1>2. TypeOK'
    BY <1>0, <1>1 DEF PInv, TypeOK, IInv, PSTypeOK, PCReconcile, gitVars
<1>3. SnapResolved' /\ FlipJustified'
    BY DEF PInv, SnapResolved, FlipJustified, PCReconcile, gitVars
<1>4. History'
    BY DEF PInv, History, PCReconcile, gitVars
<1> QED
    BY <1>1, <1>2, <1>3, <1>4 DEF PInv

\* The type facts the strategy's steps use.
LEMMA PSTypeFacts ==
    ASSUME PInv
    PROVE  /\ pc \in [Envs -> PCRecord]
           /\ cs \in [Keys -> [Sha -> CSCell]]
           /\ psEnv \in Envs
           /\ psSnap \in [Envs -> EnvStatus]
           /\ copies \in [Keys -> [Sha -> CopyRecord]]
           /\ storeErrors \in 0..MaxStoreErrors
BY DEF PInv, TypeOK, PSTypeOK, PRTypeOK

\* Where the loop goes after environment e.
LEMMA NextEnvironmentFacts ==
    ASSUME NEW e \in Envs, NextEnvironment(e)
    PROVE  \/ psPhase' = "idle" /\ psEnv' = psEnv
           \/ psPhase' = "merge" /\ psEnv' = e + 1 /\ e + 1 \in Envs
BY NumEnvsAssumption DEF NextEnvironment, Envs

\* The last fetch-and-wait of the invocation, or an earlier one.
LEMMA PSFetchPInv ==
    ASSUME PInv, NEW e \in Envs, PSFetch(e), UNCHANGED gitVars
    PROVE  PInv'
<1>0. /\ pc \in [Envs -> PCRecord] /\ psSnap \in [Envs -> EnvStatus]
      /\ UNCHANGED <<cs, copies, prVars>>
      /\ \A x \in Envs : psPhase = "fetch" /\ x < psEnv => psSnap[x].aDry \in Dry /\ psSnap[x].pDry \in Dry
      /\ (psPhase = "idle" /\ e = 1) \/ (psPhase = "fetch" /\ psEnv = e)
    <2>1. /\ UNCHANGED <<cs, copies, prVars>>
          /\ (psPhase = "idle" /\ e = 1) \/ (psPhase = "fetch" /\ psEnv = e)
        BY Zenon DEF PSFetch
    <2> QED
        BY <2>1, PSTypeFacts DEF PInv, SnapResolved
<1>1. IInv'
    BY <1>0, PRFrame, PSTypeFacts DEF PInv, prVars
<1>2. CASE ~pc[e].exists
    <2>1. /\ pc' = [pc EXCEPT ![e] = [NoPC EXCEPT !.exists = TRUE]]
          /\ psPhase' = "fetch" /\ psEnv' = e /\ psSnap' = psSnap
        BY <1>2 DEF PSFetch
    <2>2. [NoPC EXCEPT !.exists = TRUE] \in PCRecord
          /\ [NoPC EXCEPT !.exists = TRUE].aDry = NoSha
        BY DEF NoPC, PCRecord
    <2>3. TypeOK'
        BY <1>0, <1>1, <2>1, <2>2 DEF PInv, TypeOK, IInv, PSTypeOK, gitVars
    <2>4. SnapResolved'
        BY <1>0, <2>1 DEF SnapResolved, Envs
    <2>5. History' /\ FlipJustified'
        BY <1>0, <2>1, <2>2 DEF PInv, History, FlipJustified, gitVars
    <2> QED
        BY <1>1, <2>3, <2>4, <2>5 DEF PInv
<1>3. CASE pc[e].exists
    <2> DEFINE snap == [psSnap[e] EXCEPT !.aDry = pc[e].aDry, !.pDry = pc[e].pDry]
    <2>1. /\ Resolved(pc[e])
          /\ psSnap' = [psSnap EXCEPT ![e] = snap]
          /\ pc' = pc
          /\ \/ e = NumEnvs /\ psPhase' = "compute" /\ psEnv' = psEnv
             \/ e # NumEnvs /\ psPhase' = "fetch" /\ psEnv' = e + 1
        BY <1>3 DEF PSFetch
    <2>2. pc[e].aDry \in Dry /\ pc[e].pDry \in Dry
        BY <1>0, <2>1 DEF Resolved, PCRecord, NoSha, Dry
    <2>3. snap \in EnvStatus /\ snap.aDry = pc[e].aDry /\ snap.pDry = pc[e].pDry
        BY <1>0, <2>2 DEF EnvStatus
    <2>4. psSnap' \in [Envs -> EnvStatus]
          /\ psSnap'[e] = snap
          /\ \A x \in Envs : x # e => psSnap'[x] = psSnap[x]
        BY <1>0, <2>1, <2>3
    <2> HIDE DEF snap
    <2>5. psPhase' \in {"idle", "fetch", "compute", "merge", "flip"} /\ psEnv' \in Envs
        BY <2>1, PSTypeFacts, NumEnvsAssumption DEF Envs
    <2>6. TypeOK'
        BY <1>0, <1>1, <2>1, <2>4, <2>5 DEF PInv, TypeOK, IInv, PSTypeOK, gitVars
    <2>7. SnapResolved'
        <3>1. \A x \in Envs : x < e => psSnap[x].aDry \in Dry /\ psSnap[x].pDry \in Dry
            BY <1>0 DEF Envs
        <3>2. \A x \in Envs : x <= e => psSnap'[x].aDry \in Dry /\ psSnap'[x].pDry \in Dry
            BY <2>2, <2>3, <2>4, <3>1 DEF Envs
        <3> QED
            BY <2>1, <3>2 DEF SnapResolved, Envs
    <2>8. History'
        BY <2>1, <2>3, <2>4 DEF PInv, History, gitVars
    <2>9. FlipJustified'
        BY <2>1 DEF FlipJustified
    <2> QED
        BY <1>1, <2>6, <2>7, <2>8, <2>9 DEF PInv
<1> QED
    BY <1>2, <1>3

\* calculateStatus.
LEMMA PSComputePInv ==
    ASSUME PInv, PSCompute, UNCHANGED gitVars
    PROVE  PInv'
<1>0. \A x \in Envs : psSnap[x].aDry \in Dry /\ psSnap[x].pDry \in Dry
    BY DEF PInv, SnapResolved, PSCompute
<1>1. \A x \in Envs : /\ EnvironmentStatus(x, psSnap[x]) \in EnvStatus
                      /\ EnvironmentStatus(x, psSnap[x]).aDry = psSnap[x].aDry
                      /\ EnvironmentStatus(x, psSnap[x]).pDry = psSnap[x].pDry
    BY <1>0, PSTypeFacts, RollupType DEF EnvironmentStatus
<1>2. psSnap' \in [Envs -> EnvStatus]
      /\ \A x \in Envs : psSnap'[x].aDry = psSnap[x].aDry /\ psSnap'[x].pDry = psSnap[x].pDry
    BY <1>1 DEF PSCompute
<1>3. IInv'
    BY PRFrame, PSTypeFacts DEF PInv, PSCompute, prVars
<1>4. TypeOK'
    BY <1>2, <1>3, NumEnvsAssumption DEF PInv, TypeOK, IInv, PSTypeOK, PSCompute, gitVars, Envs
<1>5. SnapResolved' /\ FlipJustified'
    BY <1>0, <1>2 DEF SnapResolved, FlipJustified, PSCompute
<1>6. History'
    BY <1>2 DEF PInv, History, PSCompute, gitVars
<1> QED
    BY <1>3, <1>4, <1>5, <1>6 DEF PInv

\* The gate of e > 1 admits only a proposed dry commit that the snapshot
\* shows active in e - 1: the commit-time test rules out the empty SHA.
LEMMA GateJustifies ==
    ASSUME PInv, NEW e \in Envs, e # 1, MayMerge(e)
    PROVE  psSnap[e].pDry \in promoted[e - 1]
<1>1. e - 1 \in Envs /\ EnvironmentIndex(e) # 0 /\ PreviousEnv(e) = e - 1
    BY NumEnvsAssumption DEF Envs, EnvironmentIndex, PreviousEnv
<1>2. /\ psSnap[e - 1].aDry = psSnap[e].pDry
      /\ psSnap[e - 1].aDry > psSnap[e].aDry
    BY <1>1 DEF MayMerge, ActiveChecksPassed, CommitTime
<1>3. psSnap[e].aDry \in Nat /\ psSnap[e - 1].aDry \in promoted[e - 1] \cup {NoSha}
    BY <1>1, PSTypeFacts DEF PInv, History, EnvStatus, Dry, NoSha
<1> QED
    BY <1>2, <1>3 DEF NoSha

\* The copy and the merge decision for one environment.
LEMMA PSPromotePInv ==
    ASSUME PInv, NEW e \in Envs, PSPromote(e), UNCHANGED gitVars
    PROVE  PInv'
<1>0. /\ psPhase = "merge" /\ psEnv = e
      /\ psSnap[e].pDry \in Dry
      /\ UNCHANGED <<pc, cs, psSnap, prVars>>
    BY DEF PInv, SnapResolved, PSPromote
<1>1. copies' \in [Keys -> [Sha -> CopyRecord]]
    <2>1. CASE CopyWanted(e)
        BY <1>0, <2>1, PSTypeFacts, WriteCopiesType DEF PSPromote, CopyStatuses
    <2>2. CASE ~CopyWanted(e)
        BY <2>2, PSTypeFacts DEF PSPromote, CopyStatuses
    <2> QED
        BY <2>1, <2>2
<1>2. \/ MayMerge(e) /\ psPhase' = "flip" /\ psEnv' = e
      \/ psPhase' = "idle" /\ psEnv' = psEnv
      \/ psPhase' = "merge" /\ psEnv' = e + 1 /\ e + 1 \in Envs
    BY NextEnvironmentFacts DEF PSPromote
<1>3. IInv'
    BY <1>0, PRFrame, PSTypeFacts DEF PInv, prVars
<1>4. TypeOK'
    BY <1>0, <1>1, <1>2, <1>3 DEF PInv, TypeOK, IInv, PSTypeOK, gitVars
<1>5. SnapResolved' /\ History'
    BY <1>0, <1>2 DEF PInv, SnapResolved, History, gitVars
<1>6. FlipJustified'
    BY <1>0, <1>2, GateJustifies DEF FlipJustified, gitVars
<1> QED
    BY <1>3, <1>4, <1>5, <1>6 DEF PInv

\* The flip of the record that holds the environment's name now.
LEMMA PSFlipPInv ==
    ASSUME PInv, NEW e \in Envs, PSFlip(e), UNCHANGED gitVars
    PROVE  PInv'
<1>0. /\ psPhase = "flip" /\ psEnv = e
      /\ UNCHANGED <<pc, cs, psSnap, copies, provider, storeErrors>>
      /\ pr \in [Envs -> PRRecord]
    BY DEF PSFlip, PInv, TypeOK, PRTypeOK
<1>1. \/ psPhase' = "idle" /\ psEnv' = psEnv
      \/ psPhase' = "merge" /\ psEnv' = e + 1 /\ e + 1 \in Envs
    BY NextEnvironmentFacts DEF PSFlip
<1>2. IInv'
    <2>1. CASE pr[e].exists
        <3> DEFINE X == [pr[e] EXCEPT !.spec = "merged"]
        <3>1. pr' = [pr EXCEPT ![e] = X]
            BY <2>1 DEF PSFlip
        <3>2. X \in PRRecord /\ X.exists = pr[e].exists /\ X.fin = pr[e].fin
              /\ X.status = pr[e].status /\ X.spec = "merged"
            BY <1>0, SpecUpdate DEF PRStates
        <3> QED
            BY <1>0, <3>1, <3>2, PSTypeFacts
               DEF PInv, IInv, PRTypeOK, NoOrphanedProviderPR, MergedStatusSettled
    <2>2. CASE ~pr[e].exists
        BY <2>2, PRFrame, PSTypeFacts, <1>0 DEF PSFlip, PInv
    <2> QED
        BY <2>1, <2>2
<1>3. TypeOK'
    BY <1>0, <1>1, <1>2 DEF PInv, TypeOK, IInv, PSTypeOK, gitVars
<1>4. SnapResolved' /\ History' /\ FlipJustified'
    BY <1>0, <1>1 DEF PInv, SnapResolved, History, FlipJustified, gitVars
<1> QED
    BY <1>2, <1>3, <1>4 DEF PInv

\* A copy that fails part way, and any other error return.
LEMMA PSErrorPInv ==
    ASSUME PInv, UNCHANGED gitVars, \/ PSAbort \/ \E e \in Envs : PSCopyFail(e)
    PROVE  PInv'
<1>0. /\ psPhase' = "idle" /\ StoreError
      /\ UNCHANGED <<pc, cs, psEnv, psSnap, pr, provider>>
    BY DEF PSAbort, PSCopyFail
<1>1. copies' \in [Keys -> [Sha -> CopyRecord]]
    <2>1. CASE PSAbort
        BY <2>1, PSTypeFacts DEF PSAbort
    <2>2. CASE \E e \in Envs : PSCopyFail(e)
        <3>1. PICK e \in Envs : PSCopyFail(e)
            BY <2>2
        <3>2. psSnap[e].pDry \in Dry
            BY <3>1 DEF PInv, SnapResolved, PSCopyFail
        <3>3. PICK j \in CopyProcessed(e) :
                  WriteCopies(e, {i \in CopyProcessed(e) : i < j})
            BY <3>1 DEF PSCopyFail
        <3> QED
            BY <3>2, <3>3, PSTypeFacts, WriteCopiesType
    <2> QED
        BY <2>1, <2>2
<1>2. IInv'
    BY <1>0, PRFrame, PSTypeFacts, StoreErrorRange DEF PInv
<1>3. TypeOK'
    BY <1>0, <1>1, <1>2 DEF PInv, TypeOK, IInv, PSTypeOK, gitVars
<1>4. SnapResolved' /\ History' /\ FlipJustified'
    BY <1>0 DEF PInv, SnapResolved, History, FlipJustified, gitVars
<1> QED
    BY <1>2, <1>3, <1>4 DEF PInv

\* Every step of the system, and a stutter, keeps the inductive invariant.
LEMMA NextPInv == PInv /\ [Next]_vars => PInv'
<1> SUFFICES ASSUME PInv, [Next]_vars PROVE PInv'
    OBVIOUS
<1>1. CASE PSStep
    <2> USE <1>1 DEF PSStep, PSNext
    <2>1. CASE PSCompute
        BY <2>1, PSComputePInv
    <2>2. CASE PSAbort
        BY <2>2, PSErrorPInv
    <2>3. ASSUME NEW e \in Envs,
                 PSFetch(e) \/ PSPromote(e) \/ PSFlip(e) \/ PSCopyFail(e)
          PROVE  PInv'
        BY <2>3, PSFetchPInv, PSPromotePInv, PSFlipPInv, PSErrorPInv
    <2> QED
        BY <2>1, <2>2, <2>3
<1>2. CASE NewDryCommit \/ \E e \in Envs : Hydrate(e)
    BY <1>2, GitStep
<1>3. ASSUME NEW e \in Envs, PCReconcile(e) \/ PRStep(e) \/ ExternalClose(e)
      PROVE  PInv'
    BY <1>3, PCReconcilePInv, PRStepPInv, ExternalClosePInv
<1>4. ASSUME NEW k \in Keys, NEW s \in Sha,
             \/ \E st \in CSStates : CSReport(k, s, st)
             \/ CSDuplicate(k, s)
             \/ CSPublish(k, s)
      PROVE  PInv'
    BY <1>4, CSStep
<1>5. CASE UNCHANGED vars
    <2>1. UNCHANGED <<pr, provider>> /\ storeErrors' \in 0..MaxStoreErrors
        BY <1>5 DEF vars, prVars, PInv, TypeOK, PRTypeOK
    <2>2. IInv'
        BY <2>1, PRFrame DEF PInv
    <2>3. TypeOK'
        BY <1>5, <2>2 DEF PInv, TypeOK, IInv, PSTypeOK, vars, prVars, psVars, gitVars
    <2>4. SnapResolved' /\ History' /\ FlipJustified'
        BY <1>5 DEF PInv, SnapResolved, History, FlipJustified, vars, psVars, gitVars
    <2> QED
        BY <2>2, <2>3, <2>4 DEF PInv
<1> QED
    BY <1>1, <1>2, <1>3, <1>4, <1>5 DEF Next

(***************************************************************************)
(* Type correctness of the composed system, for every number of            *)
(* environments, dry commits, check keys and store errors: the reconcilers *)
(* only ever write records of the shapes the CRDs define.                  *)
(***************************************************************************)
THEOREM PromoterTypeCorrect == Spec => []TypeOK
<1>1. PInv => TypeOK
    BY DEF PInv
<1> QED
    BY InitPInv, NextPInv, <1>1, PTL DEF Spec

(***************************************************************************)
(* The PullRequest reconciler never asks for a merge: each of its branches *)
(* keeps a record's spec.state, and the deletion of a record leaves the    *)
(* canonical empty record, whose spec.state is open.                       *)
(***************************************************************************)
LEMMA PRReconcileSpec ==
    ASSUME PRTypeOK, NEW e \in Envs, PRReconcile(e)
    PROVE  /\ pr'[e].spec \in {pr[e].spec, "open"}
           /\ \A x \in Envs \ {e} : pr'[x] = pr[x]
<1>0. pr[e] \in PRRecord /\ pr \in [Envs -> PRRecord]
    BY DEF PRTypeOK
<1>1. CASE PRFinalize(e)
    <2>1. CASE pr' = [pr EXCEPT ![e] = NoPR]
        <3>1. NoPR.spec = "open"
            BY DEF NoPR
        <3> QED
            BY <1>0, <2>1, <3>1
    <2>2. CASE pr' = pr
        BY <2>2
    <2> QED
        BY <1>1, <2>1, <2>2 DEF PRFinalize
<1> DEFINE rec == [pr[e] EXCEPT !.fin = TRUE]
<1>2. rec \in PRRecord /\ rec.spec = pr[e].spec
    BY <1>0, FinUpdate
<1>3. ASSUME NEW X \in PRRecord, X.spec = pr[e].spec, pr' = [pr EXCEPT ![e] = X]
      PROVE  /\ pr'[e].spec \in {pr[e].spec, "open"}
             /\ \A x \in Envs \ {e} : pr'[x] = pr[x]
    BY <1>0, <1>3
<1>4. ASSUME NEW st \in PRStates, pr' = [pr EXCEPT ![e] = [rec EXCEPT !.status = st]]
      PROVE  /\ pr'[e].spec \in {pr[e].spec, "open"}
             /\ \A x \in Envs \ {e} : pr'[x] = pr[x]
    BY <1>2, <1>3, <1>4, StatusUpdate
<1>5. ASSUME pr' = [pr EXCEPT ![e] = rec] \/ pr' = [pr EXCEPT ![e] = [rec EXCEPT !.del = TRUE]]
      PROVE  /\ pr'[e].spec \in {pr[e].spec, "open"}
             /\ \A x \in Envs \ {e} : pr'[x] = pr[x]
    BY <1>2, <1>3, <1>5, DelUpdate
<1>6. CASE ~pr[e].del /\ (PRDeleteGone(e, rec) \/ PRInSync(e, rec))
    BY <1>5, <1>6 DEF PRDeleteGone, PRInSync
<1>7. CASE ~pr[e].del /\ (PRCreate(e, rec) \/ PRMerge(e, rec) \/ PRClose(e, rec))
    <2>1. \/ pr' = [pr EXCEPT ![e] = rec]
          \/ \E st \in PRStates : pr' = [pr EXCEPT ![e] = [rec EXCEPT !.status = st]]
        BY <1>7 DEF PRCreate, PRMerge, PRClose, WriteStatus, PRStates
    <2> QED
        BY <2>1, <1>4, <1>5
<1> QED
    BY <1>1, <1>6, <1>7 DEF PRReconcile

(***************************************************************************)
(* A step that turns a record's spec.state from open to merged is the      *)
(* strategy's flip of that environment: the invocation is in its flip      *)
(* phase for e, and the step leaves the snapshot the gate used as it was.  *)
(***************************************************************************)
LEMMA FlipStep ==
    ASSUME PInv, [Next]_vars, NEW e \in Envs,
           pr[e].spec = "open", pr'[e].spec = "merged"
    PROVE  psPhase = "flip" /\ psEnv = e /\ UNCHANGED <<psSnap, promoted>>
<1>0. PRTypeOK /\ pr[e] \in PRRecord
    BY DEF PInv, TypeOK, PRTypeOK
<1>1. CASE PSStep
    <2> USE <1>1 DEF PSStep, PSNext
    <2>1. ~PSCompute /\ ~PSAbort
        BY DEF PSCompute, PSAbort, prVars
    <2>2. ASSUME NEW f \in Envs, PSFetch(f) \/ PSPromote(f) \/ PSCopyFail(f)
          PROVE  FALSE
        BY <2>2 DEF PSFetch, PSPromote, PSCopyFail, prVars
    <2>3. ASSUME NEW f \in Envs, PSFlip(f)
          PROVE  psPhase = "flip" /\ psEnv = e /\ UNCHANGED <<psSnap, promoted>>
        <3>0. pr[f].exists /\ pr' = [pr EXCEPT ![f] = [pr[f] EXCEPT !.spec = "merged"]]
            BY <2>3, Zenon DEF PSFlip
        <3> DEFINE X == [pr[f] EXCEPT !.spec = "merged"]
        <3> HIDE DEF X
        <3>1. f = e /\ pr[e].exists
            BY <1>0, <3>0 DEF PRTypeOK
        <3> QED
            BY <2>3, <3>1 DEF PSFlip, gitVars
    <2> QED
        BY <2>1, <2>2, <2>3
<1>2. CASE NewDryCommit \/ \E f \in Envs : Hydrate(f) \/ ExternalClose(f)
    BY <1>2 DEF NewDryCommit, Hydrate, ExternalClose, ProviderExternalClose, prVars
<1>3. ASSUME NEW f \in Envs, PCReconcile(f) PROVE FALSE
    <2>1. CASE gitProposed[f] # gitActive[f] /\ ~pr[f].exists
        <3>1. pr' = [pr EXCEPT ![f] = [NoPR EXCEPT !.exists = TRUE]]
            BY <1>3, <2>1 DEF PCReconcile, PRCreated
        <3> QED
            BY <1>0, <3>1 DEF PRTypeOK, NoPR
    <2> QED
        BY <1>3, <2>1 DEF PCReconcile, prVars
<1>4. ASSUME NEW f \in Envs, PRStep(f) PROVE FALSE
    <2>1. /\ pr'[f].spec \in {pr[f].spec, "open"}
          /\ \A x \in Envs \ {f} : pr'[x] = pr[x]
        BY <1>0, <1>4, PRReconcileSpec DEF PRStep
    <2> QED
        BY <2>1
<1>5. ASSUME NEW k \in Keys, NEW s \in Sha,
             \/ \E st \in CSStates : CSReport(k, s, st)
             \/ CSDuplicate(k, s)
             \/ CSPublish(k, s)
      PROVE  FALSE
    BY <1>5 DEF CSReport, CSDuplicate, CSPublish, prVars
<1>6. CASE UNCHANGED vars
    BY <1>6 DEF vars, prVars
<1> QED
    BY <1>1, <1>2, <1>3, <1>4, <1>5, <1>6 DEF Next

(***************************************************************************)
(* The strategy reconciler asks for the merge of an environment's PR only  *)
(* when the dry commit it proposes is already active upstream: the gate of *)
(* lines 94-144 holds for every number of environments and dry commits,    *)
(* and the re-Get of the flip (lines 145-156) does not weaken it.          *)
(***************************************************************************)
THEOREM FlipSafe == Spec => FlipOnlyPromotedUpstream
<1>1. PInv /\ [Next]_vars
        => \A e \in Envs \ {1} :
               (pr[e].spec = "open" /\ pr'[e].spec = "merged")
                   => psSnap[e].pDry \in promoted[e - 1]
    BY FlipStep DEF PInv, FlipJustified
<1>2. []PInv /\ [][Next]_vars
        => [][\A e \in Envs \ {1} :
                 (pr[e].spec = "open" /\ pr'[e].spec = "merged")
                     => psSnap[e].pDry \in promoted[e - 1]]_vars
    BY <1>1, PTL
<1> QED
    BY <1>2, InitPInv, NextPInv, PTL DEF Spec, FlipOnlyPromotedUpstream
=============================================================================
