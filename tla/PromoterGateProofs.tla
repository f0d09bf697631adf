-------------------------- MODULE PromoterGateProofs --------------------------
(***************************************************************************)
(* The merge gate of the strategy reconciler (promotionstrategy_controller *)
(* .go lines 95-144) for every value of the constants: an environment is   *)
(* flipped only after the environment before it rolled up to success, and *)
(* an environment whose previous environment has no active checks never    *)
(* rolls up to success (line 334 writes the success to the proposed state).*)
(* Together: such an environment is never merged automatically, whatever   *)
(* the number of environments, dry commits, keys or store errors.          *)
(***************************************************************************)
EXTENDS PromoterProofs, TLAPS

(***************************************************************************)
(* An environment with no active checks keeps the active state "unknown"   *)
(* that the upsert of calculateStatus put there: with nothing to collect,  *)
(* lines 294-346 write no state at all.                                    *)
(***************************************************************************)
ZeroChecksUnknown ==
    \A e \in Envs : ActiveKeys(e) = <<>> => psSnap[e].aState = "unknown"

(***************************************************************************)
(* While the invocation is about to flip an environment other than the     *)
(* first, the active state it computed for the previous environment is    *)
(* success (ActiveChecksPassed, lines 95-116).                             *)
(***************************************************************************)
GateHeld ==
    psPhase = "flip" /\ psEnv # 1 => psSnap[psEnv - 1].aState = "success"

GInv == ZeroChecksUnknown /\ GateHeld

(***************************************************************************)
(* An environment after one with no active checks is never merged by the   *)
(* strategy: no step turns its PullRequest's spec.state from open to       *)
(* merged.  spec.md section 8 says zero checks roll up to success; the     *)
(* code (line 334) makes the previous environment's active state stay      *)
(* unknown, so the gate of lines 95-116 stays shut for good.               *)
(***************************************************************************)
NoMergeAfterUnchecked ==
    [][\A e \in Envs \ {1} :
          ActiveKeys(e - 1) = <<>> => ~(pr[e].spec = "open" /\ pr'[e].spec = "merged")]_vars

\* The active state of a computed status is the rollup of the active keys,
\* and "unknown" when there are none.
LEMMA ZeroKeysRollup ==
    ASSUME NEW e \in Envs, NEW p, ActiveKeys(e) = <<>>
    PROVE  EnvironmentStatus(e, p).aState = "unknown"
<1>1. Collected(ActiveKeys(e), Hyd(e, "active", p.aDry)) = {}
    BY DEF Collected
<1> QED
    BY <1>1 DEF EnvironmentStatus, ActiveRollup

\* The active state is success only when some active key matched exactly
\* one record on the active SHA: with none, it is "unknown" or the sentinel
\* of the last key.
LEMMA RollupSuccessCollected ==
    ASSUME NEW e \in Envs, NEW p, ActiveRollup(e, p) = "success"
    PROVE  Collected(ActiveKeys(e), Hyd(e, "active", p.aDry)) # {}
<1> DEFINE L == ActiveKeys(e)
           s == Hyd(e, "active", p.aDry)
<1> SUFFICES ASSUME Collected(L, s) = {} PROVE FALSE
    OBVIOUS
<1>1. L = <<>> \/ Sentinel(L[Len(L)], s) \in {"no-commit-status-found", "to-many-matching-sha"}
    BY DEF Sentinel
<1> QED
    BY <1>1 DEF ActiveRollup

\* Lines 338-345 for every key list: once one key matched exactly one
\* record, the state is success when every collected record's status is
\* success, whatever the other keys found: the sentinel a key with no
\* record (or several) wrote at lines 322-327 is overwritten.
LEMMA SentinelOverwritten ==
    ASSUME NEW e \in Envs, NEW p,
           NEW j \in DOMAIN ActiveKeys(e),
           NonCopyCount(ActiveKeys(e)[j], Hyd(e, "active", p.aDry)) = 1,
           \A i \in Collected(ActiveKeys(e), Hyd(e, "active", p.aDry)) :
               cs[ActiveKeys(e)[i]][Hyd(e, "active", p.aDry)].status = "success"
    PROVE  ActiveRollup(e, p) = "success"
<1> DEFINE L == ActiveKeys(e)
           s == Hyd(e, "active", p.aDry)
<1>1. j \in Collected(L, s)
    BY DEF Collected
<1>2. Failing(L, s) = {}
    BY DEF Failing
<1> QED
    BY <1>1, <1>2 DEF ActiveRollup, BubbleUp

\* The fetch only records the SHAs it waited for: the states stay.
LEMMA FetchKeepsStates ==
    ASSUME NEW e \in Envs, PSFetch(e), psSnap \in [Envs -> EnvStatus]
    PROVE  \A x \in Envs : psSnap'[x].aState = psSnap[x].aState
<1>1. CASE ~pc[e].exists
    BY <1>1 DEF PSFetch
<1>2. CASE pc[e].exists
    <2> DEFINE snap == [psSnap[e] EXCEPT !.aDry = pc[e].aDry, !.pDry = pc[e].pDry]
    <2>1. psSnap' = [psSnap EXCEPT ![e] = snap]
        BY <1>2 DEF PSFetch
    <2>2. snap.aState = psSnap[e].aState
        OBVIOUS
    <2>3. psSnap'[e] = snap /\ \A x \in Envs \ {e} : psSnap'[x] = psSnap[x]
        BY <2>1
    <2> HIDE DEF snap
    <2> QED
        BY <2>2, <2>3
<1> QED
    BY <1>1, <1>2

\* The steps of the other controllers, of Git and of CI leave the
\* invocation's phase, position and computed statuses alone.
LEMMA InvocationKept ==
    ASSUME [Next]_vars, ~PSStep
    PROVE  UNCHANGED <<psPhase, psEnv, psSnap>>
<1>1. CASE NewDryCommit \/ \E f \in Envs : Hydrate(f)
    BY <1>1 DEF NewDryCommit, Hydrate, psVars
<1>2. CASE \E f \in Envs : PCReconcile(f) \/ PRStep(f) \/ ExternalClose(f)
    BY <1>2 DEF PCReconcile, PRStep, ExternalClose, psVars
<1>3. ASSUME NEW k \in Keys, NEW s \in Sha,
             \/ \E st \in CSStates : CSReport(k, s, st)
             \/ CSDuplicate(k, s)
             \/ CSPublish(k, s)
      PROVE  UNCHANGED <<psPhase, psEnv, psSnap>>
    BY <1>3 DEF CSReport, CSDuplicate, CSPublish, psVars
<1>4. CASE UNCHANGED vars
    BY <1>4 DEF vars, psVars
<1> QED
    BY <1>1, <1>2, <1>3, <1>4 DEF Next

LEMMA InitGInv == Init => GInv
<1> SUFFICES ASSUME Init PROVE GInv
    OBVIOUS
<1>1. psSnap = [e \in Envs |-> NoEnvStatus] /\ psPhase = "idle"
    BY DEF Init, PSInit
<1> QED
    BY <1>1 DEF GInv, ZeroChecksUnknown, GateHeld, NoEnvStatus

\* A decision to flip environment e is taken on a previous environment
\* whose active state is success.
LEMMA MayMergeGate ==
    ASSUME NEW e \in Envs, e # 1, MayMerge(e)
    PROVE  psSnap[e - 1].aState = "success"
<1>1. EnvironmentIndex(e) # 0 /\ PreviousEnv(e) = e - 1
    BY NumEnvsAssumption DEF Envs, EnvironmentIndex, PreviousEnv
<1> QED
    BY <1>1 DEF MayMerge, ActiveChecksPassed

LEMMA GInvStep == PInv /\ GInv /\ [Next]_vars => GInv'
<1> SUFFICES ASSUME PInv, GInv, [Next]_vars PROVE GInv'
    OBVIOUS
<1>0. psSnap \in [Envs -> EnvStatus] /\ psEnv \in Envs
    BY PSTypeFacts
<1>1. CASE PSCompute
    <2>1. psSnap' = [e \in Envs |-> EnvironmentStatus(e, psSnap[e])]
          /\ psPhase' = "merge"
        BY <1>1 DEF PSCompute
    <2>2. ZeroChecksUnknown'
        BY <2>1, ZeroKeysRollup DEF ZeroChecksUnknown
    <2> QED
        BY <2>1, <2>2 DEF GInv, GateHeld
<1>2. CASE PSAbort \/ \E e \in Envs : PSCopyFail(e)
    <2>1. psPhase' = "idle" /\ psSnap' = psSnap
        BY <1>2 DEF PSAbort, PSCopyFail
    <2> QED
        BY <2>1 DEF GInv, GateHeld, ZeroChecksUnknown
<1>3. ASSUME NEW e \in Envs, PSFetch(e) PROVE GInv'
    <2>1. psPhase' \in {"fetch", "compute"}
        BY <1>3 DEF PSFetch
    <2>2. \A x \in Envs : psSnap'[x].aState = psSnap[x].aState
        BY <1>0, <1>3, FetchKeepsStates
    <2> QED
        BY <2>1, <2>2 DEF GInv, GateHeld, ZeroChecksUnknown
<1>4. ASSUME NEW e \in Envs, PSPromote(e) PROVE GInv'
    <2>1. psSnap' = psSnap /\ psEnv = e
        BY <1>4 DEF PSPromote
    <2>2. \/ MayMerge(e) /\ psPhase' = "flip" /\ psEnv' = e
          \/ psPhase' # "flip"
        BY <1>4, NextEnvironmentFacts DEF PSPromote
    <2>3. GateHeld'
        BY <2>1, <2>2, MayMergeGate DEF GateHeld
    <2> QED
        BY <2>1, <2>3 DEF GInv, ZeroChecksUnknown
<1>5. ASSUME NEW e \in Envs, PSFlip(e) PROVE GInv'
    <2>1. psSnap' = psSnap /\ psPhase' # "flip"
        BY <1>5, NextEnvironmentFacts DEF PSFlip
    <2> QED
        BY <2>1 DEF GInv, GateHeld, ZeroChecksUnknown
<1>6. CASE ~PSStep
    BY <1>6, InvocationKept DEF GInv, GateHeld, ZeroChecksUnknown
<1> QED
    BY <1>1, <1>2, <1>3, <1>4, <1>5, <1>6 DEF PSStep, PSNext

(***************************************************************************)
(* For every number of environments, dry commits, keys and store errors:   *)
(* when an environment has no active checks, the strategy never requests   *)
(* the merge of the next environment's PullRequest.  A flip happens only   *)
(* while GateHeld says the previous state is success, and                  *)
(* ZeroChecksUnknown says that state is unknown.                           *)
(***************************************************************************)
THEOREM ZeroChecksBlockMerge == Spec => NoMergeAfterUnchecked
<1>1. PInv /\ GInv /\ [Next]_vars
        => \A e \in Envs \ {1} :
              ActiveKeys(e - 1) = <<>> => ~(pr[e].spec = "open" /\ pr'[e].spec = "merged")
    <2> SUFFICES ASSUME PInv, GInv, [Next]_vars, NEW e \in Envs \ {1},
                        ActiveKeys(e - 1) = <<>>,
                        pr[e].spec = "open", pr'[e].spec = "merged"
                 PROVE  FALSE
        OBVIOUS
    <2>1. psPhase = "flip" /\ psEnv = e
        BY FlipStep
    <2>2. e - 1 \in Envs
        BY NumEnvsAssumption DEF Envs
    <2>3. psSnap[e - 1].aState = "success"
        BY <2>1 DEF GInv, GateHeld
    <2>4. psSnap[e - 1].aState = "unknown"
        BY <2>2 DEF GInv, ZeroChecksUnknown
    <2> QED
        BY <2>3, <2>4
<1>2. Spec => [](PInv /\ GInv)
    BY InitPInv, NextPInv, InitGInv, GInvStep, PTL DEF Spec
<1> QED
    BY <1>1, <1>2, PTL DEF Spec, NoMergeAfterUnchecked
=============================================================================
