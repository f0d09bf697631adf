----------------------- MODULE PromoterLifecycleProofs -----------------------
(***************************************************************************)
(* The composed promotion system implements the PullRequest life cycle     *)
(* (PRLifecycle): with the strategy's flip and the ProposedCommit          *)
(* reconciler acting on the records, the provider PR still moves only as   *)
(* the records ask, for every value of the constants.                      *)
(***************************************************************************)
EXTENDS PromoterProofs, TLAPS

(***************************************************************************)
(* In the composed system a record only ever asks for an open or a merged  *)
(* PR: the ProposedCommit reconciler creates records asking for open, the  *)
(* strategy's flip asks for merged, and the PullRequest reconciler keeps   *)
(* spec.state.  A flip can therefore only meet a record asking for open or *)
(* already asking for merged, which is what makes it a lifecycle step.     *)
(***************************************************************************)
NoCloseRequests == \A e \in Envs : pr[e].spec \in {"open", "merged"}

LEMMA InitNoClose == Init => NoCloseRequests
<1> SUFFICES ASSUME Init PROVE NoCloseRequests
    OBVIOUS
<1>1. pr = [e \in Envs |-> NoPR]
    BY DEF Init, PRInit
<1> QED
    BY <1>1 DEF NoPR, NoCloseRequests

\* The record the flip writes: the one it read, asking for merged.
FlipOf(r) == [r EXCEPT !.spec = "merged"]

LEMMA FlipOfRecord ==
    ASSUME NEW r \in PRRecord
    PROVE  /\ FlipOf(r) \in PRRecord
           /\ FlipOf(r).spec = "merged"
           /\ FlipOf(r).exists = r.exists
           /\ FlipOf(r).del = r.del
BY DEF FlipOf, PRRecord, PRStates

\* The steps that leave the records alone.
LEMMA RecordsKept ==
    ASSUME [Next]_vars,
           ~\E e \in Envs : PSFlip(e) \/ PCReconcile(e) \/ PRStep(e)
    PROVE  UNCHANGED pr
<1>1. CASE PSStep
    BY <1>1 DEF PSStep, PSNext, PSCompute, PSAbort, PSFetch, PSPromote, PSCopyFail,
                prVars
<1>2. CASE NewDryCommit \/ \E f \in Envs : Hydrate(f) \/ ExternalClose(f)
    BY <1>2 DEF NewDryCommit, Hydrate, ExternalClose, ProviderExternalClose, prVars
<1>3. ASSUME NEW k \in Keys, NEW s \in Sha,
             \/ \E st \in CSStates : CSReport(k, s, st)
             \/ CSDuplicate(k, s)
             \/ CSPublish(k, s)
      PROVE  UNCHANGED pr
    BY <1>3 DEF CSReport, CSDuplicate, CSPublish, prVars
<1>4. CASE UNCHANGED vars
    BY <1>4 DEF vars, prVars
<1> QED
    BY <1>1, <1>2, <1>3, <1>4 DEF Next

\* The flip of environment e, when the record holding its name exists.
LEMMA FlipRecord ==
    ASSUME NEW e \in Envs, PSFlip(e), pr \in [Envs -> PRRecord]
    PROVE  /\ UNCHANGED provider
           /\ \/ UNCHANGED pr
              \/ pr[e].exists /\ pr' = [pr EXCEPT ![e] = FlipOf(pr[e])]
BY Zenon DEF PSFlip, FlipOf

LEMMA NoCloseStep == PInv /\ NoCloseRequests /\ [Next]_vars => NoCloseRequests'
<1> SUFFICES ASSUME PInv, NoCloseRequests, [Next]_vars PROVE NoCloseRequests'
    OBVIOUS
<1>0. PRTypeOK /\ pr \in [Envs -> PRRecord]
    BY DEF PInv, TypeOK, PRTypeOK
<1>1. ASSUME NEW f \in Envs, PSFlip(f) PROVE NoCloseRequests'
    <2>1. FlipOf(pr[f]).spec = "merged"
        BY <1>0, FlipOfRecord
    <2> QED
        BY <1>0, <1>1, <2>1, FlipRecord DEF NoCloseRequests
<1>2. ASSUME NEW f \in Envs, PCReconcile(f) PROVE NoCloseRequests'
    <2>1. CASE gitProposed[f] # gitActive[f] /\ ~pr[f].exists
        <3>1. pr' = [pr EXCEPT ![f] = [NoPR EXCEPT !.exists = TRUE]]
            BY <1>2, <2>1 DEF PCReconcile, PRCreated
        <3> QED
            BY <1>0, <3>1 DEF NoCloseRequests, NoPR
    <2> QED
        BY <1>2, <2>1 DEF PCReconcile, prVars, NoCloseRequests
<1>3. ASSUME NEW f \in Envs, PRStep(f) PROVE NoCloseRequests'
    <2>1. /\ pr'[f].spec \in {pr[f].spec, "open"}
          /\ \A x \in Envs \ {f} : pr'[x] = pr[x]
        BY <1>0, <1>3, PRReconcileSpec DEF PRStep
    <2> QED
        BY <2>1 DEF NoCloseRequests
<1>4. CASE ~\E e \in Envs : PSFlip(e) \/ PCReconcile(e) \/ PRStep(e)
    BY <1>4, RecordsKept DEF NoCloseRequests
<1> QED
    BY <1>1, <1>2, <1>3, <1>4

\* The flip is the lifecycle's Decide when the record asked for open, and a
\* stutter when it already asked for merged or is being deleted.
LEMMA FlipRefines ==
    ASSUME PInv, NoCloseRequests, NEW e \in Envs, PSFlip(e)
    PROVE  [LC!LCNext]_LC!lcVars
<1>0. pr \in [Envs -> PRRecord] /\ pr[e] \in PRRecord
    BY DEF PInv, TypeOK, PRTypeOK
<1>1. CASE UNCHANGED pr
    <2>1. WantOf' = WantOf /\ provider' = provider
        BY <1>0, <1>1, FlipRecord DEF WantOf
    <2> QED
        BY <2>1, AbstractStep
<1>2. CASE pr[e].exists /\ pr' = [pr EXCEPT ![e] = FlipOf(pr[e])]
    <2> DEFINE X == FlipOf(pr[e])
    <2>0. /\ X \in PRRecord /\ X.exists = pr[e].exists /\ X.spec = "merged"
          /\ X.del = pr[e].del
        BY <1>0, FlipOfRecord
    <2>1. provider' = provider
        BY <1>0, FlipRecord
    <2>2. CASE pr[e].del \/ pr[e].spec = "merged"
        <3>1. WantOfRecord(X) = WantOfRecord(pr[e])
            BY <2>0, <2>2 DEF WantOfRecord
        <3> QED
            BY <1>0, <1>2, <2>1, <3>1, WantOfSame, AbstractStep
    <2>3. CASE ~pr[e].del /\ pr[e].spec # "merged"
        <3>1. pr[e].spec = "open"
            BY <2>3 DEF NoCloseRequests
        <3>2. WantOfRecord(X) = "merged" /\ WantOf[e] = "open"
            BY <1>2, <2>0, <2>3, <3>1 DEF WantOfRecord, WantOf
        <3>3. WantOf' = [WantOf EXCEPT ![e] = "merged"]
            BY <1>0, <1>2, <3>2, WantOfStep
        <3>4. LC!Decide(e)
            BY <2>1, <3>2, <3>3 DEF LC!Decide
        <3> QED
            BY <3>4, AbstractStep
    <2> QED
        BY <2>2, <2>3
<1> QED
    BY <1>0, <1>1, <1>2, FlipRecord

\* Every step of the composed system is a lifecycle step or a stutter: the
\* PullRequest reconciler, the record the ProposedCommit reconciler creates
\* and a person's close are steps of PRNext, the flip is FlipRefines, and
\* the rest leaves the records and the provider alone.
LEMMA PromoterStepRefines ==
    PInv /\ NoCloseRequests /\ [Next]_vars => [LC!LCNext]_LC!lcVars
<1> SUFFICES ASSUME PInv, NoCloseRequests, [Next]_vars PROVE [LC!LCNext]_LC!lcVars
    OBVIOUS
<1>0. PRTypeOK
    BY DEF PInv, TypeOK
<1>1. ASSUME NEW f \in Envs, PSFlip(f) PROVE [LC!LCNext]_LC!lcVars
    BY <1>1, FlipRefines
<1>2. ASSUME NEW f \in Envs, PCReconcile(f) PROVE [LC!LCNext]_LC!lcVars
    <2>1. [PRNext]_prVars
        BY <1>2 DEF PCReconcile, PRNext
    <2> QED
        BY <1>0, <2>1, StepRefines
<1>3. ASSUME NEW f \in Envs, PRStep(f) PROVE [LC!LCNext]_LC!lcVars
    <2>1. [PRNext]_prVars
        BY <1>3 DEF PRStep, PRNext
    <2> QED
        BY <1>0, <2>1, StepRefines
<1>4. ASSUME NEW f \in Envs, ExternalClose(f) PROVE [LC!LCNext]_LC!lcVars
    <2>1. [PRNext]_prVars
        BY <1>4 DEF ExternalClose, PRNext
    <2> QED
        BY <1>0, <2>1, StepRefines
<1>5. CASE ~\E e \in Envs : PSFlip(e) \/ PCReconcile(e) \/ PRStep(e) \/ ExternalClose(e)
    <2>1. UNCHANGED pr
        BY <1>5, RecordsKept
    <2>2. UNCHANGED provider
        BY <1>5 DEF Next, vars, prVars, PSStep, PSNext, PSCompute, PSAbort, PSFetch,
                    PSPromote, PSCopyFail, NewDryCommit, Hydrate, CSReport,
                    CSDuplicate, CSPublish
    <2>3. WantOf' = WantOf
        BY <2>1 DEF WantOf
    <2> QED
        BY <2>2, <2>3, AbstractStep, NumEnvsAssumption DEF Envs
<1> QED
    BY <1>1, <1>2, <1>3, <1>4, <1>5

(***************************************************************************)
(* In the composed system an open provider PR is always guarded by a       *)
(* record that holds the finalizer: the strategy's flip, the ProposedCommit *)
(* reconciler and a merge's effect on Git do not break what the            *)
(* PullRequest reconciler's finalizer handling keeps.                      *)
(***************************************************************************)
THEOREM PromoterOrphanFree == Spec => []NoOrphanedProviderPR
<1>1. PInv => NoOrphanedProviderPR
    BY DEF PInv, IInv
<1> QED
    BY InitPInv, NextPInv, <1>1, PTL DEF Spec

(***************************************************************************)
(* The composed system implements the PullRequest life cycle: every step   *)
(* of every reconciler, of the hydrator, of CI and of people maps, under   *)
(* WantOf, to a lifecycle step or a stutter.  In particular the strategy's *)
(* flip is the lifecycle's Decide, including the re-Get of lines 145-156.  *)
(***************************************************************************)
THEOREM PromoterRefinement == Spec => LifecycleSafe
<1>1. Init => LC!LCInit
    BY InitRefines DEF Init
<1>2. Spec => [](PInv /\ NoCloseRequests)
    BY InitPInv, NextPInv, InitNoClose, NoCloseStep, PTL DEF Spec
<1> QED
    BY <1>1, <1>2, PromoterStepRefines, PTL DEF Spec, LifecycleSafe, LC!LCSafety
=============================================================================
