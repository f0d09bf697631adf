---------------------------- MODULE PRLifecycle ----------------------------
(***************************************************************************)
(* What the PullRequest reconciler promises, stated without its records,   *)
(* finalizers and status writes: for each environment, what the owners of  *)
(* the PullRequest record want of the provider, and the provider's PR.     *)
(*                                                                         *)
(*   want[e]  "absent" when there is no record or it is being deleted,     *)
(*            otherwise the record's spec.state;                           *)
(*   prov[e]  the provider's PR for e's branches.                          *)
(*                                                                         *)
(* The provider's PR is opened only when a record wants it open, merged    *)
(* only when a record wants it merged, and closed only when a record       *)
(* wants it closed or is going away, or by a person where people close    *)
(* PRs on the provider (PeopleClose).  Under fairness, what                *)
(* a record wants of an open PR, and an open PR left without a record, is  *)
(* eventually done.  PullRequest.tla implements this specification         *)
(* (LifecycleRefined there).                                               *)
(***************************************************************************)
EXTENDS Naturals

CONSTANTS
    NumEnvs,
    PeopleClose     \* whether people close PRs on the provider

VARIABLES want, prov

lcVars == <<want, prov>>

LCEnvs == 1..NumEnvs

Wants == {"absent", "open", "merged", "closed"}

ProvStates == {"none", "open", "merged", "closed"}

LCTypeOK ==
    /\ want \in [LCEnvs -> Wants]
    /\ prov \in [LCEnvs -> ProvStates]

LCInit ==
    /\ want = [e \in LCEnvs |-> "absent"]
    /\ prov = [e \in LCEnvs |-> "none"]

\* A record is created asking for an open PR; it adopts a PR of the same
\* branches that is still open, and is not concerned with a finished one.
Request(e) ==
    /\ want[e] = "absent"
    /\ want' = [want EXCEPT ![e] = "open"]
    /\ prov' = [prov EXCEPT ![e] = IF @ = "open" THEN @ ELSE "none"]

\* The record's owner decides the outcome of a PR it wanted open.
Decide(e) ==
    /\ want[e] = "open"
    /\ \E w \in {"merged", "closed"} : want' = [want EXCEPT ![e] = w]
    /\ UNCHANGED prov

\* The record is deleted, or starts being deleted.
Withdraw(e) ==
    /\ want[e] # "absent"
    /\ want' = [want EXCEPT ![e] = "absent"]
    /\ UNCHANGED prov

Open(e) ==
    /\ want[e] = "open" /\ prov[e] # "open"
    /\ prov' = [prov EXCEPT ![e] = "open"]
    /\ UNCHANGED want

Merge(e) ==
    /\ want[e] = "merged" /\ prov[e] = "open"
    /\ prov' = [prov EXCEPT ![e] = "merged"]
    /\ UNCHANGED want

Close(e) ==
    /\ want[e] \in {"closed", "absent"} /\ prov[e] = "open"
    /\ prov' = [prov EXCEPT ![e] = "closed"]
    /\ UNCHANGED want

\* A person closes the PR on the provider, whatever the record wants, where
\* people may.
PersonCloses(e) ==
    /\ PeopleClose
    /\ prov[e] = "open"
    /\ prov' = [prov EXCEPT ![e] = "closed"]
    /\ UNCHANGED want

LCNext ==
    \E e \in LCEnvs :
        \/ Request(e) \/ Decide(e) \/ Withdraw(e)
        \/ Open(e) \/ Merge(e) \/ Close(e) \/ PersonCloses(e)

\* The safety part: every step is one of the above or leaves both unchanged.
LCSafety == LCInit /\ [][LCNext]_lcVars

\* The provider side acts on what is wanted, as long as it stays wanted.
LCSpec ==
    /\ LCSafety
    /\ \A e \in LCEnvs : WF_lcVars(Open(e)) /\ WF_lcVars(Merge(e)) /\ WF_lcVars(Close(e))
=============================================================================
