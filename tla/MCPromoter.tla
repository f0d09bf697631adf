---------------------------- MODULE MCPromoter ----------------------------
(***************************************************************************)
(* Instances of the promotion system for TLC.                              *)
(***************************************************************************)
EXTENDS Promoter

\* Commit-status keys: an Argo CD health check and a CI check.
MCKeys == {"health", "ci"}
\* The health check alone, for instances that never read the CI check.
MCHealthKey == {"health"}

\* The first environment gates on health; the last has no check of its own.
MCEnvActiveKeys == [e \in 1..NumEnvs |-> IF e < NumEnvs THEN <<"health">> ELSE <<>>]
\* The first environment gates on two checks.
MCTwoActiveKeys ==
    [e \in 1..NumEnvs |-> IF e < NumEnvs THEN <<"health", "ci">> ELSE <<>>]
MCNoKeys == [e \in 1..NumEnvs |-> <<>>]
MCEnvProposedKeys == [e \in 1..NumEnvs |-> IF e = NumEnvs THEN <<"ci">> ELSE <<>>]
MCGlobalKeys == <<>>
\* Two checks shared by every environment (spec.activeCommitStatuses).
MCSharedKeys == <<"health", "ci">>
\* One check shared by every environment.
MCSharedHealth == <<"health">>
MCAutoMerge == [e \in 1..NumEnvs |-> TRUE]
=============================================================================
