------------------------------ MODULE MCSteward ------------------------------
(* The steward's own source, its nightly runs, and the items it resolves or  *)
(* leaves to the operator, checked side by side: they share no state here,   *)
(* and `machine' says which one moves.                                        *)
EXTENDS StewardCode, StewardRun, Resolver, TLC

CONSTANTS Code, Nightly, Resolving

MCOrder == <<"setup", "apply", "fixes">>

VARIABLE machine

mcVars == <<machine, codeVars, runVars, resolverVars>>

MCInit ==
    /\ machine \in {Code, Nightly, Resolving} /\ CodeInit /\ RunInit /\ ResolverInit
    /\ machine # Code => \A p \in PullRequests : prs[p] = NoPr
    /\ machine # Resolving => slug = [f \in Files |-> f]

MCNext ==
    /\ UNCHANGED machine
    /\ \/ machine = Code /\ CodeNext /\ UNCHANGED <<runVars, resolverVars>>
       \/ machine = Nightly /\ RunNext /\ UNCHANGED <<codeVars, resolverVars>>
       \/ machine = Resolving /\ ResolverNext /\ UNCHANGED <<codeVars, runVars>>

MCSpec == MCInit /\ [][MCNext]_mcVars

PathSymmetry == Permutations(Paths)

(* What each of them keeps has its type, and a startup never takes a live *)
(* tree that it restored by half for one it rolled back.                     *)
TypesOK == CodeTypeOK /\ CodeSound /\ RunTypeOK /\ Undisturbed
    /\ ResolverTypeOK /\ ResolverSound /\ HalfRestoreNoticed

(* What the steward did is told: a merge that it took back, and every action *)
(* that it took for the operator, which is the one that was judged.           *)
AccountsTrue == UnpickedMergeReported /\ ActionsCarried /\ ItemsAccounted /\ ExactlyAsJudged
=============================================================================
