---------------------------- MODULE TierContract ----------------------------
(***************************************************************************)
(* What the reconcile loop may rely on when it calls a tier (the step      *)
(* RunTier of Controller): a pass works on one copy of the configuration   *)
(* from beginning to end, its status is replaced only when it returns and  *)
(* speaks of that copy, and it says ready, without an error, only if it    *)
(* found every component the copy asks for during that very pass.          *)
(***************************************************************************)
CONSTANTS
    Configs,    \* the configurations of the tier
    Asked       \* the components each of them asks for

VARIABLES
    cfg,     \* the configuration as users left it
    dep,     \* the pass's copy
    busy,    \* a pass is under way
    found,   \* components this pass found ready
    tier     \* the TierStatus last returned

tvars == <<cfg, dep, busy, found, tier>>

TInit ==
    /\ cfg \in Configs /\ dep = cfg /\ busy = FALSE /\ found = {}
    /\ tier = [ready |-> FALSE, error |-> FALSE, cfg |-> cfg]

UserChanges ==
    /\ cfg' \in Configs
    /\ UNCHANGED <<dep, busy, found, tier>>

Begin ==
    /\ ~busy /\ busy' = TRUE
    /\ dep' = cfg /\ found' = {}
    /\ UNCHANGED <<cfg, tier>>

Find ==
    /\ busy /\ found \subseteq found'
    /\ UNCHANGED <<cfg, dep, busy, tier>>

\* The status of a pass over d that found F.
Verdicts(d, F) ==
    {[ready |-> r, error |-> e, cfg |-> d] :
        r \in {b \in BOOLEAN : b => Asked[d] \subseteq F}, e \in BOOLEAN}

End ==
    /\ busy /\ busy' = FALSE
    /\ found \subseteq found'
    /\ tier' \in {t \in Verdicts(dep, found') : ~(t.ready /\ t.error)}
    /\ UNCHANGED <<cfg, dep>>

\* A pass that has nothing to do returns at once.
NothingToDo ==
    /\ ~busy /\ Asked[cfg] = {}
    /\ dep' = cfg /\ found' = {}
    /\ tier' = [ready |-> TRUE, error |-> FALSE, cfg |-> cfg]
    /\ UNCHANGED <<cfg, busy>>

TNext == UserChanges \/ Begin \/ Find \/ End \/ NothingToDo

TSpec == TInit /\ [][TNext]_tvars
=============================================================================
