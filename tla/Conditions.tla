----------------------------- MODULE Conditions -----------------------------
(***************************************************************************)
(* The status of a CarbideDeployment and the helpers that compute it       *)
(* (internal/conditions/helpers.go): pure operators on a pair of a spec    *)
(* and a status.  The messages, reasons and timestamps of the conditions   *)
(* are left out; a condition is its Status, "None" when it was never set.  *)
(*                                                                         *)
(* A spec keeps only what the helpers and the reconcile loop read:         *)
(*   infra   whether Spec.Infrastructure is set                            *)
(*   rest    "nil", "disabled" (set with Enabled = false) or "enabled"     *)
(*   tls     "nil" or the mode of Spec.TLS                                 *)
(*   addons  the configured services among Vault, RLA and PSM              *)
(***************************************************************************)
EXTENDS Naturals

Tiers == {"infra", "core", "rest"}

TLSModes == {"spiffe", "certManager"}

Addons == {"VaultReady", "RLAReady", "PSMReady"}

DeploymentSpec == [infra : BOOLEAN, rest : {"nil", "disabled", "enabled"},
                   tls : TLSModes \cup {"nil"}, addons : SUBSET Addons]

Phases == {"", "Pending", "Provisioning", "Ready", "Failed", "Updating"}

TierStates == {"nil", "notReady", "ready"}

CondTypes == {"Ready", "InfrastructureReady", "CoreReady", "RestReady",
              "TLSReady", "SPIFFEAvailable", "CertManagerAvailable"}
             \cup Addons

CondValues == {"None", "Unknown", "True", "False"}

Status == [phase : Phases, og : Nat, tiers : [Tiers -> TierStates],
           conds : [CondTypes -> CondValues]]

EmptyStatus ==
    [phase |-> "", og |-> 0, tiers |-> [t \in Tiers |-> "nil"],
     conds |-> [c \in CondTypes |-> "None"]]

-----------------------------------------------------------------------------
Bool2Cond(b) == IF b THEN "True" ELSE "False"

SetCondition(st, c, v) == [st EXCEPT !.conds = [@ EXCEPT ![c] = v]]

IsConditionTrue(st, c) == st.conds[c] = "True"

TierCondition(t) == CASE t = "infra" -> "InfrastructureReady"
                      [] t = "core"  -> "CoreReady"
                      [] t = "rest"  -> "RestReady"

\* A tier's pass is recorded as its TierStatus and its condition together.
SetTierStatus(st, t, v) ==
    SetCondition([st EXCEPT !.tiers = [@ EXCEPT ![t] = v]],
                 TierCondition(t), Bool2Cond(v = "ready"))

BackendCondition(mode) == IF mode = "spiffe" THEN "SPIFFEAvailable"
                                             ELSE "CertManagerAvailable"

\* The availability of the TLS backend, in its own condition and TLSReady.
SetTLSConditions(st, mode, available) ==
    SetCondition(SetCondition(st, BackendCondition(mode), Bool2Cond(available)),
                 "TLSReady", Bool2Cond(available))

\* The conditions InitializeConditions sets to Unknown for a spec.
InitialConditions(spec) ==
    {"Ready", "CoreReady"} \cup spec.addons
    \cup (IF spec.infra THEN {"InfrastructureReady"} ELSE {})
    \cup (IF spec.rest = "enabled" THEN {"RestReady"} ELSE {})
    \cup (IF spec.tls # "nil" THEN {"TLSReady", BackendCondition(spec.tls)}
                              ELSE {})

InitializeConditions(spec, st) ==
    [st EXCEPT !.phase = "Pending",
               !.conds = [c \in CondTypes |->
                   IF c \in InitialConditions(spec) THEN "Unknown" ELSE @[c]]]

\* Mutant: the infrastructure tier's own status is not looked at.
InfraReadyAssumed(spec, st) == TRUE

InfraReady(spec, st) == ~spec.infra \/ st.tiers["infra"] = "ready"

CoreReady(st) == st.tiers["core"] = "ready"

\* The Rest tier counts as soon as Spec.Rest is set, enabled or not.
RestReady(spec, st) == spec.rest = "nil" \/ st.tiers["rest"] = "ready"

AllTiersReady(spec, st) ==
    InfraReady(spec, st) /\ CoreReady(st) /\ RestReady(spec, st)

\* SetReadyCondition: the phase and the Ready condition, from all the rest.
SetReadyCondition(spec, st) ==
    LET tlsReady == IsConditionTrue(st, "TLSReady")
        phase == IF spec.tls # "nil" /\ ~tlsReady THEN "Failed"
                 ELSE IF AllTiersReady(spec, st) THEN "Ready"
                 ELSE "Provisioning"
    IN  SetCondition([st EXCEPT !.phase = phase],
                     "Ready", Bool2Cond(phase = "Ready"))
=============================================================================
