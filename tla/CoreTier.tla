------------------------------ MODULE CoreTier ------------------------------
(***************************************************************************)
(* The core tier: CoreReconciler.Reconcile                                 *)
(* (internal/controller/core_reconciler.go), one action per step, and what *)
(* the builders of internal/resources/core make each workload depend on.   *)
(*                                                                         *)
(* A configuration keeps the profile, the database ("nil":                 *)
(* Spec.Infrastructure is not set; "noSecrets": external without           *)
(* userSecrets), whether the tier has a namespace apart from the           *)
(* infrastructure's, the TLS mode, the image version, the enabled services *)
(* among DHCP, PXE, DNS, RLA and PSM, whether PXE has storage, and Vault:  *)
(* "nil", "managed", "external" (address and token reference given, as the *)
(* webhook demands) or "noAddress".                                        *)
(***************************************************************************)
EXTENDS TierPass

Services == {"dhcp", "pxe", "dns", "rla", "psm"}

Config == [profile : {"management", "site"},
           db : {"nil", "managed", "external", "noSecrets"}, apart : BOOLEAN,
           tls : {"nil", "spiffe", "certManager"}, version : Nat,
           on : SUBSET Services, storage : BOOLEAN,
           vault : {"nil", "managed", "external", "noAddress"},
           strict : BOOLEAN]

ASSUME ConfigsAssumption == Configs \subseteq Config /\ Configs # {}

Flags == {"api", "dhcp", "pxe", "dns", "vault", "rla", "psm"}

\* The flags before anything is looked at: the network services start out
\* false, Vault, RLA and PSM true.
NoFlags == [f \in Flags |-> f \in {"vault", "rla", "psm"}]

-----------------------------------------------------------------------------
(***************************************************************************)
(* The resources.                                                          *)
(***************************************************************************)
Workload(c) == CASE c \in {"api", "pxe", "rla", "psm"} -> R("Deployment", c)
                 [] c \in {"dhcp", "dns"}              -> R("DaemonSet", c)

Workloads == {Workload(c) : c \in Services \cup {"api"}}

HelmJob   == R("Job", "vault-helm")
InitJob   == R("Job", "vault-init")
PXEClaim  == R("PersistentVolumeClaim", "pxe")
Unseal    == R("Secret", "vault-unseal")
Token     == R("Secret", "vault-token")
Initialised == R("Vault", "initialised")

Jobs == {HelmJob, InitJob}

Resources ==
    [kind : {"Deployment", "DaemonSet", "Job", "Namespace", "ServiceAccount",
             "ConfigMap", "ClusterSPIFFEID", "Certificate", "TLSSecret", "Secret",
             "UserSecret", "CopiedSecret", "Service", "ClusterRoleBinding",
             "PersistentVolumeClaim", "Vault"},
     of   : Flags \cup {"core", "spiffe-helper", "casbin", "carbide",
                        "pxe-certificate", "vault-helm", "vault-init",
                        "vault-values", "vault-unseal", "vault-token",
                        "initialised"}]

ASSUME ProvidedAssumption == Provided \subseteq Resources

\* Nobody but the tier makes its workloads and Jobs.
ASSUME OwnAssumption == Provided \cap (Workloads \cup Jobs) = {}

\* The Secret of a database user: of the database operator, or named in
\* userSecrets.  It is in the infrastructure's namespace; with another
\* namespace for the core tier, pods only see a copy, which others make.
PgUser(db, u) == R(IF db = "external" THEN "UserSecret" ELSE "Secret", u)
Copied(u)     == R("CopiedSecret", u)

\* Mutant: an identity for the migrations, which the API runs itself.
saNamesMigration(c) == <<"api", "dhcp", "dns", "pxe", "migration">>

\* The services with an identity of their own.
saNames(c) == <<"api", "dhcp", "dns", "pxe">>
              \o (IF "rla" \in c.on THEN <<"rla">> ELSE <<>>)
              \o (IF "psm" \in c.on THEN <<"psm">> ELSE <<>>)

TLSResources(c) ==
    CASE c.tls = "spiffe" -> <<R("ConfigMap", "spiffe-helper")>>
                             \o Each("ClusterSPIFFEID", saNames(c))
      [] c.tls = "certManager" -> Each("Certificate", saNames(c))
      [] c.tls = "nil" -> <<>>

\* What the builders read of the configuration.
Template(o) ==
    IF RollsOut(o)
    THEN [tls |-> dep.tls, version |-> dep.version,
          vault |-> IF o.of \in {"api", "psm"} THEN dep.vault ELSE "nil",
          db    |-> IF o.of \in {"api", "rla", "psm"} THEN dep.db ELSE "nil",
          apart |-> dep.apart]
    ELSE "none"

Templates(ws) == [o \in First(ws, Len(ws)) |-> Template(o)]

\* The pods name the Secret in their own namespace.
ResolveUserSecret(t, u) == IF t.apart THEN Copied(u) ELSE PgUser(t.db, u)

\* VAULT_TOKEN of carbide-api and PSM.
VaultRefs(t) ==
    CASE t.vault = "managed"  -> {Unseal}
      [] t.vault = "external" -> {Token}
      [] OTHER -> {}

APIRefs(t) == {R("ConfigMap", "api"), R("ConfigMap", "casbin"),
               ResolveUserSecret(t, "carbide")} \cup VaultRefs(t)

PXERefs(t) == IF t.tls = "certManager" THEN {R("Secret", "pxe-certificate")}
                                       ELSE {}

DNSRefs == {R("ConfigMap", "dns")}

RLARefs(t) == {ResolveUserSecret(t, "rla")}

PSMRefs(t) == {ResolveUserSecret(t, "psm")} \cup VaultRefs(t)

\* All a pod of the workload refers to and cannot start without.
Refs(c, t) ==
    {R("ServiceAccount", c)} \cup TLSRefs(c, t.tls) \cup
    (CASE c = "api" -> APIRefs(t) [] c = "pxe" -> PXERefs(t)
       [] c = "dns" -> DNSRefs    [] c = "rla" -> RLARefs(t)
       [] c = "psm" -> PSMRefs(t) [] c = "dhcp" -> {})

\* The PXE pod mounts a volume "spiffe" that only exists with cert-manager;
\* the API server rejects a pod template like that.
Invalid == IF dep.strict /\ dep.tls # "certManager" THEN {Workload("pxe")}
           ELSE {}

-----------------------------------------------------------------------------
(***************************************************************************)
(* One pass.                                                               *)
(***************************************************************************)
CoreInit == InitPass(NoFlags)

Fail(ws) ==
    /\ NothingFound /\ Return(FALSE, TRUE, NoFlags) /\ UNCHANGED cfg
    /\ WritesSome(ws, Invalid, Templates(ws))

\* The management profile has no core tier.
Start == StartPass(cfg.profile # "management")

Preparation ==
    [c \in Configs |-> <<R("Namespace", "core")>>
                       \o Each("ServiceAccount", saNames(c)) \o TLSResources(c)]

Prepare ==
    /\ pc = "prepare"
    /\ LET ws == Preparation[dep]
       IN \/ /\ pc' = IF dep.tls = "certManager" THEN "certs" ELSE "config"
             /\ UNCHANGED <<cfg, dep, ready, found, tier, faults>>
             /\ WritesAll(ws, Invalid, Templates(ws))
          \/ Fail(ws)

\* Mutant: the certificates are requested and not waited for.
WaitForCertsNot ==
    /\ pc = "certs" /\ pc' = "config"
    /\ UNCHANGED <<cfg, dep, ready, found, tier, faults>>
    /\ UNCHANGED clusterVars

\* Wait for the issued certificates before any Deployment.
WaitForCerts ==
    /\ pc = "certs"
    /\ LET issued == \A i \in DOMAIN saNames(dep) :
                        Exists(R("TLSSecret", saNames(dep)[i]))
       IN \/ /\ issued /\ pc' = "config"
             /\ UNCHANGED <<dep, ready, found, tier, faults>>
          \/ /\ ~issued /\ NothingFound
             /\ Return(FALSE, FALSE, NoFlags) /\ UNCHANGED faults
          \/ UseFault /\ NothingFound /\ Return(FALSE, TRUE, NoFlags)
    /\ UNCHANGED cfg /\ UNCHANGED clusterVars

\* The database password: of the user carbide, from the infrastructure's
\* namespace.
getPostgreSQLPassword == dep.db # "noSecrets" /\ Exists(PgUser(dep.db, "carbide"))

\* The ConfigMaps, then the database password, then the API's Secret.
reconcileConfig ==
    /\ pc = "config"
    /\ LET maps == <<R("ConfigMap", "api"), R("ConfigMap", "casbin")>>
                   \o (IF "dns" \in dep.on THEN <<R("ConfigMap", "dns")>>
                                           ELSE <<>>)
           all  == Append(maps, R("Secret", "api"))
       IN \/ /\ dep.db = "nil" /\ NothingFound /\ Return(FALSE, TRUE, NoFlags)
             /\ UNCHANGED cfg /\ UNCHANGED <<objs, up, stale, failed, faults>>
          \/ /\ dep.db # "nil" /\ getPostgreSQLPassword /\ pc' = "api"
             /\ UNCHANGED <<cfg, dep, ready, found, tier, faults>>
             /\ WritesAll(all, Invalid, Templates(all))
          \/ /\ dep.db # "nil" /\ ~getPostgreSQLPassword
             /\ NothingFound /\ Return(FALSE, TRUE, NoFlags)
             /\ UNCHANGED <<cfg, faults>>
             /\ WritesAll(maps, Invalid, Templates(maps))
          \/ dep.db # "nil" /\ Fail(all)

\* A service with one workload: write it, look at it, set the flag.
Service(c, ws, next) ==
    \/ /\ pc' = next /\ UNCHANGED <<cfg, dep, tier, faults>>
       /\ WritesAll(ws, Invalid, Templates(ws))
       /\ Finds(c, Workload(c))
    \/ Fail(ws)

\* Mutant: a service that is switched off is not ready.
SkipUnready(c, next) ==
    /\ ready' = [ready EXCEPT ![c] = FALSE] /\ pc' = next /\ NothingFound
    /\ UNCHANGED <<cfg, dep, tier, faults>> /\ UNCHANGED clusterVars

\* A service that is switched off counts as ready.
Skip(c, next) ==
    /\ ready' = [ready EXCEPT ![c] = TRUE] /\ pc' = next /\ NothingFound
    /\ UNCHANGED <<cfg, dep, tier, faults>> /\ UNCHANGED clusterVars

reconcileAPI ==
    /\ pc = "api"
    /\ Service("api", <<Workload("api"), R("Service", "api")>>, "dhcp")

\* Without the API none of the steps up to the verdict does anything.
SkipRest ==
    /\ pc = "dhcp" /\ ~ready["api"] /\ pc' = "verdict"
    /\ UNCHANGED <<cfg, dep, ready, found, tier, faults>>
    /\ UNCHANGED clusterVars

\* Mutant: the services do not wait for the API.
reconcileDHCPUngated ==
    /\ pc = "dhcp"
    /\ IF "dhcp" \in dep.on THEN Service("dhcp", <<Workload("dhcp")>>, "pxe")
                            ELSE Skip("dhcp", "pxe")

reconcileDHCP ==
    /\ pc = "dhcp" /\ ready["api"]
    /\ IF "dhcp" \in dep.on THEN Service("dhcp", <<Workload("dhcp")>>, "pxe")
                            ELSE Skip("dhcp", "pxe")

\* With storage, the claim first; the Deployment waits until it is bound.
reconcilePXE ==
    /\ pc = "pxe"
    /\ IF "pxe" \notin dep.on THEN Skip("pxe", "dns")
       ELSE IF ~dep.storage THEN Service("pxe", <<Workload("pxe")>>, "dns")
       ELSE IF PXEClaim \in up
            THEN Service("pxe", <<PXEClaim, Workload("pxe")>>, "dns")
       ELSE \/ /\ WritesAll(<<PXEClaim>>, Invalid, Templates(<<PXEClaim>>))
               /\ NothingFound /\ ready' = [ready EXCEPT !["pxe"] = FALSE]
               /\ pc' = "dns" /\ UNCHANGED <<cfg, dep, tier, faults>>
            \/ Fail(<<PXEClaim>>)

reconcileDNS ==
    /\ pc = "dns"
    /\ IF "dns" \in dep.on THEN Service("dns", <<Workload("dns")>>, "vault")
                           ELSE Skip("dns", "vault")

VaultFound(yes) == /\ Flag("vault", yes)
                   /\ pc' = "rla" /\ UNCHANGED <<cfg, dep, tier, faults>>

\* Managed Vault: the Helm Job, and once that is complete the init Job.
ManagedVault ==
    LET helm == <<R("ServiceAccount", "vault-helm"),
                  R("ClusterRoleBinding", "vault-helm"),
                  R("ConfigMap", "vault-values"), HelmJob>>
        both == Append(helm, InitJob)
        ws   == IF HelmJob \in up THEN both ELSE helm
        last == ws[Len(ws)]
    IN  \/ /\ last \notin failed /\ WritesAll(ws, Invalid, Templates(ws))
           /\ VaultFound(InitJob \in up /\ HelmJob \in up)
        \/ /\ last \in failed /\ WritesAll(ws, Invalid, Templates(ws))
           /\ NothingFound /\ Return(FALSE, TRUE, NoFlags)
           /\ UNCHANGED <<cfg, faults>>
        \/ Fail(ws)

\* External Vault: an address, and the token Secret must be there.
ExternalVault ==
    /\ \/ dep.vault = "external" /\ Exists(Token) /\ VaultFound(TRUE)
       \/ /\ dep.vault = "noAddress" \/ ~Exists(Token)
          /\ NothingFound /\ Return(FALSE, TRUE, NoFlags)
          /\ UNCHANGED <<cfg, faults>>
       \/ /\ UseFault /\ NothingFound /\ Return(FALSE, TRUE, NoFlags)
          /\ UNCHANGED cfg
    /\ UNCHANGED clusterVars

reconcileVault ==
    /\ pc = "vault"
    /\ CASE dep.vault = "nil"     -> Skip("vault", "rla")
         [] dep.vault = "managed" -> ManagedVault
         [] OTHER                 -> ExternalVault

reconcileRLA ==
    /\ pc = "rla"
    /\ IF ready["vault"] /\ "rla" \in dep.on
       THEN Service("rla", <<Workload("rla"), R("Service", "rla")>>, "psm")
       ELSE Skip("rla", "psm")

reconcilePSM ==
    /\ pc = "psm"
    /\ IF ready["vault"] /\ "psm" \in dep.on
       THEN Service("psm", <<Workload("psm"), R("Service", "psm")>>, "verdict")
       ELSE Skip("psm", "verdict")

\* Mutant: only the API counts.
VerdictOfAPI ==
    /\ pc = "verdict" /\ NothingFound /\ Return(ready["api"], FALSE, NoFlags)
    /\ UNCHANGED <<cfg, faults>> /\ UNCHANGED clusterVars

Verdict ==
    /\ pc = "verdict" /\ NothingFound
    /\ Return(\A f \in Flags : ready[f], FALSE, NoFlags)
    /\ UNCHANGED <<cfg, faults>> /\ UNCHANGED clusterVars

Reconcile ==
    \/ Start \/ Prepare \/ WaitForCerts \/ reconcileConfig \/ reconcileAPI
    \/ SkipRest \/ reconcileDHCP \/ reconcilePXE \/ reconcileDNS
    \/ reconcileVault \/ reconcileRLA \/ reconcilePSM \/ Verdict

-----------------------------------------------------------------------------
(***************************************************************************)
(* The cluster.                                                            *)
(***************************************************************************)
WorkloadUp(c) ==
    Exists(Workload(c))
        /\ ComesUp(Workload(c), Refs(c, objs[Workload(c)]), {})

\* The Helm Job; and the init Job's script, which leaves an initialised
\* Vault alone and otherwise initialises it and saves the keys.
JobCompletes(j) ==
    IF j = HelmJob
    THEN ComesUp(j, {R("ServiceAccount", "vault-helm"),
                     R("ConfigMap", "vault-values")}, {})
    ELSE ComesUp(j, {R("ServiceAccount", "vault-helm")},
                 IF Exists(Initialised) THEN {} ELSE {Initialised, Unseal})

\* The keys are lost: the pod stops between initialising Vault and saving
\* them, and is started again; or saving fails, which the script ignores.
KeysLost ==
    /\ Exists(InitJob) /\ InitJob \notin up \cup failed /\ ~Exists(Initialised)
    /\ UseFault
    /\ objs' = [x \in DOMAIN objs \cup {Initialised} |->
                   IF Exists(x) THEN objs[x] ELSE "none"]
    /\ up' = up \/ up' = up \cup {InitJob}
    /\ UNCHANGED <<cfg, stale, failed>> /\ UNCHANGED passVars

ClaimBound == ComesUp(PXEClaim, {}, {})

\* The day of a complete Job is over: a pass has found both complete; or the
\* Helm Job, created first, has gone first and is running again; or the
\* last pass failed at it (Refused), as all do while it is there.
Due(j) == \/ "vault" \in found
          \/ j = InitJob /\ HelmJob \notin up
          \/ pc = "idle" /\ dep.strict /\ tier.error

Cluster ==
    \/ \E o \in Provided : Provide(o)
    \/ \E c \in Services \cup {"api"} : WorkloadUp(c) \/ CertIssued(c)
    \/ \E j \in Jobs : JobCompletes(j) \/ JobFails(j)
                      \/ JobExpires(j, Due(j))
    \/ \E o \in Workloads : GoesDown(o) \/ CacheCatchesUp(o)
    \/ ClaimBound \/ KeysLost

CoreNext == Reconcile \/ ChangeConfig \/ Cluster

CoreSpec == CoreInit /\ [][CoreNext]_vars

\* The controller keeps coming back, the cluster starts what can start, and
\* what others supply arrives.
Progress ==
    /\ UNCHANGED cfg /\ UNCHANGED passVars
    /\ \/ \E c \in Services \cup {"api"} :
             WorkloadUp(c) \/ CertIssued(c) \/ CacheCatchesUp(Workload(c))
       \/ ClaimBound
       \/ \E o \in Provided : Provide(o)

\* A Job that can run does, and one that failed is removed in the end.  No
\* complete Job has to expire; and Jobs that come back every day do not stand
\* for the progress of anything else.
JobProgress ==
    /\ UNCHANGED cfg /\ UNCHANGED passVars
    /\ \E j \in Jobs : JobCompletes(j) \/ (j \in failed /\ JobExpires(j, Due(j)))

CoreFairness ==
    WF_vars(Reconcile) /\ WF_vars(Progress) /\ WF_vars(JobProgress)

CoreFairSpec == CoreSpec /\ CoreFairness

-----------------------------------------------------------------------------
CoreTypeOK ==
    /\ cfg \in Configs /\ dep \in Configs
    /\ pc \in {"idle", "prepare", "certs", "config", "api", "dhcp", "pxe",
              "dns", "vault", "rla", "psm", "verdict"}
    /\ DOMAIN objs \subseteq Resources
    /\ up \subseteq DOMAIN objs /\ stale \subseteq Workloads
    /\ failed \subseteq Jobs \cap DOMAIN objs
    /\ ready \in [Flags -> BOOLEAN]
    /\ found \subseteq Flags
    /\ tier \in [ready : BOOLEAN, error : BOOLEAN, cfg : Configs]
    /\ faults \in 0 .. MaxFaults

\* What a configuration asks the tier to have.
Expected(c) ==
    IF c.profile = "management" THEN {}
    ELSE {"api"} \cup c.on \cup (IF c.vault = "nil" THEN {} ELSE {"vault"})

(***************************************************************************)
(* The tier keeps the contract the reconcile loop relies on.  In           *)
(* particular, "All core components ready" (core_reconciler.go:301) means  *)
(* that this very pass has looked at every service its configuration       *)
(* enables and found it ready: the flags that start out true (Vault, RLA,  *)
(* PSM), the services skipped because the API or Vault was not ready and   *)
(* the early returns never add up to a ready tier.                         *)
(***************************************************************************)
ExpectedOf == [c \in Configs |-> Expected(c)]

Contract == INSTANCE TierContract
              WITH Asked <- ExpectedOf, busy <- pc # "idle"

CoreKeepsContract == Contract!TSpec

\* What others supply and no pass asks for before the workload of c: copies
\* of Secrets, the passwords of RLA and PSM, the certificate of PXE, and what
\* Vault leaves behind; the external Vault's token is looked up before PSM.
Elsewhere(c) ==
    {Copied(u) : u \in {"carbide", "rla", "psm"}}
    \cup {PgUser(db, u) : db \in {"managed", "external"}, u \in {"rla", "psm"}}
    \cup {R("Secret", "pxe-certificate"), Unseal}
    \cup (IF c = "psm" THEN {} ELSE {Token})

(***************************************************************************)
(* Whatever order configurations change and passes fail in, a workload in  *)
(* the cluster finds there all its pods refer to and the operator creates  *)
(* or checks for (accounts, ConfigMaps, SPIFFE IDs, issued certificates,   *)
(* the password of carbide, for PSM the external Vault's token): nothing   *)
(* is rolled out before what it mounts.                                    *)
(***************************************************************************)
CreatedInOrder ==
    \A c \in Services \cup {"api"} :
        Exists(Workload(c)) =>
            Refs(c, objs[Workload(c)]) \ Elsewhere(c) \subseteq DOMAIN objs

(***************************************************************************)
(* docs/ARCHITECTURE.md:421-424: the network services and Vault come after *)
(* the API is ready, RLA and PSM after the API and Vault.  A step brings   *)
(* one of them into the cluster, or changes its template, only in a pass   *)
(* that has found those ready.                                             *)
(***************************************************************************)
ServicesFollowAPI ==
    [][\A o \in (Workloads \cup Jobs) \ {Workload("api")} :
          Changes(o) =>
              /\ "api" \in found
              /\ o.of \in {"rla", "psm"} /\ dep.vault # "nil"
                    => "vault" \in found]_vars

\* Configurations that can become ready.
Complete(c) == \/ c.profile = "management"
               \/ c.db \in {"managed", "external"} /\ c.vault # "noAddress"

Running(c) == \A s \in Expected(c) \ {"vault"} : Workload(s) \in up

\* The verdict asks for Jobs that are removed and run again every day.
UsesJobs(c) == c.profile # "management" /\ c.vault = "managed"

(***************************************************************************)
(* Once users leave the configuration alone, every service of it comes up  *)
(* and stays up, and the tier becomes ready for it (which                  *)
(* docs/ARCHITECTURE.md:369 waits for) and stays so, whatever errors,      *)
(* half-finished passes, lost pods, failed Jobs and answers from an old    *)
(* status (readiness.go:67) came before.  With managed Vault it does not   *)
(* stay ready: the Jobs the verdict asks for are removed a day after they  *)
(* completed (vault.go:89, 158), and each time the tier is ready again     *)
(* once they have run, while the services go on undisturbed.               *)
(***************************************************************************)
CoreConverges ==
    <>[][FALSE]_cfg =>
        /\ <>[](Complete(cfg) => /\ Running(cfg) /\ tier.cfg = cfg
                                 /\ tier.ready \/ UsesJobs(cfg))
        /\ []<>(Complete(cfg) => tier.ready)
=============================================================================
