------------------------------ MODULE RestTier ------------------------------
(***************************************************************************)
(* The REST tier: RestReconciler.Reconcile                                 *)
(* (internal/controller/rest_reconciler.go), one action per step, and what *)
(* the builders of internal/resources/rest make each workload depend on.   *)
(*                                                                         *)
(* A configuration keeps whether the tier is enabled, whether the profile  *)
(* is one of the management profiles, the database ("nil":                 *)
(* Spec.Infrastructure is not set; "noSecrets": external without           *)
(* userSecrets), whether the tier's namespace, Spec.Core.Namespace, is     *)
(* apart from the infrastructure's, the TLS mode, the image version, the   *)
(* modes of Temporal ("noEndpoint": external without one) and Keycloak     *)
(* ("noProvider": external without one), and whether the site agent is     *)
(* enabled.                                                                *)
(***************************************************************************)
EXTENDS TierPass

Config == [enabled : BOOLEAN, management : BOOLEAN,
           db : {"nil", "managed", "external", "noSecrets"}, apart : BOOLEAN,
           tls : {"nil", "spiffe", "certManager"}, version : Nat,
           temporal : {"managed", "external", "noEndpoint"},
           keycloak : {"managed", "external", "noProvider", "disabled"},
           agent : BOOLEAN, strict : BOOLEAN]

ASSUME ConfigsAssumption == Configs \subseteq Config /\ Configs # {}

Workers == {"cloud-worker", "site-worker"}
Services == {"rest-api", "site-manager", "site-agent"} \cup Workers

Flags == {"temporal", "keycloak", "setup"} \cup Services

\* Before anything is looked at the workers, the site manager and the site
\* agent count as ready.
NoFlags == [f \in Flags |-> f \in Services \ {"rest-api"}]

-----------------------------------------------------------------------------
(***************************************************************************)
(* The resources.                                                          *)
(***************************************************************************)
Workload(c) == R("Deployment", c)
Workloads   == {Workload(c) : c \in Services}

\* Nobody but the tier makes its workloads.
ASSUME OwnAssumption == Provided \cap Workloads = {}

HelmJob   == R("Job", "temporal-helm")
SetupJob  == R("Job", "temporal-namespace-init")
Jobs      == {HelmJob, SetupJob}
Frontend  == R("Deployment", "temporal-frontend")
Keycloak  == R("Keycloak", "keycloak")
LookedFor == R("Keycloak", "carbide-keycloak")
Home      == R("Namespace", "core")
Client    == R("Secret", "auth-client")
Operator  == R("CRD", "keycloak")

\* The Secret of the database user forge: of the database operator, or named
\* in userSecrets.  It is in the infrastructure's namespace; a namespace
\* apart has it only if someone copies it there.
Forge(db) == R(IF db = "external" THEN "UserSecret" ELSE "Secret", "forge")
Copied    == R("CopiedSecret", "forge")

Resources ==
    [kind : {"Deployment", "Job", "ServiceAccount", "Role", "RoleBinding",
             "ConfigMap", "ClusterSPIFFEID", "Certificate", "TLSSecret", "Secret",
             "UserSecret", "CopiedSecret", "Service", "Keycloak",
             "KeycloakRealmImport", "Namespace", "CRD", "Address"},
     of   : Flags \cup {"core", "spiffe-helper", "workflow", "forge", "external",
                        "temporal-values", "temporal-helm", "temporal-frontend",
                        "temporal-helm-installer", "temporal-namespace-init",
                        "temporal-encryption-key", "carbide-keycloak",
                        "auth-client"}]

ASSUME ProvidedAssumption == Provided \subseteq Resources

\* Addresses that answer: the frontend's Service, and an external Temporal.
Address(a) == R("Address", a)

\* The setup Job is handed the name of Temporal's namespace as the address
\* to talk to.
SetupAddress == Address("temporal")

\* Mutant: an identity for a worker there is not.
AccountsOfMore == <<"rest-api", "cloud-worker", "site-worker", "rest-worker">>

\* Mutant: the second worker has no identity.
AccountsShort == <<"rest-api", "cloud-worker">>

\* The identities of the tier; the site agent and the Helm installer have
\* no ServiceAccount among them, the agent no certificate or SPIFFE ID.
Accounts == <<"rest-api", "cloud-worker", "site-worker">>

TLSResources(c) ==
    CASE c.tls = "spiffe" ->
            <<R("ConfigMap", "spiffe-helper")>>
            \o Each("ClusterSPIFFEID", Accounts \o <<"temporal", "site-manager">>)
      [] c.tls = "certManager" ->
            Each("Certificate", Append(Accounts, "site-manager"))
      [] c.tls = "nil" -> <<>>

\* What the builders read of the configuration.
Template(o) == IF o \in Workloads
               THEN [tls |-> dep.tls, version |-> dep.version,
                     apart |-> dep.apart]
               ELSE "none"

Templates(ws) == [o \in First(ws, Len(ws)) |-> Template(o)]

RestAPIRefs == {R("ConfigMap", "rest-api"), R("Secret", "rest-api")}

\* The workers mount a key for Temporal, and name the database operator's
\* Secret of forge whatever the mode of the database.
WorkerRefs(t) == {R("ConfigMap", "workflow"),
                  R("Secret", "temporal-encryption-key"),
                  IF t.apart THEN Copied ELSE Forge("managed")}

SiteAgentRefs == {R("ConfigMap", "site-agent")}

\* All a pod of the workload refers to and cannot start without.
Refs(c, t) ==
    {R("ServiceAccount", c)} \cup TLSRefs(c, t.tls) \cup
    (CASE c = "rest-api"   -> RestAPIRefs   [] c \in Workers -> WorkerRefs(t)
       [] c = "site-agent" -> SiteAgentRefs [] c = "site-manager" -> {})

-----------------------------------------------------------------------------
(***************************************************************************)
(* One pass.                                                               *)
(***************************************************************************)
RestInit == InitPass(NoFlags)

\* The pass returns with an error after some of the writes,
Fail(ws) ==
    /\ NothingFound /\ Return(FALSE, TRUE, NoFlags) /\ UNCHANGED cfg
    /\ WritesSome(ws, {}, Templates(ws))

\* or after all of them;
Stop(ws, error) ==
    /\ NothingFound /\ Return(FALSE, error, NoFlags) /\ UNCHANGED <<cfg, faults>>
    /\ WritesAll(ws, {}, Templates(ws))

\* or it goes on.
Go(ws, next) ==
    /\ pc' = next /\ UNCHANGED <<cfg, dep, tier, faults>>
    /\ WritesAll(ws, {}, Templates(ws))

KeepFlags == UNCHANGED <<ready, found>>

Start == StartPass(cfg.enabled)

Identities ==
    [c \in Configs |-> Each("ServiceAccount", Accounts) \o TLSResources(c)]

Preparation ==
    [c \in Configs |-> Identities[c] \o <<R("Secret", "rest-api"),
                                         R("ConfigMap", "workflow")>>]

\* The tier does not create the namespace it writes to.
Homeless == dep.strict /\ ~Exists(Home)

\* Mutant: the password of another user.
getForgePasswordOfCarbide ==
    dep.db \in {"managed", "external"} /\ Exists(R("Secret", "carbide"))

\* The database password: of the user forge, from the infrastructure's
\* namespace.
getForgePassword == dep.db \in {"managed", "external"} /\ Exists(Forge(dep.db))

\* ServiceAccounts, TLS resources, then the forge password; a pass without
\* it ends quietly.  Any error of the lookup counts as its absence.
Prepare ==
    /\ pc = "prepare"
    /\ \/ Homeless /\ Stop(<<>>, TRUE)
       \/ /\ ~Homeless /\ getForgePassword
          /\ Go(Preparation[dep], "temporal") /\ KeepFlags
       \/ ~Homeless /\ ~getForgePassword /\ Stop(Identities[dep], FALSE)
       \/ /\ ~Homeless /\ getForgePassword
          /\ UseFault /\ NothingFound /\ Return(FALSE, FALSE, NoFlags)
          /\ UNCHANGED cfg
          /\ WritesAll(Identities[dep], {}, Templates(Identities[dep]))
       \/ /\ ~Homeless
          /\ Fail(IF getForgePassword THEN Preparation[dep] ELSE Identities[dep])

\* Managed Temporal: the Helm values, the Helm Job and, once that is
\* complete, the frontend it installed.  (getPostgreSQLConnection cannot fail
\* where the forge password was found.)
ManagedTemporal ==
    LET ws == <<R("ConfigMap", "temporal-values"), HelmJob>>
    IN  \/ /\ HelmJob \notin failed /\ Go(ws, "keycloak")
           /\ Flag("temporal", {HelmJob, Frontend} \subseteq up)
        \/ HelmJob \in failed /\ Stop(ws, TRUE)
        \/ Fail(ws)

\* External Temporal: the endpoint must answer.
ExternalTemporal ==
    LET answers == dep.temporal = "external" /\ Exists(Address("external"))
    IN  \/ answers /\ Go(<<>>, "keycloak") /\ Flag("temporal", TRUE)
        \/ ~answers /\ Stop(<<>>, TRUE)
        \/ answers /\ Fail(<<>>)

reconcileTemporal ==
    /\ pc = "temporal"
    /\ IF dep.temporal = "managed" THEN ManagedTemporal ELSE ExternalTemporal

\* Managed Keycloak: its operator must be installed; then the instance and
\* the realm; IsKeycloakReady looks for an instance of another name.
\* External: the client Secret must exist.
ManagedKeycloak ==
    LET ws == <<Keycloak, R("KeycloakRealmImport", "keycloak")>>
    IN  \/ Exists(Operator) /\ Go(ws, "setup")
              /\ Flag("keycloak", LookedFor \in up)
        \/ ~Exists(Operator) /\ Stop(<<>>, TRUE)
        \/ Exists(Operator) /\ Fail(ws)

ExternalKeycloak ==
    LET valid == dep.keycloak = "external" /\ Exists(Client)
    IN  \/ valid /\ Go(<<>>, "setup") /\ Flag("keycloak", TRUE)
        \/ ~valid /\ Stop(<<>>, TRUE)
        \/ valid /\ Fail(<<>>)

reconcileKeycloak ==
    /\ pc = "keycloak"
    /\ CASE dep.keycloak = "managed"  -> ManagedKeycloak
         [] dep.keycloak = "disabled" ->
               Go(<<>>, "setup") /\ Flag("keycloak", TRUE)
         [] OTHER -> ExternalKeycloak

\* Only once Temporal is ready; without it nothing up to the verdict runs.
reconcileTemporalSetup ==
    /\ pc = "setup"
    /\ \/ ~ready["temporal"] /\ Go(<<>>, "verdict") /\ KeepFlags
       \/ /\ ready["temporal"] /\ SetupJob \notin failed
          /\ Go(<<SetupJob>>, "rest-api")
          /\ Flag("setup", SetupJob \in up)
       \/ ready["temporal"] /\ SetupJob \in failed /\ Stop(<<SetupJob>>, TRUE)
       \/ ready["temporal"] /\ Fail(<<SetupJob>>)

\* A service with one workload: write it, look at it, set the flag.
Service(c, ws, next) ==
    \/ Go(ws, next) /\ Finds(c, Workload(c))
    \/ Fail(ws)

Skip(next) == Go(<<>>, next) /\ KeepFlags

reconcileRestAPI ==
    /\ pc = "rest-api"
    /\ IF ready["keycloak"] /\ ready["setup"]
       THEN Service("rest-api", <<R("ConfigMap", "rest-api"),
                Workload("rest-api"), R("Service", "rest-api")>>, "cloud-worker")
       ELSE Skip("cloud-worker")

\* Mutant: the workers do not wait for Temporal's namespaces.
reconcileWorkerUngated(w, next) == pc = w /\ Service(w, <<Workload(w)>>, next)

reconcileWorker(w, next) ==
    /\ pc = w
    /\ IF ready["setup"] THEN Service(w, <<Workload(w)>>, next) ELSE Skip(next)

reconcileSiteManager ==
    /\ pc = "site-manager"
    /\ IF dep.management /\ ready["rest-api"]
       THEN Service("site-manager", <<R("ServiceAccount", "site-manager"),
                R("Role", "site-manager"), R("RoleBinding", "site-manager"),
                Workload("site-manager"), R("Service", "site-manager")>>,
                "site-agent")
       ELSE Skip("site-agent")

reconcileSiteAgent ==
    /\ pc = "site-agent"
    /\ IF dep.agent /\ ready["rest-api"]
       THEN Service("site-agent", <<R("ConfigMap", "site-agent"),
                                    Workload("site-agent")>>, "verdict")
       ELSE Skip("verdict")

\* Mutant: the workers do not count.
VerdictButWorkers ==
    /\ pc = "verdict" /\ NothingFound
    /\ Return(\A f \in Flags \ Workers : ready[f], FALSE, NoFlags)
    /\ UNCHANGED <<cfg, faults>> /\ UNCHANGED clusterVars

Verdict ==
    /\ pc = "verdict" /\ NothingFound
    /\ Return(\A f \in Flags : ready[f], FALSE, NoFlags)
    /\ UNCHANGED <<cfg, faults>> /\ UNCHANGED clusterVars

Reconcile ==
    \/ Start \/ Prepare \/ reconcileTemporal \/ reconcileKeycloak
    \/ reconcileTemporalSetup \/ reconcileRestAPI
    \/ reconcileWorker("cloud-worker", "site-worker")
    \/ reconcileWorker("site-worker", "site-manager")
    \/ reconcileSiteManager \/ reconcileSiteAgent \/ Verdict

-----------------------------------------------------------------------------
(***************************************************************************)
(* The cluster.                                                            *)
(***************************************************************************)
WorkloadUp(c) ==
    Exists(Workload(c))
        /\ ComesUp(Workload(c), Refs(c, objs[Workload(c)]), {})

\* The Helm Job installs the frontend and its Service; the setup Job talks
\* to the address it was given.
JobCompletes(j) ==
    IF j = HelmJob
    THEN ComesUp(j, {R("ServiceAccount", "temporal-helm-installer"),
                     R("ConfigMap", "temporal-values")},
                 {Frontend, Address("temporal-frontend")})
    ELSE ComesUp(j, {SetupAddress}, {})

FrontendUp == ComesUp(Frontend, {}, {})
KeycloakUp == ComesUp(Keycloak, {Operator}, {})

\* The day of a complete Job is over: a pass has found them complete; or the
\* Helm Job, created first, has gone first and is running again; or the
\* last pass failed at it (Refused), as all do while it is there.
Due(j) == \/ "setup" \in found
          \/ j = SetupJob /\ dep.temporal = "managed" /\ HelmJob \notin up
          \/ pc = "idle" /\ dep.strict /\ tier.error

Cluster ==
    \/ \E o \in Provided : Provide(o)
    \/ \E c \in Services : WorkloadUp(c) \/ CertIssued(c)
    \/ \E j \in Jobs : JobCompletes(j) \/ JobFails(j)
                      \/ JobExpires(j, Due(j))
    \/ \E o \in Workloads : GoesDown(o) \/ CacheCatchesUp(o)
    \/ FrontendUp \/ GoesDown(Frontend) \/ KeycloakUp

RestNext == Reconcile \/ ChangeConfig \/ Cluster

RestSpec == RestInit /\ [][RestNext]_vars

\* The controller keeps coming back, the cluster starts what can start, and
\* what others supply arrives.
Progress ==
    /\ UNCHANGED cfg /\ UNCHANGED passVars
    /\ \/ \E c \in Services :
             WorkloadUp(c) \/ CertIssued(c) \/ CacheCatchesUp(Workload(c))
       \/ FrontendUp \/ KeycloakUp
       \/ \E o \in Provided : Provide(o)

\* A Job that can run does, and one that failed is removed in the end.  No
\* complete Job has to expire; and Jobs that come back every day do not stand
\* for the progress of anything else.
JobProgress ==
    /\ UNCHANGED cfg /\ UNCHANGED passVars
    /\ \E j \in Jobs : JobCompletes(j) \/ (j \in failed /\ JobExpires(j, Due(j)))

RestFairness ==
    WF_vars(Reconcile) /\ WF_vars(Progress) /\ WF_vars(JobProgress)

RestFairSpec == RestSpec /\ RestFairness

-----------------------------------------------------------------------------
RestTypeOK ==
    /\ cfg \in Configs /\ dep \in Configs
    /\ pc \in {"idle", "prepare", "temporal", "keycloak", "setup", "verdict"}
              \cup Services
    /\ DOMAIN objs \subseteq Resources
    /\ up \subseteq DOMAIN objs /\ stale \subseteq Workloads
    /\ failed \subseteq Jobs \cap DOMAIN objs
    /\ ready \in [Flags -> BOOLEAN]
    /\ found \subseteq Flags
    /\ tier \in [ready : BOOLEAN, error : BOOLEAN, cfg : Configs]
    /\ faults \in 0 .. MaxFaults

\* What a configuration asks the tier to have.
Expected(c) ==
    IF ~c.enabled THEN {}
    ELSE {"temporal", "keycloak", "setup", "rest-api"} \cup Workers
         \cup (IF c.management THEN {"site-manager"} ELSE {})
         \cup (IF c.agent THEN {"site-agent"} ELSE {})

(***************************************************************************)
(* The tier keeps the contract the reconcile loop relies on.  In           *)
(* particular, "All REST components ready" (rest_reconciler.go:282) means  *)
(* that this very pass has found ready every component its configuration   *)
(* asks for, although the workers, the site manager and the site agent     *)
(* start out as ready and the gates skip them.                             *)
(***************************************************************************)
ExpectedOf == [c \in Configs |-> Expected(c)]

Contract == INSTANCE TierContract
              WITH Asked <- ExpectedOf, busy <- pc # "idle"

RestKeepsContract == Contract!TSpec

\* What others supply and no pass asks for: the identity of the site agent,
\* the workers' key and password, and certificates, which may be issued
\* later; the pods wait for them.
Elsewhere(c) ==
    {R("TLSSecret", c), R("ServiceAccount", "site-agent"),
     R("ClusterSPIFFEID", "site-agent"), R("Secret", "temporal-encryption-key"),
     Copied, Forge("managed")}

(***************************************************************************)
(* Whatever order configurations change and passes fail in, a workload in  *)
(* the cluster finds there all its pods refer to and the operator creates: *)
(* accounts, SPIFFE IDs, ConfigMaps, the Secret of the REST API.           *)
(***************************************************************************)
RestCreatedInOrder ==
    \A c \in Services :
        Exists(Workload(c)) =>
            Refs(c, objs[Workload(c)]) \ Elsewhere(c) \subseteq DOMAIN objs

(***************************************************************************)
(* README.md:256: "Temporal (Helm) & Keycloak -> REST API -> Workers ->    *)
(* Site Manager -> Site Agent".  A step brings the REST API, the site      *)
(* manager or the site agent into the cluster, or changes its template,    *)
(* only in a pass that has found ready what that line puts before it, the  *)
(* registered Temporal namespaces included.  The two ends of the line are  *)
(* what is checked.  Its middle is not what the code does: the workers     *)
(* wait neither for the REST API nor for Keycloak, and nothing waits for   *)
(* them.  They are held to the code's own comment, "Workers (after         *)
(* Temporal is ready)" (rest_reconciler.go:214), and the gate below it.    *)
(***************************************************************************)
After(c) == IF c \in {"site-manager", "site-agent"} THEN {"rest-api"}
            ELSE {"temporal", "setup"}
                 \cup (IF c = "rest-api" THEN {"keycloak"} ELSE {})

RestInOrder ==
    [][\A c \in Services : Changes(Workload(c)) => After(c) \subseteq found]_vars

\* Configurations with all a user has to give.
Complete(c) == \/ ~c.enabled
               \/ /\ c.db \in {"managed", "external"}
                  /\ c.temporal # "noEndpoint" /\ c.keycloak # "noProvider"

Running(S) == \A s \in S : Workload(s) \in up

(***************************************************************************)
(* docs/deployment-guide.md:361 tells users to look for RestReady: True.   *)
(* Once users leave a complete configuration alone, its services come up   *)
(* and stay up, and the tier is ready for it, again after every time the   *)
(* Jobs the verdict asks for are removed (temporal.go:116,                 *)
(* temporal_setup.go:43) and run again.                                    *)
(***************************************************************************)
RestConverges ==
    <>[][FALSE]_cfg =>
        /\ <>[](Complete(cfg) => /\ Running(Expected(cfg) \cap Services)
                                 /\ tier.cfg = cfg
                                 /\ tier.ready \/ cfg.enabled)
        /\ []<>(Complete(cfg) => tier.ready)

\* The services that come up.  On a real API server none does: the pass after
\* the one that made the setup Job fails to update it (Refused).  With
\* managed Keycloak, which is never found, only the workers do.
Reached(c) == IF c.strict THEN {}
              ELSE IF c.keycloak = "managed" THEN Expected(c) \cap Workers
              ELSE Expected(c) \cap Services

(***************************************************************************)
(* What is left of RestConverges in the code: whatever errors, half-       *)
(* finished passes, lost pods, failed Jobs and answers from an old status  *)
(* came before, the services that can be reached come up and stay up; and  *)
(* the tier is ready again and again where that is all of them, that is,   *)
(* where Keycloak is not managed and the API server takes an update of the *)
(* setup Job.  A tier that is switched off stays ready.                    *)
(***************************************************************************)
RestSettles ==
    <>[][FALSE]_cfg =>
        /\ <>[](Complete(cfg) => /\ Running(Reached(cfg)) /\ tier.cfg = cfg
                                 /\ tier.ready \/ cfg.enabled)
        /\ []<>(Complete(cfg) /\ Reached(cfg) = Expected(cfg) \cap Services
                   => tier.ready)
=============================================================================
