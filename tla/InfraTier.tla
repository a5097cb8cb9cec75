----------------------------- MODULE InfraTier -----------------------------
(***************************************************************************)
(* The infrastructure tier: InfrastructureReconciler.Reconcile             *)
(* (internal/controller/infrastructure_reconciler.go), the PostgresCluster *)
(* that internal/resources/infrastructure builds, and the operator that    *)
(* runs it.                                                                *)
(*                                                                         *)
(* A configuration keeps the profile, the mode of the database ("nil":     *)
(* Spec.Infrastructure is not set; "": no mode, which means managed;       *)
(* "noConnection": external without a connection), its databases, the      *)
(* users with a Secret in userSecrets, whether a StorageClass is named,    *)
(* and the version.                                                        *)
(***************************************************************************)
EXTENDS TierPass

Databases == {"carbide", "forge", "rla", "psm", "temporal",
              "temporal_visibility", "keycloak", "metrics"}

Config == [profile : {"management", "site", "management-with-site"},
           mode : {"nil", "", "managed", "external", "noConnection"},
           dbs : SUBSET Databases, users : SUBSET Databases,
           class : BOOLEAN, version : Nat, strict : BOOLEAN]

ASSUME ConfigsAssumption == Configs \subseteq Config /\ Configs # {}

Flags   == {"postgresql"}
NoFlags == [f \in Flags |-> FALSE]

-----------------------------------------------------------------------------
(***************************************************************************)
(* The resources.                                                          *)
(***************************************************************************)
Home    == R("Namespace", "infra")
Class   == R("StorageClass", "named")
InitMap == R("ConfigMap", "carbide-postgres-init")
Cluster == R("PostgresCluster", "carbide-postgres")
CRD     == R("CRD", "postgresclusters")
Server  == R("Address", "postgresql")

Resources ==
    [kind : {"Namespace", "StorageClass", "ConfigMap", "PostgresCluster", "CRD",
             "Address", "Secret", "UserSecret", "Login", "Database"},
     of   : Databases \cup {"infra", "named", "carbide-postgres-init",
                            "carbide-postgres", "postgresclusters",
                            "postgresql"}]

ASSUME ProvidedAssumption == Provided \subseteq Resources

\* The Secret the database operator makes for a user, the one named in
\* userSecrets, a user the external server admits, and a database.
PgUser(u)     == R("Secret", u)
UserSecret(u) == R("UserSecret", u)
Login(u)      == R("Login", u)
Database(d)   == R("Database", d)

\* Nobody but the tier makes the cluster, and nobody but the database
\* operator the databases in it.
ASSUME ClusterAssumption ==
    Cluster \notin Provided /\ \A d \in Databases : Database(d) \notin Provided

\* The webhook's list of databases where the user gives none.
DatabasesFor(profile) ==
    CASE profile = "management" ->
            {"forge", "temporal", "temporal_visibility", "keycloak"}
      [] profile = "site" -> {"carbide", "forge", "rla", "psm"}
      [] profile = "management-with-site" -> Databases \ {"metrics"}

\* The user that owns a database: as userDatabaseMapping says, or one of the
\* same name.
userDatabaseMapping ==
    [u \in {"carbide", "forge", "rla", "psm", "temporal", "keycloak"} |->
        IF u = "temporal" THEN {"temporal", "temporal_visibility"} ELSE {u}]

\* Mutant: databases nobody owns go to the superuser.
OwnerOrPostgres(d) ==
    IF \E u \in DOMAIN userDatabaseMapping : d \in userDatabaseMapping[u]
    THEN CHOOSE u \in DOMAIN userDatabaseMapping : d \in userDatabaseMapping[u]
    ELSE "postgres"

\* Mutant: every database has a user of its own name.
OwnerItself(d) == d

Owner(d) ==
    IF \E u \in DOMAIN userDatabaseMapping : d \in userDatabaseMapping[u]
    THEN CHOOSE u \in DOMAIN userDatabaseMapping : d \in userDatabaseMapping[u]
    ELSE d

Wanted(c) == IF c.dbs = {} THEN {"carbide", "forge"} ELSE c.dbs

\* Mutant: a user keeps only one of its databases.
buildPostgreSQLUsersLast(c) ==
    [u \in {Owner(d) : d \in Wanted(c)} |->
        {CHOOSE d \in Wanted(c) : Owner(d) = u}]

\* The users of the cluster, each with its databases.
buildPostgreSQLUsers(c) ==
    [u \in {Owner(d) : d \in Wanted(c)} |-> {d \in Wanted(c) : Owner(d) = u}]

Template(o) ==
    IF o = Cluster THEN [version |-> dep.version, class |-> dep.class,
                         users |-> buildPostgreSQLUsers(dep)]
    ELSE "none"

Templates(ws) == [o \in First(ws, Len(ws)) |-> Template(o)]

External(c) == c.mode \in {"external", "noConnection"}

-----------------------------------------------------------------------------
(***************************************************************************)
(* One pass.                                                               *)
(***************************************************************************)
InfraInit == InitPass(NoFlags)

Fail(ws) ==
    /\ NothingFound /\ Return(FALSE, TRUE, NoFlags) /\ UNCHANGED cfg
    /\ WritesSome(ws, {}, Templates(ws))

Stop(ws) ==
    /\ NothingFound /\ Return(FALSE, TRUE, NoFlags) /\ UNCHANGED <<cfg, faults>>
    /\ WritesAll(ws, {}, Templates(ws))

Go(ws, next) ==
    /\ pc' = next /\ UNCHANGED <<cfg, dep, tier, faults>>
    /\ WritesAll(ws, {}, Templates(ws))

Start == StartPass(TRUE)

\* Mutant: only a mode that says so is managed.
PreparationIfManaged(c) == IF c.mode = "managed" THEN <<Home, InitMap>>
                                                 ELSE <<Home>>

Preparation(c) == IF External(c) THEN <<Home>> ELSE <<Home, InitMap>>

ValidateStorageClass == dep.class => Exists(Class)

\* The namespace, the StorageClass, the ConfigMap of the init SQL.
Prepare ==
    /\ pc = "prepare"
    /\ \/ dep.mode = "nil" /\ Stop(<<>>)
       \/ dep.mode # "nil" /\ ~ValidateStorageClass /\ Stop(<<Home>>)
       \/ /\ dep.mode # "nil" /\ ValidateStorageClass
          /\ Go(Preparation(dep), "postgresql")
          /\ UNCHANGED <<ready, found>>
       \/ /\ dep.mode # "nil"
          /\ Fail(IF ValidateStorageClass THEN Preparation(dep) ELSE <<Home>>)

\* All replicas of the cluster's first instance set are ready, according to
\* its status, whatever version that is of.
IsPostgreSQLReady == Finds("postgresql", Cluster)

\* The database operator must be installed.
reconcileManagedPostgreSQL ==
    \/ ~Exists(CRD) /\ Stop(<<>>)
    \/ /\ Exists(CRD) /\ Go(<<Cluster>>, "verdict") /\ IsPostgreSQLReady
    \/ Exists(CRD) /\ Fail(<<Cluster>>)

\* All Secrets must be there; then one user, whichever comes first, tries to
\* connect.  Without Secrets the server must answer.
Connects ==
    IF dep.users = {} THEN {Exists(Server)}
    ELSE {\A v \in dep.users : Exists(UserSecret(v)) /\ Exists(Login(u)) :
             u \in dep.users}

reconcileExternalPostgreSQL ==
    \/ /\ dep.mode = "external" /\ TRUE \in Connects
       /\ Go(<<>>, "verdict") /\ Flag("postgresql", TRUE)
    \/ dep.mode = "noConnection" /\ Stop(<<>>)
    \/ dep.mode = "external" /\ FALSE \in Connects /\ Stop(<<>>)
    \/ dep.mode = "external" /\ Fail(<<>>)

reconcilePostgreSQL ==
    /\ pc = "postgresql"
    /\ IF External(dep) THEN reconcileExternalPostgreSQL
                        ELSE reconcileManagedPostgreSQL

\* Mutant: a pass without an error is ready.
VerdictAlways ==
    /\ pc = "verdict" /\ NothingFound /\ Return(TRUE, FALSE, NoFlags)
    /\ UNCHANGED <<cfg, faults>> /\ UNCHANGED clusterVars

Verdict ==
    /\ pc = "verdict" /\ NothingFound
    /\ Return(ready["postgresql"], FALSE, NoFlags)
    /\ UNCHANGED <<cfg, faults>> /\ UNCHANGED clusterVars

Reconcile == Start \/ Prepare \/ reconcilePostgreSQL \/ Verdict

-----------------------------------------------------------------------------
(***************************************************************************)
(* The database operator.  It follows the cluster's template in its own    *)
(* time, and makes users and databases whether or not all instances are up.*)
(***************************************************************************)
ClusterUp == ComesUp(Cluster, {CRD, InitMap}, {})

\* The Secrets follow the users of the template.
SecretsMade ==
    /\ Exists(Cluster)
    /\ LET users == DOMAIN objs[Cluster].users
           kept  == DOMAIN objs \ {PgUser(u) : u \in Databases}
       IN  objs' = [x \in kept \cup {PgUser(u) : u \in users} |->
                       IF Exists(x) THEN objs[x] ELSE "none"]
    /\ objs' # objs
    /\ UNCHANGED <<cfg, up, stale, failed, faults>> /\ UNCHANGED passVars

\* Databases are created and given to their users, never dropped.
DatabasesMade ==
    /\ Exists(Cluster)
    /\ LET users == objs[Cluster].users
           made  == UNION {{Database(d) : d \in users[u]} : u \in DOMAIN users}
       IN  objs' = [x \in DOMAIN objs \cup made |->
                       IF x \in made
                       THEN CHOOSE u \in DOMAIN users : x.of \in users[u]
                       ELSE objs[x]]
    /\ objs' # objs
    /\ UNCHANGED <<cfg, up, stale, failed, faults>> /\ UNCHANGED passVars

DatabaseOperator ==
    ClusterUp \/ CacheCatchesUp(Cluster) \/ SecretsMade \/ DatabasesMade

InfraNext ==
    \/ Reconcile \/ ChangeConfig \/ DatabaseOperator \/ GoesDown(Cluster)
    \/ \E o \in Provided : Provide(o)

InfraSpec == InfraInit /\ [][InfraNext]_vars

\* The controller keeps coming back, the database operator does its work,
\* and what others supply arrives.
Progress ==
    /\ UNCHANGED cfg /\ UNCHANGED passVars
    /\ DatabaseOperator \/ \E o \in Provided : Provide(o)

InfraFairness == WF_vars(Reconcile) /\ WF_vars(Progress)

InfraFairSpec == InfraSpec /\ InfraFairness

-----------------------------------------------------------------------------
InfraTypeOK ==
    /\ cfg \in Configs /\ dep \in Configs
    /\ pc \in {"idle", "prepare", "postgresql", "verdict"}
    /\ DOMAIN objs \subseteq Resources
    /\ Exists(Cluster) => DOMAIN objs[Cluster].users \subseteq Databases
    /\ up \subseteq DOMAIN objs /\ stale \subseteq {Cluster} /\ failed = {}
    /\ ready \in [Flags -> BOOLEAN] /\ found \subseteq Flags
    /\ tier \in [ready : BOOLEAN, error : BOOLEAN, cfg : Configs]
    /\ faults \in 0 .. MaxFaults

(***************************************************************************)
(* The tier keeps the contract the reconcile loop relies on: "All          *)
(* infrastructure components ready" (infrastructure_reconciler.go:104)     *)
(* means that this very pass, over the configuration it reports on, found  *)
(* the managed or the external database ready.                             *)
(***************************************************************************)
ExpectedOf == [c \in Configs |-> {"postgresql"}]

Contract == INSTANCE TierContract
              WITH Asked <- ExpectedOf, busy <- pc # "idle"

InfraKeepsContract == Contract!TSpec

(***************************************************************************)
(* "must exist before PostgresCluster CR" (infrastructure_reconciler.go:79):*)
(* whatever order modes change and passes fail in, there is no cluster     *)
(* without the ConfigMap its databaseInitSQL names.                        *)
(***************************************************************************)
InitBeforeCluster == Exists(Cluster) => Exists(Home) /\ Exists(InitMap)

(***************************************************************************)
(* "userDatabaseMapping maps user names to the databases they should own"  *)
(* (internal/resources/infrastructure/postgresql.go:36): however the list  *)
(* of databases and the mode change and whenever the database operator     *)
(* gets to a template, no database is another user's.                      *)
(***************************************************************************)
DatabasesOwned ==
    \A u \in DOMAIN userDatabaseMapping : \A d \in userDatabaseMapping[u] :
        Exists(Database(d)) => objs[Database(d)] = u

\* The users and databases the services of a profile connect with: the API,
\* RLA and PSM of a site, the REST API, the workers and Temporal of a hub.
Connections(profile) ==
    (IF profile = "management" THEN {}
     ELSE {<<"carbide", "carbide">>, <<"rla", "rla">>, <<"psm", "psm">>})
    \cup
    (IF profile = "site" THEN {}
     ELSE {<<"forge", "forge">>, <<"temporal", "temporal">>,
           <<"temporal", "temporal_visibility">>})

Open(c) == \A x \in Connections(c.profile) :
              x[2] \in c.dbs => /\ Exists(PgUser(x[1])) /\ Exists(Database(x[2]))
                                /\ objs[Database(x[2])] = x[1]

(***************************************************************************)
(* Once users leave the configuration alone, the tier becomes ready for it *)
(* and stays so, through errors, lost instances, a status of an older      *)
(* version and operators that come late; and with a managed database the   *)
(* services of the profile find a Secret, and a database that its user     *)
(* owns (docs/ARCHITECTURE.md:197).                                        *)
(***************************************************************************)
InfraConverges ==
    <>[][FALSE]_cfg =>
        <>[](cfg.mode \notin {"nil", "noConnection"} =>
                /\ tier.ready /\ tier.cfg = cfg
                /\ ~External(cfg) => Cluster \in up /\ Open(cfg))
=============================================================================
