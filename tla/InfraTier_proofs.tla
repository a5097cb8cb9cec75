-------------------------- MODULE InfraTier_proofs --------------------------
(***************************************************************************)
(* Proofs about the infrastructure tier, for every set of configurations   *)
(* and every bound on failures: it keeps the contract of a tier, its state *)
(* is well-formed, the cluster never comes before the ConfigMap of its     *)
(* init SQL, and every database belongs to the user meant to own it.       *)
(***************************************************************************)
EXTENDS InfraTier, TierPass_proofs

\* The pass ends with a status of its own copy.
Ends(r, e) ==
    /\ pc' = "idle" /\ ready' = NoFlags
    /\ cfg' = cfg /\ dep' = dep /\ found' = found
    /\ tier' = [ready |-> r, error |-> e, cfg |-> dep]

\* The pass goes on.
GoesOn(next) ==
    /\ pc' = next /\ cfg' = cfg /\ dep' = dep /\ tier' = tier

\* The pass is not involved.
Aside == UNCHANGED <<dep, pc, ready, found, tier>>

\* What is known of a pass: a database that counts as ready was found so.
PassInv ==
    /\ cfg \in Configs /\ dep \in Configs
    /\ pc \in {"idle", "prepare", "postgresql", "verdict"}
    /\ ready \in [Flags -> BOOLEAN]
    /\ pc = "verdict" /\ ready["postgresql"] => "postgresql" \in found

-----------------------------------------------------------------------------
\* A pass that ends ends as the contract says, if its verdict is earned.
LEMMA EndKeeps ==
    ASSUME PassInv, pc # "idle", NEW r \in BOOLEAN, NEW e \in BOOLEAN,
           ~(r /\ e), r => "postgresql" \in found, Ends(r, e)
    PROVE  PassInv' /\ Contract!TNext
<1>1. PassInv'
  BY DEF PassInv, Ends, NoFlags, Flags
<1>2. ExpectedOf[dep] \subseteq found \/ ~r
  BY DEF PassInv, ExpectedOf
<1>3. tier' \in {t \in Contract!Verdicts(dep, found') : ~(t.ready /\ t.error)}
  BY <1>2 DEF Ends, Contract!Verdicts
<1>4. Contract!End
  BY <1>3 DEF Ends, Contract!End
<1> QED
  BY <1>1, <1>4 DEF Contract!TNext

\* A pass that goes on finds more, or nothing.
LEMMA GoOnKeeps ==
    ASSUME PassInv, pc # "idle", NEW next \in {"postgresql", "verdict"},
           GoesOn(next), ready' \in [Flags -> BOOLEAN], found \subseteq found',
           next = "verdict" /\ ready'["postgresql"] => "postgresql" \in found'
    PROVE  PassInv' /\ Contract!TNext
<1>1. PassInv'
  BY DEF PassInv, GoesOn
<1>2. Contract!Find
  BY DEF GoesOn, Contract!Find
<1> QED
  BY <1>1, <1>2 DEF Contract!TNext

\* A step aside of the pass.
LEMMA AsideKeeps ==
    ASSUME PassInv, Aside, cfg' \in Configs
    PROVE  PassInv' /\ [Contract!TNext]_(Contract!tvars)
<1>1. PassInv'
  BY DEF PassInv, Aside
<1>2. CASE cfg' = cfg
  BY <1>1, <1>2 DEF Aside, Contract!tvars
<1>3. CASE cfg' # cfg
  <2>1. Contract!UserChanges
    BY DEF Aside, Contract!UserChanges
  <2> QED
    BY <1>1, <2>1 DEF Contract!TNext
<1> QED
  BY <1>2, <1>3

\* Fail, Stop and Go in these terms.
LEMMA FailEnds ==
    ASSUME NEW ws, Fail(ws)
    PROVE  Ends(FALSE, TRUE)
BY DEF Fail, Return, NothingFound, Ends

LEMMA StopEnds ==
    ASSUME NEW ws, Stop(ws)
    PROVE  Ends(FALSE, TRUE)
BY DEF Stop, Return, NothingFound, Ends

LEMMA GoGoesOn ==
    ASSUME NEW ws, NEW next, Go(ws, next)
    PROVE  GoesOn(next)
BY DEF Go, GoesOn

-----------------------------------------------------------------------------
LEMMA StartKeeps ==
    ASSUME PassInv, Start
    PROVE  PassInv' /\ Contract!TNext
<1>1. /\ pc = "idle" /\ pc' = "prepare" /\ dep' = cfg /\ found' = {}
      /\ ready' = ready /\ tier' = tier /\ cfg' = cfg
  BY DEF Start, StartPass
<1>2. PassInv'
  BY <1>1 DEF PassInv
<1>3. Contract!Begin
  BY <1>1 DEF Contract!Begin
<1> QED
  BY <1>2, <1>3 DEF Contract!TNext

LEMMA PrepareKeeps ==
    ASSUME PassInv, Prepare
    PROVE  PassInv' /\ Contract!TNext
<1>0. pc = "prepare" /\ pc # "idle"
  BY DEF Prepare
<1>1. CASE \E ws : Stop(ws) \/ Fail(ws)
  <2>1. Ends(FALSE, TRUE)
    BY <1>1, StopEnds, FailEnds
  <2> QED
    BY <1>0, <2>1, EndKeeps
<1>2. CASE \E ws : Go(ws, "postgresql") /\ UNCHANGED <<ready, found>>
  <2>1. GoesOn("postgresql") /\ ready' = ready /\ found' = found
    BY <1>2, GoGoesOn
  <2>2. ready' \in [Flags -> BOOLEAN]
    BY <2>1 DEF PassInv
  <2> QED
    BY <1>0, <2>1, <2>2, GoOnKeeps
<1> QED
  BY <1>1, <1>2 DEF Prepare

\* What a flag is set to is in found if it is set to true.
LEMMA FlagSound ==
    ASSUME PassInv, NEW yes \in BOOLEAN, Flag("postgresql", yes)
    PROVE  /\ ready' \in [Flags -> BOOLEAN] /\ found \subseteq found'
           /\ ready'["postgresql"] => "postgresql" \in found'
BY DEF PassInv, Flag, Flags

LEMMA FindsSound ==
    ASSUME PassInv, NEW o, Finds("postgresql", o)
    PROVE  /\ ready' \in [Flags -> BOOLEAN] /\ found \subseteq found'
           /\ ready'["postgresql"] => "postgresql" \in found'
<1>1. PICK yes \in LooksUp(o) : Flag("postgresql", yes)
  BY DEF Finds
<1>2. yes \in BOOLEAN
  BY <1>1 DEF LooksUp
<1> QED
  BY <1>1, <1>2, FlagSound

LEMMA PostgreSQLKeeps ==
    ASSUME PassInv, reconcilePostgreSQL
    PROVE  PassInv' /\ Contract!TNext
<1>0. pc = "postgresql" /\ pc # "idle"
  BY DEF reconcilePostgreSQL
<1>1. CASE \E ws : Stop(ws) \/ Fail(ws)
  <2>1. Ends(FALSE, TRUE)
    BY <1>1, StopEnds, FailEnds
  <2> QED
    BY <1>0, <2>1, EndKeeps
<1>2. CASE \E ws : Go(ws, "verdict") /\ Finds("postgresql", Cluster)
  BY <1>0, <1>2, GoGoesOn, FindsSound, GoOnKeeps
<1>3. CASE \E ws : Go(ws, "verdict") /\ Flag("postgresql", TRUE)
  BY <1>0, <1>3, GoGoesOn, FlagSound, GoOnKeeps
<1> QED
  BY <1>1, <1>2, <1>3 DEF reconcilePostgreSQL, reconcileManagedPostgreSQL,
                          reconcileExternalPostgreSQL, IsPostgreSQLReady

LEMMA VerdictKeeps ==
    ASSUME PassInv, Verdict
    PROVE  PassInv' /\ Contract!TNext
<1>1. pc = "verdict" /\ pc # "idle" /\ Ends(ready["postgresql"], FALSE)
  BY DEF Verdict, Return, NothingFound, Ends
<1>2. ready["postgresql"] \in BOOLEAN
  BY DEF PassInv, Flags
<1>3. ready["postgresql"] => "postgresql" \in found
  BY <1>1 DEF PassInv
<1> QED
  BY <1>1, <1>2, <1>3, EndKeeps

\* The database operator, other users and failures do not touch the pass.
LEMMA OthersAside ==
    ASSUME PassInv,
           \/ ChangeConfig \/ DatabaseOperator \/ GoesDown(Cluster)
           \/ \E o \in Provided : Provide(o)
    PROVE  Aside /\ cfg' \in Configs
<1>1. CASE ChangeConfig
  BY <1>1 DEF ChangeConfig, Aside, passVars, Configs
<1>2. CASE DatabaseOperator
  BY <1>2 DEF DatabaseOperator, ClusterUp, ComesUp, CacheCatchesUp, SecretsMade,
              DatabasesMade, Aside, passVars, PassInv
<1>3. CASE GoesDown(Cluster)
  BY <1>3 DEF GoesDown, Aside, passVars, PassInv
<1>4. CASE \E o \in Provided : Provide(o)
  BY <1>4 DEF Provide, Aside, passVars, PassInv
<1> QED
  BY <1>1, <1>2, <1>3, <1>4

LEMMA StepKeeps ==
    ASSUME PassInv, [InfraNext]_vars
    PROVE  PassInv' /\ [Contract!TNext]_(Contract!tvars)
<1>1. CASE Reconcile
  BY <1>1, StartKeeps, PrepareKeeps, PostgreSQLKeeps, VerdictKeeps DEF Reconcile
<1>2. CASE \/ ChangeConfig \/ DatabaseOperator \/ GoesDown(Cluster)
           \/ \E o \in Provided : Provide(o)
  BY <1>2, OthersAside, AsideKeeps
<1>3. CASE UNCHANGED vars
  <2>1. Aside /\ cfg' \in Configs
    BY <1>3 DEF vars, Aside, PassInv
  <2> QED
    BY <2>1, AsideKeeps
<1> QED
  BY <1>1, <1>2, <1>3 DEF InfraNext

LEMMA InitKeeps == InfraInit => PassInv /\ Contract!TInit
BY DEF InfraInit, InitPass, PassInv, NoFlags, Flags, Contract!TInit

(***************************************************************************)
(* The infrastructure tier keeps the contract of a tier, whatever the      *)
(* configurations, failures and the database operator do: a ready verdict  *)
(* (infrastructure_reconciler.go:104) rests on a database this very pass   *)
(* found ready.                                                            *)
(***************************************************************************)
THEOREM ContractKept == InfraSpec => InfraKeepsContract
<1>1. InfraInit => PassInv /\ Contract!TInit
  BY InitKeeps
<1>2. PassInv /\ [InfraNext]_vars => PassInv' /\ [Contract!TNext]_(Contract!tvars)
  BY StepKeeps
<1> QED
  BY <1>1, <1>2, PTL DEF InfraSpec, InfraKeepsContract, Contract!TSpec

-----------------------------------------------------------------------------
(***************************************************************************)
(* The init SQL.                                                           *)
(***************************************************************************)
\* A pass that is to write the cluster has the ConfigMap behind it.
InitInv ==
    /\ PassInv /\ InitBeforeCluster
    /\ pc = "postgresql" /\ ~External(dep) => Exists(Home) /\ Exists(InitMap)

LEMMA Distinct == /\ Cluster # Home /\ Cluster # InitMap
                  /\ \A u : /\ PgUser(u) \notin {Home, InitMap, Cluster}
                            /\ Database(u) \notin {Home, InitMap, Cluster}
BY DEF Cluster, Home, InitMap, PgUser, Database, R

\* Writes add resources.
LEMMA WritesAllAdd ==
    ASSUME NEW ws, NEW bad, NEW T, WritesAll(ws, bad, T)
    PROVE  DOMAIN objs' = DOMAIN objs \cup First(ws, Len(ws))
BY DEF WritesAll, WriteSet, Written

LEMMA FirstOfOne ==
    ASSUME NEW x, NEW k \in {0, 1}
    PROVE  /\ First(<<x>>, k) \subseteq {x} /\ First(<<x>>, Len(<<x>>)) = {x}
           /\ First(<<>>, 0) = {} /\ Len(<<>>) = 0 /\ Len(<<x>>) = 1
<1>1. Len(<<>>) = 0 /\ Len(<<x>>) = 1 /\ <<x>>[1] = x
  OBVIOUS
<1>2. 1 .. 0 = {} /\ 1 .. 1 = {1} /\ 1 .. k \subseteq {1}
  OBVIOUS
<1>3. First(<<x>>, 1) = {x}
  BY <1>1, <1>2 DEF First
<1>4. First(<<x>>, k) \subseteq {x}
  BY <1>1, <1>2 DEF First
<1>5. First(<<>>, 0) = {}
  BY <1>2 DEF First
<1> QED
  BY <1>1, <1>3, <1>4, <1>5

\* An empty list of writes.
LEMMA NoWrites ==
    ASSUME NEW bad, NEW T,
           WritesAll(<<>>, bad, T) \/ WritesSome(<<>>, bad, T)
    PROVE  DOMAIN objs' = DOMAIN objs \cup {}
<1>1. Len(<<>>) = 0 /\ First(<<>>, 0) = {}
  BY FirstOfOne
<1>2. WriteSet({}, T)
  <2>1. CASE WritesAll(<<>>, bad, T)
    BY <1>1, <2>1 DEF WritesAll
  <2>2. CASE WritesSome(<<>>, bad, T)
    <3>1. PICK k \in 0 .. 0 : WriteSet(First(<<>>, k), T)
      BY <1>1, <2>2 DEF WritesSome
    <3>2. k = 0
      BY <3>1
    <3> QED
      BY <1>1, <3>1, <3>2
  <2> QED
    BY <2>1, <2>2
<1> QED
  BY <1>2 DEF WriteSet, Written

\* A step that loses neither of the two and makes no cluster.
LEMMA NoClusterKeeps ==
    ASSUME InitInv, NEW D, DOMAIN objs' = DOMAIN objs \cup D, Cluster \notin D
    PROVE  /\ InitBeforeCluster'
           /\ Exists(Home) /\ Exists(InitMap) => Exists(Home)' /\ Exists(InitMap)'
BY DEF InitInv, InitBeforeCluster, Exists

LEMMA PrepareWrites ==
    ASSUME NEW c, NEW k, k \in 0 .. Len(Preparation(c))
    PROVE  First(Preparation(c), k) \subseteq {Home, InitMap}
<1>1. CASE External(c)
  <2>1. Preparation(c) = <<Home>>
    BY <1>1 DEF Preparation
  <2> QED
    BY <2>1 DEF First
<1>2. CASE ~External(c)
  <2>1. Preparation(c) = <<Home, InitMap>>
    BY <1>2 DEF Preparation
  <2>2. k \in 0 .. 2
    BY <2>1
  <2>3. \A i \in 1 .. k : <<Home, InitMap>>[i] \in {Home, InitMap}
    BY <2>2
  <2> QED
    BY <2>1, <2>3 DEF First
<1> QED
  BY <1>1, <1>2

LEMMA PrepareWritesAll ==
    ASSUME NEW c, ~External(c)
    PROVE  {Home, InitMap} \subseteq First(Preparation(c), Len(Preparation(c)))
<1>1. Preparation(c) = <<Home, InitMap>> /\ Len(Preparation(c)) = 2
  BY DEF Preparation
<1>2. 1 \in 1 .. 2 /\ 2 \in 1 .. 2
  OBVIOUS
<1>3. <<Home, InitMap>>[1] = Home /\ <<Home, InitMap>>[2] = InitMap
  OBVIOUS
<1> QED
  BY <1>1, <1>2, <1>3 DEF First

LEMMA PrepareInit ==
    ASSUME InitInv, Prepare
    PROVE  InitInv'
<1>0. PassInv'
  BY PrepareKeeps DEF InitInv
<1>1. CASE Stop(<<>>)
  <2>1. DOMAIN objs' = DOMAIN objs \cup {} /\ pc' = "idle"
    BY <1>1, NoWrites DEF Stop, Return
  <2> QED
    BY <1>0, <2>1, NoClusterKeeps DEF InitInv
<1>2. CASE Stop(<<Home>>)
  <2>1. DOMAIN objs' = DOMAIN objs \cup {Home} /\ pc' = "idle"
    BY <1>2, WritesAllAdd, FirstOfOne DEF Stop, Return
  <2> QED
    BY <1>0, <2>1, NoClusterKeeps, Distinct DEF InitInv
<1>3. CASE Go(Preparation(dep), "postgresql")
  <2>1. DOMAIN objs' = DOMAIN objs
                       \cup First(Preparation(dep),
                                  Len(Preparation(dep)))
    BY <1>3, WritesAllAdd DEF Go
  <2>2. pc' = "postgresql" /\ dep' = dep
    BY <1>3 DEF Go
  <2>3. Len(Preparation(dep)) \in 0 .. Len(Preparation(dep))
    BY DEF Preparation
  <2>4. InitBeforeCluster'
    BY <2>1, <2>3, PrepareWrites, NoClusterKeeps, Distinct
  <2>5. ~External(dep) => Exists(Home)' /\ Exists(InitMap)'
    BY <2>1, PrepareWritesAll DEF Exists
  <2> QED
    BY <1>0, <2>2, <2>4, <2>5 DEF InitInv, External
<1>4. CASE Fail(Preparation(dep))
  <2>1. PICK k \in 0 .. Len(Preparation(dep)) :
           DOMAIN objs' = DOMAIN objs \cup First(Preparation(dep), k)
    BY <1>4 DEF Fail, WritesSome, WriteSet, Written
  <2>2. pc' = "idle"
    BY <1>4 DEF Fail, Return
  <2> QED
    BY <1>0, <2>1, <2>2, PrepareWrites, NoClusterKeeps, Distinct DEF InitInv
<1>5. CASE Fail(<<Home>>)
  <2>1. PICK k \in 0 .. Len(<<Home>>) :
           DOMAIN objs' = DOMAIN objs \cup First(<<Home>>, k)
    BY <1>5 DEF Fail, WritesSome, WriteSet, Written
  <2>2. First(<<Home>>, k) \subseteq {Home}
    BY <2>1 DEF First
  <2>3. pc' = "idle"
    BY <1>5 DEF Fail, Return
  <2> QED
    BY <1>0, <2>1, <2>2, <2>3, NoClusterKeeps, Distinct DEF InitInv
<1> QED
  BY <1>1, <1>2, <1>3, <1>4, <1>5 DEF Prepare

LEMMA PostgreSQLInit ==
    ASSUME InitInv, reconcilePostgreSQL
    PROVE  InitInv'
<1>0. PassInv' /\ pc = "postgresql"
  BY PostgreSQLKeeps DEF InitInv, reconcilePostgreSQL
<1>1. pc' \in {"idle", "verdict"}
  BY DEF reconcilePostgreSQL, reconcileManagedPostgreSQL,
         reconcileExternalPostgreSQL, Stop, Go, Fail, Return
<1>2. CASE External(dep)
  <2>1. WritesAll(<<>>, {}, Templates(<<>>)) \/ WritesSome(<<>>, {}, Templates(<<>>))
    BY <1>2 DEF reconcilePostgreSQL, reconcileExternalPostgreSQL, Stop, Go, Fail
  <2>2. DOMAIN objs' = DOMAIN objs \cup {}
    BY <2>1, NoWrites
  <2> QED
    BY <1>0, <1>1, <2>2, NoClusterKeeps DEF InitInv
<1>3. CASE ~External(dep)
  <2>1. Exists(Home) /\ Exists(InitMap)
    BY <1>0, <1>3 DEF InitInv
  <2>2. DOMAIN objs \subseteq DOMAIN objs'
    BY <1>3 DEF reconcilePostgreSQL, reconcileManagedPostgreSQL, Stop, Go, Fail,
                WritesAll, WritesSome, WriteSet, Written
  <2> QED
    BY <1>0, <1>1, <2>1, <2>2 DEF InitInv, InitBeforeCluster, Exists
<1> QED
  BY <1>2, <1>3

\* Steps that leave the pass alone.
LEMMA OthersInit ==
    ASSUME InitInv,
           \/ ChangeConfig \/ DatabaseOperator \/ GoesDown(Cluster)
           \/ \E o \in Provided : Provide(o)
    PROVE  InitInv'
<1>0. PassInv' /\ Aside
  BY OthersAside, AsideKeeps DEF InitInv
<1>1. SUFFICES /\ InitBeforeCluster'
               /\ Exists(Home) /\ Exists(InitMap)
                     => Exists(Home)' /\ Exists(InitMap)'
  BY <1>0 DEF InitInv, Aside, External
<1>2. CASE ChangeConfig \/ GoesDown(Cluster) \/ CacheCatchesUp(Cluster)
  <2>1. objs' = objs
    BY <1>2 DEF ChangeConfig, GoesDown, CacheCatchesUp
  <2> QED
    BY <2>1 DEF InitInv, InitBeforeCluster, Exists
<1>3. CASE ClusterUp
  <2>1. DOMAIN objs' = DOMAIN objs \cup {}
    BY <1>3 DEF ClusterUp, ComesUp
  <2> QED
    BY <2>1, NoClusterKeeps
<1>4. CASE SecretsMade
  <2>1. \A o \in {Home, InitMap, Cluster} :
           o \in DOMAIN objs' <=> o \in DOMAIN objs
    BY <1>4, Distinct DEF SecretsMade
  <2> QED
    BY <2>1 DEF InitInv, InitBeforeCluster, Exists
<1>5. CASE DatabasesMade
  <2>1. \A o \in {Home, InitMap, Cluster} :
           o \in DOMAIN objs' <=> o \in DOMAIN objs
    BY <1>5, Distinct DEF DatabasesMade
  <2> QED
    BY <2>1 DEF InitInv, InitBeforeCluster, Exists
<1>6. CASE \E o \in Provided : Provide(o)
  <2>1. PICK o \in Provided : DOMAIN objs' = DOMAIN objs \cup {o}
    BY <1>6 DEF Provide
  <2> QED
    BY <2>1, NoClusterKeeps, ClusterAssumption
<1> QED
  BY <1>2, <1>3, <1>4, <1>5, <1>6 DEF DatabaseOperator

(***************************************************************************)
(* "must exist before PostgresCluster CR" (infrastructure_reconciler.go:79)*)
(* for all configurations and failures: there is never a cluster without   *)
(* the ConfigMap its databaseInitSQL names.  The invariant adds that a     *)
(* pass about to write a managed cluster has written the ConfigMap.        *)
(***************************************************************************)
THEOREM InitFirst == InfraSpec => []InitBeforeCluster
<1>1. InfraInit => InitInv
  <2>1. ASSUME InfraInit PROVE InitInv
    <3>1. PassInv /\ pc = "idle"
      BY <2>1, InitKeeps DEF InfraInit, InitPass
    <3>2. Present[cfg] \subseteq Provided
      BY <3>1, PresentAssumption DEF PassInv
    <3>3. ~Exists(Cluster)
      BY <2>1, <3>2, ClusterAssumption DEF InfraInit, InitPass, Exists
    <3> QED
      BY <3>1, <3>3 DEF InitInv, InitBeforeCluster
  <2> QED
    BY <2>1
<1>2. InitInv /\ [InfraNext]_vars => InitInv'
  <2> SUFFICES ASSUME InitInv, [InfraNext]_vars PROVE InitInv'
    OBVIOUS
  <2>1. CASE Start \/ Verdict
    <3>1. PassInv' /\ objs' = objs /\ pc' \in {"idle", "prepare"}
      BY <2>1, StartKeeps, VerdictKeeps
         DEF InitInv, Start, StartPass, Verdict, Return, clusterVars
    <3> QED
      BY <3>1 DEF InitInv, InitBeforeCluster, Exists
  <2>2. CASE UNCHANGED vars
    BY <2>2, StepKeeps DEF vars, InitInv, InitBeforeCluster, Exists, External
  <2> QED
    BY <2>1, <2>2, PrepareInit, PostgreSQLInit, OthersInit DEF InfraNext, Reconcile
<1>3. InitInv => InitBeforeCluster
  BY DEF InitInv
<1> QED
  BY <1>1, <1>2, <1>3, PTL DEF InfraSpec

-----------------------------------------------------------------------------
(***************************************************************************)
(* The users and their databases.                                          *)
(***************************************************************************)
LEMMA OwnerOfMapped ==
    ASSUME NEW u \in DOMAIN userDatabaseMapping, NEW d \in userDatabaseMapping[u]
    PROVE  Owner(d) = u /\ d \in Databases
<1>1. \A v \in DOMAIN userDatabaseMapping : d \in userDatabaseMapping[v] => v = u
  BY DEF userDatabaseMapping
<1>2. d \in Databases
  BY DEF userDatabaseMapping, Databases
<1>3. (CHOOSE v \in DOMAIN userDatabaseMapping : d \in userDatabaseMapping[v]) = u
  BY <1>1, Zenon
<1> QED
  BY <1>2, <1>3, Zenon DEF Owner

LEMMA OwnerTyped ==
    ASSUME NEW d \in Databases
    PROVE  Owner(d) \in Databases
<1>1. CASE \E u \in DOMAIN userDatabaseMapping : d \in userDatabaseMapping[u]
  <2>1. PICK u \in DOMAIN userDatabaseMapping : d \in userDatabaseMapping[u]
    BY <1>1
  <2>2. Owner(d) = u
    BY <2>1, OwnerOfMapped
  <2> QED
    BY <2>1, <2>2 DEF userDatabaseMapping, Databases
<1>2. CASE ~\E u \in DOMAIN userDatabaseMapping : d \in userDatabaseMapping[u]
  BY <1>2 DEF Owner
<1> QED
  BY <1>1, <1>2

\* What a template says: databases, each under its owner.
LEMMA UsersAre ==
    ASSUME NEW c \in Configs
    PROVE  /\ DOMAIN buildPostgreSQLUsers(c) \subseteq Databases
           /\ \A u \in DOMAIN buildPostgreSQLUsers(c) :
                 \A d \in buildPostgreSQLUsers(c)[u] : d \in Databases /\ Owner(d) = u
<1>1. Wanted(c) \subseteq Databases
  BY ConfigsAssumption DEF Config, Wanted, Databases
<1>2. \A d \in Wanted(c) : Owner(d) \in Databases
  BY <1>1, OwnerTyped
<1> QED
  BY <1>1, <1>2 DEF buildPostgreSQLUsers

\* The cluster's template is one a configuration asks for; the databases
\* belong to their owners.
OwnersInv ==
    /\ Exists(Cluster) =>
          \E c \in Configs : objs[Cluster].users = buildPostgreSQLUsers(c)
    /\ \A d \in Databases : Exists(Database(d)) => objs[Database(d)] = Owner(d)

ClusterTyped == ClusterOK(Resources, {Cluster}, {})

Parts == {Home, InitMap, Cluster}

LEMMA PartsTyped ==
    /\ Parts \subseteq Resources
    /\ \A o \in Parts : RollsOut(o) => o \in {Cluster}
    /\ \A d : Database(d) \notin Parts
<1>1. Home \in Resources /\ InitMap \in Resources /\ Cluster \in Resources
  BY DEF Home, InitMap, Cluster, R, Resources
<1>2. \A o \in Parts : RollsOut(o) => o \in {Cluster}
  BY DEF Parts, RollsOut, Home, InitMap, R
<1> QED
  BY <1>1, <1>2, Distinct DEF Parts

LEMMA RolesTyped ==
    ASSUME NEW d \in Databases
    PROVE  PgUser(d) \in Resources /\ Database(d) \in Resources
BY DEF PgUser, Database, R, Resources

\* A pass writes lists of these, or nothing.
LEMMA PassWrites ==
    ASSUME Reconcile
    PROVE  \/ UNCHANGED clusterVars /\ Steady
           \/ \E ws \in Seq(Parts) : Writes(ws, {}, Templates(ws))
<1>1. CASE Start \/ Verdict
  BY <1>1 DEF Start, StartPass, Verdict, Steady
<1>2. /\ <<>> \in Seq(Parts) /\ <<Home>> \in Seq(Parts)
      /\ <<Cluster>> \in Seq(Parts) /\ <<Home, InitMap>> \in Seq(Parts)
  BY DEF Parts
<1>3. Preparation(dep) \in Seq(Parts)
  BY <1>2 DEF Preparation
<1>4. ASSUME NEW ws, NEW next, Stop(ws) \/ Fail(ws) \/ Go(ws, next)
      PROVE  Writes(ws, {}, Templates(ws))
  BY <1>4 DEF Stop, Fail, Go, Writes, Steady
<1>5. CASE Prepare
  BY <1>2, <1>3, <1>4, <1>5 DEF Prepare
<1>6. CASE reconcilePostgreSQL
  BY <1>2, <1>4, <1>6 DEF reconcilePostgreSQL, reconcileManagedPostgreSQL,
                          reconcileExternalPostgreSQL
<1> QED
  BY <1>1, <1>5, <1>6 DEF Reconcile

LEMMA PassTyped ==
    ASSUME PassInv, ClusterTyped, OwnersInv, Reconcile
    PROVE  ClusterTyped' /\ OwnersInv'
<1>1. CASE UNCHANGED clusterVars /\ Steady
  BY <1>1, SameTyped DEF ClusterTyped, OwnersInv, clusterVars, Exists
<1>2. CASE \E ws \in Seq(Parts) : Writes(ws, {}, Templates(ws))
  <2>1. PICK ws \in Seq(Parts) : Writes(ws, {}, Templates(ws))
    BY <1>2
  <2>2. ClusterTyped'
    BY <2>1, PartsTyped, WritesTyped DEF ClusterTyped
  <2>3. PICK k \in 0 .. Len(ws) : WriteSet(First(ws, k), Templates(ws))
    BY <2>1, WritesSet
  <2>4. First(ws, k) \subseteq Parts /\ First(ws, k) \subseteq First(ws, Len(ws))
    BY <2>3 DEF First
  <2>5. ASSUME Exists(Cluster)'
        PROVE  \E c \in Configs : objs'[Cluster].users = buildPostgreSQLUsers(c)
    <3>1. CASE Cluster \in First(ws, k)
      <4>1. objs'[Cluster] = Template(Cluster)
        BY <2>3, <2>4, <3>1 DEF WriteSet, Written, Templates
      <4>2. Template(Cluster).users = buildPostgreSQLUsers(dep)
        BY DEF Template
      <4> QED
        BY <4>1, <4>2 DEF PassInv
    <3>2. CASE Cluster \notin First(ws, k)
      <4>1. Exists(Cluster) /\ objs'[Cluster] = objs[Cluster]
        BY <2>3, <2>5, <3>2 DEF WriteSet, Written, Exists
      <4> QED
        BY <4>1 DEF OwnersInv
    <3> QED
      BY <3>1, <3>2
  <2>6. ASSUME NEW d \in Databases, Exists(Database(d))'
        PROVE  objs'[Database(d)] = Owner(d)
    <3>1. Database(d) \notin First(ws, k)
      BY <2>4, PartsTyped
    <3>2. Exists(Database(d)) /\ objs'[Database(d)] = objs[Database(d)]
      BY <2>3, <2>6, <3>1 DEF WriteSet, Written, Exists
    <3> QED
      BY <3>2 DEF OwnersInv
  <2> QED
    BY <2>2, <2>5, <2>6 DEF OwnersInv
<1> QED
  BY <1>1, <1>2, PassWrites

\* The database operator makes Secrets for the users of the template.
LEMMA SecretsTyped ==
    ASSUME ClusterTyped, OwnersInv, up \subseteq {Cluster}, SecretsMade
    PROVE  ClusterTyped' /\ OwnersInv'
<1> DEFINE users == DOMAIN objs[Cluster].users
           kept  == DOMAIN objs \ {PgUser(u) : u \in Databases}
           made  == {PgUser(u) : u \in users}
<1>1. objs' = [x \in kept \cup made |-> IF Exists(x) THEN objs[x] ELSE "none"]
  BY DEF SecretsMade
<1>2. PICK c \in Configs : objs[Cluster].users = buildPostgreSQLUsers(c)
  BY DEF SecretsMade, OwnersInv
<1>3. users \subseteq Databases
  BY <1>2, UsersAre
<1>4. made \subseteq Resources
  BY <1>3, RolesTyped
<1>5. Cluster \in kept /\ Cluster \in DOMAIN objs'
  BY <1>1, Distinct DEF SecretsMade, Exists
<1>6. DOMAIN objs' \subseteq Resources
  BY <1>1, <1>4 DEF ClusterTyped, ClusterOK
<1>7. ClusterTyped'
  BY <1>5, <1>6 DEF SecretsMade, ClusterTyped, ClusterOK
<1>8. \A d : Database(d) \notin made
  BY DEF PgUser, Database, R
<1>9. \A x \in DOMAIN objs' \ made : Exists(x) /\ objs'[x] = objs[x]
  BY <1>1 DEF Exists
<1>10. Cluster \notin made
  BY Distinct
<1> HIDE DEF users, kept, made
<1> QED
  BY <1>5, <1>7, <1>8, <1>9, <1>10 DEF OwnersInv, Exists

\* It gives a database to the one user whose list has it.
LEMMA DatabasesTyped ==
    ASSUME ClusterTyped, OwnersInv, DatabasesMade
    PROVE  ClusterTyped' /\ OwnersInv'
<1> DEFINE users == objs[Cluster].users
           made  == UNION {{Database(d) : d \in users[u]} : u \in DOMAIN users}
           User(x) == CHOOSE u \in DOMAIN users : x.of \in users[u]
<1>1. objs' = [x \in DOMAIN objs \cup made |->
                  IF x \in made THEN User(x) ELSE objs[x]]
  BY DEF DatabasesMade
<1>2. PICK c \in Configs : users = buildPostgreSQLUsers(c)
  BY DEF DatabasesMade, OwnersInv
<1>3. \A u \in DOMAIN users : \A d \in users[u] : d \in Databases /\ Owner(d) = u
  BY <1>2, UsersAre
<1>4. made \subseteq Resources
  BY <1>3, RolesTyped
<1>5. Cluster \notin made
  BY Distinct
<1>6. \A d : Database(d).of = d
  BY DEF Database, R
<1>7. ASSUME NEW d, Database(d) \in made
      PROVE  User(Database(d)) = Owner(d)
  <2>0. PICK u \in DOMAIN users : \E e \in users[u] : Database(d) = Database(e)
    BY <1>7
  <2>1. PICK e \in users[u] : Database(d) = Database(e)
    BY <2>0
  <2>2. d = e
    BY <1>6, <2>1
  <2>3. Database(d).of = d /\ d \in users[u] /\ Owner(d) = u
    BY <1>3, <1>6, <2>1, <2>2
  <2>4. \A v \in DOMAIN users : Database(d).of \in users[v] => v = u
    BY <1>3, <2>3
  <2> QED
    BY <2>0, <2>3, <2>4, Zenon
<1>8. ClusterTyped'
  BY <1>1, <1>4 DEF DatabasesMade, ClusterTyped, ClusterOK
<1>9. Exists(Cluster) /\ objs'[Cluster] = objs[Cluster]
  BY <1>1, <1>5 DEF DatabasesMade, Exists
<1>10. ASSUME NEW d \in Databases, Exists(Database(d))'
       PROVE  objs'[Database(d)] = Owner(d)
  <2>1. CASE Database(d) \in made
    BY <1>1, <1>7, <2>1
  <2>2. CASE Database(d) \notin made
    BY <1>1, <1>10, <2>2 DEF OwnersInv, Exists
  <2> QED
    BY <2>1, <2>2
<1> HIDE DEF made, User
<1> QED
  BY <1>8, <1>9, <1>10 DEF OwnersInv

LEMMA OthersTyped ==
    ASSUME ClusterTyped, OwnersInv, up \subseteq {Cluster},
           \/ ChangeConfig \/ DatabaseOperator \/ GoesDown(Cluster)
           \/ \E o \in Provided : Provide(o)
    PROVE  ClusterTyped' /\ OwnersInv'
<1>1. CASE ChangeConfig
  BY <1>1, SameTyped DEF ChangeConfig, clusterVars, Steady, ClusterTyped,
                         OwnersInv, Exists
<1>2. CASE GoesDown(Cluster)
  BY <1>2, GoesDownTyped DEF GoesDown, ClusterTyped, OwnersInv, Exists
<1>3. CASE CacheCatchesUp(Cluster)
  BY <1>3, CacheTyped DEF CacheCatchesUp, ClusterTyped, OwnersInv, Exists
<1>4. CASE ClusterUp
  <2>1. ClusterTyped'
    BY <1>4, ComesUpTyped DEF ClusterUp, ClusterTyped
  <2>2. DOMAIN objs' = DOMAIN objs /\ \A x \in DOMAIN objs : objs'[x] = objs[x]
    BY <1>4 DEF ClusterUp, ComesUp, Exists
  <2> QED
    BY <2>1, <2>2 DEF OwnersInv, Exists
<1>5. CASE \E o \in Provided : Provide(o)
  <2>1. PICK o \in Provided : Provide(o)
    BY <1>5
  <2>2. ClusterTyped'
    BY <2>1, ProvideTyped, ProvidedAssumption DEF ClusterTyped
  <2>3. /\ o # Cluster /\ \A d \in Databases : o # Database(d)
        /\ DOMAIN objs' = DOMAIN objs \cup {o}
        /\ \A x \in DOMAIN objs \ {o} : objs'[x] = objs[x]
    BY <2>1, ClusterAssumption DEF Provide
  <2> QED
    BY <2>2, <2>3 DEF OwnersInv, Exists
<1> QED
  BY <1>1, <1>2, <1>3, <1>4, <1>5, SecretsTyped, DatabasesTyped DEF DatabaseOperator

\* Only the cluster ever comes up.
LEMMA UpStays ==
    ASSUME up \subseteq {Cluster}, [InfraNext]_vars
    PROVE  up' \subseteq {Cluster}
<1>1. CASE Reconcile
  <2>1. up' \subseteq up
    <3>1. CASE UNCHANGED clusterVars
      BY <3>1 DEF clusterVars
    <3>2. CASE \E ws \in Seq(Parts) : Writes(ws, {}, Templates(ws))
      <4>1. PICK ws \in Seq(Parts) : Writes(ws, {}, Templates(ws))
        BY <3>2
      <4>2. PICK k \in 0 .. Len(ws) : WriteSet(First(ws, k), Templates(ws))
        BY <4>1, WritesSet
      <4> QED
        BY <4>2 DEF WriteSet
    <3> QED
      BY <1>1, <3>1, <3>2, PassWrites
  <2> QED
    BY <2>1
<1> QED
  BY <1>1 DEF InfraNext, ChangeConfig, DatabaseOperator, ClusterUp, ComesUp,
              CacheCatchesUp, SecretsMade, DatabasesMade, GoesDown, Provide, vars

VerdictTyped ==
    found \subseteq Flags /\ tier \in [ready : BOOLEAN, error : BOOLEAN, cfg : Configs]

LEMMA VerdictStep ==
    ASSUME PassInv, VerdictTyped, [InfraNext]_vars
    PROVE  VerdictTyped'
<1>1. CASE Start
  BY <1>1 DEF Start, StartPass, VerdictTyped
<1>2. CASE \E r, e \in BOOLEAN : Ends(r, e)
  BY <1>2 DEF Ends, VerdictTyped, PassInv
<1>3. CASE Aside \/ UNCHANGED vars
  BY <1>3 DEF Aside, vars, VerdictTyped
<1>4. CASE \E next : GoesOn(next) /\ found' \subseteq found \cup Flags
  BY <1>4 DEF GoesOn, VerdictTyped
<1>5. ASSUME NEW yes, Flag("postgresql", yes)
      PROVE  found' \subseteq found \cup Flags
  BY <1>5 DEF Flag, Flags
<1>6. ASSUME Finds("postgresql", Cluster)
      PROVE  found' \subseteq found \cup Flags
  BY <1>5, <1>6 DEF Finds
<1>7. ASSUME Prepare
      PROVE  (\E ws : Stop(ws) \/ Fail(ws)) \/ (\E ws, next : Go(ws, next) /\ found' = found)
  BY <1>7 DEF Prepare
<1>8. ASSUME reconcilePostgreSQL
      PROVE  \/ \E ws : Stop(ws) \/ Fail(ws)
             \/ \E ws, next : Go(ws, next) /\ found' \subseteq found \cup Flags
  BY <1>5, <1>6, <1>8 DEF reconcilePostgreSQL, reconcileManagedPostgreSQL,
                          reconcileExternalPostgreSQL, IsPostgreSQLReady
<1>9. CASE Prepare \/ reconcilePostgreSQL
  BY <1>2, <1>4, <1>7, <1>8, <1>9, StopEnds, FailEnds, GoGoesOn
<1>10. CASE Verdict
  <2>1. ready["postgresql"] \in BOOLEAN /\ Ends(ready["postgresql"], FALSE)
    BY <1>10 DEF Verdict, Return, NothingFound, Ends, PassInv, Flags
  <2> QED
    BY <1>2, <2>1
<1> QED
  BY <1>1, <1>3, <1>9, <1>10, OthersAside DEF InfraNext, Reconcile

TypeInv == /\ PassInv /\ ClusterTyped /\ OwnersInv /\ VerdictTyped
           /\ up \subseteq {Cluster}

LEMMA TypeInit == InfraInit => TypeInv
<1> SUFFICES ASSUME InfraInit PROVE TypeInv
  OBVIOUS
<1>1. PassInv
  BY InitKeeps
<1>2. ClusterTyped /\ DOMAIN objs \subseteq Provided
  BY InitTyped, ProvidedAssumption DEF InfraInit, ClusterTyped
<1>3. OwnersInv
  BY <1>2, ClusterAssumption DEF OwnersInv, Exists
<1>4. VerdictTyped /\ up = {}
  BY DEF InfraInit, InitPass, VerdictTyped
<1> QED
  BY <1>1, <1>2, <1>3, <1>4 DEF TypeInv

LEMMA TypeStep ==
    ASSUME TypeInv, [InfraNext]_vars
    PROVE  TypeInv'
<1>1. PassInv' /\ VerdictTyped' /\ up' \subseteq {Cluster}
  BY StepKeeps, VerdictStep, UpStays DEF TypeInv
<1>2. ClusterTyped' /\ OwnersInv'
  <2>1. CASE UNCHANGED vars
    BY <2>1, SameTyped DEF vars, clusterVars, Steady, TypeInv, ClusterTyped,
                           OwnersInv, Exists
  <2> QED
    BY <2>1, PassTyped, OthersTyped DEF TypeInv, InfraNext
<1> QED
  BY <1>1, <1>2 DEF TypeInv

(***************************************************************************)
(* The type invariant for all configurations, provided resources and       *)
(* bounds: what the passes and the database operator put into the cluster  *)
(* is of the tier's kinds, and the users a template asks for               *)
(* (postgresql.go:239-261) are names of databases.  The invariant adds     *)
(* that the template is that of a configuration.                           *)
(***************************************************************************)
THEOREM TypeCorrect == InfraSpec => []InfraTypeOK
<1>1. InfraInit => TypeInv
  BY TypeInit
<1>2. TypeInv /\ [InfraNext]_vars => TypeInv'
  BY TypeStep
<1>3. TypeInv => InfraTypeOK
  <2> SUFFICES ASSUME TypeInv PROVE InfraTypeOK
    OBVIOUS
  <2>1. Exists(Cluster) => DOMAIN objs[Cluster].users \subseteq Databases
    BY UsersAre DEF TypeInv, OwnersInv
  <2> QED
    BY <2>1 DEF TypeInv, PassInv, ClusterTyped, ClusterOK, VerdictTyped, InfraTypeOK
<1> QED
  BY <1>1, <1>2, <1>3, PTL DEF InfraSpec

(***************************************************************************)
(* "userDatabaseMapping maps user names to the databases they should own"  *)
(* (postgresql.go:36) for all configurations and all ways they change: the *)
(* databases the operator made belong to the mapped user.  It rests on the *)
(* mapping naming every database once, so that the lists of the users in a *)
(* template are disjoint.                                                  *)
(***************************************************************************)
THEOREM Owned == InfraSpec => []DatabasesOwned
<1>1. InfraInit => TypeInv
  BY TypeInit
<1>2. TypeInv /\ [InfraNext]_vars => TypeInv'
  BY TypeStep
<1>3. TypeInv => DatabasesOwned
  BY OwnerOfMapped DEF TypeInv, OwnersInv, DatabasesOwned
<1> QED
  BY <1>1, <1>2, <1>3, PTL DEF InfraSpec
=============================================================================
