-------------------------- MODULE RestTier_proofs --------------------------
(***************************************************************************)
(* The REST tier keeps the contract of a tier, and rolls its services out  *)
(* in order, for every set of configurations and every bound on failures.  *)
(***************************************************************************)
EXTENDS RestTier, TierPass_proofs

Sites == {"site-manager", "site-agent"}

Stages == {"idle", "prepare", "temporal", "keycloak", "setup", "rest-api",
           "cloud-worker", "site-worker", "site-manager", "site-agent", "verdict"}

Following(c) ==
    IF c = "temporal" THEN "keycloak" ELSE IF c = "keycloak" THEN "setup"
    ELSE IF c = "setup" THEN "rest-api" ELSE IF c = "rest-api" THEN "cloud-worker"
    ELSE IF c = "cloud-worker" THEN "site-worker"
    ELSE IF c = "site-worker" THEN "site-manager"
    ELSE IF c = "site-manager" THEN "site-agent" ELSE "verdict"

\* The services whose flag may be up for no reason while the pass is still
\* to come to them.
Pending(p) ==
    IF p \in {"rest-api", "cloud-worker"} THEN Workers \cup Sites
    ELSE IF p = "site-worker" THEN {"site-worker"} \cup Sites
    ELSE IF p = "site-manager" THEN Sites
    ELSE IF p = "site-agent" THEN {"site-agent"}
    ELSE {}

\* The pass may call a component ready: it found it so, or nobody asks for
\* it, or a flag that is down holds the verdict back.
Earned(f) == \/ f \in found \/ f \notin Expected(dep)
             \/ f \in Workers /\ ~ready["setup"]
             \/ f \in Sites /\ ~ready["rest-api"]

Sound(f) == ready[f] => Earned(f)

PassInv ==
    /\ cfg \in Configs /\ dep \in Configs /\ pc \in Stages
    /\ ready \in [Flags -> BOOLEAN]
    /\ pc \in {"idle", "prepare"} => ready = NoFlags
    /\ \A f \in Flags \ Pending(pc) : Sound(f)

\* The pass ends with a status of its own copy; it goes on; it goes on and
\* settles a component; it is not involved.
Ends(r, e) ==
    /\ pc' = "idle" /\ ready' = NoFlags
    /\ cfg' = cfg /\ dep' = dep /\ found' = found
    /\ tier' = [ready |-> r, error |-> e, cfg |-> dep]

GoesOn(next) == /\ pc' = next /\ cfg' = cfg /\ dep' = dep /\ tier' = tier

Settles(c) ==
    /\ GoesOn(Following(c))
    /\ \E yes \in BOOLEAN :
          /\ ready' = [ready EXCEPT ![c] = yes]
          /\ yes => c \in found' \/ Earned(c)
    /\ found \subseteq found'

Aside == UNCHANGED <<dep, pc, ready, found, tier>>

-----------------------------------------------------------------------------
\* What a configuration asks for has a flag.
LEMMA ExpectedFlags ==
    ASSUME NEW c \in Configs
    PROVE  Expected(c) \subseteq Flags
BY DEF Expected, Flags, Services, Workers

LEMMA PendingNext ==
    ASSUME NEW c \in Flags
    PROVE  /\ Pending(c) \ {c} \subseteq Pending(Following(c))
           /\ c \in {"setup", "rest-api"} =>
                 Pending(Following(c)) = Workers \cup Sites
           /\ c \in Stages /\ c \notin {"idle", "prepare", "verdict"}
           /\ Following(c) \in Stages \ {"idle", "prepare"}
BY DEF Pending, Following, Flags, Stages, Services, Workers, Sites

\* A pass that is not under way owes nothing.
LEMMA FreshIsSound ==
    ASSUME ready = NoFlags
    PROVE  \A f \in Flags : Sound(f)
BY DEF NoFlags, Flags, Services, Workers, Sites, Sound, Earned

\* A pass that ends ends as the contract says, if its verdict is earned.
LEMMA EndKeeps ==
    ASSUME PassInv, pc # "idle", NEW r \in BOOLEAN, NEW e \in BOOLEAN,
           ~(r /\ e), r => Expected(dep) \subseteq found, Ends(r, e)
    PROVE  PassInv' /\ Contract!TNext
<1>1. PassInv'
  <2>1. \A f \in Flags : Sound(f)'
    BY DEF Ends, NoFlags, Flags, Services, Workers, Sites, Sound, Earned
  <2>2. NoFlags \in [Flags -> BOOLEAN]
    BY DEF NoFlags
  <2> QED
    BY <2>1, <2>2 DEF PassInv, Ends, Stages
<1>2. ExpectedOf[dep] \subseteq found \/ ~r
  BY DEF PassInv, ExpectedOf
<1>3. tier' \in {t \in Contract!Verdicts(dep, found') : ~(t.ready /\ t.error)}
  BY <1>2 DEF Ends, Contract!Verdicts
<1>4. Contract!End
  BY <1>3 DEF Ends, Contract!End
<1> QED
  BY <1>1, <1>4 DEF Contract!TNext

LEMMA SettleKeeps ==
    ASSUME PassInv, NEW c \in Flags, pc = c, Settles(c)
    PROVE  PassInv' /\ Contract!TNext
<1>1. PICK yes \in BOOLEAN : /\ ready' = [ready EXCEPT ![c] = yes]
                             /\ yes => c \in found' \/ Earned(c)
  BY DEF Settles
<1>2. /\ pc' = Following(c) /\ cfg' = cfg /\ dep' = dep /\ tier' = tier
      /\ found \subseteq found'
  BY DEF Settles, GoesOn
<1>3. ready' \in [Flags -> BOOLEAN] /\ ready'[c] = yes
      /\ \A f \in Flags \ {c} : ready'[f] = ready[f]
  BY <1>1 DEF PassInv
<1>4. "setup" \in Flags /\ "rest-api" \in Flags
  BY DEF Flags, Services
<1>5. ASSUME NEW f \in Flags \ Pending(pc') PROVE Sound(f)'
  <2>1. /\ f \in Workers => c # "setup"
        /\ f \in Sites => c # "rest-api"
    BY <1>2, PendingNext
  <2>2. /\ f \in Workers => ready'["setup"] = ready["setup"]
        /\ f \in Sites => ready'["rest-api"] = ready["rest-api"]
    BY <1>3, <1>4, <2>1
  <2>3. Earned(f) => Earned(f)'
    BY <1>2, <2>2 DEF Earned
  <2>4. CASE f = c
    <3>1. f \in found' => Earned(f)'
      BY DEF Earned
    <3> QED
      BY <1>1, <1>3, <2>3, <2>4, <3>1 DEF Sound
  <2>5. CASE f # c
    <3>1. f \in Flags \ Pending(c)
      BY <1>2, <2>5, PendingNext
    <3>2. Sound(f)
      BY <3>1 DEF PassInv
    <3>3. ready'[f] = ready[f]
      BY <1>3, <2>5
    <3> QED
      BY <2>3, <3>2, <3>3 DEF Sound
  <2> QED
    BY <2>4, <2>5
<1>6. PassInv'
  <2>1. cfg' \in Configs /\ dep' \in Configs /\ pc' \in Stages \ {"idle", "prepare"}
    BY <1>2, PendingNext DEF PassInv
  <2> QED
    BY <1>3, <1>5, <2>1 DEF PassInv
<1>7. Contract!Find
  <2>1. pc # "idle" /\ pc' # "idle"
    BY <1>2, PendingNext
  <2> QED
    BY <1>2, <2>1 DEF Contract!Find
<1> QED
  BY <1>6, <1>7 DEF Contract!TNext

LEMMA AsideKeeps ==
    ASSUME PassInv, Aside, cfg' \in Configs
    PROVE  PassInv' /\ [Contract!TNext]_(Contract!tvars)
<1>1. PassInv'
  BY DEF PassInv, Aside, Sound, Earned
<1>2. CASE cfg' = cfg
  BY <1>1, <1>2 DEF Aside, Contract!tvars
<1>3. CASE cfg' # cfg
  <2>1. Contract!UserChanges
    BY DEF Aside, Contract!UserChanges
  <2> QED
    BY <1>1, <2>1 DEF Contract!TNext
<1> QED
  BY <1>2, <1>3

-----------------------------------------------------------------------------
(***************************************************************************)
(* The building blocks of the actions.                                     *)
(***************************************************************************)
LEMMA FailEnds ==
    ASSUME NEW ws, Fail(ws)
    PROVE  Ends(FALSE, TRUE)
BY DEF Fail, Return, NothingFound, Ends

LEMMA StopEnds ==
    ASSUME NEW ws, NEW error, Stop(ws, error)
    PROVE  Ends(FALSE, error)
BY DEF Stop, Return, NothingFound, Ends

LEMMA GoGoesOn ==
    ASSUME NEW ws, NEW next, Go(ws, next)
    PROVE  GoesOn(next)
BY DEF Go, GoesOn

LEMMA FlagSettles ==
    ASSUME NEW c, NEW yes \in BOOLEAN, NEW ws, Flag(c, yes), Go(ws, Following(c))
    PROVE  Settles(c)
BY GoGoesOn DEF Flag, Settles

LEMMA ServiceSettles ==
    ASSUME NEW c, NEW ws, Service(c, ws, Following(c))
    PROVE  Ends(FALSE, TRUE) \/ Settles(c)
<1>1. CASE Fail(ws)
  BY <1>1, FailEnds
<1>2. CASE Go(ws, Following(c)) /\ Finds(c, Workload(c))
  <2>1. PICK yes \in LooksUp(Workload(c)) : Flag(c, yes)
    BY <1>2 DEF Finds
  <2>2. yes \in BOOLEAN
    BY <2>1 DEF LooksUp
  <2> QED
    BY <1>2, <2>1, <2>2, FlagSettles
<1> QED
  BY <1>1, <1>2 DEF Service

LEMMA SkipSettles ==
    ASSUME PassInv, NEW c \in Flags, Skip(Following(c)), Sound(c)
    PROVE  Settles(c)
<1>1. GoesOn(Following(c)) /\ ready' = ready /\ found' = found
  BY GoGoesOn DEF Skip, KeepFlags
<1>2. ready' = [ready EXCEPT ![c] = ready[c]] /\ ready[c] \in BOOLEAN
  BY <1>1 DEF PassInv
<1> QED
  BY <1>1, <1>2 DEF Settles, Sound

\* A stage that settles a component or ends the pass with an error.
LEMMA StageKeeps ==
    ASSUME PassInv, NEW c \in Flags, pc = c, Ends(FALSE, TRUE) \/ Settles(c)
    PROVE  PassInv' /\ Contract!TNext
<1>1. pc # "idle"
  BY PendingNext
<1> QED
  BY <1>1, EndKeeps, SettleKeeps

-----------------------------------------------------------------------------
LEMMA StartKeeps ==
    ASSUME PassInv, Start
    PROVE  PassInv' /\ Contract!TNext
<1>1. /\ pc = "idle" /\ dep' = cfg /\ found' = {}
      /\ ready' = ready /\ cfg' = cfg /\ ready = NoFlags
  BY DEF Start, StartPass, PassInv
<1>2. \A f \in Flags : Sound(f)'
  BY <1>1 DEF NoFlags, Flags, Services, Workers, Sites, Sound, Earned
<1>3. CASE cfg.enabled
  <2>1. pc' = "prepare" /\ tier' = tier
    BY <1>3 DEF Start, StartPass
  <2>2. PassInv'
    BY <1>1, <1>2, <2>1 DEF PassInv, Stages
  <2>3. Contract!Begin
    BY <1>1, <2>1 DEF Contract!Begin
  <2> QED
    BY <2>2, <2>3 DEF Contract!TNext
<1>4. CASE ~cfg.enabled
  <2>1. pc' = "idle" /\ tier' = [ready |-> TRUE, error |-> FALSE, cfg |-> cfg]
    BY <1>4 DEF Start, StartPass
  <2>2. PassInv'
    BY <1>1, <1>2, <2>1 DEF PassInv, Stages
  <2>3. ExpectedOf[cfg] = {}
    BY <1>4 DEF ExpectedOf, Expected, PassInv
  <2>4. Contract!NothingToDo
    BY <1>1, <2>1, <2>3 DEF Contract!NothingToDo
  <2> QED
    BY <2>2, <2>4 DEF Contract!TNext
<1> QED
  BY <1>3, <1>4

LEMMA PrepareKeeps ==
    ASSUME PassInv, Prepare
    PROVE  PassInv' /\ Contract!TNext
<1>0. pc = "prepare"
  BY DEF Prepare
<1>1. CASE Ends(FALSE, TRUE) \/ Ends(FALSE, FALSE)
  BY <1>0, <1>1, EndKeeps
<1>2. CASE \E ws : Go(ws, "temporal") /\ KeepFlags
  <2>1. GoesOn("temporal") /\ ready' = ready /\ found' = found
    BY <1>2, GoGoesOn DEF KeepFlags
  <2>2. \A f \in Flags : Sound(f)
    BY <1>0, FreshIsSound DEF PassInv
  <2>3. \A f \in Flags : Sound(f)'
    BY <2>1, <2>2 DEF GoesOn, Sound, Earned
  <2>4. PassInv'
    BY <2>1, <2>3 DEF GoesOn, PassInv, Stages
  <2>5. Contract!Find
    BY <1>0, <2>1 DEF GoesOn, Contract!Find
  <2> QED
    BY <2>4, <2>5 DEF Contract!TNext
<1>3. CASE \E ws : Stop(ws, TRUE) \/ Stop(ws, FALSE) \/ Fail(ws)
  BY <1>1, <1>3, StopEnds, FailEnds
<1>4. CASE NothingFound /\ Return(FALSE, FALSE, NoFlags) /\ UNCHANGED cfg
  BY <1>1, <1>4 DEF NothingFound, Return, Ends
<1> QED
  BY <1>2, <1>3, <1>4 DEF Prepare

LEMMA TemporalKeeps ==
    ASSUME PassInv, reconcileTemporal
    PROVE  PassInv' /\ Contract!TNext
<1>1. Following("temporal") = "keycloak" /\ "temporal" \in Flags /\ pc = "temporal"
  BY DEF Following, Flags, reconcileTemporal
<1>2. \/ \E ws : Fail(ws) \/ Stop(ws, TRUE)
      \/ \E ws, yes : yes \in BOOLEAN /\ Go(ws, "keycloak") /\ Flag("temporal", yes)
  <2>1. CASE ManagedTemporal
    <3>1. ({HelmJob, Frontend} \subseteq up) \in BOOLEAN
      OBVIOUS
    <3> QED
      BY <2>1, <3>1 DEF ManagedTemporal
  <2>2. CASE ExternalTemporal
    BY <2>2 DEF ExternalTemporal
  <2> QED
    BY <2>1, <2>2 DEF reconcileTemporal
<1>3. Ends(FALSE, TRUE) \/ Settles("temporal")
  BY <1>1, <1>2, FailEnds, StopEnds, FlagSettles
<1> QED
  BY <1>1, <1>3, StageKeeps

LEMMA KeycloakKeeps ==
    ASSUME PassInv, reconcileKeycloak
    PROVE  PassInv' /\ Contract!TNext
<1>1. Following("keycloak") = "setup" /\ "keycloak" \in Flags /\ pc = "keycloak"
  BY DEF Following, Flags, reconcileKeycloak
<1>2. \/ \E ws : Fail(ws) \/ Stop(ws, TRUE)
      \/ \E ws, yes : yes \in BOOLEAN /\ Go(ws, "setup") /\ Flag("keycloak", yes)
  <2>1. CASE ManagedKeycloak
    <3>1. (LookedFor \in up) \in BOOLEAN
      OBVIOUS
    <3> QED
      BY <2>1, <3>1 DEF ManagedKeycloak
  <2>2. CASE ExternalKeycloak
    BY <2>2 DEF ExternalKeycloak
  <2>3. CASE Go(<<>>, "setup") /\ Flag("keycloak", TRUE)
    BY <2>3
  <2> QED
    BY <2>1, <2>2, <2>3 DEF reconcileKeycloak
<1>3. Ends(FALSE, TRUE) \/ Settles("keycloak")
  BY <1>1, <1>2, FailEnds, StopEnds, FlagSettles
<1> QED
  BY <1>1, <1>3, StageKeeps

LEMMA SetupKeeps ==
    ASSUME PassInv, reconcileTemporalSetup
    PROVE  PassInv' /\ Contract!TNext
<1>1. Following("setup") = "rest-api" /\ "setup" \in Flags /\ pc = "setup"
  BY DEF Following, Flags, reconcileTemporalSetup
<1>2. CASE \E ws : Go(ws, "verdict") /\ KeepFlags
  <2>1. GoesOn("verdict") /\ ready' = ready /\ found' = found
    BY <1>2, GoGoesOn DEF KeepFlags
  <2>2. \A f \in Flags : Sound(f)
    BY <1>1 DEF PassInv, Pending
  <2>3. \A f \in Flags : Sound(f)'
    BY <2>1, <2>2 DEF GoesOn, Sound, Earned
  <2>4. PassInv'
    BY <2>1, <2>3 DEF GoesOn, PassInv, Stages
  <2>5. Contract!Find
    BY <1>1, <2>1 DEF GoesOn, Contract!Find
  <2> QED
    BY <2>4, <2>5 DEF Contract!TNext
<1>3. CASE \/ \E ws : Fail(ws) \/ Stop(ws, TRUE)
           \/ Go(<<SetupJob>>, "rest-api") /\ Flag("setup", SetupJob \in up)
  <2>1. (SetupJob \in up) \in BOOLEAN
    OBVIOUS
  <2>2. Ends(FALSE, TRUE) \/ Settles("setup")
    BY <1>1, <1>3, <2>1, FailEnds, StopEnds, FlagSettles
  <2> QED
    BY <1>1, <2>2, StageKeeps
<1> QED
  BY <1>2, <1>3 DEF reconcileTemporalSetup

LEMMA RestAPIKeeps ==
    ASSUME PassInv, reconcileRestAPI
    PROVE  PassInv' /\ Contract!TNext
<1>1. /\ Following("rest-api") = "cloud-worker" /\ pc = "rest-api"
      /\ "rest-api" \in Flags \ Pending("rest-api")
  BY DEF Following, Flags, Services, reconcileRestAPI, Pending, Workers, Sites
<1>2. Sound("rest-api")
  BY <1>1 DEF PassInv
<1>3. Ends(FALSE, TRUE) \/ Settles("rest-api")
  BY <1>1, <1>2, ServiceSettles, SkipSettles DEF reconcileRestAPI
<1> QED
  BY <1>1, <1>3, StageKeeps

LEMMA WorkerKeeps ==
    ASSUME PassInv, NEW w \in Workers, reconcileWorker(w, Following(w))
    PROVE  PassInv' /\ Contract!TNext
<1>1. pc = w /\ w \in Flags
  BY DEF reconcileWorker, Flags, Services
<1>2. ~ready["setup"] => Sound(w)
  BY DEF Sound, Earned
<1>3. Ends(FALSE, TRUE) \/ Settles(w)
  BY <1>1, <1>2, ServiceSettles, SkipSettles DEF reconcileWorker
<1> QED
  BY <1>1, <1>3, StageKeeps

LEMMA SiteManagerKeeps ==
    ASSUME PassInv, reconcileSiteManager
    PROVE  PassInv' /\ Contract!TNext
<1>1. /\ Following("site-manager") = "site-agent" /\ pc = "site-manager"
      /\ "site-manager" \in Flags
  BY DEF Following, Flags, Services, reconcileSiteManager
<1>2. ~(dep.management /\ ready["rest-api"]) => Sound("site-manager")
  BY DEF Sound, Earned, Expected, Sites, Workers
<1>3. Ends(FALSE, TRUE) \/ Settles("site-manager")
  BY <1>1, <1>2, ServiceSettles, SkipSettles DEF reconcileSiteManager
<1> QED
  BY <1>1, <1>3, StageKeeps

LEMMA SiteAgentKeeps ==
    ASSUME PassInv, reconcileSiteAgent
    PROVE  PassInv' /\ Contract!TNext
<1>1. /\ Following("site-agent") = "verdict" /\ pc = "site-agent"
      /\ "site-agent" \in Flags
  BY DEF Following, Flags, Services, reconcileSiteAgent
<1>2. ~(dep.agent /\ ready["rest-api"]) => Sound("site-agent")
  BY DEF Sound, Earned, Expected, Sites, Workers
<1>3. Ends(FALSE, TRUE) \/ Settles("site-agent")
  BY <1>1, <1>2, ServiceSettles, SkipSettles DEF reconcileSiteAgent
<1> QED
  BY <1>1, <1>3, StageKeeps

LEMMA VerdictKeeps ==
    ASSUME PassInv, Verdict
    PROVE  PassInv' /\ Contract!TNext
<1>1. pc = "verdict" /\ pc # "idle"
  BY DEF Verdict
<1>2. Ends(\A f \in Flags : ready[f], FALSE)
  BY DEF Verdict, Return, NothingFound, Ends
<1>3. (\A f \in Flags : ready[f]) => Expected(dep) \subseteq found
  <2> SUFFICES ASSUME \A f \in Flags : ready[f], NEW c \in Expected(dep)
               PROVE  c \in found
    OBVIOUS
  <2>1. c \in Flags /\ "setup" \in Flags /\ "rest-api" \in Flags
    BY ExpectedFlags DEF PassInv, Flags, Services
  <2>2. Sound(c)
    BY <1>1, <2>1 DEF PassInv, Pending
  <2> QED
    BY <2>1, <2>2 DEF Sound, Earned
<1>4. (\A f \in Flags : ready[f]) \in BOOLEAN
  OBVIOUS
<1> QED
  BY <1>1, <1>2, <1>3, <1>4, EndKeeps

-----------------------------------------------------------------------------
LEMMA ClusterAside ==
    ASSUME PassInv, Cluster \/ ChangeConfig
    PROVE  Aside /\ cfg' \in Configs
<1>1. CASE ChangeConfig
  BY <1>1 DEF ChangeConfig, Aside, passVars, Configs
<1>2. CASE Cluster
  <2>1. UNCHANGED cfg /\ UNCHANGED passVars
    BY <1>2 DEF Cluster, Provide, WorkloadUp, CertIssued, JobCompletes, ComesUp,
                JobFails, JobExpires, GoesDown, CacheCatchesUp, FrontendUp,
                KeycloakUp
  <2> QED
    BY <2>1 DEF Aside, passVars, PassInv
<1> QED
  BY <1>1, <1>2

LEMMA StepKeeps ==
    ASSUME PassInv, [RestNext]_vars
    PROVE  PassInv' /\ [Contract!TNext]_(Contract!tvars)
<1>1. CASE Reconcile
  <2>1. /\ Following("cloud-worker") = "site-worker" /\ "cloud-worker" \in Workers
        /\ Following("site-worker") = "site-manager" /\ "site-worker" \in Workers
    BY DEF Following, Workers
  <2> QED
    BY <1>1, <2>1, StartKeeps, PrepareKeeps, TemporalKeeps, KeycloakKeeps,
       SetupKeeps, RestAPIKeeps, WorkerKeeps, SiteManagerKeeps, SiteAgentKeeps,
       VerdictKeeps DEF Reconcile
<1>2. CASE Cluster \/ ChangeConfig
  BY <1>2, ClusterAside, AsideKeeps
<1>3. CASE UNCHANGED vars
  <2>1. Aside /\ cfg' \in Configs
    BY <1>3 DEF vars, Aside, PassInv
  <2> QED
    BY <2>1, AsideKeeps
<1> QED
  BY <1>1, <1>2, <1>3 DEF RestNext

LEMMA InitKeeps == RestInit => PassInv /\ Contract!TInit
<1> SUFFICES ASSUME RestInit PROVE PassInv /\ Contract!TInit
  OBVIOUS
<1>1. /\ cfg \in Configs /\ dep = cfg /\ pc = "idle" /\ found = {}
      /\ ready = NoFlags /\ tier = [ready |-> FALSE, error |-> FALSE, cfg |-> cfg]
  BY DEF RestInit, InitPass
<1>2. ready \in [Flags -> BOOLEAN]
  BY <1>1 DEF NoFlags
<1> QED
  BY <1>1, <1>2, FreshIsSound DEF PassInv, Stages, Contract!TInit

(***************************************************************************)
(* The REST tier keeps the contract of a tier.  In particular "All REST    *)
(* components ready" (rest_reconciler.go:282) is only said of services     *)
(* this very pass looked at, although the workers, the site manager and    *)
(* the site agent start out as ready: the invariant is that a flag the     *)
(* pass has gone by without earning it is held back by the flag of the     *)
(* Temporal namespaces or of the REST API, which is down.                  *)
(***************************************************************************)
THEOREM ContractKept == RestSpec => RestKeepsContract
<1>1. RestInit => PassInv /\ Contract!TInit
  BY InitKeeps
<1>2. PassInv /\ [RestNext]_vars => PassInv' /\ [Contract!TNext]_(Contract!tvars)
  BY StepKeeps
<1> QED
  BY <1>1, <1>2, PTL DEF RestSpec, RestKeepsContract, Contract!TSpec

-----------------------------------------------------------------------------
(***************************************************************************)
(* The order of the services.                                              *)
(***************************************************************************)
\* Resources that are no workload of the tier.
QuietKinds == {"ServiceAccount", "ConfigMap", "ClusterSPIFFEID", "Certificate",
               "Secret", "Service", "Role", "RoleBinding", "Job", "Keycloak",
               "KeycloakRealmImport"}
QuietNames == Flags \cup {"spiffe-helper", "workflow", "temporal-values",
                          "temporal-helm", "temporal-namespace-init"}
Quiet == {R(k, c) : k \in QuietKinds, c \in QuietNames}

Later == {"rest-api", "cloud-worker", "site-worker", "site-manager", "site-agent"}

\* A pass that has come to the services has found Temporal ready, and a pass
\* is only made where the tier is enabled.
OrderInv ==
    /\ PassInv
    /\ pc # "idle" => dep.enabled
    /\ pc \in Later => ready["temporal"]

LEMMA QuietNotWorkload ==
    ASSUME NEW o \in Quiet, NEW c
    PROVE  o # Workload(c)
BY DEF Quiet, QuietKinds, Workload, R

LEMMA EachQuiet ==
    ASSUME NEW k \in QuietKinds, NEW ns \in Seq(QuietNames)
    PROVE  Each(k, ns) \in Seq(Quiet)
<1>1. \A i \in DOMAIN ns : R(k, ns[i]) \in Quiet
  BY DEF Quiet
<1>2. DOMAIN ns = 1 .. Len(ns) /\ Len(ns) \in Nat
  OBVIOUS
<1>3. [i \in 1 .. Len(ns) |-> R(k, ns[i])] \in Seq(Quiet)
  BY <1>1, <1>2
<1> QED
  BY <1>2, <1>3 DEF Each

LEMMA QuietConcat ==
    ASSUME NEW s \in Seq(Quiet), NEW t \in Seq(Quiet)
    PROVE  s \o t \in Seq(Quiet)
OBVIOUS

LEMMA AccountsNames ==
    /\ Accounts \in Seq(QuietNames)
    /\ Accounts \o <<"temporal", "site-manager">> \in Seq(QuietNames)
    /\ Append(Accounts, "site-manager") \in Seq(QuietNames)
<1>1. Accounts \in Seq(QuietNames)
  BY DEF Accounts, QuietNames, Flags, Services, Workers
<1>2. <<"temporal", "site-manager">> \in Seq(QuietNames)
      /\ "site-manager" \in QuietNames
  BY DEF QuietNames, Flags, Services
<1>3. \A s, t \in Seq(QuietNames) : s \o t \in Seq(QuietNames)
  OBVIOUS
<1>4. \A s \in Seq(QuietNames), x \in QuietNames : Append(s, x) \in Seq(QuietNames)
  OBVIOUS
<1> QED
  BY <1>1, <1>2, <1>3, <1>4

LEMMA PreparationQuiet ==
    ASSUME NEW c \in Configs
    PROVE  Identities[c] \in Seq(Quiet) /\ Preparation[c] \in Seq(Quiet)
<1>1. c.tls \in {"nil", "spiffe", "certManager"}
  BY ConfigsAssumption DEF Config
<1>2. /\ R("ConfigMap", "spiffe-helper") \in Quiet
      /\ R("Secret", "rest-api") \in Quiet /\ R("ConfigMap", "workflow") \in Quiet
  BY DEF Quiet, QuietKinds, QuietNames, Flags, Services
<1>3. /\ Each("ServiceAccount", Accounts) \in Seq(Quiet)
      /\ Each("ClusterSPIFFEID", Accounts \o <<"temporal", "site-manager">>)
            \in Seq(Quiet)
      /\ Each("Certificate", Append(Accounts, "site-manager")) \in Seq(Quiet)
  BY AccountsNames, EachQuiet DEF QuietKinds
<1>4. /\ <<R("ConfigMap", "spiffe-helper")>> \in Seq(Quiet) /\ <<>> \in Seq(Quiet)
      /\ <<R("Secret", "rest-api"), R("ConfigMap", "workflow")>> \in Seq(Quiet)
  BY <1>2
<1>5. <<R("ConfigMap", "spiffe-helper")>>
        \o Each("ClusterSPIFFEID", Accounts \o <<"temporal", "site-manager">>)
      \in Seq(Quiet)
  BY <1>3, <1>4, QuietConcat
<1>6. TLSResources(c) \in Seq(Quiet)
  BY <1>1, <1>3, <1>4, <1>5, Zenon DEF TLSResources
<1>7. Each("ServiceAccount", Accounts) \o TLSResources(c) \in Seq(Quiet)
  BY <1>3, <1>6, QuietConcat
<1>8. Identities[c] \in Seq(Quiet)
  BY <1>7 DEF Identities
<1>9. Identities[c] \o <<R("Secret", "rest-api"), R("ConfigMap", "workflow")>>
        \in Seq(Quiet)
  BY <1>4, <1>8, QuietConcat
<1> QED
  BY <1>8, <1>9 DEF Preparation

-----------------------------------------------------------------------------
(***************************************************************************)
(* What a pass writes, stage by stage.                                     *)
(***************************************************************************)
\* The list of a service, in its order.
ListOf(c) ==
    IF c = "rest-api"
    THEN <<R("ConfigMap", "rest-api"), Workload("rest-api"),
           R("Service", "rest-api")>>
    ELSE IF c = "site-manager"
    THEN <<R("ServiceAccount", "site-manager"), R("Role", "site-manager"),
           R("RoleBinding", "site-manager"), Workload("site-manager"),
           R("Service", "site-manager")>>
    ELSE IF c = "site-agent"
    THEN <<R("ConfigMap", "site-agent"), Workload("site-agent")>>
    ELSE <<Workload(c)>>

\* A pass that rolls out a service has what the service asks for.
Gate(c) == IF c = "rest-api" THEN ready["keycloak"] /\ ready["setup"]
           ELSE IF c \in Workers THEN ready["setup"]
           ELSE ready["rest-api"]

RollsHere == /\ pc \in Services /\ Gate(pc)
             /\ Writes(ListOf(pc), {}, Templates(ListOf(pc)))

QuietHere == \E ws \in Seq(Quiet) : Writes(ws, {}, Templates(ws))

Idles == UNCHANGED clusterVars /\ Steady

\* What Fail, Stop and Go write.
LEMMA ListWrites ==
    ASSUME NEW ws, NEW next, NEW e, Fail(ws) \/ Stop(ws, e) \/ Go(ws, next)
    PROVE  Writes(ws, {}, Templates(ws))
BY DEF Fail, Stop, Go, Writes, Steady

LEMMA QuietWrites ==
    ASSUME NEW ws \in Seq(Quiet), NEW next, NEW e,
           Fail(ws) \/ Stop(ws, e) \/ Go(ws, next)
    PROVE  QuietHere
BY ListWrites DEF QuietHere

LEMMA NothingQuiet == <<>> \in Seq(Quiet)
OBVIOUS

LEMMA PrepareWrites ==
    ASSUME PassInv, Prepare
    PROVE  QuietHere
<1>1. Preparation[dep] \in Seq(Quiet) /\ Identities[dep] \in Seq(Quiet)
  BY PreparationQuiet DEF PassInv
<1>2. CASE \E ws \in {Preparation[dep], Identities[dep], <<>>} :
         \E next, e : Fail(ws) \/ Stop(ws, e) \/ Go(ws, next)
  BY <1>1, <1>2, NothingQuiet, QuietWrites
<1>3. CASE UseFault /\ WritesAll(Identities[dep], {}, Templates(Identities[dep]))
  BY <1>1, <1>3 DEF QuietHere, Writes, Steady
<1> QED
  BY <1>2, <1>3 DEF Prepare

LEMMA TemporalWrites ==
    ASSUME reconcileTemporal
    PROVE  QuietHere
<1> DEFINE ws == <<R("ConfigMap", "temporal-values"), HelmJob>>
<1>1. ws \in Seq(Quiet)
  <2>1. R("ConfigMap", "temporal-values") \in Quiet /\ HelmJob \in Quiet
    BY DEF HelmJob, Quiet, QuietKinds, QuietNames
  <2> QED
    BY <2>1
<1>2. CASE ManagedTemporal
  <2>1. \E next, e : Fail(ws) \/ Stop(ws, e) \/ Go(ws, next)
    BY <1>2 DEF ManagedTemporal
  <2> HIDE DEF ws
  <2> QED
    BY <1>1, <2>1, QuietWrites
<1>3. CASE ExternalTemporal
  <2>1. \E next, e : Fail(<<>>) \/ Stop(<<>>, e) \/ Go(<<>>, next)
    BY <1>3 DEF ExternalTemporal
  <2> QED
    BY <2>1, NothingQuiet, QuietWrites
<1> QED
  BY <1>2, <1>3 DEF reconcileTemporal

LEMMA KeycloakWrites ==
    ASSUME reconcileKeycloak
    PROVE  QuietHere
<1> DEFINE ws == <<Keycloak, R("KeycloakRealmImport", "keycloak")>>
<1>1. ws \in Seq(Quiet)
  <2>1. R("KeycloakRealmImport", "keycloak") \in Quiet /\ Keycloak \in Quiet
    BY DEF Keycloak, Quiet, QuietKinds, QuietNames, Flags
  <2> QED
    BY <2>1
<1>2. CASE ManagedKeycloak
  <2>1. \E next, e : \/ Fail(ws) \/ Stop(ws, e) \/ Go(ws, next)
                     \/ Stop(<<>>, e)
    BY <1>2 DEF ManagedKeycloak
  <2> HIDE DEF ws
  <2> QED
    BY <1>1, <2>1, NothingQuiet, QuietWrites
<1>3. CASE ExternalKeycloak
  <2>1. \E next, e : Fail(<<>>) \/ Stop(<<>>, e) \/ Go(<<>>, next)
    BY <1>3 DEF ExternalKeycloak
  <2> QED
    BY <2>1, NothingQuiet, QuietWrites
<1>4. CASE Go(<<>>, "setup")
  BY <1>4, NothingQuiet, QuietWrites
<1> QED
  BY <1>2, <1>3, <1>4 DEF reconcileKeycloak

LEMMA SetupWrites ==
    ASSUME reconcileTemporalSetup
    PROVE  QuietHere
<1>1. <<SetupJob>> \in Seq(Quiet)
  <2>1. SetupJob \in Quiet
    BY DEF SetupJob, Quiet, QuietKinds, QuietNames
  <2> QED
    BY <2>1
<1>2. \E next, e : \/ Fail(<<SetupJob>>) \/ Stop(<<SetupJob>>, e)
                   \/ Go(<<SetupJob>>, next) \/ Go(<<>>, next)
  BY DEF reconcileTemporalSetup
<1> QED
  BY <1>1, <1>2, NothingQuiet, QuietWrites

LEMMA SkipWrites ==
    ASSUME NEW next, Skip(next)
    PROVE  QuietHere
BY NothingQuiet, QuietWrites DEF Skip

LEMMA ServiceWrites ==
    ASSUME NEW c \in Services, NEW next, pc = c, Gate(c),
           Service(c, ListOf(c), next)
    PROVE  RollsHere
<1>1. \E n, e : Fail(ListOf(c)) \/ Stop(ListOf(c), e) \/ Go(ListOf(c), n)
  BY DEF Service
<1> QED
  BY <1>1, ListWrites DEF RollsHere

LEMMA WorkerWrites ==
    ASSUME NEW w \in Workers, NEW next, reconcileWorker(w, next)
    PROVE  RollsHere \/ QuietHere
<1>1. w \in Services /\ pc = w /\ ListOf(w) = <<Workload(w)>>
      /\ (ready["setup"] => Gate(w))
  BY DEF Services, ListOf, Workers, Gate, reconcileWorker
<1> QED
  BY <1>1, ServiceWrites, SkipWrites DEF reconcileWorker

LEMMA RolloutWrites ==
    ASSUME reconcileRestAPI \/ reconcileSiteManager \/ reconcileSiteAgent
    PROVE  RollsHere \/ QuietHere
<1>1. CASE reconcileRestAPI
  <2>1. /\ "rest-api" \in Services /\ pc = "rest-api"
        /\ ListOf("rest-api") = <<R("ConfigMap", "rest-api"), Workload("rest-api"),
                                  R("Service", "rest-api")>>
        /\ ready["keycloak"] /\ ready["setup"] => Gate("rest-api")
    BY <1>1 DEF Services, ListOf, Gate, reconcileRestAPI
  <2> QED
    BY <1>1, <2>1, ServiceWrites, SkipWrites DEF reconcileRestAPI
<1>2. CASE reconcileSiteManager
  <2>1. /\ "site-manager" \in Services /\ pc = "site-manager"
        /\ ListOf("site-manager") =
              <<R("ServiceAccount", "site-manager"), R("Role", "site-manager"),
                R("RoleBinding", "site-manager"), Workload("site-manager"),
                R("Service", "site-manager")>>
        /\ ready["rest-api"] => Gate("site-manager")
    BY <1>2 DEF Services, ListOf, Gate, Workers, reconcileSiteManager
  <2> QED
    BY <1>2, <2>1, ServiceWrites, SkipWrites DEF reconcileSiteManager
<1>3. CASE reconcileSiteAgent
  <2>1. /\ "site-agent" \in Services /\ pc = "site-agent"
        /\ ListOf("site-agent") = <<R("ConfigMap", "site-agent"),
                                    Workload("site-agent")>>
        /\ ready["rest-api"] => Gate("site-agent")
    BY <1>3 DEF Services, ListOf, Gate, Workers, reconcileSiteAgent
  <2> QED
    BY <1>3, <2>1, ServiceWrites, SkipWrites DEF reconcileSiteAgent
<1> QED
  BY <1>1, <1>2, <1>3

LEMMA StageWrites ==
    ASSUME PassInv, Reconcile
    PROVE  RollsHere \/ QuietHere \/ Idles
<1>1. CASE Start \/ Verdict
  BY <1>1 DEF Start, StartPass, Verdict, Idles, Steady
<1>2. CASE \/ reconcileWorker("cloud-worker", "site-worker")
           \/ reconcileWorker("site-worker", "site-manager")
  BY <1>2, WorkerWrites DEF Workers
<1> QED
  BY <1>1, <1>2, PrepareWrites, TemporalWrites, KeycloakWrites, SetupWrites,
     RolloutWrites DEF Reconcile

\* A service's list has one workload, its own.
LEMMA ListTyped ==
    ASSUME NEW c \in Services
    PROVE  ListOf(c) \in Seq(Quiet \cup {Workload(c)})
<1>1. /\ R("ConfigMap", "rest-api") \in Quiet /\ R("Service", "rest-api") \in Quiet
      /\ R("ServiceAccount", "site-manager") \in Quiet
      /\ R("Role", "site-manager") \in Quiet
      /\ R("RoleBinding", "site-manager") \in Quiet
      /\ R("Service", "site-manager") \in Quiet
      /\ R("ConfigMap", "site-agent") \in Quiet
  BY DEF Quiet, QuietKinds, QuietNames, Flags, Services
<1>2. CASE c = "rest-api"
  BY <1>1, <1>2 DEF ListOf
<1>3. CASE c = "site-manager"
  BY <1>1, <1>3 DEF ListOf
<1>4. CASE c = "site-agent"
  BY <1>1, <1>4 DEF ListOf
<1>5. CASE c \notin {"rest-api", "site-manager", "site-agent"}
  BY <1>5 DEF ListOf
<1> QED
  BY <1>2, <1>3, <1>4, <1>5

\* The cluster makes none of the tier's workloads.
LEMMA ClusterTouches ==
    ASSUME Cluster, NEW c \in Services
    PROVE  ~Changes(Workload(c))
<1>1. Workload(c) \notin Provided
  BY OwnAssumption DEF Workloads
<1>2. /\ Workload(c) # Frontend /\ Workload(c) # Address("temporal-frontend")
      /\ \A x : R("TLSSecret", x) # Workload(c)
  BY DEF Workload, Frontend, Address, R, Services, Workers
<1>3. CASE \E x \in Provided : Provide(x)
  BY <1>1, <1>3 DEF Provide, Changes, Exists
<1>4. CASE \E x \in Services : WorkloadUp(x) \/ CertIssued(x)
  BY <1>2, <1>4 DEF WorkloadUp, ComesUp, CertIssued, Changes, Exists
<1>5. CASE \E j \in Jobs : JobCompletes(j)
  BY <1>2, <1>5 DEF JobCompletes, ComesUp, Changes, Exists
<1>6. CASE \E j \in Jobs : JobFails(j) \/ JobExpires(j, Due(j))
  BY <1>6 DEF JobFails, JobExpires, Changes, Exists
<1>7. CASE \/ \E x \in Workloads : GoesDown(x) \/ CacheCatchesUp(x)
           \/ GoesDown(Frontend)
  BY <1>7, NoChange DEF GoesDown, CacheCatchesUp
<1>8. CASE FrontendUp \/ KeycloakUp
  BY <1>8 DEF FrontendUp, KeycloakUp, ComesUp, Changes, Exists
<1> QED
  BY <1>3, <1>4, <1>5, <1>6, <1>7, <1>8 DEF Cluster

\* Only the pass writes workloads, at their stage.
LEMMA WhoWrites ==
    ASSUME PassInv, [RestNext]_vars, NEW c \in Services, Changes(Workload(c))
    PROVE  /\ pc = c /\ RollsHere /\ objs'[Workload(c)] = Template(Workload(c))
           /\ DOMAIN objs \subseteq DOMAIN objs'
<1>1. CASE ChangeConfig \/ UNCHANGED vars
  BY <1>1, NoChange DEF ChangeConfig, vars
<1>2. CASE Reconcile
  <2>1. ~Idles
    BY NoChange DEF Idles, clusterVars
  <2>2. ~QuietHere
    BY WritesTouch, QuietNotWorkload DEF QuietHere
  <2>3. RollsHere
    BY <1>2, <2>1, <2>2, StageWrites
  <2>4. ListOf(pc) \in Seq(Quiet \cup {Workload(pc)})
    BY <2>3, ListTyped DEF RollsHere
  <2>5. /\ Workload(c) \in Whole(ListOf(pc))
        /\ Workload(c) \in Quiet \cup {Workload(pc)}
        /\ objs'[Workload(c)] = Templates(ListOf(pc))[Workload(c)]
        /\ DOMAIN objs \subseteq DOMAIN objs'
    BY <2>3, <2>4, WritesTouch, WritesGrow DEF RollsHere
  <2>6. Workload(c) = Workload(pc)
    BY <2>5, QuietNotWorkload
  <2> QED
    BY <2>3, <2>5, <2>6 DEF Workload, R, Templates, Whole
<1> QED
  BY <1>1, <1>2, ClusterTouches DEF RestNext

-----------------------------------------------------------------------------
\* A component with its flag up was found ready in this pass.
LEMMA FlagFound ==
    ASSUME OrderInv, pc \in Later,
           NEW f \in {"temporal", "keycloak", "setup", "rest-api"}, ready[f],
           f = "rest-api" => pc # "rest-api"
    PROVE  f \in found
<1>1. f \in Flags \ Pending(pc)
  BY DEF Flags, Services, Pending, Workers, Sites
<1>2. Sound(f)
  BY <1>1 DEF OrderInv, PassInv
<1>3. dep.enabled
  BY DEF OrderInv, Later
<1>4. f \in Expected(dep)
  BY <1>3 DEF Expected
<1>5. f \notin Workers /\ f \notin Sites
  BY DEF Workers, Sites
<1> QED
  BY <1>2, <1>4, <1>5 DEF Sound, Earned

LEMMA StepInOrder ==
    ASSUME OrderInv, [RestNext]_vars, NEW c \in Services, Changes(Workload(c))
    PROVE  After(c) \subseteq found
<1>1. pc = c /\ Gate(c) /\ pc \in Later
  BY WhoWrites DEF OrderInv, RollsHere, Later, Services, Workers
<1>2. ready["temporal"]
  BY <1>1 DEF OrderInv
<1>3. CASE c = "rest-api"
  <2>1. ready["keycloak"] /\ ready["setup"]
    BY <1>1, <1>3 DEF Gate
  <2> QED
    BY <1>1, <1>2, <1>3, <2>1, FlagFound DEF After
<1>4. CASE c \in Workers
  <2>1. ready["setup"] /\ c \notin {"rest-api", "site-manager", "site-agent"}
    BY <1>1, <1>4 DEF Gate, Workers
  <2> QED
    BY <1>1, <1>2, <2>1, FlagFound DEF After
<1>5. CASE c \in {"site-manager", "site-agent"}
  <2>1. ready["rest-api"]
    BY <1>1, <1>5 DEF Gate, Workers
  <2> QED
    BY <1>1, <1>5, <2>1, FlagFound DEF After
<1> QED
  BY <1>3, <1>4, <1>5 DEF Services

-----------------------------------------------------------------------------
\* A pass keeps its copy, and only finds components.
SamePass == dep' = dep /\ found' \subseteq found \cup Flags

LEMMA PassGoesOn ==
    ASSUME Reconcile, ~Start
    PROVE  SamePass /\ pc # "idle"
<1>0. Services \subseteq Flags /\ {"temporal", "keycloak", "setup"} \subseteq Flags
  BY DEF Flags
<1>1. \A ws, e : Fail(ws) \/ Stop(ws, e) => SamePass
  BY DEF SamePass, Fail, Stop, Return, NothingFound
<1>2. \A ws, next : Go(ws, next) => dep' = dep
  BY DEF Go
<1>3. \A f \in Flags : \A yes : Flag(f, yes) => found' \subseteq found \cup Flags
  BY DEF Flag
<1>4. KeepFlags \/ NothingFound => found' \subseteq found \cup Flags
  BY DEF KeepFlags, NothingFound
<1>5. \A c \in Flags : \A ws, next : Service(c, ws, next) => SamePass
  BY <1>1, <1>2, <1>3 DEF Service, Finds, SamePass
<1>6. \A next : Skip(next) => SamePass
  BY <1>2, <1>4 DEF Skip, SamePass
<1>7. CASE Prepare \/ Verdict
  BY <1>1, <1>2, <1>4, <1>7 DEF Prepare, Verdict, Return, SamePass
<1>8. CASE reconcileTemporal
  BY <1>0, <1>1, <1>2, <1>3, <1>8 DEF reconcileTemporal, ManagedTemporal,
     ExternalTemporal, SamePass
<1>9. CASE reconcileKeycloak
  BY <1>0, <1>1, <1>2, <1>3, <1>9 DEF reconcileKeycloak, ManagedKeycloak,
     ExternalKeycloak, SamePass
<1>10. CASE reconcileTemporalSetup
  BY <1>0, <1>1, <1>2, <1>3, <1>4, <1>10 DEF reconcileTemporalSetup, SamePass
<1>11. CASE \/ reconcileRestAPI \/ reconcileSiteManager \/ reconcileSiteAgent
            \/ reconcileWorker("cloud-worker", "site-worker")
            \/ reconcileWorker("site-worker", "site-manager")
  BY <1>0, <1>5, <1>6, <1>11 DEF reconcileRestAPI, reconcileWorker,
     reconcileSiteManager, reconcileSiteAgent, Services, Workers
<1> QED
  BY <1>7, <1>8, <1>9, <1>10, <1>11 DEF Reconcile

\* A service's step ends the pass or leaves the flag of Temporal alone.
LEMMA ServiceKeepsTemporal ==
    ASSUME NEW c \in Services, NEW ws, NEW next, PassInv,
           Service(c, ws, next) \/ Skip(next)
    PROVE  pc' = "idle" \/ ready'["temporal"] = ready["temporal"]
<1>1. "temporal" \in Flags /\ c # "temporal" /\ ready \in [Flags -> BOOLEAN]
  BY DEF Flags, Services, Workers, PassInv
<1> QED
  BY <1>1 DEF Service, Skip, Fail, Return, Finds, Flag, KeepFlags

\* Temporal's readiness is the only way to the services.
LEMMA OnlyGate ==
    ASSUME OrderInv, Reconcile, ~Start, pc' \in Later
    PROVE  ready'["temporal"]
<1>1. CASE Prepare \/ Verdict \/ reconcileTemporal \/ reconcileKeycloak
  <2>1. pc' \in {"idle", "temporal", "keycloak", "setup"}
    BY <1>1 DEF Prepare, Verdict, reconcileTemporal, ManagedTemporal,
       ExternalTemporal, reconcileKeycloak, ManagedKeycloak, ExternalKeycloak,
       Fail, Stop, Go, Return
  <2> QED
    BY <2>1 DEF Later
<1>2. CASE reconcileTemporalSetup
  <2>1. ready["temporal"] /\ Flag("setup", SetupJob \in up)
    BY <1>2 DEF reconcileTemporalSetup, Fail, Stop, Go, Return, Later
  <2>2. "temporal" \in Flags /\ ready \in [Flags -> BOOLEAN]
    BY DEF Flags, OrderInv, PassInv
  <2> QED
    BY <2>1, <2>2 DEF Flag
<1>3. CASE \/ reconcileRestAPI \/ reconcileSiteManager \/ reconcileSiteAgent
           \/ reconcileWorker("cloud-worker", "site-worker")
           \/ reconcileWorker("site-worker", "site-manager")
  <2>1. pc \in Later /\ PassInv
    BY <1>3 DEF reconcileRestAPI, reconcileWorker, reconcileSiteManager,
       reconcileSiteAgent, Later, OrderInv
  <2>2. \E c \in Services : \E ws, next : Service(c, ws, next) \/ Skip(next)
    BY <1>3 DEF reconcileRestAPI, reconcileWorker, reconcileSiteManager,
       reconcileSiteAgent, Services, Workers
  <2>3. ready'["temporal"] = ready["temporal"]
    BY <2>1, <2>2, ServiceKeepsTemporal DEF Later
  <2> QED
    BY <2>1, <2>3 DEF OrderInv
<1> QED
  BY <1>1, <1>2, <1>3 DEF Reconcile

LEMMA OrderStep ==
    ASSUME OrderInv, [RestNext]_vars
    PROVE  OrderInv'
<1>0. PassInv'
  BY StepKeeps DEF OrderInv
<1>1. CASE Start
  <2>1. pc' \in {"idle", "prepare"} /\ dep' = cfg
        /\ (pc' = "prepare" => cfg.enabled)
    BY <1>1 DEF Start, StartPass
  <2> QED
    BY <1>0, <2>1 DEF OrderInv, Later
<1>2. CASE Reconcile /\ ~Start
  BY <1>0, <1>2, PassGoesOn, OnlyGate DEF OrderInv, SamePass
<1>3. CASE Cluster \/ ChangeConfig \/ UNCHANGED vars
  <2>1. dep' = dep /\ pc' = pc /\ ready' = ready
    BY <1>3, ClusterAside DEF Aside, vars, OrderInv
  <2> QED
    BY <1>0, <2>1 DEF OrderInv
<1> QED
  BY <1>1, <1>2, <1>3 DEF RestNext

(***************************************************************************)
(* README.md:256 for all configurations and failures: the REST API is      *)
(* written, or changed, only by a pass that found Temporal, its namespaces *)
(* and Keycloak ready, the workers only by one that found Temporal and its *)
(* namespaces, site manager and site agent only by one that found the REST *)
(* API.  The invariant adds that only a pass that found Temporal ready     *)
(* comes to the services.                                                  *)
(***************************************************************************)
THEOREM InOrder == RestSpec => RestInOrder
<1>1. RestInit => OrderInv
  BY InitKeeps DEF OrderInv, RestInit, InitPass, Later
<1>2. OrderInv /\ [RestNext]_vars => OrderInv'
  BY OrderStep
<1>3. OrderInv /\ [RestNext]_vars =>
        [\A c \in Services : Changes(Workload(c)) => After(c) \subseteq found]_vars
  BY StepInOrder
<1> QED
  BY <1>1, <1>2, <1>3, PTL DEF RestSpec, RestInOrder

-----------------------------------------------------------------------------
(***************************************************************************)
(* What the steps do to the cluster as a whole.                            *)
(***************************************************************************)
ClusterTyped == ClusterOK(Resources, Workloads, Jobs)

LEMMA QuietTyped ==
    /\ Quiet \subseteq Resources
    /\ \A o \in Quiet : ~RollsOut(o)
    /\ \A c \in Services : Workload(c) \in Resources /\ Workload(c) \in Workloads
<1>1. Quiet \subseteq Resources
  BY DEF Quiet, QuietKinds, QuietNames, R, Resources
<1>2. \A o \in Quiet : ~RollsOut(o)
  BY DEF Quiet, QuietKinds, R, RollsOut
<1>3. \A c \in Services : Workload(c) \in Resources /\ Workload(c) \in Workloads
  BY DEF Workload, Workloads, R, Resources, Flags
<1> QED
  BY <1>1, <1>2, <1>3

LEMMA PassTyped ==
    ASSUME PassInv, ClusterTyped, Reconcile
    PROVE  ClusterTyped' /\ Kept
<1>1. CASE Idles
  BY <1>1, SameTyped DEF Idles, ClusterTyped
<1>2. CASE QuietHere
  <2>1. PICK ws \in Seq(Quiet) : Writes(ws, {}, Templates(ws))
    BY <1>2 DEF QuietHere
  <2> QED
    BY <2>1, QuietTyped, WritesTyped, WritesGrow DEF ClusterTyped
<1>3. CASE RollsHere
  <2> DEFINE S == Quiet \cup {Workload(pc)}
  <2>1. ListOf(pc) \in Seq(S) /\ Writes(ListOf(pc), {}, Templates(ListOf(pc)))
    BY <1>3, ListTyped DEF RollsHere
  <2>2. S \subseteq Resources /\ \A o \in S : RollsOut(o) => o \in Workloads
    BY <1>3, QuietTyped DEF RollsHere
  <2> HIDE DEF S
  <2> QED
    BY <2>1, <2>2, WritesTyped, WritesGrow DEF ClusterTyped
<1> QED
  BY <1>1, <1>2, <1>3, StageWrites

LEMMA OthersTyped ==
    ASSUME ClusterTyped, Cluster
    PROVE  ClusterTyped' /\ Kept
<1>1. /\ Frontend \in Resources /\ Address("temporal-frontend") \in Resources
      /\ \A c \in Services : R("TLSSecret", c) \in Resources
  BY DEF Frontend, Address, R, Resources, Flags
<1>2. CASE \E o \in Provided : Provide(o)
  BY <1>2, ProvideTyped, ProvidedAssumption DEF ClusterTyped
<1>3. CASE \E c \in Services : WorkloadUp(c) \/ CertIssued(c)
  BY <1>1, <1>3, ComesUpTyped, CertTyped DEF ClusterTyped, WorkloadUp
<1>4. CASE \E j \in Jobs : JobCompletes(j)
  BY <1>1, <1>4, ComesUpTyped DEF ClusterTyped, JobCompletes
<1>5. CASE \E j \in Jobs : JobFails(j) \/ JobExpires(j, Due(j))
  BY <1>5, JobFailsTyped, JobExpiresTyped DEF ClusterTyped
<1>6. CASE \/ \E o \in Workloads : GoesDown(o) \/ CacheCatchesUp(o)
           \/ GoesDown(Frontend)
  BY <1>6, GoesDownTyped, CacheTyped DEF ClusterTyped
<1>7. CASE FrontendUp \/ KeycloakUp
  BY <1>7, ComesUpTyped DEF ClusterTyped, FrontendUp, KeycloakUp
<1> QED
  BY <1>2, <1>3, <1>4, <1>5, <1>6, <1>7 DEF Cluster

LEMMA StepTyped ==
    ASSUME PassInv, ClusterTyped, [RestNext]_vars
    PROVE  ClusterTyped' /\ Kept
<1>1. CASE ChangeConfig \/ UNCHANGED vars
  BY <1>1, SameTyped DEF ChangeConfig, vars, clusterVars, Steady, ClusterTyped
<1> QED
  BY <1>1, PassTyped, OthersTyped DEF RestNext

\* What the history and the verdict can be.
VerdictTyped ==
    /\ found \subseteq Flags
    /\ tier \in [ready : BOOLEAN, error : BOOLEAN, cfg : Configs]

LEMMA VerdictStep ==
    ASSUME PassInv, VerdictTyped, [RestNext]_vars
    PROVE  VerdictTyped'
<1>1. [Contract!TNext]_(Contract!tvars)
  BY StepKeeps
<1>2. tier' \in [ready : BOOLEAN, error : BOOLEAN, cfg : Configs]
  <2>1. CASE Contract!End
    <3>1. PICK t \in Contract!Verdicts(dep, found') : tier' = t
      BY <2>1 DEF Contract!End
    <3>2. PICK r \in BOOLEAN, e \in BOOLEAN : t = [ready |-> r, error |-> e, cfg |-> dep]
      BY <3>1 DEF Contract!Verdicts
    <3> QED
      BY <3>1, <3>2 DEF PassInv
  <2>2. CASE Contract!NothingToDo
    BY <2>2 DEF Contract!NothingToDo, PassInv
  <2>3. CASE Contract!UserChanges \/ Contract!Begin \/ Contract!Find
    BY <2>3 DEF VerdictTyped, Contract!UserChanges, Contract!Begin, Contract!Find
  <2>4. CASE UNCHANGED Contract!tvars
    BY <2>4 DEF VerdictTyped, Contract!tvars
  <2> QED
    BY <1>1, <2>1, <2>2, <2>3, <2>4 DEF Contract!TNext
<1>3. found' \subseteq Flags
  <2>1. CASE Cluster \/ ChangeConfig \/ UNCHANGED vars
    BY <2>1, ClusterAside DEF Aside, vars, VerdictTyped
  <2>2. CASE Start
    BY <2>2 DEF Start, StartPass
  <2>3. CASE Reconcile /\ ~Start
    BY <2>3, PassGoesOn DEF SamePass, VerdictTyped
  <2> QED
    BY <2>1, <2>2, <2>3 DEF RestNext
<1> QED
  BY <1>2, <1>3 DEF VerdictTyped

TypeInv == PassInv /\ ClusterTyped /\ VerdictTyped

LEMMA TypeInit == RestInit => TypeInv
<1> SUFFICES ASSUME RestInit PROVE TypeInv
  OBVIOUS
<1>1. PassInv
  BY InitKeeps
<1>2. ClusterTyped
  BY InitTyped, ProvidedAssumption DEF RestInit, ClusterTyped
<1>3. VerdictTyped
  BY DEF RestInit, InitPass, VerdictTyped
<1> QED
  BY <1>1, <1>2, <1>3 DEF TypeInv

LEMMA TypeStep ==
    ASSUME TypeInv, [RestNext]_vars
    PROVE  TypeInv'
BY StepKeeps, StepTyped, VerdictStep DEF TypeInv

(***************************************************************************)
(* The types of the REST tier for all configurations and failures: what a  *)
(* pass and the cluster do leaves only resources of the tier or supplied   *)
(* ones, no available or failed workload that is not there, and no more    *)
(* failures than the bound.                                                *)
(***************************************************************************)
THEOREM TypeCorrect == RestSpec => []RestTypeOK
<1>1. RestInit => TypeInv
  BY TypeInit
<1>2. TypeInv /\ [RestNext]_vars => TypeInv'
  BY TypeStep
<1>3. TypeInv => RestTypeOK
  BY DEF TypeInv, PassInv, Stages, ClusterTyped, ClusterOK, VerdictTyped,
         RestTypeOK, Services, Workers
<1> QED
  BY <1>1, <1>2, <1>3, PTL DEF RestSpec

-----------------------------------------------------------------------------
(***************************************************************************)
(* Everything a workload mounts is there before it.                        *)
(***************************************************************************)
Named      == {"rest-api", "cloud-worker", "site-worker"}
SpiffeOnes == Named \cup {"temporal", "site-manager"}

\* What a pass over c has behind it once it is past its preparation, and
\* what a service's list puts before its workload.
PastPrepare(c) ==
    {R("ServiceAccount", n) : n \in Named}
    \cup {R("Secret", "rest-api"), R("ConfigMap", "workflow")}
    \cup (IF c.tls = "spiffe"
          THEN {R("ConfigMap", "spiffe-helper")}
               \cup {R("ClusterSPIFFEID", n) : n \in SpiffeOnes}
          ELSE {})

Ahead(c) == IF c = "rest-api" THEN {R("ConfigMap", "rest-api")}
            ELSE IF c = "site-manager" THEN {R("ServiceAccount", "site-manager")}
            ELSE IF c = "site-agent" THEN {R("ConfigMap", "site-agent")}
            ELSE {}

Made(p, c) == IF p \in {"idle", "prepare"} THEN {} ELSE PastPrepare(c)

\* Of the resources there are, those that are never removed.
Lasting == {o \in DOMAIN objs : o.kind # "Job"}

Supported(c) ==
    Exists(Workload(c)) =>
        Refs(c, objs[Workload(c)]) \ Elsewhere(c) \subseteq Lasting

MadeInv ==
    /\ PassInv
    /\ Made(pc, dep) \subseteq DOMAIN objs
    /\ \A c \in Services : Supported(c)

LEMMA MadeLasting ==
    /\ \A p, c : \A o \in Made(p, c) : o.kind # "Job"
    /\ \A c : \A o \in Ahead(c) : o.kind # "Job"
<1>1. \A k, n : R(k, n).kind = k
  BY DEF R
<1>2. \A c : \A o \in PastPrepare(c) : o.kind # "Job"
  BY <1>1 DEF PastPrepare
<1>3. \A c : \A o \in Ahead(c) : o.kind # "Job"
  BY <1>1 DEF Ahead
<1> QED
  BY <1>2, <1>3 DEF Made

LEMMA AccountsAre ==
    /\ Whole(Accounts) = Named
    /\ Whole(Accounts \o <<"temporal", "site-manager">>) = SpiffeOnes
<1>1. Whole(Accounts) = Named
  <2>1. /\ Len(Accounts) = 3 /\ Accounts[1] = "rest-api"
        /\ Accounts[2] = "cloud-worker" /\ Accounts[3] = "site-worker"
    BY DEF Accounts
  <2>2. 1 .. 3 = {1, 2, 3}
    OBVIOUS
  <2> QED
    BY <2>1, <2>2 DEF Whole, First, Named
<1> DEFINE more == <<"temporal", "site-manager">>
<1>2. more \in Seq(QuietNames)
  BY DEF QuietNames, Flags, Services
<1>3. Whole(more) = {"temporal", "site-manager"}
  BY WholeTwo
<1> HIDE DEF more
<1>4. Whole(Accounts \o more) = Whole(Accounts) \cup Whole(more)
  BY <1>2, AccountsNames, WholeConcat
<1> QED
  BY <1>1, <1>3, <1>4 DEF SpiffeOnes, more

\* The preparation makes the identities, the Secret and the ConfigMap.
LEMMA PreparationMakes ==
    ASSUME NEW c \in Configs
    PROVE  PastPrepare(c) \subseteq Whole(Preparation[c])
<1> DEFINE sas  == Each("ServiceAccount", Accounts)
           ids  == Each("ClusterSPIFFEID", Accounts \o <<"temporal", "site-manager">>)
           conf == <<R("ConfigMap", "spiffe-helper")>>
           rest == <<R("Secret", "rest-api"), R("ConfigMap", "workflow")>>
<1>1. c.tls \in {"nil", "spiffe", "certManager"}
  BY ConfigsAssumption DEF Config
<1>2. /\ sas \in Seq(Quiet) /\ ids \in Seq(Quiet)
      /\ Each("Certificate", Append(Accounts, "site-manager")) \in Seq(Quiet)
  BY AccountsNames, EachQuiet DEF QuietKinds
<1>3. conf \in Seq(Quiet) /\ rest \in Seq(Quiet) /\ <<>> \in Seq(Quiet)
  <2>1. /\ R("ConfigMap", "spiffe-helper") \in Quiet
        /\ R("Secret", "rest-api") \in Quiet /\ R("ConfigMap", "workflow") \in Quiet
    BY DEF Quiet, QuietKinds, QuietNames, Flags, Services
  <2> QED
    BY <2>1
<1>4. \A n \in Named : R("ServiceAccount", n) \in Whole(sas)
  <2> TAKE n \in Named
  <2>1. Accounts \in Seq(QuietNames)
    BY AccountsNames
  <2>2. n \in Whole(Accounts)
    BY AccountsAre
  <2> QED
    BY <2>1, <2>2, EachOne
<1>5. \A n \in SpiffeOnes : R("ClusterSPIFFEID", n) \in Whole(ids)
  <2> TAKE n \in SpiffeOnes
  <2> DEFINE names == Accounts \o <<"temporal", "site-manager">>
  <2>1. names \in Seq(QuietNames)
    BY AccountsNames
  <2>2. n \in Whole(names)
    BY AccountsAre
  <2>3. ids = Each("ClusterSPIFFEID", names)
    OBVIOUS
  <2> HIDE DEF names, ids
  <2> QED
    BY <2>1, <2>2, <2>3, EachOne
<1>6. /\ Whole(conf) = {R("ConfigMap", "spiffe-helper")}
      /\ Whole(rest) = {R("Secret", "rest-api"), R("ConfigMap", "workflow")}
  BY WholeOne, WholeTwo
<1>7. Preparation[c] = sas \o TLSResources(c) \o rest
  BY DEF Preparation, Identities
<1>8. c.tls = "spiffe" => TLSResources(c) = conf \o ids
  BY Zenon DEF TLSResources
<1> HIDE DEF sas, ids, conf, rest
<1>9. conf \o ids \in Seq(Quiet) /\ Whole(conf \o ids) = Whole(conf) \cup Whole(ids)
  BY <1>2, <1>3, WholeConcat
<1>10. TLSResources(c) \in Seq(Quiet)
  BY <1>1, <1>2, <1>3, <1>8, <1>9, Zenon DEF TLSResources
<1>11. Whole(Preparation[c]) =
          Whole(sas) \cup Whole(TLSResources(c)) \cup Whole(rest)
  BY <1>2, <1>3, <1>7, <1>10, WholeThree
<1>12. {R("ServiceAccount", n) : n \in Named} \subseteq Whole(Preparation[c])
  BY <1>4, <1>11
<1>13. ASSUME c.tls = "spiffe"
       PROVE  {R("ConfigMap", "spiffe-helper")}
              \cup {R("ClusterSPIFFEID", n) : n \in SpiffeOnes}
              \subseteq Whole(Preparation[c])
  <2>1. Whole(conf) \cup Whole(ids) \subseteq Whole(Preparation[c])
    BY <1>8, <1>9, <1>11, <1>13
  <2> QED
    BY <1>5, <1>6, <2>1
<1>14. {R("Secret", "rest-api"), R("ConfigMap", "workflow")}
          \subseteq Whole(Preparation[c])
  BY <1>6, <1>11
<1> QED
  BY <1>12, <1>13, <1>14 DEF PastPrepare

LEMMA RefsOf ==
    ASSUME NEW t
    PROVE  /\ Refs("rest-api", t) = {R("ServiceAccount", "rest-api")}
                  \cup TLSRefs("rest-api", t.tls) \cup RestAPIRefs
           /\ \A w \in Workers : Refs(w, t) = {R("ServiceAccount", w)}
                  \cup TLSRefs(w, t.tls) \cup WorkerRefs(t)
           /\ Refs("site-agent", t) = {R("ServiceAccount", "site-agent")}
                  \cup TLSRefs("site-agent", t.tls) \cup SiteAgentRefs
           /\ Refs("site-manager", t) = {R("ServiceAccount", "site-manager")}
                  \cup TLSRefs("site-manager", t.tls) \cup {}
BY DEF Refs, Workers

LEMMA TLSMade ==
    ASSUME NEW c \in Services, dep.tls \in {"nil", "spiffe", "certManager"}
    PROVE  TLSRefs(c, dep.tls) \subseteq PastPrepare(dep) \cup Elsewhere(c)
<1>1. CASE dep.tls = "spiffe"
  <2>1. TLSRefs(c, dep.tls) = SpiffeRefs(c)
    BY <1>1, Zenon DEF TLSRefs
  <2>2. c = "site-agent" \/ c \in SpiffeOnes
    BY DEF Services, Workers, SpiffeOnes, Named
  <2>3. R("ClusterSPIFFEID", c) \in PastPrepare(dep) \cup Elsewhere(c)
    BY <1>1, <2>2 DEF PastPrepare, Elsewhere
  <2> QED
    BY <1>1, <2>1, <2>3 DEF SpiffeRefs, PastPrepare
<1>2. CASE dep.tls = "certManager"
  <2>1. TLSRefs(c, dep.tls) = CertRefs(c)
    BY <1>2, Zenon DEF TLSRefs
  <2> QED
    BY <2>1 DEF CertRefs, Elsewhere
<1>3. CASE dep.tls = "nil"
  BY <1>3, Zenon DEF TLSRefs
<1> QED
  BY <1>1, <1>2, <1>3

\* A pass that rolls out a service has all its pods refer to.
LEMMA RefsMade ==
    ASSUME PassInv, NEW c \in Services
    PROVE  Refs(c, Template(Workload(c))) \ Elsewhere(c)
               \subseteq PastPrepare(dep) \cup Ahead(c)
<1> DEFINE t == Template(Workload(c))
<1>1. t.tls = dep.tls
  BY DEF Template, Workloads
<1> HIDE DEF t
<1>2. TLSRefs(c, t.tls) \subseteq PastPrepare(dep) \cup Elsewhere(c)
  <2>1. dep.tls \in {"nil", "spiffe", "certManager"}
    BY ConfigsAssumption DEF PassInv, Config
  <2> QED
    BY <1>1, <2>1, TLSMade
<1>3. R("ServiceAccount", c) \in PastPrepare(dep) \cup Ahead(c) \cup Elsewhere(c)
  BY DEF PastPrepare, Named, Ahead, Elsewhere, Services, Workers
<1>4. CASE c = "rest-api"
  <2>1. RestAPIRefs \subseteq PastPrepare(dep) \cup Ahead(c)
    BY <1>4 DEF RestAPIRefs, PastPrepare, Ahead
  <2> QED
    BY <1>2, <1>3, <1>4, <2>1, RefsOf DEF t
<1>5. CASE c \in Workers
  <2>1. WorkerRefs(t) \subseteq PastPrepare(dep) \cup Elsewhere(c)
    BY DEF WorkerRefs, PastPrepare, Elsewhere
  <2> QED
    BY <1>2, <1>3, <1>5, <2>1, RefsOf DEF t
<1>6. CASE c = "site-agent"
  <2>1. SiteAgentRefs \subseteq Ahead(c)
    BY <1>6 DEF SiteAgentRefs, Ahead
  <2> QED
    BY <1>2, <1>3, <1>6, <2>1, RefsOf DEF t
<1>7. CASE c = "site-manager"
  BY <1>2, <1>3, <1>7, RefsOf DEF t
<1> QED
  BY <1>4, <1>5, <1>6, <1>7 DEF Services

\* A workload that is written comes after the head of its list.
LEMMA AheadMade ==
    ASSUME NEW c \in Services, pc = c, RollsHere, Changes(Workload(c))
    PROVE  Ahead(c) \subseteq DOMAIN objs'
<1>1. ListOf(c) \in Seq(Quiet \cup {Workload(c)})
      /\ Writes(ListOf(c), {}, Templates(ListOf(c)))
  BY ListTyped DEF RollsHere
<1>2. ASSUME NEW x, x.kind # "Deployment", Len(ListOf(c)) \in Nat \ {0},
             ListOf(c)[1] = x
      PROVE  x \in DOMAIN objs'
  <2>1. 1 \in 1 .. Len(ListOf(c)) /\ \A j \in 1 .. 1 : ListOf(c)[j] # Workload(c)
    BY <1>2 DEF Workload, R
  <2> QED
    BY <1>1, <1>2, <2>1, WritesAhead
<1>3. CASE c = "rest-api"
  <2>1. Len(ListOf(c)) = 3 /\ ListOf(c)[1] = R("ConfigMap", "rest-api")
    BY <1>3 DEF ListOf
  <2> QED
    BY <1>2, <1>3, <2>1 DEF Ahead, R
<1>4. CASE c = "site-manager"
  <2>1. Len(ListOf(c)) = 5 /\ ListOf(c)[1] = R("ServiceAccount", "site-manager")
    BY <1>4 DEF ListOf
  <2> QED
    BY <1>2, <1>4, <2>1 DEF Ahead, R
<1>5. CASE c = "site-agent"
  <2>1. Len(ListOf(c)) = 2 /\ ListOf(c)[1] = R("ConfigMap", "site-agent")
    BY <1>5 DEF ListOf
  <2> QED
    BY <1>2, <1>5, <2>1 DEF Ahead, R
<1> QED
  BY <1>3, <1>4, <1>5 DEF Ahead

\* Only a preparation that went through leads on.
LEMMA MadeAhead ==
    ASSUME MadeInv, Reconcile, Kept
    PROVE  Made(pc', dep') \subseteq DOMAIN objs'
<1>1. CASE pc' \in {"idle", "prepare"}
  BY <1>1 DEF Made
<1>2. CASE Prepare /\ pc' # "idle"
  <2>1. /\ dep' = dep
        /\ WritesAll(Preparation[dep], {}, Templates(Preparation[dep]))
    BY <1>2 DEF Prepare, Fail, Stop, Go, Return
  <2> QED
    BY <2>1, WritesMake, PreparationMakes DEF MadeInv, PassInv, Made
<1>3. CASE ~Start /\ ~Prepare
  <2>1. dep' = dep /\ pc \notin {"idle", "prepare"}
    BY <1>3, PassGoesOn DEF SamePass, Reconcile, reconcileTemporal,
       reconcileKeycloak, reconcileTemporalSetup, reconcileRestAPI,
       reconcileWorker, reconcileSiteManager, reconcileSiteAgent, Verdict
  <2>2. \A o \in Made(pc, dep) : o \in DOMAIN objs'
    BY MadeLasting DEF MadeInv, Kept
  <2> QED
    BY <2>1, <2>2 DEF Made
<1>4. CASE Start
  BY <1>1, <1>4 DEF Start, StartPass
<1> QED
  BY <1>1, <1>2, <1>3, <1>4

\* A workload is written over what it refers to, and keeps it.
LEMMA SupportStep ==
    ASSUME MadeInv, Kept, [RestNext]_vars, NEW c \in Services
    PROVE  Supported(c)'
<1> DEFINE w == Workload(c)
<1>1. \A o \in Lasting : o \in Lasting'
  BY DEF Lasting, Kept
<1>2. CASE Changes(w)
  <2>1. /\ pc = c /\ RollsHere /\ objs'[w] = Template(w)
        /\ DOMAIN objs \subseteq DOMAIN objs'
    BY <1>2, WhoWrites DEF MadeInv
  <2>2. Refs(c, Template(w)) \ Elsewhere(c) \subseteq PastPrepare(dep) \cup Ahead(c)
    BY RefsMade DEF MadeInv
  <2>3. PastPrepare(dep) = Made(pc, dep)
    BY <2>1 DEF Made, Services, Workers
  <2>4. PastPrepare(dep) \cup Ahead(c) \subseteq Lasting'
    BY <1>2, <2>1, <2>3, MadeLasting, AheadMade DEF MadeInv, Lasting
  <2> QED
    BY <2>1, <2>2, <2>4 DEF Supported
<1>3. CASE ~Changes(w) /\ w \in DOMAIN objs'
  <2>1. Exists(w) /\ objs'[w] = objs[w]
    BY <1>3 DEF Changes
  <2>2. Refs(c, objs[w]) \ Elsewhere(c) \subseteq Lasting
    BY <2>1 DEF MadeInv, Supported
  <2> QED
    BY <1>1, <2>1, <2>2 DEF Supported
<1>4. CASE w \notin DOMAIN objs'
  BY <1>4 DEF Supported, Exists
<1> QED
  BY <1>2, <1>3, <1>4

LEMMA MadeStep ==
    ASSUME TypeInv, MadeInv, [RestNext]_vars
    PROVE  MadeInv'
<1>1. PassInv' /\ Kept
  BY StepKeeps, StepTyped DEF TypeInv
<1>2. Made(pc', dep') \subseteq DOMAIN objs'
  <2>1. CASE Reconcile
    BY <1>1, <2>1, MadeAhead
  <2>2. CASE Cluster \/ ChangeConfig \/ UNCHANGED vars
    <3>1. dep' = dep /\ pc' = pc
      BY <2>2, ClusterAside DEF Aside, vars, MadeInv
    <3> QED
      BY <1>1, <3>1, MadeLasting DEF MadeInv, Kept
  <2> QED
    BY <2>1, <2>2 DEF RestNext
<1> QED
  BY <1>1, <1>2, SupportStep DEF MadeInv, Made

LEMMA MadeInit == RestInit => MadeInv
<1> SUFFICES ASSUME RestInit PROVE MadeInv
  OBVIOUS
<1>1. PassInv /\ pc = "idle"
  BY InitKeeps DEF RestInit, InitPass
<1>2. DOMAIN objs \subseteq Provided
  BY InitTyped, ProvidedAssumption DEF RestInit
<1>3. \A c \in Services : ~Exists(Workload(c))
  BY <1>2, OwnAssumption DEF Workloads, Exists
<1> QED
  BY <1>1, <1>3 DEF MadeInv, Made, Supported

(***************************************************************************)
(* For all configurations, failures and orders of change: a workload of    *)
(* the REST tier finds in the cluster all its pods refer to and the        *)
(* operator creates (rest_reconciler.go:84-150 and the ConfigMaps and the  *)
(* account its services write first).  The invariant says what a pass has  *)
(* behind it once it is prepared; what a service's list puts before its    *)
(* workload is written even by a list that fails half-way.                 *)
(***************************************************************************)
THEOREM Created == RestSpec => []RestCreatedInOrder
<1>1. RestInit => TypeInv /\ MadeInv
  BY TypeInit, MadeInit
<1>2. TypeInv /\ MadeInv /\ [RestNext]_vars => TypeInv' /\ MadeInv'
  BY TypeStep, MadeStep
<1>3. MadeInv => RestCreatedInOrder
  BY DEF MadeInv, Supported, Lasting, RestCreatedInOrder
<1> QED
  BY <1>1, <1>2, <1>3, PTL DEF RestSpec
=============================================================================
