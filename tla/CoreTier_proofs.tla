-------------------------- MODULE CoreTier_proofs --------------------------
(***************************************************************************)
(* The core tier keeps the contract of a tier, and rolls its services out  *)
(* in order, for every set of configurations and every bound on failures.  *)
(***************************************************************************)
EXTENDS CoreTier, TierPass_proofs

Stages == {"idle", "prepare", "certs", "config", "api", "dhcp", "pxe", "dns",
           "vault", "rla", "psm", "verdict"}

\* The components settled when the pass is at a stage, and the stage that
\* settles a component is followed by.
Settled(p) ==
    IF p = "dhcp" THEN {"api"}
    ELSE IF p = "pxe" THEN {"api", "dhcp"}
    ELSE IF p = "dns" THEN {"api", "dhcp", "pxe"}
    ELSE IF p = "vault" THEN {"api", "dhcp", "pxe", "dns"}
    ELSE IF p = "rla" THEN {"api", "dhcp", "pxe", "dns", "vault"}
    ELSE IF p = "psm" THEN Flags \ {"psm"}
    ELSE IF p = "verdict" THEN Flags
    ELSE {}

Following(c) ==
    IF c = "api" THEN "dhcp" ELSE IF c = "dhcp" THEN "pxe"
    ELSE IF c = "pxe" THEN "dns" ELSE IF c = "dns" THEN "vault"
    ELSE IF c = "vault" THEN "rla" ELSE IF c = "rla" THEN "psm" ELSE "verdict"

\* A flag that is up speaks of what the pass has found, unless nobody asks
\* for the component, or Vault is down and holds the verdict back.
Sound(f) == ready[f] => \/ f \in found \/ f \notin Expected(dep)
                        \/ f \in {"rla", "psm"} /\ ~ready["vault"]

PassInv ==
    /\ cfg \in Configs /\ dep \in Configs /\ pc \in Stages
    /\ ready \in [Flags -> BOOLEAN]
    /\ \/ \A f \in Settled(pc) : Sound(f)
       \/ pc = "verdict" /\ ~ready["api"]

\* The pass ends with a status of its own copy; it goes on; it goes on and
\* settles a component; it is not involved.
Ends(r, e) ==
    /\ pc' = "idle" /\ ready' = NoFlags
    /\ cfg' = cfg /\ dep' = dep /\ found' = found
    /\ tier' = [ready |-> r, error |-> e, cfg |-> dep]

GoesOn(next) == /\ pc' = next /\ cfg' = cfg /\ dep' = dep /\ tier' = tier

Settles(c) ==
    /\ GoesOn(Following(c))
    /\ \E yes \in BOOLEAN :
          /\ ready' = [ready EXCEPT ![c] = yes]
          /\ yes => \/ c \in found' \/ c \notin Expected(dep)
                    \/ c \in {"rla", "psm"} /\ ~ready["vault"]
    /\ found \subseteq found'

Aside == UNCHANGED <<dep, pc, ready, found, tier>>

-----------------------------------------------------------------------------
\* What a configuration asks for has a flag.
LEMMA ExpectedFlags ==
    ASSUME NEW c \in Configs
    PROVE  Expected(c) \subseteq Flags
BY ConfigsAssumption DEF Config, Expected, Flags, Services

LEMMA SettledNext ==
    ASSUME NEW c \in Flags
    PROVE  /\ Settled(Following(c)) \subseteq Settled(c) \cup {c}
           /\ c \notin Settled(c) /\ Following(c) \in Stages
           /\ c = "vault" => {"rla", "psm"} \cap Settled(c) = {}
           /\ Settled(c) \subseteq Flags
           /\ c \in Stages /\ c \notin {"idle", "verdict"}
BY DEF Settled, Following, Flags, Stages

\* A pass that ends ends as the contract says, if its verdict is earned.
LEMMA EndKeeps ==
    ASSUME PassInv, pc # "idle", NEW r \in BOOLEAN, NEW e \in BOOLEAN,
           ~(r /\ e), r => Expected(dep) \subseteq found, Ends(r, e)
    PROVE  PassInv' /\ Contract!TNext
<1>1. PassInv'
  BY DEF PassInv, Ends, NoFlags, Flags, Settled, Stages
<1>2. ExpectedOf[dep] \subseteq found \/ ~r
  BY DEF PassInv, ExpectedOf
<1>3. tier' \in {t \in Contract!Verdicts(dep, found') : ~(t.ready /\ t.error)}
  BY <1>2 DEF Ends, Contract!Verdicts
<1>4. Contract!End
  BY <1>3 DEF Ends, Contract!End
<1> QED
  BY <1>1, <1>4 DEF Contract!TNext

\* A pass that goes on before anything is settled.
LEMMA GoOnKeeps ==
    ASSUME PassInv, pc # "idle", NEW next \in {"certs", "config", "api"},
           GoesOn(next), ready' = ready, found' = found
    PROVE  PassInv' /\ Contract!TNext
<1>1. PassInv'
  BY DEF PassInv, GoesOn, Settled, Stages
<1>2. Contract!Find
  BY DEF GoesOn, Contract!Find
<1> QED
  BY <1>1, <1>2 DEF Contract!TNext

LEMMA SettleKeeps ==
    ASSUME PassInv, NEW c \in Flags, pc = c, Settles(c)
    PROVE  PassInv' /\ Contract!TNext
<1>1. PICK yes \in BOOLEAN :
         /\ ready' = [ready EXCEPT ![c] = yes]
         /\ yes => \/ c \in found' \/ c \notin Expected(dep)
                   \/ c \in {"rla", "psm"} /\ ~ready["vault"]
  BY DEF Settles
<1>2. /\ pc' = Following(c) /\ cfg' = cfg /\ dep' = dep /\ tier' = tier
      /\ found \subseteq found'
  BY DEF Settles, GoesOn
<1>3. ready' \in [Flags -> BOOLEAN] /\ ready'[c] = yes
      /\ \A f \in Flags \ {c} : ready'[f] = ready[f]
  BY <1>1 DEF PassInv
<1>4. \A f \in Settled(c) : Sound(f)
  BY SettledNext DEF PassInv
<1>5. "vault" \in Flags
  BY DEF Flags
<1>6. ASSUME NEW f \in Settled(c) PROVE Sound(f)'
  <2>1. f \in Flags /\ f # c /\ (f \in {"rla", "psm"} => c # "vault")
    BY SettledNext
  <2>2. ready'[f] = ready[f]
    BY <1>3, <2>1
  <2>3. f \in {"rla", "psm"} => ready'["vault"] = ready["vault"]
    BY <1>3, <1>5, <2>1
  <2> QED
    BY <1>2, <1>4, <2>2, <2>3 DEF Sound
<1>7. Sound(c)'
  <2>1. c \in {"rla", "psm"} => ready'["vault"] = ready["vault"]
    BY <1>3, <1>5
  <2> QED
    BY <1>1, <1>2, <1>3, <2>1 DEF Sound
<1>8. \A f \in Settled(pc') : Sound(f)'
  BY <1>2, <1>6, <1>7, SettledNext
<1>9. PassInv'
  <2>1. cfg' \in Configs /\ dep' \in Configs /\ pc' \in Stages
    BY <1>2, SettledNext DEF PassInv
  <2> QED
    BY <1>3, <1>8, <2>1 DEF PassInv
<1>10. Contract!Find
  <2>1. pc # "idle" /\ pc' # "idle"
    BY <1>2 DEF Flags, Following
  <2> QED
    BY <1>2, <2>1 DEF Contract!Find
<1> QED
  BY <1>9, <1>10 DEF Contract!TNext

LEMMA AsideKeeps ==
    ASSUME PassInv, Aside, cfg' \in Configs
    PROVE  PassInv' /\ [Contract!TNext]_(Contract!tvars)
<1>1. PassInv'
  BY DEF PassInv, Aside, Sound, Settled
<1>2. CASE cfg' = cfg
  BY <1>1, <1>2 DEF Aside, Contract!tvars
<1>3. CASE cfg' # cfg
  <2>1. Contract!UserChanges
    BY DEF Aside, Contract!UserChanges
  <2> QED
    BY <1>1, <2>1 DEF Contract!TNext
<1> QED
  BY <1>2, <1>3

-----------------------------------------------------------------------------
(***************************************************************************)
(* The building blocks of the actions.                                     *)
(***************************************************************************)
LEMMA FailEnds ==
    ASSUME NEW ws, Fail(ws)
    PROVE  Ends(FALSE, TRUE)
BY DEF Fail, Return, NothingFound, Ends

LEMMA FlagSettles ==
    ASSUME NEW c, NEW yes \in BOOLEAN, Flag(c, yes), GoesOn(Following(c))
    PROVE  Settles(c)
BY DEF Flag, Settles

LEMMA ServiceSettles ==
    ASSUME NEW c, NEW ws, Service(c, ws, Following(c))
    PROVE  Ends(FALSE, TRUE) \/ Settles(c)
<1>1. CASE Fail(ws)
  BY <1>1, FailEnds
<1>2. CASE GoesOn(Following(c)) /\ Finds(c, Workload(c))
  <2>1. PICK yes \in LooksUp(Workload(c)) : Flag(c, yes)
    BY <1>2 DEF Finds
  <2>2. yes \in BOOLEAN
    BY <2>1 DEF LooksUp
  <2> QED
    BY <1>2, <2>1, <2>2, FlagSettles
<1> QED
  BY <1>1, <1>2 DEF Service, GoesOn

LEMMA SkipSettles ==
    ASSUME NEW c, Skip(c, Following(c)),
           c \notin Expected(dep) \/ (c \in {"rla", "psm"} /\ ~ready["vault"])
    PROVE  Settles(c)
BY DEF Skip, NothingFound, Settles, GoesOn

\* A stage that settles a component or ends the pass with an error.
LEMMA StageKeeps ==
    ASSUME PassInv, NEW c \in Flags, pc = c, Ends(FALSE, TRUE) \/ Settles(c)
    PROVE  PassInv' /\ Contract!TNext
<1>1. pc # "idle"
  BY DEF Flags
<1> QED
  BY <1>1, EndKeeps, SettleKeeps

-----------------------------------------------------------------------------
LEMMA StartKeeps ==
    ASSUME PassInv, Start
    PROVE  PassInv' /\ Contract!TNext
<1>1. /\ pc = "idle" /\ dep' = cfg /\ found' = {}
      /\ ready' = ready /\ cfg' = cfg
  BY DEF Start, StartPass
<1>2. CASE cfg.profile # "management"
  <2>1. pc' = "prepare" /\ tier' = tier
    BY <1>2 DEF Start, StartPass
  <2>2. PassInv'
    BY <1>1, <2>1 DEF PassInv, Settled, Stages
  <2>3. Contract!Begin
    BY <1>1, <2>1 DEF Contract!Begin
  <2> QED
    BY <2>2, <2>3 DEF Contract!TNext
<1>3. CASE cfg.profile = "management"
  <2>1. pc' = "idle" /\ tier' = [ready |-> TRUE, error |-> FALSE, cfg |-> cfg]
    BY <1>3 DEF Start, StartPass
  <2>2. PassInv'
    BY <1>1, <2>1 DEF PassInv, Settled, Stages
  <2>3. ExpectedOf[cfg] = {}
    BY <1>3 DEF ExpectedOf, Expected, PassInv
  <2>4. Contract!NothingToDo
    BY <1>1, <2>1, <2>3 DEF Contract!NothingToDo
  <2> QED
    BY <2>2, <2>4 DEF Contract!TNext
<1> QED
  BY <1>2, <1>3

LEMMA PrepareKeeps ==
    ASSUME PassInv, Prepare
    PROVE  PassInv' /\ Contract!TNext
<1>0. pc # "idle"
  BY DEF Prepare
<1>1. CASE \E ws : Fail(ws)
  BY <1>0, <1>1, FailEnds, EndKeeps
<1>2. CASE /\ pc' = IF dep.tls = "certManager" THEN "certs" ELSE "config"
           /\ UNCHANGED <<cfg, dep, ready, found, tier, faults>>
  <2>1. PICK next \in {"certs", "config"} : GoesOn(next)
    BY <1>2 DEF GoesOn
  <2> QED
    BY <1>0, <1>2, <2>1, GoOnKeeps
<1> QED
  BY <1>1, <1>2 DEF Prepare

LEMMA CertsKeep ==
    ASSUME PassInv, WaitForCerts
    PROVE  PassInv' /\ Contract!TNext
<1>0. pc # "idle"
  BY DEF WaitForCerts
<1>1. CASE Ends(FALSE, FALSE) \/ Ends(FALSE, TRUE)
  BY <1>0, <1>1, EndKeeps
<1>2. CASE GoesOn("config") /\ ready' = ready /\ found' = found
  BY <1>0, <1>2, GoOnKeeps
<1> QED
  BY <1>1, <1>2 DEF WaitForCerts, Return, NothingFound, Ends, GoesOn

LEMMA ConfigKeeps ==
    ASSUME PassInv, reconcileConfig
    PROVE  PassInv' /\ Contract!TNext
<1>0. pc # "idle"
  BY DEF reconcileConfig
<1>1. CASE Ends(FALSE, TRUE)
  BY <1>0, <1>1, EndKeeps
<1>2. CASE GoesOn("api") /\ ready' = ready /\ found' = found
  BY <1>0, <1>2, GoOnKeeps
<1> QED
  BY <1>1, <1>2, FailEnds DEF reconcileConfig, Return, NothingFound, Ends, GoesOn

LEMMA APIKeeps ==
    ASSUME PassInv, reconcileAPI
    PROVE  PassInv' /\ Contract!TNext
<1>1. "dhcp" = Following("api") /\ "api" \in Flags /\ pc = "api"
  BY DEF Following, Flags, reconcileAPI
<1>2. Ends(FALSE, TRUE) \/ Settles("api")
  BY <1>1, ServiceSettles DEF reconcileAPI
<1> QED
  BY <1>1, <1>2, StageKeeps

LEMMA SkipRestKeeps ==
    ASSUME PassInv, SkipRest
    PROVE  PassInv' /\ Contract!TNext
<1>1. /\ pc = "dhcp" /\ pc' = "verdict" /\ ~ready["api"]
      /\ cfg' = cfg /\ dep' = dep /\ tier' = tier /\ ready' = ready
      /\ found' = found
  BY DEF SkipRest
<1>2. PassInv'
  BY <1>1 DEF PassInv, Stages
<1>3. Contract!Find
  BY <1>1 DEF Contract!Find
<1> QED
  BY <1>2, <1>3 DEF Contract!TNext

\* A network service: asked for, or skipped.
LEMMA NetworkKeeps ==
    ASSUME PassInv, NEW c \in {"dhcp", "pxe", "dns"}, pc = c,
           \/ \E ws : Service(c, ws, Following(c))
           \/ c \notin dep.on /\ Skip(c, Following(c))
           \/ Settles(c) \/ Ends(FALSE, TRUE)
    PROVE  PassInv' /\ Contract!TNext
<1>1. c \in Flags
  BY DEF Flags
<1>2. c \notin dep.on => c \notin Expected(dep)
  BY DEF Expected
<1>3. Ends(FALSE, TRUE) \/ Settles(c)
  BY <1>2, ServiceSettles, SkipSettles
<1> QED
  BY <1>1, <1>3, StageKeeps

LEMMA DHCPKeeps ==
    ASSUME PassInv, reconcileDHCP
    PROVE  PassInv' /\ Contract!TNext
<1>1. Following("dhcp") = "pxe" /\ pc = "dhcp"
  BY DEF Following, reconcileDHCP
<1> QED
  BY <1>1, NetworkKeeps DEF reconcileDHCP

LEMMA PXEKeeps ==
    ASSUME PassInv, reconcilePXE
    PROVE  PassInv' /\ Contract!TNext
<1>1. Following("pxe") = "dns" /\ pc = "pxe"
  BY DEF Following, reconcilePXE
<1>2. CASE \/ \E ws : Service("pxe", ws, "dns")
           \/ "pxe" \notin dep.on /\ Skip("pxe", "dns")
  BY <1>1, <1>2, NetworkKeeps
<1>3. CASE Fail(<<PXEClaim>>)
  BY <1>1, <1>3, FailEnds, NetworkKeeps
<1>4. CASE /\ NothingFound /\ ready' = [ready EXCEPT !["pxe"] = FALSE]
           /\ pc' = "dns" /\ UNCHANGED <<cfg, dep, tier, faults>>
  <2>1. Settles("pxe")
    BY <1>1, <1>4 DEF Settles, GoesOn, NothingFound
  <2> QED
    BY <1>1, <2>1, NetworkKeeps
<1> QED
  BY <1>2, <1>3, <1>4 DEF reconcilePXE

LEMMA DNSKeeps ==
    ASSUME PassInv, reconcileDNS
    PROVE  PassInv' /\ Contract!TNext
<1>1. Following("dns") = "vault" /\ pc = "dns"
  BY DEF Following, reconcileDNS
<1> QED
  BY <1>1, NetworkKeeps DEF reconcileDNS

LEMMA VaultKeeps ==
    ASSUME PassInv, reconcileVault
    PROVE  PassInv' /\ Contract!TNext
<1>1. Following("vault") = "rla" /\ pc = "vault" /\ "vault" \in Flags
  BY DEF Following, reconcileVault, Flags
<1>2. \A yes \in BOOLEAN : VaultFound(yes) => Settles("vault")
  BY <1>1, FlagSettles DEF VaultFound, GoesOn
<1>3. CASE dep.vault = "nil" /\ Skip("vault", "rla")
  <2>1. "vault" \notin Expected(dep)
    <3>1. dep.on \subseteq Services
      BY ConfigsAssumption DEF PassInv, Config
    <3> QED
      BY <1>3, <3>1 DEF Expected, Services
  <2>2. Settles("vault")
    BY <1>1, <1>3, <2>1, SkipSettles
  <2> QED
    BY <1>1, <2>2, StageKeeps
<1>4. CASE ManagedVault
  <2>1. \/ \E ws : Fail(ws)
        \/ VaultFound(InitJob \in up /\ HelmJob \in up)
        \/ /\ NothingFound /\ Return(FALSE, TRUE, NoFlags)
           /\ UNCHANGED <<cfg, faults>>
    BY <1>4 DEF ManagedVault
  <2>2. (InitJob \in up /\ HelmJob \in up) \in BOOLEAN
    OBVIOUS
  <2>3. Ends(FALSE, TRUE) \/ Settles("vault")
    BY <1>2, <2>1, <2>2, FailEnds DEF Return, NothingFound, Ends
  <2> QED
    BY <1>1, <2>3, StageKeeps
<1>5. CASE ExternalVault
  <2>1. Ends(FALSE, TRUE) \/ Settles("vault")
    BY <1>2, <1>5 DEF ExternalVault, Return, NothingFound, Ends
  <2> QED
    BY <1>1, <2>1, StageKeeps
<1> QED
  BY <1>3, <1>4, <1>5 DEF reconcileVault

LEMMA RLAKeeps ==
    ASSUME PassInv, reconcileRLA
    PROVE  PassInv' /\ Contract!TNext
<1>1. Following("rla") = "psm" /\ pc = "rla" /\ "rla" \in Flags
  BY DEF Following, reconcileRLA, Flags
<1>2. "rla" \notin dep.on => "rla" \notin Expected(dep)
  BY DEF Expected
<1>3. Ends(FALSE, TRUE) \/ Settles("rla")
  BY <1>1, <1>2, ServiceSettles, SkipSettles DEF reconcileRLA
<1> QED
  BY <1>1, <1>3, StageKeeps

LEMMA PSMKeeps ==
    ASSUME PassInv, reconcilePSM
    PROVE  PassInv' /\ Contract!TNext
<1>1. Following("psm") = "verdict" /\ pc = "psm" /\ "psm" \in Flags
  BY DEF Following, reconcilePSM, Flags
<1>2. "psm" \notin dep.on => "psm" \notin Expected(dep)
  BY DEF Expected
<1>3. Ends(FALSE, TRUE) \/ Settles("psm")
  BY <1>1, <1>2, ServiceSettles, SkipSettles DEF reconcilePSM
<1> QED
  BY <1>1, <1>3, StageKeeps

LEMMA VerdictKeeps ==
    ASSUME PassInv, Verdict
    PROVE  PassInv' /\ Contract!TNext
<1>1. pc = "verdict" /\ pc # "idle"
  BY DEF Verdict
<1>2. Ends(\A f \in Flags : ready[f], FALSE)
  BY DEF Verdict, Return, NothingFound, Ends
<1>3. (\A f \in Flags : ready[f]) => Expected(dep) \subseteq found
  <2> SUFFICES ASSUME \A f \in Flags : ready[f], NEW c \in Expected(dep)
               PROVE  c \in found
    OBVIOUS
  <2>1. c \in Flags /\ "api" \in Flags /\ "vault" \in Flags
    BY ExpectedFlags DEF PassInv, Flags
  <2>2. Sound(c)
    BY <1>1, <2>1 DEF PassInv, Settled
  <2> QED
    BY <2>1, <2>2 DEF Sound
<1>4. (\A f \in Flags : ready[f]) \in BOOLEAN
  OBVIOUS
<1> QED
  BY <1>1, <1>2, <1>3, <1>4, EndKeeps

-----------------------------------------------------------------------------
LEMMA ClusterAside ==
    ASSUME PassInv, Cluster \/ ChangeConfig
    PROVE  Aside /\ cfg' \in Configs
<1>1. CASE ChangeConfig
  BY <1>1 DEF ChangeConfig, Aside, passVars, Configs
<1>2. CASE Cluster
  <2>1. UNCHANGED cfg /\ UNCHANGED passVars
    BY <1>2 DEF Cluster, Provide, WorkloadUp, CertIssued, JobCompletes, ComesUp,
                JobFails, JobExpires, GoesDown, CacheCatchesUp, ClaimBound, KeysLost
  <2> QED
    BY <2>1 DEF Aside, passVars, PassInv
<1> QED
  BY <1>1, <1>2

LEMMA StepKeeps ==
    ASSUME PassInv, [CoreNext]_vars
    PROVE  PassInv' /\ [Contract!TNext]_(Contract!tvars)
<1>1. CASE Reconcile
  BY <1>1, StartKeeps, PrepareKeeps, CertsKeep, ConfigKeeps, APIKeeps,
     SkipRestKeeps, DHCPKeeps, PXEKeeps, DNSKeeps, VaultKeeps, RLAKeeps,
     PSMKeeps, VerdictKeeps DEF Reconcile
<1>2. CASE Cluster \/ ChangeConfig
  BY <1>2, ClusterAside, AsideKeeps
<1>3. CASE UNCHANGED vars
  <2>1. Aside /\ cfg' \in Configs
    BY <1>3 DEF vars, Aside, PassInv
  <2> QED
    BY <2>1, AsideKeeps
<1> QED
  BY <1>1, <1>2, <1>3 DEF CoreNext

LEMMA InitKeeps == CoreInit => PassInv /\ Contract!TInit
BY DEF CoreInit, InitPass, PassInv, NoFlags, Flags, Settled, Stages, Contract!TInit

(***************************************************************************)
(* The core tier keeps the contract of a tier.  In particular "All core    *)
(* components ready" (core_reconciler.go:301) is only said of services     *)
(* this very pass looked at, although Vault, RLA and PSM start out as      *)
(* ready: the invariant is that an unearned flag of RLA or PSM is always   *)
(* held back by a flag of Vault that is down.                              *)
(***************************************************************************)
THEOREM ContractKept == CoreSpec => CoreKeepsContract
<1>1. CoreInit => PassInv /\ Contract!TInit
  BY InitKeeps
<1>2. PassInv /\ [CoreNext]_vars => PassInv' /\ [Contract!TNext]_(Contract!tvars)
  BY StepKeeps
<1> QED
  BY <1>1, <1>2, PTL DEF CoreSpec, CoreKeepsContract, Contract!TSpec

-----------------------------------------------------------------------------
(***************************************************************************)
(* The order of the services.                                              *)
(***************************************************************************)
\* Resources that are no workload or Job of the tier.
QuietKinds == {"Namespace", "ServiceAccount", "ConfigMap", "ClusterSPIFFEID",
               "Certificate", "Secret", "TLSSecret", "Service", "Vault",
               "ClusterRoleBinding", "PersistentVolumeClaim"}
QuietNames == Flags \cup {"core", "spiffe-helper", "casbin", "vault-helm",
                          "vault-values", "vault-unseal", "initialised"}
Quiet == {R(k, c) : k \in QuietKinds, c \in QuietNames}

Gated == (Workloads \cup Jobs) \ {Workload("api")}

\* What the order asks of a pass that writes o.
Allowed(o) == /\ "api" \in found
              /\ o.of \in {"rla", "psm"} /\ dep.vault # "nil"
                    => "vault" \in found

\* A pass beyond the API's gate has found the API ready, and a pass is only
\* made where the profile has a core tier.
OrderInv ==
    /\ PassInv
    /\ pc # "idle" => dep.profile # "management"
    /\ pc \in {"pxe", "dns", "vault", "rla", "psm"} => "api" \in found

LEMMA WorkloadIs ==
    /\ Workload("api") = R("Deployment", "api")
    /\ Workload("pxe") = R("Deployment", "pxe")
    /\ Workload("rla") = R("Deployment", "rla")
    /\ Workload("psm") = R("Deployment", "psm")
    /\ Workload("dhcp") = R("DaemonSet", "dhcp")
    /\ Workload("dns") = R("DaemonSet", "dns")
BY DEF Workload

LEMMA GatedKinds ==
    ASSUME NEW o \in Workloads \cup Jobs
    PROVE  o.kind \in {"Deployment", "DaemonSet", "Job"}
BY WorkloadIs DEF Workloads, Jobs, HelmJob, InitJob, R, Services

LEMMA QuietNotGated ==
    ASSUME NEW o \in Quiet
    PROVE  o \notin Workloads \cup Jobs
BY GatedKinds DEF Quiet, QuietKinds, R

\* The names of the services with an identity.
LEMMA saNamesSeq ==
    ASSUME NEW c
    PROVE  saNames(c) \in Seq(Flags)
<1>1. <<"api", "dhcp", "dns", "pxe">> \in Seq(Flags)
  BY DEF Flags
<1>2. <<"rla">> \in Seq(Flags) /\ <<"psm">> \in Seq(Flags) /\ <<>> \in Seq(Flags)
  BY DEF Flags
<1>3. \A s, t \in Seq(Flags) : s \o t \in Seq(Flags)
  OBVIOUS
<1> DEFINE r == IF "rla" \in c.on THEN <<"rla">> ELSE <<>>
           p == IF "psm" \in c.on THEN <<"psm">> ELSE <<>>
<1>4. r \in Seq(Flags) /\ p \in Seq(Flags)
  BY <1>2
<1>5. saNames(c) = <<"api", "dhcp", "dns", "pxe">> \o r \o p
  BY DEF saNames
<1> HIDE DEF r, p
<1> QED
  BY <1>1, <1>3, <1>4, <1>5

LEMMA EachQuiet ==
    ASSUME NEW k \in QuietKinds, NEW ns \in Seq(Flags)
    PROVE  Each(k, ns) \in Seq(Quiet)
<1>1. \A i \in DOMAIN ns : R(k, ns[i]) \in Quiet
  BY DEF Quiet, QuietNames
<1>2. DOMAIN ns = 1 .. Len(ns) /\ Len(ns) \in Nat
  OBVIOUS
<1>3. [i \in 1 .. Len(ns) |-> R(k, ns[i])] \in Seq(Quiet)
  BY <1>1, <1>2
<1> QED
  BY <1>2, <1>3 DEF Each

LEMMA QuietConcat ==
    ASSUME NEW s \in Seq(Quiet), NEW t \in Seq(Quiet)
    PROVE  s \o t \in Seq(Quiet)
OBVIOUS

LEMMA PreparationQuiet ==
    ASSUME NEW c \in Configs
    PROVE  Preparation[c] \in Seq(Quiet)
<1>1. c.tls \in {"nil", "spiffe", "certManager"}
  BY ConfigsAssumption DEF Config
<1>2. /\ R("Namespace", "core") \in Quiet
      /\ R("ConfigMap", "spiffe-helper") \in Quiet
  BY DEF Quiet, QuietKinds, QuietNames
<1>3. /\ Each("ServiceAccount", saNames(c)) \in Seq(Quiet)
      /\ Each("ClusterSPIFFEID", saNames(c)) \in Seq(Quiet)
      /\ Each("Certificate", saNames(c)) \in Seq(Quiet)
  BY saNamesSeq, EachQuiet DEF QuietKinds
<1>4. /\ <<R("Namespace", "core")>> \in Seq(Quiet) /\ <<>> \in Seq(Quiet)
      /\ <<R("ConfigMap", "spiffe-helper")>> \in Seq(Quiet)
  BY <1>2
<1>5. <<R("ConfigMap", "spiffe-helper")>>
        \o Each("ClusterSPIFFEID", saNames(c)) \in Seq(Quiet)
  BY <1>3, <1>4, QuietConcat
<1>6. TLSResources(c) \in Seq(Quiet)
  BY <1>1, <1>3, <1>4, <1>5, Zenon DEF TLSResources
<1>7. <<R("Namespace", "core")>> \o Each("ServiceAccount", saNames(c))
        \in Seq(Quiet)
  BY <1>3, <1>4, QuietConcat
<1>8. <<R("Namespace", "core")>> \o Each("ServiceAccount", saNames(c))
        \o TLSResources(c) \in Seq(Quiet)
  BY <1>6, <1>7, QuietConcat
<1> QED
  BY <1>8 DEF Preparation

LEMMA ConfigQuiet ==
    ASSUME NEW on
    PROVE  LET maps == <<R("ConfigMap", "api"), R("ConfigMap", "casbin")>>
                       \o (IF "dns" \in on THEN <<R("ConfigMap", "dns")>>
                                           ELSE <<>>)
           IN  /\ maps \in Seq(Quiet)
               /\ Append(maps, R("Secret", "api")) \in Seq(Quiet)
<1> DEFINE dns == IF "dns" \in on THEN <<R("ConfigMap", "dns")>> ELSE <<>>
           maps == <<R("ConfigMap", "api"), R("ConfigMap", "casbin")>> \o dns
<1>1. /\ R("ConfigMap", "api") \in Quiet /\ R("ConfigMap", "casbin") \in Quiet
      /\ R("ConfigMap", "dns") \in Quiet /\ R("Secret", "api") \in Quiet
  BY DEF Quiet, QuietKinds, QuietNames, Flags
<1>2. <<R("ConfigMap", "api"), R("ConfigMap", "casbin")>> \in Seq(Quiet)
  BY <1>1
<1>3. dns \in Seq(Quiet)
  BY <1>1
<1>4. maps \in Seq(Quiet)
  BY <1>2, <1>3, QuietConcat
<1>5. Append(maps, R("Secret", "api")) \in Seq(Quiet)
  <2> HIDE DEF maps
  <2> QED
    BY <1>1, <1>4
<1> QED
  BY <1>4, <1>5

-----------------------------------------------------------------------------
(***************************************************************************)
(* What a pass writes, stage by stage.                                     *)
(***************************************************************************)
Installer == {R("ServiceAccount", "vault-helm"),
              R("ClusterRoleBinding", "vault-helm"),
              R("ConfigMap", "vault-values"), HelmJob, InitJob}

Rollouts == Services \cup {"api"}

OwnAt(p) ==
    IF p \in Rollouts THEN {Workload(p), R("Service", p), PXEClaim}
    ELSE IF p = "vault" THEN Installer
    ELSE Quiet

\* A pass that writes at a stage has what the stage asks for.
Gates == /\ pc \in Services => pc \in dep.on
         /\ pc = "dhcp" => ready["api"]
         /\ pc \in {"rla", "psm"} => ready["vault"]

WritesHere ==
    Gates /\ \E ws \in Seq(OwnAt(pc)) : Writes(ws, Invalid, Templates(ws))

Idles == UNCHANGED clusterVars /\ Steady

LEMMA FailWrites ==
    ASSUME NEW ws, Fail(ws)
    PROVE  Writes(ws, Invalid, Templates(ws))
BY DEF Fail, Writes

LEMMA AllWrites ==
    ASSUME NEW ws, WritesAll(ws, Invalid, Templates(ws)), faults' = faults
    PROVE  Writes(ws, Invalid, Templates(ws))
BY DEF Writes, Steady

LEMMA ServiceWrites ==
    ASSUME NEW c, NEW ws, NEW next, Service(c, ws, next)
    PROVE  Writes(ws, Invalid, Templates(ws))
BY FailWrites, AllWrites DEF Service

LEMMA SkipIdles ==
    ASSUME NEW c, NEW next, Skip(c, next)
    PROVE  Idles
BY DEF Skip, Idles, Steady

LEMMA PrepareWrites ==
    ASSUME PassInv, Prepare
    PROVE  WritesHere
<1>1. Preparation[dep] \in Seq(Quiet)
  BY PreparationQuiet DEF PassInv
<1>2. Writes(Preparation[dep], Invalid, Templates(Preparation[dep]))
  BY FailWrites, AllWrites DEF Prepare
<1>3. pc = "prepare" /\ OwnAt(pc) = Quiet /\ Gates
  BY DEF Prepare, OwnAt, Rollouts, Services, Gates
<1> QED
  BY <1>1, <1>2, <1>3 DEF WritesHere

LEMMA ConfigWrites ==
    ASSUME PassInv, reconcileConfig
    PROVE  WritesHere \/ Idles
<1> DEFINE maps == <<R("ConfigMap", "api"), R("ConfigMap", "casbin")>>
                   \o (IF "dns" \in dep.on THEN <<R("ConfigMap", "dns")>>
                                           ELSE <<>>)
           all  == Append(maps, R("Secret", "api"))
<1>1. maps \in Seq(Quiet) /\ all \in Seq(Quiet)
  BY ConfigQuiet
<1>2. \/ Idles
      \/ \E ws \in {maps, all} :
            Fail(ws) \/ (WritesAll(ws, Invalid, Templates(ws)) /\ faults' = faults)
  BY DEF reconcileConfig, Idles, clusterVars, Steady
<1>3. pc = "config" /\ OwnAt(pc) = Quiet /\ Gates
  BY DEF reconcileConfig, OwnAt, Rollouts, Services, Gates
<1> HIDE DEF maps, all
<1> QED
  BY <1>1, <1>2, <1>3, FailWrites, AllWrites DEF WritesHere

LEMMA RolloutWrites ==
    ASSUME NEW c \in Rollouts, pc = c, Gates, NEW next, NEW ws \in Seq(OwnAt(c)),
           Service(c, ws, next)
    PROVE  WritesHere
BY ServiceWrites DEF WritesHere

LEMMA ServiceLists ==
    ASSUME NEW c \in Rollouts
    PROVE  /\ <<Workload(c)>> \in Seq(OwnAt(c))
           /\ <<Workload(c), R("Service", c)>> \in Seq(OwnAt(c))
           /\ <<PXEClaim>> \in Seq(OwnAt(c))
           /\ <<PXEClaim, Workload(c)>> \in Seq(OwnAt(c))
<1>1. /\ Workload(c) \in OwnAt(c) /\ R("Service", c) \in OwnAt(c)
      /\ PXEClaim \in OwnAt(c)
  BY DEF OwnAt
<1> QED
  BY <1>1

LEMMA RolloutsAre ==
    /\ "api" \in Rollouts /\ "dhcp" \in Rollouts /\ "pxe" \in Rollouts
    /\ "dns" \in Rollouts /\ "rla" \in Rollouts /\ "psm" \in Rollouts
BY DEF Rollouts, Services

LEMMA APIWrites ==
    ASSUME reconcileAPI
    PROVE  WritesHere
<1>1. pc = "api" /\ Gates
  BY DEF reconcileAPI, Gates, Services
<1> QED
  BY <1>1, RolloutsAre, ServiceLists, RolloutWrites DEF reconcileAPI

LEMMA DHCPWrites ==
    ASSUME reconcileDHCP
    PROVE  WritesHere \/ Idles
<1>1. pc = "dhcp" /\ ("dhcp" \in dep.on => Gates)
  BY DEF reconcileDHCP, Gates
<1> QED
  BY <1>1, RolloutsAre, ServiceLists, RolloutWrites, SkipIdles DEF reconcileDHCP

LEMMA PXEWrites ==
    ASSUME reconcilePXE
    PROVE  WritesHere \/ Idles
<1>1. pc = "pxe" /\ ("pxe" \in dep.on => Gates)
  BY DEF reconcilePXE, Gates
<1>2. CASE "pxe" \notin dep.on
  BY <1>2, SkipIdles DEF reconcilePXE
<1>3. CASE "pxe" \in dep.on /\ \/ Fail(<<PXEClaim>>)
                               \/ /\ WritesAll(<<PXEClaim>>, Invalid,
                                               Templates(<<PXEClaim>>))
                                  /\ faults' = faults
  <2>1. Writes(<<PXEClaim>>, Invalid, Templates(<<PXEClaim>>))
    BY <1>3, FailWrites, AllWrites
  <2> QED
    BY <1>1, <1>3, <2>1, RolloutsAre, ServiceLists DEF WritesHere
<1>4. CASE "pxe" \in dep.on /\ \/ Service("pxe", <<Workload("pxe")>>, "dns")
                               \/ Service("pxe", <<PXEClaim, Workload("pxe")>>, "dns")
  BY <1>1, <1>4, RolloutsAre, ServiceLists, RolloutWrites
<1> QED
  BY <1>2, <1>3, <1>4 DEF reconcilePXE

LEMMA DNSWrites ==
    ASSUME reconcileDNS
    PROVE  WritesHere \/ Idles
<1>1. pc = "dns" /\ ("dns" \in dep.on => Gates)
  BY DEF reconcileDNS, Gates
<1> QED
  BY <1>1, RolloutsAre, ServiceLists, RolloutWrites, SkipIdles DEF reconcileDNS

LEMMA VaultWrites ==
    ASSUME reconcileVault
    PROVE  WritesHere \/ Idles
<1>1. pc = "vault" /\ Gates /\ OwnAt(pc) = Installer
  BY DEF reconcileVault, Gates, Services, OwnAt, Rollouts
<1>2. CASE Skip("vault", "rla")
  BY <1>2, SkipIdles
<1>3. CASE ExternalVault
  BY <1>3 DEF ExternalVault, VaultFound, Idles, Steady
<1>4. CASE ManagedVault
  <2> DEFINE helm == <<R("ServiceAccount", "vault-helm"),
                       R("ClusterRoleBinding", "vault-helm"),
                       R("ConfigMap", "vault-values"), HelmJob>>
             both == Append(helm, InitJob)
  <2>1. \E ws \in {helm, both} :
           Fail(ws) \/ (WritesAll(ws, Invalid, Templates(ws)) /\ faults' = faults)
    BY <1>4 DEF ManagedVault, VaultFound
  <2>2. helm \in Seq(Installer) /\ InitJob \in Installer
    BY DEF Installer
  <2> HIDE DEF helm
  <2>3. both \in Seq(Installer)
    BY <2>2
  <2> HIDE DEF both
  <2> QED
    BY <1>1, <2>1, <2>2, <2>3, FailWrites, AllWrites DEF WritesHere
<1> QED
  BY <1>2, <1>3, <1>4 DEF reconcileVault

LEMMA AddonWrites ==
    ASSUME reconcileRLA \/ reconcilePSM
    PROVE  WritesHere \/ Idles
<1>1. CASE reconcileRLA
  <2>1. pc = "rla" /\ (ready["vault"] /\ "rla" \in dep.on => Gates)
    BY <1>1 DEF reconcileRLA, Gates
  <2> QED
    BY <1>1, <2>1, RolloutsAre, ServiceLists, RolloutWrites, SkipIdles
       DEF reconcileRLA
<1>2. CASE reconcilePSM
  <2>1. pc = "psm" /\ (ready["vault"] /\ "psm" \in dep.on => Gates)
    BY <1>2 DEF reconcilePSM, Gates
  <2> QED
    BY <1>2, <2>1, RolloutsAre, ServiceLists, RolloutWrites, SkipIdles
       DEF reconcilePSM
<1> QED
  BY <1>1, <1>2

LEMMA StageWrites ==
    ASSUME PassInv, Reconcile
    PROVE  WritesHere \/ Idles
<1>1. CASE Start \/ WaitForCerts \/ SkipRest \/ Verdict
  BY <1>1 DEF Start, StartPass, WaitForCerts, SkipRest, Verdict, Idles, Steady
<1> QED
  BY <1>1, PrepareWrites, ConfigWrites, APIWrites, DHCPWrites, PXEWrites,
     DNSWrites, VaultWrites, AddonWrites DEF Reconcile

LEMMA HereTouches ==
    ASSUME WritesHere, NEW o, Changes(o)
    PROVE  o \in OwnAt(pc) /\ objs'[o] = Template(o)
<1>1. PICK ws \in Seq(OwnAt(pc)) : Writes(ws, Invalid, Templates(ws))
  BY DEF WritesHere
<1>2. o \in Whole(ws) /\ o \in OwnAt(pc) /\ objs'[o] = Templates(ws)[o]
  BY <1>1, WritesTouch
<1> QED
  BY <1>2 DEF Templates, Whole

\* The cluster makes no workloads and no Jobs.
LEMMA ClusterTouches ==
    ASSUME Cluster, NEW o \in Workloads \cup Jobs
    PROVE  ~Changes(o)
<1>1. o \notin Quiet /\ o \notin Provided
  BY QuietNotGated, OwnAssumption
<1>2. o.kind \in {"Deployment", "DaemonSet", "Job"}
  BY <1>1, GatedKinds
<1>3. Initialised # o /\ Unseal # o /\ \A c : R("TLSSecret", c) # o
  BY <1>2 DEF Initialised, Unseal, R
<1>4. CASE \E x \in Provided : Provide(x)
  BY <1>1, <1>4 DEF Provide, Changes, Exists
<1>5. CASE \E c \in Services \cup {"api"} : WorkloadUp(c) \/ CertIssued(c)
  BY <1>3, <1>5 DEF WorkloadUp, ComesUp, CertIssued, Changes, Exists
<1>6. CASE \E j \in Jobs : JobCompletes(j) \/ JobFails(j) \/ JobExpires(j, Due(j))
  BY <1>3, <1>6 DEF JobCompletes, ComesUp, JobFails, JobExpires, Changes, Exists
<1>7. CASE \E x \in Workloads : GoesDown(x) \/ CacheCatchesUp(x)
  BY <1>7, NoChange DEF GoesDown, CacheCatchesUp
<1>8. CASE ClaimBound
  BY <1>8 DEF ClaimBound, ComesUp, Changes, Exists
<1>9. CASE KeysLost
  BY <1>3, <1>9 DEF KeysLost, Changes, Exists
<1> QED
  BY <1>4, <1>5, <1>6, <1>7, <1>8, <1>9 DEF Cluster

\* Only the pass writes workloads and Jobs, at their stage.
LEMMA WhoWrites ==
    ASSUME PassInv, [CoreNext]_vars, NEW o \in Workloads \cup Jobs, Changes(o)
    PROVE  /\ Gates /\ o \in OwnAt(pc) /\ objs'[o] = Template(o)
           /\ Reconcile /\ DOMAIN objs \subseteq DOMAIN objs'
<1>1. CASE ChangeConfig \/ UNCHANGED vars
  BY <1>1, NoChange DEF ChangeConfig, vars
<1>2. CASE Reconcile
  <2>1. ~Idles
    BY NoChange DEF Idles, clusterVars
  <2>2. WritesHere
    BY <1>2, <2>1, StageWrites
  <2>3. DOMAIN objs \subseteq DOMAIN objs'
    BY <2>2, WritesGrow DEF WritesHere
  <2> QED
    BY <1>2, <2>2, <2>3, HereTouches DEF WritesHere
<1> QED
  BY <1>1, <1>2, ClusterTouches DEF CoreNext

\* The stage of a workload is the one of its name.
LEMMA StageOf ==
    ASSUME NEW p \in Stages, NEW o \in Workloads \cup Jobs, o \in OwnAt(p)
    PROVE  \/ p \in Rollouts /\ o = Workload(p) /\ o.of = p
           \/ p = "vault" /\ o \in Jobs
<1>1. o.kind \in {"Deployment", "DaemonSet", "Job"} /\ o \notin Quiet
  BY GatedKinds, QuietNotGated
<1>2. CASE p \in Rollouts
  <2>1. o = Workload(p)
    BY <1>1, <1>2 DEF OwnAt, R, PXEClaim
  <2> QED
    BY <1>2, <2>1, WorkloadIs DEF Rollouts, Services, R
<1>3. CASE p = "vault"
  <2>1. o \in Installer
    BY <1>3 DEF OwnAt, Rollouts, Services
  <2> QED
    BY <1>1, <1>3, <2>1 DEF Installer, R, Jobs
<1>4. CASE p \notin Rollouts /\ p # "vault"
  BY <1>1, <1>4 DEF OwnAt
<1> QED
  BY <1>2, <1>3, <1>4

-----------------------------------------------------------------------------
\* The API was found ready by a pass that got past its gate.
LEMMA PastGate ==
    ASSUME OrderInv, pc = "dhcp" /\ ready["api"]
    PROVE  "api" \in found
<1>1. Sound("api") /\ dep.profile # "management"
  BY DEF OrderInv, PassInv, Settled
<1>2. "api" \in Expected(dep)
  BY <1>1 DEF Expected
<1> QED
  BY <1>1, <1>2 DEF Sound

\* RLA and PSM come after Vault, where there is one.
LEMMA VaultFirst ==
    ASSUME OrderInv, pc \in {"rla", "psm"}, ready["vault"], dep.vault # "nil"
    PROVE  "vault" \in found
<1>1. dep.profile # "management"
  BY DEF OrderInv
<1>2. "vault" \in Expected(dep)
  BY <1>1 DEF Expected
<1>3. Sound("vault")
  BY DEF OrderInv, PassInv, Settled, Flags
<1> QED
  BY <1>2, <1>3 DEF Sound

LEMMA StepInOrder ==
    ASSUME OrderInv, [CoreNext]_vars, NEW o \in Gated, Changes(o)
    PROVE  Allowed(o)
<1>1. o \in Workloads \cup Jobs /\ o # Workload("api")
  BY DEF Gated
<1>2. Gates /\ o \in OwnAt(pc) /\ pc \in Stages
  BY <1>1, WhoWrites DEF OrderInv, PassInv
<1>3. CASE pc = "vault" /\ o \in Jobs
  <2>1. o.of \notin {"rla", "psm"}
    BY <1>3 DEF Jobs, HelmJob, InitJob, R
  <2> QED
    BY <1>3, <2>1 DEF Allowed, OrderInv
<1>4. CASE pc \in Rollouts /\ o = Workload(pc) /\ o.of = pc
  <2>1. pc \in Services
    BY <1>1, <1>4 DEF Rollouts
  <2>2. "api" \in found
    BY <1>2, <2>1, PastGate DEF Gates, Services, OrderInv
  <2>3. pc \in {"rla", "psm"} /\ dep.vault # "nil" => "vault" \in found
    BY <1>2, VaultFirst DEF Gates
  <2> QED
    BY <1>4, <2>2, <2>3 DEF Allowed
<1> QED
  BY <1>1, <1>2, <1>3, <1>4, StageOf

-----------------------------------------------------------------------------
\* A pass keeps its copy, forgets nothing and only finds components.
SamePass == dep' = dep /\ found \subseteq found' /\ found' \subseteq found \cup Flags

LEMMA PassGoesOn ==
    ASSUME Reconcile, ~Start
    PROVE  SamePass /\ pc # "idle"
<1>1. ASSUME NEW c \in Flags, NEW ws, NEW next, Service(c, ws, next)
      PROVE  SamePass
  BY <1>1 DEF SamePass, Service, Fail, Finds, Flag, Return, NothingFound
<1>2. \A ws : Fail(ws) => SamePass
  BY DEF SamePass, Fail, Return, NothingFound
<1>3. \A c, next : Skip(c, next) => SamePass
  BY DEF SamePass, Skip, NothingFound
<1>4. \A yes : VaultFound(yes) => SamePass
  BY DEF SamePass, VaultFound, Flag, Flags
<1>5. CASE Prepare \/ WaitForCerts \/ reconcileConfig
  BY <1>2, <1>5 DEF SamePass, Prepare, WaitForCerts, reconcileConfig, Return,
                    NothingFound
<1>6. CASE reconcileAPI \/ SkipRest \/ reconcileDHCP \/ reconcileDNS
  BY <1>1, <1>3, <1>6 DEF SamePass, reconcileAPI, SkipRest, reconcileDHCP,
                          reconcileDNS, Flags
<1>7. CASE reconcilePXE
  BY <1>1, <1>2, <1>3, <1>7 DEF SamePass, reconcilePXE, NothingFound, Flags
<1>8. CASE reconcileVault
  <2>1. ManagedVault => SamePass
    BY <1>2, <1>4 DEF SamePass, ManagedVault, Return, NothingFound
  <2>2. ExternalVault => SamePass
    BY <1>4 DEF SamePass, ExternalVault, Return, NothingFound
  <2> QED
    BY <1>3, <1>8, <2>1, <2>2 DEF reconcileVault
<1>9. CASE reconcileRLA \/ reconcilePSM \/ Verdict
  BY <1>1, <1>3, <1>9 DEF SamePass, reconcileRLA, reconcilePSM, Verdict, Return,
                          NothingFound, Flags
<1> QED
  BY <1>5, <1>6, <1>7, <1>8, <1>9 DEF Reconcile

Beyond == {"pxe", "dns", "vault", "rla", "psm"}

\* Nothing but the gate leads to the services.
LEMMA OnlyGate ==
    ASSUME Reconcile, pc' \in Beyond
    PROVE  pc \in Beyond \/ (pc = "dhcp" /\ ready["api"])
<1>1. ASSUME pc \in {"idle", "prepare", "certs", "config", "api", "verdict"}
      PROVE  pc' \notin Beyond
  BY <1>1 DEF Reconcile, Beyond, Start, StartPass, Prepare, WaitForCerts,
     reconcileConfig, reconcileAPI, Service, Fail, Return, SkipRest, reconcileDHCP,
     reconcilePXE, reconcileDNS, reconcileVault, reconcileRLA, reconcilePSM, Verdict
<1>2. pc = "dhcp" => SkipRest \/ reconcileDHCP
  BY DEF Reconcile, Start, StartPass, Prepare, WaitForCerts, reconcileConfig,
     reconcileAPI, reconcilePXE, reconcileDNS, reconcileVault, reconcileRLA,
     reconcilePSM, Verdict
<1>3. pc \in Stages
  BY DEF Reconcile, Start, StartPass, Prepare, WaitForCerts, reconcileConfig,
     reconcileAPI, SkipRest, reconcileDHCP, reconcilePXE, reconcileDNS,
     reconcileVault, reconcileRLA, reconcilePSM, Verdict, Stages
<1>4. pc = "dhcp" => ready["api"]
  BY <1>2 DEF SkipRest, reconcileDHCP, Beyond
<1> QED
  BY <1>1, <1>3, <1>4 DEF Stages, Beyond

LEMMA OrderStep ==
    ASSUME OrderInv, [CoreNext]_vars
    PROVE  OrderInv'
<1>0. PassInv'
  BY StepKeeps DEF OrderInv
<1>1. CASE Start
  <2>1. pc' \in {"idle", "prepare"} /\ dep' = cfg
        /\ (pc' = "prepare" => cfg.profile # "management")
    BY <1>1 DEF Start, StartPass
  <2> QED
    BY <1>0, <2>1 DEF OrderInv
<1>2. CASE Reconcile /\ ~Start
  <2>1. dep' = dep /\ found \subseteq found' /\ pc # "idle"
    BY <1>2, PassGoesOn DEF SamePass
  <2>2. pc' \in Beyond => "api" \in found
    BY <1>2, OnlyGate, PastGate DEF OrderInv, Beyond
  <2> QED
    BY <1>0, <2>1, <2>2 DEF OrderInv, Beyond
<1>3. CASE Cluster \/ ChangeConfig \/ UNCHANGED vars
  <2>1. dep' = dep /\ pc' = pc /\ found' = found
    BY <1>3, ClusterAside DEF Aside, vars, OrderInv
  <2> QED
    BY <1>0, <2>1 DEF OrderInv
<1> QED
  BY <1>1, <1>2, <1>3 DEF CoreNext

(***************************************************************************)
(* docs/ARCHITECTURE.md:421-424 for all configurations and failures: the   *)
(* network services and Vault are written, or changed, only by a pass that *)
(* found the API ready (core_reconciler.go:194), RLA and PSM only by one   *)
(* that found Vault ready too.  The invariant adds that the gate of the    *)
(* API is the only way to the services.                                    *)
(***************************************************************************)
THEOREM InOrder == CoreSpec => ServicesFollowAPI
<1>1. CoreInit => OrderInv
  BY InitKeeps DEF OrderInv, CoreInit, InitPass
<1>2. OrderInv /\ [CoreNext]_vars => OrderInv'
  BY OrderStep
<1>3. OrderInv /\ [CoreNext]_vars =>
        [\A o \in (Workloads \cup Jobs) \ {Workload("api")} :
          Changes(o) =>
              /\ "api" \in found
              /\ o.of \in {"rla", "psm"} /\ dep.vault # "nil"
                    => "vault" \in found]_vars
  BY StepInOrder DEF Gated, Allowed
<1> QED
  BY <1>1, <1>2, <1>3, PTL DEF CoreSpec, ServicesFollowAPI

-----------------------------------------------------------------------------
(***************************************************************************)
(* Everything a workload mounts is there before it.                        *)
(***************************************************************************)
\* The services with an identity.
Named(c) == {"api", "dhcp", "dns", "pxe"} \cup ({"rla", "psm"} \cap c.on)

\* What a pass over c has behind it once it is past a stage.
PastPrepare(c) ==
    {R("ServiceAccount", n) : n \in Named(c)}
    \cup (IF c.tls = "spiffe"
          THEN {R("ConfigMap", "spiffe-helper")}
               \cup {R("ClusterSPIFFEID", n) : n \in Named(c)}
          ELSE {})

PastCerts(c) == IF c.tls = "certManager"
                THEN {R("TLSSecret", n) : n \in Named(c)} ELSE {}

PastConfig(c) ==
    {R("ConfigMap", "api"), R("ConfigMap", "casbin"), PgUser(c.db, "carbide")}
    \cup (IF "dns" \in c.on THEN {R("ConfigMap", "dns")} ELSE {})

PastVault(c) == IF c.vault = "external" THEN {Token} ELSE {}

Made(p, c) ==
    (IF p \in {"idle", "prepare"} THEN {} ELSE PastPrepare(c))
    \cup (IF p \in {"idle", "prepare", "certs"} THEN {} ELSE PastCerts(c))
    \cup (IF p \in {"idle", "prepare", "certs", "config"} THEN {}
          ELSE PastConfig(c))
    \cup (IF p \in {"rla", "psm"} THEN PastVault(c) ELSE {})

\* Of the resources there are, those that are never removed.
Lasting == {o \in DOMAIN objs : o.kind # "Job"}

Supported(c) ==
    Exists(Workload(c)) =>
        Refs(c, objs[Workload(c)]) \ Elsewhere(c) \subseteq Lasting

MadeInv ==
    /\ PassInv
    /\ Made(pc, dep) \subseteq DOMAIN objs
    /\ \A c \in Rollouts : Supported(c)

LEMMA KindOf == \A k, n : R(k, n).kind = k /\ R(k, n).of = n
BY DEF R

\* None of it is a Job.
LEMMA MadeLasting ==
    ASSUME NEW p, NEW c, NEW o \in Made(p, c)
    PROVE  o.kind # "Job"
<1>1. CASE o \in PastPrepare(c) \cup PastCerts(c)
  BY <1>1, KindOf DEF PastPrepare, PastCerts
<1>2. CASE o \in PastConfig(c) \cup PastVault(c)
  BY <1>2, KindOf DEF PastConfig, PastVault, PgUser, Token
<1> QED
  BY <1>1, <1>2 DEF Made

LEMMA saNamesAre ==
    ASSUME NEW c
    PROVE  Whole(saNames(c)) = Named(c)
<1> DEFINE base == <<"api", "dhcp", "dns", "pxe">>
           r == IF "rla" \in c.on THEN <<"rla">> ELSE <<>>
           p == IF "psm" \in c.on THEN <<"psm">> ELSE <<>>
<1>1. base \in Seq(Flags) /\ r \in Seq(Flags) /\ p \in Seq(Flags)
  <2>1. <<"rla">> \in Seq(Flags) /\ <<"psm">> \in Seq(Flags) /\ <<>> \in Seq(Flags)
    BY DEF Flags
  <2>2. base \in Seq(Flags)
    BY DEF Flags
  <2> QED
    BY <2>1, <2>2
<1>2. Whole(base) = {"api", "dhcp", "dns", "pxe"}
  <2>1. /\ Len(base) = 4 /\ base[1] = "api" /\ base[2] = "dhcp"
        /\ base[3] = "dns" /\ base[4] = "pxe"
    OBVIOUS
  <2>2. 1 .. 4 = {1, 2, 3, 4}
    OBVIOUS
  <2> HIDE DEF base
  <2> QED
    BY <2>1, <2>2 DEF Whole, First
<1>3. Whole(r) = {"rla"} \cap c.on /\ Whole(p) = {"psm"} \cap c.on
  BY WholeOne
<1>4. saNames(c) = base \o r \o p
  BY DEF saNames
<1> HIDE DEF base, r, p
<1>5. Whole(base \o r \o p) = Whole(base) \cup Whole(r) \cup Whole(p)
  BY <1>1, WholeThree
<1> QED
  BY <1>2, <1>3, <1>4, <1>5 DEF Named

\* The preparation makes the identities.
LEMMA PreparationMakes ==
    ASSUME NEW c \in Configs
    PROVE  PastPrepare(c) \subseteq Whole(Preparation[c])
<1> DEFINE home == <<R("Namespace", "core")>>
           sas  == Each("ServiceAccount", saNames(c))
           ids  == Each("ClusterSPIFFEID", saNames(c))
           conf == <<R("ConfigMap", "spiffe-helper")>>
<1>1. c.tls \in {"nil", "spiffe", "certManager"}
  BY ConfigsAssumption DEF Config
<1>2. /\ sas \in Seq(Quiet) /\ ids \in Seq(Quiet)
      /\ Each("Certificate", saNames(c)) \in Seq(Quiet)
  BY saNamesSeq, EachQuiet DEF QuietKinds
<1>3. home \in Seq(Quiet) /\ conf \in Seq(Quiet) /\ <<>> \in Seq(Quiet)
  <2>1. /\ R("Namespace", "core") \in Quiet
        /\ R("ConfigMap", "spiffe-helper") \in Quiet
    BY DEF Quiet, QuietKinds, QuietNames
  <2> QED
    BY <2>1
<1>4. /\ Whole(sas) = {R("ServiceAccount", n) : n \in Named(c)}
      /\ Whole(ids) = {R("ClusterSPIFFEID", n) : n \in Named(c)}
  BY saNamesSeq, saNamesAre, WholeEach
<1>5. Whole(conf) = {R("ConfigMap", "spiffe-helper")}
  BY WholeOne
<1>6. Preparation[c] = home \o sas \o TLSResources(c)
  BY DEF Preparation
<1>7. c.tls = "spiffe" => TLSResources(c) = conf \o ids
  BY Zenon DEF TLSResources
<1> HIDE DEF home, sas, ids, conf
<1>8. conf \o ids \in Seq(Quiet) /\ Whole(conf \o ids) = Whole(conf) \cup Whole(ids)
  BY <1>2, <1>3, WholeConcat
<1>9. TLSResources(c) \in Seq(Quiet)
  BY <1>1, <1>2, <1>3, <1>7, <1>8, Zenon DEF TLSResources
<1>10. Whole(Preparation[c]) =
          Whole(home) \cup Whole(sas) \cup Whole(TLSResources(c))
  BY <1>2, <1>3, <1>6, <1>9, WholeThree
<1> QED
  BY <1>4, <1>5, <1>7, <1>8, <1>10 DEF PastPrepare

\* The configuration step makes the ConfigMaps.
LEMMA ConfigMakes ==
    ASSUME NEW on
    PROVE  LET maps == <<R("ConfigMap", "api"), R("ConfigMap", "casbin")>>
                       \o (IF "dns" \in on THEN <<R("ConfigMap", "dns")>>
                                           ELSE <<>>)
           IN  {R("ConfigMap", "api"), R("ConfigMap", "casbin")}
               \cup (IF "dns" \in on THEN {R("ConfigMap", "dns")} ELSE {})
               \subseteq Whole(Append(maps, R("Secret", "api")))
<1> DEFINE base == <<R("ConfigMap", "api"), R("ConfigMap", "casbin")>>
           dns  == IF "dns" \in on THEN <<R("ConfigMap", "dns")>> ELSE <<>>
           maps == base \o dns
<1>1. R("Secret", "api") \in Quiet
  BY DEF Quiet, QuietKinds, QuietNames, Flags
<1>2. base \in Seq(Quiet) /\ dns \in Seq(Quiet)
  <2>1. /\ R("ConfigMap", "api") \in Quiet /\ R("ConfigMap", "casbin") \in Quiet
        /\ R("ConfigMap", "dns") \in Quiet
    BY DEF Quiet, QuietKinds, QuietNames, Flags
  <2>2. <<R("ConfigMap", "dns")>> \in Seq(Quiet) /\ <<>> \in Seq(Quiet)
    BY <2>1
  <2>3. base \in Seq(Quiet)
    BY <2>1
  <2> QED
    BY <2>2, <2>3
<1>3. Whole(base) = {R("ConfigMap", "api"), R("ConfigMap", "casbin")}
  BY WholeTwo
<1>4. Whole(dns) = IF "dns" \in on THEN {R("ConfigMap", "dns")} ELSE {}
  BY WholeOne
<1> HIDE DEF base, dns
<1>5. maps \in Seq(Quiet) /\ Whole(maps) = Whole(base) \cup Whole(dns)
  BY <1>2, WholeConcat
<1> HIDE DEF maps
<1>6. Whole(Append(maps, R("Secret", "api"))) = Whole(maps) \cup {R("Secret", "api")}
  BY <1>1, <1>5, WholeAppend
<1> QED
  BY <1>3, <1>4, <1>5, <1>6 DEF base, dns, maps

LEMMA TLSMade ==
    ASSUME NEW c \in Named(dep), dep.tls \in {"nil", "spiffe", "certManager"}
    PROVE  TLSRefs(c, dep.tls) \subseteq PastPrepare(dep) \cup PastCerts(dep)
<1>1. CASE dep.tls = "spiffe"
  <2>1. TLSRefs(c, dep.tls) = SpiffeRefs(c)
    BY <1>1, Zenon DEF TLSRefs
  <2> QED
    BY <1>1, <2>1 DEF SpiffeRefs, PastPrepare
<1>2. CASE dep.tls = "certManager"
  <2>1. TLSRefs(c, dep.tls) = CertRefs(c)
    BY <1>2, Zenon DEF TLSRefs
  <2> QED
    BY <1>2, <2>1 DEF CertRefs, PastCerts
<1>3. CASE dep.tls = "nil"
  BY <1>3, Zenon DEF TLSRefs
<1> QED
  BY <1>1, <1>2, <1>3

LEMMA VaultRefsAre ==
    ASSUME NEW t
    PROVE  /\ VaultRefs(t) \subseteq {Unseal, Token}
           /\ Token \in VaultRefs(t) => t.vault = "external"
<1>1. CASE t.vault = "managed"
  <2>1. VaultRefs(t) = {Unseal}
    BY <1>1, Zenon DEF VaultRefs
  <2> QED
    BY <2>1 DEF Unseal, Token, R
<1>2. CASE t.vault = "external"
  <2>1. VaultRefs(t) = {Token}
    BY <1>2, Zenon DEF VaultRefs
  <2> QED
    BY <1>2, <2>1
<1>3. CASE t.vault # "managed" /\ t.vault # "external"
  <2>1. VaultRefs(t) = {}
    BY <1>3, Zenon DEF VaultRefs
  <2> QED
    BY <2>1
<1> QED
  BY <1>1, <1>2, <1>3

LEMMA RefsOf ==
    ASSUME NEW t
    PROVE  /\ Refs("api", t) = {R("ServiceAccount", "api")}
                               \cup TLSRefs("api", t.tls) \cup APIRefs(t)
           /\ Refs("pxe", t) = {R("ServiceAccount", "pxe")}
                               \cup TLSRefs("pxe", t.tls) \cup PXERefs(t)
           /\ Refs("dns", t) = {R("ServiceAccount", "dns")}
                               \cup TLSRefs("dns", t.tls) \cup DNSRefs
           /\ Refs("rla", t) = {R("ServiceAccount", "rla")}
                               \cup TLSRefs("rla", t.tls) \cup RLARefs(t)
           /\ Refs("psm", t) = {R("ServiceAccount", "psm")}
                               \cup TLSRefs("psm", t.tls) \cup PSMRefs(t)
           /\ Refs("dhcp", t) = {R("ServiceAccount", "dhcp")}
                                \cup TLSRefs("dhcp", t.tls) \cup {}
BY DEF Refs

\* The template of a workload is read off the pass's copy.
LEMMA TemplateOf ==
    ASSUME NEW c \in Rollouts
    PROVE  LET t == Template(Workload(c))
           IN  /\ t.tls = dep.tls /\ t.apart = dep.apart
               /\ c \in {"api", "psm"} => t.vault = dep.vault
               /\ c \in {"api", "rla", "psm"} => t.db = dep.db
<1>1. RollsOut(Workload(c)) /\ Workload(c).of = c
  BY WorkloadIs DEF Rollouts, Services, RollsOut, R
<1> QED
  BY <1>1 DEF Template

\* The Secret of a user is a copy, or the one of the database.
LEMMA SecretOf ==
    ASSUME NEW t, NEW u, t.db = dep.db, t.apart = dep.apart
    PROVE  ResolveUserSecret(t, u) \in {Copied(u), PgUser(dep.db, u)}
BY DEF ResolveUserSecret

\* A pass that rolls out a service has all its pods refer to.
LEMMA RefsMade ==
    ASSUME PassInv, Gates, NEW c \in Rollouts, pc = c
    PROVE  Refs(c, Template(Workload(c))) \ Elsewhere(c) \subseteq Made(pc, dep)
<1> DEFINE t == Template(Workload(c))
<1>1. /\ t.tls = dep.tls /\ t.apart = dep.apart
      /\ c \in {"api", "psm"} => t.vault = dep.vault
      /\ c \in {"api", "rla", "psm"} => t.db = dep.db
  BY TemplateOf
<1> HIDE DEF t
<1>2. dep.tls \in {"nil", "spiffe", "certManager"}
      /\ dep.db \in {"nil", "managed", "external", "noSecrets"}
  BY ConfigsAssumption DEF PassInv, Config
<1>3. c \in Named(dep)
  BY DEF Gates, Named, Rollouts, Services
<1>4. {R("ServiceAccount", c)} \cup TLSRefs(c, t.tls) \subseteq Made(pc, dep)
  <2>1. Made(pc, dep) = PastPrepare(dep) \cup PastCerts(dep) \cup PastConfig(dep)
                        \cup (IF pc \in {"rla", "psm"} THEN PastVault(dep) ELSE {})
    BY DEF Made, Rollouts, Services
  <2>2. R("ServiceAccount", c) \in PastPrepare(dep)
    BY <1>3 DEF PastPrepare
  <2> QED
    BY <1>1, <1>2, <1>3, <2>1, <2>2, TLSMade
<1>5. PastConfig(dep) \subseteq Made(pc, dep)
      /\ (pc = "psm" => PastVault(dep) \subseteq Made(pc, dep))
  BY DEF Made, Rollouts, Services
<1>6. \A u \in {"carbide", "rla", "psm"} : Copied(u) \in Elsewhere(c)
  BY DEF Elsewhere
<1>7. \A u \in {"rla", "psm"} : PgUser(dep.db, u) \in Elsewhere(c)
  <2> TAKE u \in {"rla", "psm"}
  <2>1. PgUser(dep.db, u) \in {PgUser("managed", u), PgUser("external", u)}
    BY DEF PgUser
  <2> QED
    BY <2>1 DEF Elsewhere
<1>8. Unseal \in Elsewhere(c) /\ (c # "psm" => Token \in Elsewhere(c))
      /\ R("Secret", "pxe-certificate") \in Elsewhere(c)
  BY DEF Elsewhere
<1>9. CASE c = "api"
  <2>1. APIRefs(t) \subseteq PastConfig(dep) \cup Elsewhere(c)
    <3>1. ResolveUserSecret(t, "carbide") \in PastConfig(dep) \cup Elsewhere(c)
      BY <1>1, <1>6, <1>9, SecretOf DEF PastConfig
    <3>2. VaultRefs(t) \subseteq Elsewhere(c)
      BY <1>8, <1>9, VaultRefsAre
    <3>3. {R("ConfigMap", "api"), R("ConfigMap", "casbin")} \subseteq PastConfig(dep)
      BY DEF PastConfig
    <3> QED
      BY <3>1, <3>2, <3>3 DEF APIRefs
  <2> QED
    BY <1>4, <1>5, <1>9, <2>1, RefsOf DEF t
<1>10. CASE c = "pxe"
  <2>1. PXERefs(t) \subseteq Elsewhere(c)
    BY <1>8 DEF PXERefs
  <2> QED
    BY <1>4, <1>10, <2>1, RefsOf DEF t
<1>11. CASE c = "dns"
  <2>1. DNSRefs \subseteq PastConfig(dep)
    BY <1>11 DEF DNSRefs, PastConfig, Gates, Services
  <2> QED
    BY <1>4, <1>5, <1>11, <2>1, RefsOf DEF t
<1>12. CASE c = "rla"
  <2>1. RLARefs(t) \subseteq Elsewhere(c)
    BY <1>1, <1>6, <1>7, <1>12, SecretOf DEF RLARefs
  <2> QED
    BY <1>4, <1>12, <2>1, RefsOf DEF t
<1>13. CASE c = "psm"
  <2>1. ResolveUserSecret(t, "psm") \in Elsewhere(c)
    BY <1>1, <1>6, <1>7, <1>13, SecretOf
  <2>2. VaultRefs(t) \subseteq PastVault(dep) \cup Elsewhere(c)
    BY <1>1, <1>8, <1>13, VaultRefsAre DEF PastVault
  <2> QED
    BY <1>4, <1>5, <1>13, <2>1, <2>2, RefsOf DEF t, PSMRefs
<1>14. CASE c = "dhcp"
  BY <1>4, <1>14, RefsOf DEF t
<1> QED
  BY <1>9, <1>10, <1>11, <1>12, <1>13, <1>14 DEF Rollouts, Services

-----------------------------------------------------------------------------
(***************************************************************************)
(* What the steps do to the cluster as a whole.                            *)
(***************************************************************************)
LEMMA OwnTyped ==
    ASSUME NEW p \in Stages
    PROVE  /\ OwnAt(p) \subseteq Resources
           /\ \A o \in OwnAt(p) : RollsOut(o) => o \in Workloads
<1>1. CASE p \in Rollouts
  <2>1. OwnAt(p) = {Workload(p), R("Service", p), PXEClaim}
    BY <1>1 DEF OwnAt
  <2>2. Workload(p) \in Workloads /\ Workload(p) \in Resources
    BY <1>1, WorkloadIs DEF Workloads, Rollouts, Services, Resources, R, Flags
  <2>3. R("Service", p) \in Resources /\ PXEClaim \in Resources
    BY <1>1 DEF Rollouts, Services, Resources, R, PXEClaim, Flags
  <2>4. ~RollsOut(R("Service", p)) /\ ~RollsOut(PXEClaim)
    BY DEF RollsOut, R, PXEClaim
  <2> QED
    BY <2>1, <2>2, <2>3, <2>4
<1>2. CASE p = "vault"
  <2>1. OwnAt(p) = Installer
    BY <1>2 DEF OwnAt, Rollouts, Services
  <2> QED
    BY <2>1 DEF Installer, HelmJob, InitJob, R, Resources, RollsOut
<1>3. CASE p \notin Rollouts /\ p # "vault"
  <2>1. OwnAt(p) = Quiet
    BY <1>3 DEF OwnAt
  <2>2. Quiet \subseteq Resources
    BY DEF Quiet, QuietKinds, QuietNames, R, Resources
  <2>3. \A o \in Quiet : ~RollsOut(o)
    BY DEF Quiet, QuietKinds, R, RollsOut
  <2> QED
    BY <2>1, <2>2, <2>3
<1> QED
  BY <1>1, <1>2, <1>3

ClusterTyped == ClusterOK(Resources, Workloads, Jobs)

LEMMA PassTyped ==
    ASSUME PassInv, ClusterTyped, Reconcile
    PROVE  ClusterTyped' /\ Kept
<1>1. CASE Idles
  BY <1>1, SameTyped DEF Idles, ClusterTyped
<1>2. CASE WritesHere
  <2>1. PICK ws \in Seq(OwnAt(pc)) : Writes(ws, Invalid, Templates(ws))
    BY <1>2 DEF WritesHere
  <2>2. /\ OwnAt(pc) \subseteq Resources
        /\ \A o \in OwnAt(pc) : RollsOut(o) => o \in Workloads
    BY OwnTyped DEF PassInv
  <2> QED
    BY <2>1, <2>2, WritesTyped, WritesGrow DEF ClusterTyped
<1> QED
  BY <1>1, <1>2, StageWrites

LEMMA OthersTyped ==
    ASSUME ClusterTyped, Cluster
    PROVE  ClusterTyped' /\ Kept
<1>1. /\ Initialised \in Resources /\ Unseal \in Resources /\ {} \subseteq Resources
      /\ \A c \in Services \cup {"api"} : R("TLSSecret", c) \in Resources
  BY DEF Initialised, Unseal, R, Resources, Services, Flags
<1>2. CASE \E o \in Provided : Provide(o)
  BY <1>2, ProvideTyped, ProvidedAssumption DEF ClusterTyped
<1>3. CASE \E c \in Services \cup {"api"} : WorkloadUp(c) \/ CertIssued(c)
  BY <1>1, <1>3, ComesUpTyped, CertTyped DEF ClusterTyped, WorkloadUp
<1>4. CASE \E j \in Jobs : JobCompletes(j)
  BY <1>1, <1>4, ComesUpTyped DEF ClusterTyped, JobCompletes
<1>5. CASE \E j \in Jobs : JobFails(j) \/ JobExpires(j, Due(j))
  BY <1>5, JobFailsTyped, JobExpiresTyped DEF ClusterTyped
<1>6. CASE \E o \in Workloads : GoesDown(o) \/ CacheCatchesUp(o)
  BY <1>6, GoesDownTyped, CacheTyped DEF ClusterTyped
<1>7. CASE ClaimBound
  BY <1>1, <1>7, ComesUpTyped DEF ClusterTyped, ClaimBound
<1>8. CASE KeysLost
  BY <1>1, <1>8, FaultAssumption
     DEF ClusterTyped, ClusterOK, KeysLost, UseFault, Exists, Kept
<1> QED
  BY <1>2, <1>3, <1>4, <1>5, <1>6, <1>7, <1>8 DEF Cluster

LEMMA StepTyped ==
    ASSUME PassInv, ClusterTyped, [CoreNext]_vars
    PROVE  ClusterTyped' /\ Kept
<1>1. CASE ChangeConfig \/ UNCHANGED vars
  BY <1>1, SameTyped DEF ChangeConfig, vars, clusterVars, Steady, ClusterTyped
<1> QED
  BY <1>1, PassTyped, OthersTyped DEF CoreNext

\* What the flags, the history and the verdict can be.
VerdictTyped ==
    /\ found \subseteq Flags
    /\ tier \in [ready : BOOLEAN, error : BOOLEAN, cfg : Configs]

LEMMA VerdictStep ==
    ASSUME PassInv, VerdictTyped, [CoreNext]_vars
    PROVE  VerdictTyped'
<1>1. [Contract!TNext]_(Contract!tvars)
  BY StepKeeps
<1>2. tier' \in [ready : BOOLEAN, error : BOOLEAN, cfg : Configs]
  <2>1. CASE Contract!End
    <3>1. PICK t \in Contract!Verdicts(dep, found') : tier' = t
      BY <2>1 DEF Contract!End
    <3>2. PICK r \in BOOLEAN, e \in BOOLEAN : t = [ready |-> r, error |-> e, cfg |-> dep]
      BY <3>1 DEF Contract!Verdicts
    <3> QED
      BY <3>1, <3>2 DEF PassInv
  <2>2. CASE Contract!NothingToDo
    BY <2>2 DEF Contract!NothingToDo, PassInv
  <2>3. CASE Contract!UserChanges \/ Contract!Begin \/ Contract!Find
    BY <2>3 DEF VerdictTyped, Contract!UserChanges, Contract!Begin, Contract!Find
  <2>4. CASE UNCHANGED Contract!tvars
    BY <2>4 DEF VerdictTyped, Contract!tvars
  <2> QED
    BY <1>1, <2>1, <2>2, <2>3, <2>4 DEF Contract!TNext
<1>3. found' \subseteq Flags
  <2>1. CASE Cluster \/ ChangeConfig \/ UNCHANGED vars
    BY <2>1, ClusterAside DEF Aside, vars, VerdictTyped
  <2>2. CASE Start
    BY <2>2 DEF Start, StartPass
  <2>3. CASE Reconcile /\ ~Start
    BY <2>3, PassGoesOn DEF SamePass, VerdictTyped
  <2> QED
    BY <2>1, <2>2, <2>3 DEF CoreNext
<1> QED
  BY <1>2, <1>3 DEF VerdictTyped

TypeInv == PassInv /\ ClusterTyped /\ VerdictTyped

LEMMA TypeInit == CoreInit => TypeInv
<1> SUFFICES ASSUME CoreInit PROVE TypeInv
  OBVIOUS
<1>1. PassInv
  BY InitKeeps
<1>2. ClusterTyped
  BY InitTyped, ProvidedAssumption DEF CoreInit, ClusterTyped
<1>3. VerdictTyped
  BY DEF CoreInit, InitPass, VerdictTyped
<1> QED
  BY <1>1, <1>2, <1>3 DEF TypeInv

LEMMA TypeStep ==
    ASSUME TypeInv, [CoreNext]_vars
    PROVE  TypeInv'
BY StepKeeps, StepTyped, VerdictStep DEF TypeInv

(***************************************************************************)
(* The types of the core tier for all configurations and failures: what a  *)
(* pass and the cluster do leaves only resources of the tier or supplied   *)
(* ones, no available or failed workload that is not there, and no more    *)
(* failures than the bound.                                                *)
(***************************************************************************)
THEOREM TypeCorrect == CoreSpec => []CoreTypeOK
<1>1. CoreInit => TypeInv
  BY TypeInit
<1>2. TypeInv /\ [CoreNext]_vars => TypeInv'
  BY TypeStep
<1>3. TypeInv => CoreTypeOK
  BY DEF TypeInv, PassInv, Stages, ClusterTyped, ClusterOK, VerdictTyped, CoreTypeOK
<1> QED
  BY <1>1, <1>2, <1>3, PTL DEF CoreSpec

-----------------------------------------------------------------------------
(***************************************************************************)
(* The order of what the workloads mount.                                  *)
(***************************************************************************)
\* What a stage leaves behind it.
LEMMA MadeAhead ==
    ASSUME MadeInv, Reconcile, Kept
    PROVE  Made(pc', dep') \subseteq DOMAIN objs'
<1>0. \A o \in Made(pc, dep) : o \in DOMAIN objs'
  BY MadeLasting DEF MadeInv, Kept
<1>1. CASE pc' \in {"idle", "prepare"}
  BY <1>1 DEF Made
<1>2. CASE Prepare /\ pc' # "idle"
  <2>1. /\ pc = "prepare" /\ dep' = dep
        /\ pc' = IF dep.tls = "certManager" THEN "certs" ELSE "config"
        /\ WritesAll(Preparation[dep], Invalid, Templates(Preparation[dep]))
    BY <1>2 DEF Prepare, Fail, Return
  <2>2. PastPrepare(dep) \subseteq DOMAIN objs'
    BY <2>1, WritesMake, PreparationMakes DEF MadeInv, PassInv
  <2>3. pc' # "certs" => PastCerts(dep) = {}
    BY <2>1 DEF PastCerts
  <2> QED
    BY <2>1, <2>2, <2>3 DEF Made
<1>3. CASE WaitForCerts /\ pc' # "idle"
  <2>1. /\ pc = "certs" /\ dep' = dep /\ pc' = "config" /\ objs' = objs
        /\ \A i \in DOMAIN saNames(dep) : Exists(R("TLSSecret", saNames(dep)[i]))
    BY <1>3 DEF WaitForCerts, Return, clusterVars
  <2>2. \A n \in Whole(saNames(dep)) : R("TLSSecret", n) \in DOMAIN objs
    <3>1. DOMAIN saNames(dep) = 1 .. Len(saNames(dep))
      BY saNamesSeq
    <3> QED
      BY <2>1, <3>1 DEF Whole, First, Exists
  <2>3. PastCerts(dep) \subseteq DOMAIN objs'
    BY <2>1, <2>2, saNamesAre DEF PastCerts
  <2>4. PastPrepare(dep) \subseteq DOMAIN objs'
    BY <1>0, <2>1 DEF Made
  <2> QED
    BY <2>1, <2>3, <2>4 DEF Made
<1>4. CASE reconcileConfig /\ pc' # "idle"
  <2> DEFINE maps == <<R("ConfigMap", "api"), R("ConfigMap", "casbin")>>
                     \o (IF "dns" \in dep.on THEN <<R("ConfigMap", "dns")>>
                                             ELSE <<>>)
             all  == Append(maps, R("Secret", "api"))
  <2>1. /\ pc = "config" /\ dep' = dep /\ pc' = "api"
        /\ Exists(PgUser(dep.db, "carbide"))
        /\ WritesAll(all, Invalid, Templates(all))
    BY <1>4 DEF reconcileConfig, Fail, Return, getPostgreSQLPassword
  <2>2. {R("ConfigMap", "api"), R("ConfigMap", "casbin")}
        \cup (IF "dns" \in dep.on THEN {R("ConfigMap", "dns")} ELSE {})
        \subseteq Whole(all)
    BY ConfigMakes
  <2> HIDE DEF all, maps
  <2>3. PastConfig(dep) \subseteq DOMAIN objs'
    BY <2>1, <2>2, WritesMake DEF PastConfig, Exists
  <2>4. PastPrepare(dep) \cup PastCerts(dep) \subseteq DOMAIN objs'
    BY <1>0, <2>1 DEF Made
  <2> QED
    BY <2>1, <2>3, <2>4 DEF Made
<1>5. CASE pc \in Rollouts \cup {"vault", "verdict"} /\ pc' \notin {"idle", "prepare"}
  <2>0. ~Start
    BY <1>5 DEF Start, StartPass, Rollouts, Services
  <2>1. dep' = dep
    BY <2>0, PassGoesOn DEF SamePass
  <2>2. PastPrepare(dep) \cup PastCerts(dep) \cup PastConfig(dep) \subseteq DOMAIN objs'
    BY <1>0, <1>5 DEF Made, Rollouts, Services
  <2>3. CASE pc' \notin {"rla", "psm"}
    BY <2>1, <2>2, <2>3 DEF Made
  <2>4. CASE pc = "rla" \/ pc = "psm"
    <3>1. PastVault(dep) \subseteq DOMAIN objs'
      BY <1>0, <2>4 DEF Made
    <3> QED
      BY <2>1, <2>2, <3>1 DEF Made
  <2>5. CASE pc' \in {"rla", "psm"} /\ pc \notin {"rla", "psm"}
    <3>1. reconcileVault /\ pc' = "rla"
      BY <1>5, <2>0, <2>5 DEF Reconcile, Prepare, WaitForCerts, reconcileConfig,
         reconcileAPI, SkipRest, reconcileDHCP, reconcilePXE, reconcileDNS,
         reconcileVault, reconcileRLA, reconcilePSM, Verdict, Service, Skip, Fail,
         Return, VaultFound, ManagedVault, ExternalVault, Rollouts, Services
    <3>2. dep.vault = "external" => Exists(Token) /\ objs' = objs
      <4>1. dep.vault = "external" => ExternalVault
        BY <3>1, Zenon DEF reconcileVault
      <4> QED
        BY <3>1, <4>1 DEF ExternalVault, Return, clusterVars
    <3>3. PastVault(dep) \subseteq DOMAIN objs'
      BY <3>2 DEF PastVault, Exists
    <3> QED
      BY <2>1, <2>2, <3>3 DEF Made
  <2> QED
    BY <2>3, <2>4, <2>5
<1>6. pc = "prepare" => Prepare
  BY DEF Reconcile, Start, StartPass, WaitForCerts, reconcileConfig,
     reconcileAPI, SkipRest, reconcileDHCP, reconcilePXE, reconcileDNS,
     reconcileVault, reconcileRLA, reconcilePSM, Verdict
<1>7. pc = "certs" => WaitForCerts
  BY DEF Reconcile, Start, StartPass, Prepare, reconcileConfig,
     reconcileAPI, SkipRest, reconcileDHCP, reconcilePXE, reconcileDNS,
     reconcileVault, reconcileRLA, reconcilePSM, Verdict
<1>8. pc = "config" => reconcileConfig
  BY DEF Reconcile, Start, StartPass, Prepare, WaitForCerts,
     reconcileAPI, SkipRest, reconcileDHCP, reconcilePXE, reconcileDNS,
     reconcileVault, reconcileRLA, reconcilePSM, Verdict
<1>9. pc = "idle" => pc' \in {"idle", "prepare"}
  BY DEF Reconcile, Start, StartPass, Prepare, WaitForCerts, reconcileConfig,
     reconcileAPI, SkipRest, reconcileDHCP, reconcilePXE, reconcileDNS,
     reconcileVault, reconcileRLA, reconcilePSM, Verdict
<1>10. pc \in {"idle", "prepare", "certs", "config", "vault", "verdict"} \cup Rollouts
  BY DEF MadeInv, PassInv, Stages, Rollouts, Services
<1> QED
  BY <1>1, <1>2, <1>3, <1>4, <1>5, <1>6, <1>7, <1>8, <1>9, <1>10

\* A workload is written over what it refers to, and keeps it.
LEMMA SupportStep ==
    ASSUME MadeInv, Kept, [CoreNext]_vars, NEW c \in Rollouts
    PROVE  Supported(c)'
<1> DEFINE w == Workload(c)
<1>1. w \in Workloads \cup Jobs
  BY DEF Workloads, Rollouts
<1>2. \A o \in Lasting : o \in Lasting'
  BY DEF Lasting, Kept
<1>3. CASE Changes(w)
  <2>1. /\ Gates /\ w \in OwnAt(pc) /\ objs'[w] = Template(w)
        /\ DOMAIN objs \subseteq DOMAIN objs'
    BY <1>1, <1>3, WhoWrites DEF MadeInv
  <2>2. pc = c
    <3>1. w \notin Jobs /\ w.of = c
      BY WorkloadIs DEF Rollouts, Services, R, Jobs, HelmJob, InitJob
    <3> QED
      BY <1>1, <2>1, <3>1, StageOf DEF MadeInv, PassInv
  <2>3. Refs(c, Template(w)) \ Elsewhere(c) \subseteq Made(pc, dep)
    BY <2>1, <2>2, RefsMade DEF MadeInv
  <2>4. Made(pc, dep) \subseteq Lasting
    BY MadeLasting DEF MadeInv, Lasting
  <2> QED
    BY <1>2, <2>1, <2>3, <2>4 DEF Supported
<1>4. CASE ~Changes(w) /\ w \in DOMAIN objs'
  <2>1. Exists(w) /\ objs'[w] = objs[w]
    BY <1>4 DEF Changes
  <2>2. Refs(c, objs[w]) \ Elsewhere(c) \subseteq Lasting
    BY <2>1 DEF MadeInv, Supported
  <2> QED
    BY <1>2, <2>1, <2>2 DEF Supported
<1>5. CASE w \notin DOMAIN objs'
  BY <1>5 DEF Supported, Exists
<1> QED
  BY <1>3, <1>4, <1>5

LEMMA MadeStep ==
    ASSUME TypeInv, MadeInv, [CoreNext]_vars
    PROVE  MadeInv'
<1>1. PassInv' /\ Kept
  BY StepKeeps, StepTyped DEF TypeInv
<1>2. Made(pc', dep') \subseteq DOMAIN objs'
  <2>1. CASE Reconcile
    BY <1>1, <2>1, MadeAhead
  <2>2. CASE Cluster \/ ChangeConfig \/ UNCHANGED vars
    <3>1. dep' = dep /\ pc' = pc
      BY <2>2, ClusterAside DEF Aside, vars, MadeInv
    <3> QED
      BY <1>1, <3>1, MadeLasting DEF MadeInv, Kept
  <2> QED
    BY <2>1, <2>2 DEF CoreNext
<1> QED
  BY <1>1, <1>2, SupportStep DEF MadeInv, Made

LEMMA MadeInit == CoreInit => MadeInv
<1> SUFFICES ASSUME CoreInit PROVE MadeInv
  OBVIOUS
<1>1. PassInv /\ pc = "idle"
  BY InitKeeps DEF CoreInit, InitPass
<1>2. DOMAIN objs \subseteq Provided
  BY InitTyped, ProvidedAssumption DEF CoreInit
<1>3. \A c \in Rollouts : ~Exists(Workload(c))
  BY <1>2, OwnAssumption DEF Workloads, Rollouts, Exists
<1> QED
  BY <1>1, <1>3 DEF MadeInv, Made, Supported

(***************************************************************************)
(* For all configurations, failures and orders of change: a workload of    *)
(* the core tier finds in the cluster all its pods refer to and the        *)
(* operator creates or checks for (core_reconciler.go:110-190).  The       *)
(* invariant says what a pass has behind it at each stage, and that        *)
(* nothing but a Job is ever removed.                                      *)
(***************************************************************************)
THEOREM Created == CoreSpec => []CreatedInOrder
<1>1. CoreInit => TypeInv /\ MadeInv
  BY TypeInit, MadeInit
<1>2. TypeInv /\ MadeInv /\ [CoreNext]_vars => TypeInv' /\ MadeInv'
  BY TypeStep, MadeStep
<1>3. MadeInv => CreatedInOrder
  BY DEF MadeInv, Supported, Lasting, CreatedInOrder, Rollouts
<1> QED
  BY <1>1, <1>2, <1>3, PTL DEF CoreSpec
=============================================================================
