--------------------------- MODULE Webhook_proofs ---------------------------
(***************************************************************************)
(* What an admitted request leaves behind has its defaults (Fixed): asked  *)
(* again, the webhook and the API server leave it alone, also when the     *)
(* operator's update has turned on the flags its JSON leaves out.  With    *)
(* that, every stored spec is one the operator can write back, for any set *)
(* of specs users may write.                                               *)
(***************************************************************************)
EXTENDS Webhook, TLAPS

-----------------------------------------------------------------------------
(***************************************************************************)
(* Completing one part of the spec keeps its type and is idempotent.       *)
(***************************************************************************)

\* Completing the infrastructure block twice is completing it once, and it
\* then has a namespace.
LEMMA InfraTwice ==
  ASSUME NEW i \in Infra, NEW p \in Profiles
  PROVE  /\ CompleteInfra(i, p) \in Infra
         /\ CompleteInfra(i, p).ns # ""
         /\ CompleteInfra(CompleteInfra(i, p), p) = CompleteInfra(i, p)
<1> DEFINE c == CompleteInfra(i, p)
<1>1. DefaultNamespace(p) \in Names /\ DefaultNamespace(p) # ""
  BY NamesAssumption DEF DefaultNamespace
<1>2. p # "" /\ p \in {"", "given"} \cup Profiles
  BY DEF Profiles
<1>3. /\ i.ns \in Names /\ i.dbs \in {"", "given"} \cup Profiles
      /\ i.pg \in Modes /\ i.conn \in {"nil", "noHost", "given"}
  BY DEF Infra
<1>4. c \in Infra
  BY <1>1, <1>2, <1>3 DEF CompleteInfra, Infra, Or, Modes
<1>5. c.ns # "" /\ c.dbs # "" /\ c.pg # "" /\ c.sized = TRUE
  BY <1>1, <1>2 DEF CompleteInfra, Or
<1>6. /\ Or(c.ns, DefaultNamespace(p)) = c.ns
      /\ Or(c.dbs, p) = c.dbs /\ Or(c.pg, "managed") = c.pg
  BY <1>5 DEF Or
<1>7. CompleteInfra(c, p) = [ns |-> c.ns, dbs |-> c.dbs, pg |-> c.pg,
                             conn |-> c.conn, sized |-> c.sized]
  BY <1>5, <1>6 DEF CompleteInfra
<1>8. c = [ns |-> c.ns, dbs |-> c.dbs, pg |-> c.pg, conn |-> c.conn,
           sized |-> c.sized]
  BY <1>4 DEF Infra
<1> QED
  BY <1>4, <1>5, <1>7, <1>8

\* The same for the TLS block.
LEMMA TLSTwice ==
  ASSUME NEW t \in TLS
  PROVE  /\ CompleteTLS(t) \in TLS
         /\ CompleteTLS(CompleteTLS(t)) = CompleteTLS(t)
  BY DEF CompleteTLS, TLS, Or

\* The same for Vault.
LEMMA VaultTwice ==
  ASSUME NEW v \in Vault
  PROVE  /\ CompleteVault(v) \in Vault
         /\ CompleteVault(CompleteVault(v)) = CompleteVault(v)
  BY DEF CompleteVault, Vault, Modes, Or

\* The same for RLA and PSM.
LEMMA AddonTwice ==
  ASSUME NEW a \in Addon
  PROVE  /\ CompleteAddon(a) \in Addon
         /\ CompleteAddon(CompleteAddon(a)) = CompleteAddon(a)
  BY DEF CompleteAddon, Addon

-----------------------------------------------------------------------------
(***************************************************************************)
(* The parts of a spec, as sets of at most one record.                     *)
(***************************************************************************)

\* The infrastructure block with its defaults.
LEMMA DefaultInfraTwice ==
  ASSUME NEW r \in DeploymentSpec, AtMostOne(r.infra),
         NEW d, d.profile = r.profile,
         d.infra = DefaultInfra(r)
  PROVE  /\ DefaultInfra(r) \in SUBSET Infra
         /\ AtMostOne(DefaultInfra(r))
         /\ \A i \in DefaultInfra(r) : i.ns # ""
         /\ DefaultInfra(d) = DefaultInfra(r)
<1>1. r.infra \in SUBSET Infra /\ r.profile \in Profiles
  BY DEF DeploymentSpec
<1>2. \A i \in r.infra : /\ CompleteInfra(i, r.profile) \in Infra
                         /\ CompleteInfra(i, r.profile).ns # ""
                         /\ CompleteInfra(CompleteInfra(i, r.profile), r.profile)
                              = CompleteInfra(i, r.profile)
  BY <1>1, InfraTwice
<1>3. DefaultInfra(r) \in SUBSET Infra /\ \A i \in DefaultInfra(r) : i.ns # ""
  BY <1>2 DEF DefaultInfra
<1>4. AtMostOne(DefaultInfra(r))
  BY DEF DefaultInfra, AtMostOne
<1>5. \A i \in DefaultInfra(r) : CompleteInfra(i, r.profile) = i
  BY <1>2 DEF DefaultInfra
<1>6. {CompleteInfra(i, r.profile) : i \in DefaultInfra(r)} = DefaultInfra(r)
  BY <1>5
<1>7. DefaultInfra(d) = {CompleteInfra(i, r.profile) : i \in DefaultInfra(r)}
  BY DEF DefaultInfra
<1> QED
  BY <1>3, <1>4, <1>6, <1>7
\* What a tier inherits is again what it inherits.
LEMMA InheritTwice ==
  ASSUME NEW D \in SUBSET Infra, \A i \in D : i.ns # "", NEW ns \in Names
  PROVE  /\ Inherit(ns, D) \in Names
         /\ Inherit(Inherit(ns, D), D) = Inherit(ns, D)
<1>1. CASE ns = "" /\ D # {}
  <2> DEFINE i == CHOOSE x \in D : TRUE
  <2>1. i \in D
    BY <1>1
  <2>2. i.ns \in Names /\ i.ns # ""
    BY <2>1 DEF Infra
  <2>3. Inherit(ns, D) = i.ns
    BY <1>1 DEF Inherit
  <2> QED
    BY <2>2, <2>3 DEF Inherit
<1>2. CASE ~(ns = "" /\ D # {})
  BY <1>2 DEF Inherit
<1> QED
  BY <1>1, <1>2

\* The core block with its defaults is one.
LEMMA DefaultCoreType ==
  ASSUME NEW r \in DeploymentSpec, DefaultInfra(r) \in SUBSET Infra,
         \A i \in DefaultInfra(r) : i.ns # ""
  PROVE  DefaultCore(r) \in Core
<1>1. r.core.ns \in Names
  BY DEF DeploymentSpec, Core
<1>2. Inherit(r.core.ns, DefaultInfra(r)) \in Names
  BY <1>1, InheritTwice
<1> QED
  BY <1>2 DEF DefaultCore, Core

\* A profile is one of the hub profiles or not.
LEMMA HubOrNot ==
  ASSUME NEW p
  PROVE  IsHub(p) \in BOOLEAN
<1>1. (p \in {"management", "management-with-site"}) \in BOOLEAN
  OBVIOUS
<1> QED
  BY <1>1 DEF IsHub

\* The REST block with its defaults: its type, and what the defaults leave
\* nothing more to do about.
LEMMA DefaultRestIs ==
  ASSUME NEW r \in DeploymentSpec, AtMostOne(r.rest),
         DefaultInfra(r) \in SUBSET Infra,
         \A i \in DefaultInfra(r) : i.ns # ""
  PROVE  /\ DefaultRest(r) \in SUBSET Rest
         /\ AtMostOne(DefaultRest(r))
         /\ \A x \in DefaultRest(r) :
               /\ Inherit(x.ns, DefaultInfra(r)) = x.ns
               /\ x.temporal # "" /\ x.keycloak # "" /\ x.sized = TRUE
               /\ x.enabled = IsHub(r.profile)
<1>1. ASSUME NEW x \in Rest
      PROVE  LET c == CompleteRest(x, r)
             IN  /\ c \in Rest
                 /\ Inherit(c.ns, DefaultInfra(r)) = c.ns
                 /\ c.temporal # "" /\ c.keycloak # "" /\ c.sized = TRUE
                 /\ c.enabled = IsHub(r.profile)
  <2> DEFINE c == CompleteRest(x, r)
  <2>1. /\ x.ns \in Names /\ x.temporal \in Modes /\ x.endpoint \in BOOLEAN
        /\ x.keycloak \in Modes \cup {"disabled"}
        /\ x.providers \in {"none", "noURL", "given"}
    BY DEF Rest
  <2>2. /\ Inherit(x.ns, DefaultInfra(r)) \in Names
        /\ Inherit(Inherit(x.ns, DefaultInfra(r)), DefaultInfra(r))
              = Inherit(x.ns, DefaultInfra(r))
    BY <2>1, InheritTwice
  <2>3. /\ Or(x.temporal, "managed") \in Modes \ {""}
        /\ Or(x.keycloak, "managed") \in (Modes \cup {"disabled"}) \ {""}
    BY <2>1 DEF Or, Modes
  <2>4. IsHub(r.profile) \in BOOLEAN
    BY HubOrNot
  <2>5. c \in Rest
    BY <2>1, <2>2, <2>3, <2>4 DEF CompleteRest, Rest
  <2>6. /\ c.ns = Inherit(x.ns, DefaultInfra(r))
        /\ c.temporal = Or(x.temporal, "managed")
        /\ c.keycloak = Or(x.keycloak, "managed")
        /\ c.enabled = IsHub(r.profile) /\ c.sized = TRUE
    BY DEF CompleteRest
  <2> QED
    BY <2>2, <2>3, <2>5, <2>6
<1>2. r.rest \in SUBSET Rest
  BY DEF DeploymentSpec
<1>3. DefaultRest(r) \in SUBSET Rest
  BY <1>1, <1>2 DEF DefaultRest
<1>4. AtMostOne(DefaultRest(r))
  BY DEF DefaultRest, AtMostOne
<1>5. ASSUME NEW z \in DefaultRest(r)
      PROVE  /\ Inherit(z.ns, DefaultInfra(r)) = z.ns
             /\ z.temporal # "" /\ z.keycloak # "" /\ z.sized = TRUE
             /\ z.enabled = IsHub(r.profile)
  <2>1. PICK x \in r.rest : z = CompleteRest(x, r)
    BY DEF DefaultRest
  <2> QED
    BY <1>1, <1>2, <2>1
<1> QED
  BY <1>3, <1>4, <1>5

\* The TLS block with its defaults.
LEMMA DefaultTLSTwice ==
  ASSUME NEW r \in DeploymentSpec, AtMostOne(r.tls),
         NEW d, d.tls = DefaultTLS(r)
  PROVE  /\ DefaultTLS(r) \in SUBSET TLS
         /\ AtMostOne(DefaultTLS(r))
         /\ DefaultTLS(d) = DefaultTLS(r)
<1> DEFINE given == [mode |-> "spiffe", spiffe |-> "given", issuer |-> "nil"]
<1>1. r.tls \in SUBSET TLS
  BY DEF DeploymentSpec
<1>2. given \in TLS /\ CompleteTLS(given) = given
  <2>1. given \in TLS
    BY DEF TLS
  <2>2. CompleteTLS(given) = [given EXCEPT !.mode = "spiffe", !.spiffe = "given"]
    BY DEF CompleteTLS, Or
  <2> QED
    BY <2>1, <2>2
<1>3. \A t \in r.tls : /\ CompleteTLS(t) \in TLS
                        /\ CompleteTLS(CompleteTLS(t)) = CompleteTLS(t)
  BY <1>1, TLSTwice
<1>4. DefaultTLS(r) \in SUBSET TLS /\ DefaultTLS(r) # {}
  BY <1>2, <1>3 DEF DefaultTLS
<1>5. AtMostOne(DefaultTLS(r))
  BY DEF DefaultTLS, AtMostOne
<1>6. \A t \in DefaultTLS(r) : CompleteTLS(t) = t
  BY <1>2, <1>3 DEF DefaultTLS
<1>7. DefaultTLS(d) = {CompleteTLS(t) : t \in DefaultTLS(r)}
  BY <1>4 DEF DefaultTLS
<1> QED
  BY <1>4, <1>5, <1>6, <1>7

\* The Vault block with its defaults.
LEMMA DefaultVaultTwice ==
  ASSUME NEW r \in DeploymentSpec, AtMostOne(r.vault),
         NEW d, d.profile = r.profile, d.vault = DefaultVault(r)
  PROVE  /\ DefaultVault(r) \in SUBSET Vault
         /\ AtMostOne(DefaultVault(r))
         /\ DefaultVault(d) = DefaultVault(r)
<1> DEFINE given == [mode |-> "managed", address |-> FALSE, token |-> FALSE,
                     sized |-> TRUE]
<1>1. r.vault \in SUBSET Vault
  BY DEF DeploymentSpec
<1>2. given \in Vault /\ CompleteVault(given) = given
  <2>1. given \in Vault
    BY DEF Vault, Modes
  <2>2. CompleteVault(given) = [given EXCEPT !.mode = "managed", !.sized = TRUE]
    BY DEF CompleteVault, Or
  <2> QED
    BY <2>1, <2>2
<1>3. \A v \in r.vault : /\ CompleteVault(v) \in Vault
                          /\ CompleteVault(CompleteVault(v)) = CompleteVault(v)
  BY <1>1, VaultTwice
<1>4. CASE r.vault = {} /\ IsSite(r.profile)
  <2>1. DefaultVault(r) = {given}
    BY <1>4 DEF DefaultVault
  <2>2. DefaultVault(d) = {CompleteVault(v) : v \in {given}}
    BY <2>1 DEF DefaultVault
  <2> QED
    BY <1>2, <2>1, <2>2 DEF AtMostOne
<1>5. CASE ~(r.vault = {} /\ IsSite(r.profile))
  <2>1. DefaultVault(r) = {CompleteVault(v) : v \in r.vault}
    BY <1>5 DEF DefaultVault
  <2>2. DefaultVault(r) \in SUBSET Vault /\ AtMostOne(DefaultVault(r))
    BY <1>3, <2>1 DEF AtMostOne
  <2>3. ~(d.vault = {} /\ IsSite(d.profile))
    <3>1. r.vault # {} => DefaultVault(r) # {}
      BY <2>1
    <3> QED
      BY <3>1, <1>5
  <2>4. DefaultVault(d) = {CompleteVault(v) : v \in DefaultVault(r)}
    BY <2>3 DEF DefaultVault
  <2>5. \A v \in DefaultVault(r) : CompleteVault(v) = v
    BY <1>3, <2>1
  <2> QED
    BY <2>2, <2>4, <2>5
<1> QED
  BY <1>4, <1>5

\* The RLA and the PSM block with their defaults.
LEMMA DefaultAddonTwice ==
  ASSUME NEW a \in SUBSET Addon, AtMostOne(a), NEW p
  PROVE  /\ DefaultAddon(a, p) \in SUBSET Addon
         /\ AtMostOne(DefaultAddon(a, p))
         /\ DefaultAddon(DefaultAddon(a, p), p) = DefaultAddon(a, p)
<1> DEFINE given == [on |-> TRUE, sized |-> TRUE]
<1>1. given \in Addon /\ CompleteAddon(given) = given
  <2>1. given \in Addon
    BY DEF Addon
  <2>2. given.on = TRUE
    OBVIOUS
  <2>3. CompleteAddon(given) = given
    BY <2>2 DEF CompleteAddon
  <2> QED
    BY <2>1, <2>3
<1>2. \A x \in a : /\ CompleteAddon(x) \in Addon
                    /\ CompleteAddon(CompleteAddon(x)) = CompleteAddon(x)
  BY AddonTwice
<1>3. CASE a = {} /\ IsSite(p)
  <2>1. DefaultAddon(a, p) = {given}
    BY <1>3 DEF DefaultAddon
  <2>2. DefaultAddon({given}, p) = {CompleteAddon(x) : x \in {given}}
    BY DEF DefaultAddon
  <2> QED
    BY <1>1, <2>1, <2>2 DEF AtMostOne
<1>4. CASE ~(a = {} /\ IsSite(p))
  <2> DEFINE b == {CompleteAddon(x) : x \in a}
  <2>1. DefaultAddon(a, p) = b
    BY <1>4 DEF DefaultAddon
  <2>2. b \in SUBSET Addon /\ AtMostOne(b)
    BY <1>2 DEF AtMostOne
  <2>3. ~(b = {} /\ IsSite(p))
    <3>1. a # {} => b # {}
      OBVIOUS
    <3> QED
      BY <3>1, <1>4
  <2>4. DefaultAddon(b, p) = {CompleteAddon(x) : x \in b}
    BY <2>3 DEF DefaultAddon
  <2>5. \A x \in b : CompleteAddon(x) = x
    BY <1>2
  <2> QED
    BY <2>1, <2>2, <2>4, <2>5
<1> QED
  BY <1>3, <1>4

-----------------------------------------------------------------------------
(***************************************************************************)
(* The whole spec.                                                         *)
(***************************************************************************)

\* What IsSpec says of each part.
LEMMA Parts ==
  ASSUME NEW r, IsSpec(r)
  PROVE  /\ r \in DeploymentSpec
         /\ AtMostOne(r.infra) /\ AtMostOne(r.rest) /\ AtMostOne(r.tls)
         /\ AtMostOne(r.vault) /\ AtMostOne(r.rla) /\ AtMostOne(r.psm)
  BY DEF IsSpec

\* The defaults are in r: those of the struct, and the flags the profile
\* turns on.
Fixed(r) ==
    /\ DefaultInfra(r) = r.infra /\ DefaultTLS(r) = r.tls
    /\ DefaultVault(r) = r.vault
    /\ DefaultAddon(r.rla, r.profile) = r.rla
    /\ DefaultAddon(r.psm, r.profile) = r.psm
    /\ Inherit(r.core.ns, r.infra) = r.core.ns /\ r.core.sized = TRUE
    /\ IsSite(r.profile) => r.core.on = Switches
    /\ \A x \in r.rest :
          /\ Inherit(x.ns, r.infra) = x.ns
          /\ x.temporal # "" /\ x.keycloak # "" /\ x.sized = TRUE
          /\ IsHub(r.profile) => x.enabled

\* The parts of a spec after the mutating webhook.
LEMMA MutatedParts ==
  ASSUME NEW r \in DeploymentSpec
  PROVE  LET m == Mutated(r)
         IN  /\ m.profile = r.profile /\ m.network = r.network
             /\ m.infra = DefaultInfra(r) /\ m.tls = DefaultTLS(r)
             /\ m.vault = DefaultVault(r)
             /\ m.rla = DefaultAddon(r.rla, r.profile)
             /\ m.psm = DefaultAddon(r.psm, r.profile)
             /\ m.core = TurnOn(DefaultCore(r), r.core.on)
             /\ m.rest = {TurnOnRest(x, \E y \in r.rest : y.enabled) :
                             x \in DefaultRest(r)}
             /\ m = [profile |-> m.profile, network |-> m.network,
                     infra |-> m.infra, core |-> m.core, rest |-> m.rest,
                     tls |-> m.tls, vault |-> m.vault, rla |-> m.rla,
                     psm |-> m.psm]
<1> DEFINE d == applyDefaults(r)
           asked == \E y \in r.rest : y.enabled
           rest == {TurnOnRest(x, asked) : x \in d.rest}
           core == TurnOn(d.core, r.core.on)
<1>1. d = [profile |-> r.profile, network |-> r.network,
           infra |-> DefaultInfra(r), core |-> DefaultCore(r),
           rest |-> DefaultRest(r), tls |-> DefaultTLS(r),
           vault |-> DefaultVault(r), rla |-> DefaultAddon(r.rla, r.profile),
           psm |-> DefaultAddon(r.psm, r.profile)]
  BY DEF applyDefaults
<1>2. Mutated(r) = [d EXCEPT !.core = core, !.rest = rest]
  BY DEF Mutated
<1>3. /\ core = TurnOn(DefaultCore(r), r.core.on)
      /\ rest = {TurnOnRest(x, asked) : x \in DefaultRest(r)}
  BY <1>1
<1> HIDE DEF d, core, rest, asked
<1>4. Mutated(r) = [profile |-> r.profile, network |-> r.network,
                    infra |-> DefaultInfra(r), core |-> core,
                    rest |-> rest, tls |-> DefaultTLS(r),
                    vault |-> DefaultVault(r),
                    rla |-> DefaultAddon(r.rla, r.profile),
                    psm |-> DefaultAddon(r.psm, r.profile)]
  BY <1>1, <1>2
<1> QED
  BY <1>3, <1>4 DEF asked

\* Turning the REST tier on changes nothing else in its block.
LEMMA TurnOnRestIs ==
  ASSUME NEW x \in Rest, NEW b \in BOOLEAN
  PROVE  /\ TurnOnRest(x, b) \in Rest
         /\ TurnOnRest(x, b).ns = x.ns
         /\ TurnOnRest(x, b).temporal = x.temporal
         /\ TurnOnRest(x, b).endpoint = x.endpoint
         /\ TurnOnRest(x, b).keycloak = x.keycloak
         /\ TurnOnRest(x, b).providers = x.providers
         /\ TurnOnRest(x, b).sized = x.sized
         /\ TurnOnRest(x, b).enabled = (x.enabled \/ b)
         /\ TurnOnRest(TurnOnRest(x, b), b) = TurnOnRest(x, b)
  BY DEF TurnOnRest, Rest

\* What the mutating webhook makes of a request is a spec with its defaults.
LEMMA MutatedIsFixed ==
  ASSUME NEW r, IsSpec(r)
  PROVE  IsSpec(Mutated(r)) /\ Fixed(Mutated(r))
<1> DEFINE m == Mutated(r)
           or == \E y \in r.rest : y.enabled
<1>1. /\ r \in DeploymentSpec /\ r.profile \in Profiles /\ r.network \in BOOLEAN
      /\ r.rla \in SUBSET Addon /\ r.psm \in SUBSET Addon /\ r.core \in Core
      /\ r.rest \in SUBSET Rest
  BY Parts DEF DeploymentSpec
<1>2. /\ m.profile = r.profile /\ m.network = r.network
      /\ m.infra = DefaultInfra(r) /\ m.tls = DefaultTLS(r)
      /\ m.vault = DefaultVault(r)
      /\ m.rla = DefaultAddon(r.rla, r.profile)
      /\ m.psm = DefaultAddon(r.psm, r.profile)
      /\ m.core = TurnOn(DefaultCore(r), r.core.on)
      /\ m.rest = {TurnOnRest(x, or) : x \in DefaultRest(r)}
      /\ m = [profile |-> m.profile, network |-> m.network, infra |-> m.infra,
              core |-> m.core, rest |-> m.rest, tls |-> m.tls,
              vault |-> m.vault, rla |-> m.rla, psm |-> m.psm]
  BY <1>1, MutatedParts
<1> HIDE DEF m
<1>3. /\ DefaultInfra(r) \in SUBSET Infra /\ AtMostOne(DefaultInfra(r))
      /\ \A i \in DefaultInfra(r) : i.ns # ""
      /\ DefaultInfra(m) = m.infra
  BY <1>1, <1>2, Parts, DefaultInfraTwice
<1>4. DefaultTLS(r) \in SUBSET TLS /\ AtMostOne(m.tls) /\ DefaultTLS(m) = m.tls
  BY <1>1, <1>2, Parts, DefaultTLSTwice
<1>5. /\ DefaultVault(r) \in SUBSET Vault /\ AtMostOne(m.vault)
      /\ DefaultVault(m) = m.vault
  BY <1>1, <1>2, Parts, DefaultVaultTwice
<1>6. /\ m.rla \in SUBSET Addon /\ AtMostOne(m.rla)
      /\ DefaultAddon(m.rla, m.profile) = m.rla
  BY <1>1, <1>2, Parts, DefaultAddonTwice
<1>7. /\ m.psm \in SUBSET Addon /\ AtMostOne(m.psm)
      /\ DefaultAddon(m.psm, m.profile) = m.psm
  BY <1>1, <1>2, Parts, DefaultAddonTwice
<1>8. /\ m.core \in Core /\ m.core.sized = TRUE
      /\ Inherit(m.core.ns, m.infra) = m.core.ns
      /\ IsSite(m.profile) => m.core.on = Switches
  <2>1. DefaultCore(r) \in Core
    BY <1>1, <1>3, DefaultCoreType
  <2>2. /\ DefaultCore(r).ns = Inherit(r.core.ns, DefaultInfra(r))
        /\ DefaultCore(r).sized = TRUE
        /\ IsSite(r.profile) => DefaultCore(r).on = Switches
    BY ZenonT(20) DEF DefaultCore
  <2>3. r.core.ns \in Names /\ r.core.on \in SUBSET Switches
    BY <1>1 DEF Core
  <2>4. Inherit(DefaultCore(r).ns, DefaultInfra(r)) = DefaultCore(r).ns
    BY <1>3, <2>2, <2>3, InheritTwice
  <2>5. /\ m.core \in Core /\ m.core.ns = DefaultCore(r).ns
        /\ m.core.sized = DefaultCore(r).sized
        /\ m.core.on = DefaultCore(r).on \cup r.core.on
    BY <1>2, <2>1, <2>3 DEF Core, TurnOn
  <2> QED
    BY <1>2, <2>2, <2>3, <2>4, <2>5
<1>9. /\ m.rest \in SUBSET Rest /\ AtMostOne(m.rest)
      /\ \A x \in m.rest :
            /\ Inherit(x.ns, m.infra) = x.ns
            /\ x.temporal # "" /\ x.keycloak # "" /\ x.sized = TRUE
            /\ IsHub(m.profile) => x.enabled
  <2>1. /\ DefaultRest(r) \in SUBSET Rest /\ AtMostOne(DefaultRest(r))
        /\ \A x \in DefaultRest(r) :
              /\ Inherit(x.ns, DefaultInfra(r)) = x.ns
              /\ x.temporal # "" /\ x.keycloak # "" /\ x.sized = TRUE
              /\ x.enabled = IsHub(r.profile)
    BY <1>1, <1>3, Parts, DefaultRestIs
  <2> HIDE DEF or
  <2>2. or \in BOOLEAN
    BY DEF or
  <2>3. AtMostOne(m.rest)
    BY <1>2, <2>1 DEF AtMostOne
  <2>4. ASSUME NEW z \in m.rest
        PROVE  /\ z \in Rest /\ Inherit(z.ns, m.infra) = z.ns
               /\ z.temporal # "" /\ z.keycloak # "" /\ z.sized = TRUE
               /\ IsHub(m.profile) => z.enabled
    <3>1. PICK x \in DefaultRest(r) : z = TurnOnRest(x, or)
      BY <1>2
    <3>2. /\ z \in Rest /\ z.ns = x.ns /\ z.temporal = x.temporal
          /\ z.keycloak = x.keycloak /\ z.sized = x.sized
          /\ x.enabled => z.enabled
      <4>1. x \in Rest
        BY <2>1
      <4>2. /\ TurnOnRest(x, or) \in Rest
            /\ TurnOnRest(x, or).ns = x.ns
            /\ TurnOnRest(x, or).temporal = x.temporal
            /\ TurnOnRest(x, or).keycloak = x.keycloak
            /\ TurnOnRest(x, or).sized = x.sized
            /\ TurnOnRest(x, or).enabled = (x.enabled \/ or)
        BY <2>2, <4>1 DEF TurnOnRest, Rest
      <4> QED
        BY <3>1, <4>2, Zenon
    <3>3. /\ Inherit(x.ns, DefaultInfra(r)) = x.ns
          /\ x.temporal # "" /\ x.keycloak # "" /\ x.sized = TRUE
          /\ x.enabled = IsHub(r.profile)
      BY <2>1, <3>1
    <3>4. IsHub(r.profile) => z.enabled
      BY <3>2, <3>3, Zenon
    <3>5. m.infra = DefaultInfra(r) /\ m.profile = r.profile
      BY <1>2
    <3> QED
      BY <3>2, <3>3, <3>4, <3>5
  <2> QED
    BY <2>3, <2>4
<1>10. m \in DeploymentSpec
  BY <1>1, <1>2, <1>3, <1>4, <1>5, <1>6, <1>7, <1>8, <1>9 DEF DeploymentSpec
<1>11. IsSpec(m)
  BY <1>2, <1>3, <1>4, <1>5, <1>6, <1>7, <1>9, <1>10 DEF IsSpec
<1>12. Fixed(m)
  BY <1>2, <1>3, <1>4, <1>5, <1>6, <1>7, <1>8, <1>9 DEF Fixed
<1> QED
  BY <1>11, <1>12 DEF m

\* A spec with its defaults is left alone.
LEMMA FixedIsLeftAlone ==
  ASSUME NEW r, IsSpec(r), Fixed(r)
  PROVE  Mutated(r) = r
<1> DEFINE m == Mutated(r)
           or == \E y \in r.rest : y.enabled
<1>1. /\ r \in DeploymentSpec /\ r.core \in Core /\ r.rest \in SUBSET Rest
      /\ AtMostOne(r.rest) /\ r.infra \in SUBSET Infra
  BY Parts DEF DeploymentSpec
<1>2. /\ m.profile = r.profile /\ m.network = r.network
      /\ m.infra = r.infra /\ m.tls = r.tls /\ m.vault = r.vault
      /\ m.rla = r.rla /\ m.psm = r.psm
      /\ m.core = TurnOn(DefaultCore(r), r.core.on)
      /\ m.rest = {TurnOnRest(x, or) : x \in DefaultRest(r)}
      /\ m = [profile |-> m.profile, network |-> m.network, infra |-> m.infra,
              core |-> m.core, rest |-> m.rest, tls |-> m.tls,
              vault |-> m.vault, rla |-> m.rla, psm |-> m.psm]
  BY <1>1, MutatedParts DEF Fixed
<1> HIDE DEF m
<1>3. m.core = r.core
  <2>1. DefaultCore(r) = [ns |-> r.core.ns,
                          on |-> IF IsSite(r.profile) THEN Switches ELSE {},
                          sized |-> TRUE]
    BY DEF DefaultCore, Fixed
  <2>2. r.core.on \in SUBSET Switches
    BY <1>1 DEF Core
  <2>3. (IF IsSite(r.profile) THEN Switches ELSE {}) \cup r.core.on = r.core.on
    BY <2>2 DEF Fixed
  <2> DEFINE on == IF IsSite(r.profile) THEN Switches ELSE {}
  <2>4. m.core = [ns |-> r.core.ns, on |-> r.core.on, sized |-> TRUE]
    <3>1. on \cup r.core.on = r.core.on
      BY <2>3
    <3>2. DefaultCore(r) = [ns |-> r.core.ns, on |-> on, sized |-> TRUE]
      BY <2>1
    <3>3. m.core = TurnOn(DefaultCore(r), r.core.on)
      BY <1>2
    <3> DEFINE c == DefaultCore(r)
    <3>4. c.ns = r.core.ns /\ c.on = on /\ c.sized = TRUE /\ c \in Core
      <4>1. r.core.ns \in Names /\ on \in SUBSET Switches
        BY <1>1 DEF Core
      <4> HIDE DEF on
      <4> QED
        BY <3>2, <4>1 DEF Core
    <3> HIDE DEF on, c
    <3>5. TurnOn(c, r.core.on) =
            [ns |-> c.ns, on |-> c.on \cup r.core.on, sized |-> c.sized]
      BY <3>4 DEF Core, TurnOn
    <3> QED
      BY <3>1, <3>3, <3>4, <3>5 DEF c
  <2>5. r.core = [ns |-> r.core.ns, on |-> r.core.on, sized |-> TRUE]
    BY <1>1 DEF Core, Fixed
  <2> QED
    BY <2>4, <2>5
<1>4. m.rest = r.rest
  <2>1. ASSUME NEW x \in r.rest
        PROVE  LET c == CompleteRest(x, r)
               IN  TurnOnRest(c, or) = x
    <3>1. /\ x \in Rest /\ x.enabled \in BOOLEAN /\ x.sized = TRUE
          /\ Inherit(x.ns, r.infra) = x.ns
          /\ x.temporal # "" /\ x.keycloak # ""
          /\ IsHub(r.profile) => x.enabled
      BY <1>1 DEF Fixed, Rest
    <3>2. CompleteRest(x, r) =
            [enabled |-> IsHub(r.profile), ns |-> x.ns,
             temporal |-> x.temporal, endpoint |-> x.endpoint,
             keycloak |-> x.keycloak, providers |-> x.providers,
             sized |-> TRUE]
      BY <3>1 DEF CompleteRest, Or, Fixed
    <3>3. or = x.enabled
      BY <1>1, <3>1 DEF AtMostOne
    <3>4. (IsHub(r.profile) \/ or) = x.enabled
      BY <3>1, <3>3, HubOrNot
    <3>5. x = [enabled |-> x.enabled, ns |-> x.ns,
               temporal |-> x.temporal, endpoint |-> x.endpoint,
               keycloak |-> x.keycloak, providers |-> x.providers,
               sized |-> TRUE]
      BY <3>1 DEF Rest
    <3> DEFINE c == CompleteRest(x, r)
    <3> HIDE DEF or, c
    <3>6. c.enabled = IsHub(r.profile)
      BY <3>2 DEF c
    <3>7. TurnOnRest(c, or) = [c EXCEPT !.enabled = x.enabled]
      BY <3>4, <3>6 DEF TurnOnRest
    <3>8. [c EXCEPT !.enabled = x.enabled] = x
      <4>1. /\ c = [enabled |-> c.enabled, ns |-> c.ns,
                    temporal |-> c.temporal, endpoint |-> c.endpoint,
                    keycloak |-> c.keycloak, providers |-> c.providers,
                    sized |-> c.sized]
            /\ c.ns = x.ns /\ c.temporal = x.temporal
            /\ c.endpoint = x.endpoint /\ c.keycloak = x.keycloak
            /\ c.providers = x.providers /\ c.sized = TRUE
        BY <3>2 DEF c
      <4>2. [c EXCEPT !.enabled = x.enabled] =
              [enabled |-> x.enabled, ns |-> c.ns,
               temporal |-> c.temporal, endpoint |-> c.endpoint,
               keycloak |-> c.keycloak, providers |-> c.providers,
               sized |-> c.sized]
        BY <4>1
      <4> QED
        BY <3>5, <4>1, <4>2
    <3> QED
      BY <3>7, <3>8 DEF c
  <2>2. m.rest = {TurnOnRest(c, or) :
                    c \in {CompleteRest(x, r) : x \in r.rest}}
    BY <1>2 DEF DefaultRest
  <2> HIDE DEF or
  <2>3. \A z \in m.rest : z \in r.rest
    BY <2>1, <2>2
  <2>4. \A z \in r.rest : z \in m.rest
    BY <2>1, <2>2
  <2> QED
    BY <2>3, <2>4
<1>5. r = [profile |-> r.profile, network |-> r.network, infra |-> r.infra,
           core |-> r.core, rest |-> r.rest, tls |-> r.tls,
           vault |-> r.vault, rla |-> r.rla, psm |-> r.psm]
  BY <1>1 DEF DeploymentSpec
<1> QED
  BY <1>2, <1>3, <1>4, <1>5 DEF m

\* The operator's JSON of a spec with its defaults is one, and says the same
\* but for the flags.
LEMMA MarshalledIsFixed ==
  ASSUME NEW r, IsSpec(r), Fixed(r)
  PROVE  LET m == Marshalled(r)
         IN  /\ IsSpec(m) /\ Fixed(m) /\ Marshalled(m) = m
             /\ m.profile = r.profile /\ m.infra = r.infra
             /\ validateCarbideDeployment(r) => validateCarbideDeployment(m)
<1> DEFINE m == Marshalled(r)
<1>1. /\ r \in DeploymentSpec /\ r.core \in Core /\ r.rest \in SUBSET Rest
      /\ AtMostOne(r.rest)
  BY Parts DEF DeploymentSpec
<1>2. /\ m \in DeploymentSpec
      /\ m.profile = r.profile /\ m.network = r.network
      /\ m.infra = r.infra /\ m.tls = r.tls /\ m.vault = r.vault
      /\ m.rla = r.rla /\ m.psm = r.psm
      /\ m.core = TurnOn(r.core, Switches)
      /\ m.rest = {TurnOnRest(x, TRUE) : x \in r.rest}
  <2>1. TurnOn(r.core, Switches) \in Core
    BY <1>1 DEF Core, TurnOn
  <2>2. \A x \in r.rest : TurnOnRest(x, TRUE) \in Rest
    BY <1>1, TurnOnRestIs
  <2>3. {TurnOnRest(x, TRUE) : x \in r.rest} \in SUBSET Rest
    BY <2>2
  <2> QED
    BY <1>1, <2>1, <2>3 DEF Marshalled, DeploymentSpec
<1>3. /\ m.core.ns = r.core.ns /\ m.core.sized = r.core.sized
      /\ m.core.on = Switches /\ TurnOn(m.core, Switches) = m.core
  BY <1>1, <1>2 DEF Core, TurnOn
<1> HIDE DEF m
<1>4. ASSUME NEW z \in m.rest
      PROVE  /\ TurnOnRest(z, TRUE) = z /\ z.enabled
             /\ \E x \in r.rest :
                   /\ z.ns = x.ns /\ z.temporal = x.temporal
                   /\ z.endpoint = x.endpoint /\ z.keycloak = x.keycloak
                   /\ z.providers = x.providers /\ z.sized = x.sized
  <2>1. PICK x \in r.rest : z = TurnOnRest(x, TRUE)
    BY <1>2
  <2> QED
    BY <1>1, <2>1, TurnOnRestIs
<1>5. Marshalled(m) = m
  <2>1. {TurnOnRest(x, TRUE) : x \in m.rest} = m.rest
    BY <1>4
  <2>2. Marshalled(m) = [m EXCEPT !.core = m.core, !.rest = m.rest]
    BY <1>3, <2>1 DEF Marshalled
  <2> QED
    BY <1>2, <2>2 DEF DeploymentSpec
<1>6. IsSpec(m)
  <2>1. AtMostOne(m.rest)
    BY <1>1, <1>2 DEF AtMostOne
  <2> QED
    BY <1>2, <2>1, Parts DEF IsSpec
<1>7. Fixed(m)
  <2>1. /\ DefaultInfra(m) = DefaultInfra(r) /\ DefaultTLS(m) = DefaultTLS(r)
        /\ DefaultVault(m) = DefaultVault(r)
    BY <1>2 DEF DefaultInfra, DefaultTLS, DefaultVault
  <2>2. ASSUME NEW z \in m.rest
        PROVE  /\ Inherit(z.ns, m.infra) = z.ns
               /\ z.temporal # "" /\ z.keycloak # ""
               /\ z.sized = TRUE /\ z.enabled
    <3>1. PICK x \in r.rest : /\ z.ns = x.ns /\ z.temporal = x.temporal
                              /\ z.keycloak = x.keycloak /\ z.sized = x.sized
      BY <1>4
    <3>2. /\ Inherit(x.ns, r.infra) = x.ns
          /\ x.temporal # "" /\ x.keycloak # "" /\ x.sized = TRUE
      BY <3>1 DEF Fixed
    <3> QED
      BY <1>2, <1>4, <3>1, <3>2
  <2> QED
    BY <1>2, <1>3, <2>1, <2>2 DEF Fixed
<1>8. validateCarbideDeployment(r) => validateCarbideDeployment(m)
  <2> SUFFICES ASSUME validateCarbideDeployment(r)
               PROVE  validateCarbideDeployment(m)
    OBVIOUS
  <2>1. ASSUME NEW z \in m.rest
        PROVE  /\ z.temporal = "external" => z.endpoint
               /\ z.keycloak = "external" => z.providers = "given"
    <3>1. PICK x \in r.rest : /\ z.temporal = x.temporal
                              /\ z.endpoint = x.endpoint
                              /\ z.keycloak = x.keycloak
                              /\ z.providers = x.providers
      BY <1>4
    <3>2. /\ x.temporal = "external" => x.endpoint
          /\ x.keycloak = "external" => x.providers = "given"
      BY <3>1 DEF validateCarbideDeployment
    <3> QED
      BY <3>1, <3>2
  <2>2. r.rest # {} => m.rest # {}
    BY <1>2
  <2> QED
    BY <1>2, <2>1, <2>2 DEF validateCarbideDeployment
<1> QED
  BY <1>2, <1>5, <1>6, <1>7, <1>8 DEF m

-----------------------------------------------------------------------------
(***************************************************************************)
(* The stored object.                                                      *)
(***************************************************************************)

\* What is stored has its defaults and is valid.
Settled == \A r \in stored : Fixed(r) /\ validateCarbideDeployment(r)

\* An admitted write keeps the invariant.
LEMMA StoreKeeps ==
  ASSUME NEW x, IsSpec(x), validateCarbideDeployment(Mutated(x)),
         Store(Mutated(x))
  PROVE  (TypeOK /\ Settled)'
<1> DEFINE new == Mutated(x)
<1>1. IsSpec(new) /\ Fixed(new) /\ validateCarbideDeployment(new)
  BY MutatedIsFixed
<1>2. stored' = {new}
  BY DEF Store
<1> HIDE DEF new
<1>3. TypeOK'
  BY <1>1, <1>2 DEF TypeOK, AtMostOne
<1>4. Settled'
  BY <1>1, <1>2 DEF Settled
<1> QED
  BY <1>3, <1>4

\* A part of a stored spec replaced by one a user wrote is a spec.
LEMMA EditIsSpec ==
  ASSUME NEW old, IsSpec(old), NEW raw, IsSpec(raw)
  PROVE  /\ IsSpec([old EXCEPT !.infra = raw.infra])
         /\ IsSpec([old EXCEPT !.rest = raw.rest])
         /\ IsSpec([old EXCEPT !.vault = raw.vault])
<1>1. /\ raw.infra \in SUBSET Infra /\ raw.rest \in SUBSET Rest
      /\ raw.vault \in SUBSET Vault
  BY Parts DEF DeploymentSpec
<1>2. IsSpec([old EXCEPT !.infra = raw.infra])
  BY <1>1, Parts DEF DeploymentSpec, IsSpec
<1>3. IsSpec([old EXCEPT !.rest = raw.rest])
  BY <1>1, Parts DEF DeploymentSpec, IsSpec
<1>4. IsSpec([old EXCEPT !.vault = raw.vault])
  BY <1>1, Parts DEF DeploymentSpec, IsSpec
<1> QED
  BY <1>2, <1>3, <1>4

\* The inductive invariant: whatever users write and in whatever order, what
\* is stored is well formed, has its defaults and is valid.
LEMMA Invariance == Spec => [](TypeOK /\ Settled)
<1>1. Init => TypeOK /\ Settled
  BY DEF Init, TypeOK, Settled, AtMostOne
<1>2. TypeOK /\ Settled /\ [Next]_vars => (TypeOK /\ Settled)'
  <2> SUFFICES ASSUME TypeOK, Settled, [Next]_vars
               PROVE  (TypeOK /\ Settled)'
    OBVIOUS
  <2>1. CASE Create
    <3>1. PICK raw \in Raws : /\ validateCarbideDeployment(Mutated(raw))
                              /\ Store(Mutated(raw))
      BY <2>1 DEF Create, ValidateCreate
    <3> QED
      BY <3>1, RawsAssumption, StoreKeeps
  <2>2. CASE Update
    <3>1. PICK raw \in Raws : /\ validateCarbideDeployment(Mutated(raw))
                              /\ Store(Mutated(raw))
      BY <2>2 DEF Update, ValidateUpdate
    <3> QED
      BY <3>1, RawsAssumption, StoreKeeps
  <2>3. CASE Edit
    <3>1. PICK old \in stored, raw \in Raws :
            \E new \in {Mutated([old EXCEPT !.infra = raw.infra]),
                        Mutated([old EXCEPT !.rest = raw.rest]),
                        Mutated([old EXCEPT !.vault = raw.vault])} :
                validateCarbideDeployment(new) /\ Store(new)
      BY <2>3 DEF Edit, ValidateUpdate
    <3>2. IsSpec(old) /\ IsSpec(raw)
      BY RawsAssumption DEF TypeOK
    <3>3. PICK x \in {[old EXCEPT !.infra = raw.infra],
                      [old EXCEPT !.rest = raw.rest],
                      [old EXCEPT !.vault = raw.vault]} :
            validateCarbideDeployment(Mutated(x)) /\ Store(Mutated(x))
      BY <3>1
    <3>4. IsSpec(x)
      <4>1. IsSpec([old EXCEPT !.infra = raw.infra])
        BY <3>2, EditIsSpec
      <4>2. IsSpec([old EXCEPT !.rest = raw.rest])
        BY <3>2, EditIsSpec
      <4>3. IsSpec([old EXCEPT !.vault = raw.vault])
        BY <3>2, EditIsSpec
      <4> QED
        BY <4>1, <4>2, <4>3, Zenon
    <3> QED
      BY <3>3, <3>4, StoreKeeps
  <2>4. CASE OperatorUpdates
    <3>1. PICK old \in stored :
            /\ validateCarbideDeployment(Mutated(Marshalled(old)))
            /\ Store(Mutated(Marshalled(old)))
      BY <2>4 DEF OperatorUpdates, ValidateUpdate
    <3>2. IsSpec(Marshalled(old))
      BY MarshalledIsFixed DEF TypeOK, Settled
    <3> QED
      BY <3>1, <3>2, StoreKeeps
  <2>5. CASE Delete
    BY <2>5 DEF Delete, TypeOK, Settled, AtMostOne
  <2>6. CASE UNCHANGED vars
    BY <2>6 DEF vars, TypeOK, Settled
  <2> QED
    BY <2>1, <2>2, <2>3, <2>4, <2>5, <2>6 DEF Next
<1> QED
  BY <1>1, <1>2, PTL DEF Spec

(***************************************************************************)
(* Whatever users write and in whatever order, the operator's update of    *)
(* the finalizer is admitted (a deletion does not hang on validation), it  *)
(* turns on the flags that were off and changes nothing else, and the next *)
(* one changes nothing.                                                    *)
(***************************************************************************)
THEOREM WritesPass == Spec => []OperatorWritesPass
<1>1. TypeOK /\ Settled => OperatorWritesPass
  <2> SUFFICES ASSUME TypeOK, Settled, NEW r \in stored
               PROVE  LET new == Mutated(Marshalled(r))
                      IN  /\ ValidateUpdate(r, new)
                          /\ new = Marshalled(r)
                          /\ Mutated(Marshalled(new)) = new
    BY DEF OperatorWritesPass
  <2> DEFINE m == Marshalled(r)
  <2>1. IsSpec(r) /\ Fixed(r) /\ validateCarbideDeployment(r)
    BY DEF TypeOK, Settled
  <2>2. /\ IsSpec(m) /\ Fixed(m) /\ Marshalled(m) = m
        /\ m.profile = r.profile /\ m.infra = r.infra
        /\ validateCarbideDeployment(m)
    BY <2>1, MarshalledIsFixed
  <2> HIDE DEF m
  <2>3. Mutated(m) = m
    BY <2>2, FixedIsLeftAlone
  <2>4. AtMostOne(r.infra)
    BY <2>1, Parts
  <2>5. ValidateUpdate(r, m)
    BY <2>2, <2>4 DEF ValidateUpdate, AtMostOne
  <2> QED
    BY <2>2, <2>3, <2>5 DEF m
<1> QED
  BY <1>1, Invariance, PTL

(***************************************************************************)
(* The defaults, the edits of a stored spec and the operator's JSON of it  *)
(* only ever make well-formed specs: no mode the CRD does not know, no     *)
(* part given twice.                                                       *)
(***************************************************************************)
THEOREM TypeCorrect == Spec => []TypeOK
<1>1. TypeOK /\ Settled => TypeOK
  OBVIOUS
<1> QED
  BY <1>1, Invariance, PTL

(***************************************************************************)
(* What a completed and valid spec offers the tiers.                       *)
(***************************************************************************)

\* A site has Vault, RLA and PSM.
LEMMA SiteHasServices ==
  ASSUME NEW r, IsSite(r.profile),
         r.vault = DefaultVault(r), r.rla = DefaultAddon(r.rla, r.profile),
         r.psm = DefaultAddon(r.psm, r.profile)
  PROVE  {} \notin {r.vault, r.rla, r.psm}
<1>1. r.vault # {}
  BY DEF DefaultVault
<1>2. r.rla # {} /\ r.psm # {}
  BY DEF DefaultAddon
<1> QED
  BY <1>1, <1>2

\* TLS is there in a usable mode.
LEMMA TLSIsUsable ==
  ASSUME NEW r \in DeploymentSpec, r.tls = DefaultTLS(r),
         validateCarbideDeployment(r)
  PROVE  \E t \in r.tls : \/ t.mode = "spiffe" /\ t.spiffe = "given"
                          \/ t.mode = "certManager" /\ t.issuer = "given"
<1>1. r.tls # {}
  BY DEF DefaultTLS
<1>2. PICK t \in r.tls : TRUE
  BY <1>1
<1>3. PICK u \in r.tls : t = CompleteTLS(u)
  BY <1>1, <1>2 DEF DefaultTLS
<1>4. u \in TLS
  BY DEF DeploymentSpec
<1>5. \/ t.mode = "spiffe" /\ t.spiffe = "given"
      \/ t.mode = "certManager"
  BY <1>3, <1>4 DEF CompleteTLS, TLS, Or
<1>6. t.mode = "certManager" => t.issuer = "given"
  BY DEF validateCarbideDeployment
<1> QED
  BY <1>5, <1>6

\* Infrastructure and core have their namespace, PostgreSQL its mode and
\* databases, an external one its connection.
LEMMA InfraIsUsable ==
  ASSUME NEW r \in DeploymentSpec, r.infra = DefaultInfra(r),
         r.core.ns = Inherit(r.core.ns, r.infra), validateCarbideDeployment(r)
  PROVE  \A i \in r.infra : /\ "" \notin {i.ns, r.core.ns, i.pg, i.dbs}
                            /\ i.pg = "external" => i.conn = "given"
<1> SUFFICES ASSUME NEW i \in r.infra
             PROVE  /\ "" \notin {i.ns, r.core.ns, i.pg, i.dbs}
                    /\ i.pg = "external" => i.conn = "given"
  OBVIOUS
<1>1. \A x \in DefaultInfra(r) : x.ns # "" /\ x.pg # "" /\ x.dbs # ""
  <2>1. SUFFICES ASSUME NEW y \in r.infra
                 PROVE  LET c == CompleteInfra(y, r.profile)
                        IN  c.ns # "" /\ c.pg # "" /\ c.dbs # ""
    BY DEF DefaultInfra
  <2>2. DefaultNamespace(r.profile) # ""
    BY DEF DefaultNamespace
  <2>3. r.profile # ""
    BY DEF DeploymentSpec, Profiles
  <2> QED
    BY <2>2, <2>3 DEF CompleteInfra, Or
<1>2. r.core.ns # ""
  <2>3. (CHOOSE x \in r.infra : TRUE) \in r.infra
    OBVIOUS
  <2>4. (CHOOSE x \in r.infra : TRUE).ns # ""
    BY <1>1, <2>3
  <2> QED
    BY <2>4 DEF Inherit
<1>3. i.pg = "external" => i.conn = "given"
  BY DEF validateCarbideDeployment
<1> QED
  BY <1>1, <1>2, <1>3

\* Vault has a mode, an external one its address and token.
LEMMA VaultIsUsable ==
  ASSUME NEW r \in DeploymentSpec, r.vault = DefaultVault(r),
         validateCarbideDeployment(r)
  PROVE  \A v \in r.vault : /\ v.mode \in {"managed", "external"}
                            /\ v.mode = "external" => v.address /\ v.token
<1> SUFFICES ASSUME NEW v \in r.vault
             PROVE  /\ v.mode \in {"managed", "external"}
                    /\ v.mode = "external" => v.address /\ v.token
  OBVIOUS
<1>1. v = [mode |-> "managed", address |-> FALSE, token |-> FALSE,
           sized |-> TRUE]
      \/ \E u \in r.vault : v = CompleteVault(u)
  BY DEF DefaultVault
<1>2. \A u \in Vault : CompleteVault(u).mode \in {"managed", "external"}
  BY DEF CompleteVault, Vault, Modes, Or
<1>3. r.vault \in SUBSET Vault
  BY DEF DeploymentSpec
<1>4. v.mode \in {"managed", "external"}
  BY <1>1, <1>2, <1>3
<1>5. v.mode = "external" => v.address /\ v.token
  BY DEF validateCarbideDeployment
<1> QED
  BY <1>4, <1>5

(***************************************************************************)
(* Every stored spec offers the tiers what they rely on without checking.  *)
(***************************************************************************)
THEOREM TiersRely == Spec => []TiersCanRely
<1>1. TypeOK /\ Settled => TiersCanRely
  <2> SUFFICES ASSUME TypeOK, Settled, NEW r \in stored
               PROVE  /\ IsHub(r.profile) =>
                            r.rest # {} /\ \A x \in r.rest : x.enabled
                      /\ IsSite(r.profile) =>
                            /\ r.core.on = Switches
                            /\ {} \notin {r.vault, r.rla, r.psm}
                      /\ \E t \in r.tls :
                            \/ t.mode = "spiffe" /\ t.spiffe = "given"
                            \/ t.mode = "certManager" /\ t.issuer = "given"
                      /\ \A i \in r.infra :
                            /\ "" \notin {i.ns, r.core.ns, i.pg, i.dbs}
                            /\ i.pg = "external" => i.conn = "given"
                      /\ \A v \in r.vault :
                            /\ v.mode \in {"managed", "external"}
                            /\ v.mode = "external" => v.address /\ v.token
    BY DEF TiersCanRely
  <2>1. r \in DeploymentSpec /\ Fixed(r) /\ validateCarbideDeployment(r)
    BY Parts DEF TypeOK, Settled
  <2>2. /\ r.infra = DefaultInfra(r) /\ r.tls = DefaultTLS(r)
        /\ r.core.ns = Inherit(r.core.ns, r.infra)
        /\ r.vault = DefaultVault(r) /\ r.rla = DefaultAddon(r.rla, r.profile)
        /\ r.psm = DefaultAddon(r.psm, r.profile)
    BY <2>1 DEF Fixed
  <2>3. IsHub(r.profile) => r.rest # {} /\ \A x \in r.rest : x.enabled
    BY <2>1 DEF validateCarbideDeployment, Fixed
  <2>4. IsSite(r.profile) => /\ r.core.on = Switches
                             /\ {} \notin {r.vault, r.rla, r.psm}
    BY <2>1, <2>2, SiteHasServices DEF Fixed
  <2>5. \E t \in r.tls : \/ t.mode = "spiffe" /\ t.spiffe = "given"
                         \/ t.mode = "certManager" /\ t.issuer = "given"
    BY <2>1, <2>2, TLSIsUsable
  <2>6. \A i \in r.infra : /\ "" \notin {i.ns, r.core.ns, i.pg, i.dbs}
                           /\ i.pg = "external" => i.conn = "given"
    BY <2>1, <2>2, InfraIsUsable
  <2>7. \A v \in r.vault : /\ v.mode \in {"managed", "external"}
                           /\ v.mode = "external" => v.address /\ v.token
    BY <2>1, <2>2, VaultIsUsable
  <2> QED
    BY <2>3, <2>4, <2>5, <2>6, <2>7
<1> QED
  BY <1>1, Invariance, PTL
=============================================================================
