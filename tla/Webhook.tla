------------------------------ MODULE Webhook ------------------------------
(***************************************************************************)
(* The admission webhook (api/v1alpha1/carbidedeployment_webhook.go) in    *)
(* front of one stored CarbideDeployment: every create and update of the   *)
(* object, by users and by the operator itself when it adds or removes its *)
(* finalizer, goes through Default and then through ValidateCreate or      *)
(* ValidateUpdate.  Status updates do not pass here.                       *)
(*                                                                         *)
(* Default works on the Go struct, the API server on JSON, and the two are *)
(* not the same: the "enabled" of rest, dhcp, pxe and dns is left out of   *)
(* the JSON when it is false (omitempty), and the CRD's default for one    *)
(* that is left out is true.  A flag in a request that is left out is true *)
(* here, false is one that was written out.                                *)
(*                                                                         *)
(* A part of the spec behind a pointer is a set of at most one record.     *)
(* Numbers, versions and names without a rule of their own are one flag    *)
(* per part: "sized", all of them given.  Warnings are left out.           *)
(***************************************************************************)
EXTENDS Naturals

CONSTANTS
    Names,   \* names of namespaces, "" included
    Raws     \* the specs users write

VARIABLE
    stored    \* the spec in the API server, in a set; {} without an object

vars == <<stored>>

Profiles == {"management", "site", "management-with-site"}
Modes    == {"", "managed", "external"}

\* The network services that can be switched on.
Switches == {"dhcp", "pxe", "dns"}

Infra == [ns : Names, dbs : {"", "given"} \cup Profiles, pg : Modes,
          conn : {"nil", "noHost", "given"}, sized : BOOLEAN]
Core  == [ns : Names, on : SUBSET Switches, sized : BOOLEAN]
Rest  == [enabled : BOOLEAN, ns : Names, temporal : Modes, endpoint : BOOLEAN,
          keycloak : Modes \cup {"disabled"},
          providers : {"none", "noURL", "given"}, sized : BOOLEAN]
TLS   == [mode : {"", "spiffe", "certManager"},
          spiffe : {"nil", "partial", "given"},
          issuer : {"nil", "noKind", "given"}]
Vault == [mode : Modes, address : BOOLEAN, token : BOOLEAN, sized : BOOLEAN]
Addon == [on : BOOLEAN, sized : BOOLEAN]

DeploymentSpec == [profile : Profiles, network : BOOLEAN, infra : SUBSET Infra,
                   core : Core, rest : SUBSET Rest, tls : SUBSET TLS,
                   vault : SUBSET Vault, rla : SUBSET Addon, psm : SUBSET Addon]

AtMostOne(S) == \A x, y \in S : x = y

IsSpec(r) ==
    /\ r \in DeploymentSpec
    /\ \A S \in {r.infra, r.rest, r.tls, r.vault, r.rla, r.psm} : AtMostOne(S)

ASSUME NamesAssumption ==
    {"", "nvidia-carbide-mgmt", "carbide-site-name", "nvidia-carbide"}
        \subseteq Names
ASSUME RawsAssumption == \A r \in Raws : IsSpec(r)

\* A value, or a default where it is empty.
Or(v, default) == IF v = "" THEN default ELSE v

IsSite(profile) == profile \in {"site", "management-with-site"}
IsHub(profile)  == profile \in {"management", "management-with-site"}

-----------------------------------------------------------------------------
(***************************************************************************)
(* applyDefaults.                                                          *)
(***************************************************************************)
DefaultNamespace(profile) ==
    IF profile = "management" THEN "nvidia-carbide-mgmt"
    ELSE IF profile = "site" THEN "carbide-site-name" ELSE "nvidia-carbide"

CompleteInfra(i, profile) ==
    [ns |-> Or(i.ns, DefaultNamespace(profile)), dbs |-> Or(i.dbs, profile),
     pg |-> Or(i.pg, "managed"), conn |-> i.conn, sized |-> TRUE]

DefaultInfra(r) == {CompleteInfra(i, r.profile) : i \in r.infra}

\* The namespace a tier takes over from the infrastructure.
Inherit(ns, infra) ==
    IF ns = "" /\ infra # {} THEN (CHOOSE i \in infra : TRUE).ns ELSE ns

\* Mutant: the tiers take over the namespace before it has its default.
DefaultCoreEarly(r) ==
    [ns |-> Inherit(r.core.ns, r.infra),
     on |-> IF IsSite(r.profile) THEN Switches ELSE {},
     sized |-> TRUE]

\* In the struct the network services follow the profile, whatever the user
\* wrote.
DefaultCore(r) ==
    [ns |-> Inherit(r.core.ns, DefaultInfra(r)),
     on |-> IF IsSite(r.profile) THEN Switches ELSE {},
     sized |-> TRUE]

CompleteRest(x, r) ==
    [enabled |-> IsHub(r.profile), ns |-> Inherit(x.ns, DefaultInfra(r)),
     temporal |-> Or(x.temporal, "managed"), endpoint |-> x.endpoint,
     keycloak |-> Or(x.keycloak, "managed"), providers |-> x.providers,
     sized |-> TRUE]

DefaultRest(r) == {CompleteRest(x, r) : x \in r.rest}

CompleteTLS(t) ==
    [t EXCEPT !.mode = Or(@, "spiffe"),
              !.spiffe = IF @ = "nil" /\ t.mode = "certManager" THEN @
                         ELSE "given"]

DefaultTLS(r) ==
    IF r.tls = {} THEN {[mode |-> "spiffe", spiffe |-> "given", issuer |-> "nil"]}
    ELSE {CompleteTLS(t) : t \in r.tls}

\* Mutant: a mode the CRD does not know.
DefaultVaultInternal(r) ==
    {[v EXCEPT !.mode = Or(@, "internal"), !.sized = TRUE] : v \in r.vault}

CompleteVault(v) == [v EXCEPT !.mode = Or(@, "managed"), !.sized = TRUE]

DefaultVault(r) ==
    IF r.vault = {} /\ IsSite(r.profile)
    THEN {[mode |-> "managed", address |-> FALSE, token |-> FALSE, sized |-> TRUE]}
    ELSE {CompleteVault(v) : v \in r.vault}

\* RLA and PSM.
CompleteAddon(x) == [on |-> x.on, sized |-> TRUE]

DefaultAddon(a, profile) ==
    IF a = {} /\ IsSite(profile) THEN {[on |-> TRUE, sized |-> TRUE]}
    ELSE {CompleteAddon(x) : x \in a}

applyDefaults(r) ==
    [profile |-> r.profile, network |-> r.network, infra |-> DefaultInfra(r),
     core |-> DefaultCore(r), rest |-> DefaultRest(r), tls |-> DefaultTLS(r),
     vault |-> DefaultVault(r), rla |-> DefaultAddon(r.rla, r.profile),
     psm |-> DefaultAddon(r.psm, r.profile)]

-----------------------------------------------------------------------------
(***************************************************************************)
(* From the struct to what is stored.                                      *)
(***************************************************************************)
\* A block with flags turned on: those that were on before stay so.
TurnOn(c, on)       == [c EXCEPT !.on = c.on \cup on]
TurnOnRest(x, also) == [x EXCEPT !.enabled = x.enabled \/ also]

\* The operator's copy of r as its update puts it into JSON and the API
\* server reads it: a flag that was false is left out, and so is true.
Marshalled(r) ==
    [r EXCEPT !.core = TurnOn(r.core, Switches),
              !.rest = {TurnOnRest(x, TRUE) : x \in r.rest}]

\* A request after the mutating webhook.  What the struct has as true is set
\* in the request; what it has as false is taken out of a request that had
\* true, where the CRD's default makes it true again, and left alone in one
\* that had false.
Mutated(raw) ==
    LET d     == applyDefaults(raw)
        asked == \E y \in raw.rest : y.enabled
    IN  [d EXCEPT !.core = TurnOn(d.core, raw.core.on),
                  !.rest = {TurnOnRest(x, asked) : x \in d.rest}]

-----------------------------------------------------------------------------
(***************************************************************************)
(* Validation.                                                             *)
(***************************************************************************)
\* Mutant: an external service may lack its credentials.
validateAddressOnly(r) ==
    /\ IsSite(r.profile) => r.network
    /\ IsHub(r.profile) => r.rest # {}
    /\ \A t \in r.tls : t.mode = "certManager" => t.issuer = "given"
    /\ \A i \in r.infra : i.pg = "external" => i.conn = "given"
    /\ \A v \in r.vault : v.mode = "external" => v.address

validateCarbideDeployment(r) ==
    /\ IsSite(r.profile) => r.network
    /\ IsHub(r.profile) => r.rest # {}
    /\ \A t \in r.tls : t.mode = "certManager" => t.issuer = "given"
    /\ \A i \in r.infra : i.pg = "external" => i.conn = "given"
    /\ \A v \in r.vault : v.mode = "external" => v.address /\ v.token
    /\ \A x \in r.rest : /\ x.temporal = "external" => x.endpoint
                         /\ x.keycloak = "external" => x.providers = "given"

ValidateCreate(new) == validateCarbideDeployment(new)

ValidateUpdate(old, new) ==
    /\ old.profile = new.profile
    /\ \A o \in old.infra, n \in new.infra :
          o.ns # "" /\ n.ns # "" => o.ns = n.ns
    /\ validateCarbideDeployment(new)

-----------------------------------------------------------------------------
Init == stored = {}

\* An admitted write; a rejected one changes nothing.
Store(new) == stored' = {new}

Create ==
    /\ stored = {}
    /\ \E raw \in Raws : LET new == Mutated(raw)
                         IN  ValidateCreate(new) /\ Store(new)

Update ==
    \E old \in stored, raw \in Raws :
        LET new == Mutated(raw)
        IN  ValidateUpdate(old, new) /\ Store(new)

\* The user goes back to what is stored and takes one part away or gives it
\* anew.
Edit ==
    \E old \in stored, raw \in Raws :
        \E new \in {Mutated([old EXCEPT !.infra = raw.infra]),
                    Mutated([old EXCEPT !.rest = raw.rest]),
                    Mutated([old EXCEPT !.vault = raw.vault])} :
            ValidateUpdate(old, new) /\ Store(new)

\* The operator adds its finalizer, with an update of the whole object.
\* (Removing it ends in Delete.)
OperatorUpdates ==
    \E old \in stored :
        LET new == Mutated(Marshalled(old))
        IN  ValidateUpdate(old, new) /\ Store(new)

Delete == stored # {} /\ stored' = {}

Next == Create \/ Update \/ Edit \/ OperatorUpdates \/ Delete

Spec == Init /\ [][Next]_vars

-----------------------------------------------------------------------------
TypeOK == /\ \A r \in stored : IsSpec(r)
          /\ AtMostOne(stored)

(***************************************************************************)
(* The operator adds and removes its finalizer with an update of the whole *)
(* object (controller.go:110, 371), which passes the webhook like a        *)
(* user's.  Whatever sequence of creates and updates led to the stored     *)
(* spec, that update is admitted, so a deletion never hangs on validation. *)
(* It changes nothing but the flags that were false, which it turns on,    *)
(* and a second one nothing at all: the operator raises the generation it  *)
(* reconciles once at most.                                                *)
(***************************************************************************)
OperatorWritesPass ==
    \A r \in stored :
        LET new == Mutated(Marshalled(r))
        IN  /\ ValidateUpdate(r, new)
            /\ new = Marshalled(r)
            /\ Mutated(Marshalled(new)) = new

(***************************************************************************)
(* What the tiers rely on without checking, or fail on for good: a stored  *)
(* spec has the REST tier enabled for the management profiles, all network *)
(* services and Vault, RLA, PSM for the site profiles, a usable TLS mode,  *)
(* a namespace for the tiers wherever infrastructure is given, and no      *)
(* external service without its address.                                   *)
(***************************************************************************)
TiersCanRely ==
    \A r \in stored :
        /\ IsHub(r.profile) => r.rest # {} /\ \A x \in r.rest : x.enabled
        /\ IsSite(r.profile) => /\ r.core.on = Switches
                                /\ {} \notin {r.vault, r.rla, r.psm}
        /\ \E t \in r.tls : \/ t.mode = "spiffe" /\ t.spiffe = "given"
                            \/ t.mode = "certManager" /\ t.issuer = "given"
        /\ \A i \in r.infra : /\ "" \notin {i.ns, r.core.ns, i.pg, i.dbs}
                              /\ i.pg = "external" => i.conn = "given"
        /\ \A v \in r.vault : v.mode \in {"managed", "external"}
                              /\ (v.mode = "external" => v.address /\ v.token)
=============================================================================
