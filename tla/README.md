# TLA+ models of the Carbide operator

The operator reconciles one custom resource, `CarbideDeployment`, into three
tiers of workloads: infrastructure (PostgreSQL), core (carbide-api, DHCP, PXE,
DNS, Vault, RLA, PSM) and REST (Temporal, Keycloak, REST API, workers, site
manager, site agent). This directory holds TLA+ models of it, the TLC
configurations that check them and proofs for TLAPS.

    tlc -workers 2 -config MCControllerSafety.cfg MCController
    tlapm Controller_proofs.tla      # and the other *_proofs modules

## 1. Inventory

| Part | State | Operations | Properties that make it correct |
|---|---|---|---|
| Reconcile loop (`internal/controller/carbidedeployment_controller.go`) | none of its own between passes: the object, the informer cache, the work queue | `Reconcile`, `reconcileDelete`, `checkTLSPrerequisites`, the wrappers of the tiers | Ready is earned by one pass; a pass touches only its own, living object; deletes go through; a deployment that has all it needs becomes Ready |
| Conditions and phases (`internal/conditions/helpers.go`) | `Status`: phase, observed generation, one `TierStatus` per tier, conditions | setters, `InitializeConditions`, `SetReadyCondition` | Ready exactly when TLS and the required tiers are |
| Infrastructure tier (`infrastructure_reconciler.go`, `internal/resources/infrastructure`) | the namespace, the init ConfigMap, the PostgresCluster with its users and databases | `Reconcile`, managed and external PostgreSQL | ready is found by the pass that says so; no cluster without its ConfigMap; the services find a Secret and a database their user owns |
| Core tier (`core_reconciler.go`, `internal/resources/core`) | the resources in the cluster | `Reconcile` and a step per service | ready covers every enabled service, found in the same pass; nothing is rolled out before what it mounts; services follow the API; converges |
| REST tier (`rest_reconciler.go`, `internal/resources/rest`) | the same | the same | the same, for Temporal, Keycloak and what needs them |
| Admission webhook (`api/v1alpha1/carbidedeployment_webhook.go`) | the stored spec | `Default`, `ValidateCreate/Update/Delete` | stored specs have what the tiers rely on; the operator's own updates are admitted, and settle after the first |
| Readiness checks (`internal/utils/readiness.go`) | none | `IsDeploymentReady`, `IsDaemonSetReady`, `IsJobComplete`, ... | say ready of the version that was written |
| TLS backends (`internal/resources/tls`) | none | detection, `InjectTLS`, Certificates, SPIFFE IDs | every pod finds what is injected |
| `createOrUpdate` (one per reconciler) | none | Get, Create or Update, one retry on conflict in two of the three | one atomic write that never covers a change it has not read; failed calls do not matter in the end |
| External services (`internal/utils/external.go`) | none | Secrets, a login, an address that answers | an external service counts as ready only when it was reached |
| Owner references | on each resource | garbage collection by the cluster | nothing outlives the deployment, nothing is collected before it |

How they interact. The manager runs one worker for the resource. A pass reads
the object from the informer cache, which lags behind the API server, and
writes to the API server, which accepts an update only against the latest
version. The webhook stands in front of every write of the spec and of the
finalizer, not of the status. The tiers run one after the other in the pass,
each gated on the `TierStatus` of the one before; they share nothing but the
object's status and the resources in the cluster. What wakes the controller is
a change of the object (`For`), of an owned workload (`Owns`,
`carbidedeployment_controller.go:400-412`), or a requeue: after an error, or
after 30 seconds while not ready. PostgresClusters, Keycloaks, Certificates and
SPIRE IDs are in no `Owns`; workloads that Helm installs have no owner, and an
owner in another namespace is not found, so these wake nobody either.

What is hard: passes over stale copies, also of an object that has been deleted
and created anew under its name; a re-fetch before the status write that takes
over the new version and keeps the old status; passes that stop after any of
some twenty writes; flags that start out true and gates that skip their check;
readiness read from the cache just after a write; workloads that wait for
resources made by later steps of the pass; a `createOrUpdate` whose Get, and
retry, read a stale cache; a garbage collector that looks for owners while the
deployment comes back under its name. `PROJECT.json` lists these hazards
with their lines.

## 2. Modules

| Module | Models | Builds on |
|---|---|---|
| `Conditions` | the helpers of the status, as operators on a spec and a status | |
| `Controller` | the reconcile loop around one object | `Conditions` |
| `TierContract` | abstract: what the loop may rely on when it calls a tier | |
| `TierPass` | what passes of the tiers share: lists of writes, readiness, the cluster | |
| `InfraTier`, `CoreTier`, `RestTier` | the three tiers, each shown to implement `TierContract` | `TierPass` |
| `AtomicWrite` | abstract: what a call of `createOrUpdate` promises | |
| `OwnedObject` | `createOrUpdate` call by call, owner references and the garbage collector; shown to implement `AtomicWrite` | |
| `Webhook` | defaults and validation in front of the stored spec | |
| `TierPass_proofs` | lemmas the proofs of the tiers share | `TierPass`, TLAPS |
| `Controller_proofs`, `InfraTier_proofs`, `CoreTier_proofs`, `RestTier_proofs`, `OwnedObject_proofs`, `Webhook_proofs` | the theorems of section 4 | each its module, TLAPS |
| `MC...` | values for the constants | each its module |

The models are cut where one part may take another for a single step, and each
cut is a refinement: a tier's pass is one step of `Controller`, justified by
`TierContract`; a write is one step of a tier, justified by `AtomicWrite`.

### Controller

`api` is the object in the API server, `cache` the operator's copy and `watch`
the versions on their way there. `pc` says where a pass is, `dep` is its local
variable `deployment`, `cur` tells whether the version it will write against is
still the latest. `queued` and `timer` are the work queue and its delayed
entries; `health` stands for the workloads of each tier and the TLS backends.
`specAt`, `seen` and `basis` are history: the spec of each generation, what the
pass has found ready, and the pass that wrote the last status.

Each step of `Reconcile` is an action, cut wherever the code talks to the API
server or starts a tier: `Fetch`, `reconcileDelete`, `AddFinalizer`,
`InitStatus`, `CheckTLS` (with the generation noted before it), `TLSRefetch`
and `TLSWrite` (the early return of a missing backend),
`reconcileInfrastructure`, `reconcileCore`, `reconcileRest`, `SetReady` (with
the re-fetch) and `UpdateStatus` (with the requeue). Every write ends `"ok"`,
`"lost"` (applied, the reply lost) or `"failed"` (a conflict, for free when the
copy is stale, or an API error). `Crash` drops the pass at any point and lists
the object anew. Around it users create, update and delete, watch events arrive
(`Sync`), timers fire and workloads change health. `Watched` names the tiers
whose changes wake the loop: the core tier in the runs, standing for workloads
of a kind in `Owns` in the deployment's own namespace.

The update that adds the finalizer sends the whole object, and flags that are
false are left out of its JSON and come back as true (see Webhook). So
`PutFinalizer` may turn a disabled `rest` block on, which makes a new generation.

A tier's pass is one step here: it ends ready, not ready or in error according
to `health`. `"flaky"` health allows all three at any time, which is how the
safety run covers every behaviour of the tiers; `InfraTier`, `CoreTier` and
`RestTier` open the step up.

### TierContract

Five variables: the configuration as users left it, the pass's copy, whether a
pass is under way, what it found, the `TierStatus` last returned. A pass works
on one copy from beginning to end; its status is replaced only when it returns
and speaks of that copy; it says ready, without an error, only if it found
during this very pass every component the copy asks for. This is what `seen`
and the one step of a tier in `Controller` stand for. The three tiers instantiate
it (`Contract == INSTANCE TierContract WITH ...`) with their own list of
components; `InfraKeepsContract`, `CoreKeepsContract` and `RestKeepsContract`
say that they implement it.

### TierPass, InfraTier, CoreTier, RestTier

`objs` maps the resources in the cluster to the template they were last written
with, as far as their builder reads the configuration; `up` are available
workloads, complete Jobs and bound claims; `stale` are workloads that were
written anew while the cache still shows the old version as available. `ready`
are the local flags of the pass (`apiReady`, `vaultReady`, ...) and `tier` is
the `TierStatus` it returned.

A step of a pass is an action: it writes a list of resources in the order of
the code (`WritesAll`), or stops after any prefix with an error (`WritesSome`),
and then looks at the workload (`Finds`, `LooksUp`). `Refs` is what the pods of
a workload cannot start without: ServiceAccounts, ConfigMaps, Secrets,
certificates or SPIFFE IDs, read off the builders. The cluster's actions bring
a workload up once its references exist, complete and fail Jobs, bind claims,
issue certificates, lose pods.

*Jobs are removed every day.* All Jobs have `ttlSecondsAfterFinished` = 86400. A
finished Job is removed a day later, created anew by the next pass, run and
removed again, for ever: `JobExpires` costs nothing when it is `Due`. Since a day
is far longer than the time between passes (30 seconds, minutes after errors)
and than the run of a Job, a complete Job is due once a pass has found it and
its companion complete. The Helm Job was created first and may go first; then
the other is due until it is complete again. On a real API server no pass gets
past a Job that is there: it is due once a pass has failed at it. A complete
Job that goes earlier was removed by someone, and counts as a failure.

A configuration also says whether the deployment meets a real API server
(`strict`): that refuses an update of a Job or of a bound claim by an object
built without their immutable fields, and a pod template that mounts an
undefined volume. The fake client of the repository's tests accepts both, and
with `strict` false the model shows what the code does beyond these points.

`Provided` are resources the operator leaves to others (tokens, logins of an
external database, operators; for the core and REST tiers also the database
users' Secrets), `Present` those there from the start; the rest may arrive at
any time.

*Databases and namespaces.* With a managed database the Secret of a user is the
database operator's, with an external one it is named in `userSecrets`; both are
in the infrastructure's namespace, and the passes read them there. Pods look in
their own: a tier that is `apart` needs a copy (`Copied`), which others make.

*InfraTier* also has the postgres-operator (external), which follows the users
and databases of the PostgresCluster in its own time: Secrets come and go with
the users, databases are never dropped. `buildPostgreSQLUsers` is modelled by
what it computes: every database goes to the user `userDatabaseMapping` names,
or to one of its own name. Which Secret is tried first against an external
server depends on the order of a Go map and is a choice (`Connects`).

*CoreTier* has the script of the Vault init Job: an initialised Vault is left
alone; the pod may stop after initialising and before saving the keys, and the
script ignores a failure to save (`KeysLost`).

### AtomicWrite, OwnedObject

One resource beside the deployment that owns it. `obj` is the resource in the
API server, `watch` and `cache` what the operator's reads of typed objects lag
behind; `pc`, `built`, `fresh`, `answer` are a call of `createOrUpdate`, with
one action per call to the API server (`Get`, `Create`, `Update`, `GetAgain`,
`UpdateAgain`). A kind of resource says whether its `createOrUpdate` retries
(core and REST tiers) or not (infrastructure), whether it is read from the
cache (typed) or from the server (unstructured), and where it lives in relation
to its deployment. Any call may fail, with the write applied or not; the
operator may stop in the middle of one. Around it users change what they want,
switch the resource off, delete the deployment and create it anew; others edit
or remove the resource; the collector removes what has no owner.

In `AtomicWrite` a pending call takes effect at most once, in one step, never
over a change that it has not looked at, and answers "ok" only if it did.

### Webhook

A part of the spec behind a pointer is a set of at most one record. `Create`,
`Update`, `Edit` (a user changes part of what is stored) and `OperatorUpdates`
(the finalizer) go through `applyDefaults` and the validation; a rejected write
changes nothing. Values without a rule of their own (sizes, versions, ports) are
one flag per part.

`applyDefaults` is the Go function; what is stored is not its result. The
`enabled` of `rest`, `dhcp`, `pxe` and `dns` is left out of the JSON when it is
false (`omitempty`), and true by the CRD's default when it is left out
(`carbidedeployment_types.go:343-345, 355-357, 385-387, 503-505`). `Mutated` is a
request after the webhook: where the struct says true, true; where it says false,
the patch removes a true that was in the request, and the default brings it back,
while a false that the user wrote out is neither touched nor removed
(controller-runtime drops removals of fields the encoding omits). `Marshalled` is
the operator's own JSON, in which no false flag is left. `rla`, `psm` and
`siteAgent` have no such default; `security.tlsEnabled` (lines 404-406) has, and
is not modelled.

## 3. Runs

| Run | Result | Shows |
|---|---|---|
| `controller_safety` | holds | `TypeOK`, `ReadyIsEarned`, `PassOwnsObject`, `ObservedNeverFallsBack` with every tier answering anything, two generations, a re-created object, cache lag of two events, one failure anywhere |
| `controller_live` | holds | `BecomesReady`, `DeletionCompletes`, `FailureIsReported` with a watched tier (core) or one that is only polled (infrastructure) coming and going |
| `controller_site_rest` | violated | `BecomesReady` for a site whose `rest` block is switched off: the loop never runs the tier, `SetReadyCondition` waits for it. The finalizer update turns the block on; the user switches it off after that |
| `infra` | holds | `InfraTypeOK`, `InitBeforeCluster`, `DatabasesOwned`, `InfraKeepsContract`, `InfraConverges`: a hub whose databases change, a site that moves between the operator's database and its own, incomplete configurations; two failures, operators and logins that come late |
| `core` | holds | `CoreTypeOK`, `CreatedInOrder`, `CoreKeepsContract`, `ServicesFollowAPI`, `CoreConverges` while the configuration changes in the middle of passes: a site that switches TLS mode and Vault, one whose Vault moves while RLA waits for it, one with PXE storage, one in a namespace of its own on an external database that is upgraded on a real API server, edge configurations, the management profile; one failure; Jobs removed and run again for ever |
| `core_vault_cycle` | violated | `CoreConverges` for the default site: carbide-api waits for the Secret that the Vault init Job makes, the Job waits for carbide-api |
| `core_job_update` | violated | `CoreConverges` with managed Vault on a real API server: the update of the Helm Job in the second pass is refused, and so on for ever |
| `rest` | holds | `RestTypeOK`, `RestCreatedInOrder`, `RestKeepsContract`, `RestInOrder`, `RestSettles`: a hub that moves from managed to external Temporal and database, one in a namespace of its own, one that is upgraded on a real API server, one with managed Keycloak that is upgraded, one with managed Keycloak on a real API server, edge configurations; one failure; Jobs removed and run again for ever; given the resources nobody creates (section 5) |
| `rest_keycloak` | violated | `RestConverges` for the default hub: the Keycloak is looked up under a name it was not created with |
| `object` | holds | `TypeOK`, `CallIsAtomic`, `StaysAsBuilt`, `GoesWithOwner` for all four forms of `createOrUpdate`: two specs and off, two lives of the deployment, cache lag of two, two failures or edits by others |
| `object_elsewhere` | violated | `StaysAsBuilt` for a resource outside the namespace of its deployment: the collector removes it, the next pass writes it, for ever |
| `webhook_admission` | holds | `TypeOK`, `OperatorWritesPass`, `TiersCanRely` over every sequence of writes of some 350 specs and updates by the operator |

Each property has a mutant in the module it is about: an operator, marked
`Mutant:`, that changes a definition the way a plausible bug would.
`PROJECT.json` pairs them.

**What convergence means.** `CoreConverges`: once users leave a complete
configuration alone, its services come up and stay up, and the tier is ready for
it for good. With managed Vault it cannot be for good: the verdict asks for Jobs
that are gone every day, so the tier is ready again and again, and the services
run on in between. For the REST tier `RestConverges` is what the documents
promise of every complete configuration, and `rest_keycloak` refutes it. What is
left of it is `RestSettles`, checked in `rest`: `Reached` are the services that
come up (none on a real API server, where the second pass fails to update the
setup Job as in `core_job_update`; the workers alone with managed Keycloak; else
all), and where that is all of them the tier is ready again and again.
`RestInOrder` holds the REST API, the site manager and the site agent to the order
of `README.md:256`, and the workers, which the code does not hold to it, to the
comment above their own gate (section 5).

**Bounds.** `MaxGen`, `MaxUid` = 2: two generations, two lives of the name, so
that a pass can hold a copy of an earlier one; `Delete` adds a generation of
its own, and in `controller_site_rest` `MaxGen` = 3, for the block that is turned on
and off again. `MaxLag` = 2: the cache is two versions behind (an update and a delete,
or a delete and a create). `MaxFaults` = 1 or 2: the place of a failure matters
more than their number, since after each the pass starts over; a conflict
costs nothing. `Outages` names the sets of parts that may be unwell together:
all of them in the safety run, one at a time in the liveness run. `Lives` are
the sets of configurations a user moves within: two or three that differ in all
a pass reads, so that a pass can stop half-way in one and the next start in the
other. In `OwnedObject`, `MaxUid` = 2 lets the deployment come back while its
predecessor's resource is being collected; one failure is a lost reply and the
second an edit in between. The proofs need no bounds.

**Fairness.** Weak fairness of `Reconcile`, `Sync` and `TimerFires`:
controller-runtime's worker, informers and delaying queue are goroutines that
keep running, and a pass does not wait for anything. Nothing is assumed of
users or of failures. In the tiers: weak fairness of the pass (the loop comes
back while the tier is not ready, and after errors), of workloads that have all
they refer to, of claims, certificates and the postgres-operator, and of
what others have promised to supply (`Progress`); and of the Jobs on their own
(`JobProgress`: they run, and are removed in the end if they failed), because Jobs
that come back every day must not stand for the progress of anything else. No complete
Job has to be removed. In `OwnedObject`: weak fairness of the worker
(`Operate`), the informer (`Sync`) and the garbage collector (`Collect`).

**Deadlock** is not checked in `controller_safety` and `controller_site_rest`:
with the bounds used up and the object gone, or Ready in the same second as
before, nothing is left to do. Nor in `object` and `object_elsewhere`: after the
last deployment is gone and its resource collected, nothing is left either.

## 4. Proofs

`Controller_proofs` proves, for every set of specs, every set of watched tiers
and every bound (`SpecsAssumption`, with it that a spec whose false flag is left out
of the JSON is a spec; `WatchedAssumption`, `HealthAssumption`,
`BoundsAssumption`):

- `TypeCorrect`: `Spec => []TypeOK`
- `Invariance`: `Spec => []IInv`
- `ReadyEarned`: `Spec => []ReadyIsEarned`
- `PassOwnership`: `Spec => []PassOwnsObject`
- `ObservedGrows`: `Spec => ObservedNeverFallsBack`

`ReadyIsEarned` and `PassOwnsObject` are not inductive. `ReadyIsEarned` needs to know what the
pass that writes Ready carries in `dep.status`, part of which is left from
earlier passes. `SeenInv` says it stage by stage: a tier that is ready in the
copy was found ready in this pass, or a tier before it is not ready and keeps
the phase from becoming Ready. This is where the gates enter: `Status.Core` is
stale only when infrastructure is not ready, `Status.Rest` only when core is
not. `PassOwnsObject` needs to know that what a stale copy tells is still true:
`ChainInv` says that the cache and every version under way are earlier states
of the one object (`CopyOf`), the last of them the API server's, and `CopyOf`
says what lasts: a copy that exists under the finalizer and is not marked means
that the object is there, because only a pass that sees the mark removes the
finalizer, and it does so against the latest version (`PassInv`: `cur` means
that the pass's copy is the object itself). `IInv` is their conjunction with
`ReadyIsEarned`. Each action has a lemma of its own for each part it can
disturb; that the history of specs only grows (`CopyOf` after `Append`) and
that a watch queue keeps its order are lemmas on sequences.

`ObservedGrows` needs the order of the chain on top of it (`AgeInv`): copies of
one object follow each other by generation, the pass's copy before the cache's
before those under way, and none is older than what the stored status has
observed. Every step is of one of five kinds (a write, a delivery, a fetch, a
restart, nothing new), and the write of a pass is the only one that changes what
is observed.

`Webhook_proofs` proves, for every set of names and every set of well-formed
specs that users may write (`NamesAssumption`, `RawsAssumption`):

- `WritesPass`: `Spec => []OperatorWritesPass`
- `TypeCorrect`: `Spec => []TypeOK`
- `TiersRely`: `Spec => []TiersCanRely`

A stored spec is not a fixed point of `applyDefaults`, whose struct may say false
where true is stored. It is one of what a write leaves behind: `Fixed` says that
every other part is as the defaults make it, and that the flags contain those the
profile asks for. `MutatedIsFixed` (every request comes out so, part by part; the
namespaces are not obvious, since the tiers take theirs over from the
infrastructure, which has to have its own default by then), `FixedIsLeftAlone` (the
webhook does not change such a spec) and `MarshalledIsFixed` (the operator's JSON
of one is one, with all flags on) are the lemmas. `TypeOK /\ Settled` (what is
stored is `Fixed` and valid) is inductive, and the three theorems follow from it
state by state: an update that changes neither profile nor namespace is judged by
the same rules as before, so the operator's is admitted; what the defaults give is
there because the spec is fixed, the rest because it is valid.

`InfraTier_proofs`, `CoreTier_proofs` and `RestTier_proofs` prove, for every set
of configurations, every set of supplied resources and any number of failures
(`ConfigsAssumption`, `PresentAssumption`, `FaultAssumption`,
`ProvidedAssumption`: what others supply is of the kinds the tier knows, and in
`InfraTier` `ClusterAssumption`: nobody else makes the cluster and the databases
in it; in `CoreTier` and `RestTier` `OwnAssumption`: nobody else makes the tier's
workloads and Jobs):

- `ContractKept`: `InfraSpec => InfraKeepsContract`, `CoreSpec =>
  CoreKeepsContract`, `RestSpec => RestKeepsContract`: each tier implements
  `TierContract`
- `InitFirst`: `InfraSpec => []InitBeforeCluster`
- `InOrder`: `CoreSpec => ServicesFollowAPI`, `RestSpec => RestInOrder`
- `TypeCorrect`: `InfraSpec => []InfraTypeOK`, `CoreSpec => []CoreTypeOK`,
  `RestSpec => []RestTypeOK`
- `Created`: `CoreSpec => []CreatedInOrder`, `RestSpec => []RestCreatedInOrder`
- `Owned`: `InfraSpec => []DatabasesOwned`

A step of a tier maps to `Begin`, `Find` or `End` of the contract, one of the
cluster or the users to a stutter or `UserChanges`. All of it is plain except
`Verdict`, which must not say ready with a component not found. For the
infrastructure the flag was found or is down. In the two larger tiers flags
start out true, and a skipped service leaves them so; the invariant says, stage
by stage, that a flag that is up without having been earned is held back by
another one that is down and stays down until the verdict: RLA and PSM by Vault,
everything after the API by the API, the workers by the setup of Temporal's
namespaces, site manager and site agent by the REST API. `InitBeforeCluster` is
strengthened by what the pass has written by the time it reaches the cluster.
`InOrder` needs `OrderInv`: the invariant of `ContractKept`, that a pass is only
made where the tier is asked for, and that the gate of the API (in the REST tier:
the readiness of Temporal) is the only way to the services behind it. The flags
alone would not do: Vault's, for one, starts out true, and it is the gate
together with what the pass has found that makes it earned where RLA and PSM
read it.

`Created` says that no workload is rolled out before what it mounts, although
passes stop anywhere, configurations change between and during them, and
finished Jobs are removed. It is not inductive: that the references of a
workload exist when it is written is known only from what the pass did before.
`MadeInv` adds this, stage by stage (`Made`: after the preparation the accounts
and SPIFFE IDs, after the gate of the certificates the issued Secrets, after the
configuration the ConfigMaps and the password, before RLA and PSM the token of an
external Vault), with the copy the pass works on, not the configuration users
have by then. A service whose list holds both its ConfigMap and its Deployment
needs more than the stage: whatever prefix of the list was written, the
ConfigMap comes first in it (`Ahead`, with `WritesAhead` of `TierPass_proofs`).
Once there, references stay: a step removes nothing but Jobs (`Kept`), and no
pod refers to a Job (`Lasting`). What the theorem leaves out is listed in
`Elsewhere`: resources that pods wait for and no pass makes or looks up before
it rolls them out.

`TypeCorrect` of the tiers says more than that the variables have their types:
only what exists is up or failed, and only workloads that are rolled out show an
older status, also after a Job was removed. `TierPass_proofs` has what it rests
on, once for all tiers: `ClusterOK` is preserved by every list of writes and by
every step of the cluster. For the infrastructure `OwnersInv` is added: the
cluster's template is the one of some configuration, perhaps not of the present
one. With it the lists of the users in a template are disjoint, so the database
operator has no choice whom to give a database to, and `Owned` follows:
`userDatabaseMapping` names every database once.

`OwnedObject_proofs` proves, for every set of kinds, specs and every bound
(`KindsAssumption`, `SpecsAssumption`, `BoundAssumption`):

- `TypeCorrect`: `Spec => []TypeOK`, with it that a call writes at most once
- `Refinement`: `Spec => CallIsAtomic`: `createOrUpdate` implements `AtomicWrite`

Only model-checked: liveness (fairness and `ENABLED` are out of the prover's
reach), and so `StaysAsBuilt`, `GoesWithOwner`, `DeletionCompletes`,
`FailureIsReported`, the `...Converges` family, `RestSettles` and `BecomesReady`. Every invariant
and every safety property of a passing run is a theorem.

## 5. Disagreements between code and documents

Five have a run and a finding in `PROJECT.json`:

- a site whose `rest` block is switched off never becomes Ready
  (`internal/conditions/helpers.go:159`, run `controller_site_rest`);
- with managed Vault, the API and the Vault init Job wait for each other
  (`internal/resources/core/api.go:295`, run `core_vault_cycle`);
- updates of Jobs on every pass are refused (`core_reconciler.go:789`, run
  `core_job_update`); the setup Job meets the same (`rest_reconciler.go:480`), so on
  a real API server no enabled REST tier becomes ready;
- the Keycloak is looked up as `carbide-keycloak` and created as `keycloak`
  (`readiness.go:341`, run `rest_keycloak`);
- resources outside the namespace of the deployment carry an owner reference
  that the garbage collector does not find (`postgresql.go:218`, run
  `object_elsewhere`).

Others met while reading, which the models contain without a run of their own:

- `spec.infrastructure.namespace` is called immutable
  (`carbidedeployment_webhook.go:327`), but compared only if both the old and the
  new spec have the block (line 324): taken away in one update and given anew in
  the next, it moves.
- `carbidedeployment_webhook.go:92` says "Disable REST tier for site-only
  deployments", and sets a flag whose false is not stored: unless the user wrote
  `enabled: false` in that same request, the block of a site is stored as enabled, and
  the REST tier runs there (`carbidedeployment_controller.go:197`). A false written out
  is kept until the operator adds its finalizer. In the same way the network services
  of a management hub, which the webhook switches off, are stored as on; the core
  tier does not run there.
- The Jobs that a tier's verdict asks for are removed a day after they completed
  (`vault.go:89, 158`, `temporal.go:116`, `temporal_setup.go:43`), so a deployment with
  managed Vault or a REST tier goes unready every day until they have run again.
- After an upgrade, the status in the cache may be the old version's, and a pass
  takes it for the new one's (`readiness.go:67`); it does not last.
- The phase `Updating` (`README.md:262`) and the phase `Failed` of a single
  tier are overwritten by `SetReadyCondition` before the only status write.
- The setters of `VaultReady`, `RLAReady` and `PSMReady` have no caller;
  `docs/deployment-guide.md:358-360` tells users to look for them.
- The script of the Vault init Job loses the keys if it stops between
  `operator init` and saving them, or if saving fails (`vault.go:206`): the next
  run finds Vault initialised and succeeds.
- The ClusterRoleBinding of the Vault installer (`core_reconciler.go:505`) and
  the Namespaces have no owner and stay after the deployment, against
  `docs/deployment-guide.md:548`; `reconcileDelete` removes nothing.
- The PXE container mounts a volume `spiffe` that exists only with cert-manager
  (`pxe.go:69`), and there it comes from a Secret `carbide-pxe-certificate`,
  while the Certificate writes `carbide-pxe-tls`.
- Without `spec.infrastructure`, which is optional, the core tier of a site
  fails on every pass (`core_reconciler.go:684`).
- The REST tier writes into a namespace that it does not ensure
  (`rest_reconciler.go:62`); with the management profile the core tier, which
  would, does not run.
- The Temporal Helm Job runs as ServiceAccount `temporal-helm-installer`
  (`temporal.go:148`), the workers mount Secret `temporal-encryption-key`
  (`workers.go:151`), the site agent has no ServiceAccount, certificate or
  SPIFFE ID: nothing creates these. The workers name the database operator's
  Secret of `forge` (`workers.go:166`) also when the database is external.
- The Temporal setup Job is handed the name of a namespace as its address
  (`rest_reconciler.go:479`).
- The workers do not wait for the REST API (`rest_reconciler.go:214-217`: "Workers
  (after Temporal is ready)"), and nothing waits for them, against `README.md:256`:
  "Temporal (Helm) & Keycloak -> REST API -> Workers -> Site Manager -> Site Agent".

## 6. Not modelled

Contents of ConfigMaps, ports, images, labels, sizes, backups; events and log
lines; reasons, messages and timestamps of conditions (only that a new timestamp
makes a new version); leader election and the set-up of the manager; helpers
without a caller (`IsStatefulSetReady`, `IsPodReady`, `ValidateExternalKeycloak`,
...); generated code, tests and stub services. Of the namespaces, only whether a
tier's is the infrastructure's, and a resource's the deployment's: a move of the
infrastructure to another one leaves what was in the first behind and starts
over. `OwnedObject` has one resource of a kind whose updates are accepted; that a real
API server refuses those of Jobs and bound claims is in the tiers (`strict`), and
kinds in no `Owns` list are brought back by polling and the informers' resync.
How the postgres-operator, cert-manager, SPIRE and Vault work inside is
left out beyond what the operator waits for.

## 7. Plan

Done: the loop, the status, the three tiers, `createOrUpdate`, owner references,
the webhook; the refinements between them; theorems about each. Left:

1. The composition of `OwnedObject` with a tier over two namespaces.
2. That the one step of a tier in `Controller` is what `TierContract` allows, as
   a theorem between the two modules.
