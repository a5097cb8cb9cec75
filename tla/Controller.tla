----------------------------- MODULE Controller -----------------------------
(***************************************************************************)
(* The reconcile loop of CarbideDeploymentReconciler                       *)
(* (internal/controller/carbidedeployment_controller.go) for one           *)
(* CarbideDeployment: the object in the API server, the informer cache     *)
(* the operator reads it from, the work queue, and one pass of Reconcile   *)
(* cut where it talks to the API server or starts a tier, so that users,   *)
(* watch events, failures and restarts interleave with it.                 *)
(*                                                                         *)
(* A tier's own pass is one step here whose outcome follows the health of  *)
(* that tier; CoreTier and RestTier open it up.                            *)
(***************************************************************************)
EXTENDS Conditions, Sequences

CONSTANTS
    Specs,      \* specs a user may apply (what the webhook lets through)
    Watched,    \* tiers whose workloads are in an Owns() of SetupWithManager
    Healths,    \* the states of health that occur in the cluster
    Outages,    \* sets of tiers and TLS backends that may be unwell together
    MaxGen,     \* bound on metadata.generation
    MaxUid,     \* bound on how often the object is (re)created
    MaxLag,     \* bound on watch events under way to the cache
    MaxFaults   \* bound on API failures, lost replies and operator crashes

\* The spec the API server makes of an update of the whole object by the
\* operator: "enabled: false" is left out of the JSON (omitempty), and the
\* CRD's default for it is true (see Webhook).
Marshalled(s) ==
    [s EXCEPT !.rest = IF s.rest = "disabled" THEN "enabled" ELSE s.rest]

ASSUME SpecsAssumption   == /\ Specs \subseteq DeploymentSpec /\ Specs # {}
                            /\ \A s \in Specs : Marshalled(s) \in Specs
ASSUME WatchedAssumption == Watched \subseteq Tiers
ASSUME HealthAssumption  == /\ Healths # {}
                            /\ Healths \subseteq
                                  {"ok", "pending", "broken", "flaky"}
ASSUME BoundsAssumption  == /\ MaxGen \in Nat /\ MaxUid \in Nat
                            /\ MaxLag \in Nat /\ MaxFaults \in Nat

VARIABLES
    api,      \* the object as the API server has it
    cache,    \* the object as the informer cache has it
    watch,    \* versions of the object written but not yet in the cache
    queued,   \* the object's key is in the work queue
    timer,    \* a delayed or rate-limited requeue of the key is pending
    pc,       \* where the current pass of Reconcile is
    dep,      \* the pass's copy "deployment"
    cur,      \* the copy the pass will write next has the latest version
    err,      \* a tier of this pass returned an error
    again,    \* requeueRequired
    health,   \* the state of each tier's workloads and of the TLS backends
    faults,   \* failures used up
    specAt,   \* history: the spec of each generation of the object
    seen,     \* history: what this pass has found ready
    basis     \* history: the pass that wrote the status last

apiVars  == <<api, watch, specAt>>
passVars == <<pc, dep, cur, err, again, seen>>
vars     == <<api, cache, watch, queued, timer, pc, dep, cur, err, again,
              health, faults, specAt, seen, basis>>

Object == [exists : BOOLEAN, uid : Nat, gen : Nat, deleting : BOOLEAN,
           fin : BOOLEAN, spec : Specs, status : Status]

NoObject == [exists |-> FALSE, uid |-> 0, gen |-> 0, deleting |-> FALSE,
             fin |-> FALSE, spec |-> CHOOSE s \in Specs : TRUE,
             status |-> EmptyStatus]

Gone(uid) == [NoObject EXCEPT !.uid = uid]

\* What a pass depends on: the tiers, and the TLS backends the specs name.
Parts == Tiers \cup ({s.tls : s \in Specs} \ {"nil"})

Findings == Tiers \cup {"tls"}

TierStages == {"infra", "core", "rest", "refetch", "write"}
TLSStages  == {"tlsRefetch", "tlsWrite"}

Init ==
    /\ api = NoObject /\ cache = NoObject /\ watch = <<>>
    /\ queued = FALSE /\ timer = FALSE
    /\ pc = "idle" /\ dep = NoObject /\ cur = FALSE
    /\ err = FALSE /\ again = FALSE
    /\ health \in [Parts -> Healths \cup {"ok"}]
    /\ \E V \in Outages : \A p \in Parts :
          IF p \in V THEN health[p] \in Healths ELSE health[p] = "ok"
    /\ faults = 0
    /\ specAt = <<>> /\ seen = {}
    /\ basis = [uid |-> 0, gen |-> 0, seen |-> {}]

-----------------------------------------------------------------------------
(***************************************************************************)
(* The API server: a successful write makes a new version, which travels   *)
(* to the cache as a watch event.                                          *)
(***************************************************************************)
Room == Len(watch) < MaxLag

Commit(obj) == Room /\ api' = obj /\ watch' = Append(watch, obj)

UseFault == faults < MaxFaults /\ faults' = faults + 1

\* How a write of the operator ends.  "ok" and "lost" (applied, reply lost)
\* need an up-to-date copy; "failed" is a conflict or an API error.
Writes == {"ok", "lost", "failed"}

WriteEnds(r) ==
    /\ r # "failed" => cur
    /\ IF r = "ok" \/ (r = "failed" /\ ~cur) THEN UNCHANGED faults
                                             ELSE UseFault

-----------------------------------------------------------------------------
(***************************************************************************)
(* Users.                                                                  *)
(***************************************************************************)
Create ==
    /\ ~api.exists /\ api.uid < MaxUid
    /\ \E s \in Specs :
          /\ Commit([exists |-> TRUE, uid |-> api.uid + 1, gen |-> 1,
                     deleting |-> FALSE, fin |-> FALSE, spec |-> s,
                     status |-> EmptyStatus])
          /\ specAt' = <<s>>
    /\ cur' = FALSE
    /\ UNCHANGED <<cache, queued, timer, pc, dep, err, again, seen, faults,
                   basis, health>>

UpdateSpec ==
    /\ api.exists /\ api.gen < MaxGen
    /\ \E s \in Specs \ {api.spec} :
          /\ Commit([api EXCEPT !.spec = s, !.gen = @ + 1])
          /\ specAt' = Append(specAt, s)
    /\ cur' = FALSE
    /\ UNCHANGED <<cache, queued, timer, pc, dep, err, again, seen, faults,
                   basis, health>>

\* Without a finalizer the object goes at once; with one it is only marked,
\* which counts as a new generation.
Delete ==
    /\ api.exists /\ ~api.deleting
    /\ IF api.fin
       THEN /\ Commit([api EXCEPT !.deleting = TRUE, !.gen = @ + 1])
            /\ specAt' = Append(specAt, api.spec)
       ELSE /\ Commit(Gone(api.uid))
            /\ UNCHANGED specAt
    /\ cur' = FALSE
    /\ UNCHANGED <<cache, queued, timer, pc, dep, err, again, seen, faults,
                   basis, health>>

-----------------------------------------------------------------------------
(***************************************************************************)
(* The cluster around the operator.                                        *)
(***************************************************************************)

\* The parts that are unwell already leave room for an outage of p.
MayFail(p) ==
    \E V \in Outages : p \in V /\ \A q \in Parts \ V : health[q] = "ok"

\* Mutant: no Owns() for the workloads.
HealthChangesUnseen(p) ==
    /\ MayFail(p)
    /\ \E h \in Healths \ {health[p]} : health' = [health EXCEPT ![p] = h]
    /\ UNCHANGED <<queued, api, cache, watch, timer, faults, specAt, basis>>
    /\ UNCHANGED passVars

\* The health of a tier or backend changes; workloads the controller owns
\* wake it up.
HealthChanges(p) ==
    /\ MayFail(p)
    /\ \E h \in Healths \ {health[p]} : health' = [health EXCEPT ![p] = h]
    /\ queued' = (queued \/ p \in Watched)
    /\ UNCHANGED <<api, cache, watch, timer, faults, specAt, basis>>
    /\ UNCHANGED passVars

\* A watch event reaches the cache and, through For(), the work queue.
Sync ==
    /\ watch # <<>>
    /\ cache' = Head(watch) /\ watch' = Tail(watch)
    /\ queued' = TRUE
    /\ UNCHANGED <<api, timer, faults, specAt, basis>>
    /\ UNCHANGED <<health>> /\ UNCHANGED passVars

TimerFires ==
    /\ timer /\ timer' = FALSE /\ queued' = TRUE
    /\ UNCHANGED <<api, cache, watch, faults, specAt, basis>>
    /\ UNCHANGED <<health>> /\ UNCHANGED passVars

-----------------------------------------------------------------------------
(***************************************************************************)
(* One pass of Reconcile.                                                  *)
(***************************************************************************)
DropPass ==
    /\ pc' = "idle" /\ dep' = NoObject /\ cur' = FALSE
    /\ err' = FALSE /\ again' = FALSE /\ seen' = {}

\* Mutant: an error is swallowed instead of returned.
EndPassQuietly(retry) == DropPass /\ UNCHANGED timer

EndPass(retry) == DropPass /\ timer' = (timer \/ retry)

\* The operator stops anywhere and starts again: it lists the object anew.
Crash ==
    /\ UseFault
    /\ cache' = api /\ watch' = <<>> /\ queued' = api.exists
    /\ DropPass /\ timer' = FALSE
    /\ UNCHANGED <<api, specAt, basis, health>>

\* Step 1: take the key and read the object from the cache.
Fetch ==
    /\ pc = "idle" /\ queued /\ queued' = FALSE
    /\ \/ /\ cache.exists
          /\ pc' = "fetched" /\ dep' = cache /\ cur' = (watch = <<>>)
          /\ UNCHANGED <<timer, err, again, seen, faults>>
       \/ ~cache.exists /\ EndPass(FALSE) /\ UNCHANGED faults
       \/ UseFault /\ EndPass(TRUE)
    /\ UNCHANGED <<api, cache, watch, specAt, basis, health>>

\* Step 2: the object is being deleted.
reconcileDelete ==
    /\ pc = "fetched" /\ dep.deleting
    /\ IF ~dep.fin
       THEN /\ EndPass(FALSE) /\ UNCHANGED <<api, watch, faults>>
       ELSE \E r \in Writes :
              /\ WriteEnds(r)
              /\ IF r = "failed" THEN UNCHANGED <<api, watch>>
                 ELSE Commit(Gone(api.uid))
              /\ EndPass(r # "ok")
    /\ UNCHANGED <<cache, queued, specAt, basis, health>>

\* The update that adds the finalizer; a flag it turns on makes a new
\* generation.
PutFinalizer ==
    LET s == Marshalled(dep.spec)
    IN  IF s = api.spec
        THEN Commit([api EXCEPT !.fin = TRUE]) /\ UNCHANGED specAt
        ELSE /\ Commit([api EXCEPT !.fin = TRUE, !.spec = s, !.gen = @ + 1])
             /\ specAt' = Append(specAt, s)

\* Mutant: a failed update is logged, and the pass goes on in any case.
AddFinalizerUnchecked ==
    /\ pc = "fetched" /\ ~dep.deleting /\ ~dep.fin
    /\ \E r \in Writes :
          /\ WriteEnds(r)
          /\ IF r = "failed" THEN UNCHANGED apiVars ELSE PutFinalizer
    /\ dep' = [dep EXCEPT !.fin = TRUE]
    /\ UNCHANGED <<pc, cur, err, again, seen, timer>>
    /\ UNCHANGED <<cache, queued, basis, health>>

\* Step 3: no finalizer yet; add it and come back.
AddFinalizer ==
    /\ pc = "fetched" /\ ~dep.deleting /\ ~dep.fin
    /\ \E r \in Writes :
          /\ WriteEnds(r)
          /\ IF r = "failed" THEN UNCHANGED apiVars ELSE PutFinalizer
    /\ EndPass(TRUE)
    /\ UNCHANGED <<cache, queued, basis, health>>

\* Step 4: no phase yet; initialize the conditions and come back.
InitStatus ==
    /\ pc = "fetched" /\ ~dep.deleting /\ dep.fin /\ dep.status.phase = ""
    /\ \E r \in Writes :
          /\ WriteEnds(r)
          /\ IF r = "failed" THEN UNCHANGED <<api, watch, basis>>
             ELSE /\ Commit([api EXCEPT !.status =
                                InitializeConditions(dep.spec, dep.status)])
                  /\ basis' = [uid |-> dep.uid, gen |-> dep.gen, seen |-> {}]
    /\ EndPass(TRUE)
    /\ UNCHANGED <<cache, queued, specAt, health>>

\* Step 5: the status with the generation of this pass.
Observed(obj) ==
    LET st == obj.status
        updating == st.og # 0 /\ st.og < obj.gen /\ st.phase = "Ready"
    IN  [st EXCEPT !.phase = IF updating THEN "Updating" ELSE @,
                   !.og = obj.gen]

\* Steps 5 and 6: note the generation, then look for the TLS backend.
CheckTLS ==
    /\ pc = "fetched" /\ ~dep.deleting /\ dep.fin /\ dep.status.phase # ""
    /\ cur' = FALSE
    /\ LET mode == dep.spec.tls
           st   == Observed(dep)
       IN \/ /\ mode = "nil"
             /\ dep' = [dep EXCEPT !.status = st]
             /\ pc' = "infra" /\ UNCHANGED <<seen, faults>>
          \/ /\ mode # "nil" /\ health[mode] \in {"ok", "flaky"}
             /\ dep' = [dep EXCEPT !.status = SetTLSConditions(st, mode, TRUE)]
             /\ pc' = "infra" /\ seen' = seen \cup {"tls"} /\ UNCHANGED faults
          \/ /\ mode # "nil"
             /\ IF health[mode] = "ok" THEN UseFault ELSE UNCHANGED faults
             /\ dep' = [dep EXCEPT !.status =
                   SetReadyCondition(dep.spec, SetTLSConditions(
                       [st EXCEPT !.phase = "Failed"], mode, FALSE))]
             /\ pc' = "tlsRefetch" /\ UNCHANGED seen
    /\ UNCHANGED <<api, cache, watch, queued, timer, err, again, specAt, basis,
                   health>>

\* Re-fetch before a status write: afterwards the write is checked against
\* the version read here, not the one the pass started from.
Refetch(next) ==
    /\ pc' = next /\ cur' = (watch = <<>>)
    /\ UNCHANGED <<timer, err, again, seen>>

GetFails == IF cache.exists THEN UseFault ELSE UNCHANGED faults

TLSRefetch ==
    /\ pc = "tlsRefetch"
    /\ \/ cache.exists /\ Refetch("tlsWrite") /\ UNCHANGED <<dep, faults>>
       \/ GetFails /\ EndPass(TRUE)
    /\ UNCHANGED <<api, cache, watch, queued, specAt, basis, health>>

\* The status replaces the one in the API server; writing what is there
\* already makes no new version.
PutStatus(changed) ==
    /\ IF changed THEN Commit([api EXCEPT !.status = dep.status])
                  ELSE UNCHANGED <<api, watch>>
    /\ basis' = [uid |-> dep.uid, gen |-> dep.gen, seen |-> seen]

TLSWrite ==
    /\ pc = "tlsWrite"
    /\ \E r \in Writes :
          /\ WriteEnds(r)
          /\ IF r = "failed" THEN UNCHANGED <<api, watch, basis>>
             ELSE PutStatus(api.status # dep.status)
    /\ EndPass(TRUE)
    /\ UNCHANGED <<cache, queued, specAt, health>>

-----------------------------------------------------------------------------
(***************************************************************************)
(* Step 7: the tiers, in order.                                            *)
(***************************************************************************)
Outcomes == {"ready", "notReady", "error"}

TierReturns(t, o) ==
    \/ o = "ready"    /\ health[t] \in {"ok", "flaky"}      /\ UNCHANGED faults
    \/ o = "notReady" /\ health[t] \in {"pending", "flaky"} /\ UNCHANGED faults
    \/ o = "error"    /\ health[t] \in {"broken", "flaky"}  /\ UNCHANGED faults
    \/ o = "error"    /\ health[t] \in {"ok", "pending"}    /\ UseFault

\* Mutant: a phase the CRD does not know.
AfterTierUnknownPhase(st, t, o) ==
    SetTierStatus([st EXCEPT !.phase = IF o = "error" THEN "Error" ELSE @],
                  t, IF o = "ready" THEN "ready" ELSE "notReady")

\* Mutant: a tier's error starts the status afresh.
AfterTierFresh(st, t, o) ==
    SetTierStatus(IF o = "error" THEN [EmptyStatus EXCEPT !.phase = "Failed"]
                                 ELSE st,
                  t, IF o = "ready" THEN "ready" ELSE "notReady")

AfterTier(st, t, o) ==
    SetTierStatus([st EXCEPT !.phase = IF o = "error" THEN "Failed" ELSE @],
                  t, IF o = "ready" THEN "ready" ELSE "notReady")

RunTier(t) ==
    \E o \in Outcomes :
       /\ TierReturns(t, o)
       /\ dep'   = [dep EXCEPT !.status = AfterTier(dep.status, t, o)]
       /\ err'   = (err \/ o = "error")
       /\ again' = (again \/ o = "notReady")
       /\ seen'  = IF o = "ready" THEN seen \cup {t} ELSE seen

SkipTier == UNCHANGED <<dep, err, again, seen, faults>>

OnlyThePass ==
    /\ UNCHANGED <<api, cache, watch, queued, timer, cur, specAt, basis,
                   health>>

reconcileInfrastructure ==
    /\ pc = "infra" /\ pc' = "core"
    /\ IF dep.spec.infra THEN RunTier("infra") ELSE SkipTier
    /\ OnlyThePass

reconcileCore ==
    /\ pc = "core" /\ pc' = "rest"
    /\ IF InfraReady(dep.spec, dep.status) THEN RunTier("core") ELSE SkipTier
    /\ OnlyThePass

\* The gate reads Status.Core, which may be left from an earlier pass.
reconcileRest ==
    /\ pc = "rest" /\ pc' = "refetch"
    /\ IF dep.spec.rest = "enabled" /\ CoreReady(dep.status)
       THEN RunTier("rest") ELSE SkipTier
    /\ OnlyThePass

\* Steps 8 and 9: the overall phase, then the re-fetch.
SetReady ==
    /\ pc = "refetch"
    /\ \/ /\ cache.exists /\ Refetch("write") /\ UNCHANGED faults
          /\ dep' = [dep EXCEPT !.status =
                        SetReadyCondition(dep.spec, dep.status)]
       \/ GetFails /\ EndPass(TRUE)
    /\ UNCHANGED <<api, cache, watch, queued, specAt, basis, health>>

\* Steps 9 and 10: write the status, decide on the requeue.  The tiers stamp
\* LastTransitionTime with the time of the pass, so the status differs from
\* the stored one unless both fall in the same second.
UpdateStatus ==
    /\ pc = "write"
    /\ \E r \in Writes :
          /\ WriteEnds(r)
          /\ IF r = "failed" THEN UNCHANGED <<api, watch, basis>>
             ELSE \E sameSecond \in BOOLEAN :
                     PutStatus(api.status # dep.status \/ ~sameSecond)
          /\ EndPass(err \/ again \/ r # "ok")
    /\ UNCHANGED <<cache, queued, specAt, health>>

Reconcile ==
    \/ Fetch \/ reconcileDelete \/ AddFinalizer \/ InitStatus \/ CheckTLS
    \/ TLSRefetch \/ TLSWrite
    \/ reconcileInfrastructure \/ reconcileCore \/ reconcileRest
    \/ SetReady \/ UpdateStatus

Next ==
    \/ Create \/ UpdateSpec \/ Delete
    \/ \E p \in Parts : HealthChanges(p)
    \/ Sync \/ TimerFires \/ Crash
    \/ Reconcile

Spec == Init /\ [][Next]_vars

\* The manager's goroutines keep running: the informer delivers what the
\* watch sends, the queue's timers fire, the worker takes its next step.
Fairness == WF_vars(Sync) /\ WF_vars(TimerFires) /\ WF_vars(Reconcile)

FairSpec == Spec /\ Fairness

-----------------------------------------------------------------------------
TypeOK ==
    /\ api \in Object /\ cache \in Object /\ dep \in Object
    /\ watch \in Seq(Object)
    /\ pc \in {"idle", "fetched"} \cup TLSStages \cup TierStages
    /\ queued \in BOOLEAN /\ timer \in BOOLEAN /\ cur \in BOOLEAN
    /\ err \in BOOLEAN /\ again \in BOOLEAN
    /\ health \in [Parts -> Healths \cup {"ok"}]
    /\ faults \in Nat
    /\ specAt \in Seq(Specs)
    /\ seen \in SUBSET Findings
    /\ basis \in [uid : Nat, gen : Nat, seen : SUBSET Findings]

\* What a spec needs before its deployment may be called Ready.
Required(s) ==
    {"core"} \cup (IF s.infra THEN {"infra"} ELSE {})
             \cup (IF s.rest = "enabled" THEN {"rest"} ELSE {})
             \cup (IF s.tls # "nil" THEN {"tls"} ELSE {})

(***************************************************************************)
(* A stored phase Ready is the verdict of one pass, over this object and   *)
(* not an earlier one of the same name, on the spec of the generation the  *)
(* status says it observed, in which the TLS backend and every tier that   *)
(* spec asks for were themselves found ready.  The statuses a pass         *)
(* inherits from earlier passes (Status.Core when infrastructure is down,  *)
(* Status.Rest when core is) never carry a deployment over to Ready.       *)
(***************************************************************************)
ReadyIsEarned ==
    api.status.phase = "Ready" =>
        /\ basis.uid = api.uid /\ basis.gen = api.status.og
        /\ api.status.og \in 1 .. api.gen
        /\ Required(specAt[api.status.og]) \subseteq basis.seen

(***************************************************************************)
(* While a pass runs the tiers (creating resources) or is about to write   *)
(* the status, the object it started from still exists under its           *)
(* finalizer: no user's delete, re-creation under the same name or stale   *)
(* cache lets resources or a status land on a deleted or different object. *)
(***************************************************************************)
PassOwnsObject ==
    pc \in TierStages \cup TLSStages =>
        api.exists /\ api.fin /\ api.uid = dep.uid

(***************************************************************************)
(* The two invariants above are not inductive.  What the proofs add: every *)
(* copy of the object, in the cache or on its way there, is an earlier     *)
(* state of the same chain (CopyOf), the chain ends in the API server's    *)
(* state, the pass's copy is one of them, and what the pass has in its     *)
(* status is either found in this pass or held back by a tier before it.   *)
(***************************************************************************)
CopyOf(c, obj, hist) ==
    /\ c.uid <= obj.uid
    /\ c.exists /\ c.fin /\ ~c.deleting =>
          obj.exists /\ obj.fin /\ obj.uid = c.uid
    /\ c.exists /\ obj.exists /\ c.uid = obj.uid =>
          c.gen \in 1 .. Len(hist) /\ c.spec = hist[c.gen]

HeadOf(obj, hist) ==
    IF obj.exists
    THEN obj.gen = Len(hist) /\ obj.gen >= 1 /\ obj.spec = hist[obj.gen]
    ELSE obj.status.phase = ""

ChainInv ==
    /\ HeadOf(api, specAt)
    /\ IF watch = <<>> THEN cache = api ELSE watch[Len(watch)] = api
    /\ CopyOf(cache, api, specAt)
    /\ \A i \in 1 .. Len(watch) : CopyOf(watch[i], api, specAt)

PassInv ==
    /\ pc # "idle" => dep.exists /\ CopyOf(dep, api, specAt)
    /\ pc = "fetched" /\ cur => watch = <<>> /\ dep = api
    /\ pc \in TierStages \cup TLSStages =>
          dep.fin /\ ~dep.deleting /\ dep.status.og = dep.gen

SeenInv ==
    /\ pc \in TierStages => (dep.spec.tls # "nil" => "tls" \in seen)
    /\ pc \in TierStages \ {"infra"} =>
          (dep.spec.infra /\ dep.status.tiers["infra"] = "ready"
             => "infra" \in seen)
    /\ pc \in {"rest", "refetch", "write"} =>
          (InfraReady(dep.spec, dep.status) /\ CoreReady(dep.status)
             => "core" \in seen)
    /\ pc \in {"refetch", "write"} =>
          (dep.spec.rest = "enabled" /\ CoreReady(dep.status)
             /\ dep.status.tiers["rest"] = "ready" => "rest" \in seen)
    /\ pc = "write" /\ dep.status.phase = "Ready" =>
          AllTiersReady(dep.spec, dep.status)
    /\ pc \in TLSStages => dep.status.phase # "Ready"

IInv == ChainInv /\ PassInv /\ SeenInv /\ ReadyIsEarned

(***************************************************************************)
(* ObservedGeneration never falls back on a living object, although the    *)
(* re-fetch before the status write lets a pass over an old copy overwrite *)
(* a status written later than that copy.                                  *)
(***************************************************************************)
ObservedNeverFallsBack ==
    [][api.exists /\ api'.exists /\ api'.uid = api.uid
         => api'.status.og >= api.status.og]_vars

\* The deployment has all it needs: it is not being deleted, every tier's
\* workloads and the TLS backends are up.
Calm ==
    /\ api.exists /\ ~api.deleting
    /\ \A p \in Parts : health[p] = "ok"

(***************************************************************************)
(* Once users and cluster leave it alone with all it needs, the deployment *)
(* becomes and stays Ready for its latest generation, whatever conflicts,  *)
(* stale reads, failures and restarts came before.                         *)
(***************************************************************************)
BecomesReady ==
    <>[]Calm => <>[](api.status.phase = "Ready" /\ api.status.og = api.gen)

\* A delete is carried through: the marked object goes.
DeletionCompletes ==
    \A u \in 1 .. MaxUid :
        (api.exists /\ api.uid = u /\ api.deleting)
            ~> ~(api.exists /\ api.uid = u)

(***************************************************************************)
(* A tier whose workloads are watched does not stay down unnoticed under a *)
(* status that says Ready.                                                 *)
(***************************************************************************)
FailureIsReported ==
    \A t \in Watched :
        (<>[](api.exists /\ ~api.deleting /\ t \in Required(api.spec)
                /\ health[t] # "ok"))
            => <>[](api.status.phase # "Ready")
=============================================================================
