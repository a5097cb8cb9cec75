------------------------------ MODULE TierPass ------------------------------
(***************************************************************************)
(* What the passes of the tiers have in common                             *)
(* (infrastructure_reconciler.go, core_reconciler.go, rest_reconciler.go): *)
(* a pass takes a copy of the tier's configuration, writes resources one   *)
(* after the other through createOrUpdate, asks for the readiness of the   *)
(* workloads among them, and returns a TierStatus.  Around it, users       *)
(* change the configuration and the cluster starts, rolls out and loses    *)
(* the workloads.                                                          *)
(*                                                                         *)
(* A write is one step here; OwnedObject shows that createOrUpdate is an   *)
(* atomic write.                                                           *)
(*                                                                         *)
(* A configuration says, besides what a user sets, whether the deployment  *)
(* meets the validation of a real API server ("strict") or the fake client *)
(* of the repository's tests, which takes any update.                      *)
(*                                                                         *)
(* A resource is named by its kind and its role.  Of a resource the model  *)
(* keeps the template it was last written with: the part of the            *)
(* configuration its builder reads.                                        *)
(***************************************************************************)
EXTENDS Naturals, Sequences

CONSTANTS
    Lives,       \* sets of configurations: a user moves within one of them
    Provided,    \* resources that others put into the cluster
    Present,     \* those of them that are there from the start, in a
                 \* cluster that starts out with a configuration
    MaxFaults    \* bound on API errors, lost workloads, failed Jobs, and
                 \* Jobs removed before their time

ASSUME FaultAssumption  == MaxFaults \in Nat

\* The configurations of the tier.
Configs == UNION Lives

ASSUME PresentAssumption == Present \in [Configs -> SUBSET Provided]

VARIABLES
    cfg,     \* the configuration as users left it
    dep,     \* the pass's copy of it
    pc,      \* the step the pass is at
    objs,    \* the resources there are, each with its template
    up,      \* available workloads, complete Jobs, bound claims
    stale,   \* workloads that still show as available, although a new
             \* template was written
    failed,  \* Jobs that ran out of retries
    ready,   \* the pass's readiness flags (apiReady, vaultReady, ...)
    found,   \* history: what this pass found ready
    tier,    \* the TierStatus last returned
    faults   \* failures used up

vars == <<cfg, dep, pc, objs, up, stale, failed, ready, found, tier, faults>>
passVars    == <<dep, pc, ready, found, tier>>
clusterVars == <<objs, up, stale, failed>>

R(kind, of) == [kind |-> kind, of |-> of]

Exists(o) == o \in DOMAIN objs

\* The step brings a resource into the cluster or changes its template.
Changes(o) == o \in DOMAIN objs' /\ (~Exists(o) \/ objs'[o] # objs[o])

UseFault == faults < MaxFaults /\ faults' = faults + 1

\* Deployments, DaemonSets and database clusters are rolled out again when
\* their template changes; Jobs run once.
RollsOut(o) == o.kind \in {"Deployment", "DaemonSet", "PostgresCluster"}

InitPass(flags) ==
    /\ cfg \in Configs /\ dep = cfg /\ pc = "idle"
    /\ objs = [o \in Present[cfg] |-> "none"] /\ up = {} /\ stale = {} /\ failed = {}
    /\ ready = flags /\ found = {} /\ faults = 0
    /\ tier = [ready |-> FALSE, error |-> FALSE, cfg |-> cfg]

-----------------------------------------------------------------------------
(***************************************************************************)
(* createOrUpdate.                                                         *)
(***************************************************************************)

\* Updates a real API server refuses: the built Job has no selector, the
\* built claim no volume name, and both are immutable once there.
Refused(o) == /\ dep.strict /\ Exists(o)
              /\ \/ o.kind = "Job"
                 \/ o.kind = "PersistentVolumeClaim" /\ o \in up

\* The resources after writing the set W, T giving their templates.
Written(W, T) == [o \in DOMAIN objs \cup W |->
                        IF o \in W THEN T[o] ELSE objs[o]]

Rolled(W, T) == {o \in W : RollsOut(o) /\ Exists(o) /\ objs[o] # T[o]}

WriteSet(W, T) ==
    /\ objs' = Written(W, T)
    /\ up' = up \ Rolled(W, T)
    /\ stale' = stale \cup (Rolled(W, T) \cap up)
    /\ UNCHANGED failed

First(ws, k) == {ws[i] : i \in 1 .. k}

\* Every write of the list succeeds; bad are those the server rejects.
WritesAll(ws, bad, T) ==
    /\ \A o \in First(ws, Len(ws)) : ~Refused(o) /\ o \notin bad
    /\ WriteSet(First(ws, Len(ws)), T)

\* The first k took effect, then the call returned an error: a refusal of
\* the next, or any failure (also one whose write was applied).
WritesSome(ws, bad, T) ==
    \E k \in 0 .. Len(ws) :
        /\ IF k < Len(ws) /\ (Refused(ws[k + 1]) \/ ws[k + 1] \in bad)
           THEN UNCHANGED faults ELSE UseFault
        /\ \A o \in First(ws, k) : ~Refused(o) /\ o \notin bad
        /\ WriteSet(First(ws, k), T)

-----------------------------------------------------------------------------
(***************************************************************************)
(* The beginning and the end of a pass, and what a readiness check sees.   *)
(***************************************************************************)
\* A tier that is not asked for is ready at once.
StartPass(asked) ==
    /\ pc = "idle"
    /\ dep' = cfg /\ found' = {} /\ UNCHANGED ready
    /\ IF asked THEN pc' = "prepare" /\ UNCHANGED tier
       ELSE /\ pc' = "idle"
            /\ tier' = [ready |-> TRUE, error |-> FALSE, cfg |-> cfg]
    /\ UNCHANGED <<cfg, faults>> /\ UNCHANGED clusterVars

Return(r, e, flags) ==
    /\ pc' = "idle" /\ ready' = flags /\ UNCHANGED dep
    /\ tier' = [ready |-> r, error |-> e, cfg |-> dep]

\* What a readiness check may answer: right after a write perhaps the
\* status of the old version.
LooksUp(o) == IF o \in up' THEN {TRUE} ELSE IF o \in stale' THEN BOOLEAN
              ELSE {FALSE}

\* Set a component's flag, and remember what it was found to be.
Flag(c, yes) ==
    /\ ready' = [ready EXCEPT ![c] = yes]
    /\ found' = IF yes THEN found \cup {c} ELSE found

Finds(c, o) == \E yes \in LooksUp(o) : Flag(c, yes)

NothingFound == UNCHANGED found

-----------------------------------------------------------------------------
(***************************************************************************)
(* Identities and TLS.                                                     *)
(***************************************************************************)
Each(kind, names) == [i \in DOMAIN names |-> R(kind, names[i])]

\* InjectTLS: what the mode adds to a pod of service c.
SpiffeRefs(c) == {R("ConfigMap", "spiffe-helper"), R("ClusterSPIFFEID", c)}
CertRefs(c)   == {R("TLSSecret", c)}

TLSRefs(c, tls) == CASE tls = "spiffe"      -> SpiffeRefs(c)
                     [] tls = "certManager" -> CertRefs(c)
                     [] tls = "nil"         -> {}

-----------------------------------------------------------------------------
(***************************************************************************)
(* Users and cluster.                                                      *)
(***************************************************************************)
ChangeConfig ==
    /\ \E L \in Lives : cfg \in L /\ cfg' \in L \ {cfg}
    /\ UNCHANGED <<objs, up, stale, failed, faults>> /\ UNCHANGED passVars

\* Someone else supplies a resource the tier relies on.
Provide(o) ==
    /\ o \in Provided /\ ~Exists(o)
    /\ objs' = [x \in DOMAIN objs \cup {o} |->
                   IF x = o THEN "none" ELSE objs[x]]
    /\ UNCHANGED <<cfg, up, stale, failed, faults>> /\ UNCHANGED passVars

\* A workload whose needs are met becomes available, a Job completes and
\* leaves its product behind, a claim is bound.
ComesUp(o, needs, product) ==
    /\ Exists(o) /\ o \notin up \cup failed
    /\ needs \subseteq DOMAIN objs
    /\ up' = up \cup {o}
    /\ stale' = stale \ {o}
    /\ objs' = [x \in DOMAIN objs \cup product |->
                   IF Exists(x) THEN objs[x] ELSE "none"]
    /\ UNCHANGED <<cfg, failed, faults>> /\ UNCHANGED passVars

GoesDown(o) ==
    /\ o \in up /\ RollsOut(o) /\ UseFault
    /\ up' = up \ {o}
    /\ UNCHANGED <<cfg, objs, stale, failed>> /\ UNCHANGED passVars

JobFails(o) ==
    /\ o.kind = "Job" /\ Exists(o) /\ o \notin up \cup failed /\ UseFault
    /\ failed' = failed \cup {o}
    /\ UNCHANGED <<cfg, objs, up, stale>> /\ UNCHANGED passVars

\* ttlSecondsAfterFinished = 86400: a finished Job is removed a day later,
\* created anew by a pass, run, and removed again, for ever.  Passes are at
\* most minutes apart, so a complete Job has long been seen by passes when
\* its day is over (due); one that goes earlier was removed by a user.
JobExpires(o, due) ==
    /\ o.kind = "Job" /\ o \in up \cup failed
    /\ IF due \/ o \in failed THEN UNCHANGED faults ELSE UseFault
    /\ objs' = [x \in DOMAIN objs \ {o} |-> objs[x]]
    /\ up' = up \ {o} /\ failed' = failed \ {o}
    /\ UNCHANGED <<cfg, stale>> /\ UNCHANGED passVars

\* The status of the new version arrives.
CacheCatchesUp(o) ==
    /\ o \in stale /\ stale' = stale \ {o}
    /\ UNCHANGED <<cfg, objs, up, failed, faults>> /\ UNCHANGED passVars

\* cert-manager issues what a Certificate asks for.
CertIssued(c) ==
    /\ Exists(R("Certificate", c)) /\ ~Exists(R("TLSSecret", c))
    /\ objs' = [x \in DOMAIN objs \cup {R("TLSSecret", c)} |->
                   IF Exists(x) THEN objs[x] ELSE "none"]
    /\ UNCHANGED <<cfg, up, stale, failed, faults>> /\ UNCHANGED passVars
=============================================================================
