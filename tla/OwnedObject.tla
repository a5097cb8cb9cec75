---------------------------- MODULE OwnedObject ----------------------------
(***************************************************************************)
(* The life of one resource of a tier, beside the deployment it belongs    *)
(* to: createOrUpdate and createOrUpdateUnstructured, one action per call  *)
(* to the API server, the owner reference the builders set, and the        *)
(* cluster's garbage collector.                                            *)
(*                                                                         *)
(* The three reconcilers have a createOrUpdate each: those of the core and *)
(* the REST tier retry once on a conflict, that of the infrastructure does *)
(* not.  Typed objects are read from the informer cache, unstructured ones *)
(* from the API server.                                                    *)
(*                                                                         *)
(* Calls are made by passes that run the tiers, which only happens while   *)
(* the deployment of the pass is there under its finalizer                 *)
(* (PassOwnsObject of Controller): a deployment goes between calls.        *)
(***************************************************************************)
EXTENDS Naturals, Sequences

CONSTANTS
    Kinds,       \* the kinds of resources: see Kind
    Specs,       \* what the deployment may ask of the resource
    Off,         \* ... it does not ask for it
    MaxUid,      \* bound on deployments of the same name
    MaxLag,      \* bound on the versions the cache is behind
    MaxFaults    \* bound on API errors, crashes and changes by others

\* retries: createOrUpdate of the core and the REST tier.  cached: a typed
\* object.  scope: in the deployment's namespace, in another one, without a
\* namespace, or built without an owner reference.
Kind == [retries : BOOLEAN, cached : BOOLEAN,
         scope : {"home", "away", "cluster", "unowned"}]

ASSUME KindsAssumption == Kinds \subseteq Kind /\ Kinds # {}
ASSUME SpecsAssumption == Specs # {} /\ Off \notin Specs
ASSUME BoundAssumption == /\ MaxUid \in Nat \ {0} /\ MaxLag \in Nat
                          /\ MaxFaults \in Nat

VARIABLES
    kind,     \* the kind of the resource
    want,     \* what the deployment asks for
    uid,      \* the deployment's uid
    alive,    \* it is there
    marked,   \* and marked for deletion
    obj,      \* the resource in the API server
    watch,    \* its versions on their way to the cache
    cache,    \* what the operator's reads of typed objects see
    pc,       \* the step of the call
    built,    \* the resource as built for the call
    fresh,    \* the version read is the latest (resourceVersion)
    writes,   \* history: writes of this call that were applied
    answer,   \* what the last call returned
    faults    \* failures used up

depVars  == <<want, uid, alive, marked>>
callVars == <<pc, built, writes, answer>>
vars == <<kind, want, uid, alive, marked, obj, watch, cache, pc, built, fresh,
          writes, answer, faults>>

Versions == [here : BOOLEAN, spec : Specs \cup {Off}, owner : Nat]

Absent == [here |-> FALSE, spec |-> Off, owner |-> 0]

UseFault == faults < MaxFaults /\ faults' = faults + 1

\* Mutant: the builder forgets the owner reference.
BuildUnowned(w) == [here |-> TRUE, spec |-> w, owner |-> 0]

\* The builders: the part of the spec they read, and a controller reference
\* to the deployment.
Build(w) == [here |-> TRUE, spec |-> w,
             owner |-> IF kind.scope = "unowned" THEN 0 ELSE uid]

\* Every version reaches the cache, in order.
Commit(v) ==
    /\ Len(watch) < MaxLag
    /\ obj' = v /\ watch' = Append(watch, v) /\ UNCHANGED cache

Init ==
    /\ kind \in Kinds
    /\ want \in Specs /\ uid = 1 /\ alive = TRUE /\ marked = FALSE
    /\ obj = Absent /\ watch = <<>> /\ cache = Absent
    /\ pc = "idle" /\ built = Absent /\ fresh = FALSE /\ writes = 0
    /\ answer = "none" /\ faults = 0

-----------------------------------------------------------------------------
(***************************************************************************)
(* The call.                                                               *)
(***************************************************************************)
\* A pass reaches the resource; a service that is switched off is skipped.
Call ==
    /\ pc = "idle" /\ alive /\ ~marked /\ want # Off
    /\ pc' = "get" /\ built' = Build(want)
    /\ fresh' = FALSE /\ writes' = 0 /\ answer' = "none"
    /\ UNCHANGED <<kind, want, uid, alive, marked, obj, watch, cache, faults>>

Return(a) == pc' = "idle" /\ answer' = a

Fails == Return("error") /\ UseFault /\ UNCHANGED <<obj, watch, cache, writes>>

\* What a read returns, and whether that is the latest version.
Read     == IF kind.cached THEN cache ELSE obj
ReadsNow == kind.cached => watch = <<>>

\* Mutant: an object that is not there is taken for a failed read.
GetOnly ==
    /\ pc = "get"
    /\ \/ /\ Read.here /\ pc' = "update"
          /\ fresh' = ReadsNow
          /\ UNCHANGED <<obj, watch, cache, writes, answer, faults>>
       \/ /\ ~Read.here /\ Return("error")
          /\ UNCHANGED <<obj, watch, cache, writes, fresh, faults>>
       \/ Fails /\ UNCHANGED fresh
    /\ UNCHANGED <<kind, want, uid, alive, marked, built>>

Get ==
    /\ pc = "get"
    /\ \/ /\ pc' = IF Read.here THEN "update" ELSE "create"
          /\ fresh' = ReadsNow
          /\ UNCHANGED <<obj, watch, cache, writes, answer, faults>>
       \/ Fails /\ UNCHANGED fresh
    /\ UNCHANGED <<kind, want, uid, alive, marked, built>>

\* The server applies a write; the reply may be lost.  An update that
\* changes nothing makes no new version.
Applied ==
    /\ IF obj = built THEN UNCHANGED <<obj, watch, cache>> ELSE Commit(built)
    /\ writes' = writes + 1
    /\ \/ Return("ok") /\ UNCHANGED faults
       \/ Return("error") /\ UseFault

Refused == Return("error") /\ UNCHANGED <<obj, watch, cache, writes, faults>>

\* AlreadyExists is not retried.
Create ==
    /\ pc = "create"
    /\ \/ ~obj.here /\ Applied
       \/ obj.here /\ Refused
       \/ Fails
    /\ UNCHANGED <<kind, want, uid, alive, marked, built, fresh>>

\* Mutant: any error of the update is retried, also a lost reply.
UpdateRetryingAll ==
    /\ pc = "update"
    /\ \/ obj.here /\ fresh /\ Applied
       \/ /\ obj.here /\ fresh /\ UseFault /\ pc' = "getAgain"
          /\ IF obj = built THEN UNCHANGED <<obj, watch, cache>> ELSE Commit(built)
          /\ writes' = writes + 1 /\ UNCHANGED answer
       \/ ~(obj.here /\ fresh) /\ Refused
    /\ UNCHANGED <<kind, want, uid, alive, marked, built, fresh>>

\* Update with the resourceVersion that was read.
Update ==
    /\ pc = "update"
    /\ \/ obj.here /\ fresh /\ Applied
       \/ ~obj.here /\ Refused
       \/ /\ obj.here /\ ~fresh
          /\ IF kind.retries
             THEN /\ pc' = "getAgain"
                  /\ UNCHANGED <<obj, watch, cache, writes, answer, faults>>
             ELSE Refused
       \/ Fails
    /\ UNCHANGED <<kind, want, uid, alive, marked, built, fresh>>

\* The second read may come from the same cache.
GetAgain ==
    /\ pc = "getAgain"
    /\ \/ /\ Read.here /\ pc' = "updateAgain" /\ fresh' = ReadsNow
          /\ UNCHANGED <<obj, watch, cache, writes, answer, faults>>
       \/ ~Read.here /\ Refused /\ UNCHANGED fresh
       \/ Fails /\ UNCHANGED fresh
    /\ UNCHANGED <<kind, want, uid, alive, marked, built>>

\* Mutant: the second update goes without a resourceVersion.
UpdateAgainBlindly ==
    /\ pc = "updateAgain"
    /\ \/ obj.here /\ Applied
       \/ ~obj.here /\ Refused
       \/ Fails
    /\ UNCHANGED <<kind, want, uid, alive, marked, built, fresh>>

UpdateAgain ==
    /\ pc = "updateAgain"
    /\ \/ obj.here /\ fresh /\ Applied
       \/ ~(obj.here /\ fresh) /\ Refused
       \/ Fails
    /\ UNCHANGED <<kind, want, uid, alive, marked, built, fresh>>

\* The finalizer is taken away; no tier cleans up (reconcileDelete).
Finalize ==
    /\ pc = "idle" /\ alive /\ marked /\ alive' = FALSE
    /\ UNCHANGED <<kind, want, uid, marked, obj, watch, cache, fresh, faults>>
    /\ UNCHANGED callVars

\* The operator stops in the middle of a call; the next one lists anew.
Crash ==
    /\ pc # "idle" /\ UseFault /\ Return("error")
    /\ cache' = obj /\ watch' = <<>>
    /\ UNCHANGED <<kind, want, uid, alive, marked, obj, built, fresh, writes>>

Operate == Call \/ Get \/ Create \/ Update \/ GetAgain \/ UpdateAgain \/ Finalize

-----------------------------------------------------------------------------
(***************************************************************************)
(* Users, the cluster and the informer.                                    *)
(***************************************************************************)
ChangeSpec ==
    /\ alive /\ ~marked /\ want' \in (Specs \cup {Off}) \ {want}
    /\ UNCHANGED <<kind, uid, alive, marked, obj, watch, cache, fresh, faults>>
    /\ UNCHANGED callVars

Delete ==
    /\ alive /\ ~marked /\ marked' = TRUE
    /\ UNCHANGED <<kind, want, uid, alive, obj, watch, cache, fresh, faults>>
    /\ UNCHANGED callVars

\* The same name again, with a uid of its own.
Recreate ==
    /\ ~alive /\ uid < MaxUid /\ uid' = uid + 1 /\ alive' = TRUE
    /\ marked' = FALSE /\ want' \in Specs
    /\ UNCHANGED <<kind, obj, watch, cache, fresh, faults>>
    /\ UNCHANGED callVars

\* Someone else edits or removes the resource, or writes its status: a new
\* version that asks for the same.
Edit ==
    /\ obj.here /\ UseFault
    /\ \E v \in {[obj EXCEPT !.spec = s] : s \in Specs} \cup {Absent} : Commit(v)
    /\ fresh' = FALSE
    /\ UNCHANGED kind /\ UNCHANGED depVars /\ UNCHANGED callVars

\* The owner is looked up by its uid in the resource's own namespace; a
\* cluster-wide resource cannot have an owner in a namespace, and is left
\* alone.
Orphaned ==
    /\ obj.here /\ obj.owner # 0
    /\ \/ kind.scope = "home" /\ ~(alive /\ obj.owner = uid)
       \/ kind.scope = "away"

Collect ==
    /\ Orphaned /\ Commit(Absent) /\ fresh' = FALSE
    /\ UNCHANGED <<kind, faults>> /\ UNCHANGED depVars /\ UNCHANGED callVars

Sync ==
    /\ watch # <<>> /\ cache' = Head(watch) /\ watch' = Tail(watch)
    /\ UNCHANGED <<kind, obj, fresh, faults>>
    /\ UNCHANGED depVars /\ UNCHANGED callVars

Next == \/ Operate \/ Crash \/ ChangeSpec \/ Delete \/ Recreate \/ Edit
        \/ Collect \/ Sync

Spec == Init /\ [][Next]_vars

\* The operator's worker, the informer and the collector keep running.
Fairness == WF_vars(Operate) /\ WF_vars(Sync) /\ WF_vars(Collect)

FairSpec == Spec /\ Fairness

-----------------------------------------------------------------------------
TypeOK ==
    /\ kind \in Kinds
    /\ want \in Specs \cup {Off} /\ uid \in 1 .. MaxUid
    /\ alive \in BOOLEAN /\ marked \in BOOLEAN
    /\ obj \in Versions /\ watch \in Seq(Versions) /\ cache \in Versions
    /\ pc \in {"idle", "get", "create", "update", "getAgain", "updateAgain"}
    /\ built \in Versions /\ fresh \in BOOLEAN /\ writes \in {0, 1}
    /\ answer \in {"none", "ok", "error"}
    /\ faults \in 0 .. MaxFaults

(***************************************************************************)
(* createOrUpdate implements AtomicWrite: whatever the cache shows and     *)
(* wherever a reply is lost, a call writes at most once, never over a      *)
(* version it has not read (core_reconciler.go:788 sets the                *)
(* resourceVersion), and says nil only if the resource was as built.       *)
(***************************************************************************)
Atomic == INSTANCE AtomicWrite
            WITH call <- IF pc = "idle" THEN "idle" ELSE "pending"

CallIsAtomic == Atomic!ASpec

(***************************************************************************)
(* Calls that fail on a stale cache (also the retry, which reads the same  *)
(* cache, core_reconciler.go:791), AlreadyExists and updates without any   *)
(* retry (infrastructure_reconciler.go:258) do not matter in the end: once *)
(* the deployment is left alone the resource is, and stays, as built for   *)
(* it and owned by it, also if it was taken over from a deleted deployment *)
(* of the same name.                                                       *)
(***************************************************************************)
StaysAsBuilt ==
    \A w \in Specs, u \in 1 .. MaxUid :
        <>[](alive /\ ~marked /\ want = w /\ uid = u)
            => <>[](obj = [here |-> TRUE, spec |-> w, owner |-> u])

(***************************************************************************)
(* docs/deployment-guide.md:548: "Wait for all resources to be cleaned up  *)
(* (operator uses owner references)."  After the deployment is gone for    *)
(* good so is the resource, although the last pass may have written it     *)
(* just before, or left it there when it was switched off                  *)
(* (core_reconciler.go:208).                                               *)
(***************************************************************************)
GoesWithOwner == <>[](~alive) => <>[](~obj.here)
=============================================================================
