------------------------- MODULE Controller_proofs --------------------------
(***************************************************************************)
(* Proofs about Controller, for every set of specs, every bound and every  *)
(* choice of watched and volatile parts.                                   *)
(***************************************************************************)
EXTENDS Controller, SequenceTheorems, TLAPS

-----------------------------------------------------------------------------
(***************************************************************************)
(* The status helpers of Conditions.                                       *)
(***************************************************************************)

\* SetCondition changes one condition and nothing else.
LEMMA SetConditionLemma ==
    ASSUME NEW st \in Status, NEW c \in CondTypes, NEW v \in CondValues
    PROVE  /\ SetCondition(st, c, v) \in Status
           /\ SetCondition(st, c, v).phase = st.phase
           /\ SetCondition(st, c, v).og = st.og
           /\ SetCondition(st, c, v).tiers = st.tiers
           /\ SetCondition(st, c, v).conds[c] = v
BY DEF SetCondition, Status

\* Writing a tier's status keeps the type, the phase and the generation.
LEMMA SetTierStatusLemma ==
    ASSUME NEW st \in Status, NEW t \in Tiers, NEW v \in TierStates
    PROVE  /\ SetTierStatus(st, t, v) \in Status
           /\ SetTierStatus(st, t, v).phase = st.phase
           /\ SetTierStatus(st, t, v).og = st.og
           /\ SetTierStatus(st, t, v).tiers = [st.tiers EXCEPT ![t] = v]
<1> DEFINE st1 == [st EXCEPT !.tiers = [@ EXCEPT ![t] = v]]
           c   == TierCondition(t)
           b   == Bool2Cond(v = "ready")
<1>1. st1 \in Status /\ st1.phase = st.phase /\ st1.og = st.og
      /\ st1.tiers = [st.tiers EXCEPT ![t] = v]
  BY DEF Status
<1>2. c \in CondTypes
  BY DEF TierCondition, Tiers, CondTypes
<1>3. b \in CondValues
  BY DEF Bool2Cond, CondValues
<1>4. SetTierStatus(st, t, v) = SetCondition(st1, c, b)
  BY DEF SetTierStatus
<1> HIDE DEF st1, c, b
<1>5. QED
  BY <1>1, <1>2, <1>3, <1>4, SetConditionLemma

\* The TLS conditions: TLSReady is True exactly when the backend is there.
LEMMA SetTLSConditionsLemma ==
    ASSUME NEW st \in Status, NEW m \in TLSModes, NEW b \in BOOLEAN
    PROVE  /\ SetTLSConditions(st, m, b) \in Status
           /\ SetTLSConditions(st, m, b).phase = st.phase
           /\ SetTLSConditions(st, m, b).og = st.og
           /\ SetTLSConditions(st, m, b).tiers = st.tiers
           /\ IsConditionTrue(SetTLSConditions(st, m, b), "TLSReady") = b
<1> DEFINE c   == BackendCondition(m)
           v   == Bool2Cond(b)
           st1 == SetCondition(st, c, v)
<1>1. c \in CondTypes /\ "TLSReady" \in CondTypes
  BY DEF BackendCondition, CondTypes
<1>2. v \in CondValues /\ (v = "True") = b
  BY DEF Bool2Cond, CondValues
<1>3. /\ st1 \in Status /\ st1.phase = st.phase /\ st1.og = st.og
      /\ st1.tiers = st.tiers
  BY <1>1, <1>2, SetConditionLemma
<1>4. SetTLSConditions(st, m, b) = SetCondition(st1, "TLSReady", v)
  BY DEF SetTLSConditions
<1> HIDE DEF c, v, st1
<1>5. QED
  BY <1>1, <1>2, <1>3, <1>4, SetConditionLemma DEF IsConditionTrue

\* SetReadyCondition touches only the phase and the Ready condition, and
\* says Ready only over a spec whose tiers are all ready and whose TLS
\* backend, if it names one, is.
LEMMA SetReadyConditionLemma ==
    ASSUME NEW s \in DeploymentSpec, NEW st \in Status
    PROVE  LET new == SetReadyCondition(s, st)
           IN  /\ new \in Status
               /\ new.og = st.og /\ new.tiers = st.tiers
               /\ new.phase = "Ready" <=>
                     /\ s.tls # "nil" => IsConditionTrue(st, "TLSReady")
                     /\ AllTiersReady(s, st)
<1> DEFINE tlsReady == IsConditionTrue(st, "TLSReady")
           phase == IF s.tls # "nil" /\ ~tlsReady THEN "Failed"
                    ELSE IF AllTiersReady(s, st) THEN "Ready"
                    ELSE "Provisioning"
           st1 == [st EXCEPT !.phase = phase]
           b == Bool2Cond(phase = "Ready")
<1>1. phase \in Phases
  BY DEF Phases
<1>2. st1 \in Status /\ st1.phase = phase /\ st1.og = st.og
      /\ st1.tiers = st.tiers
  BY <1>1 DEF Status
<1>3. "Ready" \in CondTypes /\ b \in CondValues
  BY DEF CondTypes, Bool2Cond, CondValues
<1>4. SetReadyCondition(s, st) = SetCondition(st1, "Ready", b)
  BY DEF SetReadyCondition
<1>5. phase = "Ready" <=> (s.tls # "nil" => tlsReady) /\ AllTiersReady(s, st)
  OBVIOUS
<1> HIDE DEF tlsReady, phase, st1, b
<1>6. QED
  BY <1>2, <1>3, <1>4, <1>5, SetConditionLemma DEF tlsReady

\* InitializeConditions leaves a status of phase Pending.
LEMMA InitializeConditionsLemma ==
    ASSUME NEW s \in DeploymentSpec, NEW st \in Status
    PROVE  /\ InitializeConditions(s, st) \in Status
           /\ InitializeConditions(s, st).phase = "Pending"
BY DEF InitializeConditions, Status, Phases, CondValues

\* The status a pass starts from carries the generation it read.
LEMMA ObservedLemma ==
    ASSUME NEW obj \in Object
    PROVE  /\ Observed(obj) \in Status /\ Observed(obj).og = obj.gen
           /\ Observed(obj).tiers = obj.status.tiers
<1> DEFINE st == obj.status
           p  == IF st.og # 0 /\ st.og < obj.gen /\ st.phase = "Ready"
                 THEN "Updating" ELSE st.phase
<1>1. st \in Status /\ obj.gen \in Nat
  BY DEF Object
<1>2. p \in Phases
  BY <1>1 DEF Status, Phases
<1>3. Observed(obj) = [[st EXCEPT !.phase = p] EXCEPT !.og = obj.gen]
  BY <1>1 DEF Observed, Status
<1> HIDE DEF p, st
<1>4. QED
  BY <1>1, <1>2, <1>3 DEF Status, st

\* What a tier's outcome does to the status.
LEMMA AfterTierLemma ==
    ASSUME NEW st \in Status, NEW t \in Tiers, NEW o \in Outcomes
    PROVE  /\ AfterTier(st, t, o) \in Status
           /\ AfterTier(st, t, o).og = st.og
           /\ AfterTier(st, t, o).tiers =
                [st.tiers EXCEPT
                    ![t] = IF o = "ready" THEN "ready" ELSE "notReady"]
<1> DEFINE p   == IF o = "error" THEN "Failed" ELSE st.phase
           st1 == [st EXCEPT !.phase = p]
           v   == IF o = "ready" THEN "ready" ELSE "notReady"
<1>1. p \in Phases
  BY DEF Status, Phases
<1>2. st1 \in Status /\ st1.og = st.og /\ st1.tiers = st.tiers
  BY <1>1 DEF Status
<1>3. v \in TierStates
  BY DEF TierStates
<1>4. AfterTier(st, t, o) = SetTierStatus(st1, t, v)
  BY DEF AfterTier
<1> HIDE DEF p, st1
<1>5. QED
  BY <1>2, <1>3, <1>4, SetTierStatusLemma

-----------------------------------------------------------------------------
(***************************************************************************)
(* Type correctness.                                                       *)
(***************************************************************************)

\* The placeholders are objects.
LEMMA NoObjectType ==
    NoObject \in Object /\ \A u \in Nat : Gone(u) \in Object
<1>1. EmptyStatus \in Status
  BY DEF EmptyStatus, Status, Phases, TierStates, CondValues
<1>2. (CHOOSE s \in Specs : TRUE) \in Specs
  BY SpecsAssumption
<1>3. NoObject \in Object
  BY <1>1, <1>2 DEF NoObject, Object
<1>4. QED
  BY <1>3 DEF Gone, Object

\* Putting a status into an object leaves the rest of it alone.
LEMMA WithStatus ==
    ASSUME NEW obj \in Object, NEW st \in Status
    PROVE  LET new == [obj EXCEPT !.status = st]
           IN  /\ new \in Object /\ new.status = st
               /\ new.exists = obj.exists /\ new.uid = obj.uid
               /\ new.gen = obj.gen /\ new.deleting = obj.deleting
               /\ new.fin = obj.fin /\ new.spec = obj.spec
BY DEF Object

\* So does adding the finalizer.
LEMMA WithFinalizer ==
    ASSUME NEW obj \in Object
    PROVE  LET new == [obj EXCEPT !.fin = TRUE]
           IN  /\ new.status = obj.status /\ new.fin = TRUE
               /\ new.exists = obj.exists /\ new.uid = obj.uid
               /\ new.gen = obj.gen /\ new.deleting = obj.deleting
               /\ new.spec = obj.spec
BY DEF Object

\* A change of the spec, with the finalizer or without, or the mark of
\* deletion, makes an object of the next generation.
LEMMA NextGeneration ==
    ASSUME NEW obj \in Object, NEW s \in Specs, NEW d \in BOOLEAN
    PROVE  /\ obj.gen + 1 \in Nat
           /\ [obj EXCEPT !.spec = s, !.gen = obj.gen + 1] \in Object
           /\ [obj EXCEPT !.deleting = d, !.gen = obj.gen + 1] \in Object
           /\ [obj EXCEPT !.fin = d, !.spec = s, !.gen = obj.gen + 1] \in Object
<1>1. obj.gen + 1 \in Nat
  BY DEF Object
<1>2. QED
  BY <1>1 DEF Object

\* The fault counter stays a number.
LEMMA FaultsType ==
    ASSUME TypeOK, UseFault \/ UNCHANGED faults
    PROVE  faults' \in Nat
BY DEF TypeOK, UseFault

\* A committed object that is an Object keeps the API's types.
LEMMA CommitType ==
    ASSUME TypeOK, NEW obj \in Object, Commit(obj)
    PROVE  api' \in Object /\ watch' \in Seq(Object)
BY DEF TypeOK, Commit

\* The finalizer update is one write of the object with the finalizer, with
\* the same spec or with a new one of the next generation.
LEMMA FinalizerPut ==
    ASSUME TypeOK, PutFinalizer
    PROVE  \/ Commit([api EXCEPT !.fin = TRUE]) /\ specAt' = specAt
           \/ \E s \in Specs :
                 /\ Commit([api EXCEPT !.fin = TRUE, !.spec = s, !.gen = @ + 1])
                 /\ specAt' = Append(specAt, s)
<1>1. Marshalled(dep.spec) \in Specs
  BY SpecsAssumption DEF TypeOK, Object
<1>2. QED
  BY <1>1 DEF PutFinalizer

\* Either way the API server keeps its types.
LEMMA FinalizerType ==
    ASSUME TypeOK, PutFinalizer
    PROVE  api' \in Object /\ watch' \in Seq(Object) /\ specAt' \in Seq(Specs)
<1>1. CASE Commit([api EXCEPT !.fin = TRUE]) /\ specAt' = specAt
  <2>1. [api EXCEPT !.fin = TRUE] \in Object
    BY DEF TypeOK, Object
  <2>2. QED
    BY <1>1, <2>1, CommitType DEF TypeOK
<1>2. ASSUME NEW s \in Specs,
             Commit([api EXCEPT !.fin = TRUE, !.spec = s, !.gen = @ + 1]),
             specAt' = Append(specAt, s)
      PROVE  api' \in Object /\ watch' \in Seq(Object) /\ specAt' \in Seq(Specs)
  <2>1. [api EXCEPT !.fin = TRUE, !.spec = s, !.gen = @ + 1] \in Object
    BY NextGeneration DEF TypeOK
  <2>2. QED
    BY <1>2, <2>1, CommitType, AppendProperties DEF TypeOK
<1>3. QED
  BY <1>1, <1>2, FinalizerPut

\* The end of a pass keeps the types.
LEMMA DropPassType ==
    ASSUME TypeOK, DropPass
    PROVE  /\ dep' \in Object /\ pc' = "idle" /\ cur' \in BOOLEAN
           /\ err' \in BOOLEAN /\ again' \in BOOLEAN
           /\ seen' \in SUBSET Findings
BY NoObjectType DEF DropPass

\* Every variable keeps its type through every step of users, cluster and
\* operator.
THEOREM TypeCorrect == Spec => []TypeOK
<1>1. Init => TypeOK
  <2> SUFFICES ASSUME Init PROVE TypeOK
    OBVIOUS
  <2>1. api \in Object /\ cache \in Object /\ dep \in Object
    BY NoObjectType DEF Init
  <2>2. watch \in Seq(Object) /\ specAt \in Seq(Specs)
    BY DEF Init
  <2>3. basis \in [uid : Nat, gen : Nat, seen : SUBSET Findings]
    BY DEF Init
  <2>4. QED
    BY <2>1, <2>2, <2>3 DEF Init, TypeOK
<1>2. TypeOK /\ [Next]_vars => TypeOK'
  <2> SUFFICES ASSUME TypeOK, [Next]_vars PROVE TypeOK'
    OBVIOUS
  <2>1. CASE Create
    <3>1. PICK s \in Specs :
             /\ Commit([exists |-> TRUE, uid |-> api.uid + 1, gen |-> 1,
                        deleting |-> FALSE, fin |-> FALSE, spec |-> s,
                        status |-> EmptyStatus])
             /\ specAt' = <<s>>
      BY <2>1 DEF Create
    <3>2. EmptyStatus \in Status
      BY DEF EmptyStatus, Status, Phases, TierStates, CondValues
    <3>3. api.uid + 1 \in Nat
      BY DEF TypeOK, Object
    <3>4. [exists |-> TRUE, uid |-> api.uid + 1, gen |-> 1,
           deleting |-> FALSE, fin |-> FALSE, spec |-> s,
           status |-> EmptyStatus] \in Object
      BY <3>2, <3>3 DEF Object
    <3>5. api' \in Object /\ watch' \in Seq(Object)
      BY <3>1, <3>4, CommitType
    <3>6. specAt' \in Seq(Specs)
      BY <3>1
    <3>7. QED
      BY <2>1, <3>5, <3>6 DEF Create, TypeOK
  <2>2. CASE UpdateSpec
    <3>1. PICK s \in Specs : /\ Commit([api EXCEPT !.spec = s, !.gen = @ + 1])
                             /\ specAt' = Append(specAt, s)
      BY <2>2 DEF UpdateSpec
    <3>2. [api EXCEPT !.spec = s, !.gen = @ + 1] \in Object
      BY NextGeneration DEF TypeOK
    <3>3. api' \in Object /\ watch' \in Seq(Object)
      BY <3>1, <3>2, CommitType
    <3>4. specAt' \in Seq(Specs)
      BY <3>1 DEF TypeOK
    <3>5. QED
      BY <2>2, <3>3, <3>4 DEF UpdateSpec, TypeOK
  <2>3. CASE Delete
    <3>1. CASE api.fin
      <4>0. api.spec \in Specs
        BY DEF TypeOK, Object
      <4>1. [api EXCEPT !.deleting = TRUE, !.gen = @ + 1] \in Object
        BY <4>0, NextGeneration DEF TypeOK
      <4>2. api' \in Object /\ watch' \in Seq(Object)
        BY <2>3, <3>1, <4>1, CommitType DEF Delete
      <4>3. specAt' = Append(specAt, api.spec) /\ specAt \in Seq(Specs)
        BY <2>3, <3>1 DEF Delete, TypeOK
      <4>4. specAt' \in Seq(Specs)
        BY <4>0, <4>3
      <4>5. QED
        BY <2>3, <4>2, <4>4 DEF Delete, TypeOK
    <3>2. CASE ~api.fin
      <4>1. Gone(api.uid) \in Object
        BY NoObjectType DEF TypeOK, Object
      <4>2. api' \in Object /\ watch' \in Seq(Object)
        BY <2>3, <3>2, <4>1, CommitType DEF Delete
      <4>3. QED
        BY <2>3, <3>2, <4>2 DEF Delete, TypeOK
    <3>3. QED
      BY <3>1, <3>2
  <2>4. ASSUME NEW p \in Parts, HealthChanges(p) PROVE TypeOK'
    BY <2>4 DEF HealthChanges, TypeOK, passVars
  <2>5. CASE Sync
    BY <2>5 DEF Sync, TypeOK, passVars
  <2>6. CASE TimerFires
    BY <2>6 DEF TimerFires, TypeOK, passVars
  <2>7. CASE Crash
    <3>1. api.exists \in BOOLEAN
      BY DEF TypeOK, Object
    <3>2. faults' \in Nat
      BY <2>7, FaultsType DEF Crash
    <3>3. DropPass /\ cache' = api /\ watch' = <<>>
      BY <2>7 DEF Crash
    <3>4. cache' \in Object /\ watch' \in Seq(Object)
      BY <3>3 DEF TypeOK
    <3>5. QED
      BY <2>7, <3>1, <3>2, <3>3, <3>4, DropPassType DEF Crash, TypeOK
  <2>8. CASE Reconcile
    <3>0. \A r : WriteEnds(r) => faults' \in Nat
      BY FaultsType DEF WriteEnds
    <3>1. CASE Fetch
      <4>1. CASE /\ cache.exists
                 /\ pc' = "fetched" /\ dep' = cache /\ cur' = (watch = <<>>)
                 /\ UNCHANGED <<timer, err, again, seen, faults>>
        BY <3>1, <4>1 DEF Fetch, TypeOK
      <4>2. CASE EndPass(FALSE) /\ UNCHANGED faults
        BY <3>1, <4>2, DropPassType DEF Fetch, TypeOK, EndPass
      <4>3. CASE UseFault /\ EndPass(TRUE)
        BY <3>1, <4>3, DropPassType, FaultsType DEF Fetch, TypeOK, EndPass
      <4>4. QED
        BY <3>1, <4>1, <4>2, <4>3 DEF Fetch
    <3>2. CASE reconcileDelete
      <4>1. Gone(api.uid) \in Object
        BY NoObjectType DEF TypeOK, Object
      <4>2. api' \in Object /\ watch' \in Seq(Object)
        BY <3>2, <4>1, CommitType DEF reconcileDelete, TypeOK
      <4>3. faults' \in Nat
        BY <3>0, <3>2 DEF reconcileDelete, TypeOK
      <4>4. DropPass /\ timer' \in BOOLEAN
        BY <3>2 DEF reconcileDelete, EndPass, TypeOK
      <4>5. QED
        BY <3>2, <4>2, <4>3, <4>4, DropPassType DEF reconcileDelete, TypeOK
    <3>3. CASE AddFinalizer
      <4>1. UNCHANGED apiVars \/ PutFinalizer
        BY <3>3 DEF AddFinalizer
      <4>2. /\ api' \in Object /\ watch' \in Seq(Object)
            /\ specAt' \in Seq(Specs)
        BY <4>1, FinalizerType DEF apiVars, TypeOK
      <4>3. faults' \in Nat
        BY <3>0, <3>3 DEF AddFinalizer
      <4>4. QED
        BY <3>3, <4>2, <4>3, DropPassType DEF AddFinalizer, EndPass, TypeOK
    <3>4. CASE InitStatus
      <4> DEFINE st == InitializeConditions(dep.spec, dep.status)
      <4>1. dep.spec \in DeploymentSpec /\ dep.status \in Status
            /\ dep.uid \in Nat /\ dep.gen \in Nat
        BY SpecsAssumption DEF TypeOK, Object
      <4>2. st \in Status
        BY <4>1, InitializeConditionsLemma
      <4>3. [api EXCEPT !.status = st] \in Object
        BY <4>2, WithStatus DEF TypeOK
      <4>4. api' \in Object /\ watch' \in Seq(Object)
        BY <3>4, <4>3, CommitType DEF InitStatus, TypeOK
      <4>5. faults' \in Nat
        BY <3>0, <3>4 DEF InitStatus
      <4>6. basis' \in [uid : Nat, gen : Nat, seen : SUBSET Findings]
        <5>1. \/ basis' = [uid |-> dep.uid, gen |-> dep.gen, seen |-> {}]
              \/ UNCHANGED basis
          BY <3>4 DEF InitStatus
        <5>2. QED
          BY <4>1, <5>1 DEF TypeOK
      <4>7. QED
        BY <3>4, <4>4, <4>5, <4>6, DropPassType DEF InitStatus, EndPass, TypeOK
    <3>5. CASE CheckTLS
      <4> DEFINE m   == dep.spec.tls
                 st  == Observed(dep)
                 stF == [st EXCEPT !.phase = "Failed"]
      <4>1. dep.spec \in DeploymentSpec /\ m \in TLSModes \cup {"nil"}
            /\ st \in Status
        BY ObservedLemma, SpecsAssumption DEF TypeOK, Object, DeploymentSpec
      <4>2. stF \in Status
        BY <4>1 DEF Status, Phases
      <4>3. m # "nil" =>
              /\ SetTLSConditions(st, m, TRUE) \in Status
              /\ SetTLSConditions(stF, m, FALSE) \in Status
        BY <4>1, <4>2, SetTLSConditionsLemma
      <4>4. m # "nil" => SetReadyCondition(dep.spec,
                            SetTLSConditions(stF, m, FALSE)) \in Status
        BY <4>1, <4>3, SetReadyConditionLemma
      <4>5. faults' \in Nat
        BY <3>5, FaultsType DEF CheckTLS
      <4>6. dep' \in Object
        <5> HIDE DEF st, stF
        <5>1. \E x \in Status : dep' = [dep EXCEPT !.status = x]
          BY <3>5, <4>1, <4>3, <4>4 DEF CheckTLS, st, stF
        <5>2. QED
          BY <5>1, WithStatus DEF TypeOK
      <4>7. pc' \in {"infra", "tlsRefetch"} /\ seen' \in SUBSET Findings
            /\ cur' = FALSE
        BY <3>5 DEF CheckTLS, TypeOK, Findings
      <4>8. QED
        BY <3>5, <4>5, <4>6, <4>7 DEF CheckTLS, TypeOK, TierStages, TLSStages
    <3>6. CASE TLSRefetch
      <4>1. faults' \in Nat
        BY <3>6, FaultsType DEF TLSRefetch, GetFails
      <4>2. QED
        BY <3>6, <4>1, DropPassType
           DEF TLSRefetch, Refetch, EndPass, TypeOK, TLSStages
    <3>7. CASE TLSWrite
      <4>1. [api EXCEPT !.status = dep.status] \in Object
        BY WithStatus DEF TypeOK, Object
      <4>2. api' \in Object /\ watch' \in Seq(Object)
        BY <3>7, <4>1, CommitType DEF TLSWrite, PutStatus, TypeOK
      <4>3. faults' \in Nat
        BY <3>0, <3>7 DEF TLSWrite
      <4>4. basis' \in [uid : Nat, gen : Nat, seen : SUBSET Findings]
        BY <3>7 DEF TLSWrite, PutStatus, TypeOK, Object
      <4>5. QED
        BY <3>7, <4>2, <4>3, <4>4, DropPassType DEF TLSWrite, EndPass, TypeOK
    <3>8. ASSUME NEW t \in Tiers, RunTier(t) \/ SkipTier
          PROVE  /\ dep' \in Object /\ err' \in BOOLEAN /\ again' \in BOOLEAN
                 /\ seen' \in SUBSET Findings /\ faults' \in Nat
      <4>1. CASE SkipTier
        BY <4>1 DEF SkipTier, TypeOK
      <4>2. CASE RunTier(t)
        <5>1. PICK o \in Outcomes :
                 /\ TierReturns(t, o)
                 /\ dep'   = [dep EXCEPT !.status = AfterTier(dep.status, t, o)]
                 /\ err'   = (err \/ o = "error")
                 /\ again' = (again \/ o = "notReady")
                 /\ seen'  = IF o = "ready" THEN seen \cup {t} ELSE seen
          BY <4>2 DEF RunTier
        <5>2. dep.status \in Status
          BY DEF TypeOK, Object
        <5>3. dep' \in Object
          BY <5>1, <5>2, AfterTierLemma, WithStatus DEF TypeOK
        <5>4. faults' \in Nat
          BY <5>1, FaultsType DEF TierReturns
        <5>5. QED
          BY <5>1, <5>3, <5>4 DEF TypeOK, Findings
      <4>3. QED
        BY <3>8, <4>1, <4>2
    <3>9. CASE reconcileInfrastructure
      BY <3>8, <3>9 DEF reconcileInfrastructure, OnlyThePass, TypeOK, Tiers,
                        TierStages
    <3>10. CASE reconcileCore
      BY <3>8, <3>10 DEF reconcileCore, OnlyThePass, TypeOK, Tiers, TierStages
    <3>11. CASE reconcileRest
      BY <3>8, <3>11 DEF reconcileRest, OnlyThePass, TypeOK, Tiers, TierStages
    <3>12. CASE SetReady
      <4>1. faults' \in Nat
        BY <3>12, FaultsType DEF SetReady, GetFails
      <4>2. dep.spec \in DeploymentSpec /\ dep.status \in Status
        BY SpecsAssumption DEF TypeOK, Object
      <4>3. [dep EXCEPT !.status = SetReadyCondition(dep.spec, dep.status)]
               \in Object
        BY <4>2, SetReadyConditionLemma, WithStatus DEF TypeOK
      <4>4. QED
        BY <3>12, <4>1, <4>3, DropPassType
           DEF SetReady, Refetch, EndPass, TypeOK, TierStages
    <3>13. CASE UpdateStatus
      <4>1. [api EXCEPT !.status = dep.status] \in Object
        BY WithStatus DEF TypeOK, Object
      <4>2. api' \in Object /\ watch' \in Seq(Object)
        BY <3>13, <4>1, CommitType DEF UpdateStatus, PutStatus, TypeOK
      <4>3. faults' \in Nat
        BY <3>0, <3>13 DEF UpdateStatus
      <4>4. basis' \in [uid : Nat, gen : Nat, seen : SUBSET Findings]
        BY <3>13 DEF UpdateStatus, PutStatus, TypeOK, Object
      <4>5. DropPass /\ timer' \in BOOLEAN
        BY <3>13 DEF UpdateStatus, EndPass, TypeOK
      <4>6. QED
        BY <3>13, <4>2, <4>3, <4>4, <4>5, DropPassType DEF UpdateStatus, TypeOK
    <3>14. QED
      BY <2>8, <3>1, <3>2, <3>3, <3>4, <3>5, <3>6, <3>7, <3>9, <3>10, <3>11,
         <3>12, <3>13 DEF Reconcile
  <2>9. CASE UNCHANGED vars
    BY <2>9 DEF vars, TypeOK
  <2>10. QED
    BY <2>1, <2>2, <2>3, <2>4, <2>5, <2>6, <2>7, <2>8, <2>9 DEF Next
<1>3. QED
  BY <1>1, <1>2, PTL DEF Spec

-----------------------------------------------------------------------------
(***************************************************************************)
(* The inductive invariant.  First, how a write in the API server affects  *)
(* the copies that are about.                                              *)
(***************************************************************************)

\* Writes that keep the object, its finalizer and the spec history keep
\* every copy in the chain.
LEMMA CopyKept ==
    ASSUME TypeOK, NEW c \in Object, CopyOf(c, api, specAt),
           api'.uid = api.uid, api'.exists = api.exists, api.fin => api'.fin,
           \/ UNCHANGED specAt
           \/ \E s \in Specs : specAt' = Append(specAt, s)
    PROVE  CopyOf(c, api', specAt')
<1>1. c.gen \in Nat /\ specAt \in Seq(Specs)
  BY DEF TypeOK, Object
<1>2. c.gen \in 1 .. Len(specAt) =>
        c.gen \in 1 .. Len(specAt)' /\ specAt'[c.gen] = specAt[c.gen]
  BY <1>1
<1>3. QED
  BY <1>2 DEF CopyOf

\* So does the removal of an object without finalizer.
LEMMA CopyKeptGone ==
    ASSUME NEW c \in Object, CopyOf(c, api, specAt), ~api.fin,
           ~api'.exists, api'.uid = api.uid
    PROVE  CopyOf(c, api', specAt')
BY DEF CopyOf

\* So does the creation of an object after the last one went.
LEMMA CopyKeptNew ==
    ASSUME TypeOK, NEW c \in Object, CopyOf(c, api, specAt),
           ~api.exists, api'.uid = api.uid + 1
    PROVE  CopyOf(c, api', specAt')
BY DEF CopyOf, TypeOK, Object

\* Append, spelled out for the provers.
LEMMA AppendLemma ==
    ASSUME NEW S, NEW w \in Seq(S), NEW e \in S, NEW v, v = Append(w, e)
    PROVE  /\ Len(v) = Len(w) + 1 /\ v # <<>> /\ Len(w) \in Nat
           /\ v[Len(w) + 1] = e
           /\ \A i \in 1 .. Len(w) : v[i] = w[i]
           /\ \A i \in 1 .. Len(v) : i # Len(w) + 1 => i \in 1 .. Len(w)
<1>1. Len(w) \in Nat
  BY LenProperties
<1>2. Len(v) = Len(w) + 1
  BY AppendProperties
<1>3. v # <<>> /\ v[Len(w) + 1] = e /\ \A i \in 1 .. Len(w) : v[i] = w[i]
  BY AppendProperties
<1>4. QED
  BY <1>1, <1>2, <1>3

\* The API server's own state is a good copy.
LEMMA CopySelf ==
    ASSUME NEW obj \in Object, NEW hist \in Seq(Specs), HeadOf(obj, hist)
    PROVE  CopyOf(obj, obj, hist)
<1>1. obj.uid \in Nat /\ obj.gen \in Nat /\ Len(hist) \in Nat
  BY LenProperties DEF Object
<1>2. obj.exists => obj.gen \in 1 .. Len(hist) /\ obj.spec = hist[obj.gen]
  BY <1>1 DEF HeadOf
<1>3. QED
  BY <1>1, <1>2 DEF CopyOf

\* The copies in the cache and on their way there survive the step.
CopiesSurvive ==
    /\ CopyOf(cache, api', specAt')
    /\ \A i \in 1 .. Len(watch) : CopyOf(watch[i], api', specAt')

\* A committed object extends the chain, provided the copies survive it.
LEMMA CommitChain ==
    ASSUME TypeOK, ChainInv, specAt' \in Seq(Specs),
           NEW obj \in Object, Commit(obj), cache' = cache,
           CopiesSurvive, HeadOf(obj, specAt')
    PROVE  ChainInv'
<1>1. /\ watch \in Seq(Object) /\ watch' = Append(watch, obj) /\ api' = obj
  BY DEF TypeOK, Commit
<1>2. /\ Len(watch') = Len(watch) + 1 /\ watch' # <<>> /\ Len(watch) \in Nat
      /\ watch'[Len(watch) + 1] = obj
      /\ \A i \in 1 .. Len(watch) : watch'[i] = watch[i]
      /\ \A i \in 1 .. Len(watch') : i # Len(watch) + 1 => i \in 1 .. Len(watch)
  BY <1>1, AppendLemma
<1>3. CopyOf(obj, api', specAt')
  BY <1>1, CopySelf
<1>4. ASSUME NEW i \in 1 .. Len(watch') PROVE CopyOf(watch'[i], api', specAt')
  <2>1. CASE i = Len(watch) + 1
    BY <1>2, <1>3, <2>1
  <2>2. CASE i # Len(watch) + 1
    <3>1. i \in 1 .. Len(watch)
      BY <1>2, <2>2
    <3>2. QED
      BY <1>2, <3>1 DEF CopiesSurvive
  <2>3. QED
    BY <2>1, <2>2
<1>5. CopyOf(cache', api', specAt')
  BY DEF CopiesSurvive
<1>6. QED
  BY <1>1, <1>2, <1>4, <1>5 DEF ChainInv

\* Which steps of the API server let the copies survive.
Keeps ==
    /\ api'.uid = api.uid /\ api'.exists = api.exists /\ (api.fin => api'.fin)
    /\ \/ UNCHANGED specAt
       \/ \E s \in Specs : specAt' = Append(specAt, s)

Removes == ~api.fin /\ ~api'.exists /\ api'.uid = api.uid

Creates == ~api.exists /\ api'.uid = api.uid + 1

\* Each of these three lets the copies, and the pass's copy, survive.
LEMMA Survive ==
    ASSUME TypeOK, ChainInv, Keeps \/ Removes \/ Creates
    PROVE  /\ CopiesSurvive
           /\ CopyOf(dep, api, specAt) => CopyOf(dep, api', specAt')
<1>1. ASSUME NEW c \in Object, CopyOf(c, api, specAt)
      PROVE  CopyOf(c, api', specAt')
  <2>1. CASE Keeps
    BY <1>1, <2>1, CopyKept DEF Keeps
  <2>2. CASE Removes
    BY <1>1, <2>2, CopyKeptGone DEF Removes
  <2>3. CASE Creates
    BY <1>1, <2>3, CopyKeptNew DEF Creates
  <2>4. QED
    BY <2>1, <2>2, <2>3
<1>2. cache \in Object /\ dep \in Object
      /\ \A i \in 1 .. Len(watch) : watch[i] \in Object
  BY DEF TypeOK
<1>3. QED
  BY <1>1, <1>2 DEF CopiesSurvive, ChainInv

\* A step outside the pass leaves what the pass has established.
LEMMA PassKept ==
    ASSUME PassInv, SeenInv, UNCHANGED <<pc, dep, seen>>, cur' = FALSE,
           CopyOf(dep, api, specAt) => CopyOf(dep, api', specAt')
    PROVE  PassInv' /\ SeenInv'
BY DEF PassInv, SeenInv

\* Between passes there is nothing to keep.
LEMMA PassDropped ==
    ASSUME DropPass PROVE PassInv' /\ SeenInv'
BY DEF DropPass, PassInv, SeenInv, TierStages, TLSStages

\* A Ready status stays earned when the object only grows a generation.
LEMMA ReadyKept ==
    ASSUME TypeOK, ChainInv, ReadyIsEarned, api.exists,
           api'.status = api.status, api'.uid = api.uid, basis' = basis,
           \/ specAt' = specAt /\ api'.gen = api.gen
           \/ \E s \in Specs : /\ specAt' = Append(specAt, s)
                              /\ api'.gen = api.gen + 1
    PROVE  ReadyIsEarned'
<1> SUFFICES ASSUME api.status.phase = "Ready"
             PROVE  /\ basis.uid = api.uid /\ basis.gen = api.status.og
                    /\ api.status.og \in 1 .. api'.gen
                    /\ Required(specAt'[api.status.og]) \subseteq basis.seen
  BY DEF ReadyIsEarned
<1> DEFINE g == api.status.og
<1>1. /\ basis.uid = api.uid /\ basis.gen = g /\ g \in 1 .. api.gen
      /\ Required(specAt[g]) \subseteq basis.seen
  BY DEF ReadyIsEarned
<1>2. specAt \in Seq(Specs) /\ api.gen = Len(specAt) /\ api.gen \in Nat
  BY DEF TypeOK, ChainInv, HeadOf, Object
<1> HIDE DEF g
<1>3. g \in 1 .. api'.gen
  BY <1>1, <1>2
<1>4. specAt'[g] = specAt[g]
  BY <1>1, <1>2
<1>5. QED
  BY <1>1, <1>3, <1>4 DEF g

\* The invariant holds initially.
LEMMA InitIInv == Init => IInv
<1> SUFFICES ASSUME Init PROVE IInv
  OBVIOUS
<1>1. NoObject.uid = 0 /\ NoObject.exists = FALSE
      /\ NoObject.status = EmptyStatus
  BY DEF NoObject
<1>2. EmptyStatus.phase = ""
  BY DEF EmptyStatus
<1>3. HeadOf(api, specAt) /\ CopyOf(cache, api, specAt)
  <2>1. api = NoObject /\ cache = NoObject
    BY DEF Init
  <2>2. HeadOf(NoObject, specAt)
    BY <1>1, <1>2 DEF HeadOf
  <2>3. CopyOf(NoObject, NoObject, specAt)
    BY <1>1 DEF CopyOf
  <2>4. QED
    BY <2>1, <2>2, <2>3
<1>4. ChainInv
  BY <1>3 DEF Init, ChainInv
<1>5. PassInv /\ SeenInv
  BY DEF Init, PassInv, SeenInv, TierStages, TLSStages
<1>6. ReadyIsEarned
  BY <1>1, <1>2 DEF Init, ReadyIsEarned
<1>7. QED
  BY <1>4, <1>5, <1>6 DEF IInv

\* Users keep it: creation, a change of spec, deletion.
LEMMA UserIInv ==
    ASSUME TypeOK, TypeOK', IInv, Create \/ UpdateSpec \/ Delete
    PROVE  IInv'
<1>0. ChainInv /\ PassInv /\ SeenInv /\ ReadyIsEarned /\ api \in Object
      /\ specAt \in Seq(Specs) /\ specAt' \in Seq(Specs)
      /\ Len(specAt) \in Nat
  BY LenProperties DEF IInv, TypeOK
<1>1. CASE Create
  <2>1. PICK s \in Specs :
           /\ Commit([exists |-> TRUE, uid |-> api.uid + 1, gen |-> 1,
                      deleting |-> FALSE, fin |-> FALSE, spec |-> s,
                      status |-> EmptyStatus])
           /\ specAt' = <<s>>
    BY <1>1 DEF Create
  <2> DEFINE obj == [exists |-> TRUE, uid |-> api.uid + 1, gen |-> 1,
                     deleting |-> FALSE, fin |-> FALSE, spec |-> s,
                     status |-> EmptyStatus]
  <2>2. api' = obj /\ Commit(obj)
    BY <2>1 DEF Commit
  <2>3. obj \in Object
    BY <2>2 DEF TypeOK
  <2>4. Creates
    BY <1>1, <2>2 DEF Create, Creates
  <2>5. HeadOf(obj, specAt')
    BY <2>1 DEF HeadOf
  <2>6. api'.status.phase = ""
    BY <2>2 DEF EmptyStatus
  <2>7. cache' = cache /\ UNCHANGED <<pc, dep, seen>> /\ cur' = FALSE
    BY <1>1 DEF Create
  <2> HIDE DEF obj
  <2>8. ChainInv'
    BY <1>0, <2>2, <2>3, <2>4, <2>5, <2>7, Survive, CommitChain
  <2>9. PassInv' /\ SeenInv'
    BY <1>0, <2>4, <2>7, Survive, PassKept
  <2>10. ReadyIsEarned'
    BY <2>6 DEF ReadyIsEarned
  <2>11. QED
    BY <2>8, <2>9, <2>10 DEF IInv
<1>2. CASE UpdateSpec
  <2>1. PICK s \in Specs : /\ Commit([api EXCEPT !.spec = s, !.gen = @ + 1])
                           /\ specAt' = Append(specAt, s)
    BY <1>2 DEF UpdateSpec
  <2> DEFINE obj == [api EXCEPT !.spec = s, !.gen = @ + 1]
  <2>2. api' = obj /\ Commit(obj)
    BY <2>1 DEF Commit
  <2>3. /\ obj \in Object /\ obj.spec = s /\ obj.gen = api.gen + 1
        /\ obj.exists = api.exists /\ obj.uid = api.uid
        /\ obj.fin = api.fin /\ obj.status = api.status
    BY <1>0, <2>2 DEF TypeOK, Object
  <2> HIDE DEF obj
  <2>4. Keeps
    BY <2>1, <2>2, <2>3 DEF Keeps
  <2>5. api.exists /\ api.gen = Len(specAt)
    BY <1>0, <1>2 DEF UpdateSpec, ChainInv, HeadOf
  <2>6. HeadOf(obj, specAt')
    <3>1. Len(specAt') = Len(specAt) + 1 /\ specAt'[Len(specAt) + 1] = s
      BY <1>0, <2>1, AppendProperties
    <3>2. QED
      BY <1>0, <2>3, <2>5, <3>1 DEF HeadOf
  <2>7. cache' = cache /\ UNCHANGED <<pc, dep, seen, basis>> /\ cur' = FALSE
    BY <1>2 DEF UpdateSpec
  <2>8. ChainInv'
    BY <1>0, <2>2, <2>3, <2>4, <2>6, <2>7, Survive, CommitChain
  <2>9. PassInv' /\ SeenInv'
    BY <1>0, <2>4, <2>7, Survive, PassKept
  <2>10. ReadyIsEarned'
    BY <1>0, <2>1, <2>2, <2>3, <2>5, <2>7, ReadyKept
  <2>11. QED
    BY <2>8, <2>9, <2>10 DEF IInv
<1>3. CASE Delete /\ api.fin
  <2> DEFINE obj == [api EXCEPT !.deleting = TRUE, !.gen = @ + 1]
  <2>1. Commit(obj) /\ specAt' = Append(specAt, api.spec)
    BY <1>3 DEF Delete
  <2>2. api' = obj
    BY <2>1 DEF Commit
  <2>3. /\ obj \in Object /\ obj.spec = api.spec /\ obj.gen = api.gen + 1
        /\ obj.exists = api.exists /\ obj.uid = api.uid
        /\ obj.fin = api.fin /\ obj.status = api.status
        /\ api.spec \in Specs
    BY <1>0, <2>2 DEF TypeOK, Object
  <2> HIDE DEF obj
  <2>4. Keeps
    BY <2>1, <2>2, <2>3 DEF Keeps
  <2>5. api.exists /\ api.gen = Len(specAt)
    BY <1>0, <1>3 DEF Delete, ChainInv, HeadOf
  <2>6. HeadOf(obj, specAt')
    <3>1. Len(specAt') = Len(specAt) + 1 /\ specAt'[Len(specAt) + 1] = api.spec
      BY <1>0, <2>1, <2>3, AppendProperties
    <3>2. QED
      BY <1>0, <2>3, <2>5, <3>1 DEF HeadOf
  <2>7. cache' = cache /\ UNCHANGED <<pc, dep, seen, basis>> /\ cur' = FALSE
    BY <1>3 DEF Delete
  <2>8. ChainInv'
    BY <1>0, <2>1, <2>3, <2>4, <2>6, <2>7, Survive, CommitChain
  <2>9. PassInv' /\ SeenInv'
    BY <1>0, <2>4, <2>7, Survive, PassKept
  <2>10. ReadyIsEarned'
    BY <1>0, <2>1, <2>2, <2>3, <2>5, <2>7, ReadyKept
  <2>11. QED
    BY <2>8, <2>9, <2>10 DEF IInv
<1>4. CASE Delete /\ ~api.fin
  <2> DEFINE obj == Gone(api.uid)
  <2>1. Commit(obj) /\ specAt' = specAt
    BY <1>4 DEF Delete
  <2>2. api' = obj
    BY <2>1 DEF Commit
  <2>3. obj \in Object
    BY <2>2 DEF TypeOK
  <2>4. obj.exists = FALSE /\ obj.uid = api.uid /\ obj.status.phase = ""
    BY DEF Gone, NoObject, EmptyStatus
  <2> HIDE DEF obj
  <2>5. Removes /\ HeadOf(obj, specAt')
    BY <1>4, <2>2, <2>4 DEF Removes, HeadOf
  <2>6. cache' = cache /\ UNCHANGED <<pc, dep, seen>> /\ cur' = FALSE
    BY <1>4 DEF Delete
  <2>7. ChainInv'
    BY <1>0, <2>1, <2>3, <2>5, <2>6, Survive, CommitChain
  <2>8. PassInv' /\ SeenInv'
    BY <1>0, <2>5, <2>6, Survive, PassKept
  <2>9. ReadyIsEarned'
    BY <2>2, <2>4 DEF ReadyIsEarned
  <2>10. QED
    BY <2>7, <2>8, <2>9 DEF IInv
<1>5. QED
  BY <1>1, <1>2, <1>3, <1>4

\* Head and Tail, spelled out for the provers.
LEMMA TailLemma ==
    ASSUME NEW S, NEW w \in Seq(S), w # <<>>, NEW v, v = Tail(w)
    PROVE  /\ Len(w) \in Nat /\ Len(w) >= 1 /\ Head(w) = w[1]
           /\ Len(v) = Len(w) - 1
           /\ \A i \in 1 .. Len(v) : v[i] = w[i + 1]
           /\ v = <<>> <=> Len(w) = 1
<1>1. Len(w) \in Nat /\ Len(w) >= 1
  BY LenProperties, EmptySeq
<1>2. Head(w) = w[1] /\ v \in Seq(S) /\ Len(v) = Len(w) - 1
      /\ \A i \in 1 .. Len(v) : v[i] = w[i + 1]
  BY <1>1, HeadTailProperties
<1>3. v = <<>> <=> Len(w) = 1
  <2>1. v = <<>> => Len(v) = 0
    OBVIOUS
  <2>2. v # <<>> => Len(v) # 0
    BY <1>2, EmptySeq
  <2>3. QED
    BY <1>1, <1>2, <2>1, <2>2
<1>4. QED
  BY <1>1, <1>2, <1>3

\* Health, delivery of watch events and timers keep it.
LEMMA ClusterIInv ==
    ASSUME TypeOK, TypeOK', IInv,
           (\E p \in Parts : HealthChanges(p)) \/ Sync \/ TimerFires
    PROVE  IInv'
<1>0. ChainInv /\ PassInv /\ SeenInv /\ ReadyIsEarned
      /\ watch \in Seq(Object) /\ UNCHANGED <<api, specAt, basis, pc, dep, cur, seen>>
  BY DEF IInv, TypeOK, HealthChanges, Sync, TimerFires, passVars
<1>1. ReadyIsEarned' /\ SeenInv'
  BY <1>0 DEF ReadyIsEarned, SeenInv
<1>2. CASE UNCHANGED <<cache, watch>>
  <2>1. ChainInv'
    BY <1>0, <1>2 DEF ChainInv
  <2>2. PassInv'
    BY <1>0, <1>2 DEF PassInv
  <2>3. QED
    BY <1>1, <2>1, <2>2 DEF IInv
<1>3. CASE Sync
  <2>1. watch # <<>> /\ cache' = Head(watch) /\ watch' = Tail(watch)
    BY <1>3 DEF Sync
  <2>2. /\ Len(watch) \in Nat /\ Len(watch) >= 1 /\ cache' = watch[1]
        /\ Len(watch') = Len(watch) - 1
        /\ \A i \in 1 .. Len(watch') : watch'[i] = watch[i + 1]
        /\ watch' = <<>> <=> Len(watch) = 1
    BY <1>0, <2>1, TailLemma
  <2>3. watch[Len(watch)] = api /\ \A i \in 1 .. Len(watch) :
           CopyOf(watch[i], api, specAt)
    BY <1>0, <2>1 DEF ChainInv
  <2>4. IF watch' = <<>> THEN cache' = api ELSE watch'[Len(watch')] = api
    BY <2>2, <2>3
  <2>5. CopyOf(cache', api, specAt)
    BY <2>2, <2>3
  <2>6. ASSUME NEW i \in 1 .. Len(watch') PROVE CopyOf(watch'[i], api, specAt)
    <3>1. i + 1 \in 1 .. Len(watch)
      BY <2>2
    <3>2. QED
      BY <2>2, <2>3, <3>1
  <2>7. HeadOf(api, specAt)
    BY <1>0 DEF ChainInv
  <2>8. ChainInv'
    BY <1>0, <2>4, <2>5, <2>6, <2>7 DEF ChainInv
  <2>9. PassInv'
    BY <1>0, <2>1 DEF PassInv
  <2>10. QED
    BY <1>1, <2>8, <2>9 DEF IInv
<1>4. QED
  BY <1>2, <1>3 DEF HealthChanges, TimerFires

\* A restart keeps it: the new cache is the API server's state.
LEMMA CrashIInv ==
    ASSUME TypeOK, IInv, Crash PROVE IInv'
<1>1. /\ api' = api /\ specAt' = specAt /\ basis' = basis /\ cache' = api
      /\ watch' = <<>> /\ DropPass
  BY DEF Crash
<1>2. HeadOf(api, specAt) /\ ReadyIsEarned
  BY DEF IInv, ChainInv
<1>3. CopyOf(api, api, specAt)
  BY <1>2, CopySelf DEF TypeOK
<1>4. ChainInv'
  BY <1>1, <1>2, <1>3 DEF ChainInv
<1>5. QED
  BY <1>1, <1>2, <1>4, PassDropped DEF IInv, ReadyIsEarned

\* Steps of a pass that write nothing keep all but what the pass knows.
LEMMA NoWrite ==
    ASSUME IInv, UNCHANGED <<api, cache, watch, specAt, basis>>
    PROVE  ChainInv' /\ ReadyIsEarned'
BY DEF IInv, ChainInv, ReadyIsEarned

\* A write of the operator that leaves identity, generation and spec alone
\* extends the chain.
LEMMA OwnWrite ==
    ASSUME TypeOK, ChainInv, api.exists, NEW obj \in Object, Commit(obj),
           obj.exists, obj.uid = api.uid, obj.gen = api.gen,
           obj.spec = api.spec, api.fin => obj.fin,
           specAt' = specAt, cache' = cache
    PROVE  ChainInv'
<1>1. api' = obj
  BY DEF Commit
<1>2. Keeps
  BY <1>1 DEF Keeps, TypeOK, Object
<1>3. HeadOf(obj, specAt')
  BY DEF ChainInv, HeadOf
<1>4. QED
  BY <1>2, <1>3, Survive, CommitChain DEF TypeOK

\* The fetch keeps it: the pass's copy is the cache's.
LEMMA FetchIInv ==
    ASSUME TypeOK, IInv, Fetch PROVE IInv'
<1>1. UNCHANGED <<api, cache, watch, specAt, basis>>
  BY DEF Fetch
<1>2. ChainInv' /\ ReadyIsEarned'
  BY <1>1, NoWrite
<1>3. CASE DropPass
  BY <1>2, <1>3, PassDropped DEF IInv
<1>4. CASE cache.exists /\ pc' = "fetched" /\ dep' = cache
           /\ cur' = (watch = <<>>)
  <2>1. CopyOf(cache, api, specAt) /\ (watch = <<>> => cache = api)
    BY DEF IInv, ChainInv
  <2>2. PassInv'
    BY <1>1, <1>4, <2>1 DEF PassInv, TierStages, TLSStages
  <2>3. SeenInv'
    BY <1>4 DEF SeenInv, TierStages, TLSStages
  <2>4. QED
    BY <1>2, <2>2, <2>3 DEF IInv
<1>5. QED
  BY <1>3, <1>4 DEF Fetch, EndPass

\* Removing the finalizer keeps it: the write succeeds only over the
\* latest version, so no copy of the object before its deletion is left.
LEMMA DeleteIInv ==
    ASSUME TypeOK, TypeOK', IInv, reconcileDelete PROVE IInv'
<1>1. DropPass /\ cache' = cache /\ specAt' = specAt /\ basis' = basis
  BY DEF reconcileDelete, EndPass
<1>2. PassInv' /\ SeenInv'
  BY <1>1, PassDropped
<1>3. CASE UNCHANGED <<api, watch>>
  BY <1>1, <1>2, <1>3, NoWrite DEF IInv
<1>4. CASE cur /\ Commit(Gone(api.uid))
  <2> DEFINE obj == Gone(api.uid)
  <2>1. Commit(obj) /\ api' = obj /\ obj \in Object
    BY <1>4 DEF Commit, TypeOK
  <2>2. obj.exists = FALSE /\ obj.uid = api.uid /\ obj.status.phase = ""
    BY DEF Gone, NoObject, EmptyStatus
  <2> HIDE DEF obj
  <2>3. pc = "fetched" /\ dep.deleting
    BY DEF reconcileDelete
  <2>4. watch = <<>> /\ dep = api /\ cache = api
    BY <1>4, <2>3 DEF IInv, PassInv, ChainInv
  <2>5. CopyOf(cache, api', specAt')
    <3>1. api.uid \in Nat /\ cache.uid = api.uid /\ cache.deleting
      BY <2>3, <2>4 DEF TypeOK, Object
    <3>2. api'.uid = api.uid /\ ~api'.exists
      BY <2>1, <2>2
    <3>3. api'.uid = cache.uid /\ cache.uid <= api'.uid
      BY <3>1, <3>2
    <3>4. QED
      BY <3>1, <3>2, <3>3 DEF CopyOf
  <2>6. CopiesSurvive
    BY <2>4, <2>5 DEF CopiesSurvive
  <2>7. HeadOf(obj, specAt')
    BY <2>2 DEF HeadOf
  <2>8. ChainInv'
    BY <1>1, <2>1, <2>6, <2>7, CommitChain DEF IInv, TypeOK
  <2>9. ReadyIsEarned'
    BY <2>1, <2>2 DEF ReadyIsEarned
  <2>10. QED
    BY <1>2, <2>8, <2>9 DEF IInv
<1>5. QED
  BY <1>3, <1>4 DEF reconcileDelete, WriteEnds

\* Adding the finalizer and the first status keep it.
LEMMA FirstWritesIInv ==
    ASSUME TypeOK, TypeOK', IInv, AddFinalizer \/ InitStatus PROVE IInv'
<1>1. DropPass /\ cache' = cache /\ pc = "fetched"
  BY DEF AddFinalizer, InitStatus, EndPass
<1>2. PassInv' /\ SeenInv'
  BY <1>1, PassDropped
<1>3. CASE UNCHANGED <<api, watch, basis, specAt>>
  BY <1>1, <1>2, <1>3, NoWrite DEF IInv
<1>4. cur => api = dep /\ api.exists
  BY <1>1 DEF IInv, PassInv
<1>5. CASE /\ cur /\ basis' = basis /\ specAt' = specAt
           /\ Commit([api EXCEPT !.fin = TRUE])
  <2> DEFINE obj == [api EXCEPT !.fin = TRUE]
  <2>1. Commit(obj) /\ api' = obj /\ obj \in Object
    BY <1>5 DEF Commit, TypeOK
  <2>2. /\ obj.exists = api.exists /\ obj.uid = api.uid /\ obj.gen = api.gen
        /\ obj.spec = api.spec /\ obj.fin = TRUE /\ obj.status = api.status
    BY WithFinalizer DEF TypeOK
  <2> HIDE DEF obj
  <2>3. ChainInv'
    BY <1>1, <1>4, <1>5, <2>1, <2>2, OwnWrite DEF IInv
  <2>4. ReadyIsEarned'
    BY <1>1, <1>4, <1>5, <2>1, <2>2, ReadyKept DEF IInv
  <2>5. QED
    BY <1>2, <2>3, <2>4 DEF IInv
<1>6. CASE cur /\ specAt' = specAt
           /\ Commit([api EXCEPT !.status =
                             InitializeConditions(dep.spec, dep.status)])
  <2> DEFINE st  == InitializeConditions(dep.spec, dep.status)
             obj == [api EXCEPT !.status = st]
  <2>1. dep.spec \in DeploymentSpec /\ dep.status \in Status
    BY SpecsAssumption DEF TypeOK, Object
  <2>2. st \in Status /\ st.phase = "Pending"
    BY <2>1, InitializeConditionsLemma
  <2> HIDE DEF st
  <2>3. Commit(obj) /\ api' = obj
    BY <1>6 DEF Commit, st
  <2>4. /\ obj \in Object /\ obj.status = st
        /\ obj.exists = api.exists /\ obj.uid = api.uid /\ obj.gen = api.gen
        /\ obj.spec = api.spec /\ obj.fin = api.fin
    BY <2>2, WithStatus DEF TypeOK
  <2> HIDE DEF obj
  <2>5. ChainInv'
    BY <1>1, <1>4, <1>6, <2>3, <2>4, OwnWrite DEF IInv
  <2>6. ReadyIsEarned'
    BY <2>2, <2>3, <2>4 DEF ReadyIsEarned
  <2>7. QED
    BY <1>2, <2>5, <2>6 DEF IInv
<1>7. ASSUME NEW s \in Specs, cur, basis' = basis,
             Commit([api EXCEPT !.fin = TRUE, !.spec = s, !.gen = @ + 1]),
             specAt' = Append(specAt, s)
      PROVE  IInv'
  <2> DEFINE obj == [api EXCEPT !.fin = TRUE, !.spec = s, !.gen = @ + 1]
  <2>0. /\ ChainInv /\ ReadyIsEarned /\ api \in Object
        /\ specAt \in Seq(Specs) /\ Len(specAt) \in Nat
    BY LenProperties DEF IInv, TypeOK
  <2>1. Commit(obj) /\ api' = obj
    BY <1>7 DEF Commit
  <2>2. /\ obj \in Object /\ obj.spec = s /\ obj.gen = api.gen + 1
        /\ obj.exists = api.exists /\ obj.uid = api.uid
        /\ obj.fin = TRUE /\ obj.status = api.status
    BY <2>0, <2>1 DEF TypeOK, Object
  <2> HIDE DEF obj
  <2>3. Keeps
    BY <1>7, <2>1, <2>2 DEF Keeps
  <2>4. api.exists /\ api.gen = Len(specAt)
    BY <1>4, <1>7, <2>0 DEF ChainInv, HeadOf
  <2>5. HeadOf(obj, specAt')
    <3>1. Len(specAt') = Len(specAt) + 1 /\ specAt'[Len(specAt) + 1] = s
      BY <1>7, <2>0, AppendProperties
    <3>2. QED
      BY <2>0, <2>2, <2>4, <3>1 DEF HeadOf
  <2>6. ChainInv'
    BY <1>1, <2>0, <2>1, <2>2, <2>3, <2>5, Survive, CommitChain DEF TypeOK
  <2>7. ReadyIsEarned'
    BY <1>7, <2>0, <2>1, <2>2, <2>4, ReadyKept
  <2>8. QED
    BY <1>2, <2>6, <2>7 DEF IInv
<1>8. CASE AddFinalizer
  <2>1. /\ basis' = basis
        /\ UNCHANGED apiVars \/ (cur /\ PutFinalizer)
    BY <1>8 DEF AddFinalizer, WriteEnds
  <2>2. QED
    BY <1>3, <1>5, <1>7, <2>1, FinalizerPut DEF apiVars
<1>9. CASE InitStatus
  BY <1>3, <1>6, <1>9 DEF InitStatus, WriteEnds
<1>10. QED
  BY <1>8, <1>9

\* Noting the generation and finding the TLS backend keep it.
LEMMA CheckTLSIInv ==
    ASSUME TypeOK, IInv, CheckTLS PROVE IInv'
<1> DEFINE m   == dep.spec.tls
           st  == Observed(dep)
           stF == [st EXCEPT !.phase = "Failed"]
           stN == SetTLSConditions(stF, m, FALSE)
           stR == SetReadyCondition(dep.spec, stN)
<1>1. UNCHANGED <<api, cache, watch, specAt, basis>> /\ cur' = FALSE
      /\ pc = "fetched" /\ ~dep.deleting /\ dep.fin
  BY DEF CheckTLS
<1>2. ChainInv' /\ ReadyIsEarned'
  BY <1>1, NoWrite
<1>3. dep.spec \in DeploymentSpec /\ m \in TLSModes \cup {"nil"}
      /\ st \in Status /\ st.og = dep.gen /\ dep \in Object
  BY ObservedLemma, SpecsAssumption DEF TypeOK, Object, DeploymentSpec
<1>4. dep.exists /\ CopyOf(dep, api, specAt)
  BY <1>1 DEF IInv, PassInv
<1>5. ASSUME NEW x \in Status, x.og = dep.gen,
             dep' = [dep EXCEPT !.status = x],
             pc' \in {"infra", "tlsRefetch"},
             pc' = "infra" /\ m # "nil" => "tls" \in seen',
             pc' = "tlsRefetch" => x.phase # "Ready"
      PROVE  IInv'
  <2>1. /\ dep'.exists = dep.exists /\ dep'.uid = dep.uid
        /\ dep'.gen = dep.gen /\ dep'.deleting = dep.deleting
        /\ dep'.fin = dep.fin /\ dep'.spec = dep.spec /\ dep'.status = x
    BY <1>3, <1>5, WithStatus
  <2>2. CopyOf(dep', api', specAt')
    BY <1>1, <1>4, <2>1 DEF CopyOf
  <2>3. PassInv'
    BY <1>1, <1>4, <1>5, <2>1, <2>2 DEF PassInv, TierStages, TLSStages
  <2>4. SeenInv'
    BY <1>5, <2>1 DEF SeenInv, TierStages, TLSStages
  <2>5. QED
    BY <1>2, <2>3, <2>4 DEF IInv
<1>6. CASE m = "nil" /\ dep' = [dep EXCEPT !.status = st] /\ pc' = "infra"
  <2> HIDE DEF st
  <2>1. QED
    BY <1>3, <1>5, <1>6
<1>7. CASE /\ m # "nil" /\ pc' = "infra" /\ seen' = seen \cup {"tls"}
           /\ dep' = [dep EXCEPT !.status = SetTLSConditions(st, m, TRUE)]
  <2> DEFINE x == SetTLSConditions(st, m, TRUE)
  <2>1. x \in Status /\ x.og = dep.gen
    BY <1>3, <1>7, SetTLSConditionsLemma
  <2>2. dep' = [dep EXCEPT !.status = x]
    BY <1>7
  <2> HIDE DEF x
  <2>3. QED
    BY <1>5, <1>7, <2>1, <2>2
<1>8. CASE /\ m # "nil" /\ pc' = "tlsRefetch"
           /\ dep' = [dep EXCEPT !.status = stR]
  <2>1. stF \in Status /\ stF.og = dep.gen
    BY <1>3 DEF Status, Phases
  <2>2. /\ stN \in Status /\ stN.og = dep.gen
        /\ ~IsConditionTrue(stN, "TLSReady")
    BY <1>3, <1>8, <2>1, SetTLSConditionsLemma
  <2>3. stR \in Status /\ stR.og = dep.gen /\ stR.phase # "Ready"
    BY <1>3, <1>8, <2>2, SetReadyConditionLemma
  <2> HIDE DEF stR
  <2>4. QED
    BY <1>5, <1>8, <2>3
<1>9. QED
  BY <1>6, <1>7, <1>8 DEF CheckTLS

\* The re-fetch of a pass without TLS backend keeps it.
LEMMA TLSRefetchIInv ==
    ASSUME TypeOK, IInv, TLSRefetch PROVE IInv'
<1>1. UNCHANGED <<api, cache, watch, specAt, basis>> /\ pc = "tlsRefetch"
  BY DEF TLSRefetch
<1>2. ChainInv' /\ ReadyIsEarned'
  BY <1>1, NoWrite
<1>3. CASE DropPass
  BY <1>2, <1>3, PassDropped DEF IInv
<1>4. CASE pc' = "tlsWrite" /\ UNCHANGED <<dep, seen>>
  <2>1. PassInv'
    BY <1>1, <1>4 DEF IInv, PassInv, TierStages, TLSStages
  <2>2. SeenInv'
    BY <1>1, <1>4 DEF IInv, SeenInv, TierStages, TLSStages
  <2>3. QED
    BY <1>2, <2>1, <2>2 DEF IInv
<1>5. QED
  BY <1>3, <1>4 DEF TLSRefetch, Refetch, EndPass

\* While a pass runs the tiers or writes its status, its object is there.
LEMMA PassOwns == TypeOK /\ IInv => PassOwnsObject
<1> SUFFICES ASSUME TypeOK, IInv, pc \in TierStages \cup TLSStages
             PROVE  api.exists /\ api.fin /\ api.uid = dep.uid
  BY DEF PassOwnsObject
<1>1. dep.exists /\ CopyOf(dep, api, specAt) /\ dep.fin /\ ~dep.deleting
  BY DEF IInv, PassInv, TierStages, TLSStages
<1>2. QED
  BY <1>1 DEF CopyOf

\* A status write keeps the invariant when Ready is earned by this pass.
LEMMA PutStatusIInv ==
    ASSUME TypeOK, TypeOK', IInv, pc \in TierStages \cup TLSStages,
           NEW b \in BOOLEAN, PutStatus(b), ~b => api.status = dep.status,
           DropPass, cache' = cache, specAt' = specAt,
           dep.status.phase = "Ready" => Required(dep.spec) \subseteq seen
    PROVE  IInv'
<1>1. PassInv' /\ SeenInv'
  BY PassDropped
<1>2. api.exists /\ api.fin /\ api.uid = dep.uid
  BY PassOwns DEF PassOwnsObject
<1>3. dep.exists /\ CopyOf(dep, api, specAt) /\ dep.status.og = dep.gen
  BY DEF IInv, PassInv, TierStages, TLSStages
<1>4. dep.gen \in 1 .. Len(specAt) /\ dep.spec = specAt[dep.gen]
      /\ api.gen = Len(specAt)
  BY <1>2, <1>3 DEF CopyOf, IInv, ChainInv, HeadOf
<1> DEFINE obj == [api EXCEPT !.status = dep.status]
<1>5. /\ obj \in Object /\ obj.status = dep.status
      /\ obj.exists = api.exists /\ obj.uid = api.uid /\ obj.gen = api.gen
      /\ obj.spec = api.spec /\ obj.fin = api.fin
  BY WithStatus DEF TypeOK, Object
<1>6. \/ b /\ Commit(obj)
      \/ ~b /\ UNCHANGED <<api, watch>>
  BY DEF PutStatus
<1> HIDE DEF obj
<1>7. api'.status = dep.status /\ api'.uid = dep.uid /\ api'.gen = api.gen
  BY <1>2, <1>5, <1>6 DEF Commit
<1>8. ReadyIsEarned'
  <2>1. basis' = [uid |-> dep.uid, gen |-> dep.gen, seen |-> seen]
    BY DEF PutStatus
  <2>2. QED
    BY <1>3, <1>4, <1>7, <2>1 DEF ReadyIsEarned
<1>9. ChainInv'
  <2>1. CASE b /\ Commit(obj)
    BY <1>2, <1>5, <2>1, OwnWrite DEF IInv
  <2>2. CASE ~b /\ UNCHANGED <<api, watch>>
    BY <2>2 DEF IInv, ChainInv
  <2>3. QED
    BY <1>6, <2>1, <2>2
<1>10. QED
  BY <1>1, <1>8, <1>9 DEF IInv

\* The status write of a pass without TLS backend keeps it.
LEMMA TLSWriteIInv ==
    ASSUME TypeOK, TypeOK', IInv, TLSWrite PROVE IInv'
<1>1. DropPass /\ cache' = cache /\ specAt' = specAt /\ pc = "tlsWrite"
  BY DEF TLSWrite, EndPass
<1>2. dep.status.phase # "Ready"
  BY <1>1 DEF IInv, SeenInv, TLSStages
<1>3. CASE UNCHANGED <<api, watch, basis>>
  BY <1>1, <1>3, PassDropped, NoWrite DEF IInv
<1>4. CASE PutStatus(api.status # dep.status)
  BY <1>1, <1>2, <1>4, PutStatusIInv DEF TLSStages
<1>5. QED
  BY <1>3, <1>4 DEF TLSWrite

\* The status write at the end of a pass keeps it.
LEMMA UpdateStatusIInv ==
    ASSUME TypeOK, TypeOK', IInv, UpdateStatus PROVE IInv'
<1>1. DropPass /\ cache' = cache /\ specAt' = specAt /\ pc = "write"
  BY DEF UpdateStatus, EndPass
<1>2. dep.status.phase = "Ready" => Required(dep.spec) \subseteq seen
  <2> SUFFICES ASSUME dep.status.phase = "Ready"
               PROVE  Required(dep.spec) \subseteq seen
    OBVIOUS
  <2>1. AllTiersReady(dep.spec, dep.status)
    BY <1>1 DEF IInv, SeenInv
  <2>2. /\ dep.spec.tls # "nil" => "tls" \in seen
        /\ dep.spec.infra /\ dep.status.tiers["infra"] = "ready"
             => "infra" \in seen
        /\ InfraReady(dep.spec, dep.status) /\ CoreReady(dep.status)
             => "core" \in seen
        /\ dep.spec.rest = "enabled" /\ CoreReady(dep.status)
             /\ dep.status.tiers["rest"] = "ready" => "rest" \in seen
    BY <1>1 DEF IInv, SeenInv, TierStages
  <2>3. QED
    BY <2>1, <2>2 DEF Required, AllTiersReady, InfraReady, RestReady
<1>3. CASE UNCHANGED <<api, watch, basis>>
  BY <1>1, <1>3, PassDropped, NoWrite DEF IInv
<1>4. CASE \E sameSecond \in BOOLEAN :
              PutStatus(api.status # dep.status \/ ~sameSecond)
  BY <1>1, <1>2, <1>4, PutStatusIInv DEF TierStages
<1>5. QED
  BY <1>3, <1>4 DEF UpdateStatus

\* What a tier's step leaves of the pass's copy.
LEMMA TierStep ==
    ASSUME TypeOK, IInv, NEW t \in Tiers, RunTier(t) \/ SkipTier,
           UNCHANGED <<api, cache, watch, specAt, basis>>,
           pc \in {"infra", "core", "rest"}, pc' \in {"core", "rest", "refetch"}
    PROVE  /\ ChainInv' /\ ReadyIsEarned' /\ PassInv'
           /\ dep'.spec = dep.spec /\ seen \subseteq seen'
           /\ \A u \in Tiers \ {t} :
                 dep'.status.tiers[u] = dep.status.tiers[u]
           /\ RunTier(t) /\ dep'.status.tiers[t] = "ready" => t \in seen'
           /\ ~RunTier(t) => UNCHANGED <<dep, seen>>
<1>1. ChainInv' /\ ReadyIsEarned'
  BY NoWrite
<1>2. dep.exists /\ CopyOf(dep, api, specAt) /\ dep.fin /\ ~dep.deleting
      /\ dep.status.og = dep.gen /\ dep \in Object /\ dep.status \in Status
  BY DEF IInv, PassInv, TierStages, TypeOK, Object
<1>3. CASE SkipTier /\ ~RunTier(t)
  <2>1. UNCHANGED <<dep, seen>>
    BY <1>3 DEF SkipTier
  <2>2. PassInv'
    BY <1>2, <2>1 DEF PassInv, TierStages, TLSStages
  <2>3. QED
    BY <1>1, <1>3, <2>1, <2>2
<1>4. CASE RunTier(t)
  <2>1. PICK o \in Outcomes :
           /\ dep' = [dep EXCEPT !.status = AfterTier(dep.status, t, o)]
           /\ seen' = IF o = "ready" THEN seen \cup {t} ELSE seen
    BY <1>4 DEF RunTier
  <2> DEFINE x == AfterTier(dep.status, t, o)
  <2>2. /\ x \in Status /\ x.og = dep.status.og
        /\ x.tiers = [dep.status.tiers EXCEPT
                         ![t] = IF o = "ready" THEN "ready" ELSE "notReady"]
    BY <1>2, AfterTierLemma
  <2>3. dep' = [dep EXCEPT !.status = x]
    BY <2>1
  <2> HIDE DEF x
  <2>4. /\ dep'.exists = dep.exists /\ dep'.uid = dep.uid
        /\ dep'.gen = dep.gen /\ dep'.deleting = dep.deleting
        /\ dep'.fin = dep.fin /\ dep'.spec = dep.spec /\ dep'.status = x
    BY <1>2, <2>2, <2>3, WithStatus
  <2>5. dep.status.tiers \in [Tiers -> TierStates]
    BY <1>2 DEF Status
  <2>6. /\ \A u \in Tiers \ {t} : x.tiers[u] = dep.status.tiers[u]
        /\ x.tiers[t] = "ready" => o = "ready"
    BY <2>2, <2>5
  <2>7. CopyOf(dep', api', specAt')
    BY <1>2, <2>4 DEF CopyOf
  <2>8. PassInv'
    BY <1>2, <2>2, <2>4, <2>7 DEF PassInv, TierStages, TLSStages
  <2>9. seen \subseteq seen' /\ (o = "ready" => t \in seen')
    BY <2>1
  <2>10. QED
    BY <1>1, <1>4, <2>4, <2>6, <2>8, <2>9
<1>5. QED
  BY <1>3, <1>4

\* Each tier keeps it: what it leaves ready it has found in this pass, and
\* a tier that is skipped is skipped because one before it is not ready.
LEMMA TiersIInv ==
    ASSUME TypeOK, IInv,
           reconcileInfrastructure \/ reconcileCore \/ reconcileRest
    PROVE  IInv'
<1>0. UNCHANGED <<api, cache, watch, specAt, basis>>
  BY DEF reconcileInfrastructure, reconcileCore, reconcileRest, OnlyThePass
<1>1. CASE reconcileInfrastructure
  <2>1. pc = "infra" /\ pc' = "core"
        /\ (dep.spec.infra => RunTier("infra"))
        /\ (RunTier("infra") \/ SkipTier)
    BY <1>1 DEF reconcileInfrastructure
  <2>2. /\ ChainInv' /\ ReadyIsEarned' /\ PassInv'
        /\ dep'.spec = dep.spec /\ seen \subseteq seen'
        /\ RunTier("infra") /\ dep'.status.tiers["infra"] = "ready"
             => "infra" \in seen'
    BY <1>0, <2>1, TierStep DEF Tiers
  <2>3. dep.spec.tls # "nil" => "tls" \in seen
    BY <2>1 DEF IInv, SeenInv, TierStages
  <2>4. SeenInv'
    BY <2>1, <2>2, <2>3 DEF SeenInv, TLSStages
  <2>5. QED
    BY <2>2, <2>4 DEF IInv
<1>2. CASE reconcileCore
  <2>1. pc = "core" /\ pc' = "rest"
        /\ (InfraReady(dep.spec, dep.status) => RunTier("core"))
        /\ (RunTier("core") \/ SkipTier)
    BY <1>2 DEF reconcileCore
  <2>2. /\ ChainInv' /\ ReadyIsEarned' /\ PassInv'
        /\ dep'.spec = dep.spec /\ seen \subseteq seen'
        /\ RunTier("core") /\ dep'.status.tiers["core"] = "ready"
             => "core" \in seen'
        /\ dep'.status.tiers["infra"] = dep.status.tiers["infra"]
    BY <1>0, <2>1, TierStep DEF Tiers
  <2>3. /\ dep.spec.tls # "nil" => "tls" \in seen
        /\ dep.spec.infra /\ dep.status.tiers["infra"] = "ready"
             => "infra" \in seen
    BY <2>1 DEF IInv, SeenInv, TierStages
  <2>4. InfraReady(dep.spec, dep.status)' = InfraReady(dep.spec, dep.status)
    BY <2>2 DEF InfraReady
  <2>5. InfraReady(dep.spec, dep.status)' /\ CoreReady(dep.status)'
          => "core" \in seen'
    BY <2>1, <2>2, <2>4 DEF CoreReady
  <2>6. SeenInv'
    BY <2>1, <2>2, <2>3, <2>5 DEF SeenInv, TLSStages
  <2>7. QED
    BY <2>2, <2>6 DEF IInv
<1>3. CASE reconcileRest
  <2>1. pc = "rest" /\ pc' = "refetch"
        /\ (dep.spec.rest = "enabled" /\ CoreReady(dep.status)
              => RunTier("rest"))
        /\ (RunTier("rest") \/ SkipTier)
    BY <1>3 DEF reconcileRest
  <2>2. /\ ChainInv' /\ ReadyIsEarned' /\ PassInv'
        /\ dep'.spec = dep.spec /\ seen \subseteq seen'
        /\ RunTier("rest") /\ dep'.status.tiers["rest"] = "ready"
             => "rest" \in seen'
        /\ dep'.status.tiers["infra"] = dep.status.tiers["infra"]
        /\ dep'.status.tiers["core"] = dep.status.tiers["core"]
    BY <1>0, <2>1, TierStep DEF Tiers
  <2>3. /\ dep.spec.tls # "nil" => "tls" \in seen
        /\ dep.spec.infra /\ dep.status.tiers["infra"] = "ready"
             => "infra" \in seen
        /\ InfraReady(dep.spec, dep.status) /\ CoreReady(dep.status)
             => "core" \in seen
    BY <2>1 DEF IInv, SeenInv, TierStages
  <2>4. /\ InfraReady(dep.spec, dep.status)' = InfraReady(dep.spec, dep.status)
        /\ CoreReady(dep.status)' = CoreReady(dep.status)
    BY <2>2 DEF InfraReady, CoreReady
  <2>5. dep'.spec.rest = "enabled" /\ CoreReady(dep.status)'
          /\ dep'.status.tiers["rest"] = "ready" => "rest" \in seen'
    BY <2>1, <2>2, <2>4
  <2>6. SeenInv'
    BY <2>1, <2>2, <2>3, <2>4, <2>5 DEF SeenInv, TLSStages
  <2>7. QED
    BY <2>2, <2>6 DEF IInv
<1>4. QED
  BY <1>1, <1>2, <1>3

\* Computing the overall phase keeps it: Ready means all tiers are.
LEMMA SetReadyIInv ==
    ASSUME TypeOK, IInv, SetReady PROVE IInv'
<1>1. UNCHANGED <<api, cache, watch, specAt, basis>> /\ pc = "refetch"
  BY DEF SetReady
<1>2. ChainInv' /\ ReadyIsEarned'
  BY <1>1, NoWrite
<1>3. CASE DropPass
  BY <1>2, <1>3, PassDropped DEF IInv
<1>4. CASE /\ pc' = "write" /\ seen' = seen
           /\ dep' = [dep EXCEPT !.status =
                         SetReadyCondition(dep.spec, dep.status)]
  <2> DEFINE x == SetReadyCondition(dep.spec, dep.status)
  <2>1. dep \in Object /\ dep.spec \in DeploymentSpec /\ dep.status \in Status
    BY SpecsAssumption DEF TypeOK, Object
  <2>2. /\ x \in Status /\ x.og = dep.status.og /\ x.tiers = dep.status.tiers
        /\ x.phase = "Ready" => AllTiersReady(dep.spec, dep.status)
    BY <2>1, SetReadyConditionLemma
  <2>3. dep' = [dep EXCEPT !.status = x]
    BY <1>4
  <2> HIDE DEF x
  <2>4. /\ dep'.exists = dep.exists /\ dep'.uid = dep.uid
        /\ dep'.gen = dep.gen /\ dep'.deleting = dep.deleting
        /\ dep'.fin = dep.fin /\ dep'.spec = dep.spec /\ dep'.status = x
    BY <2>1, <2>2, <2>3, WithStatus
  <2>5. dep.exists /\ CopyOf(dep, api, specAt) /\ dep.fin /\ ~dep.deleting
        /\ dep.status.og = dep.gen
    BY <1>1 DEF IInv, PassInv, TierStages
  <2>6. CopyOf(dep', api', specAt')
    BY <1>1, <2>4, <2>5 DEF CopyOf
  <2>7. PassInv'
    BY <1>4, <2>2, <2>4, <2>5, <2>6 DEF PassInv, TierStages, TLSStages
  <2>8. /\ InfraReady(dep.spec, dep.status)' = InfraReady(dep.spec, dep.status)
        /\ CoreReady(dep.status)' = CoreReady(dep.status)
        /\ RestReady(dep.spec, dep.status)' = RestReady(dep.spec, dep.status)
    BY <2>2, <2>4 DEF InfraReady, CoreReady, RestReady
  <2>9. AllTiersReady(dep.spec, dep.status)
          => AllTiersReady(dep.spec, dep.status)'
    BY <2>8 DEF AllTiersReady
  <2>10. /\ dep.spec.tls # "nil" => "tls" \in seen
         /\ dep.spec.infra /\ dep.status.tiers["infra"] = "ready"
              => "infra" \in seen
         /\ InfraReady(dep.spec, dep.status) /\ CoreReady(dep.status)
              => "core" \in seen
         /\ dep.spec.rest = "enabled" /\ CoreReady(dep.status)
              /\ dep.status.tiers["rest"] = "ready" => "rest" \in seen
    BY <1>1 DEF IInv, SeenInv, TierStages
  <2>11. SeenInv'
    BY <1>4, <2>2, <2>4, <2>8, <2>9, <2>10 DEF SeenInv, TLSStages
  <2>12. QED
    BY <1>2, <2>7, <2>11 DEF IInv
<1>5. QED
  BY <1>3, <1>4 DEF SetReady, Refetch, EndPass

\* The strengthened invariant holds in every reachable state.
THEOREM Invariance == Spec => []IInv
<1>1. Init => IInv
  BY InitIInv
<1>2. TypeOK /\ TypeOK' /\ IInv /\ [Next]_vars => IInv'
  <2> SUFFICES ASSUME TypeOK, TypeOK', IInv, [Next]_vars PROVE IInv'
    OBVIOUS
  <2>1. CASE UNCHANGED vars
    BY <2>1 DEF vars, IInv, ChainInv, PassInv, SeenInv, ReadyIsEarned
  <2>2. CASE Reconcile
    BY <2>2, FetchIInv, DeleteIInv, FirstWritesIInv, CheckTLSIInv,
       TLSRefetchIInv, TLSWriteIInv, TiersIInv, SetReadyIInv, UpdateStatusIInv
       DEF Reconcile
  <2>3. QED
    BY <2>1, <2>2, UserIInv, ClusterIInv, CrashIInv DEF Next
<1>3. QED
  BY <1>1, <1>2, TypeCorrect, PTL DEF Spec

(***************************************************************************)
(* A stored phase Ready is always the verdict of one pass that found every *)
(* tier and backend the observed spec asks for (SetReadyCondition and the  *)
(* gates between the tiers in Reconcile), for every set of specs and every *)
(* interleaving of users, cache, failures and restarts.                    *)
(***************************************************************************)
THEOREM ReadyEarned == Spec => []ReadyIsEarned
<1>1. IInv => ReadyIsEarned
  BY DEF IInv
<1>2. QED
  BY <1>1, Invariance, PTL

(***************************************************************************)
(* A pass that runs the tiers or writes its status always works for an     *)
(* object that is still there under its finalizer (the finalizer and       *)
(* deletion steps of Reconcile, with the API server's version check).      *)
(***************************************************************************)
THEOREM PassOwnership == Spec => []PassOwnsObject
BY PassOwns, TypeCorrect, Invariance, PTL

-----------------------------------------------------------------------------
(***************************************************************************)
(* The observed generation.  What the chain adds to IInv here is its       *)
(* order: copies of one object are in the order of their generations, the  *)
(* pass's copy before the cache's before those on their way, and none is   *)
(* older than the generation the stored status has observed.               *)
(***************************************************************************)
Behind(c, d) == c.exists /\ d.exists /\ c.uid = d.uid => c.gen <= d.gen

NotBefore(c, obj) ==
    c.exists /\ obj.exists /\ c.uid = obj.uid => obj.status.og <= c.gen

AgeInv ==
    /\ NotBefore(cache, api)
    /\ \A i \in 1 .. Len(watch) :
          NotBefore(watch[i], api) /\ Behind(cache, watch[i])
    /\ \A i, j \in 1 .. Len(watch) : i <= j => Behind(watch[i], watch[j])
    /\ pc # "idle" => /\ NotBefore(dep, api) /\ Behind(dep, cache)
                      /\ \A i \in 1 .. Len(watch) : Behind(dep, watch[i])

\* The pass ends or keeps the copy it has, but for its status.
SamePass ==
    \/ pc' = "idle"
    \/ /\ pc # "idle" /\ dep'.exists = dep.exists
       /\ dep'.uid = dep.uid /\ dep'.gen = dep.gen

\* What a write makes of the object: it goes, it is a new one, it keeps what
\* was observed, or the pass that ends here says what it has observed.
Goes(obj) == ~obj.exists
IsNew(obj) == /\ ~api.exists /\ obj.uid = api.uid + 1
              /\ obj.status.og <= obj.gen
KeepsObserved(obj) ==
    /\ api.exists /\ obj.uid = api.uid /\ obj.gen >= api.gen
    /\ obj.status.og = api.status.og
Observes(obj) ==
    /\ api.exists /\ obj.uid = api.uid /\ obj.gen = api.gen
    /\ pc # "idle" /\ pc' = "idle" /\ dep.uid = api.uid
    /\ obj.status.og = dep.gen

OrderedWrite ==
    \E obj \in Object :
        /\ Commit(obj) /\ cache' = cache /\ SamePass
        /\ Goes(obj) \/ IsNew(obj) \/ KeepsObserved(obj) \/ Observes(obj)

\* A step without write, delivery, fetch or restart.
NoNews == UNCHANGED <<api, cache, watch>> /\ SamePass

TakesCopy == UNCHANGED <<api, cache, watch>> /\ dep' = cache

Delivers ==
    /\ watch # <<>> /\ cache' = Head(watch) /\ watch' = Tail(watch)
    /\ api' = api /\ SamePass

Restarts == api' = api /\ cache' = api /\ watch' = <<>> /\ pc' = "idle"

\* Every copy of the object is of a generation the object has had.
LEMMA CopyGenerations ==
    ASSUME TypeOK, IInv, api.exists, NEW c \in Object,
           CopyOf(c, api, specAt), c.exists, c.uid = api.uid
    PROVE  c.gen <= api.gen
BY DEF IInv, ChainInv, HeadOf, CopyOf, TypeOK, Object

\* The stored status observes a generation the object has had.
LEMMA ObservedExists ==
    ASSUME TypeOK, IInv, AgeInv, api.exists
    PROVE  api.status.og <= api.gen
<1>1. NotBefore(api, api)
  <2>1. CASE watch = <<>>
    BY <2>1 DEF IInv, ChainInv, AgeInv
  <2>2. CASE watch # <<>>
    <3>1. watch[Len(watch)] = api
      BY <2>2 DEF IInv, ChainInv
    <3>2. Len(watch) \in 1 .. Len(watch)
      BY <2>2, EmptySeq, LenProperties DEF TypeOK
    <3>3. QED
      BY <3>1, <3>2 DEF AgeInv
  <2>3. QED
    BY <2>1, <2>2
<1>2. QED
  BY <1>1 DEF NotBefore

\* The order survives a write.
LEMMA WriteKeepsOrder ==
    ASSUME TypeOK, IInv, AgeInv, OrderedWrite PROVE AgeInv'
<1>1. PICK obj \in Object :
        /\ Commit(obj) /\ cache' = cache /\ SamePass
        /\ Goes(obj) \/ IsNew(obj) \/ KeepsObserved(obj) \/ Observes(obj)
  BY DEF OrderedWrite
<1>2. /\ watch \in Seq(Object) /\ watch' = Append(watch, obj) /\ api' = obj
  BY <1>1 DEF TypeOK, Commit
<1>3. /\ Len(watch') = Len(watch) + 1 /\ Len(watch) \in Nat
      /\ watch'[Len(watch) + 1] = obj
      /\ \A i \in 1 .. Len(watch) : watch'[i] = watch[i]
      /\ \A i \in 1 .. Len(watch') : i # Len(watch) + 1 => i \in 1 .. Len(watch)
  BY <1>2, AppendLemma
<1>4. /\ api \in Object /\ cache \in Object /\ dep \in Object
      /\ \A i \in 1 .. Len(watch) : watch[i] \in Object
  BY <1>2 DEF TypeOK
\* Every copy is behind what is written, and no older than what it observes.
<1>5. ASSUME NEW c \in Object, CopyOf(c, api, specAt)
      PROVE  Behind(c, obj)
  <2>1. CASE Goes(obj)
    BY <2>1 DEF Goes, Behind
  <2>2. CASE IsNew(obj)
    BY <1>4, <1>5, <2>2 DEF IsNew, CopyOf, Behind, Object
  <2>3. CASE KeepsObserved(obj) \/ Observes(obj)
    <3> SUFFICES ASSUME c.exists, c.uid = obj.uid PROVE c.gen <= obj.gen
      BY DEF Behind
    <3>1. api.exists /\ obj.uid = api.uid /\ obj.gen >= api.gen
      BY <1>4, <2>3 DEF KeepsObserved, Observes, Object
    <3>2. c.gen <= api.gen
      BY <1>5, <3>1, CopyGenerations
    <3>3. QED
      BY <1>4, <3>1, <3>2 DEF Object
  <2>4. QED
    BY <1>1, <2>1, <2>2, <2>3
<1>6. ASSUME NEW c \in Object, CopyOf(c, api, specAt), NotBefore(c, api),
             pc # "idle" => Behind(dep, c)
      PROVE  NotBefore(c, obj)
  <2>1. CASE Goes(obj)
    BY <2>1 DEF Goes, NotBefore
  <2>2. CASE IsNew(obj)
    BY <1>4, <1>6, <2>2 DEF IsNew, CopyOf, NotBefore, Object
  <2>3. CASE KeepsObserved(obj)
    BY <1>6, <2>3 DEF KeepsObserved, NotBefore
  <2>4. CASE Observes(obj)
    <3>1. dep.exists
      BY <2>4 DEF Observes, IInv, PassInv
    <3>2. QED
      BY <1>6, <2>4, <3>1 DEF Observes, NotBefore, Behind
  <2>5. QED
    BY <1>1, <2>1, <2>2, <2>3, <2>4
\* What is written is no older than what it says it has observed itself.
<1>7. NotBefore(obj, obj)
  <2>1. CASE Goes(obj)
    BY <2>1 DEF Goes, NotBefore
  <2>2. CASE IsNew(obj)
    BY <2>2 DEF IsNew, NotBefore
  <2>3. CASE KeepsObserved(obj)
    <3>1. api.status.og <= api.gen
      BY <2>3, ObservedExists DEF KeepsObserved
    <3>2. api.status.og \in Nat /\ api.gen \in Nat /\ obj.gen \in Nat
      BY <1>4 DEF Object, Status
    <3>3. QED
      BY <2>3, <3>1, <3>2 DEF KeepsObserved, NotBefore
  <2>4. CASE Observes(obj)
    <3>1. dep.exists /\ CopyOf(dep, api, specAt)
      BY <2>4 DEF Observes, IInv, PassInv
    <3>2. dep.gen <= api.gen
      BY <1>4, <2>4, <3>1, CopyGenerations DEF Observes
    <3>3. QED
      BY <2>4, <3>2 DEF Observes, NotBefore
  <2>5. QED
    BY <1>1, <2>1, <2>2, <2>3, <2>4
<1>8. /\ CopyOf(cache, api, specAt)
      /\ \A i \in 1 .. Len(watch) : CopyOf(watch[i], api, specAt)
      /\ pc # "idle" => CopyOf(dep, api, specAt)
  BY DEF IInv, ChainInv, PassInv
<1>9. NotBefore(cache, obj) /\ Behind(cache, obj)
  BY <1>4, <1>5, <1>6, <1>8 DEF AgeInv
<1>10. ASSUME NEW i \in 1 .. Len(watch')
       PROVE  NotBefore(watch'[i], obj) /\ Behind(cache, watch'[i])
  <2>1. CASE i = Len(watch) + 1
    BY <1>3, <1>7, <1>9, <2>1
  <2>2. CASE i # Len(watch) + 1
    <3>1. i \in 1 .. Len(watch) /\ watch'[i] = watch[i]
      BY <1>3, <2>2
    <3>2. /\ NotBefore(watch[i], api) /\ Behind(cache, watch[i])
          /\ pc # "idle" => Behind(dep, watch[i])
      BY <3>1 DEF AgeInv
    <3>3. QED
      BY <1>4, <1>6, <1>8, <3>1, <3>2
  <2>3. QED
    BY <2>1, <2>2
<1>11. ASSUME NEW i \in 1 .. Len(watch'), NEW j \in 1 .. Len(watch'), i <= j
       PROVE  Behind(watch'[i], watch'[j])
  <2>1. CASE i = Len(watch) + 1
    <3>1. j = i
      BY <1>3, <1>11, <2>1
    <3>2. Behind(obj, obj)
      BY <1>1 DEF Behind, Object
    <3>3. QED
      BY <1>3, <2>1, <3>1, <3>2
  <2>2. CASE i # Len(watch) + 1 /\ j = Len(watch) + 1
    BY <1>3, <1>4, <1>5, <1>8, <2>2
  <2>3. CASE i # Len(watch) + 1 /\ j # Len(watch) + 1
    <3>1. i \in 1 .. Len(watch) /\ j \in 1 .. Len(watch)
      BY <1>3, <2>3
    <3>2. QED
      BY <1>3, <1>11, <3>1 DEF AgeInv
  <2>4. QED
    BY <2>1, <2>2, <2>3
<1>12. ASSUME pc' # "idle"
       PROVE  /\ NotBefore(dep', obj) /\ Behind(dep', cache)
              /\ \A i \in 1 .. Len(watch') : Behind(dep', watch'[i])
  <2>1. /\ pc # "idle" /\ dep'.exists = dep.exists
        /\ dep'.uid = dep.uid /\ dep'.gen = dep.gen
    BY <1>1, <1>12 DEF SamePass
  <2>2. NotBefore(dep, api) /\ Behind(dep, cache) /\ Behind(dep, dep)
    BY <1>4, <2>1 DEF AgeInv, Behind, Object
  <2>3. NotBefore(dep, obj) /\ Behind(dep, obj)
    BY <1>4, <1>5, <1>6, <1>8, <2>1, <2>2
  <2>4. ASSUME NEW i \in 1 .. Len(watch') PROVE Behind(dep, watch'[i])
    <3>1. CASE i = Len(watch) + 1
      BY <1>3, <2>3, <3>1
    <3>2. CASE i # Len(watch) + 1
      BY <1>3, <2>1, <3>2 DEF AgeInv
    <3>3. QED
      BY <3>1, <3>2
  <2>5. QED
    BY <2>1, <2>2, <2>3, <2>4 DEF NotBefore, Behind
<1>13. QED
  BY <1>1, <1>2, <1>9, <1>10, <1>11, <1>12 DEF AgeInv

\* It survives the delivery of an event to the cache.
LEMMA DeliveryKeepsOrder ==
    ASSUME TypeOK, AgeInv, Delivers PROVE AgeInv'
<1>1. /\ watch \in Seq(Object) /\ watch # <<>> /\ watch' = Tail(watch)
      /\ cache' = Head(watch) /\ api' = api /\ SamePass
  BY DEF TypeOK, Delivers
<1>2. /\ Len(watch) \in Nat /\ Len(watch) >= 1 /\ cache' = watch[1]
      /\ Len(watch') = Len(watch) - 1
      /\ \A i \in 1 .. Len(watch') : watch'[i] = watch[i + 1]
  BY <1>1, TailLemma
<1>3. 1 \in 1 .. Len(watch)
      /\ \A i \in 1 .. Len(watch') : i + 1 \in 1 .. Len(watch)
  BY <1>2
<1>4. NotBefore(cache', api)
  BY <1>2, <1>3 DEF AgeInv
<1>5. ASSUME NEW i \in 1 .. Len(watch')
      PROVE  NotBefore(watch'[i], api) /\ Behind(cache', watch'[i])
  <2>1. i + 1 \in 1 .. Len(watch) /\ 1 <= i + 1 /\ watch'[i] = watch[i + 1]
    BY <1>2, <1>3
  <2>2. QED
    BY <1>2, <1>3, <2>1 DEF AgeInv
<1>6. ASSUME NEW i \in 1 .. Len(watch'), NEW j \in 1 .. Len(watch'), i <= j
      PROVE  Behind(watch'[i], watch'[j])
  <2>1. /\ i + 1 \in 1 .. Len(watch) /\ j + 1 \in 1 .. Len(watch)
        /\ i + 1 <= j + 1
    BY <1>3, <1>6
  <2>2. QED
    BY <1>2, <2>1 DEF AgeInv
<1>7. ASSUME pc' # "idle"
      PROVE  /\ NotBefore(dep', api) /\ Behind(dep', cache')
             /\ \A i \in 1 .. Len(watch') : Behind(dep', watch'[i])
  <2>1. /\ pc # "idle" /\ dep'.exists = dep.exists
        /\ dep'.uid = dep.uid /\ dep'.gen = dep.gen
    BY <1>1, <1>7 DEF SamePass
  <2>2. /\ NotBefore(dep, api) /\ Behind(dep, cache')
        /\ \A i \in 1 .. Len(watch') : Behind(dep, watch'[i])
    BY <1>2, <1>3, <2>1 DEF AgeInv
  <2>3. QED
    BY <2>1, <2>2 DEF NotBefore, Behind
<1>8. QED
  BY <1>1, <1>4, <1>5, <1>6, <1>7 DEF AgeInv

\* It survives everything else: a pass takes the cache's copy, goes on or
\* ends, the operator starts again.
LEMMA RestKeepsOrder ==
    ASSUME TypeOK, IInv, AgeInv, NoNews \/ TakesCopy \/ Restarts
    PROVE  AgeInv'
<1>1. CASE NoNews
  <2>1. CASE pc' = "idle"
    BY <1>1, <2>1 DEF NoNews, AgeInv
  <2>2. CASE pc' # "idle"
    <3>1. /\ pc # "idle" /\ dep'.exists = dep.exists
          /\ dep'.uid = dep.uid /\ dep'.gen = dep.gen
      BY <1>1, <2>2 DEF NoNews, SamePass
    <3>2. /\ NotBefore(dep', api) /\ Behind(dep', cache)
          /\ \A i \in 1 .. Len(watch) : Behind(dep', watch[i])
      BY <3>1 DEF AgeInv, NotBefore, Behind
    <3>3. QED
      BY <1>1, <3>2 DEF NoNews, AgeInv
  <2>3. QED
    BY <2>1, <2>2
<1>2. CASE TakesCopy
  <2>1. Behind(cache, cache)
    BY DEF Behind, TypeOK, Object
  <2>2. QED
    BY <1>2, <2>1 DEF TakesCopy, AgeInv
<1>3. CASE Restarts
  <2>1. NotBefore(api, api)
    BY ObservedExists DEF NotBefore
  <2>2. Len(watch') = 0
    BY <1>3 DEF Restarts
  <2>3. QED
    BY <1>3, <2>1, <2>2 DEF Restarts, AgeInv
<1>4. QED
  BY <1>1, <1>2, <1>3
\* A user's step is a write that keeps what was observed, or concerns
\* another object.
LEMMA UsersAreOrdered ==
    ASSUME TypeOK, TypeOK', Create \/ UpdateSpec \/ Delete
    PROVE  OrderedWrite
<1>1. api \in Object /\ api' \in Object /\ cache' = cache /\ UNCHANGED <<pc, dep>>
  BY DEF TypeOK, Create, UpdateSpec, Delete
<1>2. Commit(api') /\ SamePass
  <2>1. Commit(api')
    BY DEF Create, UpdateSpec, Delete, Commit
  <2>2. QED
    BY <1>1, <2>1 DEF SamePass
<1>3. CASE Create
  <2>1. /\ ~api.exists /\ api'.uid = api.uid + 1 /\ api'.gen = 1
        /\ api'.status = EmptyStatus
    BY <1>3 DEF Create, Commit
  <2>2. EmptyStatus.og = 0
    BY DEF EmptyStatus
  <2>3. IsNew(api')
    BY <2>1, <2>2 DEF IsNew
  <2>4. QED
    BY <1>1, <1>2, <2>3 DEF OrderedWrite
<1>4. CASE UpdateSpec
  <2>1. api.exists /\ \E s \in Specs : api' = [api EXCEPT !.spec = s, !.gen = @ + 1]
    BY <1>4 DEF UpdateSpec, Commit
  <2>2. KeepsObserved(api')
    BY <1>1, <2>1 DEF KeepsObserved, Object
  <2>3. QED
    BY <1>1, <1>2, <2>2 DEF OrderedWrite
<1>5. CASE Delete
  <2>1. CASE api' = Gone(api.uid)
    <3>1. Goes(api')
      BY <2>1 DEF Goes, Gone, NoObject
    <3>2. QED
      BY <1>1, <1>2, <3>1 DEF OrderedWrite
  <2>2. CASE api.exists /\ api' = [api EXCEPT !.deleting = TRUE, !.gen = @ + 1]
    <3>1. KeepsObserved(api')
      BY <1>1, <2>2 DEF KeepsObserved, Object
    <3>2. QED
      BY <1>1, <1>2, <3>1 DEF OrderedWrite
  <2>3. QED
    BY <1>5, <2>1, <2>2 DEF Delete, Commit
<1>6. QED
  BY <1>3, <1>4, <1>5

\* The status write that ends a pass says what the pass has observed.
LEMMA StatusWriteIsOrdered ==
    ASSUME TypeOK, TypeOK', IInv, pc \in TierStages \cup TLSStages, DropPass,
           NEW b \in BOOLEAN, PutStatus(b), cache' = cache
    PROVE  NoNews \/ OrderedWrite
<1>1. CASE ~b
  BY <1>1 DEF PutStatus, NoNews, SamePass, DropPass
<1>2. CASE b
  <2>1. api.exists /\ api.uid = dep.uid
    BY PassOwns DEF PassOwnsObject
  <2>2. dep.status.og = dep.gen /\ dep.status \in Status /\ api \in Object
    BY DEF IInv, PassInv, TypeOK, Object
  <2> DEFINE obj == [api EXCEPT !.status = dep.status]
  <2>3. Commit(obj)
    BY <1>2 DEF PutStatus
  <2>4. /\ obj \in Object /\ obj.status = dep.status
        /\ obj.uid = api.uid /\ obj.gen = api.gen
    BY <2>2, WithStatus
  <2> HIDE DEF obj
  <2>5. pc # "idle" /\ pc' = "idle"
    BY DEF TierStages, TLSStages, DropPass
  <2>6. Observes(obj)
    BY <2>1, <2>2, <2>4, <2>5 DEF Observes
  <2>7. QED
    BY <2>3, <2>4, <2>5, <2>6 DEF OrderedWrite, SamePass
<1>3. QED
  BY <1>1, <1>2

\* A write before the pass notes the generation is over the very version it
\* read, and keeps what that observed, or lets the object go.
LEMMA FirstWritesAreOrdered ==
    ASSUME TypeOK, TypeOK', IInv, reconcileDelete \/ AddFinalizer \/ InitStatus
    PROVE  NoNews \/ OrderedWrite
<1>1. /\ api \in Object /\ api' \in Object /\ cache' = cache
      /\ pc = "fetched" /\ pc' = "idle"
  BY DEF TypeOK, reconcileDelete, AddFinalizer, InitStatus, EndPass, DropPass
<1>2. SamePass
  BY <1>1 DEF SamePass
<1>3. CASE UNCHANGED <<api, watch>>
  BY <1>1, <1>2, <1>3 DEF NoNews
<1>4. cur => api = dep /\ api.exists
  BY <1>1 DEF IInv, PassInv
<1>5. CASE Commit(Gone(api.uid))
  <2>1. Commit(api') /\ Goes(api')
    BY <1>5 DEF Commit, Goes, Gone, NoObject
  <2>2. QED
    BY <1>1, <1>2, <2>1 DEF OrderedWrite
<1>6. CASE cur /\ Commit([api EXCEPT !.fin = TRUE])
  <2>1. Commit(api') /\ api' = [api EXCEPT !.fin = TRUE]
    BY <1>6 DEF Commit
  <2>2. KeepsObserved(api')
    BY <1>1, <1>4, <1>6, <2>1 DEF KeepsObserved, Object
  <2>3. QED
    BY <1>1, <1>2, <2>1, <2>2 DEF OrderedWrite
<1>7. CASE cur /\ Commit([api EXCEPT !.status =
                             InitializeConditions(dep.spec, dep.status)])
  <2> DEFINE st == InitializeConditions(dep.spec, dep.status)
  <2>1. dep.spec \in DeploymentSpec /\ dep.status \in Status
    BY SpecsAssumption DEF TypeOK, Object
  <2>2. st \in Status
    BY <2>1, InitializeConditionsLemma
  <2>3. st.og = dep.status.og
    BY <2>1 DEF InitializeConditions, Status
  <2> HIDE DEF st
  <2>4. Commit(api') /\ api' = [api EXCEPT !.status = st]
    BY <1>7 DEF Commit, st
  <2>5. api'.status = st /\ api'.uid = api.uid /\ api'.gen = api.gen
    BY <1>1, <2>2, <2>4, WithStatus
  <2>6. KeepsObserved(api')
    BY <1>1, <1>4, <1>7, <2>3, <2>5 DEF KeepsObserved, Object
  <2>7. QED
    BY <1>1, <1>2, <2>4, <2>6 DEF OrderedWrite
<1>8. ASSUME NEW s \in Specs, cur,
             Commit([api EXCEPT !.fin = TRUE, !.spec = s, !.gen = @ + 1])
      PROVE  NoNews \/ OrderedWrite
  <2>1. Commit(api') /\ api' = [api EXCEPT !.fin = TRUE, !.spec = s, !.gen = @ + 1]
    BY <1>8 DEF Commit
  <2>2. KeepsObserved(api')
    BY <1>1, <1>4, <1>8, <2>1 DEF KeepsObserved, Object
  <2>3. QED
    BY <1>1, <1>2, <2>1, <2>2 DEF OrderedWrite
<1>9. CASE AddFinalizer
  <2>1. UNCHANGED apiVars \/ (cur /\ PutFinalizer)
    BY <1>9 DEF AddFinalizer, WriteEnds
  <2>2. QED
    BY <1>3, <1>6, <1>8, <2>1, FinalizerPut DEF apiVars
<1>10. QED
  BY <1>3, <1>5, <1>7, <1>9
     DEF reconcileDelete, InitStatus, WriteEnds

\* The other steps of a pass leave the API server and the cache alone.
LEMMA PassIsOrdered ==
    ASSUME TypeOK, TypeOK', IInv, Reconcile
    PROVE  NoNews \/ TakesCopy \/ OrderedWrite
<1>0. dep \in Object
  BY DEF TypeOK
<1>1. CASE Fetch
  BY <1>1 DEF Fetch, EndPass, DropPass, NoNews, TakesCopy, SamePass
<1>2. CASE CheckTLS
  <2>1. /\ UNCHANGED <<api, cache, watch>> /\ pc = "fetched"
        /\ \E st : dep' = [dep EXCEPT !.status = st]
    BY <1>2 DEF CheckTLS
  <2>2. QED
    BY <1>0, <2>1 DEF NoNews, SamePass, Object
<1>3. CASE TLSRefetch
  BY <1>3 DEF TLSRefetch, Refetch, EndPass, DropPass, NoNews, SamePass
<1>4. CASE reconcileInfrastructure \/ reconcileCore \/ reconcileRest
  <2>1. UNCHANGED <<api, cache, watch>> /\ pc # "idle"
    BY <1>4 DEF reconcileInfrastructure, reconcileCore, reconcileRest,
                OnlyThePass
  <2>2. dep' = dep \/ \E st : dep' = [dep EXCEPT !.status = st]
    BY <1>4 DEF reconcileInfrastructure, reconcileCore, reconcileRest,
                RunTier, SkipTier
  <2>3. QED
    BY <1>0, <2>1, <2>2 DEF NoNews, SamePass, Object
<1>5. CASE SetReady
  <2>1. UNCHANGED <<api, cache, watch>> /\ pc # "idle"
    BY <1>5 DEF SetReady
  <2>2. pc' = "idle" \/ \E st : dep' = [dep EXCEPT !.status = st]
    BY <1>5 DEF SetReady, EndPass, DropPass
  <2>3. QED
    BY <1>0, <2>1, <2>2 DEF NoNews, SamePass, Object
<1>6. CASE TLSWrite
  <2>1. DropPass /\ cache' = cache /\ pc \in TLSStages
    BY <1>6 DEF TLSWrite, EndPass, TLSStages
  <2>2. CASE UNCHANGED <<api, watch>>
    BY <2>1, <2>2 DEF NoNews, SamePass, DropPass
  <2>3. CASE PutStatus(api.status # dep.status)
    BY <2>1, <2>3, StatusWriteIsOrdered
  <2>4. QED
    BY <1>6, <2>2, <2>3 DEF TLSWrite
<1>7. CASE UpdateStatus
  <2>1. DropPass /\ cache' = cache /\ pc \in TierStages
    BY <1>7 DEF UpdateStatus, EndPass, TierStages
  <2>2. CASE UNCHANGED <<api, watch>>
    BY <2>1, <2>2 DEF NoNews, SamePass, DropPass
  <2>3. CASE \E sameSecond \in BOOLEAN :
                PutStatus(api.status # dep.status \/ ~sameSecond)
    BY <2>1, <2>3, StatusWriteIsOrdered
  <2>4. QED
    BY <1>7, <2>2, <2>3 DEF UpdateStatus
<1>8. QED
  BY <1>1, <1>2, <1>3, <1>4, <1>5, <1>6, <1>7, FirstWritesAreOrdered
     DEF Reconcile

\* Every step is of one of the kinds above.
LEMMA StepKinds ==
    ASSUME TypeOK, TypeOK', IInv, [Next]_vars
    PROVE  NoNews \/ TakesCopy \/ Delivers \/ Restarts \/ OrderedWrite
<1>1. CASE UNCHANGED vars
  BY <1>1 DEF vars, NoNews, SamePass
<1>2. CASE Sync
  BY <1>2 DEF Sync, Delivers, passVars, SamePass
<1>3. CASE TimerFires \/ \E p \in Parts : HealthChanges(p)
  BY <1>3 DEF TimerFires, HealthChanges, passVars, NoNews, SamePass
<1>4. CASE Crash
  BY <1>4 DEF Crash, DropPass, Restarts
<1>5. QED
  BY <1>1, <1>2, <1>3, <1>4, UsersAreOrdered, PassIsOrdered DEF Next

\* No step takes the observed generation of a living object back: the only
\* write that changes it is that of a pass whose copy is not older.
LEMMA StepObserves ==
    ASSUME TypeOK, TypeOK', IInv, AgeInv, [Next]_vars,
           api.exists, api'.exists, api'.uid = api.uid
    PROVE  api'.status.og >= api.status.og
<1>1. api.status.og \in Nat /\ dep.gen \in Nat /\ api.uid \in Nat
  BY DEF TypeOK, Object, Status
<1>2. CASE api' = api
  BY <1>1, <1>2
<1>3. CASE OrderedWrite
  <2>1. PICK obj \in Object :
          /\ Commit(obj)
          /\ Goes(obj) \/ IsNew(obj) \/ KeepsObserved(obj) \/ Observes(obj)
    BY <1>3 DEF OrderedWrite
  <2>2. api' = obj
    BY <2>1 DEF Commit
  <2>3. CASE KeepsObserved(obj)
    BY <1>1, <2>2, <2>3 DEF KeepsObserved
  <2>4. CASE Observes(obj)
    <3>1. pc # "idle" /\ dep.uid = api.uid /\ obj.status.og = dep.gen
      BY <2>4 DEF Observes
    <3>2. dep.exists /\ NotBefore(dep, api)
      BY <3>1 DEF IInv, PassInv, AgeInv
    <3>3. QED
      BY <1>1, <2>2, <3>1, <3>2 DEF NotBefore
  <2>5. QED
    BY <1>1, <2>1, <2>2, <2>3, <2>4 DEF Goes, IsNew
<1>4. QED
  BY <1>2, <1>3, StepKinds DEF NoNews, TakesCopy, Delivers, Restarts

(***************************************************************************)
(* Status.ObservedGeneration never falls back on a living object, for any  *)
(* lag of the cache: the re-fetch before the status write lets a pass over *)
(* an old copy overwrite a later status, but never one that observed a     *)
(* later generation.  AgeInv is what makes it inductive: the cache never   *)
(* goes back, so no pass starts from before what an earlier one observed.  *)
(***************************************************************************)
THEOREM ObservedGrows == Spec => ObservedNeverFallsBack
<1>1. Init => AgeInv
  <2> SUFFICES ASSUME Init PROVE AgeInv
    OBVIOUS
  <2>1. /\ cache = NoObject /\ pc = "idle" /\ Len(watch) = 0
        /\ NoObject.exists = FALSE
    BY DEF Init, NoObject
  <2>2. QED
    BY <2>1 DEF AgeInv, NotBefore
<1>2. TypeOK /\ TypeOK' /\ IInv /\ AgeInv /\ [Next]_vars => AgeInv'
  BY StepKinds, WriteKeepsOrder, DeliveryKeepsOrder, RestKeepsOrder
<1>3. TypeOK /\ TypeOK' /\ IInv /\ AgeInv /\ [Next]_vars =>
        [api.exists /\ api'.exists /\ api'.uid = api.uid
           => api'.status.og >= api.status.og]_vars
  BY StepObserves
<1>4. QED
  BY <1>1, <1>2, <1>3, TypeCorrect, Invariance, PTL
     DEF Spec, ObservedNeverFallsBack
=============================================================================
