------------------------- MODULE OwnedObject_proofs -------------------------
(***************************************************************************)
(* createOrUpdate implements AtomicWrite, for every kind of resource and   *)
(* every bound.                                                            *)
(***************************************************************************)
EXTENDS OwnedObject, TLAPS

\* A call under way has not written yet, and what it is to write is there;
\* before a read it knows nothing.
Pending == /\ pc # "idle" => writes = 0 /\ built.here
           /\ pc \in {"get", "getAgain"} => ~fresh
           /\ ~obj.here => obj = Absent

IInv == TypeOK /\ Pending

\* The builders give a version of the resource.
LEMMA BuildType ==
    ASSUME TypeOK, want # Off
    PROVE  Build(want) \in Versions /\ Build(want).here
  BY BoundAssumption DEF TypeOK, Build, Versions

LEMMA AbsentType == Absent \in Versions /\ ~Absent.here
  BY DEF Absent, Versions

\* A write to the API server keeps the types.
LEMMA CommitType ==
    ASSUME TypeOK, NEW v \in Versions, Commit(v)
    PROVE  obj' \in Versions /\ watch' \in Seq(Versions) /\ cache' \in Versions
  BY DEF TypeOK, Commit

LEMMA FaultType ==
    ASSUME TypeOK, UseFault
    PROVE  faults' \in 0 .. MaxFaults
  BY BoundAssumption DEF TypeOK, UseFault

\* What any answered write leaves behind.
LEMMA AppliedType ==
    ASSUME IInv, pc # "idle", Applied
    PROVE  /\ obj' \in Versions /\ watch' \in Seq(Versions) /\ cache' \in Versions
           /\ pc' = "idle" /\ writes' = 1 /\ answer' \in {"ok", "error"}
           /\ faults' \in 0 .. MaxFaults /\ obj' = built
  <1>1. obj' \in Versions /\ watch' \in Seq(Versions) /\ cache' \in Versions
        /\ obj' = built
    <2>1. CASE obj = built
      BY <2>1 DEF Applied, IInv, TypeOK
    <2>2. CASE obj # built
      BY <2>2, CommitType DEF Applied, IInv, TypeOK, Commit
    <2> QED BY <2>1, <2>2
  <1>2. writes' = 1
    BY DEF Applied, IInv, Pending
  <1>3. pc' = "idle" /\ answer' \in {"ok", "error"} /\ faults' \in 0 .. MaxFaults
    BY FaultType DEF Applied, Return, IInv, TypeOK
  <1> QED BY <1>1, <1>2, <1>3

\* What a call that fails without a write leaves behind.
LEMMA FailsType ==
    ASSUME IInv, pc # "idle", Fails \/ Refused
    PROVE  /\ UNCHANGED <<obj, watch, cache, writes>>
           /\ pc' = "idle" /\ answer' = "error" /\ faults' \in 0 .. MaxFaults
  BY FaultType DEF Fails, Refused, Return, IInv, TypeOK

LEMMA InitInv == ASSUME Init PROVE IInv
  <1>1. uid \in 1 .. MaxUid /\ faults \in 0 .. MaxFaults /\ writes \in {0, 1}
    BY BoundAssumption DEF Init
  <1>2. alive \in BOOLEAN /\ marked \in BOOLEAN /\ fresh \in BOOLEAN
    BY Zenon DEF Init
  <1>3. obj \in Versions /\ cache \in Versions /\ built \in Versions
        /\ obj = Absent
    BY AbsentType DEF Init
  <1>4. watch \in Seq(Versions)
    BY DEF Init
  <1>5. /\ kind \in Kinds /\ want \in Specs \cup {Off}
        /\ pc = "idle" /\ answer = "none"
    BY DEF Init
  <1> QED BY <1>1, <1>2, <1>3, <1>4, <1>5 DEF IInv, TypeOK, Pending

-----------------------------------------------------------------------------
LEMMA CallInv == ASSUME IInv, Call PROVE IInv'
  BY BuildType DEF IInv, TypeOK, Pending, Call

LEMMA GetInv == ASSUME IInv, Get PROVE IInv'
  <1>1. CASE Fails /\ UNCHANGED fresh
    BY <1>1, FailsType DEF IInv, TypeOK, Pending, Get
  <1>2. CASE /\ pc' = IF Read.here THEN "update" ELSE "create"
             /\ fresh' = ReadsNow
             /\ UNCHANGED <<obj, watch, cache, writes, answer, faults>>
    BY <1>2 DEF IInv, TypeOK, Pending, Get, ReadsNow
  <1> QED BY <1>1, <1>2 DEF Get

LEMMA CreateInv == ASSUME IInv, Create PROVE IInv'
  <1>1. CASE Applied
    BY <1>1, AppliedType DEF IInv, TypeOK, Pending, Create
  <1>2. CASE Fails \/ Refused
    BY <1>2, FailsType DEF IInv, TypeOK, Pending, Create
  <1> QED BY <1>1, <1>2 DEF Create

LEMMA UpdateInv == ASSUME IInv, Update PROVE IInv'
  <1>1. CASE Applied
    BY <1>1, AppliedType DEF IInv, TypeOK, Pending, Update
  <1>2. CASE Fails \/ Refused
    BY <1>2, FailsType DEF IInv, TypeOK, Pending, Update
  <1>3. CASE /\ ~fresh /\ pc' = "getAgain"
             /\ UNCHANGED <<obj, watch, cache, writes, answer, faults>>
    BY <1>3 DEF IInv, TypeOK, Pending, Update
  <1> QED BY <1>1, <1>2, <1>3 DEF Update

LEMMA GetAgainInv == ASSUME IInv, GetAgain PROVE IInv'
  <1>1. CASE (Fails \/ Refused) /\ UNCHANGED fresh
    BY <1>1, FailsType DEF IInv, TypeOK, Pending, GetAgain
  <1>2. CASE /\ pc' = "updateAgain" /\ fresh' = ReadsNow
             /\ UNCHANGED <<obj, watch, cache, writes, answer, faults>>
    BY <1>2 DEF IInv, TypeOK, Pending, GetAgain, ReadsNow
  <1> QED BY <1>1, <1>2 DEF GetAgain

LEMMA UpdateAgainInv == ASSUME IInv, UpdateAgain PROVE IInv'
  <1>1. CASE Applied
    BY <1>1, AppliedType DEF IInv, TypeOK, Pending, UpdateAgain
  <1>2. CASE Fails \/ Refused
    BY <1>2, FailsType DEF IInv, TypeOK, Pending, UpdateAgain
  <1> QED BY <1>1, <1>2 DEF UpdateAgain

LEMMA OwnerInv == ASSUME IInv, Finalize \/ ChangeSpec \/ Delete \/ Recreate
                  PROVE  IInv'
  <1>1. UNCHANGED <<kind, obj, watch, cache, fresh, faults, callVars>>
    BY DEF Finalize, ChangeSpec, Delete, Recreate
  <1>2. uid' \in 1 .. MaxUid
    BY BoundAssumption DEF IInv, TypeOK, Finalize, ChangeSpec, Delete, Recreate
  <1>3. alive' \in BOOLEAN /\ marked' \in BOOLEAN
    BY ZenonT(30) DEF IInv, TypeOK, Finalize, ChangeSpec, Delete, Recreate
  <1>4. want' \in Specs \cup {Off}
    BY DEF IInv, TypeOK, Finalize, ChangeSpec, Delete, Recreate
  <1> QED BY <1>1, <1>2, <1>3, <1>4 DEF IInv, TypeOK, Pending, callVars

LEMMA CrashInv == ASSUME IInv, Crash PROVE IInv'
  BY FaultType DEF IInv, TypeOK, Pending, Crash, Return

LEMMA EditInv == ASSUME IInv, Edit PROVE IInv'
  <1>1. PICK v \in {[obj EXCEPT !.spec = s] : s \in Specs} \cup {Absent} :
            Commit(v)
    BY DEF Edit
  <1>2. v \in Versions /\ (~v.here => v = Absent)
    BY AbsentType DEF Edit, IInv, TypeOK, Versions
  <1>3. obj' = v /\ fresh' = FALSE
    BY <1>1 DEF Edit, Commit
  <1> QED
    BY <1>1, <1>2, <1>3, CommitType, FaultType
       DEF IInv, TypeOK, Pending, Edit, depVars, callVars

LEMMA CollectInv == ASSUME IInv, Collect PROVE IInv'
  <1>1. obj' = Absent /\ fresh' = FALSE
    BY DEF Collect, Commit
  <1> QED
    BY <1>1, AbsentType, CommitType
       DEF IInv, TypeOK, Pending, Collect, depVars, callVars

LEMMA SyncInv == ASSUME IInv, Sync PROVE IInv'
  BY DEF IInv, TypeOK, Pending, Sync, depVars, callVars

LEMMA NextInv == ASSUME IInv, [Next]_vars PROVE IInv'
  <1>1. CASE UNCHANGED vars
    BY <1>1 DEF vars, IInv, TypeOK, Pending
  <1> QED
    BY <1>1, CallInv, GetInv, CreateInv, UpdateInv, GetAgainInv, UpdateAgainInv,
       OwnerInv, CrashInv, EditInv, CollectInv, SyncInv DEF Next, Operate

\* Type correctness, with at most one write per call: of every version of
\* createOrUpdate, whatever the bounds.
THEOREM TypeCorrect == Spec => []TypeOK
  <1>1. IInv => TypeOK  BY DEF IInv
  <1> QED BY InitInv, NextInv, <1>1, PTL DEF Spec

-----------------------------------------------------------------------------
(***************************************************************************)
(* The refinement.  Reads are Look or nothing; a create, or an update with *)
(* the latest version, is Effect; every other way out is GiveUp; what the  *)
(* collector and others do is Others, and the rest is a stutter.           *)
(***************************************************************************)
LEMMA InitRefines == ASSUME Init PROVE Atomic!AInit
  BY DEF Init, Atomic!AInit

\* An applied write is one step of the abstract call.
LEMMA AppliedRefines ==
    ASSUME IInv, pc # "idle", Applied, UNCHANGED <<built, fresh>>,
           fresh \/ obj = Absent
    PROVE  Atomic!Effect
  BY AppliedType DEF Atomic!Effect, IInv, Pending

LEMMA FailsRefines ==
    ASSUME IInv, pc # "idle", Fails \/ Refused, UNCHANGED <<built, fresh>>
    PROVE  Atomic!GiveUp
  BY FailsType DEF Atomic!GiveUp

\* A read that shows the latest version is a look, an older one is nothing.
LEMMA ReadRefines ==
    ASSUME IInv, pc \in {"get", "getAgain"}, pc' # "idle",
           fresh' = ReadsNow, UNCHANGED <<obj, built, answer, writes>>
    PROVE  [Atomic!ANext]_(Atomic!avars)
  <1>1. CASE ReadsNow
    <2>1. fresh' = TRUE
      BY <1>1, Zenon
    <2>2. Atomic!Look
      BY <2>1 DEF Atomic!Look
    <2> QED BY <2>2 DEF Atomic!ANext
  <1>2. CASE ~ReadsNow
    <2>1. fresh \in BOOLEAN /\ ~fresh
      BY DEF IInv, TypeOK, Pending
    <2>2. fresh' = FALSE /\ fresh = FALSE
      <3>1. fresh = FALSE  BY <2>1
      <3>2. fresh' = FALSE  BY <1>2 DEF ReadsNow
      <3> QED BY <3>1, <3>2
    <2>3. UNCHANGED Atomic!avars
      BY <2>2 DEF Atomic!avars
    <2> QED BY <2>3
  <1> QED BY <1>1, <1>2

LEMMA CallRefines == ASSUME IInv, Call PROVE Atomic!Ask
  <1>1. built' \in Versions \ {Absent}
    BY BuildType, AbsentType DEF IInv, Call
  <1> QED BY <1>1 DEF Call, Atomic!Ask

LEMMA GetRefines == ASSUME IInv, Get PROVE [Atomic!ANext]_(Atomic!avars)
  <1>1. CASE Fails /\ UNCHANGED fresh
    BY <1>1, FailsRefines DEF Get, Atomic!ANext
  <1>2. CASE /\ pc' = IF Read.here THEN "update" ELSE "create"
             /\ fresh' = ReadsNow
             /\ UNCHANGED <<obj, watch, cache, writes, answer, faults>>
    <2>1. pc' # "idle"  BY <1>2
    <2> QED BY <1>2, <2>1, ReadRefines DEF Get
  <1> QED BY <1>1, <1>2 DEF Get

LEMMA GetAgainRefines ==
    ASSUME IInv, GetAgain PROVE [Atomic!ANext]_(Atomic!avars)
  <1>1. CASE (Fails \/ Refused) /\ UNCHANGED fresh
    BY <1>1, FailsRefines DEF GetAgain, Atomic!ANext
  <1>2. CASE /\ Read.here /\ pc' = "updateAgain" /\ fresh' = ReadsNow
             /\ UNCHANGED <<obj, watch, cache, writes, answer, faults>>
    BY <1>2, ReadRefines DEF GetAgain
  <1> QED BY <1>1, <1>2 DEF GetAgain

LEMMA CreateRefines == ASSUME IInv, Create PROVE Atomic!ANext
  <1>1. CASE ~obj.here /\ Applied
    BY <1>1, AppliedRefines DEF Create, IInv, Pending, Atomic!ANext
  <1>2. CASE Fails \/ Refused
    BY <1>2, FailsRefines DEF Create, Atomic!ANext
  <1> QED BY <1>1, <1>2 DEF Create

LEMMA UpdateRefines ==
    ASSUME IInv, Update \/ UpdateAgain PROVE [Atomic!ANext]_(Atomic!avars)
  <1>1. CASE fresh /\ Applied
    BY <1>1, AppliedRefines DEF Update, UpdateAgain, Atomic!ANext
  <1>2. CASE Fails \/ Refused
    BY <1>2, FailsRefines DEF Update, UpdateAgain, Atomic!ANext
  <1>3. CASE /\ pc = "update" /\ pc' = "getAgain" /\ UNCHANGED <<built, fresh>>
             /\ UNCHANGED <<obj, watch, cache, writes, answer, faults>>
    BY <1>3 DEF Atomic!avars
  <1> QED BY <1>1, <1>2, <1>3 DEF Update, UpdateAgain

LEMMA OthersRefine ==
    ASSUME IInv, Edit \/ Collect PROVE Atomic!Others
  <1>1. obj' \in Versions
    BY EditInv, CollectInv DEF IInv, TypeOK
  <1> QED BY <1>1 DEF Edit, Collect, callVars, Atomic!Others

LEMMA CrashRefines == ASSUME IInv, Crash PROVE Atomic!GiveUp
  BY DEF Crash, Return, Atomic!GiveUp

LEMMA QuietRefines ==
    ASSUME Finalize \/ ChangeSpec \/ Delete \/ Recreate \/ Sync
    PROVE  UNCHANGED Atomic!avars
  BY DEF Finalize, ChangeSpec, Delete, Recreate, Sync, callVars, Atomic!avars

LEMMA NextRefines ==
    ASSUME IInv, [Next]_vars PROVE [Atomic!ANext]_(Atomic!avars)
  <1>1. CASE UNCHANGED vars
    BY <1>1 DEF vars, Atomic!avars
  <1>2. CASE Call \/ Create \/ Crash \/ Edit \/ Collect
    BY <1>2, CallRefines, CreateRefines, CrashRefines, OthersRefine
       DEF Atomic!ANext
  <1> QED
    BY <1>1, <1>2, GetRefines, GetAgainRefines, UpdateRefines, QuietRefines
       DEF Next, Operate

\* Each call of createOrUpdate is an atomic write: at most one, never over a
\* version it has not read, and "ok" only if it was applied.
THEOREM Refinement == Spec => CallIsAtomic
  BY InitInv, NextInv, InitRefines, NextRefines, PTL
     DEF Spec, CallIsAtomic, Atomic!ASpec
=============================================================================
