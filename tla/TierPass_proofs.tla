-------------------------- MODULE TierPass_proofs --------------------------
(***************************************************************************)
(* What the proofs of the tiers share: which resources a list of writes    *)
(* touches, that nothing but a Job is ever removed, and that every step    *)
(* leaves the cluster well-formed.                                         *)
(***************************************************************************)
EXTENDS TierPass, TLAPS

\* The resources of a list of writes.
Whole(ws) == First(ws, Len(ws))

Steady == faults' = faults \/ UseFault

\* The list is written, to its end or in part.
Writes(ws, bad, T) ==
    (WritesAll(ws, bad, T) /\ Steady) \/ WritesSome(ws, bad, T)

\* Resources of Res; only those of Wl are rolled out again, only those of Js
\* fail.
ClusterOK(Res, Wl, Js) ==
    /\ DOMAIN objs \subseteq Res
    /\ up \subseteq DOMAIN objs /\ stale \subseteq Wl
    /\ failed \subseteq Js \cap DOMAIN objs
    /\ faults \in 0 .. MaxFaults

\* What is there stays, Jobs excepted.
Kept == \A o \in DOMAIN objs : o.kind # "Job" => o \in DOMAIN objs'

-----------------------------------------------------------------------------
(***************************************************************************)
(* Lists of resources.                                                     *)
(***************************************************************************)
LEMMA FirstTyped ==
    ASSUME NEW S, NEW ws \in Seq(S), NEW k \in 0 .. Len(ws)
    PROVE  First(ws, k) \subseteq Whole(ws) /\ Whole(ws) \subseteq S
BY DEF First, Whole

LEMMA WholeOne ==
    ASSUME NEW x
    PROVE  Whole(<<x>>) = {x} /\ Whole(<<>>) = {}
<1>1. Len(<<x>>) = 1 /\ <<x>>[1] = x /\ 1 .. 1 = {1}
  OBVIOUS
<1>2. Len(<<>>) = 0 /\ 1 .. 0 = {}
  OBVIOUS
<1>3. Whole(<<x>>) = {x}
  BY <1>1 DEF Whole, First
<1>4. Whole(<<>>) = {}
  BY <1>2 DEF Whole, First
<1> QED
  BY <1>3, <1>4

LEMMA WholeTwo ==
    ASSUME NEW x, NEW y
    PROVE  Whole(<<x, y>>) = {x, y}
<1>1. /\ Len(<<x, y>>) = 2 /\ <<x, y>>[1] = x /\ <<x, y>>[2] = y
      /\ 1 .. 2 = {1, 2}
  OBVIOUS
<1> QED
  BY <1>1 DEF Whole, First

LEMMA WholeConcat ==
    ASSUME NEW S, NEW s \in Seq(S), NEW t \in Seq(S)
    PROVE  s \o t \in Seq(S) /\ Whole(s \o t) = Whole(s) \cup Whole(t)
<1>1. /\ s \o t \in Seq(S) /\ Len(s) \in Nat /\ Len(t) \in Nat
      /\ Len(s \o t) = Len(s) + Len(t)
  OBVIOUS
<1>2. \A i \in 1 .. Len(s) : (s \o t)[i] = s[i] /\ i \in 1 .. Len(s \o t)
  BY <1>1
<1>3. \A i \in 1 .. Len(t) : /\ (s \o t)[Len(s) + i] = t[i]
                             /\ Len(s) + i \in 1 .. Len(s \o t)
  BY <1>1
<1>4. \A i \in 1 .. Len(s \o t) :
         \/ i \in 1 .. Len(s)
         \/ i - Len(s) \in 1 .. Len(t) /\ (s \o t)[i] = t[i - Len(s)]
  BY <1>1
<1>5. Whole(s) \subseteq Whole(s \o t) /\ Whole(t) \subseteq Whole(s \o t)
  BY <1>2, <1>3 DEF Whole, First
<1>6. Whole(s \o t) \subseteq Whole(s) \cup Whole(t)
  BY <1>2, <1>4 DEF Whole, First
<1> QED
  BY <1>1, <1>5, <1>6

LEMMA WholeThree ==
    ASSUME NEW S, NEW s \in Seq(S), NEW t \in Seq(S), NEW u \in Seq(S)
    PROVE  /\ s \o t \o u \in Seq(S)
           /\ Whole(s \o t \o u) = Whole(s) \cup Whole(t) \cup Whole(u)
<1> DEFINE st == s \o t
<1>1. st \in Seq(S) /\ Whole(st) = Whole(s) \cup Whole(t)
  BY WholeConcat
<1>2. s \o t \o u = st \o u
  OBVIOUS
<1> HIDE DEF st
<1>3. st \o u \in Seq(S) /\ Whole(st \o u) = Whole(st) \cup Whole(u)
  BY <1>1, WholeConcat
<1> QED
  BY <1>1, <1>2, <1>3

LEMMA WholeAppend ==
    ASSUME NEW S, NEW s \in Seq(S), NEW x \in S
    PROVE  Append(s, x) \in Seq(S) /\ Whole(Append(s, x)) = Whole(s) \cup {x}
<1> DEFINE t == <<x>>
<1>1. Append(s, x) = s \o t
  OBVIOUS
<1>2. t \in Seq(S)
  OBVIOUS
<1>3. Whole(t) = {x}
  BY WholeOne
<1> HIDE DEF t
<1> QED
  BY <1>1, <1>2, <1>3, WholeConcat

\* One resource of a kind for each name.
LEMMA WholeEach ==
    ASSUME NEW N, NEW names \in Seq(N), NEW kind
    PROVE  /\ Each(kind, names) \in Seq({R(kind, n) : n \in N})
           /\ Whole(Each(kind, names)) = {R(kind, n) : n \in Whole(names)}
<1>1. DOMAIN names = 1 .. Len(names) /\ Len(names) \in Nat
  OBVIOUS
<1>2. \A i \in 1 .. Len(names) : R(kind, names[i]) \in {R(kind, n) : n \in N}
  <2> TAKE i \in 1 .. Len(names)
  <2>1. names[i] \in N
    OBVIOUS
  <2> QED
    BY <2>1
<1>3. [i \in 1 .. Len(names) |-> R(kind, names[i])] \in Seq({R(kind, n) : n \in N})
  BY <1>1, <1>2
<1>4. Each(kind, names) = [i \in 1 .. Len(names) |-> R(kind, names[i])]
  BY <1>1 DEF Each
<1>5. Len(Each(kind, names)) = Len(names)
  BY <1>1, <1>3, <1>4
<1>6. \A i \in 1 .. Len(names) : Each(kind, names)[i] = R(kind, names[i])
  BY <1>4
<1>7. Whole(Each(kind, names)) = {R(kind, n) : n \in Whole(names)}
  BY <1>5, <1>6 DEF Whole, First
<1> QED
  BY <1>3, <1>4, <1>7

LEMMA EachOne ==
    ASSUME NEW N, NEW names \in Seq(N), NEW kind, NEW n \in Whole(names)
    PROVE  R(kind, n) \in Whole(Each(kind, names))
<1>1. DOMAIN names = 1 .. Len(names) /\ Len(names) \in Nat
  OBVIOUS
<1>2. PICK i \in 1 .. Len(names) : n = names[i]
  BY DEF Whole, First
<1>3. Each(kind, names) \in Seq({R(kind, m) : m \in N})
  BY WholeEach
<1>4. Len(Each(kind, names)) = Len(names) /\ Each(kind, names)[i] = R(kind, n)
  BY <1>1, <1>2, <1>3 DEF Each
<1> QED
  BY <1>2, <1>4 DEF Whole, First

-----------------------------------------------------------------------------
(***************************************************************************)
(* Writes.                                                                 *)
(***************************************************************************)
LEMMA NoChange ==
    ASSUME objs' = objs
    PROVE  Kept /\ \A o : ~Changes(o)
BY DEF Changes, Exists, Kept

\* A write leaves all others alone.
LEMMA WriteSetTouches ==
    ASSUME NEW W, NEW T, WriteSet(W, T), NEW o, Changes(o)
    PROVE  o \in W /\ objs'[o] = T[o]
BY DEF WriteSet, Written, Changes, Exists

LEMMA WritesSet ==
    ASSUME NEW ws, NEW bad, NEW T, Writes(ws, bad, T), Len(ws) \in Nat
    PROVE  Steady /\ \E k \in 0 .. Len(ws) : WriteSet(First(ws, k), T)
<1>1. CASE WritesAll(ws, bad, T) /\ Steady
  <2>1. Len(ws) \in 0 .. Len(ws)
    OBVIOUS
  <2> QED
    BY <1>1, <2>1 DEF WritesAll
<1>2. CASE WritesSome(ws, bad, T)
  <2>1. PICK k \in 0 .. Len(ws) : WriteSet(First(ws, k), T)
    BY <1>2 DEF WritesSome
  <2>2. Steady
    BY <1>2 DEF WritesSome, Steady
  <2> QED
    BY <2>1, <2>2
<1> QED
  BY <1>1, <1>2 DEF Writes

LEMMA WritesTouch ==
    ASSUME NEW S, NEW ws \in Seq(S), NEW bad, NEW T, Writes(ws, bad, T),
           NEW o, Changes(o)
    PROVE  o \in Whole(ws) /\ o \in S /\ objs'[o] = T[o]
<1>1. PICK k \in 0 .. Len(ws) : WriteSet(First(ws, k), T)
  BY WritesSet
<1> QED
  BY <1>1, WriteSetTouches, FirstTyped

LEMMA WritesGrow ==
    ASSUME NEW S, NEW ws \in Seq(S), NEW bad, NEW T, Writes(ws, bad, T)
    PROVE  Kept /\ DOMAIN objs \subseteq DOMAIN objs'
<1>1. PICK k \in 0 .. Len(ws) : WriteSet(First(ws, k), T)
  BY WritesSet
<1> QED
  BY <1>1 DEF WriteSet, Written, Kept

LEMMA WritesMake ==
    ASSUME NEW ws, NEW bad, NEW T, WritesAll(ws, bad, T)
    PROVE  DOMAIN objs' = DOMAIN objs \cup Whole(ws)
BY DEF WritesAll, WriteSet, Written, Whole

\* What comes before a resource in the list is written before it.
LEMMA WritesAhead ==
    ASSUME NEW S, NEW ws \in Seq(S), NEW bad, NEW T, Writes(ws, bad, T),
           NEW o, Changes(o), NEW i \in 1 .. Len(ws), \A j \in 1 .. i : ws[j] # o
    PROVE  ws[i] \in DOMAIN objs'
<1>1. PICK k \in 0 .. Len(ws) : WriteSet(First(ws, k), T)
  BY WritesSet
<1>2. o \in First(ws, k)
  BY <1>1, WriteSetTouches
<1>3. PICK m \in 1 .. k : o = ws[m]
  BY <1>2 DEF First
<1>4. i \in 1 .. k
  BY <1>3
<1>5. ws[i] \in First(ws, k)
  BY <1>4 DEF First
<1> QED
  BY <1>1, <1>5 DEF WriteSet, Written

LEMMA WriteSetTyped ==
    ASSUME NEW Res, NEW Wl, NEW Js, ClusterOK(Res, Wl, Js), Steady,
           NEW W, NEW T, WriteSet(W, T), W \subseteq Res,
           \A o \in W : RollsOut(o) => o \in Wl
    PROVE  ClusterOK(Res, Wl, Js)'
<1>1. Rolled(W, T) \subseteq Wl
  BY DEF Rolled
<1>2. DOMAIN objs' = DOMAIN objs \cup W
  BY DEF WriteSet, Written
<1>3. faults' \in 0 .. MaxFaults
  BY FaultAssumption DEF ClusterOK, Steady, UseFault
<1> QED
  BY <1>1, <1>2, <1>3 DEF ClusterOK, WriteSet

LEMMA WritesTyped ==
    ASSUME NEW Res, NEW Wl, NEW Js, ClusterOK(Res, Wl, Js),
           NEW S, NEW ws \in Seq(S), NEW bad, NEW T, Writes(ws, bad, T),
           S \subseteq Res, \A o \in S : RollsOut(o) => o \in Wl
    PROVE  ClusterOK(Res, Wl, Js)'
<1>1. PICK k \in 0 .. Len(ws) : WriteSet(First(ws, k), T)
  BY WritesSet
<1>2. First(ws, k) \subseteq S /\ Steady
  BY FirstTyped, WritesSet
<1> QED
  BY <1>1, <1>2, WriteSetTyped

-----------------------------------------------------------------------------
(***************************************************************************)
(* The steps of the cluster.                                               *)
(***************************************************************************)
LEMMA SameTyped ==
    ASSUME NEW Res, NEW Wl, NEW Js, ClusterOK(Res, Wl, Js), Steady,
           UNCHANGED clusterVars
    PROVE  ClusterOK(Res, Wl, Js)' /\ Kept
<1>1. faults' \in 0 .. MaxFaults
  BY FaultAssumption DEF ClusterOK, Steady, UseFault
<1> QED
  BY <1>1 DEF ClusterOK, clusterVars, Kept

LEMMA ProvideTyped ==
    ASSUME NEW Res, NEW Wl, NEW Js, ClusterOK(Res, Wl, Js), NEW o, Provide(o),
           o \in Res
    PROVE  ClusterOK(Res, Wl, Js)' /\ Kept
BY DEF ClusterOK, Provide, Kept

LEMMA ComesUpTyped ==
    ASSUME NEW Res, NEW Wl, NEW Js, ClusterOK(Res, Wl, Js), NEW o, NEW needs,
           NEW product, ComesUp(o, needs, product), product \subseteq Res
    PROVE  ClusterOK(Res, Wl, Js)' /\ Kept
BY DEF ClusterOK, ComesUp, Exists, Kept

LEMMA GoesDownTyped ==
    ASSUME NEW Res, NEW Wl, NEW Js, ClusterOK(Res, Wl, Js), NEW o, GoesDown(o)
    PROVE  ClusterOK(Res, Wl, Js)' /\ Kept
BY FaultAssumption DEF ClusterOK, GoesDown, UseFault, Kept

LEMMA JobFailsTyped ==
    ASSUME NEW Res, NEW Wl, NEW Js, ClusterOK(Res, Wl, Js), NEW o \in Js,
           JobFails(o)
    PROVE  ClusterOK(Res, Wl, Js)' /\ Kept
BY FaultAssumption DEF ClusterOK, JobFails, UseFault, Exists, Kept

LEMMA JobExpiresTyped ==
    ASSUME NEW Res, NEW Wl, NEW Js, ClusterOK(Res, Wl, Js), NEW o, NEW due,
           JobExpires(o, due)
    PROVE  ClusterOK(Res, Wl, Js)' /\ Kept
BY FaultAssumption DEF ClusterOK, JobExpires, UseFault, Kept

LEMMA CacheTyped ==
    ASSUME NEW Res, NEW Wl, NEW Js, ClusterOK(Res, Wl, Js), NEW o,
           CacheCatchesUp(o)
    PROVE  ClusterOK(Res, Wl, Js)' /\ Kept
BY DEF ClusterOK, CacheCatchesUp, Kept

LEMMA CertTyped ==
    ASSUME NEW Res, NEW Wl, NEW Js, ClusterOK(Res, Wl, Js), NEW c, CertIssued(c),
           R("TLSSecret", c) \in Res
    PROVE  ClusterOK(Res, Wl, Js)' /\ Kept
BY DEF ClusterOK, CertIssued, Exists, Kept

LEMMA InitTyped ==
    ASSUME NEW Res, NEW Wl, NEW Js, NEW flags, InitPass(flags),
           Provided \subseteq Res
    PROVE  ClusterOK(Res, Wl, Js) /\ DOMAIN objs \subseteq Provided
<1>1. DOMAIN objs = Present[cfg] /\ cfg \in Configs
  BY DEF InitPass
<1>2. Present[cfg] \subseteq Provided
  BY <1>1, PresentAssumption
<1> QED
  BY <1>1, <1>2, FaultAssumption DEF InitPass, ClusterOK
=============================================================================
