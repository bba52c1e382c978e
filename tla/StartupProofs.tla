---------------------------- MODULE StartupProofs ---------------------------
(***************************************************************************)
(* Proofs about Startup for all deployments: processes, releases without   *)
(* gaps, environments, outages and bounds.                                 *)
(***************************************************************************)
EXTENDS Startup, FiniteSetTheorems, WellFoundedInduction, TLAPS

-----------------------------------------------------------------------------
(* The inductive invariant.                                                *)

Versions == UNION {DOMAIN Build[p] : p \in Process}
Proc == [at : Points, attempt : 1..MaxAttempts, error : {"none"} \cup Outages,
         pending : SUBSET Nat, loops : SUBSET ({"pool"} \cup Loops)]
Servers == {"worker", "server", "runtime"}

\* Among the applied migrations a is v, as the release of p has it.
Has(p, v, a) == v \in DOMAIN a /\ a[v] = Build[p][v]

\* What a process knows of the applied migrations a at each of its points.
ProcOK(p, r, a) ==
  /\ r \in Proc /\ r.pending \subseteq DOMAIN Build[p]
  /\ r.at \in {"bootstrap", "serving", "pool", "loops", "close"} =>
       Kind[p] \in Servers /\ DOMAIN Build[p] \subseteq DOMAIN a
  /\ r.at = "apply" => /\ Kind[p] = "up" /\ r.pending # {}
                       /\ \A v \in DOMAIN Build[p] \ r.pending : Has(p, v, a)
  /\ r.at = "exit0" /\ Kind[p] = "up" => \A v \in DOMAIN Build[p] : Has(p, v, a)

\* Together with a version the database has every smaller one of any release.
SchemaOK ==
  /\ DOMAIN applied \subseteq Versions /\ IsFiniteSet(DOMAIN applied)
  /\ \A w \in DOMAIN applied, v \in Versions : v < w => v \in DOMAIN applied
  /\ committed \in Seq(Nat) /\ MigratedInOrder

RestOK == /\ database \in {"up"} \cup Outages /\ bootstrap \in BOOLEAN
          /\ \A p \in Process : env[p] \in MayHave[p]
          /\ outages \in 0..MaxOutages /\ deaths \in 0..MaxDeaths

ProcsOK == proc \in [Process -> Proc] /\ \A p \in Process : ProcOK(p, proc[p], applied)

StartupInv == SchemaOK /\ ProcsOK /\ RestOK

-----------------------------------------------------------------------------
(* The newest and the oldest of some versions.                             *)

LEMMA Extremes ==
  ASSUME NEW S \in SUBSET Nat, S # {}, IsFiniteSet(S)
  PROVE  /\ Max(S) \in S /\ \A x \in S : x <= Max(S)
         /\ Min(S) \in S /\ \A x \in S : Min(S) <= x
<1> DEFINE HasBoth(X) == (\E x \in X : \A y \in X : y <= x) /\ (\E x \in X : \A y \in X : x <= y)
           Bad == {X \in SUBSET S : X # {} /\ ~HasBoth(X)}
<1>1. IsWellFoundedOn(StrictSubsetOrdering(S), SUBSET S)
  BY FS_StrictSubsetOrderingWellFounded, FS_FiniteSubsetsOfFinite
<1>2. Bad = {}
  <2> SUFFICES ASSUME Bad # {} PROVE FALSE
    OBVIOUS
  <2>1. Bad \subseteq SUBSET S
    OBVIOUS
  <2> HIDE DEF Bad
  <2>2. PICK X \in Bad : \A Y \in Bad : <<Y, X>> \notin StrictSubsetOrdering(S)
    BY <1>1, <2>1, WFMin
  <2>3. X \in SUBSET S /\ X # {} /\ ~HasBoth(X)
    BY <2>2 DEF Bad
  <2>4. PICK x \in X : TRUE
    BY <2>3
  <2> DEFINE Y == X \ {x}
  <2>5. Y \in SUBSET S /\ <<Y, X>> \in StrictSubsetOrdering(S)
    BY <2>3, <2>4 DEF StrictSubsetOrdering
  <2>6. Y = {} \/ HasBoth(Y)
    BY <2>2, <2>5 DEF Bad
  <2>7. CASE Y = {}
    <3>1. X = {x} /\ x \in Nat
      BY <2>3, <2>4, <2>7
    <3> QED BY <2>3, <3>1
  <2>8. CASE HasBoth(Y)
    <3>1. PICK most \in Y, least \in Y : \A y \in Y : y <= most /\ least <= y
      BY <2>8
    <3>2. X = Y \cup {x} /\ X \subseteq Nat /\ most \in X /\ least \in X
      BY <2>3, <2>4, <3>1
    <3>3. \E m \in {most, x} : \A y \in X : y <= m
      BY <3>1, <3>2
    <3>4. \E m \in {least, x} : \A y \in X : m <= y
      BY <3>1, <3>2
    <3> QED BY <2>3, <2>4, <3>2, <3>3, <3>4
  <2> QED BY <2>6, <2>7, <2>8
<1>3. HasBoth(S)
  BY <1>2
<1>4. \E x \in S : \A y \in S : x >= y
  BY <1>3
<1>5. Max(S) \in S /\ \A y \in S : Max(S) >= y
  BY <1>4 DEF Max
<1>6. Min(S) \in S /\ \A y \in S : Min(S) <= y
  BY <1>3 DEF Min
<1> QED BY <1>5, <1>6

LEMMA BuildFacts ==
  ASSUME NEW p \in Process
  PROVE  /\ DOMAIN Build[p] \subseteq Nat \ {0} /\ IsFiniteSet(DOMAIN Build[p]) /\ DOMAIN Build[p] # {}
         /\ DOMAIN Build[p] \subseteq Versions /\ Versions \subseteq Nat \ {0}
         /\ \A v \in DOMAIN Build[p], w \in Versions : w < v => w \in DOMAIN Build[p]
<1>1. /\ DOMAIN Build[p] \subseteq Nat \ {0} /\ IsFiniteSet(DOMAIN Build[p]) /\ DOMAIN Build[p] # {}
      /\ \A q \in Process : DOMAIN Build[q] \subseteq Nat \ {0}
  BY StartupAssumptions
<1>2. \A v \in DOMAIN Build[p], w \in Versions : w < v => w \in DOMAIN Build[p]
  BY BuildsHaveNoGaps DEF Versions
<1> QED BY <1>1, <1>2 DEF Versions

\* The newest version is enough to know the others.
LEMMA CurrentMeansComplete ==
  ASSUME SchemaOK, NEW p \in Process, assertSchemaCurrent(p)
  PROVE  DOMAIN Build[p] \subseteq DOMAIN applied
<1> DEFINE B == DOMAIN Build[p]
           A == DOMAIN applied
<1>1. B \in SUBSET Nat /\ B # {} /\ IsFiniteSet(B) /\ 0 \notin B /\ B \subseteq Versions
  BY BuildFacts
<1>2. A \in SUBSET Nat /\ IsFiniteSet(A)
  BY BuildFacts DEF SchemaOK
<1>3. latestVersion(B) \in B /\ \A v \in B : v <= latestVersion(B)
  BY <1>1, Extremes DEF latestVersion
<1>4. latestVersion(A) = latestVersion(B)
  BY DEF assertSchemaCurrent
<1>5. latestVersion(B) \in A
  <2>1. A # {}
    BY <1>1, <1>3, <1>4 DEF latestVersion
  <2> QED BY <1>2, <1>4, <2>1, Extremes DEF latestVersion
<1> QED BY <1>1, <1>3, <1>5 DEF SchemaOK

-----------------------------------------------------------------------------
(* Committing a migration.                                                 *)

\* The next migration of a process that applies comes after all that are there.
LEMMA CommitKeeps ==
  ASSUME SchemaOK, NEW p \in Process, ProcOK(p, proc[p], applied), proc[p].at = "apply",
         Commit(p, NextMigration(proc[p].pending))
  PROVE  /\ SchemaOK'
         /\ DOMAIN applied \subseteq DOMAIN applied'
         /\ \A v \in DOMAIN applied : applied'[v] = applied[v]
         /\ NextMigration(proc[p].pending) \in proc[p].pending
         /\ Has(p, NextMigration(proc[p].pending), applied')
<1> DEFINE v == NextMigration(proc[p].pending)
           pending == proc[p].pending
<1>1. pending \in SUBSET Nat /\ pending # {} /\ pending \subseteq DOMAIN Build[p] /\ IsFiniteSet(pending)
  BY BuildFacts, FS_Subset DEF ProcOK
<1>2. v \in pending /\ \A w \in pending : v <= w
  BY <1>1, Extremes DEF NextMigration
<1>3. v \in DOMAIN Build[p] /\ v \in Versions /\ v \in Nat
  BY <1>1, <1>2, BuildFacts
<1>4. /\ v \notin DOMAIN applied
      /\ DOMAIN applied' = DOMAIN applied \cup {v}
      /\ \A w \in DOMAIN applied : applied'[w] = applied[w]
      /\ applied'[v] = Build[p][v]
      /\ committed' = Append(committed, v)
  BY DEF Commit
<1> HIDE DEF v, pending
<1>5. \A w \in Versions : w < v => w \in DOMAIN applied
  <2> SUFFICES ASSUME NEW w \in Versions, w < v PROVE w \in DOMAIN applied
    OBVIOUS
  <2>1. w \in DOMAIN Build[p] /\ w \in Nat
    BY <1>3, BuildFacts
  <2>2. w \notin pending
    BY <1>2, <1>3, <2>1
  <2> QED BY <2>1, <2>2 DEF ProcOK, Has, pending
<1>6. \A w \in DOMAIN applied : w < v
  <2> SUFFICES ASSUME NEW w \in DOMAIN applied PROVE w < v
    OBVIOUS
  <2>1. w \in Versions /\ w \in Nat /\ w # v
    BY <1>3, <1>4, BuildFacts DEF SchemaOK
  <2>2. ~(v < w)
    BY <1>3, <1>4, <2>1 DEF SchemaOK
  <2> QED BY <1>3, <2>1, <2>2
<1>7. DOMAIN applied' \subseteq Versions /\ IsFiniteSet(DOMAIN applied')
  BY <1>3, <1>4, FS_AddElement DEF SchemaOK
<1>8. \A w \in DOMAIN applied', u \in Versions : u < w => u \in DOMAIN applied'
  BY <1>4, <1>5 DEF SchemaOK
<1>9. committed' \in Seq(Nat) /\ MigratedInOrder'
  <2>1. /\ committed \in Seq(Nat) /\ Len(committed) \in Nat
        /\ \A i, k \in 1..Len(committed) : i < k => committed[i] < committed[k]
        /\ {committed[i] : i \in 1..Len(committed)} = DOMAIN applied
    BY DEF SchemaOK, MigratedInOrder
  <2>2. /\ committed' \in Seq(Nat) /\ Len(committed') = Len(committed) + 1
        /\ \A i \in 1..Len(committed) : committed'[i] = committed[i]
        /\ committed'[Len(committed) + 1] = v
    BY <1>3, <1>4, <2>1
  <2>3. \A i \in 1..Len(committed') : i \in 1..Len(committed) \/ i = Len(committed) + 1
    BY <2>1, <2>2
  <2>4. \A i \in 1..Len(committed) : committed[i] < v
    BY <1>6, <2>1
  <2>5. \A i, k \in 1..Len(committed') : i < k => committed'[i] < committed'[k]
    <3> SUFFICES ASSUME NEW i \in 1..Len(committed'), NEW k \in 1..Len(committed'), i < k
                 PROVE  committed'[i] < committed'[k]
      OBVIOUS
    <3>1. i \in 1..Len(committed)
      BY <2>1, <2>2
    <3>2. CASE k \in 1..Len(committed)
      BY <2>1, <2>2, <3>1, <3>2
    <3>3. CASE k = Len(committed) + 1
      BY <2>2, <2>4, <3>1, <3>3
    <3> QED BY <2>3, <3>2, <3>3
  <2>6. {committed'[i] : i \in 1..Len(committed')} = DOMAIN applied'
    <3>1. \A i \in 1..Len(committed') : committed'[i] \in DOMAIN applied'
      <4> SUFFICES ASSUME NEW i \in 1..Len(committed') PROVE committed'[i] \in DOMAIN applied'
        OBVIOUS
      <4>1. CASE i \in 1..Len(committed)
        <5>1. committed[i] \in DOMAIN applied
          BY <2>1, <4>1
        <5> QED BY <1>4, <2>2, <4>1, <5>1
      <4>2. CASE i = Len(committed) + 1
        BY <1>4, <2>2, <4>2
      <4> QED BY <2>3, <4>1, <4>2
    <3>2. \A w \in DOMAIN applied' : \E i \in 1..Len(committed') : committed'[i] = w
      <4>1. ASSUME NEW w \in DOMAIN applied
            PROVE  \E i \in 1..Len(committed') : committed'[i] = w
        <5>1. PICK i \in 1..Len(committed) : committed[i] = w
          BY <2>1
        <5>2. i \in 1..Len(committed') /\ committed'[i] = w
          BY <2>1, <2>2, <5>1
        <5> QED BY <5>2
      <4>2. Len(committed) + 1 \in 1..Len(committed')
        BY <2>1, <2>2
      <4> QED BY <1>4, <2>2, <4>1, <4>2
    <3> QED BY <3>1, <3>2
  <2> QED BY <2>2, <2>5, <2>6 DEF MigratedInOrder
<1>10. SchemaOK'
  BY <1>7, <1>8, <1>9 DEF SchemaOK
<1> QED BY <1>2, <1>4, <1>10 DEF v, pending, Has

-----------------------------------------------------------------------------
(* The steps.                                                              *)

\* What a process knows stays true while the schema grows.
Grows(a, b) == DOMAIN a \subseteq DOMAIN b /\ \A v \in DOMAIN a : b[v] = a[v]

LEMMA GrowthKeeps ==
  ASSUME NEW p \in Process, NEW r, NEW a, NEW b, ProcOK(p, r, a), Grows(a, b)
  PROVE  ProcOK(p, r, b)
  BY DEF ProcOK, Has, Grows

\* One process moves, and the schema grows or stays.
LEMMA OneProcess ==
  ASSUME StartupInv, SchemaOK', RestOK', Grows(applied, applied'), NEW p \in Process, NEW r,
         proc' = [proc EXCEPT ![p] = r], ProcOK(p, r, applied')
  PROVE  StartupInv'
<1>1. proc \in [Process -> Proc] /\ r \in Proc
  BY DEF StartupInv, ProcsOK, ProcOK
<1>2. ASSUME NEW q \in Process
      PROVE  ProcOK(q, proc'[q], applied')
  <2>1. CASE q = p
    BY <1>1, <2>1
  <2>2. CASE q # p
    <3>1. proc'[q] = proc[q] /\ ProcOK(q, proc[q], applied)
      BY <1>1, <2>2 DEF StartupInv, ProcsOK
    <3> QED BY <3>1, GrowthKeeps
  <2> QED BY <2>1, <2>2
<1>3. ProcsOK'
  BY <1>1, <1>2 DEF ProcsOK
<1> QED BY <1>3 DEF StartupInv

LEMMA SchemaStays ==
  ASSUME StartupInv, UNCHANGED <<applied, committed>>
  PROVE  SchemaOK' /\ Grows(applied, applied')
  BY DEF StartupInv, SchemaOK, MigratedInOrder, Grows

LEMMA RestStays ==
  ASSUME StartupInv, UNCHANGED <<database, bootstrap, env, outages>>,
         deaths' = deaths \/ (deaths > 0 /\ deaths' = deaths - 1)
  PROVE  RestOK'
  BY StartupAssumptions DEF StartupInv, RestOK

LEMMA BootingFacts == Booting \in Proc /\ Booting.pending = {} /\ Booting.at = "boot"
  BY StartupAssumptions DEF Booting, Proc, Points

LEMMA ExitFacts ==
  ASSUME NEW p \in Process, NEW a, NEW at \in {"exit0", "exit1", "killed"},
         at = "exit0" /\ Kind[p] = "up" => \A v \in DOMAIN Build[p] : Has(p, v, a)
  PROVE  ProcOK(p, [Booting EXCEPT !.at = at], a)
<1> DEFINE r == [Booting EXCEPT !.at = at]
<1>1. r \in Proc /\ r.pending = {} /\ r.at = at
  BY BootingFacts DEF Proc, Points
<1> HIDE DEF r
<1> QED BY <1>1 DEF ProcOK, r

\* A process changes its point, its attempt, its loops and what it has met.
LEMMA MoveFacts ==
  ASSUME NEW p \in Process, NEW a, NEW o, ProcOK(p, o, a), NEW r \in Proc, r.pending = o.pending,
         r.at \in {"ping", "read", "exit1"} \/
           /\ r.at \in {"bootstrap", "serving", "pool", "loops", "close"}
           /\ Kind[p] \in Servers /\ DOMAIN Build[p] \subseteq DOMAIN a
  PROVE  ProcOK(p, r, a)
  BY DEF ProcOK

LEMMA InitHolds == StartupInit => StartupInv
<1> SUFFICES ASSUME StartupInit PROVE StartupInv
  OBVIOUS
<1>1. DOMAIN applied = {}
  BY DEF StartupInit
<1>2. committed \in Seq(Nat) /\ Len(committed) = 0
  BY DEF StartupInit
<1>3. MigratedInOrder
  <2>1. 1..Len(committed) = {}
    BY <1>2
  <2> QED BY <1>1, <2>1 DEF MigratedInOrder
<1>4. SchemaOK
  BY <1>1, <1>2, <1>3, FS_EmptySet DEF SchemaOK
<1>5. ProcsOK
  BY BootingFacts DEF StartupInit, ProcsOK, ProcOK
<1>6. RestOK
  <2>1. MaxOutages \in Nat /\ MaxDeaths \in Nat
    BY StartupAssumptions
  <2>2. outages \in 0..MaxOutages /\ deaths \in 0..MaxDeaths
    BY <2>1 DEF StartupInit
  <2>3. \A p \in Process : env[p] \in MayHave[p]
    BY DEF StartupInit
  <2> QED BY <2>2, <2>3 DEF StartupInit, RestOK
<1> QED BY <1>4, <1>5, <1>6 DEF StartupInv

LEMMA LoadAndPingKeep ==
  ASSUME StartupInv, NEW p \in Process, LoadConfig(p) \/ Ping(p)
  PROVE  StartupInv'
<1> DEFINE o == proc[p]
<1>1. ProcOK(p, o, applied) /\ o \in Proc /\ proc \in [Process -> Proc]
  BY DEF StartupInv, ProcsOK, ProcOK
<1>2. UNCHANGED <<applied, committed>> /\ UNCHANGED <<database, bootstrap, env, outages, deaths>>
  BY DEF LoadConfig, Ping, DatabaseUnchanged
<1>3. PICK r : proc' = [proc EXCEPT ![p] = r] /\ ProcOK(p, r, applied)
  <2>1. ProcOK(p, [Booting EXCEPT !.at = "exit1"], applied)
    BY ExitFacts
  <2>2. CASE LoadConfig(p) /\ Accepted(p)
    <3> DEFINE r == [o EXCEPT !.at = "ping"]
    <3>1. r \in Proc /\ r.at = "ping" /\ r.pending = o.pending
      BY <1>1 DEF Proc, Points
    <3>2. proc' = [proc EXCEPT ![p] = r]
      BY <2>2 DEF LoadConfig, Goto, Set
    <3> HIDE DEF r
    <3>3. ProcOK(p, r, applied)
      BY <1>1, <3>1, MoveFacts
    <3> QED BY <3>2, <3>3
  <2>3. CASE LoadConfig(p) /\ ~Accepted(p)
    BY <2>1, <2>3 DEF LoadConfig, Exit, Set
  <2>4. CASE Ping(p) /\ database = "up"
    <3> DEFINE r == [Booting EXCEPT !.at = "read"]
    <3>1. r \in Proc /\ r.at = "read" /\ r.pending = {}
      BY BootingFacts DEF Proc, Points
    <3>2. proc' = [proc EXCEPT ![p] = r]
      BY <2>4 DEF Ping, Set
    <3> HIDE DEF r
    <3>3. ProcOK(p, r, applied)
      BY <3>1 DEF ProcOK
    <3> QED BY <3>2, <3>3
  <2>5. CASE Ping(p) /\ database # "up"
    <3>0. database \in Outages
      BY <2>5 DEF StartupInv, RestOK
    <3>1. CASE isTransientDbError(DriverError[database]) /\ o.attempt < MaxAttempts
      <4> DEFINE next == o.attempt + 1
                 r    == [o EXCEPT !.attempt = next, !.error = database]
      <4>2. proc' = [proc EXCEPT ![p] = r]
        BY <2>5, <3>1 DEF Ping, Set
      <4>0. o.at = "ping" /\ next \in 1..MaxAttempts
        <5>1. MaxAttempts \in Nat /\ o.attempt \in 1..MaxAttempts /\ o.attempt < MaxAttempts
          BY <1>1, <3>1, StartupAssumptions DEF Proc
        <5> QED BY <2>5, <5>1 DEF Ping
      <4> HIDE DEF next
      <4>1. r \in Proc /\ r.at = "ping" /\ r.pending = o.pending
        BY <1>1, <3>0, <4>0 DEF Proc
      <4> HIDE DEF r
      <4>3. ProcOK(p, r, applied)
        BY <1>1, <4>1, MoveFacts
      <4> QED BY <4>2, <4>3
    <3>2. CASE ~(isTransientDbError(DriverError[database]) /\ o.attempt < MaxAttempts)
      <4> DEFINE r == [o EXCEPT !.at = "exit1", !.error = database]
      <4>1. r \in Proc /\ r.at = "exit1" /\ r.pending = o.pending
        BY <1>1, <3>0 DEF Proc, Points
      <4>2. proc' = [proc EXCEPT ![p] = r]
        BY <2>5, <3>2 DEF Ping, Set
      <4> HIDE DEF r
      <4>3. ProcOK(p, r, applied)
        BY <1>1, <4>1, MoveFacts
      <4> QED BY <4>2, <4>3
    <3> QED BY <3>1, <3>2
  <2> QED BY <2>2, <2>3, <2>4, <2>5
<1> QED BY <1>2, <1>3, SchemaStays, RestStays, OneProcess

LEMMA LoopsFacts ==
  ASSUME StartupInv, NEW p \in Process, Kind[p] \in Servers
  PROVE  LoopsOf(p) \in SUBSET ({"pool"} \cup Loops)
<1>1. env[p] \in DOMAIN Environment
  BY StartupAssumptions DEF StartupInv, RestOK
<1>2. Environment[env[p]].enabled \subseteq Loops
  BY <1>1, StartupAssumptions DEF IsEnvironment
<1> QED BY <1>2 DEF LoopsOf, Servers

LEMMA ServeFacts ==
  ASSUME StartupInv, NEW p \in Process, Kind[p] \in Servers, DOMAIN Build[p] \subseteq DOMAIN applied,
         Serve(p)
  PROVE  \E r : proc' = [proc EXCEPT ![p] = r] /\ ProcOK(p, r, applied)
<1> DEFINE o == proc[p]
           loops == LoopsOf(p)
           r == [o EXCEPT !.at = "serving", !.loops = loops]
<1>1. ProcOK(p, o, applied) /\ o \in Proc /\ proc' = [proc EXCEPT ![p] = r]
  BY DEF StartupInv, ProcsOK, ProcOK, Serve, Set
<1>2. loops \in SUBSET ({"pool"} \cup Loops)
  BY LoopsFacts
<1> HIDE DEF loops
<1>3. r \in Proc /\ r.at = "serving" /\ r.pending = o.pending
  BY <1>1, <1>2 DEF Proc, Points
<1> HIDE DEF r
<1>4. ProcOK(p, r, applied)
  BY <1>1, <1>3, MoveFacts
<1> QED BY <1>1, <1>4

LEMMA ReadKeeps ==
  ASSUME StartupInv, NEW p \in Process, ReadApplied(p)
  PROVE  StartupInv'
<1> DEFINE o == proc[p]
<1>1. ProcOK(p, o, applied) /\ o \in Proc /\ proc \in [Process -> Proc] /\ SchemaOK
  BY DEF StartupInv, ProcsOK, ProcOK
<1>2. UNCHANGED <<applied, committed>> /\ UNCHANGED <<database, bootstrap, env, outages, deaths>>
  BY DEF ReadApplied, DatabaseUnchanged
<1>3. Kind[p] \in Kinds
  BY StartupAssumptions
<1>4. PICK r : proc' = [proc EXCEPT ![p] = r] /\ ProcOK(p, r, applied)
  <2>0. ProcOK(p, [Booting EXCEPT !.at = "exit1"], applied)
    BY ExitFacts
  <2>1. CASE Kind[p] = "up" /\ Changed(p)
    BY <2>0, <2>1 DEF ReadApplied, Exit, Set
  <2>2. CASE Kind[p] = "up" /\ ~Changed(p)
    <3>1. \A v \in DOMAIN Build[p] \ Pending(p) : Has(p, v, applied)
      BY <2>2 DEF Changed, Pending, Has
    <3>2. CASE Pending(p) = {}
      <4>1. ProcOK(p, [Booting EXCEPT !.at = "exit0"], applied)
        BY <3>1, <3>2, ExitFacts
      <4> QED BY <2>2, <3>2, <4>1 DEF ReadApplied, Exit, Set
    <3>3. CASE Pending(p) # {}
      <4> DEFINE pending == Pending(p)
                 r == [o EXCEPT !.at = "apply", !.pending = pending]
      <4>1. pending \subseteq DOMAIN Build[p] /\ pending \in SUBSET Nat
        BY BuildFacts DEF Pending
      <4>2. proc' = [proc EXCEPT ![p] = r]
        BY <2>2, <3>3 DEF ReadApplied, Set
      <4> HIDE DEF pending
      <4>3. r \in Proc /\ r.at = "apply" /\ r.pending = pending
        BY <1>1, <4>1 DEF Proc, Points
      <4> HIDE DEF r
      <4>4. ProcOK(p, r, applied)
        BY <2>2, <3>1, <3>3, <4>1, <4>3 DEF ProcOK, pending
      <4> QED BY <4>2, <4>4
    <3> QED BY <3>2, <3>3
  <2>3. CASE Kind[p] = "status"
    <3>1. ProcOK(p, [Booting EXCEPT !.at = "exit0"], applied)
      BY <2>3, ExitFacts
    <3> QED BY <2>3, <3>1 DEF ReadApplied, Exit, Set
  <2>4. CASE Kind[p] \in Servers
    <3>1. CASE ~assertSchemaCurrent(p)
      BY <2>0, <2>4, <3>1 DEF ReadApplied, Refuse, Exit, Set, Servers
    <3>2. CASE assertSchemaCurrent(p)
      <4>1. DOMAIN Build[p] \subseteq DOMAIN applied
        BY <1>1, <3>2, CurrentMeansComplete
      <4>2. CASE Kind[p] = "server"
        <5> DEFINE r == [o EXCEPT !.at = "bootstrap"]
        <5>1. r \in Proc /\ r.at = "bootstrap" /\ r.pending = o.pending
          BY <1>1 DEF Proc, Points
        <5>2. proc' = [proc EXCEPT ![p] = r]
          BY <3>2, <4>2 DEF ReadApplied, Goto, Set
        <5> HIDE DEF r
        <5>3. ProcOK(p, r, applied)
          BY <1>1, <2>4, <4>1, <5>1, MoveFacts
        <5> QED BY <5>2, <5>3
      <4>3. CASE Kind[p] # "server"
        <5>1. Serve(p)
          BY <2>4, <3>2, <4>3 DEF ReadApplied, Servers
        <5> QED BY <2>4, <4>1, <5>1, ServeFacts
      <4> QED BY <4>2, <4>3
    <3> QED BY <3>1, <3>2
  <2> QED BY <1>3, <2>1, <2>2, <2>3, <2>4 DEF Kinds, Servers
<1> QED BY <1>2, <1>4, SchemaStays, RestStays, OneProcess

LEMMA ApplyKeeps ==
  ASSUME StartupInv, NEW p \in Process, Apply(p)
  PROVE  StartupInv'
<1> DEFINE o == proc[p]
           v == NextMigration(o.pending)
           rest == o.pending \ {v}
<1>1. /\ ProcOK(p, o, applied) /\ o \in Proc /\ proc \in [Process -> Proc] /\ SchemaOK
      /\ o.at = "apply" /\ Kind[p] = "up"
  BY DEF StartupInv, ProcsOK, ProcOK, Apply
<1>2. RestOK'
  BY RestStays DEF Apply
<1>3. CASE Exit(p, "exit1") /\ UNCHANGED <<applied, committed>>
  <2>1. ProcOK(p, [Booting EXCEPT !.at = "exit1"], applied')
    BY ExitFacts
  <2> QED BY <1>2, <1>3, <2>1, SchemaStays, OneProcess DEF Exit, Set
<1>4. CASE /\ Commit(p, v)
           /\ IF rest = {} THEN Exit(p, "exit0") ELSE Set(p, [o EXCEPT !.pending = rest])
  <2>1. SchemaOK' /\ Grows(applied, applied') /\ v \in o.pending /\ Has(p, v, applied')
    BY <1>1, <1>4, CommitKeeps DEF Grows
  <2> HIDE DEF v
  <2>2. \A w \in DOMAIN Build[p] \ rest : Has(p, w, applied')
    <3>1. \A w \in DOMAIN Build[p] \ o.pending : Has(p, w, applied)
      BY <1>1 DEF ProcOK
    <3> QED BY <2>1, <3>1 DEF Has, Grows
  <2>3. PICK r : proc' = [proc EXCEPT ![p] = r] /\ ProcOK(p, r, applied')
    <3>1. CASE rest = {}
      <4>1. ProcOK(p, [Booting EXCEPT !.at = "exit0"], applied')
        BY <2>2, <3>1, ExitFacts
      <4> QED BY <1>4, <3>1, <4>1 DEF Exit, Set
    <3>2. CASE rest # {}
      <4> DEFINE r == [o EXCEPT !.pending = rest]
      <4>1. proc' = [proc EXCEPT ![p] = r]
        BY <1>4, <3>2 DEF Set
      <4>2. r \in Proc /\ r.at = "apply" /\ r.pending = rest
        BY <1>1 DEF Proc
      <4>3. rest \subseteq DOMAIN Build[p]
        BY <1>1 DEF ProcOK
      <4> HIDE DEF r, rest
      <4>4. ProcOK(p, r, applied')
        BY <1>1, <2>2, <3>2, <4>2, <4>3 DEF ProcOK
      <4> QED BY <4>1, <4>4
    <3> QED BY <3>1, <3>2
  <2> QED BY <1>2, <2>1, <2>3, OneProcess
<1> QED BY <1>3, <1>4 DEF Apply

LEMMA BootstrapKeeps ==
  ASSUME StartupInv, NEW p \in Process, ensureBootstrapKey(p)
  PROVE  StartupInv'
<1>1. ProcOK(p, proc[p], applied) /\ Serve(p) /\ UNCHANGED <<applied, committed>>
  BY DEF StartupInv, ProcsOK, ensureBootstrapKey
<1>2. Kind[p] \in Servers /\ DOMAIN Build[p] \subseteq DOMAIN applied
  BY <1>1 DEF ensureBootstrapKey, ProcOK
<1>3. \E r : proc' = [proc EXCEPT ![p] = r] /\ ProcOK(p, r, applied)
  BY <1>1, <1>2, ServeFacts
<1>4. RestOK'
  BY DEF ensureBootstrapKey, StartupInv, RestOK
<1> QED BY <1>1, <1>3, <1>4, SchemaStays, OneProcess

LEMMA DrainKeeps ==
  ASSUME StartupInv, NEW p \in Process, Signal(p) \/ Close(p) \/ \E l \in proc[p].loops : LoopEnds(p, l)
  PROVE  StartupInv'
<1> DEFINE o == proc[p]
<1>1. ProcOK(p, o, applied) /\ o \in Proc /\ proc \in [Process -> Proc]
  BY DEF StartupInv, ProcsOK, ProcOK
<1>2. UNCHANGED <<applied, committed>> /\ UNCHANGED <<database, bootstrap, env, outages, deaths>>
  BY DEF Signal, Close, LoopEnds, DatabaseUnchanged
<1>3. Kind[p] \in Servers /\ DOMAIN Build[p] \subseteq DOMAIN applied
  <2>1. o.at \in {"serving", "pool", "loops", "close"}
    BY DEF Signal, Close, LoopEnds, Draining
  <2> QED BY <1>1, <2>1 DEF ProcOK
<1>4. PICK r : proc' = [proc EXCEPT ![p] = r] /\ ProcOK(p, r, applied)
  <2>0. \A loops : Awaits(loops) \in {"pool", "loops", "close"}
    BY DEF Awaits
  <2>1. CASE Exit(p, "exit1")
    <3>1. ProcOK(p, [Booting EXCEPT !.at = "exit1"], applied)
      BY ExitFacts
    <3> QED BY <2>1, <3>1 DEF Exit, Set
  <2>2. CASE Exit(p, "exit0")
    <3>1. ProcOK(p, [Booting EXCEPT !.at = "exit0"], applied)
      BY <1>3, ExitFacts DEF Servers
    <3> QED BY <2>2, <3>1 DEF Exit, Set
  <2>3. CASE Goto(p, Awaits(proc[p].loops))
    <3> DEFINE at == Awaits(proc[p].loops)
               r == [o EXCEPT !.at = at]
    <3>1. proc' = [proc EXCEPT ![p] = r] /\ at \in {"pool", "loops", "close"}
      BY <2>0, <2>3 DEF Goto, Set
    <3> HIDE DEF at
    <3>2. r \in Proc /\ r.at = at /\ r.pending = o.pending
      BY <1>1, <3>1 DEF Proc, Points
    <3> HIDE DEF r
    <3>3. ProcOK(p, r, applied)
      BY <1>1, <1>3, <3>1, <3>2, MoveFacts
    <3> QED BY <3>1, <3>3
  <2>4. ASSUME NEW l \in proc[p].loops, LoopEnds(p, l)
        PROVE  \E r : proc' = [proc EXCEPT ![p] = r] /\ ProcOK(p, r, applied)
    <3> DEFINE rest == proc[p].loops \ {l}
               at == Awaits(rest)
               r == [o EXCEPT !.loops = rest, !.at = at]
    <3>1. /\ proc' = [proc EXCEPT ![p] = r] /\ at \in {"pool", "loops", "close"}
          /\ rest \in SUBSET ({"pool"} \cup Loops)
      BY <1>1, <2>0, <2>4 DEF LoopEnds, Set, Proc
    <3> HIDE DEF at, rest
    <3>2. r \in Proc /\ r.at = at /\ r.pending = o.pending
      BY <1>1, <3>1 DEF Proc, Points
    <3> HIDE DEF r
    <3>3. ProcOK(p, r, applied)
      BY <1>1, <1>3, <3>1, <3>2, MoveFacts
    <3> QED BY <3>1, <3>3
  <2> QED BY <2>1, <2>2, <2>3, <2>4 DEF Signal, Close
<1> QED BY <1>2, <1>4, SchemaStays, RestStays, OneProcess

LEMMA FaultsKeep ==
  ASSUME StartupInv, NEW p \in Process, QueryFails(p) \/ Die(p) \/ Restart(p)
  PROVE  StartupInv'
<1>1. ProcOK(p, proc[p], applied)
  BY DEF StartupInv, ProcsOK
<1>2. RestOK'
  BY RestStays DEF QueryFails, Die, Restart, DatabaseUnchanged
<1>3. SchemaOK' /\ Grows(applied, applied')
  <2>1. CASE UNCHANGED <<applied, committed>>
    BY <2>1, SchemaStays
  <2>2. CASE proc[p].at = "apply" /\ Commit(p, NextMigration(proc[p].pending))
    BY <1>1, <2>2, CommitKeeps DEF Grows, StartupInv
  <2> QED BY <2>1, <2>2 DEF QueryFails, Die, Restart, DatabaseUnchanged
<1>4. PICK r : proc' = [proc EXCEPT ![p] = r] /\ ProcOK(p, r, applied')
  <2>1. \A at \in {"exit1", "killed"} : ProcOK(p, [Booting EXCEPT !.at = at], applied')
    BY ExitFacts
  <2>2. ProcOK(p, Booting, applied')
    BY BootingFacts DEF ProcOK
  <2> QED BY <2>1, <2>2 DEF QueryFails, Die, Restart, Exit, Set
<1> QED BY <1>2, <1>3, <1>4, OneProcess

LEMMA StepKeeps ==
  ASSUME StartupInv, [StartupNext]_startupVars
  PROVE  StartupInv'
<1>1. ASSUME NEW p \in Process, Progress(p) \/ Signal(p) \/ Die(p) \/ Restart(p)
      PROVE  StartupInv'
  BY <1>1, LoadAndPingKeep, ReadKeeps, ApplyKeeps, BootstrapKeeps, DrainKeeps, FaultsKeep DEF Progress
<1>2. CASE UNCHANGED <<applied, committed, bootstrap, env, proc, deaths>> /\ RestOK'
  BY <1>2 DEF StartupInv, SchemaOK, MigratedInOrder, ProcsOK
<1>3. CASE OutageEnds \/ \E o \in Outages : OutageBegins(o)
  <2>1. RestOK'
    BY <1>3, StartupAssumptions DEF OutageBegins, OutageEnds, StartupInv, RestOK
  <2> QED BY <1>2, <1>3, <2>1 DEF OutageBegins, OutageEnds
<1>4. CASE UNCHANGED startupVars
  <2>1. RestOK'
    BY <1>4 DEF startupVars, StartupInv, RestOK
  <2> QED BY <1>2, <1>4, <2>1 DEF startupVars
<1> QED BY <1>1, <1>3, <1>4 DEF StartupNext

LEMMA InvHolds == StartupSpec => []StartupInv
  BY InitHolds, StepKeeps, PTL DEF StartupSpec

-----------------------------------------------------------------------------
(* Theorems.                                                               *)

\* The table of versions and the processes have their types; in particular a
\* process has only migrations of its own release before it.
THEOREM StartupTypeCorrect == StartupSpec => []StartupTypeOK
<1>1. ASSUME StartupInv PROVE StartupTypeOK
  <2>1. \A p \in Process : proc[p] \in Proc /\ ProcOK(p, proc[p], applied)
    BY <1>1 DEF StartupInv, ProcsOK
  <2>2. \A p \in Process : /\ proc[p].at \in Points /\ proc[p].attempt \in 1..MaxAttempts
                           /\ proc[p].error \in {"none"} \cup Outages
                           /\ proc[p].pending \subseteq DOMAIN Build[p]
                           /\ proc[p].loops \subseteq {"pool"} \cup Loops
    BY <2>1 DEF Proc, ProcOK
  <2>3. DOMAIN applied \subseteq UNION {DOMAIN Build[p] : p \in Process} /\ committed \in Seq(Nat)
    BY <1>1 DEF StartupInv, SchemaOK, Versions
  <2> QED BY <1>1, <2>2, <2>3 DEF StartupInv, RestOK, StartupTypeOK
<1> QED BY <1>1, InvHolds, PTL

\* Whatever the processes that migrate side by side see of each other, versions are
\* committed once each and in order.
THEOREM MigrationsInOrder == StartupSpec => []MigratedInOrder
<1>1. StartupInv => MigratedInOrder
  BY DEF StartupInv, SchemaOK
<1> QED BY <1>1, InvHolds, PTL

\* That the newest version is there is enough for all of a release to be there, so
\* that no process serves on a schema that lacks a migration.
THEOREM ServesOnlyMigrated == StartupSpec => []ServesMigratedSchema
<1>1. StartupInv => ServesMigratedSchema
  BY DEF StartupInv, ProcsOK, ProcOK, ServesMigratedSchema, Serving, Draining
<1> QED BY <1>1, InvHolds, PTL

\* A migrate up that succeeded has left, or found, the text of its own release.
THEOREM SuccessIsReal == StartupSpec => []SuccessMeansMigrated
<1>1. StartupInv => SuccessMeansMigrated
  BY DEF StartupInv, ProcsOK, ProcOK, Has, SuccessMeansMigrated
<1> QED BY <1>1, InvHolds, PTL

-----------------------------------------------------------------------------
(* Retry delays.  The recursion of Growth is unfolded by least              *)
(* counterexamples.                                                         *)

LEMMA LeastOf ==
  ASSUME NEW S \in SUBSET Nat, S # {}
  PROVE  \E n \in S : \A x \in S : n <= x
<1>1. PICK m \in S : TRUE
  OBVIOUS
<1> DEFINE T == {x \in S : x <= m}
<1>2. /\ \A x \in T : x \in 0..m
      /\ m \in T /\ m \in Int
  OBVIOUS
<1>b. IsFiniteSet(0..m)
  BY <1>2, FS_Interval
<1>3. T \in SUBSET Nat /\ T # {} /\ IsFiniteSet(T)
  BY <1>2, <1>b, FS_Subset
<1>4. Min(T) \in T /\ \A x \in T : Min(T) <= x
  BY <1>3, Extremes
<1>5. ASSUME NEW x \in S
      PROVE  Min(T) <= x
  <2>1. x \in T \/ m < x
    OBVIOUS
  <2>2. Min(T) <= m /\ Min(T) \in Nat
    BY <1>2, <1>4
  <2> QED BY <1>4, <2>1, <2>2
<1> QED BY <1>4, <1>5

\* The first powers of m, the n-th included.
ArePowers(f, m, n) == f = [k \in 0..n |-> IF k = 0 THEN 1 ELSE Times(m, f[k - 1])]

LEMMA PowersAreUnique ==
  ASSUME NEW m, NEW n \in Nat, NEW f, NEW g, ArePowers(f, m, n), ArePowers(g, m, n), NEW k \in 0..n
  PROVE  f[k] = g[k]
<1> DEFINE Bad == {x \in 0..n : f[x] # g[x]}
<1> SUFFICES ASSUME Bad # {} PROVE FALSE
  OBVIOUS
<1>s. Bad \in SUBSET Nat
  OBVIOUS
<1>1. PICK x \in Bad : \A y \in Bad : x <= y
  BY <1>s, LeastOf
<1>2. x # 0
  BY <1>1 DEF ArePowers
<1>3. x - 1 \in 0..n /\ x - 1 \notin Bad
  BY <1>1, <1>2
<1>4. f[x - 1] = g[x - 1]
  BY <1>3
<1>5. f[x] = Times(m, f[x - 1]) /\ g[x] = Times(m, g[x - 1])
  BY <1>1, <1>2 DEF ArePowers
<1> QED BY <1>1, <1>4, <1>5

LEMMA PowersExist ==
  ASSUME NEW m, NEW n \in Nat
  PROVE  \E f : ArePowers(f, m, n)
<1> DEFINE Bad == {x \in Nat : ~\E f : ArePowers(f, m, x)}
<1> SUFFICES ASSUME Bad # {} PROVE FALSE
  OBVIOUS
<1>1. PICK x \in Bad : \A y \in Bad : x <= y
  BY LeastOf
<1>2. CASE x = 0
  <2>1. ArePowers([k \in 0..0 |-> 1], m, 0)
    BY DEF ArePowers
  <2> QED BY <1>1, <1>2, <2>1
<1>3. CASE x # 0
  <2>1. x - 1 \in Nat /\ x - 1 \notin Bad
    BY <1>1, <1>3
  <2>2. PICK f : ArePowers(f, m, x - 1)
    BY <2>1
  <2> DEFINE g == [k \in 0..x |-> IF k = x THEN Times(m, f[x - 1]) ELSE f[k]]
  <2>3. ASSUME NEW k \in 0..x
        PROVE  g[k] = IF k = 0 THEN 1 ELSE Times(m, g[k - 1])
    <3>1. CASE k = x
      BY <1>1, <1>3, <3>1
    <3>2. CASE k # x
      <4>1. k \in 0..(x - 1) /\ g[k] = f[k]
        BY <1>1, <3>2
      <4>2. f[k] = IF k = 0 THEN 1 ELSE Times(m, f[k - 1])
        BY <2>2, <4>1 DEF ArePowers
      <4>3. k # 0 => k - 1 \in 0..x /\ k - 1 # x
        BY <1>1
      <4> QED BY <4>1, <4>2, <4>3
    <3> QED BY <3>1, <3>2
  <2>4. ArePowers(g, m, x)
    BY <2>3 DEF ArePowers
  <2> QED BY <1>1, <2>4
<1> QED BY <1>2, <1>3

LEMMA GrowthIsPower ==
  ASSUME NEW m, NEW n \in Nat, NEW f, ArePowers(f, m, n)
  PROVE  Growth(m, n) = f[n]
<1> DEFINE power == CHOOSE g : ArePowers(g, m, n)
<1>1. ArePowers(power, m, n)
  OBVIOUS
<1>2. Growth(m, n) = power[n]
  BY DEF Growth, ArePowers
<1> QED BY <1>1, <1>2, PowersAreUnique

LEMMA GrowthUnfolds ==
  ASSUME NEW m, NEW n \in Nat
  PROVE  /\ Growth(m, 0) = 1
         /\ Growth(m, n + 1) = Times(m, Growth(m, n))
<1>1. PICK f : ArePowers(f, m, 0)
  BY PowersExist
<1>2. Growth(m, 0) = 1
  BY <1>1, GrowthIsPower DEF ArePowers
<1>3. PICK g : ArePowers(g, m, n + 1)
  BY PowersExist
<1> DEFINE h == [k \in 0..n |-> g[k]]
<1>4. ASSUME NEW k \in 0..n
      PROVE  h[k] = IF k = 0 THEN 1 ELSE Times(m, h[k - 1])
  <2>1. g[k] = IF k = 0 THEN 1 ELSE Times(m, g[k - 1])
    BY <1>3 DEF ArePowers
  <2>2. k # 0 => k - 1 \in 0..n
    OBVIOUS
  <2> QED BY <2>1, <2>2
<1>5. ArePowers(h, m, n)
  BY <1>4 DEF ArePowers
<1>6. Growth(m, n) = g[n]
  BY <1>5, GrowthIsPower
<1>7. Growth(m, n + 1) = g[n + 1] /\ g[n + 1] = Times(m, g[n])
  BY <1>3, GrowthIsPower DEF ArePowers
<1> QED BY <1>2, <1>6, <1>7

\* A product overflows exactly if it is too large.
LEMMA QuotientBounds ==
  ASSUME NEW a \in Nat \ {0}, NEW b \in Nat \ {0}
  PROVE  a > MaxFinite \div b <=> a * b > MaxFinite
  BY BackoffAssumption

LEMMA TimesSaturates ==
  ASSUME NEW a \in Nat \ {0}, NEW b \in Nat \ {0}
  PROVE  Times(a, b) = IF a * b > MaxFinite THEN Infinity ELSE a * b
  BY QuotientBounds DEF Times

\* Products of larger numbers are not smaller, overflow included.
LEMMA TimesIsMonotonic ==
  ASSUME NEW a \in Nat \ {0}, NEW b \in Nat \ {0}, NEW c \in Nat \ {0}, b <= c, c <= Infinity
  PROVE  Times(a, b) \in 1..Infinity /\ Times(a, b) <= Times(a, c) /\ Lesser(b, Infinity) <= Times(a, b)
<1>1. a * b <= a * c /\ b <= a * b /\ a * b \in Nat \ {0} /\ a * c \in Nat \ {0}
  <2>1. PICK d \in Nat : c = b + d
    <3>1. c - b \in Nat /\ c = b + (c - b)
      OBVIOUS
    <3> QED BY <3>1
  <2>2. PICK e \in Nat : a = 1 + e
    <3>1. a - 1 \in Nat /\ a = 1 + (a - 1)
      OBVIOUS
    <3> QED BY <3>1
  <2>3. a * d \in Nat /\ e * b \in Nat /\ a * b \in Int
    OBVIOUS
  <2>4. a * c = a * b + a * d
    BY <2>1
  <2>5. a * b = b + e * b
    BY <2>2
  <2> QED BY <2>3, <2>4, <2>5
<1>2. /\ Times(a, b) = IF a * b > MaxFinite THEN Infinity ELSE a * b
      /\ Times(a, c) = IF a * c > MaxFinite THEN Infinity ELSE a * c
  BY TimesSaturates
<1> DEFINE ab == a * b
           ac == a * c
<1>3. ab <= ac /\ b <= ab /\ ab \in Nat \ {0} /\ ac \in Nat \ {0}
  BY <1>1
<1>4. /\ Times(a, b) = IF ab > MaxFinite THEN Infinity ELSE ab
      /\ Times(a, c) = IF ac > MaxFinite THEN Infinity ELSE ac
  BY <1>2
<1> HIDE DEF ab, ac
<1> QED BY <1>3, <1>4, BackoffAssumption DEF Infinity, Lesser

\* A multiplier of at least one never makes the growth shrink.
LEMMA GrowthGrows ==
  ASSUME NEW m \in Nat \ {0}, NEW n \in Nat
  PROVE  Growth(m, n) \in 1..Infinity /\ Growth(m, n) <= Growth(m, n + 1)
<1> DEFINE Bad == {x \in Nat : Growth(m, x) \notin 1..Infinity}
<1>1. Bad = {}
  <2> SUFFICES ASSUME Bad # {} PROVE FALSE
    OBVIOUS
  <2>s. Bad \in SUBSET Nat
    OBVIOUS
  <2>1. PICK x \in Bad : \A y \in Bad : x <= y
    BY <2>s, LeastOf
  <2>2. x # 0
    BY <2>1, GrowthUnfolds, BackoffAssumption DEF Infinity
  <2>3. x - 1 \in Nat /\ x - 1 \notin Bad /\ (x - 1) + 1 = x
    BY <2>1, <2>2
  <2>4. Growth(m, x - 1) \in 1..Infinity /\ Growth(m, x) = Times(m, Growth(m, x - 1))
    BY <2>3, GrowthUnfolds
  <2>5. Growth(m, x) \in 1..Infinity
    BY <2>4, TimesIsMonotonic
  <2> QED BY <2>1, <2>5
<1>2. Growth(m, n) \in 1..Infinity
  BY <1>1
<1>3. Growth(m, n + 1) = Times(m, Growth(m, n))
  BY GrowthUnfolds
<1>4. Lesser(Growth(m, n), Infinity) <= Times(m, Growth(m, n))
  BY <1>2, TimesIsMonotonic
<1> QED BY <1>2, <1>3, <1>4, BackoffAssumption DEF Infinity, Lesser

\* The delay before jitter is below the ceiling and never shrinks; the first delay
\* may be zero, and zero times Infinity is no number.
LEMMA BaseDelays ==
  ASSUME NEW o, o.initialMs \in Nat, o.multiplier \in Nat \ {0}, o.maxMs \in Nat, NEW a \in Nat \ {0}
  PROVE  /\ baseDelayMs(a, o) \in 0..o.maxMs
         /\ baseDelayMs(a, o) <= baseDelayMs(a + 1, o)
<1> DEFINE g == Growth(o.multiplier, a - 1)
           h == Growth(o.multiplier, a)
           r == Times(o.initialMs, g)
           s == Times(o.initialMs, h)
<1>1. a - 1 \in Nat /\ (a - 1) + 1 = a /\ (a + 1) - 1 = a /\ a >= 1 /\ a + 1 >= 1
  OBVIOUS
<1>2. g \in 1..Infinity /\ g <= h /\ h \in 1..Infinity
  <2>1. g \in 1..Infinity /\ g <= h
    BY <1>1, GrowthGrows
  <2>2. h \in 1..Infinity
    BY GrowthGrows
  <2> QED BY <2>1, <2>2
<1> HIDE DEF g, h
<1>3. /\ baseDelayMs(a, o) = IF isFinite(r) THEN Lesser(o.maxMs, r) ELSE o.maxMs
      /\ baseDelayMs(a + 1, o) = IF isFinite(s) THEN Lesser(o.maxMs, s) ELSE o.maxMs
  BY <1>1 DEF baseDelayMs, g, h
<1>4. \/ ~isFinite(s)
      \/ isFinite(r) /\ r <= s
  <2>1. CASE o.initialMs = 0
    BY <1>2, <2>1, BackoffAssumption DEF Times, isFinite, NaN, Infinity
  <2>2. CASE o.initialMs # 0
    <3>1. r \in 1..Infinity /\ r <= s /\ s \in 1..Infinity
      <4>0. /\ o.initialMs \in Nat \ {0} /\ g \in Nat \ {0} /\ h \in Nat \ {0}
            /\ g <= h /\ h <= h /\ h <= Infinity
        BY <1>2, <2>2, BackoffAssumption DEF Infinity
      <4>1. r \in 1..Infinity /\ r <= s
        BY <4>0, TimesIsMonotonic
      <4>2. s \in 1..Infinity
        BY <4>0, TimesIsMonotonic
      <4> QED BY <4>1, <4>2
    <3> QED BY <3>1, BackoffAssumption DEF isFinite, Infinity
  <2> QED BY <2>1, <2>2
<1> HIDE DEF r, s
<1> QED BY <1>3, <1>4 DEF isFinite, Lesser

LEMMA ScheduleIsOrderly ==
  ASSUME NEW o, o.initialMs \in Nat, o.multiplier \in Nat \ {0}, o.maxMs \in Nat,
         o.jitter \in {"none", "equal", "full"}, NEW n \in Int
  PROVE  Orderly(describeSchedule(n, o), o.maxMs)
<1> DEFINE delays == describeSchedule(n, o)
<1>1. delays = [a \in 1..(n - 1) |-> nextDelayMs(a, o)]
  BY DEF describeSchedule
<1> HIDE DEF delays
<1>2. ASSUME NEW a \in 1..(n - 1)
      PROVE  /\ 0 <= delays[a].least /\ delays[a].least <= delays[a].most
             /\ delays[a].most <= o.maxMs
             /\ a + 1 \in 1..(n - 1) => delays[a].most <= delays[a + 1].most
  <2>1. a \in Nat \ {0}
    OBVIOUS
  <2> DEFINE b == baseDelayMs(a, o)
             c == baseDelayMs(a + 1, o)
  <2>2. b \in 0..o.maxMs /\ b <= c
    BY <2>1, BaseDelays
  <2>3. delays[a].most = b /\ (a + 1 \in 1..(n - 1) => delays[a + 1].most = c)
    BY <1>1 DEF nextDelayMs
  <2>4. delays[a].least \in {b, (b + 1) \div 2, 0}
    BY <1>1 DEF nextDelayMs
  <2> HIDE DEF b, c
  <2> QED BY <2>2, <2>3, <2>4
<1>3. Orderly(delays, o.maxMs)
  BY <1>1, <1>2 DEF Orderly
<1> QED BY <1>3 DEF delays

\* loadConfig checks each of the numbers that the schedule is made of; it is those
\* checks that make it orderly.
LEMMA AcceptedIsOrderly ==
  ASSUME NEW e \in AcceptedEnvironments
  PROVE  e \in OrderlyEnvironments
<1> DEFINE set == Environment[e]
           o == backoffOf(set)
<1>1. e \in DOMAIN Environment /\ IsEnvironment(set) /\ Parses(set)
  BY StartupAssumptions DEF AcceptedEnvironments, loadConfig
<1>2. \A f \in Fields : Value(set, f) \in Int /\ configSchema[f].min <= Value(set, f)
  <2> SUFFICES ASSUME NEW f \in Fields
               PROVE  Value(set, f) \in Int /\ configSchema[f].min <= Value(set, f)
    OBVIOUS
  <2>1. configSchema[f].default \in Int
    BY DEF Fields, configSchema, int
  <2> QED BY <1>1, <2>1 DEF IsEnvironment, Parses, Value
<1>3. {"backoffInitialMs", "backoffMultiplier", "backoffMaxMs", "defaultMaxAttempts"} \subseteq Fields
  BY DEF Fields, configSchema
<1>4. /\ configSchema["backoffInitialMs"].min = 0 /\ configSchema["backoffMultiplier"].min = 1
      /\ configSchema["backoffMaxMs"].min = 0
  BY DEF configSchema, int
<1>5. /\ o.initialMs = Value(set, "backoffInitialMs") /\ o.multiplier = Value(set, "backoffMultiplier")
      /\ o.maxMs = Value(set, "backoffMaxMs") /\ o.jitter = set.jitter
  BY DEF backoffOf
<1> HIDE DEF o
<1>6. /\ o.initialMs \in Nat /\ o.multiplier \in Nat \ {0} /\ o.maxMs \in Nat
      /\ Value(set, "defaultMaxAttempts") \in Int
  BY <1>2, <1>3, <1>4, <1>5
<1>7. o.jitter \in {"none", "equal", "full"}
  BY <1>1, <1>5 DEF IsEnvironment
<1>8. Orderly(describeSchedule(Value(set, "defaultMaxAttempts"), o), o.maxMs)
  BY <1>6, <1>7, ScheduleIsOrderly
<1> QED BY <1>1, <1>5, <1>8 DEF OrderlyEnvironments, o

-----------------------------------------------------------------------------
(* Only an accepted environment gets past the start.                        *)

\* A process that has just begun, or is over, may have any environment.
AnyEnvironment(r) == r.at \in {"boot", "exit0", "exit1", "killed"}

ConfigInv == \A p \in Process : AnyEnvironment(proc[p]) \/ Accepted(p)

LEMMA StepKeepsConfig ==
  ASSUME StartupInv, ConfigInv, [StartupNext]_startupVars
  PROVE  ConfigInv'
<1>s. proc \in [Process -> Proc]
  BY DEF StartupInv, ProcsOK
<1>1. ASSUME NEW p \in Process, NEW r, Set(p, r), UNCHANGED env, AnyEnvironment(r) \/ Accepted(p)
      PROVE  ConfigInv'
  <2>1. ASSUME NEW q \in Process
        PROVE  AnyEnvironment(proc'[q]) \/ Accepted(q)
    <3>1. proc'[q] = IF q = p THEN r ELSE proc[q]
      BY <1>s, <1>1 DEF Set
    <3> QED BY <1>1, <3>1 DEF ConfigInv
  <2> QED BY <1>1, <2>1 DEF ConfigInv, Accepted
<1>2. ASSUME NEW p \in Process, NEW at \in {"exit0", "exit1", "killed"}, Exit(p, at), UNCHANGED env
      PROVE  ConfigInv'
  <2>1. AnyEnvironment([Booting EXCEPT !.at = at])
    BY DEF Booting, AnyEnvironment
  <2> QED BY <1>1, <1>2, <2>1 DEF Exit
<1>3. ASSUME NEW p \in Process, LoadConfig(p)
      PROVE  ConfigInv'
  <2>1. UNCHANGED env
    BY <1>3 DEF LoadConfig, DatabaseUnchanged
  <2>2. CASE Accepted(p)
    BY <1>1, <1>3, <2>1, <2>2 DEF LoadConfig, Goto
  <2>3. CASE ~Accepted(p)
    BY <1>2, <1>3, <2>1, <2>3 DEF LoadConfig
  <2> QED BY <2>2, <2>3
\* Whoever is past the start has been accepted, and moves on or exits.
<1>4. ASSUME NEW p \in Process, ~AnyEnvironment(proc[p]), UNCHANGED env,
             (\E r : Set(p, r)) \/ \E at \in {"exit0", "exit1", "killed"} : Exit(p, at)
      PROVE  ConfigInv'
  <2>1. Accepted(p)
    BY <1>4 DEF ConfigInv
  <2> QED BY <1>1, <1>2, <1>4, <2>1
<1>5. ASSUME NEW p \in Process, Ping(p)
      PROVE  ConfigInv'
  <2>1. ~AnyEnvironment(proc[p]) /\ UNCHANGED env /\ \E r : Set(p, r)
    BY <1>5 DEF Ping, AnyEnvironment, DatabaseUnchanged
  <2> QED BY <1>4, <2>1
<1>6. ASSUME NEW p \in Process, ReadApplied(p)
      PROVE  ConfigInv'
  <2>1. Kind[p] \in Kinds
    BY StartupAssumptions
  <2>2. ~AnyEnvironment(proc[p]) /\ UNCHANGED env
    BY <1>6 DEF ReadApplied, AnyEnvironment, DatabaseUnchanged
  <2>3. (\E r : Set(p, r)) \/ \E at \in {"exit0", "exit1", "killed"} : Exit(p, at)
    BY <1>6, <2>1 DEF ReadApplied, Refuse, Goto, Serve, Kinds
  <2> QED BY <1>4, <2>2, <2>3
<1>7. ASSUME NEW p \in Process, Apply(p) \/ ensureBootstrapKey(p) \/ QueryFails(p) \/ Close(p)
      PROVE  ConfigInv'
  <2>1. ~AnyEnvironment(proc[p]) /\ UNCHANGED env
    BY <1>7 DEF Apply, ensureBootstrapKey, QueryFails, Close, AnyEnvironment, DatabaseUnchanged
  <2>2. (\E r : Set(p, r)) \/ \E at \in {"exit0", "exit1", "killed"} : Exit(p, at)
    BY <1>7 DEF Apply, ensureBootstrapKey, QueryFails, Close, Serve
  <2> QED BY <1>4, <2>1, <2>2
<1>8. ASSUME NEW p \in Process, Signal(p) \/ \E l \in proc[p].loops : LoopEnds(p, l)
      PROVE  ConfigInv'
  <2>1. ~AnyEnvironment(proc[p]) /\ UNCHANGED env
    BY <1>8 DEF Signal, LoopEnds, Draining, AnyEnvironment, DatabaseUnchanged
  <2>2. (\E r : Set(p, r)) \/ \E at \in {"exit0", "exit1", "killed"} : Exit(p, at)
    BY <1>8 DEF Signal, LoopEnds, Goto
  <2> QED BY <1>4, <2>1, <2>2
<1>9. ASSUME NEW p \in Process, Die(p)
      PROVE  ConfigInv'
  BY <1>2, <1>9 DEF Die, DatabaseUnchanged
<1>10. ASSUME NEW p \in Process, Restart(p)
       PROVE  ConfigInv'
  BY <1>1, <1>10 DEF Restart, DatabaseUnchanged, AnyEnvironment, Booting
<1>11. CASE UNCHANGED <<proc, env>>
  BY <1>11 DEF ConfigInv, AnyEnvironment, Accepted
<1> QED BY <1>3, <1>5, <1>6, <1>7, <1>8, <1>9, <1>10, <1>11
        DEF StartupNext, Progress, OutageBegins, OutageEnds, startupVars

\* A process serves with an environment that loadConfig accepted, and for every
\* such environment the retry delays stay within the ceiling and never shrink,
\* however the exponential grows or overflows (backoff.ts:27-35, config.ts:170).
THEOREM DelaysAreOrderly == StartupSpec => []DelaysWithinCeiling
<1>1. StartupInit => ConfigInv
  BY DEF StartupInit, ConfigInv, AnyEnvironment, Booting
<1>2. ConfigInv => DelaysWithinCeiling
  <2> SUFFICES ASSUME ConfigInv, NEW p \in Process, Serving(p)
               PROVE  env[p] \in OrderlyEnvironments
    BY DEF DelaysWithinCeiling
  <2>1. Accepted(p)
    BY DEF ConfigInv, AnyEnvironment, Serving, Draining
  <2> QED BY <2>1, AcceptedIsOrderly DEF Accepted
<1> QED BY <1>1, <1>2, InvHolds, StepKeepsConfig, PTL DEF StartupSpec
=============================================================================
