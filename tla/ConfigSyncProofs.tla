--------------------------- MODULE ConfigSyncProofs ---------------------------
(***************************************************************************)
(* Proofs about ConfigSync: the platform sections that share a row, the    *)
(* routes of the agents and the defaults of the skills.                    *)
(***************************************************************************)
EXTENDS ConfigSync, FiniteSetTheorems, TLAPS

(***************************************************************************)
(* The inductive invariant: a process that saves a section has the write   *)
(* lock, so that the row it has read is still the stored one.              *)
(***************************************************************************)
SavingInv ==
    /\ DOMAIN cfg = Namespaces /\ DOMAIN saving = Procs
    /\ \A p \in Procs : saving[p] # NotSaving =>
          /\ lock = p
          /\ \A n \in DOMAIN saving[p].row \cap Namespaces : saving[p].row[n] = cfg[n]

\* a step changes stored sections only as NoLostSection allows it
SectionsKept ==
    \A ns \in Namespaces :
        cfg'[ns] # cfg[ns] =>
            ~Initialized \/ \E p \in Procs : saving[p].ns = ns /\ saving'[p] = NotSaving

\* SaveBegin, with a value or with the default
LEMMA BeginKeeps ==
    ASSUME SavingInv, NEW p \in Procs, NEW ns \in Namespaces, NEW v, SaveBegin(p, ns, v)
    PROVE  SavingInv' /\ SectionsKept
<1> DEFINE s == [ns |-> ns, value |-> v, row |-> [n \in RowOf(ns) |-> cfg[n]]]
<1>1. lock = NoProc /\ lock' = p /\ saving' = [saving EXCEPT ![p] = s] /\ cfg' = cfg
  BY DEF SaveBegin
<1>2. \A q \in Procs : saving[q] = NotSaving
  BY <1>1, KeyAssumption DEF SavingInv
<1>3. saving'[p] = s /\ \A q \in Procs \ {p} : saving'[q] = NotSaving
  BY <1>1, <1>2 DEF SavingInv
<1>4. \A n \in DOMAIN s.row : s.row[n] = cfg[n]
  OBVIOUS
<1>5. DOMAIN cfg' = Namespaces /\ DOMAIN saving' = Procs
  BY <1>1 DEF SavingInv
<1> HIDE DEF s
<1>6. ASSUME NEW q \in Procs, saving'[q] # NotSaving
      PROVE  /\ lock' = q
             /\ \A n \in DOMAIN saving'[q].row \cap Namespaces : saving'[q].row[n] = cfg'[n]
  BY <1>1, <1>3, <1>4, <1>6
<1>7. SavingInv'
  BY <1>5, <1>6 DEF SavingInv, NotSaving
<1> QED
  BY <1>1, <1>7 DEF SectionsKept

LEMMA CommitKeeps ==
    ASSUME SavingInv, NEW p \in Procs, SaveCommit(p)
    PROVE  SavingInv' /\ SectionsKept
<1> DEFINE s == saving[p]
<1>1. /\ s # NotSaving /\ saving' = [saving EXCEPT ![p] = NotSaving]
      /\ cfg' = [n \in Namespaces |->
                    IF n = s.ns THEN s.value ELSE IF n \in DOMAIN s.row THEN s.row[n] ELSE cfg[n]]
  BY DEF SaveCommit
<1>2. lock = p /\ \A n \in DOMAIN s.row \cap Namespaces : s.row[n] = cfg[n]
  BY <1>1 DEF SavingInv
<1>3. \A q \in Procs : saving'[q] = NotSaving
  BY <1>1, <1>2 DEF SavingInv
<1>4. DOMAIN cfg' = Namespaces /\ DOMAIN saving' = Procs
  BY <1>1 DEF SavingInv
<1>5. SavingInv'
  BY <1>3, <1>4 DEF SavingInv, NotSaving
<1> HIDE DEF s
<1>6. \A n \in Namespaces : n # s.ns => cfg'[n] = cfg[n]
  BY <1>1, <1>2
<1>7. SectionsKept
  BY <1>3, <1>6 DEF SectionsKept, s
<1> QED
  BY <1>5, <1>7

LEMMA StartKeeps ==
    ASSUME SavingInv, NEW p \in Procs, Start(p)
    PROVE  SavingInv' /\ SectionsKept
<1>1. cfg' = StartSections /\ lock' = lock /\ saving' = saving /\ (Initialized \/ lock = NoProc)
  BY DEF Start
<1>2. CASE Initialized
  <2>1. cfg' = cfg
    BY <1>1, <1>2 DEF StartSections
  <2> QED
    BY <1>1, <2>1 DEF SavingInv, SectionsKept, NotSaving
<1>3. CASE ~Initialized
  <2>1. DOMAIN cfg' = Namespaces
    BY <1>1, <1>3 DEF StartSections, InitialSections
  <2>2. \A q \in Procs : saving[q] = NotSaving
    BY <1>1, <1>3, KeyAssumption DEF SavingInv
  <2> QED
    BY <1>1, <1>3, <2>1, <2>2 DEF SavingInv, SectionsKept, NotSaving
<1> QED
  BY <1>2, <1>3

LEMMA StopKeeps ==
    ASSUME SavingInv, NEW p \in Procs, Stop(p)
    PROVE  SavingInv' /\ SectionsKept
<1>1. /\ cfg' = cfg /\ saving' = [saving EXCEPT ![p] = NotSaving]
      /\ lock' = IF lock = p THEN NoProc ELSE lock
  BY DEF Stop
<1>2. saving'[p] = NotSaving /\ \A q \in Procs \ {p} : saving'[q] = saving[q]
  BY <1>1 DEF SavingInv
<1>3. DOMAIN cfg' = Namespaces /\ DOMAIN saving' = Procs
  BY <1>1 DEF SavingInv
<1>4. ASSUME NEW q \in Procs, saving'[q] # NotSaving
      PROVE  /\ lock' = q
             /\ \A n \in DOMAIN saving'[q].row \cap Namespaces : saving'[q].row[n] = cfg'[n]
  BY <1>1, <1>2, <1>4 DEF SavingInv
<1>5. SavingInv'
  BY <1>3, <1>4 DEF SavingInv, NotSaving
<1> QED
  BY <1>1, <1>5 DEF SectionsKept

LEMMA SavingStep ==
    ASSUME SavingInv, [Next]_vars
    PROVE  SavingInv' /\ SectionsKept
<1>1. ASSUME UNCHANGED <<cfg, lock, saving>> PROVE SavingInv' /\ SectionsKept
  BY <1>1 DEF SavingInv, SectionsKept, NotSaving
<1>2. ASSUME NEW p \in Procs, AdminStep(p) PROVE UNCHANGED <<cfg, lock, saving>>
  BY <1>2 DEF AdminStep, RegisterAgent, DisableAgent, DeregisterAgent, SetDefaultAgent,
              RegisterTool, DisableTool, PublishSkill, DisableSkillVersion, Admin, platform
<1>3. ASSUME NEW p \in Procs, RunsChange(p) \/ \E verified \in BOOLEAN : Tick(p, verified)
      PROVE  UNCHANGED <<cfg, lock, saving>>
  BY <1>3 DEF RunsChange, Tick, platform
<1>4. UNCHANGED vars => UNCHANGED <<cfg, lock, saving>>
  BY DEF vars, platform
<1> QED
  BY <1>1, <1>2, <1>3, <1>4, StartKeeps, StopKeeps, BeginKeeps, CommitKeeps DEF Next

LEMMA SavingInit == Init => SavingInv
<1> SUFFICES ASSUME Init PROVE SavingInv
  OBVIOUS
<1>1. cfg = [ns \in Namespaces |-> Absent] /\ saving = [p \in Procs |-> NotSaving]
  BY DEF Init, Idle
<1>2. DOMAIN cfg = Namespaces /\ DOMAIN saving = Procs /\ \A p \in Procs : saving[p] = NotSaving
  BY <1>1
<1> QED
  BY <1>2 DEF SavingInv

\* For any number of processes, sections and values, a stored section changes only by the
\* commit of a save of that very section, or by the first start: the write lock of
\* PlatformConfigRepository makes reading, changing and rewriting the shared row safe.
THEOREM SectionsAreKept == Spec => NoLostSection
<1>1. SavingInv /\ [Next]_vars => SavingInv' /\ SectionsKept
  BY SavingStep
<1>2. SectionsKept =>
        [\A ns \in Namespaces :
            cfg'[ns] # cfg[ns] =>
                ~Initialized \/ \E p \in Procs : saving[p].ns = ns /\ saving'[p] = NotSaving]_vars
  BY DEF SectionsKept
<1> QED
  BY <1>1, <1>2, SavingInit, PTL DEF Spec, NoLostSection

(***************************************************************************)
(* Greatest elements, lists and folds over them.                           *)
(***************************************************************************)

\* A set of naturals that is not empty has a least element.
LEMMA LeastOf ==
    ASSUME NEW T \in SUBSET Nat, T # {}
    PROVE  \E m \in T : \A i \in T : m <= i
<1>1. PICK m \in T : \A i \in T : ~ (<<i, m>> \in OpToRel(<, Nat))
  BY WFMin, NatLessThanWellFounded
<1>2. \A i \in T : ~ (i < m)
  BY <1>1 DEF OpToRel
<1> QED
  BY <1>2

\* A finite set of integers that is not empty has a greatest element.
LEMMA GreatestOf ==
    ASSUME NEW S \in SUBSET Int, IsFiniteSet(S), S # {}
    PROVE  \E m \in S : \A i \in S : m >= i
<1> DEFINE Has(R) == \E m \in R : \A i \in R : m >= i
           Bad(R) == IsFiniteSet(R) /\ R # {} /\ ~Has(R)
           T == {n \in Nat : \E R \in SUBSET Int : Bad(R) /\ Cardinality(R) = n}
<1>1. SUFFICES ASSUME T # {} PROVE FALSE
  <2>1. Cardinality(S) \in Nat
    BY FS_CardinalityType
  <2> QED
    BY <2>1
<1>2. PICK n \in T : \A i \in T : n <= i
  BY <1>1, LeastOf
<1>3. PICK R \in SUBSET Int : Bad(R) /\ Cardinality(R) = n
  OBVIOUS
<1>4. PICK x \in R : TRUE
  BY <1>3
<1>5. IsFiniteSet(R \ {x}) /\ Cardinality(R \ {x}) = n - 1
  BY <1>3, <1>4, FS_RemoveElement
<1>6. Cardinality(R \ {x}) \in Nat /\ ~(n <= n - 1)
  BY <1>5, FS_CardinalityType
<1>7. ~Bad(R \ {x})
  <2>1. R \ {x} \in SUBSET Int /\ n - 1 \notin T
    BY <1>2, <1>6
  <2> HIDE DEF Bad
  <2> QED
    BY <1>5, <1>6, <2>1
<1>8. CASE R \ {x} = {}
  <2>1. \A i \in R : i = x
    BY <1>8
  <2> QED
    BY <1>3, <1>4, <2>1
<1>9. CASE R \ {x} # {}
  <2>1. PICK y \in R \ {x} : \A i \in R \ {x} : y >= i
    BY <1>5, <1>7, <1>9
  <2>2. x >= y \/ y >= x
    BY <1>3, <1>4
  <2>3. Has(R)
    <3>1. \A i \in R : i \in Int
      OBVIOUS
    <3>2. CASE x >= y
      <4>1. \A i \in R : x >= i
        BY <2>1, <3>1, <3>2, <1>4
      <4> QED
        BY <4>1, <1>4
    <3>3. CASE y >= x
      <4>1. \A i \in R : y >= i
        BY <2>1, <3>1, <3>3
      <4> QED
        BY <4>1
    <3> QED
      BY <2>2, <3>2, <3>3
  <2> QED
    BY <1>3, <2>3
<1> QED
  BY <1>8, <1>9

\* Max of a set of indices is its greatest element.
LEMMA MaxFacts ==
    ASSUME NEW n \in Nat, NEW s \in SUBSET (1..n), s # {}
    PROVE  Max(s) \in s /\ (\A i \in s : Max(s) >= i)
<1>1. IsFiniteSet(s)
  <2>1. IsFiniteSet(1..n)
    BY FS_Interval
  <2> QED
    BY <2>1, FS_Subset
<1>2. s \in SUBSET Int
  OBVIOUS
<1>3. \E m \in s : \A i \in s : m >= i
  BY <1>1, <1>2, GreatestOf
<1> QED
  BY <1>3 DEF Max

\* The names and the versions of finitely many keys are finitely many.
LEMMA PartsFinite ==
    ASSUME NEW K, IsFiniteSet(K)
    PROVE  IsFiniteSet({NameOf(k) : k \in K}) /\ IsFiniteSet({VersionOf(k) : k \in K})
<1> DEFINE N == {NameOf(k) : k \in K}
           V == {VersionOf(k) : k \in K}
           f == [k \in K |-> NameOf(k)]
           g == [k \in K |-> VersionOf(k)]
<1>1. f \in Surjection(K, N) /\ g \in Surjection(K, V)
  BY DEF Surjection
<1> QED
  BY <1>1, FS_Surjection

\* A finite set of keys that is not empty has a key of the highest version ...
LEMMA TopExists ==
    ASSUME NEW K \in SUBSET (Nat \X Nat), IsFiniteSet(K), K # {}
    PROVE  {k \in K : \A j \in K : VersionOf(j) <= VersionOf(k)} # {}
<1> DEFINE V == {VersionOf(k) : k \in K}
<1>1. V \in SUBSET Int /\ V # {}
  BY DEF VersionOf
<1>2. IsFiniteSet(V)
  BY PartsFinite
<1>3. PICK v \in V : \A i \in V : v >= i
  BY <1>1, <1>2, GreatestOf
<1>4. PICK k \in K : v = VersionOf(k)
  OBVIOUS
<1>5. \A j \in K : VersionOf(j) \in V /\ VersionOf(j) \in Nat
  BY DEF VersionOf
<1>6. \A j \in K : VersionOf(j) <= VersionOf(k)
  BY <1>3, <1>4, <1>5
<1> QED
  BY <1>6

LEMMA HighestFacts ==
    ASSUME NEW K \in SUBSET (Nat \X Nat), IsFiniteSet(K), K # {}
    PROVE  Highest(K) \in K
BY TopExists DEF Highest

\* ... and one after which no other is listed.
LEMMA LastOf ==
    ASSUME NEW K \in SUBSET (Nat \X Nat), IsFiniteSet(K), K # {}
    PROVE  \E k \in K : \A j \in K \ {k} : Before(j, k)
<1> DEFINE N == {NameOf(k) : k \in K}
<1>0. \A k \in K : k = <<k[1], k[2]>> /\ k[1] \in Nat /\ k[2] \in Nat
  OBVIOUS
<1>1. N \in SUBSET Int /\ N # {} /\ IsFiniteSet(N)
  <2>1. IsFiniteSet(N)
    BY PartsFinite
  <2> QED
    BY <1>0, <2>1 DEF NameOf
<1>2. PICK n \in N : \A i \in N : n >= i
  BY <1>1, GreatestOf
<1> DEFINE L == {k \in K : NameOf(k) = n}
           V == {VersionOf(k) : k \in L}
<1>3. L # {} /\ IsFiniteSet(L)
  BY FS_Subset
<1>4. V \in SUBSET Int /\ V # {}
  BY <1>3 DEF VersionOf
<1>5. IsFiniteSet(V)
  BY <1>3, PartsFinite
<1>6. PICK v \in V : \A i \in V : v >= i
  BY <1>4, <1>5, GreatestOf
<1>7. PICK k \in L : v = VersionOf(k)
  OBVIOUS
<1>8. ASSUME NEW j \in K \ {k} PROVE Before(j, k)
  <2>1. n >= NameOf(j) /\ NameOf(k) = n
    BY <1>2
  <2>2. NameOf(j) \in Nat /\ NameOf(k) \in Nat /\ VersionOf(j) \in Nat /\ VersionOf(k) \in Nat
    BY <1>0 DEF NameOf, VersionOf
  <2>3. CASE NameOf(j) = n
    <3>1. j \in L
      BY <2>3
    <3>2. v >= VersionOf(j)
      BY <1>6, <3>1
    <3>3. j = <<NameOf(j), VersionOf(j)>> /\ k = <<NameOf(k), VersionOf(k)>>
      BY <1>0 DEF NameOf, VersionOf
    <3>4. VersionOf(j) # VersionOf(k)
      BY <1>8, <2>1, <2>3, <3>3
    <3> QED
      BY <1>7, <2>1, <2>2, <2>3, <3>2, <3>4 DEF Before
  <2>4. CASE NameOf(j) # n
    BY <2>1, <2>2, <2>4 DEF Before
  <2> QED
    BY <2>3, <2>4
<1> QED
  BY <1>8

\* list() of finitely many keys has each of them at one index.
LEMMA ListedFacts ==
    ASSUME NEW K \in SUBSET (Nat \X Nat), IsFiniteSet(K)
    PROVE  Cardinality(K) \in Nat /\ Listed(K) \in [1..Cardinality(K) -> K]
<1> DEFINE Sorted(s) == \A i, j \in DOMAIN s : i < j => Before(s[i], s[j])
           Has(R) == \E s \in SetToSeqs(R) : Sorted(s)
           Bad(R) == IsFiniteSet(R) /\ ~Has(R)
           T == {n \in Nat : \E R \in SUBSET (Nat \X Nat) : Bad(R) /\ Cardinality(R) = n}
<1>0. Cardinality(K) \in Nat
  BY FS_CardinalityType
<1>1. ASSUME T # {} PROVE FALSE
  <2>1. PICK n \in T : \A i \in T : n <= i
    BY <1>1, LeastOf
  <2>2. PICK R \in SUBSET (Nat \X Nat) : Bad(R) /\ Cardinality(R) = n
    OBVIOUS
  <2>3. CASE R = {}
    <3> DEFINE s == [i \in 1..0 |-> i]
    <3>1. n = 0
      BY <2>2, <2>3, FS_EmptySet
    <3>2. 1..0 = {}
      OBVIOUS
    <3>3. s \in [1..0 -> R] /\ DOMAIN s = {}
      BY <3>2
    <3>4. Cardinality(R) = 0
      BY <2>2, <3>1
    <3>5. s \in SetToSeqs(R)
      BY <3>2, <3>3, <3>4 DEF SetToSeqs
    <3>6. Sorted(s)
      BY <3>3
    <3> QED
      BY <2>2, <3>5, <3>6
  <2>4. CASE R # {}
    <3>1. PICK x \in R : \A j \in R \ {x} : Before(j, x)
      BY <2>2, <2>4, LastOf
    <3> DEFINE Q == R \ {x}
    <3>2. IsFiniteSet(Q) /\ Cardinality(Q) = n - 1
      BY <2>2, FS_RemoveElement
    <3>3. Cardinality(Q) \in Nat /\ n \in Nat /\ ~(n <= n - 1)
      BY <3>2, FS_CardinalityType
    <3>4. Has(Q)
      <4>1. Q \in SUBSET (Nat \X Nat) /\ n - 1 \notin T
        BY <2>1, <3>3
      <4> HIDE DEF Has, Q
      <4> QED
        BY <3>2, <3>3, <4>1
    <3>5. PICK s \in SetToSeqs(Q) : Sorted(s)
      BY <3>4
    <3>6. s \in [1..(n - 1) -> Q] /\ \A i, j \in 1..(n - 1) : i # j => s[i] # s[j]
      BY <3>2, <3>5 DEF SetToSeqs
    <3> DEFINE t == [i \in 1..n |-> IF i = n THEN x ELSE s[i]]
    <3>7. \A i \in 1..n : i # n => i \in 1..(n - 1)
      BY <3>3
    <3>8. \A i \in 1..n : t[i] = (IF i = n THEN x ELSE s[i]) /\ (i # n => s[i] \in Q)
      BY <3>6, <3>7
    <3>9. t \in [1..n -> R] /\ DOMAIN t = 1..n
      BY <3>8
    <3> HIDE DEF t
    <3>10. \A i, j \in 1..n : i # j => t[i] # t[j]
      BY <3>6, <3>7, <3>8
    <3>11. t \in SetToSeqs(R)
      BY <2>2, <3>9, <3>10 DEF SetToSeqs
    <3>12. Sorted(t)
      <4> SUFFICES ASSUME NEW i \in 1..n, NEW j \in 1..n, i < j PROVE Before(t[i], t[j])
        BY <3>9
      <4>1. i # n
        BY <3>3
      <4>2. CASE j = n
        BY <3>1, <3>8, <4>1, <4>2
      <4>3. CASE j # n
        <5>1. Before(s[i], s[j])
          BY <3>5, <3>6, <3>7, <4>1, <4>3
        <5> QED
          BY <3>8, <4>1, <4>3, <5>1
      <4> QED
        BY <4>2, <4>3
    <3> QED
      BY <2>2, <3>11, <3>12
  <2> QED
    BY <2>3, <2>4
<1>2. Has(K)
  <2> HIDE DEF Has
  <2> QED
    BY <1>0, <1>1
<1>3. Listed(K) \in SetToSeqs(K)
  BY <1>2 DEF Listed
<1> QED
  BY <1>0, <1>3 DEF SetToSeqs

(***************************************************************************)
(* FoldLeft is a function on the subsets of the indices, defined by its    *)
(* own equation.  For an operation that stays within a set there is a      *)
(* function that satisfies it, and every function that does stays within.  *)
(***************************************************************************)
FoldsOver(g, A, F, base, seq, n) ==
    /\ g \in [SUBSET (1..n) -> A]
    /\ \A s \in SUBSET (1..n) :
          g[s] = IF s = {} THEN base ELSE F[<<g[s \ {Max(s)}], seq[Max(s)]>>]

LEMMA FoldExists ==
    ASSUME NEW A, NEW K, NEW F \in [A \X K -> A], NEW base \in A, NEW n \in Nat,
           NEW seq \in [1..n -> K]
    PROVE  \E g : FoldsOver(g, A, F, base, seq, n)
<1> DEFINE Eq(m) == \E g \in [SUBSET (1..m) -> A] :
                       \A s \in SUBSET (1..m) :
                           g[s] = IF s = {} THEN base ELSE F[<<g[s \ {Max(s)}], seq[Max(s)]>>]
           T == {m \in Nat : m <= n /\ ~Eq(m)}
<1>1. ASSUME T # {} PROVE FALSE
  <2>1. PICK m \in T : \A i \in T : m <= i
    BY <1>1, LeastOf
  <2>2. m \in Nat /\ m <= n /\ ~Eq(m)
    OBVIOUS
  <2>3. CASE m = 0
    <3> DEFINE g == [s \in SUBSET (1..m) |-> base]
    <3>1. \A s \in SUBSET (1..m) : s = {}
      BY <2>3
    <3>2. g \in [SUBSET (1..m) -> A] /\ \A s \in SUBSET (1..m) : g[s] = base
      OBVIOUS
    <3> HIDE DEF g
    <3> QED
      BY <2>2, <3>1, <3>2
  <2>4. CASE m # 0
    <3>1. m - 1 \in Nat /\ m - 1 <= n /\ ~(m <= m - 1) /\ m \in 1..n /\ m \in 1..m
      BY <2>2, <2>4
    <3>2. Eq(m - 1)
      <4> HIDE DEF Eq
      <4> QED
        BY <2>1, <3>1
    <3>3. PICK g \in [SUBSET (1..(m - 1)) -> A] :
             \A s \in SUBSET (1..(m - 1)) :
                 g[s] = IF s = {} THEN base ELSE F[<<g[s \ {Max(s)}], seq[Max(s)]>>]
      BY <3>2
    <3> DEFINE h == [s \in SUBSET (1..m) |-> IF m \in s THEN F[<<g[s \ {m}], seq[m]>>] ELSE g[s]]
    <3>4. \A s \in SUBSET (1..m) : /\ s \ {m} \in SUBSET (1..(m - 1))
                                   /\ m \notin s => s \in SUBSET (1..(m - 1))
      BY <3>1
    <3>5. seq[m] \in K
      BY <3>1
    <3>6. \A s \in SUBSET (1..m) : h[s] = (IF m \in s THEN F[<<g[s \ {m}], seq[m]>>] ELSE g[s])
      OBVIOUS
    <3>7. h \in [SUBSET (1..m) -> A]
      <4>1. ASSUME NEW s \in SUBSET (1..m)
            PROVE  (IF m \in s THEN F[<<g[s \ {m}], seq[m]>>] ELSE g[s]) \in A
        BY <3>4, <3>5
      <4> QED
        BY <4>1
    <3> HIDE DEF h
    <3>8. ASSUME NEW s \in SUBSET (1..m)
          PROVE  h[s] = IF s = {} THEN base ELSE F[<<h[s \ {Max(s)}], seq[Max(s)]>>]
      <4>1. CASE m \in s
        <5>1. Max(s) \in s /\ Max(s) >= m
          BY <2>2, <4>1, MaxFacts
        <5>2. Max(s) = m
          <6>1. PICK x \in 1..m : x = Max(s)
            BY <5>1
          <6>2. x >= m
            BY <5>1, <6>1
          <6>3. x = m
            BY <2>2, <6>2
          <6> QED
            BY <6>1, <6>3
        <5>3. h[s \ {m}] = g[s \ {m}]
          <6>1. s \ {m} \in SUBSET (1..m) /\ m \notin s \ {m}
            OBVIOUS
          <6> QED
            BY <3>6, <6>1
        <5>4. h[s] = F[<<g[s \ {m}], seq[m]>>]
          BY <3>6, <4>1
        <5> QED
          BY <4>1, <5>2, <5>3, <5>4
      <4>2. CASE m \notin s
        <5>1. h[s] = g[s] /\ s \in SUBSET (1..(m - 1))
          BY <3>4, <3>6, <4>2
        <5>2. s \ {Max(s)} \in SUBSET (1..m) /\ m \notin s \ {Max(s)}
          BY <4>2
        <5>3. h[s \ {Max(s)}] = g[s \ {Max(s)}]
          BY <3>6, <5>2
        <5> QED
          BY <3>3, <5>1, <5>3
      <4> QED
        BY <4>1, <4>2
    <3>9. Eq(m)
      BY <3>7, <3>8
    <3> QED
      BY <2>2, <3>9
  <2> QED
    BY <2>3, <2>4
<1>2. Eq(n)
  <2> HIDE DEF Eq
  <2> QED
    BY <1>1
<1> QED
  BY <1>2 DEF FoldsOver

LEMMA FoldStays ==
    ASSUME NEW A, NEW n \in Nat, NEW g,
           \A s \in SUBSET (1..n) : s = {} \/ g[s \ {Max(s)}] \in A => g[s] \in A
    PROVE  g[1..n] \in A
<1> DEFINE T == {m \in Nat : m <= n /\ \E s \in SUBSET (1..m) : g[s] \notin A}
<1>1. ASSUME T # {} PROVE FALSE
  <2>1. PICK m \in T : \A i \in T : m <= i
    BY <1>1, LeastOf
  <2>2. m \in Nat /\ m <= n
    OBVIOUS
  <2>3. PICK s \in SUBSET (1..m) : g[s] \notin A
    OBVIOUS
  <2>4. s \in SUBSET (1..n)
    BY <2>2
  <2>5. s # {} /\ g[s \ {Max(s)}] \notin A
    BY <2>3, <2>4
  <2>6. Max(s) \in s /\ \A i \in s : Max(s) >= i
    BY <2>2, <2>5, MaxFacts
  <2>x. PICK x \in 1..m : x = Max(s)
    BY <2>6
  <2> DEFINE k == x - 1
  <2>7. k \in Nat /\ k <= n /\ ~(m <= k)
    BY <2>2
  <2>8. s \ {Max(s)} \in SUBSET (1..k)
    <3>1. \A i \in s : x >= i /\ i \in 1..m
      BY <2>6, <2>x
    <3>2. \A i \in s : i # x => i \in 1..k
      BY <2>2, <3>1
    <3> QED
      BY <2>x, <3>2
  <2> HIDE DEF k
  <2>9. k \in T
    BY <2>5, <2>7, <2>8
  <2> QED
    BY <2>1, <2>7, <2>9
<1> QED
  BY <1>1

(***************************************************************************)
(* The registries as values: what every registry of agents satisfies, and  *)
(* that the operations of AgentRegistry keep it.                           *)
(***************************************************************************)
Partial(K, V) == UNION {[D -> V] : D \in SUBSET K}

Specs == [tags: SUBSET Tags, enabled: BOOLEAN]

\* every key of K has a place in the order
Placed(order, K) == order \in Seq(AgentKeys) /\ \A k \in K : \E i \in DOMAIN order : order[i] = k

AgentRegs ==
    {reg \in [agents: Partial(AgentKeys, Specs), routes: Partial(Tags, AgentKeys), order: Seq(AgentKeys)] :
        /\ \A t \in DOMAIN reg.routes : reg.routes[t] \in Serving(reg.agents, t)
        /\ Placed(reg.order, DOMAIN reg.agents)}

LEMMA PartialFacts ==
    ASSUME NEW K, NEW V, NEW f \in Partial(K, V)
    PROVE  DOMAIN f \in SUBSET K /\ (\A x \in DOMAIN f : f[x] \in V) /\ f = [x \in DOMAIN f |-> f[x]]
BY DEF Partial

LEMMA PartialMade ==
    ASSUME NEW K, NEW V, NEW D \in SUBSET K, NEW f \in [D -> V]
    PROVE  f \in Partial(K, V)
BY DEF Partial

LEMMA PutFacts ==
    ASSUME NEW K, NEW V, NEW f \in Partial(K, V), NEW x \in K, NEW v \in V
    PROVE  /\ Put(f, x, v) \in Partial(K, V) /\ DOMAIN Put(f, x, v) = DOMAIN f \cup {x}
           /\ Put(f, x, v)[x] = v /\ \A y \in DOMAIN f \ {x} : Put(f, x, v)[y] = f[y]
<1>1. DOMAIN f \in SUBSET K /\ \A y \in DOMAIN f : f[y] \in V
  BY PartialFacts
<1>2. Put(f, x, v) \in [DOMAIN f \cup {x} -> V]
  BY <1>1 DEF Put
<1>3. DOMAIN f \cup {x} \in SUBSET K
  BY <1>1
<1>4. Put(f, x, v) \in Partial(K, V)
  BY <1>2, <1>3, PartialMade
<1> QED
  BY <1>4 DEF Put

LEMMA DropFacts ==
    ASSUME NEW K, NEW V, NEW f \in Partial(K, V), NEW X
    PROVE  /\ Drop(f, X) \in Partial(K, V) /\ DOMAIN Drop(f, X) = DOMAIN f \ X
           /\ \A y \in DOMAIN f \ X : Drop(f, X)[y] = f[y]
<1>1. DOMAIN f \in SUBSET K /\ \A y \in DOMAIN f : f[y] \in V
  BY PartialFacts
<1>2. Drop(f, X) \in [DOMAIN f \ X -> V]
  BY <1>1 DEF Drop
<1>3. DOMAIN f \ X \in SUBSET K
  BY <1>1
<1>4. Drop(f, X) \in Partial(K, V)
  BY <1>2, <1>3, PartialMade
<1> QED
  BY <1>4 DEF Drop

LEMMA RegMade ==
    ASSUME NEW as \in Partial(AgentKeys, Specs), NEW rs \in Partial(Tags, AgentKeys), NEW os,
           \A t \in DOMAIN rs : rs[t] \in Serving(as, t), Placed(os, DOMAIN as)
    PROVE  [agents |-> as, order |-> os, routes |-> rs] \in AgentRegs
BY DEF AgentRegs, Placed

LEMMA RegFacts ==
    ASSUME NEW reg \in AgentRegs
    PROVE  /\ reg.agents \in Partial(AgentKeys, Specs) /\ reg.routes \in Partial(Tags, AgentKeys)
           /\ DOMAIN reg.agents \in SUBSET AgentKeys /\ \A k \in DOMAIN reg.agents : reg.agents[k] \in Specs
           /\ DOMAIN reg.routes \in SUBSET Tags
           /\ \A t \in DOMAIN reg.routes : reg.routes[t] \in Serving(reg.agents, t)
           /\ reg = [agents |-> reg.agents, order |-> reg.order, routes |-> reg.routes]
           /\ Placed(reg.order, DOMAIN reg.agents)
<1>1. /\ reg.agents \in Partial(AgentKeys, Specs) /\ reg.routes \in Partial(Tags, AgentKeys)
      /\ reg = [agents |-> reg.agents, order |-> reg.order, routes |-> reg.routes]
      /\ \A t \in DOMAIN reg.routes : reg.routes[t] \in Serving(reg.agents, t)
      /\ Placed(reg.order, DOMAIN reg.agents)
  BY DEF AgentRegs
<1> QED
  BY <1>1, PartialFacts

\* Of several keys that have a place one is the first.
LEMMA FirstFacts ==
    ASSUME NEW os, NEW K, Placed(os, K), K # {}
    PROVE  FirstOf(os, K) \in K
<1> DEFINE P(i) == i \in DOMAIN os /\ os[i] \in K
           I == {i \in Nat : P(i)}
<1>1. os \in Seq(AgentKeys) /\ DOMAIN os \in SUBSET Nat
  BY DEF Placed
<1>2. I \in SUBSET Nat /\ I # {}
  BY <1>1 DEF Placed
<1>3. PICK i \in I : \A j \in I : i <= j
  <2> HIDE DEF I
  <2> QED
    BY <1>2, LeastOf
<1>4. i \in DOMAIN os /\ os[i] \in K /\ i \in Nat
  OBVIOUS
<1>5. \A j \in 1..(i - 1) : os[j] \notin K
  <2> SUFFICES ASSUME NEW j \in 1..(i - 1), os[j] \in K PROVE FALSE
    OBVIOUS
  <2>1. j \in DOMAIN os /\ j \in Nat /\ j < i
    BY <1>1, <1>4
  <2>2. j \in I
    BY <2>1
  <2>3. i <= j
    BY <1>3, <2>2
  <2> QED
    BY <1>4, <2>1, <2>3
<1> QED
  BY <1>4, <1>5 DEF FirstOf

LEMMA PlacedFewer ==
    ASSUME NEW os, NEW K, Placed(os, K), NEW L \in SUBSET K
    PROVE  Placed(os, L)
BY DEF Placed

LEMMA PlacedMore ==
    ASSUME NEW os, NEW K, Placed(os, K), NEW k \in AgentKeys
    PROVE  Placed(Append(os, k), K \cup {k})
<1>1. os \in Seq(AgentKeys) /\ Append(os, k) \in Seq(AgentKeys)
  BY DEF Placed
<1>2. DOMAIN Append(os, k) = 1..(Len(os) + 1) /\ Append(os, k)[Len(os) + 1] = k /\ DOMAIN os = 1..Len(os)
  BY <1>1
<1>3. \A i \in DOMAIN os : i \in DOMAIN Append(os, k) /\ Append(os, k)[i] = os[i]
  BY <1>1
<1> QED
  BY <1>1, <1>2, <1>3 DEF Placed

\* The other keys keep a place when one is removed.
LEMMA PlacedRemoved ==
    ASSUME NEW os, NEW K, Placed(os, K), NEW k
    PROVE  Placed(RemoveFirst(os, k), K \ {k})
<1> DEFINE I == {i \in 1..Len(os) : os[i] = k}
           m == Min(I)
           rs == SubSeq(os, 1, m - 1) \o SubSeq(os, m + 1, Len(os))
<1>1. os \in Seq(AgentKeys) /\ Len(os) \in Nat /\ DOMAIN os = 1..Len(os)
  BY DEF Placed
<1>2. CASE I = {}
  <2>1. RemoveFirst(os, k) = os
    BY <1>2 DEF RemoveFirst
  <2> QED
    BY <2>1 DEF Placed
<1>3. CASE I # {}
  <2>1. RemoveFirst(os, k) = rs
    BY <1>3 DEF RemoveFirst, RemoveAt, SelectInSeq
  <2>2. I \in SUBSET Nat
    OBVIOUS
  <2>3. m \in I
    <3> HIDE DEF I
    <3>1. \E x \in I : \A y \in I : x <= y
      BY <1>3, <2>2, LeastOf
    <3> QED
      BY <3>1 DEF Min
  <2>4. m \in 1..Len(os) /\ os[m] = k
    BY <2>3
  <2> HIDE DEF m, I
  <2> DEFINE f == SubSeq(os, 1, m - 1)
             g == SubSeq(os, m + 1, Len(os))
  <2>5. f \in Seq(AgentKeys) /\ Len(f) = m - 1 /\ \A i \in 1..(m - 1) : f[i] = os[i]
    BY <1>1, <2>4
  <2>6. g \in Seq(AgentKeys) /\ Len(g) = Len(os) - m /\ \A i \in 1..(Len(os) - m) : g[i] = os[m + i]
    <3> DEFINE a == m + 1
               b == Len(os)
    <3>1. a \in Int /\ b \in Int /\ a >= 1 /\ b <= Len(os) /\ b - a + 1 = Len(os) - m /\ Len(os) - m \in Nat
      BY <1>1, <2>4
    <3> HIDE DEF a, b
    <3>2. SubSeq(os, a, b) = [i \in 1..(b - a + 1) |-> os[a + i - 1]]
      BY <1>1, <3>1
    <3>3. \A i \in 1..(Len(os) - m) : a + i - 1 = m + i /\ m + i \in 1..Len(os)
      BY <1>1, <2>4 DEF a
    <3>4. g = [i \in 1..(Len(os) - m) |-> os[m + i]]
      BY <3>1, <3>2, <3>3 DEF a, b
    <3>5. \A i \in 1..(Len(os) - m) : os[m + i] \in AgentKeys
      BY <1>1, <3>3
    <3> DEFINE n == Len(os) - m
    <3>6. n \in Nat /\ g \in [1..n -> AgentKeys] /\ \A i \in 1..n : g[i] = os[m + i]
      BY <3>1, <3>4, <3>5
    <3> HIDE DEF n, g
    <3>7. g \in Seq(AgentKeys) /\ Len(g) = n
      BY <3>6
    <3> QED
      BY <3>6, <3>7 DEF n
  <2> HIDE DEF f, g
  <2>7. /\ f \o g \in Seq(AgentKeys) /\ Len(f \o g) = Len(os) - 1 /\ DOMAIN (f \o g) = 1..(Len(os) - 1)
        /\ \A i \in 1..(m - 1) : (f \o g)[i] = f[i]
        /\ \A i \in 1..(Len(os) - m) : (f \o g)[m - 1 + i] = g[i]
    <3> DEFINE n == Len(os) - m
               l == m - 1
    <3>1. n \in Nat /\ l \in Nat /\ l + n = Len(os) - 1
      BY <1>1, <2>4
    <3>2. Len(f) = l /\ Len(g) = n
      BY <2>5, <2>6
    <3> HIDE DEF n, l
    <3>3. /\ f \o g \in Seq(AgentKeys) /\ Len(f \o g) = l + n /\ DOMAIN (f \o g) = 1..(l + n)
          /\ \A i \in 1..l : (f \o g)[i] = f[i]
          /\ \A i \in 1..n : (f \o g)[l + i] = g[i]
      BY <2>5, <2>6, <3>1, <3>2
    <3> QED
      BY <3>1, <3>3 DEF n, l
  <2>8. ASSUME NEW j \in K \ {k} PROVE \E i \in DOMAIN (f \o g) : (f \o g)[i] = j
    <3>1. PICK i \in 1..Len(os) : os[i] = j
      BY <1>1 DEF Placed
    <3>2. i # m
      BY <2>4, <3>1
    <3>3. CASE i < m
      <4>1. i \in 1..(m - 1) /\ i \in 1..(Len(os) - 1)
        BY <1>1, <2>4, <3>3
      <4> QED
        BY <2>5, <2>7, <3>1, <4>1
    <3>4. CASE i > m
      <4>1. i - m \in 1..(Len(os) - m) /\ i - 1 \in 1..(Len(os) - 1) /\ m + (i - m) = i /\ m - 1 + (i - m) = i - 1
        BY <1>1, <2>4, <3>4
      <4>2. g[i - m] = os[m + (i - m)] /\ (f \o g)[m - 1 + (i - m)] = g[i - m]
        BY <2>6, <2>7, <4>1
      <4>3. (f \o g)[i - 1] = j
        BY <3>1, <4>1, <4>2
      <4> QED
        BY <2>7, <4>1, <4>3
    <3> QED
      BY <2>4, <3>2, <3>3, <3>4
  <2> QED
    BY <2>1, <2>7, <2>8 DEF Placed, f, g
<1> QED
  BY <1>2, <1>3

\* The agents that serve a tag, if there are any, have a latest.
LEMMA LatestServing ==
    ASSUME NEW as \in Partial(AgentKeys, Specs), NEW os, Placed(os, DOMAIN as), NEW t, Serving(as, t) # {}
    PROVE  Latest(as, os, t) \in Serving(as, t) /\ Serving(as, t) \in SUBSET AgentKeys
<1> DEFINE S == Serving(as, t)
           top == {k \in S : \A j \in S : VersionOf(j) <= VersionOf(k)}
<1>1. S \in SUBSET AgentKeys /\ S \in SUBSET (DOMAIN as)
  BY PartialFacts DEF Serving
<1>2. S \in SUBSET (Nat \X Nat) /\ IsFiniteSet(S)
  BY <1>1, KeyAssumption, FS_Subset
<1> HIDE DEF S
<1>3. top # {}
  BY <1>2, TopExists DEF S
<1>4. Placed(os, top)
  BY <1>1, PlacedFewer
<1> HIDE DEF top
<1>5. FirstOf(os, top) \in top
  BY <1>3, <1>4, FirstFacts
<1> QED
  BY <1>1, <1>5 DEF Latest, top, S

\* Routes that serve go on serving when tags are handed over.
LEMMA HandedFacts ==
    ASSUME NEW as \in Partial(AgentKeys, Specs), NEW rs \in Partial(Tags, AgentKeys), NEW os,
           Placed(os, DOMAIN as),
           NEW T \in SUBSET Tags, \A t \in DOMAIN rs : rs[t] \in Serving(as, t)
    PROVE  [agents |-> as, order |-> os, routes |-> Handed(as, os, rs, T)] \in AgentRegs
<1> DEFINE S == {t \in T : Serving(as, t) # {}}
           h == Handed(as, os, rs, T)
<1>1. h = [t \in DOMAIN rs \cup S |-> IF t \in S THEN Latest(as, os, t) ELSE rs[t]]
  BY DEF Handed
<1>2. \A t \in S : Latest(as, os, t) \in Serving(as, t) /\ Serving(as, t) \in SUBSET AgentKeys
  BY LatestServing
<1>3. DOMAIN rs \in SUBSET Tags /\ \A t \in DOMAIN rs : rs[t] \in AgentKeys
  BY PartialFacts
<1> HIDE DEF S, h
<1>4. \A t \in DOMAIN rs \cup S : /\ (IF t \in S THEN Latest(as, os, t) ELSE rs[t]) \in Serving(as, t)
                                  /\ (IF t \in S THEN Latest(as, os, t) ELSE rs[t]) \in AgentKeys
  BY <1>2, <1>3
<1>5. h \in [DOMAIN rs \cup S -> AgentKeys] /\ DOMAIN rs \cup S \in SUBSET Tags
  BY <1>1, <1>3, <1>4 DEF S
<1>6. h \in Partial(Tags, AgentKeys)
  BY <1>5, PartialMade
<1>7. \A t \in DOMAIN h : h[t] \in Serving(as, t)
  BY <1>1, <1>4
<1>8. [agents |-> as, order |-> os, routes |-> h] \in AgentRegs
  BY <1>6, <1>7, RegMade
<1> QED
  BY <1>8 DEF h

\* The routes of the other keys go on serving when only k's agent changes.
LEMMA OtherRoutes ==
    ASSUME NEW reg \in AgentRegs, NEW k, NEW as,
           \A j \in DOMAIN reg.agents \ {k} : j \in DOMAIN as /\ as[j] = reg.agents[j]
    PROVE  LET kept == Drop(reg.routes, RoutedTo(reg, k))
           IN  /\ kept \in Partial(Tags, AgentKeys) /\ DOMAIN kept \in SUBSET Tags
               /\ \A t \in DOMAIN kept : kept[t] \in Serving(as, t)
<1> DEFINE kept == Drop(reg.routes, RoutedTo(reg, k))
<1>1. /\ reg.routes \in Partial(Tags, AgentKeys)
      /\ \A t \in DOMAIN reg.routes : reg.routes[t] \in Serving(reg.agents, t)
  BY RegFacts
<1>2. /\ kept \in Partial(Tags, AgentKeys) /\ DOMAIN kept = DOMAIN reg.routes \ RoutedTo(reg, k)
      /\ \A t \in DOMAIN reg.routes \ RoutedTo(reg, k) : kept[t] = reg.routes[t]
  <2> DEFINE f == reg.routes
             X == RoutedTo(reg, k)
  <2>1. f \in Partial(Tags, AgentKeys)
    BY <1>1
  <2> HIDE DEF f, X
  <2>2. Drop(f, X) \in Partial(Tags, AgentKeys)
    BY <2>1, DropFacts
  <2>3. DOMAIN Drop(f, X) = DOMAIN f \ X
    BY DEF Drop
  <2>4. \A t \in DOMAIN f \ X : Drop(f, X)[t] = f[t]
    BY DEF Drop
  <2> QED
    BY <2>2, <2>3, <2>4 DEF f, X
<1>3. DOMAIN kept \in SUBSET Tags
  BY <1>2, PartialFacts
<1>4. ASSUME NEW t \in DOMAIN kept PROVE kept[t] \in Serving(as, t)
  <2>1. kept[t] = reg.routes[t] /\ t \in DOMAIN reg.routes /\ reg.routes[t] # k
    BY <1>2 DEF RoutedTo
  <2>2. reg.routes[t] \in Serving(reg.agents, t)
    BY <1>1, <2>1
  <2> QED
    BY <2>1, <2>2 DEF Serving
<1> QED
  BY <1>2, <1>3, <1>4

\* a spec without its enabled flag
LEMMA SpecFacts ==
    ASSUME NEW spec \in Specs
    PROVE  [spec EXCEPT !.enabled = FALSE] \in Specs /\ spec.tags \in SUBSET Tags
BY DEF Specs

LEMMA RegisterKeeps ==
    ASSUME NEW reg \in AgentRegs, NEW k \in AgentKeys, NEW spec \in Specs, NEW makeDefault \in BOOLEAN
    PROVE  Register(reg, k, spec, makeDefault) \in AgentRegs
<1> DEFINE as == Put(reg.agents, k, spec)
           os == Entered(reg, k)
           kept == Drop(reg.routes, RoutedTo(reg, k))
           given == [t \in DOMAIN kept \cup spec.tags |-> IF t \in spec.tags THEN k ELSE kept[t]]
<1>1. /\ as \in Partial(AgentKeys, Specs) /\ DOMAIN as = DOMAIN reg.agents \cup {k} /\ as[k] = spec
      /\ \A j \in DOMAIN reg.agents \ {k} : j \in DOMAIN as /\ as[j] = reg.agents[j]
  <2> DEFINE f == reg.agents
  <2>1. f \in Partial(AgentKeys, Specs)
    BY RegFacts
  <2> HIDE DEF f
  <2>2. /\ Put(f, k, spec) \in Partial(AgentKeys, Specs) /\ DOMAIN Put(f, k, spec) = DOMAIN f \cup {k}
        /\ Put(f, k, spec)[k] = spec /\ \A j \in DOMAIN f \ {k} : Put(f, k, spec)[j] = f[j]
    BY <2>1, PutFacts
  <2> QED
    BY <2>2 DEF f
<1>2. spec.tags \in SUBSET Tags
  BY SpecFacts
<1>0. Placed(os, DOMAIN as)
  <2>1. Placed(reg.order, DOMAIN reg.agents)
    BY RegFacts
  <2>2. CASE k \in DOMAIN reg.agents
    <3>1. os = reg.order /\ DOMAIN as = DOMAIN reg.agents
      BY <1>1, <2>2 DEF Entered
    <3> QED
      BY <2>1, <3>1
  <2>3. CASE k \notin DOMAIN reg.agents
    <3>1. os = Append(reg.order, k)
      BY <2>3 DEF Entered
    <3> QED
      BY <1>1, <2>1, <3>1, PlacedMore
  <2> QED
    BY <2>2, <2>3
<1> HIDE DEF as
<1>3. /\ kept \in Partial(Tags, AgentKeys) /\ DOMAIN kept \in SUBSET Tags
      /\ \A t \in DOMAIN kept : kept[t] \in Serving(as, t)
  BY <1>1, OtherRoutes
<1>4. \A t \in DOMAIN kept : kept[t] \in AgentKeys
  BY <1>3, PartialFacts
<1>5. Register(reg, k, spec, makeDefault) =
        [agents |-> as, order |-> os,
         routes |-> IF spec.enabled /\ makeDefault THEN given
                    ELSE IF k \in DOMAIN reg.agents THEN Handed(as, os, kept, reg.agents[k].tags)
                    ELSE kept]
  BY DEF Register, as
<1> HIDE DEF kept, os
<1>6. CASE spec.enabled /\ makeDefault
  <2>1. given \in [DOMAIN kept \cup spec.tags -> AgentKeys] /\ DOMAIN kept \cup spec.tags \in SUBSET Tags
    BY <1>2, <1>3, <1>4
  <2>2. given \in Partial(Tags, AgentKeys)
    <3> HIDE DEF given
    <3> QED
      BY <2>1, PartialMade
  <2>3. \A t \in DOMAIN given : given[t] \in Serving(as, t)
    <3>1. \A t \in spec.tags : k \in Serving(as, t)
      BY <1>1, <1>6 DEF Serving
    <3> QED
      BY <1>3, <3>1
  <2> HIDE DEF given
  <2>4. [agents |-> as, order |-> os, routes |-> given] \in AgentRegs
    BY <1>0, <1>1, <2>2, <2>3, RegMade
  <2> QED
    BY <1>5, <1>6, <2>4
<1>7. CASE ~(spec.enabled /\ makeDefault) /\ k \in DOMAIN reg.agents
  <2>1. reg.agents[k].tags \in SUBSET Tags
    BY <1>7, RegFacts, SpecFacts
  <2>2. [agents |-> as, order |-> os, routes |-> Handed(as, os, kept, reg.agents[k].tags)] \in AgentRegs
    BY <1>0, <1>1, <1>3, <2>1, HandedFacts
  <2> QED
    BY <1>5, <1>7, <2>2
<1>8. CASE ~(spec.enabled /\ makeDefault) /\ k \notin DOMAIN reg.agents
  <2>1. [agents |-> as, order |-> os, routes |-> kept] \in AgentRegs
    BY <1>0, <1>1, <1>3, RegMade
  <2> QED
    BY <1>5, <1>8, <2>1
<1> QED
  BY <1>6, <1>7, <1>8

LEMMA ReroutedKeeps ==
    ASSUME NEW reg \in AgentRegs, NEW k, NEW as \in Partial(AgentKeys, Specs), NEW os,
           Placed(os, DOMAIN as),
           \A j \in DOMAIN reg.agents \ {k} : j \in DOMAIN as /\ as[j] = reg.agents[j]
    PROVE  Rerouted(reg, as, os, k) \in AgentRegs
<1>1. RoutedTo(reg, k) \in SUBSET Tags
  BY RegFacts DEF RoutedTo
<1> DEFINE kept == Drop(reg.routes, RoutedTo(reg, k))
<1>2. kept \in Partial(Tags, AgentKeys) /\ \A t \in DOMAIN kept : kept[t] \in Serving(as, t)
  BY OtherRoutes
<1> HIDE DEF kept
<1>3. [agents |-> as, order |-> os, routes |-> Handed(as, os, kept, RoutedTo(reg, k))] \in AgentRegs
  BY <1>1, <1>2, HandedFacts
<1> QED
  BY <1>3 DEF Rerouted, kept

LEMMA DeregisterKeeps ==
    ASSUME NEW reg \in AgentRegs, NEW k
    PROVE  Deregister(reg, k) \in AgentRegs
<1> DEFINE as == Drop(reg.agents, {k})
<1>1. /\ as \in Partial(AgentKeys, Specs)
      /\ \A j \in DOMAIN reg.agents \ {k} : j \in DOMAIN as /\ as[j] = reg.agents[j]
  <2> DEFINE f == reg.agents
             X == {k}
  <2>1. f \in Partial(AgentKeys, Specs)
    BY RegFacts
  <2> HIDE DEF f, X
  <2>2. Drop(f, X) \in Partial(AgentKeys, Specs)
    BY <2>1, DropFacts
  <2>3. DOMAIN Drop(f, X) = DOMAIN f \ X
    BY DEF Drop
  <2>4. \A j \in DOMAIN f \ X : Drop(f, X)[j] = f[j]
    BY DEF Drop
  <2> QED
    BY <2>2, <2>3, <2>4 DEF f, X
<1>0. Placed(RemoveFirst(reg.order, k), DOMAIN as)
  <2>1. DOMAIN as = DOMAIN reg.agents \ {k}
    BY DEF Drop
  <2> QED
    BY <2>1, RegFacts, PlacedRemoved
<1> HIDE DEF as
<1>2. Rerouted(reg, as, RemoveFirst(reg.order, k), k) \in AgentRegs
  BY <1>0, <1>1, ReroutedKeeps
<1> QED
  BY <1>2 DEF Deregister, as

LEMMA DisableKeeps ==
    ASSUME NEW reg \in AgentRegs, NEW k \in DOMAIN reg.agents
    PROVE  Disable(reg, k) \in AgentRegs /\ Disable(reg, k).agents[k] \in Specs
<1> DEFINE as == [reg.agents EXCEPT ![k].enabled = FALSE]
<1>1. DOMAIN reg.agents \in SUBSET AgentKeys /\ \A j \in DOMAIN reg.agents : reg.agents[j] \in Specs
  BY RegFacts
<1>2. [reg.agents[k] EXCEPT !.enabled = FALSE] \in Specs
  BY <1>1, SpecFacts
<1>3. /\ DOMAIN as = DOMAIN reg.agents /\ as[k] = [reg.agents[k] EXCEPT !.enabled = FALSE]
      /\ \A j \in DOMAIN reg.agents \ {k} : as[j] = reg.agents[j]
  OBVIOUS
<1>4. as \in [DOMAIN reg.agents -> Specs]
  BY <1>1, <1>2
<1> HIDE DEF as
<1>5. as \in Partial(AgentKeys, Specs)
  BY <1>1, <1>4, PartialMade
<1>6. Rerouted(reg, as, reg.order, k) \in AgentRegs
  BY <1>3, <1>5, RegFacts, ReroutedKeeps
<1>7. Rerouted(reg, as, reg.order, k).agents[k] \in Specs
  BY <1>2, <1>3 DEF Rerouted
<1> QED
  BY <1>6, <1>7 DEF Disable, as

LEMMA SetDefaultKeeps ==
    ASSUME NEW reg \in AgentRegs, NEW k, CanBeDefault(reg, k)
    PROVE  SetDefault(reg, k) \in AgentRegs
<1> DEFINE tags == reg.agents[k].tags
           given == [t \in DOMAIN reg.routes \cup tags |-> IF t \in tags THEN k ELSE reg.routes[t]]
<1>1. k \in DOMAIN reg.agents /\ reg.agents[k].enabled
  BY DEF CanBeDefault
<1>2. /\ k \in AgentKeys /\ tags \in SUBSET Tags
      /\ reg.agents \in Partial(AgentKeys, Specs) /\ DOMAIN reg.routes \in SUBSET Tags
      /\ reg.routes \in Partial(Tags, AgentKeys)
      /\ \A t \in DOMAIN reg.routes : reg.routes[t] \in Serving(reg.agents, t)
      /\ reg = [agents |-> reg.agents, order |-> reg.order, routes |-> reg.routes]
      /\ Placed(reg.order, DOMAIN reg.agents)
  BY <1>1, RegFacts, SpecFacts
<1>3. \A t \in DOMAIN reg.routes : reg.routes[t] \in AgentKeys
  BY <1>2, PartialFacts
<1>4. SetDefault(reg, k) = [agents |-> reg.agents, order |-> reg.order, routes |-> given]
  <2>1. SetDefault(reg, k) = [reg EXCEPT !.routes = given]
    BY DEF SetDefault
  <2> HIDE DEF given
  <2> QED
    BY <1>2, <2>1
<1>5. \A t \in tags : k \in Serving(reg.agents, t)
  BY <1>1 DEF Serving
<1> HIDE DEF tags
<1>6. given \in [DOMAIN reg.routes \cup tags -> AgentKeys] /\ DOMAIN reg.routes \cup tags \in SUBSET Tags
  BY <1>2, <1>3
<1>7. \A t \in DOMAIN given : given[t] \in Serving(reg.agents, t)
  BY <1>2, <1>5
<1> HIDE DEF given
<1>8. given \in Partial(Tags, AgentKeys)
  BY <1>6, PartialMade
<1> QED
  BY <1>2, <1>4, <1>7, <1>8, RegMade


(***************************************************************************)
(* Folds of the operations.  FoldLeft chooses a recursive function of the  *)
(* sets of indices; FoldExists shows that there is one.                    *)
(***************************************************************************)
LEMMA DeregisterFold ==
    ASSUME NEW reg \in AgentRegs, NEW n \in Nat, NEW seq \in [1..n -> AgentKeys]
    PROVE  FoldLeft(Deregister, reg, seq) \in AgentRegs
<1> DEFINE F == [p \in AgentRegs \X AgentKeys |-> Deregister(p[1], p[2])]
           Is(it) == it = [s \in SUBSET (DOMAIN seq) |->
                              IF s = {} THEN reg ELSE Deregister(it[s \ {Max(s)}], seq[Max(s)])]
           iter == CHOOSE it : Is(it)
<1>1. FoldLeft(Deregister, reg, seq) = iter[DOMAIN seq]
  BY Zenon DEF FoldLeft, MapThenFoldSet
<1>2. DOMAIN seq = 1..n
  OBVIOUS
<1>3. F \in [AgentRegs \X AgentKeys -> AgentRegs]
  BY DeregisterKeeps
<1>4. \A a \in AgentRegs, k \in AgentKeys : F[<<a, k>>] = Deregister(a, k)
  OBVIOUS
<1> HIDE DEF F
<1>5. PICK g : FoldsOver(g, AgentRegs, F, reg, seq, n)
  BY <1>3, FoldExists
<1>6. \A s \in SUBSET (1..n) :
         g[s] = IF s = {} THEN reg ELSE Deregister(g[s \ {Max(s)}], seq[Max(s)])
  <2>1. ASSUME NEW s \in SUBSET (1..n), s # {}
        PROVE  g[s \ {Max(s)}] \in AgentRegs /\ seq[Max(s)] \in AgentKeys
    BY <1>5, <2>1, MaxFacts DEF FoldsOver
  <2> QED
    BY <1>4, <1>5, <2>1 DEF FoldsOver
<1>7. Is(g)
  BY <1>2, <1>5, <1>6 DEF FoldsOver
<1>8. Is(iter)
  <2> HIDE DEF Is
  <2> QED
    BY <1>7
<1> HIDE DEF iter
<1>9. \A s \in SUBSET (1..n) :
         iter[s] = IF s = {} THEN reg ELSE Deregister(iter[s \ {Max(s)}], seq[Max(s)])
  BY <1>2, <1>8
<1>10. \A s \in SUBSET (1..n) : s = {} \/ iter[s \ {Max(s)}] \in AgentRegs => iter[s] \in AgentRegs
  BY <1>9, DeregisterKeeps
<1>11. iter[1..n] \in AgentRegs
  BY <1>10, FoldStays
<1> QED
  BY <1>1, <1>2, <1>11


Loadings == [reg: AgentRegs, ok: BOOLEAN]

LEMMA LoadOneKeeps ==
    ASSUME NEW acc \in Loadings, NEW k \in AgentKeys, NEW spec \in Specs
    PROVE  (IF ~acc.ok \/ Refused(acc.reg, k, spec, TRUE) THEN [acc EXCEPT !.ok = FALSE]
            ELSE [acc EXCEPT !.reg = Register(@, k, spec, TRUE)]) \in Loadings
<1>1. acc.reg \in AgentRegs
  BY DEF Loadings
<1>2. Register(acc.reg, k, spec, TRUE) \in AgentRegs
  BY <1>1, RegisterKeeps
<1>3. [acc EXCEPT !.ok = FALSE] \in Loadings
  BY DEF Loadings
<1>4. [acc EXCEPT !.reg = Register(@, k, spec, TRUE)] \in Loadings
  BY <1>2 DEF Loadings
<1> QED
  BY <1>3, <1>4

LEMMA RegisterFold ==
    ASSUME NEW reg \in AgentRegs, NEW K \in SUBSET AgentKeys, NEW n \in Nat, NEW seq \in [1..n -> K],
           NEW specs, \A k \in K : specs[k] \in Specs
    PROVE  RegisterAll(reg, seq, specs) \in Loadings
<1> DEFINE Op(acc, k) ==
               IF ~acc.ok \/ Refused(acc.reg, k, specs[k], TRUE) THEN [acc EXCEPT !.ok = FALSE]
               ELSE [acc EXCEPT !.reg = Register(@, k, specs[k], TRUE)]
           base == [reg |-> reg, ok |-> TRUE]
           F == [p \in Loadings \X K |-> Op(p[1], p[2])]
           Is(it) == it = [s \in SUBSET (DOMAIN seq) |->
                              IF s = {} THEN base ELSE Op(it[s \ {Max(s)}], seq[Max(s)])]
           iter == CHOOSE it : Is(it)
<1>1. RegisterAll(reg, seq, specs) = iter[DOMAIN seq]
  BY Zenon DEF RegisterAll, FoldLeft, MapThenFoldSet
<1>2. DOMAIN seq = 1..n /\ base \in Loadings
  BY DEF Loadings
<1>3. \A a \in Loadings, k \in K : Op(a, k) \in Loadings
  BY LoadOneKeeps
<1> HIDE DEF Op, base
<1>4. \A a \in Loadings, k \in K : F[<<a, k>>] = Op(a, k)
  OBVIOUS
<1>5. F \in [Loadings \X K -> Loadings]
  BY <1>3
<1> HIDE DEF F
<1>6. PICK g : FoldsOver(g, Loadings, F, base, seq, n)
  BY <1>2, <1>5, FoldExists
<1>7. \A s \in SUBSET (1..n) : g[s] = IF s = {} THEN base ELSE Op(g[s \ {Max(s)}], seq[Max(s)])
  <2>1. ASSUME NEW s \in SUBSET (1..n), s # {}
        PROVE  g[s \ {Max(s)}] \in Loadings /\ seq[Max(s)] \in K
    BY <1>6, <2>1, MaxFacts DEF FoldsOver
  <2> QED
    BY <1>4, <1>6, <2>1 DEF FoldsOver
<1>8. Is(g)
  BY <1>2, <1>6, <1>7 DEF FoldsOver
<1>9. Is(iter)
  <2> HIDE DEF Is
  <2> QED
    BY <1>8
<1> HIDE DEF iter
<1>10. \A s \in SUBSET (1..n) :
          iter[s] = IF s = {} THEN base ELSE Op(iter[s \ {Max(s)}], seq[Max(s)])
  BY <1>2, <1>9
<1>11. ASSUME NEW s \in SUBSET (1..n), s = {} \/ iter[s \ {Max(s)}] \in Loadings
       PROVE  iter[s] \in Loadings
  <2>1. CASE s = {}
    BY <1>2, <1>10, <2>1
  <2>2. CASE s # {}
    <3>1. seq[Max(s)] \in K
      BY <2>2, MaxFacts
    <3> QED
      BY <1>3, <1>10, <1>11, <2>2, <3>1
  <2> QED
    BY <2>1, <2>2
<1>12. iter[1..n] \in Loadings
  BY <1>11, FoldStays
<1> QED
  BY <1>1, <1>2, <1>12

\* ConfigWatcher._reload_agents keeps the routes serving, however far it comes.
LEMMA ReloadKeeps ==
    ASSUME NEW reg \in AgentRegs, NEW rows \in Partial(AgentKeys, Specs)
    PROVE  ReloadAgents(reg, rows).reg \in AgentRegs
<1> DEFINE G == DOMAIN reg.agents \ DOMAIN rows
           C == {k \in DOMAIN rows : k \notin DOMAIN reg.agents \/ reg.agents[k] # rows[k]}
           mid == FoldLeft(Deregister, reg, Listed(G))
<1>1. G \in SUBSET AgentKeys /\ C \in SUBSET AgentKeys /\ \A k \in C : rows[k] \in Specs
  BY RegFacts, PartialFacts
<1>2. ReloadAgents(reg, rows) = RegisterAll(mid, Listed(C), rows)
  BY DEF ReloadAgents
<1> HIDE DEF G, C
<1>3. /\ G \in SUBSET (Nat \X Nat) /\ IsFiniteSet(G)
      /\ C \in SUBSET (Nat \X Nat) /\ IsFiniteSet(C)
  BY <1>1, KeyAssumption, FS_Subset
<1>4. Cardinality(G) \in Nat /\ Listed(G) \in [1..Cardinality(G) -> AgentKeys]
  BY <1>1, <1>3, ListedFacts
<1>5. Cardinality(C) \in Nat /\ Listed(C) \in [1..Cardinality(C) -> C]
  BY <1>3, ListedFacts
<1>6. mid \in AgentRegs
  BY <1>4, DeregisterFold
<1> HIDE DEF mid
<1>7. RegisterAll(mid, Listed(C), rows) \in Loadings
  BY <1>1, <1>5, <1>6, RegisterFold
<1> QED
  BY <1>2, <1>7 DEF Loadings


LEMMA NothingIsPartial == \A K, V : << >> \in Partial(K, V)
<1> SUFFICES ASSUME NEW K, NEW V PROVE << >> \in Partial(K, V)
  OBVIOUS
<1>1. << >> \in [{} -> V]
  OBVIOUS
<1> QED
  BY <1>1, PartialMade

LEMMA NoAgentsMade == NoAgents \in AgentRegs
<1>1. << >> \in Partial(AgentKeys, Specs) /\ << >> \in Partial(Tags, AgentKeys)
  BY NothingIsPartial
<1>2. DOMAIN << >> = {} /\ << >> \in Seq(AgentKeys)
  OBVIOUS
<1>3. Placed(<< >>, {})
  BY <1>2 DEF Placed
<1>4. NoAgents = [agents |-> << >>, order |-> << >>, routes |-> << >>]
  BY DEF NoAgents
<1>5. \A t \in DOMAIN << >> : << >>[t] \in Serving(<< >>, t)
  BY <1>2
<1>6. [agents |-> << >>, order |-> << >>, routes |-> << >>] \in AgentRegs
  BY <1>1, <1>2, <1>3, <1>5, RegMade
<1> QED
  BY <1>4, <1>6

\* A start loads the rows and the seeds into an empty registry.
LEMMA StartLoads ==
    ASSUME db.agents \in Partial(AgentKeys, Specs)
    PROVE  /\ SeededAgents \in Partial(AgentKeys, Specs)
           /\ RegisterAll(NoAgents, SeededOrder, SeededAgents).reg \in AgentRegs
<1> DEFINE R == DOMAIN db.agents
           S == DOMAIN Seeds \ DOMAIN db.agents
           K == DOMAIN SeededAgents
<1>1. R \in SUBSET AgentKeys /\ S \in SUBSET AgentKeys /\ \A k \in R : db.agents[k] \in Specs
  BY PartialFacts, KeyAssumption
<1>2. K = DOMAIN db.agents \cup DOMAIN Seeds /\ K \in SUBSET AgentKeys
  BY <1>1, KeyAssumption DEF SeededAgents
<1>3. ASSUME NEW k \in K PROVE SeededAgents[k] \in Specs
  BY <1>1, <1>2, KeyAssumption DEF SeededAgents, Specs
<1>4. SeededAgents = [k \in K |-> SeededAgents[k]]
  BY DEF SeededAgents
<1>5. SeededAgents \in [K -> Specs]
  BY <1>3, <1>4
<1>6. SeededAgents \in Partial(AgentKeys, Specs)
  BY <1>2, <1>5, PartialMade
<1>7. R \in SUBSET K /\ S \in SUBSET K
  BY <1>2
<1>8. SeededOrder = Listed(R) \o Listed(S)
  BY DEF SeededOrder
<1> HIDE DEF R, S, K
<1>9. /\ R \in SUBSET (Nat \X Nat) /\ IsFiniteSet(R)
      /\ S \in SUBSET (Nat \X Nat) /\ IsFiniteSet(S)
  BY <1>1, KeyAssumption, FS_Subset
<1>10. Listed(R) \in Seq(K) /\ Listed(S) \in Seq(K)
  <2>1. Cardinality(R) \in Nat /\ Listed(R) \in [1..Cardinality(R) -> K]
    BY <1>7, <1>9, ListedFacts
  <2>2. Cardinality(S) \in Nat /\ Listed(S) \in [1..Cardinality(S) -> K]
    BY <1>7, <1>9, ListedFacts
  <2>3. Listed(R) \in Seq(K)
    BY <2>1
  <2>4. Listed(S) \in Seq(K)
    BY <2>2
  <2> QED
    BY <2>3, <2>4
<1>11. SeededOrder \in Seq(K)
  BY <1>8, <1>10
<1>12. Len(SeededOrder) \in Nat /\ SeededOrder \in [1..Len(SeededOrder) -> K]
  BY <1>11
<1>13. NoAgents \in AgentRegs
  BY NoAgentsMade
<1>14. RegisterAll(NoAgents, SeededOrder, SeededAgents) \in Loadings
  BY <1>2, <1>3, <1>12, <1>13, RegisterFold
<1> QED
  BY <1>6, <1>14 DEF Loadings

(***************************************************************************)
(* Registries of skills.                                                   *)
(***************************************************************************)
SkillSpecs == [hash: Hashes, enabled: BOOLEAN]

SkillNames == {NameOf(k) : k \in SkillKeys}

\* the names but those of N have a default exactly when they have an enabled version
DefaultsOf(ss, ds, N) ==
    \A n \in SkillNames \ N :
        IF Enabled(ss, n) = {} THEN n \notin DOMAIN ds
        ELSE n \in DOMAIN ds /\ <<n, ds[n]>> \in Enabled(ss, n)

SkillRegs ==
    {reg \in [skills: Partial(SkillKeys, SkillSpecs), defaults: Partial(SkillNames, Nat)] :
        DefaultsOf(reg.skills, reg.defaults, {})}

LEMMA SkillRegMade ==
    ASSUME NEW ss \in Partial(SkillKeys, SkillSpecs), NEW ds \in Partial(SkillNames, Nat),
           DefaultsOf(ss, ds, {})
    PROVE  [skills |-> ss, defaults |-> ds] \in SkillRegs
BY DEF SkillRegs

LEMMA SkillRegFacts ==
    ASSUME NEW reg \in SkillRegs
    PROVE  /\ reg.skills \in Partial(SkillKeys, SkillSpecs) /\ reg.defaults \in Partial(SkillNames, Nat)
           /\ DOMAIN reg.skills \in SUBSET SkillKeys
           /\ \A k \in DOMAIN reg.skills : reg.skills[k] \in SkillSpecs
           /\ DefaultsOf(reg.skills, reg.defaults, {})
<1>1. /\ reg.skills \in Partial(SkillKeys, SkillSpecs) /\ reg.defaults \in Partial(SkillNames, Nat)
      /\ DefaultsOf(reg.skills, reg.defaults, {})
  BY DEF SkillRegs
<1> QED
  BY <1>1, PartialFacts

\* a key is its name and its version
LEMMA SkillKeyFacts ==
    ASSUME NEW k \in SkillKeys
    PROVE  k = <<NameOf(k), VersionOf(k)>> /\ VersionOf(k) \in Nat /\ NameOf(k) \in SkillNames
<1>1. k \in Nat \X Nat
  BY KeyAssumption
<1>2. k = <<k[1], k[2]>> /\ k[2] \in Nat
  BY <1>1
<1> QED
  BY <1>2 DEF NameOf, VersionOf, SkillNames

\* The versions of a name that are enabled, if there are any, have a highest one.
LEMMA HighestEnabled ==
    ASSUME NEW ss \in Partial(SkillKeys, SkillSpecs), NEW n, Enabled(ss, n) # {}
    PROVE  /\ VersionOf(Highest(Enabled(ss, n))) \in Nat
           /\ <<n, VersionOf(Highest(Enabled(ss, n)))>> \in Enabled(ss, n)
<1> DEFINE E == Enabled(ss, n)
<1>1. E \in SUBSET SkillKeys /\ \A k \in E : NameOf(k) = n
  BY PartialFacts DEF Enabled
<1> HIDE DEF E
<1>2. E \in SUBSET (Nat \X Nat) /\ IsFiniteSet(E)
  BY <1>1, KeyAssumption, FS_Subset
<1>3. Highest(E) \in E
  BY <1>2, HighestFacts DEF E
<1>4. Highest(E) \in SkillKeys /\ NameOf(Highest(E)) = n
  BY <1>1, <1>3
<1>5. Highest(E) = <<n, VersionOf(Highest(E))>> /\ VersionOf(Highest(E)) \in Nat
  BY <1>4, SkillKeyFacts
<1> QED
  BY <1>3, <1>5 DEF E

\* _select_default gives the name that has none its default, if it can have one.
LEMMA SelectKeeps ==
    ASSUME NEW ss \in Partial(SkillKeys, SkillSpecs), NEW ds \in Partial(SkillNames, Nat),
           NEW n \in SkillNames, n \notin DOMAIN ds, DefaultsOf(ss, ds, {n})
    PROVE  [skills |-> ss, defaults |-> SelectDefault(ss, ds, n)] \in SkillRegs
<1>1. CASE Enabled(ss, n) = {}
  <2>1. SelectDefault(ss, ds, n) = ds
    BY <1>1 DEF SelectDefault
  <2>2. DefaultsOf(ss, ds, {})
    BY <1>1 DEF DefaultsOf
  <2> QED
    BY <2>1, <2>2, SkillRegMade
<1>2. CASE Enabled(ss, n) # {}
  <2> DEFINE v == VersionOf(Highest(Enabled(ss, n)))
             d == Put(ds, n, v)
  <2>1. SelectDefault(ss, ds, n) = d
    BY <1>2 DEF SelectDefault
  <2>2. v \in Nat /\ <<n, v>> \in Enabled(ss, n)
    BY <1>2, HighestEnabled
  <2> HIDE DEF v
  <2>3. /\ d \in Partial(SkillNames, Nat) /\ DOMAIN d = DOMAIN ds \cup {n}
        /\ d[n] = v /\ \A m \in DOMAIN ds \ {n} : d[m] = ds[m]
    BY <2>2, PutFacts
  <2> HIDE DEF d
  <2>4. DefaultsOf(ss, d, {})
    BY <2>2, <2>3 DEF DefaultsOf
  <2> QED
    BY <2>1, <2>3, <2>4, SkillRegMade
<1> QED
  BY <1>1, <1>2


\* The version k is no longer enabled, or no longer there; nothing else has changed.
LEMMA ReselectKeeps ==
    ASSUME NEW reg \in SkillRegs, NEW k \in SkillKeys, NEW ss \in Partial(SkillKeys, SkillSpecs),
           \A m : Enabled(ss, m) = Enabled(reg.skills, m) \ {k}
    PROVE  Reselected(reg, ss, NameOf(k), {VersionOf(k)}) \in SkillRegs
<1> DEFINE n == NameOf(k)
           v == VersionOf(k)
           ds == reg.defaults
           d == Drop(ds, {n})
<1>1. k = <<n, v>> /\ n \in SkillNames
  BY SkillKeyFacts
<1>2. ds \in Partial(SkillNames, Nat) /\ DefaultsOf(reg.skills, ds, {})
  BY SkillRegFacts
<1>3. \A m : Enabled(ss, m) = Enabled(reg.skills, m) \ {<<n, v>>}
  BY <1>1
<1> HIDE DEF n, v, ds
<1>4. \A m \in SkillNames \ {n} : Enabled(ss, m) = Enabled(reg.skills, m)
  BY <1>3 DEF Enabled, NameOf
<1>5. CASE n \in DOMAIN ds /\ ds[n] = v
  <2>1. d \in Partial(SkillNames, Nat) /\ n \notin DOMAIN d
    BY <1>2, DropFacts DEF Drop
  <2>2. \A m \in SkillNames \ {n} : (m \in DOMAIN d <=> m \in DOMAIN ds) /\ (m \in DOMAIN ds => d[m] = ds[m])
    BY DEF Drop
  <2> HIDE DEF d
  <2>3. DefaultsOf(ss, d, {n})
    BY <1>2, <1>4, <2>2 DEF DefaultsOf
  <2>4. [skills |-> ss, defaults |-> SelectDefault(ss, d, n)] \in SkillRegs
    BY <1>1, <2>1, <2>3, SelectKeeps
  <2> QED
    BY <1>5, <2>4 DEF Reselected, d, n, v, ds
<1>6. CASE ~(n \in DOMAIN ds /\ ds[n] = v)
  <2>1. ASSUME NEW m \in SkillNames
        PROVE  IF Enabled(ss, m) = {} THEN m \notin DOMAIN ds
               ELSE m \in DOMAIN ds /\ <<m, ds[m]>> \in Enabled(ss, m)
    <3>1. CASE m # n
      BY <1>2, <1>4, <3>1 DEF DefaultsOf
    <3>2. CASE m = n /\ n \in DOMAIN ds
      <4>1. <<n, ds[n]>> \in Enabled(reg.skills, n) /\ ds[n] # v
        BY <1>1, <1>2, <1>6, <3>2 DEF DefaultsOf
      <4>2. <<n, ds[n]>> \in Enabled(ss, n)
        BY <1>3, <4>1
      <4> QED
        BY <3>2, <4>2
    <3>3. CASE m = n /\ n \notin DOMAIN ds
      <4>1. Enabled(reg.skills, n) = {}
        BY <1>1, <1>2, <3>3 DEF DefaultsOf
      <4> QED
        BY <1>3, <3>3, <4>1
    <3> QED
      BY <3>1, <3>2, <3>3
  <2>2. DefaultsOf(ss, ds, {})
    BY <2>1 DEF DefaultsOf
  <2>3. [skills |-> ss, defaults |-> ds] \in SkillRegs
    BY <1>2, <2>2, SkillRegMade
  <2> QED
    BY <1>6, <2>3 DEF Reselected, n, v, ds
<1> QED
  BY <1>5, <1>6

LEMMA RegisterSkillKeeps ==
    ASSUME NEW reg \in SkillRegs, NEW k \in SkillKeys, NEW spec \in SkillSpecs,
           NEW makeDefault \in BOOLEAN
    PROVE  RegisterSkill(reg, k, spec, makeDefault) \in SkillRegs
<1> DEFINE ss == Put(reg.skills, k, spec)
           n == NameOf(k)
           v == VersionOf(k)
           ds == reg.defaults
<1>1. /\ ss \in Partial(SkillKeys, SkillSpecs) /\ DOMAIN ss = DOMAIN reg.skills \cup {k}
      /\ ss[k] = spec /\ \A j \in DOMAIN reg.skills \ {k} : ss[j] = reg.skills[j]
  <2>1. reg.skills \in Partial(SkillKeys, SkillSpecs)
    BY SkillRegFacts
  <2>2. ss \in Partial(SkillKeys, SkillSpecs)
    BY <2>1, PutFacts
  <2> QED
    BY <2>2 DEF Put
<1>2. k = <<n, v>> /\ n \in SkillNames /\ v \in Nat
  BY SkillKeyFacts
<1>3. ds \in Partial(SkillNames, Nat) /\ DefaultsOf(reg.skills, ds, {})
  BY SkillRegFacts
<1> HIDE DEF ss, ds
<1>4. \A m : Enabled(ss, m) \ {k} = Enabled(reg.skills, m) \ {k}
  BY <1>1 DEF Enabled
<1>5. CASE ~spec.enabled
  <2>1. \A m : Enabled(ss, m) = Enabled(reg.skills, m) \ {k}
    <3>1. \A m : k \notin Enabled(ss, m)
      BY <1>1, <1>5 DEF Enabled
    <3> QED
      BY <1>4, <3>1
  <2>2. Reselected(reg, ss, NameOf(k), {VersionOf(k)}) \in SkillRegs
    BY <1>1, <2>1, ReselectKeeps
  <2>3. RegisterSkill(reg, k, spec, makeDefault) = Reselected(reg, ss, NameOf(k), {VersionOf(k)})
    BY <1>5 DEF RegisterSkill, ss
  <2> QED
    BY <2>2, <2>3
<1>6. CASE spec.enabled
  <2>1. k \in Enabled(ss, n)
    BY <1>1, <1>6 DEF Enabled
  <2>2. \A m \in SkillNames \ {n} : Enabled(ss, m) = Enabled(reg.skills, m)
    <3>1. \A m \in SkillNames \ {n} : k \notin Enabled(ss, m) /\ k \notin Enabled(reg.skills, m)
      BY DEF Enabled
    <3> QED
      BY <1>4, <3>1
  <2>3. RegisterSkill(reg, k, spec, makeDefault) =
          [skills   |-> ss,
           defaults |-> IF makeDefault THEN Put(ds, n, v)
                        ELSE IF n \in DOMAIN ds THEN ds
                        ELSE SelectDefault(ss, ds, n)]
    BY <1>6 DEF RegisterSkill, ss, ds
  <2> HIDE DEF n, v
  <2>4. CASE makeDefault
    <3> DEFINE d == Put(ds, n, v)
    <3>1. /\ d \in Partial(SkillNames, Nat) /\ DOMAIN d = DOMAIN ds \cup {n}
          /\ d[n] = v /\ \A m \in DOMAIN ds \ {n} : d[m] = ds[m]
      <4>1. d \in Partial(SkillNames, Nat)
        BY <1>2, <1>3, PutFacts
      <4> QED
        BY <4>1 DEF Put
    <3> HIDE DEF d
    <3>2. DefaultsOf(ss, d, {})
      BY <1>2, <1>3, <2>1, <2>2, <3>1 DEF DefaultsOf
    <3>3. [skills |-> ss, defaults |-> d] \in SkillRegs
      BY <1>1, <3>1, <3>2, SkillRegMade
    <3> QED
      BY <2>3, <2>4, <3>3 DEF d
  <2>5. CASE ~makeDefault /\ n \in DOMAIN ds
    <3>1. <<n, ds[n]>> \in Enabled(reg.skills, n)
      BY <1>2, <1>3, <2>5 DEF DefaultsOf
    <3>2. <<n, ds[n]>> \in Enabled(ss, n)
      BY <1>4, <2>1, <3>1
    <3>3. DefaultsOf(ss, ds, {})
      BY <1>3, <2>2, <2>5, <3>2 DEF DefaultsOf
    <3>4. [skills |-> ss, defaults |-> ds] \in SkillRegs
      BY <1>1, <1>3, <3>3, SkillRegMade
    <3> QED
      BY <2>3, <2>5, <3>4
  <2>6. CASE ~makeDefault /\ n \notin DOMAIN ds
    <3>1. DefaultsOf(ss, ds, {n})
      BY <1>3, <2>2 DEF DefaultsOf
    <3>2. [skills |-> ss, defaults |-> SelectDefault(ss, ds, n)] \in SkillRegs
      BY <1>1, <1>2, <1>3, <2>6, <3>1, SelectKeeps
    <3> QED
      BY <2>3, <2>6, <3>2
  <2> QED
    BY <2>4, <2>5, <2>6
<1> QED
  BY <1>5, <1>6


LEMMA DisableSkillKeeps ==
    ASSUME NEW reg \in SkillRegs, NEW k \in DOMAIN reg.skills
    PROVE  DisableSkill(reg, k) \in SkillRegs /\ DisableSkill(reg, k).skills[k] \in SkillSpecs
<1> DEFINE ss == [reg.skills EXCEPT ![k].enabled = FALSE]
<1>1. k \in SkillKeys /\ \A j \in DOMAIN reg.skills : reg.skills[j] \in SkillSpecs
  BY SkillRegFacts
<1>2. [reg.skills[k] EXCEPT !.enabled = FALSE] \in SkillSpecs
  BY <1>1 DEF SkillSpecs
<1>3. /\ DOMAIN ss = DOMAIN reg.skills /\ ss[k] = [reg.skills[k] EXCEPT !.enabled = FALSE]
      /\ \A j \in DOMAIN reg.skills \ {k} : ss[j] = reg.skills[j]
  OBVIOUS
<1>4. ss \in [DOMAIN reg.skills -> SkillSpecs] /\ DOMAIN reg.skills \in SUBSET SkillKeys
  BY <1>1, <1>2, SkillRegFacts
<1>5. ~ss[k].enabled
  BY <1>1, <1>3 DEF SkillSpecs
<1> HIDE DEF ss
<1>6. ss \in Partial(SkillKeys, SkillSpecs)
  BY <1>4, PartialMade
<1>7. \A m : Enabled(ss, m) = Enabled(reg.skills, m) \ {k}
  BY <1>3, <1>5 DEF Enabled
<1>8. Reselected(reg, ss, NameOf(k), {VersionOf(k)}) \in SkillRegs
  BY <1>1, <1>6, <1>7, ReselectKeeps
<1>9. Reselected(reg, ss, NameOf(k), {VersionOf(k)}).skills[k] \in SkillSpecs
  BY <1>2, <1>3 DEF Reselected
<1> QED
  BY <1>8, <1>9 DEF DisableSkill, ss

LEMMA DeregisterSkillKeeps ==
    ASSUME NEW reg \in SkillRegs, NEW k \in SkillKeys
    PROVE  DeregisterSkill(reg, k) \in SkillRegs
<1> DEFINE ss == Drop(reg.skills, {k})
<1>1. reg.skills \in Partial(SkillKeys, SkillSpecs)
  BY SkillRegFacts
<1>2. ss \in Partial(SkillKeys, SkillSpecs)
  BY <1>1, DropFacts
<1>3. DOMAIN ss = DOMAIN reg.skills \ {k} /\ \A j \in DOMAIN ss : ss[j] = reg.skills[j]
  BY DEF Drop
<1> HIDE DEF ss
<1>4. \A m : Enabled(ss, m) = Enabled(reg.skills, m) \ {k}
  BY <1>3 DEF Enabled
<1>5. Reselected(reg, ss, NameOf(k), {VersionOf(k)}) \in SkillRegs
  BY <1>2, <1>4, ReselectKeeps
<1> QED
  BY <1>5 DEF DeregisterSkill, ss

LEMMA DeregisterSkillFold ==
    ASSUME NEW reg \in SkillRegs, NEW n \in Nat, NEW seq \in [1..n -> SkillKeys]
    PROVE  FoldLeft(DeregisterSkill, reg, seq) \in SkillRegs
<1> DEFINE F == [p \in SkillRegs \X SkillKeys |-> DeregisterSkill(p[1], p[2])]
           Is(it) == it = [s \in SUBSET (DOMAIN seq) |->
                              IF s = {} THEN reg ELSE DeregisterSkill(it[s \ {Max(s)}], seq[Max(s)])]
           iter == CHOOSE it : Is(it)
<1>1. FoldLeft(DeregisterSkill, reg, seq) = iter[DOMAIN seq]
  BY Zenon DEF FoldLeft, MapThenFoldSet
<1>2. DOMAIN seq = 1..n
  OBVIOUS
<1>3. F \in [SkillRegs \X SkillKeys -> SkillRegs]
  BY DeregisterSkillKeeps
<1>4. \A a \in SkillRegs, k \in SkillKeys : F[<<a, k>>] = DeregisterSkill(a, k)
  OBVIOUS
<1> HIDE DEF F
<1>5. PICK g : FoldsOver(g, SkillRegs, F, reg, seq, n)
  BY <1>3, FoldExists
<1>6. \A s \in SUBSET (1..n) :
         g[s] = IF s = {} THEN reg ELSE DeregisterSkill(g[s \ {Max(s)}], seq[Max(s)])
  <2>1. ASSUME NEW s \in SUBSET (1..n), s # {}
        PROVE  g[s \ {Max(s)}] \in SkillRegs /\ seq[Max(s)] \in SkillKeys
    BY <1>5, <2>1, MaxFacts DEF FoldsOver
  <2> QED
    BY <1>4, <1>5, <2>1 DEF FoldsOver
<1>7. Is(g)
  BY <1>2, <1>5, <1>6 DEF FoldsOver
<1>8. Is(iter)
  <2> HIDE DEF Is
  <2> QED
    BY <1>7
<1> HIDE DEF iter
<1>9. \A s \in SUBSET (1..n) :
         iter[s] = IF s = {} THEN reg ELSE DeregisterSkill(iter[s \ {Max(s)}], seq[Max(s)])
  BY <1>2, <1>8
<1>10. ASSUME NEW s \in SUBSET (1..n), s = {} \/ iter[s \ {Max(s)}] \in SkillRegs
       PROVE  iter[s] \in SkillRegs
  <2>1. CASE s = {}
    BY <1>9, <2>1
  <2>2. CASE s # {}
    <3>1. seq[Max(s)] \in SkillKeys
      BY <2>2, MaxFacts
    <3> QED
      BY <1>9, <1>10, <2>2, <3>1, DeregisterSkillKeeps
  <2> QED
    BY <2>1, <2>2
<1>11. iter[1..n] \in SkillRegs
  BY <1>10, FoldStays
<1> QED
  BY <1>1, <1>2, <1>11


\* ConfigWatcher._reload_skills keeps the defaults right.
LEMMA ReloadSkillsKeeps ==
    ASSUME NEW reg \in SkillRegs, NEW rows \in Partial(SkillKeys, SkillSpecs)
    PROVE  ReloadSkills(reg, rows) \in SkillRegs
<1> DEFINE G == DOMAIN reg.skills \ DOMAIN rows
           C == {k \in DOMAIN rows : k \notin DOMAIN reg.skills \/ reg.skills[k] # rows[k]}
           base == FoldLeft(DeregisterSkill, reg, Listed(G))
           seq == Listed(C)
           n == Cardinality(C)
           Op(acc, k) ==
               RegisterSkill(acc, k, rows[k], \A j \in DOMAIN acc.skills : NameOf(j) # NameOf(k))
           F == [p \in SkillRegs \X C |-> Op(p[1], p[2])]
           Is(it) == it = [s \in SUBSET (DOMAIN seq) |->
                              IF s = {} THEN base ELSE Op(it[s \ {Max(s)}], seq[Max(s)])]
           iter == CHOOSE it : Is(it)
<1>1. ReloadSkills(reg, rows) = iter[DOMAIN seq]
  BY Zenon DEF ReloadSkills, FoldLeft, MapThenFoldSet
<1>2. G \in SUBSET SkillKeys /\ C \in SUBSET SkillKeys /\ \A k \in C : rows[k] \in SkillSpecs
  BY SkillRegFacts, PartialFacts
<1> HIDE DEF G, C
<1>3. /\ G \in SUBSET (Nat \X Nat) /\ IsFiniteSet(G)
      /\ C \in SUBSET (Nat \X Nat) /\ IsFiniteSet(C)
  BY <1>2, KeyAssumption, FS_Subset
<1>4. Cardinality(G) \in Nat /\ Listed(G) \in [1..Cardinality(G) -> SkillKeys]
  BY <1>2, <1>3, ListedFacts
<1>5. n \in Nat /\ seq \in [1..n -> C]
  BY <1>3, ListedFacts
<1>6. base \in SkillRegs
  BY <1>4, DeregisterSkillFold
<1>7. \A a \in SkillRegs, k \in C : Op(a, k) \in SkillRegs
  BY <1>2, RegisterSkillKeeps
<1> HIDE DEF Op, base, seq, n
<1>8. DOMAIN seq = 1..n
  BY <1>5
<1>9. \A a \in SkillRegs, k \in C : F[<<a, k>>] = Op(a, k)
  OBVIOUS
<1>10. F \in [SkillRegs \X C -> SkillRegs]
  BY <1>7
<1> HIDE DEF F
<1>11. PICK g : FoldsOver(g, SkillRegs, F, base, seq, n)
  BY <1>5, <1>6, <1>10, FoldExists
<1>12. \A s \in SUBSET (1..n) : g[s] = IF s = {} THEN base ELSE Op(g[s \ {Max(s)}], seq[Max(s)])
  <2>1. ASSUME NEW s \in SUBSET (1..n), s # {}
        PROVE  g[s \ {Max(s)}] \in SkillRegs /\ seq[Max(s)] \in C
    BY <1>5, <1>11, <2>1, MaxFacts DEF FoldsOver
  <2> QED
    BY <1>9, <1>11, <2>1 DEF FoldsOver
<1>13. Is(g)
  BY <1>8, <1>11, <1>12 DEF FoldsOver
<1>14. Is(iter)
  <2> HIDE DEF Is
  <2> QED
    BY <1>13
<1> HIDE DEF iter
<1>15. \A s \in SUBSET (1..n) :
          iter[s] = IF s = {} THEN base ELSE Op(iter[s \ {Max(s)}], seq[Max(s)])
  BY <1>8, <1>14
<1>16. ASSUME NEW s \in SUBSET (1..n), s = {} \/ iter[s \ {Max(s)}] \in SkillRegs
       PROVE  iter[s] \in SkillRegs
  <2>1. CASE s = {}
    BY <1>6, <1>15, <2>1
  <2>2. CASE s # {}
    <3>1. seq[Max(s)] \in C
      BY <1>5, <2>2, MaxFacts
    <3> QED
      BY <1>7, <1>15, <1>16, <2>2, <3>1
  <2> QED
    BY <2>1, <2>2
<1>17. iter[1..n] \in SkillRegs
  BY <1>5, <1>16, FoldStays
<1> QED
  BY <1>1, <1>8, <1>17

\* SkillRegistry(list), which a start makes of the rows
LEMMA SkillsOfFacts ==
    ASSUME NEW rows \in Partial(SkillKeys, SkillSpecs)
    PROVE  SkillsOf(rows) \in SkillRegs
<1> DEFINE D == {NameOf(k) : k \in {j \in DOMAIN rows : rows[j].enabled}}
           ds == [n \in D |-> VersionOf(Highest(Enabled(rows, n)))]
<1>1. SkillsOf(rows) = [skills |-> rows, defaults |-> ds]
  BY DEF SkillsOf
<1>2. DOMAIN rows \in SUBSET SkillKeys
  BY PartialFacts
<1>3. D \in SUBSET SkillNames
  BY <1>2 DEF SkillNames
<1>4. \A n : n \in D <=> Enabled(rows, n) # {}
  BY DEF Enabled
<1> HIDE DEF D
<1>5. \A n \in D : ds[n] \in Nat /\ <<n, ds[n]>> \in Enabled(rows, n)
  BY <1>4, HighestEnabled
<1>6. ds \in [D -> Nat]
  BY <1>5
<1>7. DOMAIN ds = D
  OBVIOUS
<1> HIDE DEF ds
<1>8. ds \in Partial(SkillNames, Nat)
  BY <1>3, <1>6, PartialMade
<1>9. DefaultsOf(rows, ds, {})
  BY <1>4, <1>5, <1>7 DEF DefaultsOf
<1> QED
  BY <1>1, <1>8, <1>9, SkillRegMade


(***************************************************************************)
(* The registries of the processes and the tables they are loaded from.    *)
(***************************************************************************)
RegistryInv ==
    /\ agents \in [Procs -> AgentRegs] /\ skills \in [Procs -> SkillRegs]
    /\ db = [agents |-> db.agents, tools |-> db.tools, skills |-> db.skills]
    /\ db.agents \in Partial(AgentKeys, Specs)
    /\ db.skills \in Partial(SkillKeys, SkillSpecs)

LEMMA AgentsPut ==
    ASSUME RegistryInv, NEW p \in Procs, NEW reg \in AgentRegs,
           agents' = [agents EXCEPT ![p] = reg], skills' = skills,
           db' = db \/ \E rows \in Partial(AgentKeys, Specs) : db' = [db EXCEPT !.agents = rows]
    PROVE  RegistryInv'
<1>1. agents' \in [Procs -> AgentRegs]
  BY DEF RegistryInv
<1>2. CASE db' = db
  BY <1>1, <1>2 DEF RegistryInv
<1>3. CASE \E rows \in Partial(AgentKeys, Specs) : db' = [db EXCEPT !.agents = rows]
  <2>1. PICK rows \in Partial(AgentKeys, Specs) : db' = [db EXCEPT !.agents = rows]
    BY <1>3
  <2>2. db' = [agents |-> rows, tools |-> db.tools, skills |-> db.skills]
    BY <2>1 DEF RegistryInv
  <2> QED
    BY <1>1, <2>2 DEF RegistryInv
<1> QED
  BY <1>2, <1>3

LEMMA SkillsPut ==
    ASSUME RegistryInv, NEW p \in Procs, NEW reg \in SkillRegs,
           skills' = [skills EXCEPT ![p] = reg], agents' = agents,
           db' = db \/ \E rows \in Partial(SkillKeys, SkillSpecs) : db' = [db EXCEPT !.skills = rows]
    PROVE  RegistryInv'
<1>1. skills' \in [Procs -> SkillRegs]
  BY DEF RegistryInv
<1>2. CASE db' = db
  BY <1>1, <1>2 DEF RegistryInv
<1>3. CASE \E rows \in Partial(SkillKeys, SkillSpecs) : db' = [db EXCEPT !.skills = rows]
  <2>1. PICK rows \in Partial(SkillKeys, SkillSpecs) : db' = [db EXCEPT !.skills = rows]
    BY <1>3
  <2>2. db' = [agents |-> db.agents, tools |-> db.tools, skills |-> rows]
    BY <2>1 DEF RegistryInv
  <2> QED
    BY <1>1, <2>2 DEF RegistryInv
<1> QED
  BY <1>2, <1>3

\* a saved spec is a row of the table
LEMMA SavedAgent ==
    ASSUME RegistryInv, NEW k \in AgentKeys, NEW spec \in Specs, NEW saved \in BOOLEAN,
           SaveAgent(k, spec, saved)
    PROVE  /\ skills' = skills
           /\ db' = db \/ \E rows \in Partial(AgentKeys, Specs) : db' = [db EXCEPT !.agents = rows]
<1>1. db.agents \in Partial(AgentKeys, Specs)
  BY DEF RegistryInv
<1>2. Put(db.agents, k, spec) \in Partial(AgentKeys, Specs)
  BY <1>1, PutFacts
<1>3. skills' = skills /\ db' = IF saved THEN [db EXCEPT !.agents = Put(@, k, spec)] ELSE db
  BY DEF SaveAgent
<1> QED
  BY <1>2, <1>3

LEMMA AgentStep ==
    ASSUME RegistryInv, NEW p \in Procs, NEW k \in AgentKeys, NEW mk \in BOOLEAN, NEW saved \in BOOLEAN,
           \/ \E spec \in AgentSpecs[k] : RegisterAgent(p, k, spec, mk, saved)
           \/ DisableAgent(p, k, saved)
           \/ DeregisterAgent(p, k, saved)
           \/ SetDefaultAgent(p, k, saved)
    PROVE  RegistryInv'
<1> DEFINE reg == agents[p]
<1>1. reg \in AgentRegs
  BY DEF RegistryInv
<1>2. ASSUME NEW spec \in AgentSpecs[k], RegisterAgent(p, k, spec, mk, saved) PROVE RegistryInv'
  <2>1. spec \in Specs
    BY KeyAssumption DEF Specs
  <2>2. agents' = [agents EXCEPT ![p] = Register(reg, k, spec, mk)] /\ SaveAgent(k, spec, saved)
    BY <1>2 DEF RegisterAgent
  <2>3. Register(reg, k, spec, mk) \in AgentRegs
    BY <1>1, <2>1, RegisterKeeps
  <2> QED
    BY <2>1, <2>2, <2>3, SavedAgent, AgentsPut
<1>3. CASE DisableAgent(p, k, saved)
  <2>1. /\ k \in DOMAIN reg.agents /\ agents' = [agents EXCEPT ![p] = Disable(reg, k)]
        /\ SaveAgent(k, agents'[p].agents[k], saved)
    BY <1>3 DEF DisableAgent
  <2>2. Disable(reg, k) \in AgentRegs /\ Disable(reg, k).agents[k] \in Specs
    BY <1>1, <2>1, DisableKeeps
  <2>3. agents'[p] = Disable(reg, k)
    BY <2>1 DEF RegistryInv
  <2>4. agents'[p].agents[k] \in Specs
    BY <2>2, <2>3
  <2> QED
    BY <2>1, <2>2, <2>4, SavedAgent, AgentsPut
<1>4. CASE DeregisterAgent(p, k, saved)
  <2>1. /\ agents' = [agents EXCEPT ![p] = Deregister(reg, k)] /\ skills' = skills
        /\ db' = IF saved THEN [db EXCEPT !.agents = Drop(@, {k})] ELSE db
    BY <1>4 DEF DeregisterAgent
  <2>2. Deregister(reg, k) \in AgentRegs
    BY <1>1, DeregisterKeeps
  <2>3. db.agents \in Partial(AgentKeys, Specs)
    BY DEF RegistryInv
  <2>4. Drop(db.agents, {k}) \in Partial(AgentKeys, Specs)
    BY <2>3, DropFacts
  <2>5. db' = db \/ \E rows \in Partial(AgentKeys, Specs) : db' = [db EXCEPT !.agents = rows]
    BY <2>1, <2>4
  <2> QED
    BY <2>1, <2>2, <2>5, AgentsPut
<1>5. CASE SetDefaultAgent(p, k, saved)
  <2>1. /\ CanBeDefault(reg, k) /\ agents' = [agents EXCEPT ![p] = SetDefault(reg, k)]
        /\ SaveAgent(k, reg.agents[k], saved)
    BY <1>5 DEF SetDefaultAgent
  <2>2. SetDefault(reg, k) \in AgentRegs
    BY <1>1, <2>1, SetDefaultKeeps
  <2>3. reg.agents[k] \in Specs
    BY <1>1, <2>1, RegFacts DEF CanBeDefault
  <2> QED
    BY <2>1, <2>2, <2>3, SavedAgent, AgentsPut
<1> QED
  BY <1>2, <1>3, <1>4, <1>5

LEMMA SkillStep ==
    ASSUME RegistryInv, NEW p \in Procs, NEW k \in SkillKeys,
           \/ \E h \in Hashes, on, mk \in BOOLEAN : PublishSkill(p, k, [hash |-> h, enabled |-> on], mk)
           \/ \E saved \in BOOLEAN : DisableSkillVersion(p, k, saved)
    PROVE  RegistryInv'
<1> DEFINE reg == skills[p]
<1>1. reg \in SkillRegs /\ db.skills \in Partial(SkillKeys, SkillSpecs)
  BY DEF RegistryInv
<1>2. ASSUME NEW h \in Hashes, NEW on \in BOOLEAN, NEW mk \in BOOLEAN,
             PublishSkill(p, k, [hash |-> h, enabled |-> on], mk)
      PROVE  RegistryInv'
  <2> DEFINE spec == [hash |-> h, enabled |-> on]
  <2>1. spec \in SkillSpecs
    BY DEF SkillSpecs
  <2>2. /\ db' = [db EXCEPT !.skills = Put(db.skills, k, spec)] /\ agents' = agents
        /\ skills' = [skills EXCEPT ![p] = RegisterSkill(reg, k, spec, mk)]
    BY <1>2 DEF PublishSkill
  <2> HIDE DEF spec
  <2>3. RegisterSkill(reg, k, spec, mk) \in SkillRegs
    BY <1>1, <2>1, RegisterSkillKeeps
  <2>4. Put(db.skills, k, spec) \in Partial(SkillKeys, SkillSpecs)
    BY <1>1, <2>1, PutFacts
  <2> QED
    BY <2>2, <2>3, <2>4, SkillsPut
<1>3. ASSUME NEW saved \in BOOLEAN, DisableSkillVersion(p, k, saved)
      PROVE  RegistryInv'
  <2>1. /\ k \in DOMAIN reg.skills /\ agents' = agents
        /\ skills' = [skills EXCEPT ![p] = DisableSkill(reg, k)]
        /\ db' = IF saved THEN [db EXCEPT !.skills = Put(@, k, skills'[p].skills[k])] ELSE db
    BY <1>3 DEF DisableSkillVersion
  <2>2. DisableSkill(reg, k) \in SkillRegs /\ DisableSkill(reg, k).skills[k] \in SkillSpecs
    BY <1>1, <2>1, DisableSkillKeeps
  <2>3. skills'[p] = DisableSkill(reg, k)
    BY <2>1 DEF RegistryInv
  <2>4. Put(db.skills, k, skills'[p].skills[k]) \in Partial(SkillKeys, SkillSpecs)
    BY <1>1, <2>2, <2>3, PutFacts
  <2>5. db' = db \/ \E rows \in Partial(SkillKeys, SkillSpecs) : db' = [db EXCEPT !.skills = rows]
    BY <2>1, <2>4
  <2> QED
    BY <2>1, <2>2, <2>5, SkillsPut
<1> QED
  BY <1>2, <1>3


LEMMA RegistryStart ==
    ASSUME RegistryInv, NEW p \in Procs, Start(p)
    PROVE  RegistryInv'
<1> DEFINE loaded == RegisterAll(NoAgents, SeededOrder, SeededAgents)
<1>1. /\ db' = [db EXCEPT !.agents = SeededAgents]
      /\ agents' = [agents EXCEPT ![p] = loaded.reg]
      /\ skills' = [skills EXCEPT ![p] = SkillsOf(db.skills)]
  BY DEF Start
<1>2. /\ db = [agents |-> db.agents, tools |-> db.tools, skills |-> db.skills]
      /\ db.agents \in Partial(AgentKeys, Specs) /\ db.skills \in Partial(SkillKeys, SkillSpecs)
  BY DEF RegistryInv
<1>3. SeededAgents \in Partial(AgentKeys, Specs) /\ loaded.reg \in AgentRegs
  BY <1>2, StartLoads
<1>4. SkillsOf(db.skills) \in SkillRegs
  BY <1>2, SkillsOfFacts
<1> HIDE DEF loaded
<1>5. agents' \in [Procs -> AgentRegs] /\ skills' \in [Procs -> SkillRegs]
  BY <1>1, <1>3, <1>4 DEF RegistryInv
<1>6. db' = [agents |-> SeededAgents, tools |-> db.tools, skills |-> db.skills]
  BY <1>1, <1>2
<1> QED
  BY <1>2, <1>3, <1>5, <1>6 DEF RegistryInv

LEMMA RegistryTick ==
    ASSUME RegistryInv, NEW p \in Procs, NEW verified \in BOOLEAN, Tick(p, verified)
    PROVE  RegistryInv'
<1> DEFINE a == ReloadAgents(agents[p], db.agents)
<1>1. /\ db' = db /\ agents' = [agents EXCEPT ![p] = a.reg]
      /\ IF a.ok /\ verified THEN skills' = [skills EXCEPT ![p] = ReloadSkills(@, db.skills)]
         ELSE skills' = skills
  BY DEF Tick
<1>2. /\ agents[p] \in AgentRegs /\ skills[p] \in SkillRegs
      /\ db.agents \in Partial(AgentKeys, Specs) /\ db.skills \in Partial(SkillKeys, SkillSpecs)
  BY DEF RegistryInv
<1>3. a.reg \in AgentRegs
  BY <1>2, ReloadKeeps
<1>4. ReloadSkills(skills[p], db.skills) \in SkillRegs
  BY <1>2, ReloadSkillsKeeps
<1> HIDE DEF a
<1>5. agents' \in [Procs -> AgentRegs] /\ skills' \in [Procs -> SkillRegs]
  BY <1>1, <1>3, <1>4 DEF RegistryInv
<1> QED
  BY <1>1, <1>5 DEF RegistryInv

LEMMA RegistryStep ==
    ASSUME RegistryInv, [Next]_vars
    PROVE  RegistryInv'
<1>1. ASSUME UNCHANGED <<db, agents, skills>> PROVE RegistryInv'
  BY <1>1 DEF RegistryInv
<1>2. ASSUME NEW p \in Procs, NEW k, NEW enabled, NEW saved \in BOOLEAN, SaveTool(p, k, enabled, saved)
      PROVE  RegistryInv'
  <2>1. agents' = agents /\ skills' = skills
    BY <1>2 DEF SaveTool
  <2>2. db' = IF saved THEN [db EXCEPT !.tools = Put(@, k, enabled)] ELSE db
    BY <1>2 DEF SaveTool
  <2>3. db' = db \/ db' = [agents |-> db.agents, tools |-> Put(db.tools, k, enabled), skills |-> db.skills]
    BY <2>2 DEF RegistryInv
  <2> QED
    BY <2>1, <2>3 DEF RegistryInv
<1>3. ASSUME NEW p \in Procs, AdminStep(p) PROVE RegistryInv'
  <2>1. ASSUME NEW k \in ToolKeys, NEW on \in BOOLEAN, NEW saved \in BOOLEAN, RegisterTool(p, k, on, saved)
        PROVE  RegistryInv'
    BY <1>2, <2>1 DEF RegisterTool
  <2>2. ASSUME NEW k, NEW saved \in BOOLEAN, DisableTool(p, NameOf(k), saved)
        PROVE  RegistryInv'
    BY <1>2, <2>2 DEF DisableTool
  <2> QED
    BY <1>3, <2>1, <2>2, AgentStep, SkillStep DEF AdminStep
<1>4. ASSUME NEW p \in Procs, Stop(p) \/ RunsChange(p) \/ SaveCommit(p)
      PROVE  UNCHANGED <<db, agents, skills>>
  BY <1>4 DEF Stop, RunsChange, SaveCommit, registries
<1>5. ASSUME NEW p \in Procs, NEW ns, NEW v, SaveBegin(p, ns, v)
      PROVE  UNCHANGED <<db, agents, skills>>
  BY <1>5 DEF SaveBegin, registries
<1>6. UNCHANGED vars => UNCHANGED <<db, agents, skills>>
  BY DEF vars, registries
<1> QED
  BY <1>1, <1>3, <1>4, <1>5, <1>6, RegistryStart, RegistryTick DEF Next

LEMMA RegistryInit == Init => RegistryInv
<1> SUFFICES ASSUME Init PROVE RegistryInv
  OBVIOUS
<1>1. /\ db = [agents |-> << >>, tools |-> << >>, skills |-> << >>]
      /\ agents = [p \in Procs |-> NoAgents] /\ skills = [p \in Procs |-> NoSkills]
  BY DEF Init
<1>2. /\ << >> \in Partial(AgentKeys, Specs) /\ << >> \in Partial(Tags, AgentKeys)
      /\ << >> \in Partial(SkillKeys, SkillSpecs) /\ << >> \in Partial(SkillNames, Nat)
      /\ DOMAIN << >> = {}
  <2>1. DOMAIN << >> = {}
    OBVIOUS
  <2> QED
    BY <2>1, NothingIsPartial
<1>3. NoAgents \in AgentRegs
  BY NoAgentsMade
<1>4. NoSkills \in SkillRegs
  <2>1. \A n : Enabled(<< >>, n) = {}
    BY <1>2 DEF Enabled
  <2>2. DefaultsOf(<< >>, << >>, {})
    BY <1>2, <2>1 DEF DefaultsOf
  <2> QED
    BY <1>2, <2>2, SkillRegMade DEF NoSkills
<1> QED
  BY <1>1, <1>2, <1>3, <1>4 DEF RegistryInv

\* For any agents, tags, rows and processes, a route leads to a registered, enabled agent
\* that has the tag, after any sequence of register, disable, deregister, set-default,
\* reload and restart, failed store calls and refused agents included: every operation of
\* AgentRegistry takes the routes of a key away before it gives them to another agent.
THEOREM RoutesAlwaysServe == Spec => []RoutesServe
<1>1. RegistryInv => RoutesServe
  <2> SUFFICES ASSUME RegistryInv, NEW p \in Procs, NEW t \in DOMAIN agents[p].routes
               PROVE  agents[p].routes[t] \in Serving(agents[p].agents, t)
    BY DEF RoutesServe
  <2>1. agents[p] \in AgentRegs
    BY DEF RegistryInv
  <2> QED
    BY <2>1, RegFacts
<1> QED
  BY <1>1, RegistryInit, RegistryStep, PTL DEF Spec

\* For any skills, a name has a default exactly when one of its versions is enabled, and
\* the default is one of those, after any sequence of publications, disablings, reloads
\* and restarts (SkillRegistry's _select_default after every loss of a default).
THEOREM DefaultsAlwaysServe == Spec => []DefaultsServe
<1>1. RegistryInv => DefaultsServe
  <2> SUFFICES ASSUME RegistryInv, NEW p \in Procs
               PROVE  LET s == skills[p]
                      IN  /\ DOMAIN s.defaults =
                                {n \in {NameOf(k) : k \in SkillKeys} : Enabled(s.skills, n) # {}}
                          /\ \A n \in DOMAIN s.defaults : <<n, s.defaults[n]>> \in Enabled(s.skills, n)
    BY DEF DefaultsServe
  <2> DEFINE s == skills[p]
  <2>1. s \in SkillRegs
    BY DEF RegistryInv
  <2>2. s.defaults \in Partial(SkillNames, Nat) /\ DefaultsOf(s.skills, s.defaults, {})
    BY <2>1, SkillRegFacts
  <2>3. DOMAIN s.defaults \in SUBSET SkillNames
    BY <2>2, PartialFacts
  <2>4. \A n \in SkillNames :
           IF Enabled(s.skills, n) = {} THEN n \notin DOMAIN s.defaults
           ELSE n \in DOMAIN s.defaults /\ <<n, s.defaults[n]>> \in Enabled(s.skills, n)
    BY <2>2 DEF DefaultsOf
  <2> HIDE DEF s
  <2>5. DOMAIN s.defaults = {n \in SkillNames : Enabled(s.skills, n) # {}}
    BY <2>3, <2>4
  <2>6. \A n \in DOMAIN s.defaults : <<n, s.defaults[n]>> \in Enabled(s.skills, n)
    BY <2>3, <2>4
  <2> QED
    BY <2>5, <2>6 DEF s, SkillNames
<1> QED
  BY <1>1, RegistryInit, RegistryStep, PTL DEF Spec
=============================================================================
