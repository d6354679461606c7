--------------------------- MODULE AdmissionProofs ---------------------------
(***************************************************************************)
(* Proofs about Admission: the limit of an agent's runs that execute, and  *)
(* the single lane of a run that fans out into its own agent.              *)
(***************************************************************************)
EXTENDS Admission, FiniteSetTheorems, TLAPS

\* A set of naturals that is not empty has a least element.
LEMMA LeastOf ==
    ASSUME NEW T \in SUBSET Nat, T # {}
    PROVE  \E m \in T : \A i \in T : m <= i
<1>1. PICK m \in T : \A i \in T : ~ (<<i, m>> \in OpToRel(<, Nat))
  BY WFMin, NatLessThanWellFounded
<1>2. \A i \in T : ~ (i < m)
  BY <1>1 DEF OpToRel
<1> QED
  BY <1>2

LEMMA ConcatFacts ==
    ASSUME NEW K, NEW s \in Seq(K), NEW t \in Seq(K)
    PROVE  /\ s \o t \in Seq(K) /\ Len(s \o t) = Len(s) + Len(t) /\ Len(s) \in Nat /\ Len(t) \in Nat
           /\ \A i \in 1..Len(s) : (s \o t)[i] = s[i]
OBVIOUS

\* what is left of a plan after n keys are taken and one is waited for
LEMMA RestFacts ==
    ASSUME NEW K, NEW s \in Seq(K), NEW n \in 0..Len(s)
    PROVE  /\ SubSeq(s, n + 2, Len(s)) \in Seq(K)
           /\ \A i \in 1..Len(s) : i > n + 1 =>
                 \E j \in 1..Len(SubSeq(s, n + 2, Len(s))) : SubSeq(s, n + 2, Len(s))[j] = s[i]
<1>0. Len(s) \in Nat
  OBVIOUS
<1>1. SubSeq(s, n + 2, Len(s)) \in Seq(K)
  BY <1>0
<1>2. ASSUME NEW i \in 1..Len(s), i > n + 1
      PROVE  \E j \in 1..Len(SubSeq(s, n + 2, Len(s))) : SubSeq(s, n + 2, Len(s))[j] = s[i]
  <2>1. n < Len(s)
    BY <1>0, <1>2
  <2>2. /\ Len(SubSeq(s, n + 2, Len(s))) = Len(s) - n - 1
        /\ \A j \in 1..(Len(s) - n - 1) : SubSeq(s, n + 2, Len(s))[j] = s[j + n + 1]
    BY <1>0, <2>1
  <2>3. i - n - 1 \in 1..(Len(s) - n - 1) /\ (i - n - 1) + n + 1 = i
    BY <1>0, <1>2
  <2> QED
    BY <2>2, <2>3
<1> QED
  BY <1>1, <1>2

(***************************************************************************)
(* The keys a run takes: one of them is its agent's, or a lane under that  *)
(* agent of an active ancestor.                                            *)
(***************************************************************************)
AgentKey(r, k) == k = <<"agent", Lineage[r].agent>> \/ (k[1] = "lane" /\ k[3] = "agent")

LEMMA KeysFacts ==
    ASSUME NEW r \in Runs
    PROVE  /\ \E K : Keys(r) \in Seq(K)
           /\ \E i \in 1..Len(Keys(r)) : AgentKey(r, Keys(r)[i]) /\ Keys(r)[i] = Reentrant(r, "agent")
<1> DEFINE a == IF Parent(r) = NoRun THEN <<"global">> ELSE <<"nested", Root(r)>>
           b == Reentrant(r, "agent")
           c == Reentrant(r, "route")
           d == <<"caller", Lineage[r].caller>>
           t == IF CallerExempt(r) THEN << >> ELSE <<d>>
           s == <<a, b, c>>
           K == {a, b, c, d}
<1>0. Keys(r) = s \o t
  BY DEF Keys
<1>1. AgentKey(r, b)
  <2>1. ASSUME NEW x PROVE AgentKey(r, <<"lane", x, "agent", Lineage[r].agent>>)
    BY DEF AgentKey
  <2>2. AgentKey(r, <<"agent", Lineage[r].agent>>)
    BY DEF AgentKey
  <2>3. \/ b = <<"agent", Lineage[r].agent>>
        \/ b = <<"lane", NearestHolder(r, "agent"), "agent", Lineage[r].agent>>
    BY DEF Reentrant
  <2> HIDE DEF b
  <2> QED
    BY <2>1, <2>2, <2>3
<1> HIDE DEF a, b, c, d
<1>2. s \in Seq(K) /\ Len(s) = 3 /\ s[2] = b
  OBVIOUS
<1>3. t \in Seq(K)
  <2>1. << >> \in Seq(K) /\ <<d>> \in Seq(K)
    OBVIOUS
  <2> HIDE DEF K
  <2> QED
    BY <2>1
<1> HIDE DEF s, t, K
<1>4. /\ s \o t \in Seq(K) /\ Len(s \o t) = Len(s) + Len(t) /\ Len(t) \in Nat
      /\ \A i \in 1..Len(s) : (s \o t)[i] = s[i]
  BY <1>2, <1>3, ConcatFacts
<1>5. 2 \in 1..Len(s) /\ 2 \in 1..Len(s \o t)
  BY <1>2, <1>4
<1>6. (s \o t)[2] = b
  BY <1>2, <1>4, <1>5
<1> QED
  BY <1>0, <1>1, <1>4, <1>5, <1>6 DEF b

(***************************************************************************)
(* The inductive invariant.  The agent semaphores are the ones that must   *)
(* not be replaced while someone has them: every object of an agent's key  *)
(* that a task holds or awaits is the one in the dictionary, so its holders *)
(* are all the admitted tasks of the agent.                                *)
(***************************************************************************)
ShapeInv ==
    /\ pc \in [Tasks -> {"idle", "wait", "running"}]
    /\ DOMAIN plan = Tasks /\ DOMAIN want = Tasks /\ DOMAIN held = Tasks
    /\ \A r \in Tasks : \E K : plan[r] \in Seq(K)
    /\ \A k \in DOMAIN dict : dict[k].key = k

Uses(r) == held[r] \cup {want[r]}

\* an agent's semaphore in use is the one of the dictionary
CurrentInv ==
    \A r \in Tasks : \A s \in Uses(r) :
        s.key[1] = "agent" => s.key \in DOMAIN dict /\ dict[s.key] = s

HoldersOf(s) == {r \in Tasks : s \in held[r]}

CapInv ==
    \A a \in DOMAIN AgentMax : <<"agent", a>> \in DOMAIN dict =>
        /\ dict[<<"agent", a>>].cap = AgentMax[a]
        /\ Cardinality(HoldersOf(dict[<<"agent", a>>])) <= AgentMax[a]

\* a task on its way has the agent's key behind it, or before it
WayInv ==
    \A r \in Tasks :
        /\ pc[r] = "idle" => held[r] = {} /\ want[r] = NoSem
        /\ pc[r] # "idle" =>
             \/ \E s \in held[r] : AgentKey(RunOf[r], s.key)
             \/ /\ pc[r] = "wait"
                /\ \/ AgentKey(RunOf[r], want[r].key)
                   \/ \E i \in 1..Len(plan[r]) : AgentKey(RunOf[r], plan[r][i])

AdmissionInv == ShapeInv /\ CurrentInv /\ CapInv /\ WayInv

\* what of the constants' assumption the counting needs
Sizes == IsFiniteSet(Tasks) /\ \A a \in DOMAIN AgentMax : AgentMax[a] \in Nat

\* a lookup gives an object of the key
LEMMA LookupFacts ==
    ASSUME ShapeInv, NEW k
    PROVE  /\ SemaphoreFor(k).key = k
           /\ k \in DOMAIN dict => SemaphoreFor(k) = dict[k]
           /\ \A a : k = <<"agent", a>> /\ k \notin DOMAIN dict => SemaphoreFor(k).cap = AgentMax[a]
<1>1. FreshSemaphore(k).key = k /\ FreshSemaphore(k).cap = Capacity(k)
  BY DEF FreshSemaphore
<1>2. \A a : k = <<"agent", a>> => Capacity(k) = AgentMax[a]
  BY DEF Capacity
<1> QED
  BY <1>1, <1>2 DEF SemaphoreFor, ShapeInv

\* TakeInARow: the first n keys are free and taken, the next one is not free
TookFirst(r, keys, got, n) ==
    /\ \A j \in 1..n : Free(SemaphoreFor(keys[j]))
    /\ held' = [held EXCEPT ![r] = got \cup {SemaphoreFor(keys[i]) : i \in 1..n}]
    /\ plan' = [plan EXCEPT ![r] = SubSeq(keys, n + 2, Len(keys))]
    /\ dict' = WithEntries({keys[i] : i \in {j \in 1..Len(keys) : j <= n + 1}})
    /\ \/ /\ n < Len(keys)
          /\ want' = [want EXCEPT ![r] = SemaphoreFor(keys[n + 1])]
          /\ pc' = [pc EXCEPT ![r] = "wait"]
       \/ /\ n = Len(keys)
          /\ want' = [want EXCEPT ![r] = NoSem]
          /\ pc' = [pc EXCEPT ![r] = "running"]

LEMMA TakeFacts ==
    ASSUME NEW r \in Tasks, NEW K, NEW keys \in Seq(K), NEW got, TakeInARow(r, keys, got)
    PROVE  \E n \in 0..Len(keys) : TookFirst(r, keys, got, n)
BY Zenon DEF TakeInARow, TookFirst

\* taking semaphores in a row, when what is on top of the stack was free, keeps
\* the invariant
LEMMA TakeKeeps ==
    ASSUME Sizes, AdmissionInv,
           NEW r \in Tasks, NEW K, NEW keys \in Seq(K), NEW got, NEW n \in 0..Len(keys),
           TookFirst(r, keys, got, n),
           held[r] \subseteq got,
           \A s \in got : s \in held[r] \/ (s \in Uses(r) /\ Value(s) > 0),
           \/ \E s \in got : AgentKey(RunOf[r], s.key)
           \/ \E i \in 1..Len(keys) : AgentKey(RunOf[r], keys[i])
    PROVE  AdmissionInv'
<1> USE DEF AdmissionInv
<1>0. Len(keys) \in Nat /\ n \in Nat /\ n <= Len(keys)
  OBVIOUS
<1> DEFINE new == {SemaphoreFor(keys[i]) : i \in 1..n}
           E == {keys[i] : i \in {j \in 1..Len(keys) : j <= n + 1}}
<1>1. /\ DOMAIN held = Tasks /\ DOMAIN want = Tasks /\ DOMAIN plan = Tasks
      /\ pc \in [Tasks -> {"idle", "wait", "running"}]
  BY DEF ShapeInv
<1>2. /\ held' = [held EXCEPT ![r] = got \cup new] /\ held'[r] = got \cup new
      /\ \A q \in Tasks \ {r} : held'[q] = held[q] /\ want'[q] = want[q] /\ plan'[q] = plan[q]
                               /\ pc'[q] = pc[q]
      /\ plan'[r] = SubSeq(keys, n + 2, Len(keys))
      /\ DOMAIN held' = Tasks /\ DOMAIN want' = Tasks /\ DOMAIN plan' = Tasks
      /\ pc' \in [Tasks -> {"idle", "wait", "running"}]
  BY <1>1 DEF TookFirst
<1>3. \/ n < Len(keys) /\ want'[r] = SemaphoreFor(keys[n + 1]) /\ pc'[r] = "wait"
      \/ n = Len(keys) /\ want'[r] = NoSem /\ pc'[r] = "running"
  BY <1>1 DEF TookFirst
<1>4. \A j \in 1..n : Free(SemaphoreFor(keys[j]))
  BY DEF TookFirst
<1>5. /\ DOMAIN dict' = DOMAIN dict \cup E
      /\ \A k \in DOMAIN dict' : dict'[k] = SemaphoreFor(k)
  <2>1. dict' = [j \in DOMAIN dict \cup E |-> SemaphoreFor(j)]
    BY DEF TookFirst, WithEntries
  <2> HIDE DEF E
  <2> QED
    BY <2>1
<1>6. \A i \in 1..Len(keys) : i <= n + 1 => keys[i] \in DOMAIN dict'
  BY <1>5
<1>7. \A k : SemaphoreFor(k).key = k /\ (k \in DOMAIN dict => SemaphoreFor(k) = dict[k])
  BY LookupFacts
<1>8. ShapeInv'
  <2>1. \A q \in Tasks : \E J : plan'[q] \in Seq(J)
    <3>1. plan'[r] \in Seq(K)
      BY <1>2, RestFacts
    <3>2. \A q \in Tasks \ {r} : \E J : plan'[q] \in Seq(J)
      BY <1>2 DEF ShapeInv
    <3> QED
      BY <3>1, <3>2
  <2>2. \A k \in DOMAIN dict' : dict'[k].key = k
    BY <1>5, <1>7
  <2> QED
    BY <1>2, <2>1, <2>2 DEF ShapeInv
<1>9. CurrentInv'
  <2> SUFFICES ASSUME NEW q \in Tasks, NEW s \in held'[q] \cup {want'[q]}, s.key[1] = "agent"
               PROVE  s.key \in DOMAIN dict' /\ dict'[s.key] = s
    BY DEF CurrentInv, Uses
  <2>1. CASE s \in Uses(q)
    <3>1. s.key \in DOMAIN dict /\ dict[s.key] = s
      BY <2>1 DEF CurrentInv
    <3> QED
      BY <3>1, <1>5, <1>7
  <2>2. CASE s \notin Uses(q)
    <3>1. q = r
      BY <2>2, <1>2 DEF Uses
    <3>2. s # NoSem
      BY DEF NoSem
    <3>3. s \notin got
      BY <3>1, <2>2 DEF Uses
    <3>4. \E i \in 1..Len(keys) : i <= n + 1 /\ s = SemaphoreFor(keys[i])
      <4>1. CASE s \in new
        BY <4>1, <1>0
      <4>2. CASE s \notin new
        <5>1. n < Len(keys) /\ s = SemaphoreFor(keys[n + 1])
          BY <1>2, <1>3, <3>1, <3>2, <3>3, <4>2
        <5>2. n + 1 \in 1..Len(keys) /\ n + 1 <= n + 1
          BY <1>0, <5>1
        <5> QED
          BY <5>1, <5>2
      <4> QED
        BY <4>1, <4>2
    <3>5. PICK i \in 1..Len(keys) : i <= n + 1 /\ s = SemaphoreFor(keys[i])
      BY <3>4
    <3> QED
      BY <3>5, <1>5, <1>6, <1>7
  <2> QED
    BY <2>1, <2>2
<1>10. CapInv'
  <2> SUFFICES ASSUME NEW a \in DOMAIN AgentMax, NEW k, k = <<"agent", a>>, k \in DOMAIN dict'
               PROVE  /\ dict'[k].cap = AgentMax[a]
                      /\ Cardinality({q \in Tasks : dict'[k] \in held'[q]}) <= AgentMax[a]
    BY DEF CapInv, HoldersOf
  <2> DEFINE s == SemaphoreFor(k)
             H == {q \in Tasks : s \in held[q]}
             G == {q \in Tasks : s \in held'[q]}
  <2>1. dict'[k] = s /\ s.key = k /\ k[1] = "agent"
    BY <1>5, <1>7
  <2>2. s.cap = AgentMax[a]
    BY LookupFacts DEF CapInv
  <2>3. /\ AgentMax[a] \in Nat /\ IsFiniteSet(Tasks)
    BY DEF Sizes
  <2>4. Cardinality(H) \in Nat /\ IsFiniteSet(H) /\ Cardinality(H) <= AgentMax[a]
    <3>1. IsFiniteSet(H)
      BY <2>3, FS_Subset
    <3>2. Cardinality(H) \in Nat
      BY <3>1, FS_CardinalityType
    <3>3. CASE k \in DOMAIN dict
      BY <3>1, <3>2, <3>3, <1>7 DEF CapInv, HoldersOf
    <3>4. CASE k \notin DOMAIN dict
      <4>1. ASSUME NEW q \in Tasks, s \in held[q] PROVE FALSE
        <5>1. s \in Uses(q) /\ s.key = k /\ s.key[1] = "agent"
          BY <2>1, <4>1 DEF Uses
        <5> HIDE DEF s
        <5>2. s.key \in DOMAIN dict
          BY <5>1 DEF CurrentInv
        <5> QED
          BY <3>4, <5>1, <5>2
      <4>2. H = {}
        BY <4>1
      <4>3. Cardinality(H) = 0
        BY <4>2, FS_EmptySet
      <4> QED
        BY <4>3, <3>1, <2>3
    <3> QED
      BY <3>3, <3>4
  <2>5. G \subseteq H \cup {r}
    BY <1>2
  <2>6. CASE r \in H \/ r \notin G
    <3>1. G \subseteq H
      BY <2>5, <2>6
    <3>2. IsFiniteSet(G) /\ Cardinality(G) <= Cardinality(H) /\ Cardinality(G) \in Nat
      BY <3>1, <2>4, FS_Subset, FS_CardinalityType
    <3>3. Cardinality(G) <= AgentMax[a]
      BY <3>2, <2>3, <2>4
    <3> QED
      BY <3>3, <2>1, <2>2
  <2>7. CASE r \notin H /\ r \in G
    <3>1. Value(s) > 0
      <4>1. s \in got \cup new /\ s \notin held[r]
        BY <2>7, <1>2
      <4>2. s \in new => Value(s) > 0
        BY <1>4 DEF Free
      <4> QED
        BY <4>1, <4>2
    <3>2. AgentMax[a] - Cardinality(H) > 0
      BY <3>1, <2>2 DEF Value
    <3>3. G \subseteq H \cup {r} /\ IsFiniteSet(H \cup {r}) /\ Cardinality(H \cup {r}) = Cardinality(H) + 1
      BY <2>4, <2>5, <2>7, FS_AddElement
    <3>4. IsFiniteSet(G) /\ Cardinality(G) <= Cardinality(H) + 1 /\ Cardinality(G) \in Nat
      <4> HIDE DEF G, H
      <4>1. IsFiniteSet(G) /\ Cardinality(G) <= Cardinality(H \cup {r})
        BY <3>3, FS_Subset
      <4> QED
        BY <3>3, <4>1, FS_CardinalityType
    <3>5. Cardinality(G) <= AgentMax[a]
      BY <3>2, <3>4, <2>3, <2>4
    <3> QED
      BY <3>5, <2>1, <2>2
  <2> QED
    BY <2>6, <2>7
<1>11. WayInv'
  <2>1. \A q \in Tasks : \A j : AgentKey(RunOf[q], j)' <=> AgentKey(RunOf[q], j)
    BY DEF AgentKey
  <2> SUFFICES ASSUME NEW q \in Tasks
               PROVE  /\ pc'[q] = "idle" => held'[q] = {} /\ want'[q] = NoSem
                      /\ pc'[q] # "idle" =>
                           \/ \E s \in held'[q] : AgentKey(RunOf[q], s.key)
                           \/ /\ pc'[q] = "wait"
                              /\ \/ AgentKey(RunOf[q], want'[q].key)
                                 \/ \E i \in 1..Len(plan'[q]) : AgentKey(RunOf[q], plan'[q][i])
    BY <2>1 DEF WayInv, NoSem, AgentKey
  <2>2. CASE q # r
    BY <2>2, <1>2 DEF WayInv
  <2>3. CASE q = r
    <3>1. CASE \E s \in got : AgentKey(RunOf[r], s.key)
      BY <3>1, <2>3, <1>2, <1>3
    <3>2. CASE \E i \in 1..Len(keys) : AgentKey(RunOf[r], keys[i])
      <4>1. PICK i \in 1..Len(keys) : AgentKey(RunOf[r], keys[i])
        BY <3>2
      <4>2. CASE i <= n
        <5>1. SemaphoreFor(keys[i]) \in new
          BY <4>2, <1>0
        <5>2. SemaphoreFor(keys[i]) \in held'[r]
          BY <5>1, <1>2
        <5>3. AgentKey(RunOf[r], SemaphoreFor(keys[i]).key)
          BY <4>1, <1>7
        <5> QED
          BY <5>2, <5>3, <1>3, <2>3
      <4>3. CASE i = n + 1
        <5>1. n < Len(keys)
          BY <4>3, <1>0
        <5>2. want'[r] = SemaphoreFor(keys[i]) /\ pc'[r] = "wait"
          BY <5>1, <4>3, <1>3
        <5>3. AgentKey(RunOf[r], want'[r].key)
          BY <5>2, <4>1, <1>7
        <5> QED
          BY <5>2, <5>3, <2>3
      <4>4. CASE i > n + 1
        <5>1. n < Len(keys)
          BY <4>4, <1>0
        <5>2. pc'[r] = "wait"
          BY <5>1, <1>3
        <5>3. \E j \in 1..Len(plan'[r]) : plan'[r][j] = keys[i]
          <6>1. \A m \in 1..Len(keys) : m > n + 1 =>
                  \E j \in 1..Len(SubSeq(keys, n + 2, Len(keys))) :
                      SubSeq(keys, n + 2, Len(keys))[j] = keys[m]
            BY RestFacts, Zenon
          <6> DEFINE rest == SubSeq(keys, n + 2, Len(keys))
          <6>2. \E j \in 1..Len(rest) : rest[j] = keys[i]
            BY <6>1, <4>4
          <6>3. plan'[r] = rest
            BY <1>2
          <6> HIDE DEF rest
          <6> QED
            BY <6>2, <6>3
        <5> QED
          BY <5>2, <5>3, <4>1, <2>3
      <4> QED
        BY <1>0, <4>2, <4>3, <4>4
    <3> QED
      BY <3>1, <3>2
  <2> QED
    BY <2>2, <2>3
<1> QED
  BY <1>8, <1>9, <1>10, <1>11

\* a task that leaves takes no agent semaphore away that another task has
LEMMA LeaveKeeps ==
    ASSUME Sizes, AdmissionInv, NEW r \in Tasks, Leave(r)
    PROVE  AdmissionInv'
<1> USE DEF AdmissionInv
<1>1. /\ DOMAIN held = Tasks /\ DOMAIN want = Tasks /\ DOMAIN plan = Tasks
      /\ pc \in [Tasks -> {"idle", "wait", "running"}]
  BY DEF ShapeInv
<1>2. /\ held'[r] = {} /\ want'[r] = NoSem /\ plan'[r] = << >> /\ pc'[r] = "idle"
      /\ \A q \in Tasks \ {r} : held'[q] = held[q] /\ want'[q] = want[q] /\ plan'[q] = plan[q]
                               /\ pc'[q] = pc[q]
      /\ DOMAIN held' = Tasks /\ DOMAIN want' = Tasks /\ DOMAIN plan' = Tasks
      /\ pc' \in [Tasks -> {"idle", "wait", "running"}]
  BY <1>1 DEF Leave
<1>3. /\ DOMAIN dict' = DOMAIN dict \ Dropped(r)
      /\ \A k \in DOMAIN dict' : dict'[k] = dict[k]
  BY DEF Leave, WithoutEntries
<1>4. ShapeInv'
  <2>1. << >> \in Seq({})
    OBVIOUS
  <2>2. \A q \in Tasks : \E J : plan'[q] \in Seq(J)
    <3>1. \A q \in Tasks \ {r} : \E J : plan[q] \in Seq(J)
      BY DEF ShapeInv
    <3>2. \A q \in Tasks \ {r} : \E J : plan'[q] \in Seq(J)
      BY <1>2, <3>1, Zenon
    <3>3. plan'[r] \in Seq({})
      BY <1>2, <2>1
    <3> QED
      BY <3>2, <3>3, Zenon
  <2>3. \A k \in DOMAIN dict' : dict'[k].key = k
    BY <1>3 DEF ShapeInv
  <2> QED
    BY <1>2, <2>2, <2>3 DEF ShapeInv
<1>5. CurrentInv'
  <2> SUFFICES ASSUME NEW q \in Tasks, NEW s \in held'[q] \cup {want'[q]}, s.key[1] = "agent"
               PROVE  s.key \in DOMAIN dict' /\ dict'[s.key] = s
    BY DEF CurrentInv, Uses
  <2>1. q # r
    BY <1>2 DEF NoSem
  <2>2. s \in held[q] \cup {want[q]}
    BY <1>2, <2>1
  <2>3. s.key \in DOMAIN dict /\ dict[s.key] = s
    BY <2>2 DEF CurrentInv, Uses
  <2>4. s.key \notin Dropped(r)
    BY <2>1, <2>2, <2>3 DEF Dropped
  <2> QED
    BY <2>3, <2>4, <1>3
<1>6. CapInv'
  <2> SUFFICES ASSUME NEW a \in DOMAIN AgentMax, NEW k, k = <<"agent", a>>, k \in DOMAIN dict'
               PROVE  /\ dict'[k].cap = AgentMax[a]
                      /\ Cardinality({q \in Tasks : dict'[k] \in held'[q]}) <= AgentMax[a]
    BY DEF CapInv, HoldersOf
  <2> DEFINE H == {q \in Tasks : dict[k] \in held[q]}
             G == {q \in Tasks : dict[k] \in held'[q]}
  <2>1. dict'[k] = dict[k] /\ dict[k].cap = AgentMax[a] /\ Cardinality(H) <= AgentMax[a]
    BY <1>3 DEF CapInv, HoldersOf
  <2>2. AgentMax[a] \in Nat /\ IsFiniteSet(Tasks)
    BY DEF Sizes
  <2>3. IsFiniteSet(H) /\ G \subseteq H
    BY <2>2, <1>2, FS_Subset
  <2>4. /\ Cardinality(G) <= Cardinality(H)
        /\ Cardinality(G) \in Nat /\ Cardinality(H) \in Nat
    BY <2>3, FS_Subset, FS_CardinalityType
  <2>5. Cardinality(G) <= AgentMax[a]
    BY <2>1, <2>2, <2>4
  <2> QED
    BY <2>1, <2>5
<1>7. WayInv'
  <2>1. \A q \in Tasks : \A j : AgentKey(RunOf[q], j)' <=> AgentKey(RunOf[q], j)
    BY DEF AgentKey
  <2> SUFFICES ASSUME NEW q \in Tasks
               PROVE  /\ pc'[q] = "idle" => held'[q] = {} /\ want'[q] = NoSem
                      /\ pc'[q] # "idle" =>
                           \/ \E s \in held'[q] : AgentKey(RunOf[q], s.key)
                           \/ /\ pc'[q] = "wait"
                              /\ \/ AgentKey(RunOf[q], want'[q].key)
                                 \/ \E i \in 1..Len(plan'[q]) : AgentKey(RunOf[q], plan'[q][i])
    BY <2>1 DEF WayInv, NoSem, AgentKey
  <2>2. CASE q = r
    BY <1>2, <2>2
  <2>3. CASE q # r
    BY <1>2, <2>3 DEF WayInv
  <2> QED
    BY <2>2, <2>3
<1> QED
  BY <1>4, <1>5, <1>6, <1>7

\* Every step of run_with_limits, of the tasks it runs in and of reconfigure()
\* keeps the invariant.
LEMMA AdmissionStep ==
    ASSUME LineageAssumption, AdmissionInv, [Next]_vars
    PROVE  AdmissionInv'
<1>0. Sizes
  BY DEF Sizes, LineageAssumption
<1>1. ASSUME NEW r \in Tasks, RunWithLimits(r)
      PROVE  AdmissionInv'
  <2>0. RunOf[r] \in Runs
    BY DEF LineageAssumption
  <2>1. PICK K : Keys(RunOf[r]) \in Seq(K)
    BY <2>0, KeysFacts
  <2>2. \E i \in 1..Len(Keys(RunOf[r])) : AgentKey(RunOf[r], Keys(RunOf[r])[i])
    BY <2>0, KeysFacts
  <2>3. TakeInARow(r, Keys(RunOf[r]), {}) /\ pc[r] = "idle"
    BY <1>1 DEF RunWithLimits
  <2>4. PICK n \in 0..Len(Keys(RunOf[r])) : TookFirst(r, Keys(RunOf[r]), {}, n)
    BY <2>1, <2>3, TakeFacts
  <2>5. held[r] = {}
    BY <2>3 DEF AdmissionInv, WayInv
  <2> DEFINE keys == Keys(RunOf[r])
             got == {}
  <2>6. keys \in Seq(K) /\ held[r] \subseteq got /\ \A s \in got : FALSE
    BY <2>1, <2>5
  <2>7. n \in 0..Len(keys) /\ TookFirst(r, keys, got, n) /\ \E i \in 1..Len(keys) : AgentKey(RunOf[r], keys[i])
    BY <2>2, <2>4
  <2> HIDE DEF keys, got
  <2> QED
    BY <1>0, <2>6, <2>7, TakeKeeps
<1>2. ASSUME NEW r \in Tasks, Acquire(r)
      PROVE  AdmissionInv'
  <2>1. PICK K : plan[r] \in Seq(K)
    BY DEF AdmissionInv, ShapeInv
  <2> DEFINE keys == plan[r]
             got == held[r] \cup {want[r]}
  <2>2. TakeInARow(r, keys, got) /\ pc[r] = "wait" /\ Value(want[r]) > 0
    BY <1>2 DEF Acquire
  <2>3. held[r] \subseteq got /\ \A s \in got : s \in held[r] \/ (s \in Uses(r) /\ Value(s) > 0)
    BY <2>2 DEF Uses
  <2>4. \/ \E s \in got : AgentKey(RunOf[r], s.key)
        \/ \E i \in 1..Len(keys) : AgentKey(RunOf[r], keys[i])
    BY <2>2 DEF AdmissionInv, WayInv
  <2>5. keys \in Seq(K)
    BY <2>1
  <2> HIDE DEF keys, got
  <2>6. PICK n \in 0..Len(keys) : TookFirst(r, keys, got, n)
    BY <2>2, <2>5, TakeFacts
  <2> QED
    BY <1>0, <2>3, <2>4, <2>5, <2>6, TakeKeeps
<1>3. ASSUME NEW r \in Tasks, Leave(r)
      PROVE  AdmissionInv'
  BY <1>0, <1>3, LeaveKeeps
<1>4. ASSUME UNCHANGED <<pc, plan, want, held, dict>>
      PROVE  AdmissionInv'
  <2>1. ShapeInv' <=> ShapeInv
    BY <1>4, Zenon DEF ShapeInv
  <2>2. CurrentInv' <=> CurrentInv
    BY <1>4, Zenon DEF CurrentInv, Uses
  <2>3. CapInv' <=> CapInv
    BY <1>4, Zenon DEF CapInv, HoldersOf
  <2>4. WayInv' <=> WayInv
    BY <1>4 DEF WayInv, AgentKey, NoSem
  <2> QED
    BY <2>1, <2>2, <2>3, <2>4 DEF AdmissionInv
<1>5. ASSUME NEW l \in LimitChoices, Reconfigure(l)
      PROVE  AdmissionInv'
  <2>1. UNCHANGED <<pc, plan, want, held>>
    BY <1>5 DEF Reconfigure
  <2>2. /\ DOMAIN dict' = {k \in DOMAIN dict : k[1] = "agent"}
        /\ \A k \in DOMAIN dict' : dict'[k] = dict[k]
    BY <1>5 DEF Reconfigure, WithoutEntries
  <2>3. ShapeInv' /\ WayInv'
    <3>1. WayInv' <=> WayInv
      BY <2>1 DEF WayInv, AgentKey, NoSem
    <3>2. /\ pc' \in [Tasks -> {"idle", "wait", "running"}]
          /\ DOMAIN plan' = Tasks /\ DOMAIN want' = Tasks /\ DOMAIN held' = Tasks
          /\ \A r \in Tasks : \E K : plan'[r] \in Seq(K)
      BY <2>1, Zenon DEF AdmissionInv, ShapeInv
    <3>3. \A k \in DOMAIN dict' : dict'[k].key = k
      BY <2>2 DEF AdmissionInv, ShapeInv
    <3> QED
      BY <3>1, <3>2, <3>3 DEF AdmissionInv, ShapeInv
  <2>4. CurrentInv'
    BY <2>1, <2>2 DEF AdmissionInv, CurrentInv, Uses
  <2>5. CapInv'
    BY <2>1, <2>2 DEF AdmissionInv, CapInv, HoldersOf
  <2> QED
    BY <2>3, <2>4, <2>5 DEF AdmissionInv
<1>6. ASSUME NEW r \in Tasks, Return(r) \/ Unwind(r) PROVE Leave(r)
  BY <1>6 DEF Return, Unwind
<1>7. ASSUME NEW r \in Tasks, AttemptTimesOut(r) \/ CancelTask(r)
      PROVE  UNCHANGED <<pc, plan, want, held, dict>>
  BY <1>7 DEF AttemptTimesOut, CancelTask
<1>8. UNCHANGED vars => UNCHANGED <<pc, plan, want, held, dict>>
  BY DEF vars
<1> QED
  BY <1>1, <1>2, <1>3, <1>4, <1>5, <1>6, <1>7, <1>8 DEF Next

LEMMA AdmissionInit ==
    ASSUME LineageAssumption, Init
    PROVE  AdmissionInv
<1>1. /\ DOMAIN held = Tasks /\ DOMAIN want = Tasks /\ DOMAIN plan = Tasks
      /\ pc \in [Tasks -> {"idle", "wait", "running"}]
      /\ \A r \in Tasks : pc[r] = "idle" /\ held[r] = {} /\ want[r] = NoSem /\ plan[r] = << >>
      /\ DOMAIN dict = {}
  BY DEF Init
<1>2. << >> \in Seq({})
  OBVIOUS
<1>3. ShapeInv
  <2>0. \A r \in Tasks : plan[r] \in Seq({})
    BY <1>1, <1>2
  <2>1. \A r \in Tasks : \E K : plan[r] \in Seq(K)
    BY <2>0, Zenon
  <2> QED
    BY <1>1, <2>1 DEF ShapeInv
<1>4. CurrentInv /\ CapInv /\ WayInv
  BY <1>1 DEF CurrentInv, CapInv, WayInv, Uses, NoSem
<1> QED
  BY <1>3, <1>4 DEF AdmissionInv

\* For every forest of runs, every set of tasks for them, every set of settings and every
\* number of reloads, the tasks of an agent that run_with_limits has admitted, those in
\* an ancestor's lane aside, are never more than the agent's max_concurrency:
\* reconfigure() and the end of a run drop semaphores from the dictionaries, but never an
\* agent's that a task has.
THEOREM AgentLimit == Spec => []AgentLimitHolds
<1> USE LineageAssumption
<1>1. Init => AdmissionInv
  BY AdmissionInit
<1>2. AdmissionInv /\ [Next]_vars => AdmissionInv'
  BY AdmissionStep
<1>3. AdmissionInv => AgentLimitHolds
  <2> SUFFICES ASSUME AdmissionInv, NEW a \in DOMAIN AgentMax
               PROVE  Cardinality({r \in Executing : AgentOf(r) = a /\ ~Exempt(r)}) <= AgentMax[a]
    BY DEF AgentLimitHolds
  <2> DEFINE X == {r \in Executing : AgentOf(r) = a /\ ~Exempt(r)}
             k == <<"agent", a>>
             H == HoldersOf(dict[k])
  <2>1. \A r \in X : k \in DOMAIN dict /\ r \in H
    <3> SUFFICES ASSUME NEW r \in X PROVE k \in DOMAIN dict /\ r \in H
      OBVIOUS
    <3>1. r \in Tasks /\ pc[r] = "running" /\ AgentOf(r) = a /\ ~Exempt(r)
      BY DEF Executing
    <3>2. PICK s \in held[r] : AgentKey(RunOf[r], s.key)
      BY <3>1 DEF AdmissionInv, WayInv
    <3>3. s.key = k
      BY <3>1, <3>2 DEF AgentKey, Exempt, AgentOf
    <3>4. s.key[1] = "agent" /\ s \in Uses(r)
      BY <3>3 DEF Uses
    <3>5. s.key \in DOMAIN dict /\ dict[s.key] = s
      BY <3>1, <3>4 DEF AdmissionInv, CurrentInv
    <3> QED
      BY <3>1, <3>3, <3>5 DEF HoldersOf
  <2>2. AgentMax[a] \in Nat /\ IsFiniteSet(Tasks)
    BY DEF LineageAssumption
  <2>3. CASE X = {}
    <3>1. Cardinality(X) = 0
      BY <2>3, FS_EmptySet
    <3> HIDE DEF X
    <3>2. Cardinality(X) <= AgentMax[a]
      BY <3>1, <2>2
    <3> QED
      BY <3>2 DEF X
  <2>4. CASE X # {}
    <3>1. k \in DOMAIN dict /\ X \subseteq H
      BY <2>1, <2>4
    <3>2. Cardinality(H) <= AgentMax[a]
      BY <3>1 DEF AdmissionInv, CapInv
    <3>3. H \subseteq Tasks
      BY DEF HoldersOf
    <3> HIDE DEF X, H
    <3>4. IsFiniteSet(H) /\ Cardinality(X) <= Cardinality(H)
      BY <3>1, <3>3, <2>2, FS_Subset
    <3>5. Cardinality(X) \in Nat /\ Cardinality(H) \in Nat
      BY <3>1, <3>4, FS_Subset, FS_CardinalityType
    <3>6. Cardinality(X) <= AgentMax[a]
      BY <3>2, <3>4, <3>5, <2>2
    <3> QED
      BY <3>6 DEF X
  <2> QED
    BY <2>3, <2>4
<1> QED
  BY <1>1, <1>2, <1>3, PTL DEF Spec

(***************************************************************************)
(* The trees of runs and of tasks.  Two recursive functions go upwards: the *)
(* chain of active holders, from a run to its ancestors, and the tasks      *)
(* above a task.  A run is younger than its parent, so that both are well   *)
(* defined.                                                                 *)
(***************************************************************************)

\* a rank falls on every way up from a node of N
Ranked(N, up, none) ==
    /\ none \notin N /\ up \in [N -> N \cup {none}]
    /\ \E b \in Nat : \E rank \in [N -> 0..b] :
          \A q \in N : up[q] # none => rank[up[q]] < rank[q]

\* g is defined along the way up: F of a node and of the value above it
AlongUp(g, N, up, none, A, F, a0) ==
    /\ g \in [N -> A]
    /\ \A q \in N : g[q] = F[<<q, IF up[q] = none THEN a0 ELSE g[up[q]]>>]

\* Such a function exists.
LEMMA UpRecursion ==
    ASSUME NEW N, NEW up, NEW none, Ranked(N, up, none), NEW A, NEW F \in [N \X A -> A], NEW a0 \in A
    PROVE  \E g : AlongUp(g, N, up, none, A, F, a0)
<1> DEFINE Nth(g, q) == F[<<q, IF up[q] = none THEN a0 ELSE g[up[q]]>>]
<1>1. PICK b \in Nat : \E rank \in [N -> 0..b] : \A q \in N : up[q] # none => rank[up[q]] < rank[q]
  BY DEF Ranked
<1>0. PICK rank \in [N -> 0..b] : \A q \in N : up[q] # none => rank[up[q]] < rank[q]
  BY <1>1
<1>2. /\ \A q \in N : rank[q] \in Nat /\ rank[q] <= b
      /\ \A q \in N : up[q] # none => up[q] \in N /\ rank[up[q]] < rank[q]
  BY <1>0 DEF Ranked
<1> DEFINE Eq(m) == \E g \in [N -> A] : \A q \in N : rank[q] < m => g[q] = Nth(g, q)
           T == {m \in Nat : ~Eq(m)}
<1>3. \A g \in [N -> A], q \in N : Nth(g, q) \in A
  BY <1>2
<1>4. ASSUME T # {} PROVE FALSE
  <2>1. PICK m \in T : \A i \in T : m <= i
    BY <1>4, LeastOf
  <2>2. m \in Nat /\ ~Eq(m)
    OBVIOUS
  <2>3. CASE m = 0
    <3>1. [q \in N |-> a0] \in [N -> A]
      OBVIOUS
    <3>2. \A q \in N : ~(rank[q] < 0)
      BY <1>2
    <3>3. Eq(0)
      <4> HIDE DEF Nth
      <4> QED
        BY <3>1, <3>2
    <3> QED
      BY <2>2, <2>3, <3>3
  <2>4. CASE m # 0
    <3>1. m - 1 \in Nat /\ ~(m <= m - 1)
      BY <2>2, <2>4
    <3>2. Eq(m - 1)
      <4> HIDE DEF Eq
      <4> QED
        BY <2>1, <3>1
    <3>3. PICK g \in [N -> A] : \A q \in N : rank[q] < m - 1 => g[q] = Nth(g, q)
      BY <3>2
    <3> DEFINE h == [q \in N |-> IF rank[q] < m - 1 THEN g[q] ELSE Nth(g, q)]
    <3>4. h \in [N -> A] /\ \A q \in N : h[q] = Nth(g, q)
      BY <1>3, <3>3
    <3>5. \A q \in N : rank[q] < m - 1 => h[q] = g[q]
      OBVIOUS
    <3> HIDE DEF h
    <3>6. ASSUME NEW q \in N, rank[q] < m PROVE h[q] = Nth(h, q)
      <4>1. CASE up[q] = none
        BY <3>4, <4>1
      <4>2. CASE up[q] # none
        <5>1. up[q] \in N /\ rank[up[q]] < m - 1
          BY <1>2, <2>2, <3>6, <4>2
        <5>2. h[up[q]] = g[up[q]]
          BY <3>5, <5>1
        <5> QED
          BY <3>4, <5>2
      <4> QED
        BY <4>1, <4>2
    <3>7. Eq(m)
      <4> HIDE DEF Nth
      <4> QED
        BY <3>4, <3>6
    <3> QED
      BY <2>2, <3>7
  <2> QED
    BY <2>3, <2>4
<1>5. Eq(b + 1)
  <2> HIDE DEF Eq
  <2> QED
    BY <1>2, <1>4
<1>6. PICK g \in [N -> A] : \A q \in N : rank[q] < b + 1 => g[q] = Nth(g, q)
  BY <1>5
<1>7. \A q \in N : rank[q] < b + 1
  BY <1>2
<1> QED
  BY <1>6, <1>7 DEF AlongUp

\* S has every root, and every node that is under one of its own
UpClosed(N, up, none, S) == \A q \in N : up[q] = none \/ up[q] \in S => q \in S

\* What holds of a node whenever it holds of the one above holds of every node.
LEMMA UpInduction ==
    ASSUME NEW N, NEW up, NEW none, NEW S \in SUBSET N,
           Ranked(N, up, none), UpClosed(N, up, none, S)
    PROVE  S = N
<1>1. PICK b \in Nat : \E rank \in [N -> 0..b] : \A q \in N : up[q] # none => rank[up[q]] < rank[q]
  BY DEF Ranked
<1>0. PICK rank \in [N -> 0..b] : \A q \in N : up[q] # none => rank[up[q]] < rank[q]
  BY <1>1
<1>2. \A q \in N : rank[q] \in Nat
  BY <1>0
<1> DEFINE T == {rank[q] : q \in N \ S}
<1>3. ASSUME T # {} PROVE FALSE
  <2>1. T \in SUBSET Nat
    BY <1>2
  <2>2. PICK m \in T : \A i \in T : m <= i
    BY <1>3, <2>1, LeastOf
  <2>3. PICK q \in N \ S : m = rank[q]
    OBVIOUS
  <2>4. up[q] # none /\ up[q] \in N \ S
    BY <2>3 DEF Ranked, UpClosed
  <2>5. rank[up[q]] < rank[q] /\ rank[up[q]] \in T
    BY <1>0, <2>4
  <2>6. rank[q] <= rank[up[q]]
    BY <2>2, <2>3, <2>5
  <2> QED
    BY <1>2, <2>4, <2>5, <2>6
<1>4. \A q \in N \ S : rank[q] \in T
  OBVIOUS
<1> HIDE DEF T
<1>5. N \ S = {}
  BY <1>3, <1>4
<1> QED
  BY <1>5

ParentFn == [q \in Runs |-> Parent(q)]

LEMMA TreesRanked ==
    ASSUME LineageAssumption
    PROVE  Ranked(Runs, ParentFn, NoRun) /\ Ranked(Tasks, By, NoTask)
<1>1. PICK age \in [Runs -> 0..Cardinality(Runs)] :
         \A r \in Runs : Lineage[r].parent # NoRun => age[Lineage[r].parent] < age[r]
  BY DEF LineageAssumption
<1>2. Cardinality(Runs) \in Nat
  BY FS_CardinalityType DEF LineageAssumption
<1>3. Ranked(Runs, ParentFn, NoRun)
  <2>1. /\ NoRun \notin Runs /\ ParentFn \in [Runs -> Runs \cup {NoRun}]
        /\ \A q \in Runs : ParentFn[q] = Lineage[q].parent
    BY DEF LineageAssumption, ParentFn, Parent
  <2>2. \A q \in Runs : ParentFn[q] # NoRun => age[ParentFn[q]] < age[q]
    BY <1>1, <2>1
  <2> QED
    BY <1>1, <1>2, <2>1, <2>2 DEF Ranked
<1>4. Ranked(Tasks, By, NoTask)
  <2> DEFINE rank == [t \in Tasks |-> age[RunOf[t]]]
  <2>1. /\ NoTask \notin Tasks /\ By \in [Tasks -> Tasks \cup {NoTask}] /\ RunOf \in [Tasks -> Runs]
        /\ NoRun \notin Runs
        /\ \A t \in Tasks : By[t] # NoTask => Lineage[RunOf[t]].parent = RunOf[By[t]]
    BY DEF LineageAssumption
  <2>2. rank \in [Tasks -> 0..Cardinality(Runs)]
    BY <1>1, <2>1
  <2>3. ASSUME NEW t \in Tasks, By[t] # NoTask PROVE rank[By[t]] < rank[t]
    <3>1. By[t] \in Tasks /\ RunOf[t] \in Runs /\ RunOf[By[t]] \in Runs
      BY <2>1, <2>3
    <3>2. Lineage[RunOf[t]].parent = RunOf[By[t]] /\ RunOf[By[t]] # NoRun
      BY <2>1, <2>3, <3>1
    <3>3. age[RunOf[By[t]]] < age[RunOf[t]]
      BY <1>1, <3>1, <3>2
    <3> QED
      BY <3>1, <3>3
  <2> HIDE DEF rank
  <2> QED
    BY <1>2, <2>1, <2>2, <2>3 DEF Ranked
<1> QED
  BY <1>3, <1>4

\* What holds of a run whenever it holds of its parent holds of every run.
LEMMA AlongParents ==
    ASSUME LineageAssumption, NEW S \in SUBSET Runs,
           \A q \in Runs : Parent(q) = NoRun \/ Parent(q) \in S => q \in S
    PROVE  S = Runs
<1>1. Ranked(Runs, ParentFn, NoRun) /\ \A q \in Runs : ParentFn[q] = Parent(q)
  BY TreesRanked DEF ParentFn
<1>2. UpClosed(Runs, ParentFn, NoRun, S)
  BY <1>1 DEF UpClosed
<1> QED
  BY <1>1, <1>2, UpInduction

ChainFn(H) ==
    CHOOSE chain : chain = [q \in Runs \cup {NoRun} |-> IF q \in H THEN <<q>> \o chain[Parent(q)] ELSE <<>>]

LEMMA ChainFacts ==
    ASSUME LineageAssumption, NEW H \in SUBSET Runs
    PROVE  /\ ChainFn(H)[NoRun] = <<>>
           /\ \A q \in Runs : /\ ChainFn(H)[q] \in Seq(Runs)
                              /\ ChainFn(H)[q] = IF q \in H THEN <<q>> \o ChainFn(H)[Parent(q)] ELSE <<>>
<1> DEFINE A == Seq(Runs)
           F == [x \in Runs \X A |-> IF x[1] \in H THEN <<x[1]>> \o x[2] ELSE <<>>]
           Is(f) == f = [q \in Runs \cup {NoRun} |-> IF q \in H THEN <<q>> \o f[Parent(q)] ELSE <<>>]
<1>1. <<>> \in A /\ \A q \in Runs, a \in A : <<q>> \o a \in A
  OBVIOUS
<1> HIDE DEF A
<1>2. F \in [Runs \X A -> A]
  BY <1>1
<1>3. \A q \in Runs, a \in A : F[<<q, a>>] = IF q \in H THEN <<q>> \o a ELSE <<>>
  OBVIOUS
<1> HIDE DEF F
<1>4. PICK g : AlongUp(g, Runs, ParentFn, NoRun, A, F, <<>>)
  BY <1>1, <1>2, TreesRanked, UpRecursion
<1> DEFINE c == [q \in Runs \cup {NoRun} |-> IF q = NoRun THEN <<>> ELSE g[q]]
<1>5. c[NoRun] = <<>> /\ \A q \in Runs : c[q] = g[q]
  BY DEF LineageAssumption
<1>6. DOMAIN c = Runs \cup {NoRun} /\ c = [q \in Runs \cup {NoRun} |-> c[q]]
  OBVIOUS
<1> HIDE DEF c
<1>7. ASSUME NEW q \in Runs PROVE c[q] = IF q \in H THEN <<q>> \o c[Parent(q)] ELSE <<>>
  <2>1. Parent(q) = NoRun \/ Parent(q) \in Runs
    BY DEF LineageAssumption, Parent
  <2>2. c[Parent(q)] = (IF Parent(q) = NoRun THEN <<>> ELSE g[Parent(q)])
    BY <1>5, <2>1 DEF LineageAssumption
  <2>3. c[Parent(q)] \in A
    BY <1>1, <1>4, <2>1, <2>2 DEF AlongUp, ParentFn
  <2>4. g[q] = F[<<q, c[Parent(q)]>>]
    BY <1>4, <2>2 DEF AlongUp, ParentFn
  <2> QED
    BY <1>3, <1>5, <2>3, <2>4
<1>8. Is(c)
  BY <1>5, <1>6, <1>7 DEF LineageAssumption
<1> DEFINE d == ChainFn(H)
<1>9. Is(d)
  <2>1. d = CHOOSE f : Is(f)
    BY DEF ChainFn
  <2> HIDE DEF Is, d
  <2> QED
    BY <1>8, <2>1
<1> HIDE DEF d
<1>10. d[NoRun] = <<>> /\ \A q \in Runs : d[q] = IF q \in H THEN <<q>> \o d[Parent(q)] ELSE <<>>
  BY <1>9 DEF LineageAssumption
<1>11. \A q \in Runs : d[q] \in A
  <2> DEFINE S == {q \in Runs : d[q] \in A}
  <2>1. ASSUME NEW q \in Runs, Parent(q) = NoRun \/ Parent(q) \in S PROVE q \in S
    <3>1. d[Parent(q)] \in A
      <4> HIDE DEF d
      <4> QED
        BY <1>1, <1>10, <2>1
    <3>2. <<q>> \o d[Parent(q)] \in A
      BY <1>1, <3>1
    <3>3. d[q] \in A
      BY <1>1, <1>10, <3>2
    <3> QED
      BY <3>3
  <2> HIDE DEF S
  <2>2. S \in SUBSET Runs
    BY DEF S
  <2>3. S = Runs
    BY <2>1, <2>2, AlongParents
  <2> QED
    BY <2>3 DEF S
<1> QED
  BY <1>10, <1>11 DEF d, A

\* the first run of an agent in a sequence of runs
FirstOf(s, a) ==
    LET same == {i \in 1..Len(s) : Lineage[s[i]].agent = a}
    IN  IF same = {} THEN NoRun ELSE s[CHOOSE i \in same : \A j \in same : i <= j]

Nearest(H, p, a) == FirstOf(ChainFn(H)[p], a)

LEMMA FirstFacts ==
    ASSUME NEW s \in Seq(Runs), NEW p \in Runs, NEW a
    PROVE  FirstOf(<<p>> \o s, a) = IF Lineage[p].agent = a THEN p ELSE FirstOf(s, a)
<1> DEFINE t == <<p>> \o s
           Same(u) == {i \in 1..Len(u) : Lineage[u[i]].agent = a}
           Least(I) == CHOOSE i \in I : \A j \in I : i <= j
<1>1. t \in Seq(Runs) /\ Len(s) \in Nat /\ Len(t) = Len(s) + 1 /\ t[1] = p
  OBVIOUS
<1>2. \A i \in 1..Len(s) : t[i + 1] = s[i]
  OBVIOUS
<1>3. \A u : FirstOf(u, a) = IF Same(u) = {} THEN NoRun ELSE u[Least(Same(u))]
  BY DEF FirstOf
<1> HIDE DEF t
<1>4. ASSUME NEW I \in SUBSET Nat, I # {} PROVE Least(I) \in I /\ \A j \in I : Least(I) <= j
  BY <1>4, LeastOf
<1>5. Same(s) \in SUBSET Nat /\ Same(t) \in SUBSET Nat
  OBVIOUS
<1> HIDE DEF Least
<1>6. CASE Lineage[p].agent = a
  <2>1. 1 \in Same(t)
    BY <1>1, <1>6
  <2>2. Least(Same(t)) \in 1..Len(t) /\ Least(Same(t)) <= 1
    <3>1. Same(t) # {}
      BY <2>1
    <3> HIDE DEF Same
    <3>2. Least(Same(t)) \in Same(t) /\ Least(Same(t)) <= 1
      BY <1>4, <1>5, <2>1, <3>1
    <3> QED
      BY <3>2 DEF Same
  <2>3. Least(Same(t)) = 1
    BY <1>1, <2>2
  <2> QED
    BY <1>1, <1>3, <1>6, <2>1, <2>3 DEF t
<1>7. CASE Lineage[p].agent # a
  <2>1. \A i \in Same(s) : i + 1 \in Same(t)
    BY <1>1, <1>2
  <2>2. ASSUME NEW i \in Same(t) PROVE i - 1 \in Same(s)
    <3>1. i \in 1..Len(t) /\ i # 1
      BY <1>1, <1>7
    <3>2. i - 1 \in 1..Len(s) /\ (i - 1) + 1 = i
      BY <1>1, <3>1
    <3> QED
      BY <1>2, <3>2
  <2>3. CASE Same(s) = {}
    <3>1. Same(t) = {}
      BY <2>2, <2>3
    <3> QED
      BY <1>3, <1>7, <2>3, <3>1 DEF t
  <2>4. CASE Same(s) # {}
    <3> DEFINE m == Least(Same(s))
               k == Least(Same(t))
    <3>1. Same(t) # {}
      BY <2>1, <2>4
    <3>2. m \in Same(s) /\ (\A j \in Same(s) : m <= j) /\ k \in Same(t) /\ (\A j \in Same(t) : k <= j)
      <4> HIDE DEF Same
      <4> QED
        BY <1>4, <1>5, <2>4, <3>1
    <3> HIDE DEF m, k
    <3>3. m <= k - 1 /\ k <= m + 1 /\ m \in Nat /\ k \in Nat
      BY <1>5, <2>1, <2>2, <3>2
    <3>4. k = m + 1
      BY <3>3
    <3>5. t[k] = s[m]
      BY <1>2, <3>2, <3>4
    <3>6. FirstOf(t, a) = t[k] /\ FirstOf(s, a) = s[m]
      <4> HIDE DEF Same
      <4> QED
        BY <1>3, <2>4, <3>1 DEF m, k
    <3> QED
      BY <1>7, <3>5, <3>6 DEF t
  <2> QED
    BY <2>3, <2>4
<1> QED
  BY <1>6, <1>7

LEMMA NearestFacts ==
    ASSUME LineageAssumption, NEW H \in SUBSET Runs, NEW a
    PROVE  /\ Nearest(H, NoRun, a) = NoRun
           /\ \A p \in Runs :
                 Nearest(H, p, a) = IF p \notin H THEN NoRun
                                    ELSE IF Lineage[p].agent = a THEN p
                                    ELSE Nearest(H, Parent(p), a)
<1>1. FirstOf(<<>>, a) = NoRun
  <2>1. 1..Len(<<>>) = {}
    OBVIOUS
  <2> QED
    BY <2>1 DEF FirstOf
<1>2. Nearest(H, NoRun, a) = NoRun
  BY <1>1, ChainFacts DEF Nearest
<1>3. ASSUME NEW p \in Runs, p \in H
      PROVE  Nearest(H, p, a) = IF Lineage[p].agent = a THEN p ELSE Nearest(H, Parent(p), a)
  <2>1. ChainFn(H)[p] = <<p>> \o ChainFn(H)[Parent(p)]
    BY <1>3, ChainFacts
  <2>2. ChainFn(H)[Parent(p)] \in Seq(Runs)
    <3>1. Parent(p) \in Runs \/ Parent(p) = NoRun
      BY DEF LineageAssumption, Parent
    <3>2. << >> \in Seq(Runs)
      OBVIOUS
    <3> QED
      BY <3>1, <3>2, ChainFacts
  <2>3. FirstOf(<<p>> \o ChainFn(H)[Parent(p)], a) =
          IF Lineage[p].agent = a THEN p ELSE FirstOf(ChainFn(H)[Parent(p)], a)
    BY <2>2, FirstFacts
  <2> QED
    BY <2>1, <2>3 DEF Nearest
<1>4. ASSUME NEW p \in Runs, p \notin H PROVE Nearest(H, p, a) = NoRun
  BY <1>1, <1>4, ChainFacts DEF Nearest
<1> QED
  BY <1>2, <1>3, <1>4

LEMMA NearestIs ==
    ASSUME NEW r PROVE NearestHolder(r, "agent") = Nearest(holders, Parent(r), Lineage[r].agent)
<1>1. ActiveChain(r) = ChainFn(holders)[Parent(r)]
  BY Zenon DEF ActiveChain, ChainFn
<1> QED
  BY <1>1 DEF NearestHolder, Nearest, FirstOf

(***************************************************************************)
(* The tasks above a task, through tasks whose run is theirs alone.        *)
(***************************************************************************)
AboveFn(S) ==
    CHOOSE above : above = [q \in Tasks |-> IF By[q] \in S THEN {By[q]} \cup above[By[q]] ELSE {}]

LEMMA AboveIs == \A t, S : Above(t, S) = AboveFn(S)[t]
BY Zenon DEF Above, AboveFn

LEMMA SinglesAre ==
    /\ Singles \in SUBSET Tasks
    /\ \A t \in Singles, u \in Tasks : RunOf[u] = RunOf[t] => u = t
BY DEF Singles

LEMMA AboveFacts ==
    ASSUME LineageAssumption, NEW q \in Tasks
    PROVE  Above(q, Singles) = IF By[q] \in Singles THEN {By[q]} \cup Above(By[q], Singles) ELSE {}
<1> DEFINE S == Singles
           A == SUBSET Tasks
           F == [x \in Tasks \X A |-> IF By[x[1]] \in S THEN {By[x[1]]} \cup x[2] ELSE {}]
           Is(f) == f = [t \in Tasks |-> IF By[t] \in S THEN {By[t]} \cup f[By[t]] ELSE {}]
<1>0. S \in SUBSET Tasks /\ NoTask \notin S
  BY SinglesAre DEF LineageAssumption
<1> HIDE DEF S
<1>1. F \in [Tasks \X A -> A] /\ {} \in A
  BY <1>0
<1>2. \A t \in Tasks, a \in A : F[<<t, a>>] = IF By[t] \in S THEN {By[t]} \cup a ELSE {}
  OBVIOUS
<1> HIDE DEF F
<1>3. PICK g : AlongUp(g, Tasks, By, NoTask, A, F, {})
  <2> HIDE DEF A
  <2> QED
    BY <1>1, TreesRanked, UpRecursion
<1>4. ASSUME NEW t \in Tasks PROVE g[t] = IF By[t] \in S THEN {By[t]} \cup g[By[t]] ELSE {}
  <2>1. By[t] = NoTask \/ By[t] \in Tasks
    BY DEF LineageAssumption
  <2>2. (IF By[t] = NoTask THEN {} ELSE g[By[t]]) \in A
    BY <1>3, <2>1 DEF AlongUp
  <2>3. By[t] \in S => By[t] # NoTask
    BY <1>0
  <2> QED
    BY <1>2, <1>3, <2>2, <2>3 DEF AlongUp
<1>5. Is(g)
  BY <1>3, <1>4 DEF AlongUp
<1>6. Is(AboveFn(S))
  <2>1. AboveFn(S) = CHOOSE f : Is(f)
    BY DEF AboveFn
  <2> HIDE DEF Is
  <2> QED
    BY <1>5, <2>1
<1> DEFINE f == AboveFn(S)
<1> HIDE DEF f
<1>7. f = [t \in Tasks |-> IF By[t] \in S THEN {By[t]} \cup f[By[t]] ELSE {}]
  BY <1>6 DEF f
<1>8. f[q] = IF By[q] \in S THEN {By[q]} \cup f[By[q]] ELSE {}
  BY <1>7
<1>9. \A t : Above(t, S) = f[t]
  BY AboveIs DEF f
<1> QED
  BY <1>8, <1>9 DEF S

\* What holds of a task whenever it holds of the one that awaits it holds of every task.
LEMMA AlongBy ==
    ASSUME LineageAssumption, NEW S \in SUBSET Tasks,
           \A q \in Tasks : By[q] = NoTask \/ By[q] \in S => q \in S
    PROVE  S = Tasks
<1>1. Ranked(Tasks, By, NoTask)
  BY TreesRanked
<1>2. UpClosed(Tasks, By, NoTask, S)
  BY DEF UpClosed
<1> QED
  BY <1>1, <1>2, UpInduction

\* Where every task that is awaited is awaited by one that executes, all above execute.
Attended(P) == \A t \in Tasks : P[t] # "idle" /\ By[t] # NoTask => P[By[t]] = "running"

LEMMA ChainRuns ==
    ASSUME LineageAssumption, NEW P, Attended(P), NEW x \in Tasks, P[x] # "idle",
           NEW h \in Above(x, Singles)
    PROVE  h \in Singles /\ P[h] = "running"
<1> DEFINE S == {q \in Tasks : P[q] # "idle" =>
                    \A k \in Above(q, Singles) : k \in Singles /\ P[k] = "running"}
<1>1. ASSUME NEW q \in Tasks, By[q] = NoTask \/ By[q] \in S, P[q] # "idle",
             NEW k \in Above(q, Singles)
      PROVE  k \in Singles /\ P[k] = "running"
  <2>1. By[q] \in Singles /\ (k = By[q] \/ k \in Above(By[q], Singles))
    BY AboveFacts
  <2>2. By[q] \in Tasks /\ By[q] # NoTask
    BY <2>1, SinglesAre DEF LineageAssumption
  <2>3. P[By[q]] = "running"
    BY <1>1, <2>2 DEF Attended
  <2> QED
    BY <1>1, <2>1, <2>2, <2>3
<1>2. S = Tasks
  <2>1. S \in SUBSET Tasks /\ \A q \in Tasks : By[q] = NoTask \/ By[q] \in S => q \in S
    BY <1>1
  <2> HIDE DEF S
  <2> QED
    BY <2>1, AlongBy
<1> QED
  BY <1>2

\* Where the runs of all tasks above are holders, the nearest holder of an agent, up to
\* the run of a task above, does not depend on the other holders.
LEMMA SameNearest ==
    ASSUME LineageAssumption, NEW H \in SUBSET Runs, NEW G \in SUBSET Runs,
           NEW x \in Tasks, NEW h \in Above(x, Singles),
           \A k \in Above(x, Singles) : RunOf[k] \in H /\ RunOf[k] \in G
    PROVE  Nearest(H, Parent(RunOf[x]), AgentOf(h)) = Nearest(G, Parent(RunOf[x]), AgentOf(h))
<1> DEFINE a == AgentOf(h)
           Known(q) == \A k \in Above(q, Singles) : RunOf[k] \in H /\ RunOf[k] \in G
           S == {q \in Tasks : h \in Above(q, Singles) /\ Known(q) =>
                    Nearest(H, Parent(RunOf[q]), a) = Nearest(G, Parent(RunOf[q]), a)}
<1>0. \A q \in Tasks : By[q] \in Singles => By[q] # NoTask /\ By[q] \in Tasks
  BY SinglesAre DEF LineageAssumption
<1>1. ASSUME NEW q \in Tasks, By[q] = NoTask \/ By[q] \in S, h \in Above(q, Singles), Known(q)
      PROVE  Nearest(H, Parent(RunOf[q]), a) = Nearest(G, Parent(RunOf[q]), a)
  <2> DEFINE u == By[q]
             p == Parent(RunOf[q])
  <2>1. u \in Singles /\ Above(q, Singles) = {u} \cup Above(u, Singles)
    BY <1>1, AboveFacts
  <2>2. u \in Tasks /\ u # NoTask /\ u \in S
    BY <1>0, <1>1, <2>1
  <2>3. p = RunOf[u] /\ p \in Runs
    BY <2>2 DEF LineageAssumption, Parent
  <2>4. p \in H /\ p \in G
    BY <1>1, <2>1, <2>3
  <2>5. Known(u)
    BY <1>1, <2>1
  <2>6. h = u \/ h \in Above(u, Singles)
    BY <1>1, <2>1
  <2>7. /\ Nearest(H, p, a) = IF Lineage[p].agent = a THEN p ELSE Nearest(H, Parent(p), a)
        /\ Nearest(G, p, a) = IF Lineage[p].agent = a THEN p ELSE Nearest(G, Parent(p), a)
    <3>1. \A z \in Runs : Nearest(H, z, a) = IF z \notin H THEN NoRun
                                          ELSE IF Lineage[z].agent = a THEN z
                                          ELSE Nearest(H, Parent(z), a)
      BY NearestFacts
    <3>2. \A z \in Runs : Nearest(G, z, a) = IF z \notin G THEN NoRun
                                          ELSE IF Lineage[z].agent = a THEN z
                                          ELSE Nearest(G, Parent(z), a)
      BY NearestFacts
    <3> HIDE DEF a, p
    <3> QED
      BY <2>3, <2>4, <3>1, <3>2
  <2>8. h = u => Lineage[p].agent = a
    BY <2>3 DEF AgentOf
  <2>9. h \in Above(u, Singles) => Nearest(H, Parent(p), a) = Nearest(G, Parent(p), a)
    <3>1. h \in Above(u, Singles) => Nearest(H, Parent(RunOf[u]), a) = Nearest(G, Parent(RunOf[u]), a)
      <4> HIDE DEF Known, a
      <4> QED
        BY <2>2, <2>5
    <3> QED
      BY <2>3, <3>1
  <2> HIDE DEF a, p, u
  <2> QED
    BY <2>6, <2>7, <2>8, <2>9 DEF p
<1>2. S = Tasks
  <2>1. S \in SUBSET Tasks /\ \A q \in Tasks : By[q] = NoTask \/ By[q] \in S => q \in S
    BY <1>1
  <2> HIDE DEF S
  <2> QED
    BY <2>1, AlongBy
<1> QED
  BY <1>2

(***************************************************************************)
(* What awaits executes, and a run with one task is a holder exactly while *)
(* the task executes.                                                      *)
(***************************************************************************)
TreeInv ==
    /\ pc \in [Tasks -> {"idle", "wait", "running"}]
    /\ holders \in SUBSET Runs
    /\ \A t \in Singles : RunOf[t] \in holders <=> pc[t] = "running"
    /\ Attended(pc)

\* taking semaphores in a row
LEMMA TreeTake ==
    ASSUME LineageAssumption, TreeInv, NEW r \in Tasks, NEW keys, NEW got, pc[r] # "running",
           By[r] # NoTask => pc[By[r]] = "running", TakeInARow(r, keys, got)
    PROVE  /\ TreeInv' /\ pc'[r] # "idle" /\ \A q \in Tasks \ {r} : pc'[q] = pc[q]
           /\ \A q \in Tasks : pc'[q] # "idle" /\ By[q] # NoTask => pc[By[q]] = "running"
<1>1. \/ pc' = [pc EXCEPT ![r] = "wait"] /\ holders' = holders
      \/ pc' = [pc EXCEPT ![r] = "running"] /\ holders' = holders \cup {RunOf[r]}
  BY DEF TakeInARow
<1>2. /\ pc \in [Tasks -> {"idle", "wait", "running"}] /\ holders \in SUBSET Runs
      /\ \A t \in Singles : RunOf[t] \in holders <=> pc[t] = "running"
      /\ \A t \in Tasks : pc[t] # "idle" /\ By[t] # NoTask => pc[By[t]] = "running"
  BY DEF TreeInv, Attended
<1>3. /\ pc' \in [Tasks -> {"idle", "wait", "running"}] /\ pc'[r] # "idle"
      /\ \A q \in Tasks \ {r} : pc'[q] = pc[q]
  BY <1>1, <1>2
<1>4. RunOf \in [Tasks -> Runs] /\ By \in [Tasks -> Tasks \cup {NoTask}]
  BY DEF LineageAssumption
<1>5. holders' \in SUBSET Runs
  BY <1>1, <1>2, <1>4
<1>6. ASSUME NEW t \in Singles PROVE RunOf[t] \in holders' <=> pc'[t] = "running"
  <2>1. t \in Tasks /\ (RunOf[t] = RunOf[r] => t = r)
    BY SinglesAre
  <2>2. CASE t = r
    BY <1>1, <1>2, <1>6, <2>2
  <2>3. CASE t # r
    BY <1>1, <1>2, <1>3, <1>6, <2>1, <2>3
  <2> QED
    BY <2>2, <2>3
<1>7. ASSUME NEW q \in Tasks, pc'[q] # "idle", By[q] # NoTask PROVE pc[By[q]] = "running"
  BY <1>2, <1>3, <1>7
<1>8. ASSUME NEW q \in Tasks, pc'[q] # "idle", By[q] # NoTask PROVE pc'[By[q]] = "running"
  <2>1. pc[By[q]] = "running" /\ By[q] \in Tasks
    BY <1>4, <1>7, <1>8
  <2> QED
    BY <1>3, <2>1
<1>9. Attended(pc)'
  BY <1>8 DEF Attended
<1>10. (\A t \in Singles : RunOf[t] \in holders <=> pc[t] = "running")'
  BY <1>6 DEF Singles
<1> QED
  BY <1>3, <1>5, <1>7, <1>9, <1>10 DEF TreeInv

LEMMA TreeStart ==
    ASSUME LineageAssumption, TreeInv, NEW r \in Tasks, RunWithLimits(r)
    PROVE  /\ TreeInv' /\ pc'[r] # "idle" /\ \A q \in Tasks \ {r} : pc'[q] = pc[q]
           /\ \A q \in Tasks : pc'[q] # "idle" /\ By[q] # NoTask => pc[By[q]] = "running"
<1> DEFINE keys == Keys(RunOf[r])
           got == {}
<1>1. pc[r] = "idle" /\ TakeInARow(r, keys, got) /\ (By[r] # NoTask => pc[By[r]] = "running")
  BY DEF RunWithLimits, CanStartChildren
<1> HIDE DEF keys, got
<1> QED
  BY <1>1, TreeTake

LEMMA TreeAcquire ==
    ASSUME LineageAssumption, TreeInv, NEW r \in Tasks, Acquire(r)
    PROVE  /\ TreeInv' /\ pc'[r] # "idle" /\ \A q \in Tasks \ {r} : pc'[q] = pc[q]
           /\ \A q \in Tasks : pc'[q] # "idle" /\ By[q] # NoTask => pc[By[q]] = "running"
<1> DEFINE keys == plan[r]
           got == held[r] \cup {want[r]}
<1>1. pc[r] = "wait" /\ TakeInARow(r, keys, got)
  BY DEF Acquire
<1>2. By[r] # NoTask => pc[By[r]] = "running"
  BY <1>1 DEF TreeInv, Attended
<1> HIDE DEF keys, got
<1> QED
  BY <1>1, <1>2, TreeTake

LEMMA TreeLeave ==
    ASSUME LineageAssumption, TreeInv, NEW r \in Tasks, NoAwaitedChild(r), Leave(r)
    PROVE  /\ TreeInv' /\ \A q \in Tasks : pc'[q] # "idle" /\ By[q] # NoTask => pc[By[q]] = "running"
<1>1. pc' = [pc EXCEPT ![r] = "idle"] /\ holders' = HoldersWithout(r)
  BY DEF Leave
<1>2. /\ pc \in [Tasks -> {"idle", "wait", "running"}] /\ holders \in SUBSET Runs
      /\ \A t \in Singles : RunOf[t] \in holders <=> pc[t] = "running"
      /\ \A t \in Tasks : pc[t] # "idle" /\ By[t] # NoTask => pc[By[t]] = "running"
  BY DEF TreeInv, Attended
<1>3. /\ pc' \in [Tasks -> {"idle", "wait", "running"}] /\ pc'[r] = "idle"
      /\ \A q \in Tasks \ {r} : pc'[q] = pc[q]
  BY <1>1, <1>2
<1>4. holders' \in SUBSET Runs
  BY <1>1, <1>2 DEF HoldersWithout
<1>5. ASSUME NEW t \in Singles PROVE RunOf[t] \in holders' <=> pc'[t] = "running"
  <2>1. t \in Tasks /\ (RunOf[t] = RunOf[r] => t = r)
    BY SinglesAre
  <2>2. CASE t = r
    <3>1. RunOf[r] \notin holders'
      BY <1>1, <1>2, <1>5, <2>2 DEF HoldersWithout
    <3> QED
      BY <1>3, <2>2, <3>1
  <2>3. CASE t # r
    BY <1>1, <1>2, <1>3, <1>5, <2>1, <2>3 DEF HoldersWithout
  <2> QED
    BY <2>2, <2>3
<1>6. ASSUME NEW q \in Tasks, pc'[q] # "idle", By[q] # NoTask
      PROVE  pc[By[q]] = "running" /\ pc'[By[q]] = "running"
  <2>1. q # r /\ pc[q] # "idle"
    BY <1>3, <1>6
  <2>2. By[q] # r
    BY <2>1 DEF NoAwaitedChild, Active
  <2>3. By[q] \in Tasks
    BY <1>6 DEF LineageAssumption
  <2> QED
    BY <1>2, <1>3, <1>6, <2>1, <2>2, <2>3
<1>7. Attended(pc)'
  BY <1>6 DEF Attended
<1>8. (\A t \in Singles : RunOf[t] \in holders <=> pc[t] = "running")'
  BY <1>5 DEF Singles
<1> QED
  BY <1>3, <1>4, <1>6, <1>7, <1>8 DEF TreeInv

LEMMA TreeSame ==
    ASSUME TreeInv, UNCHANGED <<pc, holders>>
    PROVE  TreeInv'
BY DEF TreeInv, Attended, Singles

(***************************************************************************)
(* The lane of h: a semaphore of one permit.  A task in the tree that h    *)
(* awaits, with h's run its nearest holder of its agent, has it or will    *)
(* take it; while such a tree exists nobody drops it, since h cannot leave *)
(* and no other task has its run.                                          *)
(***************************************************************************)
Lane(h) == <<"lane", RunOf[h], "agent", AgentOf(h)>>

Tree(h) == Below(h, Singles)

Under(h) ==
    {r \in Tree(h) : AgentOf(r) = AgentOf(h) /\ NearestHolder(RunOf[r], "agent") = RunOf[h]}

InLane(r, k) ==
    \/ k \in DOMAIN dict /\ dict[k] \in held[r]
    \/ /\ pc[r] = "wait"
       /\ \/ k \in DOMAIN dict /\ want[r] = dict[k]
          \/ \E i \in 1..Len(plan[r]) : plan[r][i] = k

LaneInv ==
    \A h \in Executing :
        /\ \A r \in Under(h) : InLane(r, Lane(h))
        /\ \A r \in Tree(h) : \A s \in Uses(r) :
              s.key = Lane(h) => Lane(h) \in DOMAIN dict /\ dict[Lane(h)] = s
        /\ \A r, q \in Tree(h) :
              Lane(h) \in DOMAIN dict /\ dict[Lane(h)] \in held[r] \cap held[q] => r = q

\* a lane has one permit
PermitInv == \A k \in DOMAIN dict : k[1] = "lane" => dict[k].cap = 1

LEMMA TreeIs ==
    /\ \A h, x : x \in Tree(h) <=> x \in Active /\ h \in Above(x, Singles)
    /\ \A h, x : x \in Tree(h)' <=> x \in Active' /\ h \in Above(x, Singles)
<1>1. \A h : Tree(h) = {t \in Active : h \in Above(t, Singles)}
  BY DEF Tree, Below
<1>2. \A h : Tree(h)' = {t \in Active' : h \in Above(t, Singles)}
  BY Zenon DEF Tree, Below, Above, Singles
<1> QED
  BY <1>1, <1>2

\* Whoever is in a tree after a step was in it before, unless it is the task that
\* starts, and its nearest holder was the same run.
LEMMA TreeBefore ==
    ASSUME LineageAssumption, TreeInv, TreeInv',
           \A q \in Tasks : pc'[q] # "idle" /\ By[q] # NoTask => pc[By[q]] = "running",
           NEW h, NEW x \in Tree(h)'
    PROVE  /\ x \in Tasks /\ h \in Tasks /\ h \in Singles /\ h \in Executing /\ pc'[h] = "running"
           /\ pc[x] # "idle" => x \in Tree(h)
           /\ x \in Under(h)' => NearestHolder(RunOf[x], "agent") = RunOf[h] /\ AgentOf(x) = AgentOf(h)
<1>1. x \in Active' /\ h \in Above(x, Singles)
  BY TreeIs
<1>2. x \in Tasks /\ pc'[x] # "idle"
  BY <1>1 DEF Active
<1>3. Attended(pc) /\ Attended(pc')
  BY DEF TreeInv, Attended
<1>4. \A k \in Above(x, Singles) : k \in Singles /\ pc'[k] = "running"
  <2> DEFINE P == pc'
  <2>1. Attended(P) /\ P[x] # "idle"
    BY <1>2, <1>3
  <2> HIDE DEF P
  <2>2. \A k \in Above(x, Singles) : k \in Singles /\ P[k] = "running"
    BY <1>2, <2>1, ChainRuns
  <2> QED
    BY <2>2 DEF P
<1>5. \A k \in Above(x, Singles) : pc[k] = "running"
  <2>1. By[x] \in Singles /\ Above(x, Singles) = {By[x]} \cup Above(By[x], Singles)
    BY <1>1, <1>2, AboveFacts
  <2>2. By[x] \in Tasks /\ By[x] # NoTask
    BY <2>1, SinglesAre DEF LineageAssumption
  <2>3. pc[By[x]] = "running"
    BY <1>2, <2>2
  <2>4. \A k \in Above(By[x], Singles) : pc[k] = "running"
    <3> DEFINE u == By[x]
    <3>1. u \in Tasks /\ pc[u] # "idle"
      BY <2>2, <2>3
    <3> HIDE DEF u
    <3>2. \A k \in Above(u, Singles) : pc[k] = "running"
      BY <1>3, <3>1, ChainRuns
    <3> QED
      BY <3>2 DEF u
  <2> QED
    BY <2>1, <2>3, <2>4
<1>6. h \in Tasks /\ h \in Singles /\ h \in Executing /\ pc'[h] = "running"
  BY <1>1, <1>4, <1>5, SinglesAre DEF Executing
<1>7. pc[x] # "idle" => x \in Tree(h)
  BY <1>1, <1>2, TreeIs DEF Active
<1>8. ASSUME x \in Under(h)'
      PROVE  NearestHolder(RunOf[x], "agent") = RunOf[h] /\ AgentOf(x) = AgentOf(h)
  <2>1. NearestHolder(RunOf[x], "agent")' = RunOf[h] /\ AgentOf(x) = AgentOf(h)
    BY <1>8 DEF Under, AgentOf
  <2> DEFINE G == holders'
  <2>2. NearestHolder(RunOf[x], "agent")' = Nearest(G, Parent(RunOf[x]), AgentOf(x))
    <3>1. ActiveChain(RunOf[x])' = ChainFn(G)[Parent(RunOf[x])]
      BY Zenon DEF ActiveChain, ChainFn, Parent
    <3> HIDE DEF G
    <3> QED
      BY <3>1 DEF NearestHolder, Nearest, FirstOf, AgentOf
  <2>3. NearestHolder(RunOf[x], "agent") = Nearest(holders, Parent(RunOf[x]), AgentOf(x))
    BY NearestIs DEF AgentOf
  <2>4. /\ holders \in SUBSET Runs /\ G \in SUBSET Runs
        /\ \A k \in Above(x, Singles) : RunOf[k] \in holders /\ RunOf[k] \in G
    <3>1. holders \in SUBSET Runs /\ G \in SUBSET Runs
      BY DEF TreeInv
    <3>2. \A t \in Singles : RunOf[t] \in holders <=> pc[t] = "running"
      BY DEF TreeInv
    <3>3. \A t \in Singles : RunOf[t] \in G <=> pc'[t] = "running"
      BY DEF TreeInv, Singles
    <3> HIDE DEF G
    <3> QED
      BY <1>4, <1>5, <3>1, <3>2, <3>3
  <2> HIDE DEF G
  <2>5. Nearest(holders, Parent(RunOf[x]), AgentOf(h)) = Nearest(G, Parent(RunOf[x]), AgentOf(h))
    BY <1>1, <1>2, <2>4, SameNearest
  <2> QED
    BY <2>1, <2>2, <2>3, <2>5
<1> QED
  BY <1>2, <1>6, <1>7, <1>8

\* of the tasks in a tree after a step, all but r were in it before
StaysInTree(r) ==
    \A h : \A x \in Tree(h)' :
        /\ x \in Tasks /\ h \in Tasks /\ h \in Executing
        /\ x # r => x \in Tree(h) /\ pc[x] # "idle"
        /\ x \in Under(h)' /\ x # r => x \in Under(h)

LEMMA TreeStays ==
    ASSUME LineageAssumption, TreeInv, TreeInv', NEW r,
           \A q \in Tasks : pc'[q] # "idle" /\ By[q] # NoTask => pc[By[q]] = "running",
           \A q \in Tasks \ {r} : pc'[q] = pc[q]
    PROVE  StaysInTree(r)
<1> SUFFICES ASSUME NEW h, NEW x \in Tree(h)'
             PROVE  /\ x \in Tasks /\ h \in Tasks /\ h \in Executing
                    /\ x # r => x \in Tree(h) /\ pc[x] # "idle"
                    /\ x \in Under(h)' /\ x # r => x \in Under(h)
  BY DEF StaysInTree
<1>1. /\ x \in Tasks /\ h \in Tasks /\ h \in Executing
      /\ pc[x] # "idle" => x \in Tree(h)
      /\ x \in Under(h)' => NearestHolder(RunOf[x], "agent") = RunOf[h] /\ AgentOf(x) = AgentOf(h)
  BY TreeBefore
<1>2. pc'[x] # "idle"
  BY TreeIs DEF Active
<1> QED
  BY <1>1, <1>2 DEF Under

LEMMA LaneKeys ==
    ASSUME NEW h, NEW x
    PROVE  Lane(h)[1] = "lane" /\ (x = NoSem => x.key # Lane(h))
BY DEF Lane, NoSem

\* Taking semaphores in a row keeps the lanes.
LEMMA LaneTake ==
    ASSUME Sizes, AdmissionInv, LaneInv, PermitInv,
           NEW r \in Tasks, NEW K, NEW keys \in Seq(K), NEW got, NEW n \in 0..Len(keys),
           TookFirst(r, keys, got, n),
           StaysInTree(r),
           held[r] \subseteq got,
           \A s \in got : s \in held[r] \/ (s \in Uses(r) /\ Value(s) > 0),
           \A h \in Executing : r \in Tree(h)' /\ got # {} => r \in Tree(h),
           \A h \in Executing : r \in Under(h)' =>
                \/ Lane(h) \in DOMAIN dict /\ dict[Lane(h)] \in got
                \/ \E i \in 1..Len(keys) : keys[i] = Lane(h)
    PROVE  LaneInv' /\ PermitInv'
<1>0. Len(keys) \in Nat /\ n \in Nat /\ n <= Len(keys)
  OBVIOUS
<1> DEFINE new == {SemaphoreFor(keys[i]) : i \in 1..n}
           E == {keys[i] : i \in {j \in 1..Len(keys) : j <= n + 1}}
<1>1. /\ DOMAIN held = Tasks /\ DOMAIN want = Tasks /\ DOMAIN plan = Tasks
      /\ pc \in [Tasks -> {"idle", "wait", "running"}]
  BY DEF AdmissionInv, ShapeInv
<1>2. /\ held'[r] = got \cup new
      /\ \A q \in Tasks \ {r} : held'[q] = held[q] /\ want'[q] = want[q] /\ plan'[q] = plan[q]
                               /\ pc'[q] = pc[q]
      /\ plan'[r] = SubSeq(keys, n + 2, Len(keys))
  BY <1>1 DEF TookFirst
<1>3. \/ n < Len(keys) /\ want'[r] = SemaphoreFor(keys[n + 1]) /\ pc'[r] = "wait"
      \/ n = Len(keys) /\ want'[r] = NoSem /\ pc'[r] = "running"
  BY <1>1 DEF TookFirst
<1>4. \A j \in 1..n : Value(SemaphoreFor(keys[j])) > 0
  BY DEF TookFirst, Free
<1>5. /\ DOMAIN dict' = DOMAIN dict \cup E
      /\ \A k \in DOMAIN dict' : dict'[k] = SemaphoreFor(k)
  <2>1. dict' = [j \in DOMAIN dict \cup E |-> SemaphoreFor(j)]
    BY DEF TookFirst, WithEntries
  <2> HIDE DEF E
  <2> QED
    BY <2>1
<1>6. \A i \in 1..Len(keys) : i <= n + 1 => keys[i] \in DOMAIN dict'
  BY <1>5
<1>7. \A k : SemaphoreFor(k).key = k /\ (k \in DOMAIN dict => SemaphoreFor(k) = dict[k])
  BY LookupFacts DEF AdmissionInv
<1>8. \A k \in DOMAIN dict : k \in DOMAIN dict' /\ dict'[k] = dict[k]
  BY <1>5, <1>7
<1>9. PermitInv'
  <2>1. ASSUME NEW k, k[1] = "lane", k \notin DOMAIN dict PROVE SemaphoreFor(k).cap = 1
    BY <2>1 DEF SemaphoreFor, FreshSemaphore, Capacity
  <2>2. ASSUME NEW k, k[1] = "lane", k \in DOMAIN dict PROVE SemaphoreFor(k).cap = 1
    BY <1>7, <2>2 DEF PermitInv
  <2> QED
    BY <1>5, <2>1, <2>2 DEF PermitInv
<1>10. ASSUME NEW h, NEW x \in Tree(h)'
       PROVE  /\ x \in Tasks /\ h \in Tasks /\ h \in Executing
              /\ x # r => x \in Tree(h) /\ pc[x] # "idle"
              /\ x \in Under(h)' /\ x # r => x \in Under(h)
  BY DEF StaysInTree
<1>11. ASSUME NEW h \in Executing, NEW x \in Tree(h)', NEW s \in Uses(x)', s.key = Lane(h)
       PROVE  Lane(h) \in DOMAIN dict' /\ dict'[Lane(h)] = s
  <2>1. ASSUME s \in Uses(x), x \in Tree(h)
        PROVE  Lane(h) \in DOMAIN dict' /\ dict'[Lane(h)] = s
    BY <1>8, <1>11, <2>1 DEF LaneInv
  <2>2. CASE x # r
    BY <1>2, <1>10, <2>1, <2>2 DEF Uses
  <2>3. CASE x = r
    <3>1. s \in got \/ s \in new \/ s = want'[r]
      BY <1>2, <2>3 DEF Uses
    <3>2. CASE s \in got
      BY <2>1, <2>3, <3>2 DEF Uses
    <3>3. ASSUME NEW i \in 1..Len(keys), i <= n + 1, s = SemaphoreFor(keys[i])
          PROVE  Lane(h) \in DOMAIN dict' /\ dict'[Lane(h)] = s
      BY <1>5, <1>6, <1>7, <1>11, <3>3
    <3>4. CASE s \in new
      BY <1>0, <3>3, <3>4
    <3>5. CASE s = want'[r]
      BY <1>0, <1>3, <1>11, <3>3, <3>5, LaneKeys
    <3> QED
      BY <3>1, <3>2, <3>4, <3>5
  <2> QED
    BY <2>2, <2>3
<1>12. ASSUME NEW h \in Executing, NEW x \in Under(h)' PROVE InLane(x, Lane(h))'
  <2>0. x \in Tree(h)'
    BY DEF Under
  <2>1. CASE x # r
    <3>1. x \in Under(h) /\ x \in Tasks
      BY <1>10, <2>0, <2>1
    <3>2. InLane(x, Lane(h))
      BY <3>1 DEF LaneInv
    <3> QED
      BY <1>2, <1>8, <2>1, <3>1, <3>2 DEF InLane, Lane, AgentOf
  <2>2. CASE x = r
    <3>1. CASE Lane(h) \in DOMAIN dict /\ dict[Lane(h)] \in got
      BY <1>2, <1>8, <2>2, <3>1 DEF InLane, Lane, AgentOf
    <3>2. ASSUME NEW i \in 1..Len(keys), keys[i] = Lane(h) PROVE InLane(x, Lane(h))'
      <4>1. CASE i <= n
        <5>1. SemaphoreFor(keys[i]) \in held'[r]
          BY <1>0, <1>2, <4>1
        <5>2. Lane(h) \in DOMAIN dict' /\ dict'[Lane(h)] = SemaphoreFor(keys[i])
          BY <1>0, <1>5, <1>6, <3>2, <4>1
        <5> QED
          BY <2>2, <5>1, <5>2 DEF InLane, Lane, AgentOf
      <4>2. CASE i = n + 1
        <5>1. want'[r] = SemaphoreFor(keys[i]) /\ pc'[r] = "wait"
          BY <1>0, <1>3, <4>2
        <5>2. Lane(h) \in DOMAIN dict' /\ dict'[Lane(h)] = SemaphoreFor(keys[i])
          BY <1>0, <1>5, <1>6, <3>2, <4>2
        <5> QED
          BY <2>2, <5>1, <5>2 DEF InLane, Lane, AgentOf
      <4>3. CASE i > n + 1
        <5>1. pc'[r] = "wait"
          BY <1>0, <1>3, <4>3
        <5>2. \E j \in 1..Len(SubSeq(keys, n + 2, Len(keys))) : SubSeq(keys, n + 2, Len(keys))[j] = keys[i]
          BY <4>3, RestFacts, Zenon
        <5>3. \E j \in 1..Len(plan'[r]) : plan'[r][j] = Lane(h)
          BY <1>2, <3>2, <5>2
        <5> QED
          BY <2>2, <5>1, <5>3 DEF InLane, Lane, AgentOf
      <4> QED
        BY <1>0, <4>1, <4>2, <4>3
    <3> QED
      BY <2>2, <3>1, <3>2
  <2> QED
    BY <2>1, <2>2
<1>13. ASSUME NEW s, s.cap = 1, Value(s) > 0 PROVE \A q \in Tasks : s \notin held[q]
  <2>1. s.cap - Cardinality(HoldersOf(s)) > 0
    BY <1>13 DEF Value, HoldersOf
  <2>2. IsFiniteSet(HoldersOf(s))
    BY FS_Subset DEF HoldersOf, Sizes
  <2>3. Cardinality(HoldersOf(s)) \in Nat
    BY <2>2, FS_CardinalityType
  <2>4. Cardinality(HoldersOf(s)) = 0
    BY <1>13, <2>1, <2>3
  <2>5. HoldersOf(s) = {}
    BY <2>2, <2>4, FS_EmptySet
  <2> QED
    BY <2>5 DEF HoldersOf
<1>14. ASSUME NEW h \in Executing, NEW x \in Tree(h)', x # r, r \in Tree(h)',
              Lane(h) \in DOMAIN dict', dict'[Lane(h)] \in held'[x], dict'[Lane(h)] \in held'[r]
       PROVE  FALSE
  <2> DEFINE s == dict'[Lane(h)]
  <2>1. x \in Tree(h) /\ x \in Tasks /\ s \in held[x]
    BY <1>2, <1>10, <1>14
  <2>2. s.key = Lane(h)
    BY <1>5, <1>7, <1>14
  <2>3. Lane(h) \in DOMAIN dict /\ dict[Lane(h)] = s
    <3> HIDE DEF s
    <3> QED
      BY <2>1, <2>2 DEF LaneInv, Uses
  <2>4. s.cap = 1
    BY <2>3, LaneKeys DEF PermitInv
  <2> HIDE DEF s
  <2>5. ~(Value(s) > 0)
    BY <1>13, <2>1, <2>4
  <2>6. s \in got
    <3>1. s \in got \/ s \in new
      BY <1>2, <1>14 DEF s
    <3> QED
      BY <1>4, <2>5, <3>1
  <2>7. s \in held[r] /\ r \in Tree(h)
    BY <1>14, <2>5, <2>6
  <2> QED
    BY <1>14, <2>1, <2>3, <2>7 DEF LaneInv
<1>15. ASSUME NEW h \in Executing, NEW x \in Tree(h)', NEW q \in Tree(h)',
              Lane(h) \in DOMAIN dict', dict'[Lane(h)] \in held'[x], dict'[Lane(h)] \in held'[q]
       PROVE  x = q
  <2>1. CASE x # r /\ q # r
    <3> DEFINE s == dict'[Lane(h)]
    <3>1. x \in Tree(h) /\ q \in Tree(h) /\ x \in Tasks /\ s \in held[x] /\ s \in held[q]
      BY <1>2, <1>10, <1>15, <2>1
    <3>2. s.key = Lane(h)
      BY <1>5, <1>7, <1>15
    <3> HIDE DEF s
    <3>3. Lane(h) \in DOMAIN dict /\ dict[Lane(h)] = s
      BY <3>1, <3>2 DEF LaneInv, Uses
    <3> QED
      BY <3>1, <3>3 DEF LaneInv
  <2> QED
    BY <1>14, <1>15, <2>1
<1>16. \A h : Tree(h)' # {} => h \in Executing
  BY <1>10
<1>17. ASSUME NEW h \in Executing', h \notin Executing PROVE Tree(h)' = {} /\ Under(h)' = {}
  BY <1>10, <1>17 DEF Under
<1> QED
  BY <1>9, <1>11, <1>12, <1>15, <1>17 DEF LaneInv, Lane, AgentOf

LEMMA LaneStart ==
    ASSUME LineageAssumption, AdmissionInv, TreeInv, LaneInv, PermitInv,
           NEW r \in Tasks, RunWithLimits(r)
    PROVE  LaneInv' /\ PermitInv'
<1>1. /\ TreeInv'
      /\ \A q \in Tasks : pc'[q] # "idle" /\ By[q] # NoTask => pc[By[q]] = "running"
      /\ \A q \in Tasks \ {r} : pc'[q] = pc[q]
  BY TreeStart
<1>0. Sizes /\ StaysInTree(r)
  BY <1>1, TreeStays DEF Sizes, LineageAssumption
<1>2. RunOf[r] \in Runs /\ NoRun \notin Runs /\ RunOf \in [Tasks -> Runs]
  BY DEF LineageAssumption
<1>3. PICK K : Keys(RunOf[r]) \in Seq(K)
  BY <1>2, KeysFacts
<1>4. PICK i \in 1..Len(Keys(RunOf[r])) : Keys(RunOf[r])[i] = Reentrant(RunOf[r], "agent")
  BY <1>2, KeysFacts
<1> DEFINE keys == Keys(RunOf[r])
           got == {}
<1>5. TakeInARow(r, keys, got) /\ pc[r] = "idle" /\ keys \in Seq(K)
  BY <1>3 DEF RunWithLimits
<1>6. held[r] = {}
  BY <1>5 DEF AdmissionInv, WayInv
<1>7. ASSUME NEW h \in Executing, r \in Under(h)' PROVE \E j \in 1..Len(keys) : keys[j] = Lane(h)
  <2>1. r \in Tree(h)'
    BY <1>7 DEF Under
  <2>2. NearestHolder(RunOf[r], "agent") = RunOf[h] /\ AgentOf(r) = AgentOf(h) /\ h \in Tasks
    BY <1>1, <1>7, <2>1, TreeBefore
  <2>3. Reentrant(RunOf[r], "agent") = Lane(h)
    <3>1. NearestHolder(RunOf[r], "agent") # NoRun
      BY <1>2, <2>2
    <3> QED
      BY <2>2, <3>1 DEF Reentrant, Lane, AgentOf
  <2> QED
    BY <1>4, <2>3
<1> HIDE DEF keys
<1>8. PICK n \in 0..Len(keys) : TookFirst(r, keys, got, n)
  <2> HIDE DEF got
  <2> QED
    BY <1>5, TakeFacts
<1>9. held[r] \subseteq got /\ \A s \in got : s \in held[r] \/ (s \in Uses(r) /\ Value(s) > 0)
  BY <1>6
<1>10. \A h \in Executing : r \in Tree(h)' /\ got # {} => r \in Tree(h)
  OBVIOUS
<1> HIDE DEF got
<1> QED
  BY <1>0, <1>5, <1>7, <1>8, <1>9, <1>10, LaneTake

LEMMA LaneAcquire ==
    ASSUME LineageAssumption, AdmissionInv, TreeInv, LaneInv, PermitInv, NEW r \in Tasks, Acquire(r)
    PROVE  LaneInv' /\ PermitInv'
<1>1. /\ TreeInv'
      /\ \A q \in Tasks : pc'[q] # "idle" /\ By[q] # NoTask => pc[By[q]] = "running"
      /\ \A q \in Tasks \ {r} : pc'[q] = pc[q]
  BY TreeAcquire
<1>0. Sizes /\ StaysInTree(r)
  BY <1>1, TreeStays DEF Sizes, LineageAssumption
<1>2. PICK K : plan[r] \in Seq(K)
  BY DEF AdmissionInv, ShapeInv
<1> DEFINE keys == plan[r]
           got == held[r] \cup {want[r]}
<1>3. TakeInARow(r, keys, got) /\ pc[r] = "wait" /\ keys \in Seq(K) /\ Value(want[r]) > 0
  BY <1>2 DEF Acquire
<1>4. ASSUME NEW h \in Executing, r \in Tree(h)'
      PROVE  /\ r \in Tree(h)
             /\ r \in Under(h)' => NearestHolder(RunOf[r], "agent") = RunOf[h] /\ AgentOf(r) = AgentOf(h)
  BY <1>1, <1>3, <1>4, TreeBefore
<1>5. ASSUME NEW h \in Executing, r \in Under(h)'
      PROVE  \/ Lane(h) \in DOMAIN dict /\ dict[Lane(h)] \in got
             \/ \E i \in 1..Len(keys) : keys[i] = Lane(h)
  <2>1. r \in Tree(h)'
    BY <1>5 DEF Under
  <2>2. r \in Under(h)
    BY <1>4, <1>5, <2>1 DEF Under
  <2>3. InLane(r, Lane(h))
    BY <2>2 DEF LaneInv
  <2> QED
    BY <2>3 DEF InLane
<1>6. held[r] \subseteq got /\ \A s \in got : s \in held[r] \/ (s \in Uses(r) /\ Value(s) > 0)
  BY <1>3 DEF Uses
<1>7. \A h \in Executing : r \in Tree(h)' /\ got # {} => r \in Tree(h)
  BY <1>4
<1> HIDE DEF keys, got
<1>8. PICK n \in 0..Len(keys) : TookFirst(r, keys, got, n)
  BY <1>3, TakeFacts
<1> QED
  BY <1>0, <1>3, <1>5, <1>6, <1>7, <1>8, LaneTake

\* A task that leaves drops its own lanes, and entries nobody else uses.
LEMMA LaneLeave ==
    ASSUME LineageAssumption, AdmissionInv, TreeInv, LaneInv, PermitInv,
           NEW r \in Tasks, NoAwaitedChild(r), Leave(r)
    PROVE  LaneInv' /\ PermitInv'
<1>1. /\ TreeInv'
      /\ \A q \in Tasks : pc'[q] # "idle" /\ By[q] # NoTask => pc[By[q]] = "running"
  BY TreeLeave
<1>2. /\ pc' = [pc EXCEPT ![r] = "idle"]
      /\ plan' = [plan EXCEPT ![r] = <<>>] /\ want' = [want EXCEPT ![r] = NoSem]
      /\ held' = [held EXCEPT ![r] = {}] /\ dict' = WithoutEntries(Dropped(r))
  BY DEF Leave
<1>3. /\ pc'[r] = "idle"
      /\ \A q \in Tasks \ {r} : /\ pc'[q] = pc[q] /\ plan'[q] = plan[q]
                               /\ want'[q] = want[q] /\ held'[q] = held[q]
  BY <1>2 DEF AdmissionInv, ShapeInv
<1>4. DOMAIN dict' = DOMAIN dict \ Dropped(r) /\ \A k \in DOMAIN dict' : dict'[k] = dict[k]
  <2> DEFINE D == DOMAIN dict \ Dropped(r)
  <2>1. dict' = [j \in D |-> dict[j]]
    BY <1>2 DEF WithoutEntries
  <2> HIDE DEF D
  <2>2. DOMAIN dict' = D /\ \A k \in DOMAIN dict' : dict'[k] = dict[k]
    BY <2>1
  <2> QED
    BY <2>2 DEF D
<1>5. PermitInv'
  BY <1>4 DEF PermitInv
<1>7. ASSUME NEW h, NEW x \in Tree(h)'
      PROVE  /\ x \in Tasks \ {r} /\ h \in Executing /\ h \in Singles /\ h # r /\ x \in Tree(h)
             /\ x \in Under(h)' => x \in Under(h)
  <2>1. pc'[x] # "idle"
    BY TreeIs DEF Active
  <2>2. /\ x \in Tasks /\ h \in Singles /\ h \in Executing /\ pc'[h] = "running"
        /\ pc[x] # "idle" => x \in Tree(h)
        /\ x \in Under(h)' => NearestHolder(RunOf[x], "agent") = RunOf[h] /\ AgentOf(x) = AgentOf(h)
    BY <1>1, TreeBefore
  <2> QED
    BY <1>3, <2>1, <2>2 DEF Under
<1>8. ASSUME NEW h \in Singles, NEW x \in Tasks \ {r}, h # r,
             Lane(h) \in DOMAIN dict, dict[Lane(h)] \in held[x] \cup {want[x]}
      PROVE  Lane(h) \in DOMAIN dict' /\ dict'[Lane(h)] = dict[Lane(h)]
  <2>1. Lane(h)[1] = "lane" /\ Lane(h)[2] = RunOf[h] /\ RunOf[h] # RunOf[r]
    BY <1>8, SinglesAre DEF Lane
  <2>2. Lane(h) \notin Dropped(r)
    <3> DEFINE k == Lane(h)
    <3> HIDE DEF k
    <3>1. k[1] = "lane" /\ k[2] # RunOf[r] /\ dict[k] \in held[x] \cup {want[x]}
      BY <1>8, <2>1 DEF k
    <3>2. k \notin Dropped(r)
      BY <3>1 DEF Dropped
    <3> QED
      BY <3>2 DEF k
  <2> QED
    BY <1>4, <1>8, <2>2
<1>9. ASSUME NEW h, NEW x \in Tree(h)', NEW s \in Uses(x)', s.key = Lane(h)
      PROVE  Lane(h) \in DOMAIN dict' /\ dict'[Lane(h)] = s
  <2>1. x \in Tasks \ {r} /\ h \in Executing /\ h \in Singles /\ h # r /\ x \in Tree(h)
    BY <1>7
  <2>2. s \in Uses(x)
    BY <1>3, <2>1 DEF Uses
  <2>3. Lane(h) \in DOMAIN dict /\ dict[Lane(h)] = s
    BY <1>9, <2>1, <2>2 DEF LaneInv
  <2> QED
    BY <1>8, <2>1, <2>2, <2>3 DEF Uses
<1>10. ASSUME NEW h, NEW x \in Under(h)' PROVE InLane(x, Lane(h))'
  <2>1. x \in Tree(h)'
    BY DEF Under
  <2>2. x \in Tasks \ {r} /\ h \in Executing /\ h \in Singles /\ h # r /\ x \in Under(h)
    BY <1>7, <2>1
  <2>3. InLane(x, Lane(h))
    BY <2>2 DEF LaneInv
  <2>4. Lane(h) \in DOMAIN dict /\ dict[Lane(h)] \in held[x] \cup {want[x]} =>
           Lane(h) \in DOMAIN dict' /\ dict'[Lane(h)] = dict[Lane(h)]
    BY <1>8, <2>2
  <2> QED
    BY <1>3, <2>2, <2>3, <2>4 DEF InLane, Lane, AgentOf
<1>11. ASSUME NEW h, NEW x \in Tree(h)', NEW q \in Tree(h)',
              Lane(h) \in DOMAIN dict', dict'[Lane(h)] \in held'[x], dict'[Lane(h)] \in held'[q]
       PROVE  x = q
  <2>1. /\ x \in Tasks \ {r} /\ h \in Executing /\ x \in Tree(h)
        /\ q \in Tasks \ {r} /\ q \in Tree(h)
    BY <1>7
  <2>2. Lane(h) \in DOMAIN dict /\ dict[Lane(h)] \in held[x] /\ dict[Lane(h)] \in held[q]
    BY <1>3, <1>4, <1>11, <2>1
  <2> QED
    BY <2>1, <2>2 DEF LaneInv
<1> QED
  BY <1>5, <1>9, <1>10, <1>11 DEF LaneInv, Lane, AgentOf

\* reconfigure() drops the lanes when no run with one task executes.
LEMMA LaneReload ==
    ASSUME LineageAssumption, TreeInv, LaneInv, PermitInv, NEW l, Reconfigure(l)
    PROVE  LaneInv' /\ PermitInv'
<1>1. holders = {} /\ UNCHANGED <<pc, holders>> /\ dict' = WithoutEntries({k \in DOMAIN dict : k[1] # "agent"})
  BY DEF Reconfigure
<1>2. ASSUME NEW h, NEW x \in Tree(h)' PROVE FALSE
  <2>1. x \in Tasks /\ pc[x] # "idle" /\ h \in Above(x, Singles)
    BY <1>1, TreeIs DEF Active
  <2>2. Attended(pc)
    BY DEF TreeInv
  <2>3. h \in Singles /\ pc[h] = "running"
    BY <2>1, <2>2, ChainRuns
  <2> QED
    BY <1>1, <2>3 DEF TreeInv
<1>3. \A h : Tree(h)' = {} /\ Under(h)' = {}
  BY <1>2 DEF Under
<1>4. \A k \in DOMAIN dict' : k \in DOMAIN dict /\ dict'[k] = dict[k]
  <2> DEFINE D == DOMAIN dict \ {k \in DOMAIN dict : k[1] # "agent"}
  <2>1. dict' = [j \in D |-> dict[j]]
    BY <1>1 DEF WithoutEntries
  <2>2. \A k \in D : k \in DOMAIN dict
    OBVIOUS
  <2> HIDE DEF D
  <2> QED
    BY <2>1, <2>2
<1> QED
  BY <1>3, <1>4 DEF LaneInv, PermitInv

\* A step that only cancels tasks changes nothing of it.
LEMMA LaneSame ==
    ASSUME LaneInv, PermitInv, UNCHANGED <<pc, plan, want, held, holders, dict>>
    PROVE  LaneInv' /\ PermitInv'
<1>1. Executing' = Executing
  BY DEF Executing
<1>2. ASSUME NEW h PROVE Tree(h)' = Tree(h)
  <2>1. Active' = Active
    BY DEF Active
  <2>2. \A x : x \in Tree(h)' <=> x \in Tree(h)
    BY <2>1, TreeIs
  <2>3. \A x \in Tree(h)' : x \in Tree(h)
    BY <2>2
  <2> QED
    BY <2>2, <2>3
<1>3. ASSUME NEW x PROVE NearestHolder(x, "agent")' = NearestHolder(x, "agent")
  <2>1. ActiveChain(x)' = ActiveChain(x)
    BY Zenon DEF ActiveChain, Parent
  <2>2. NearestHolder(x, "agent") = FirstOf(ActiveChain(x), Lineage[x].agent)
    BY DEF NearestHolder, FirstOf
  <2>3. NearestHolder(x, "agent")' = FirstOf(ActiveChain(x)', Lineage[x].agent)
    BY DEF NearestHolder, FirstOf
  <2> QED
    BY <2>1, <2>2, <2>3
<1>4. ASSUME NEW h PROVE Under(h)' = Under(h)
  BY <1>2, <1>3 DEF Under, AgentOf
<1>5. ASSUME NEW x, NEW k PROVE Uses(x)' = Uses(x) /\ (InLane(x, k)' <=> InLane(x, k))
  BY DEF Uses, InLane
<1>6. \A h : Lane(h)' = Lane(h)
  BY DEF Lane, AgentOf
<1>7. dict' = dict /\ held' = held
  OBVIOUS
<1>8. LaneInv'
  <2> SUFFICES ASSUME NEW h \in Executing
               PROVE  /\ \A r \in Under(h)' : InLane(r, Lane(h))'
                      /\ \A r \in Tree(h)' : \A s \in Uses(r)' :
                            s.key = Lane(h) => Lane(h) \in DOMAIN dict' /\ dict'[Lane(h)] = s
                      /\ \A r, q \in Tree(h)' :
                            Lane(h) \in DOMAIN dict' /\ dict'[Lane(h)] \in held'[r] \cap held'[q] => r = q
    BY <1>1, <1>6 DEF LaneInv
  <2>1. \A r \in Under(h)' : InLane(r, Lane(h))'
    BY <1>4, <1>5 DEF LaneInv, Lane, AgentOf
  <2>2. \A r \in Tree(h)' : \A s \in Uses(r)' :
           s.key = Lane(h) => Lane(h) \in DOMAIN dict' /\ dict'[Lane(h)] = s
    BY <1>2, <1>5, <1>7 DEF LaneInv
  <2>3. \A r, q \in Tree(h)' :
           Lane(h) \in DOMAIN dict' /\ dict'[Lane(h)] \in held'[r] \cap held'[q] => r = q
    BY <1>2, <1>7 DEF LaneInv
  <2> QED
    BY <2>1, <2>2, <2>3
<1> QED
  BY <1>8 DEF PermitInv

LaneStateInv == AdmissionInv /\ TreeInv /\ LaneInv /\ PermitInv

LEMMA LaneInit ==
    ASSUME LineageAssumption, Init
    PROVE  LaneStateInv
<1>1. AdmissionInv
  BY AdmissionInit
<1>2. /\ pc \in [Tasks -> {"idle", "wait", "running"}] /\ \A q \in Tasks : pc[q] # "running"
      /\ \A q \in Tasks : pc[q] = "idle"
      /\ holders = {} /\ DOMAIN dict = {}
  BY DEF Init
<1>3. Executing = {}
  BY <1>2 DEF Executing
<1>4. TreeInv
  BY <1>2, SinglesAre DEF TreeInv, Attended
<1> QED
  BY <1>1, <1>2, <1>3, <1>4 DEF LaneStateInv, LaneInv, PermitInv

LEMMA LaneStep ==
    ASSUME LineageAssumption, LaneStateInv, [Next]_vars
    PROVE  LaneStateInv'
<1> USE DEF LaneStateInv
<1>1. AdmissionInv'
  BY AdmissionStep
<1>2. ASSUME NEW r \in Tasks, RunWithLimits(r)
      PROVE  (TreeInv /\ LaneInv /\ PermitInv)'
  BY <1>2, TreeStart, LaneStart
<1>3. ASSUME NEW r \in Tasks, Acquire(r) PROVE (TreeInv /\ LaneInv /\ PermitInv)'
  BY <1>3, TreeAcquire, LaneAcquire
<1>4. ASSUME NEW r \in Tasks, Return(r) \/ Unwind(r) PROVE (TreeInv /\ LaneInv /\ PermitInv)'
  <2>1. NoAwaitedChild(r) /\ Leave(r)
    BY <1>4 DEF Return, Unwind
  <2> QED
    BY <2>1, TreeLeave, LaneLeave
<1>5. ASSUME NEW r, AttemptTimesOut(r) \/ CancelTask(r) PROVE (TreeInv /\ LaneInv /\ PermitInv)'
  <2>1. UNCHANGED <<pc, plan, want, held, holders, dict>>
    BY <1>5 DEF AttemptTimesOut, CancelTask
  <2>2. TreeInv'
    BY <2>1, TreeSame
  <2> QED
    BY <2>1, <2>2, LaneSame
<1>6. ASSUME NEW l, Reconfigure(l) PROVE (TreeInv /\ LaneInv /\ PermitInv)'
  <2>1. UNCHANGED <<pc, holders>>
    BY <1>6 DEF Reconfigure
  <2>2. TreeInv'
    BY <2>1, TreeSame
  <2> QED
    BY <1>6, <2>2, LaneReload
<1>7. CASE UNCHANGED vars
  <2>1. UNCHANGED <<pc, plan, want, held, holders, dict>>
    BY <1>7 DEF vars
  <2>2. TreeInv'
    BY <2>1, TreeSame
  <2> QED
    BY <1>1, <2>1, <2>2, LaneSame
<1> QED
  BY <1>1, <1>2, <1>3, <1>4, <1>5, <1>6, <1>7 DEF Next

\* For every forest of runs, every set of tasks for them, every set of settings and every
\* number of reloads, a run that fans out into its own agent has one task of it at a time
\* below it, where the runs on the way down have one task each: those whose nearest
\* executing ancestor of the agent it is share a semaphore with one permit, which no end
\* of another task and no reconfigure() replaces under them (scheduler.py takes the
\* ancestor lane in run_with_limits and drops it with its run).
THEOREM LaneHolds == Spec => []LaneIsSingle
<1> USE LineageAssumption
<1>1. Init => LaneStateInv
  BY LaneInit
<1>2. LaneStateInv /\ [Next]_vars => LaneStateInv'
  BY LaneStep
<1>3. LaneStateInv => LaneIsSingle
  <2> SUFFICES ASSUME LaneStateInv, NEW h \in Executing,
                      NEW r \in Executing \cap Tree(h), NEW q \in Executing \cap Tree(h),
                      AgentOf(r) = AgentOf(h), NearestHolder(RunOf[r], "agent") = RunOf[h],
                      AgentOf(q) = AgentOf(h), NearestHolder(RunOf[q], "agent") = RunOf[h]
               PROVE  r = q
    BY DEF LaneIsSingle, Tree
  <2>1. r \in Under(h) /\ q \in Under(h) /\ r \in Tree(h) /\ q \in Tree(h)
    BY DEF Under
  <2>2. InLane(r, Lane(h)) /\ InLane(q, Lane(h))
    BY <2>1 DEF LaneStateInv, LaneInv
  <2>3. pc[r] # "wait" /\ pc[q] # "wait"
    BY DEF Executing
  <2>4. Lane(h) \in DOMAIN dict /\ dict[Lane(h)] \in held[r] \cap held[q]
    BY <2>2, <2>3 DEF InLane
  <2> QED
    BY <2>1, <2>4 DEF LaneStateInv, LaneInv
<1> QED
  BY <1>1, <1>2, <1>3, PTL DEF Spec
=============================================================================
