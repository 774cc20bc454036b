--------------------------- MODULE InterfacesProofs ---------------------------
(***************************************************************************)
(* What discovery_plan computes, for every host: any number of interfaces, *)
(* networks and selections.  The plan is a recursion over the interfaces;  *)
(* each induction is an argument about a smallest counterexample.          *)
(***************************************************************************)
EXTENDS Interfaces, FiniteSetTheorems, WellFoundedInduction, TLAPS

\* The interfaces of a host: numbers, finitely many, each of a known kind.
Known(records, set) ==
  set \in SUBSET Nat /\ IsFiniteSet(set) /\ \A i \in set : records[i].kind \in Kind

-----------------------------------------------------------------------------
(* Smallest counterexamples.                                                *)

LEMMA LeastSet ==
  ASSUME NEW S, IsFiniteSet(S), NEW B \in SUBSET SUBSET S, B # {}
  PROVE  \E x \in B : \A y \in B : y \subseteq x => y = x
<1>1. B \subseteq FiniteSubsetsOf(S)
  BY FS_Subset DEF FiniteSubsetsOf
<1>2. \E x \in B : \A y \in B : ~(<<y, x>> \in StrictSubsetOrdering(S))
  BY <1>1, FS_StrictSubsetOrderingWellFounded, WFMin
<1> QED BY <1>2 DEF StrictSubsetOrdering

LEMMA LeastNumber ==
  ASSUME NEW B \in SUBSET Nat, B # {}
  PROVE  \E n \in B : n = 0 \/ n - 1 \notin B
<1> PICK m \in B : TRUE
  OBVIOUS
<1> DEFINE Top == 1..m
           Below == {1..n : n \in {n \in B : n <= m}}
<1>1. IsFiniteSet(Top)
  BY FS_Interval
<1>2. Below \in SUBSET SUBSET Top /\ Below # {}
  OBVIOUS
<1>3. PICK x \in Below : \A y \in Below : y \subseteq x => y = x
  <2> HIDE DEF Below, Top
  <2> QED BY <1>1, <1>2, LeastSet
<1>4. PICK n \in B : n <= m /\ x = 1..n
  OBVIOUS
<1>5. ASSUME n # 0, n - 1 \in B PROVE FALSE
  <2>1. 1..(n - 1) \in Below
    BY <1>4, <1>5
  <2>2. n \in 1..n /\ n \notin 1..(n - 1) /\ 1..(n - 1) \subseteq 1..n
    BY <1>5
  <2> QED BY <1>3, <1>4, <2>1, <2>2
<1> QED BY <1>5

-----------------------------------------------------------------------------
(* The order of the loop.                                                   *)

LEMMA BeforeIsOrder ==
  ASSUME NEW records, NEW set, Known(records, set)
  PROVE  /\ \A i \in set : ~Before(records, i, i)
         /\ \A i, j \in set : Before(records, i, j) \/ Before(records, j, i) \/ i = j
         /\ \A i, j, k \in set :
              Before(records, i, j) /\ Before(records, j, k) => Before(records, i, k)
<1> DEFINE p(i) == Priority[records[i].kind]
<1>1. \A i \in set : p(i) \in Nat /\ i \in Nat
  BY DEF Known, Kind, Priority
<1> HIDE DEF p
<1>2. \A i, j : Before(records, i, j) <=> p(i) < p(j) \/ (p(i) = p(j) /\ i < j)
  BY DEF Before, p
<1> QED BY <1>1, <1>2

LEMMA LastExists ==
  ASSUME NEW records, NEW set, Known(records, set), NEW T \in SUBSET set, T # {}
  PROVE  /\ LastOf(records, T) \in T
         /\ \A j \in T \ {LastOf(records, T)} : Before(records, j, LastOf(records, T))
<1> DEFINE HasLast(U) == \E i \in U : \A j \in U \ {i} : Before(records, j, i)
           Bad == {U \in SUBSET set : U # {} /\ ~HasLast(U)}
<1>0. IsFiniteSet(set)
  BY DEF Known
<1>1. ASSUME Bad # {} PROVE FALSE
  <2> HIDE DEF HasLast
  <2>0. Bad \in SUBSET SUBSET set
    OBVIOUS
  <2>1. PICK U \in Bad : \A V \in Bad : V \subseteq U => V = U
    <3> HIDE DEF Bad
    <3> QED BY <1>0, <1>1, <2>0, LeastSet
  <2>2. PICK x \in U : TRUE
    BY <2>1
  <2>3. U \ {x} # {}
    BY <2>1, <2>2 DEF HasLast
  <2>4. HasLast(U \ {x})
    <3>1. U \ {x} \subseteq U /\ U \ {x} # U /\ U \ {x} \in SUBSET set
      BY <2>0, <2>2
    <3> QED BY <2>1, <2>3, <3>1
  <2> USE DEF HasLast
  <2>5. PICK m \in U \ {x} : \A j \in (U \ {x}) \ {m} : Before(records, j, m)
    BY <2>4
  <2>6. CASE Before(records, x, m)
    BY <2>2, <2>5, <2>6
  <2>7. CASE Before(records, m, x)
    <3>1. \A j \in U \ {x} : Before(records, j, x)
      BY <2>2, <2>5, <2>7, BeforeIsOrder
    <3> QED BY <2>2, <3>1
  <2> QED BY <2>2, <2>5, <2>6, <2>7, BeforeIsOrder
<1>2. HasLast(T)
  BY <1>1
<1> QED BY <1>2 DEF LastOf

-----------------------------------------------------------------------------
(* The recursion has a solution.                                            *)

\* The plan of a set, given those of smaller sets.
PlanFrom(records, selection, f, T) ==
  IF T = {} THEN EmptyPlan
  ELSE PlanStep(records, selection, f[T \ {LastOf(records, T)}], LastOf(records, T))

PlansOf(records, selection, set) ==
  CHOOSE f : f = [T \in SUBSET set |-> PlanFrom(records, selection, f, T)]

LEMMA PlansExist ==
  ASSUME NEW records, NEW selection, NEW set, Known(records, set)
  PROVE  \E f : f = [T \in SUBSET set |-> PlanFrom(records, selection, f, T)]
<1> DEFINE Upto(n) == {T \in SUBSET set : Cardinality(T) <= n}
           Solves(f, n) == f = [T \in Upto(n) |-> PlanFrom(records, selection, f, T)]
           Solvable(n) == \E f : Solves(f, n)
           Bad == {n \in Nat : ~Solvable(n)}
<1>1. \A T \in SUBSET set : /\ IsFiniteSet(T) /\ Cardinality(T) \in Nat
                            /\ Cardinality(T) <= Cardinality(set)
                            /\ Cardinality(T) = 0 <=> T = {}
  BY FS_Subset, FS_CardinalityType, FS_EmptySet DEF Known
<1>2. ASSUME NEW n \in Nat, NEW T \in Upto(n), T # {}
      PROVE  n # 0 /\ T \ {LastOf(records, T)} \in Upto(n - 1)
  <2>1. LastOf(records, T) \in T
    BY <1>2, LastExists
  <2>2. Cardinality(T \ {LastOf(records, T)}) = Cardinality(T) - 1
    BY <1>1, <2>1, FS_RemoveElement
  <2>3. Cardinality(T) \in Nat /\ Cardinality(T) # 0 /\ Cardinality(T) <= n
    BY <1>1, <1>2
  <2> QED BY <2>2, <2>3
<1>3. ASSUME NEW n \in Nat, n = 0 \/ Solvable(n - 1)
      PROVE  Solvable(n)
  <2>1. PICK f : n = 0 \/ Solves(f, n - 1)
    BY <1>3
  <2> DEFINE g == [T \in Upto(n) |-> IF n # 0 /\ T \in Upto(n - 1) THEN f[T]
                                     ELSE PlanFrom(records, selection, f, T)]
  <2>2. ASSUME NEW T \in Upto(n) PROVE g[T] = PlanFrom(records, selection, f, T)
    BY <2>1
  <2>3. ASSUME NEW T \in Upto(n)
        PROVE  PlanFrom(records, selection, f, T) = PlanFrom(records, selection, g, T)
    <3>1. CASE T = {}
      BY <3>1 DEF PlanFrom
    <3>2. CASE T # {}
      <4> DEFINE U == T \ {LastOf(records, T)}
      <4>1. n # 0 /\ U \in Upto(n - 1)
        BY <1>2, <3>2
      <4>2. U \in Upto(n)
        BY <1>1, <4>1
      <4>3. g[U] = f[U]
        BY <4>1, <4>2
      <4> HIDE DEF g
      <4> QED BY <3>2, <4>3 DEF PlanFrom
    <3> QED BY <3>1, <3>2
  <2>4. g = [T \in Upto(n) |-> g[T]]
    OBVIOUS
  <2> HIDE DEF g
  <2>5. g = [T \in Upto(n) |-> PlanFrom(records, selection, g, T)]
    BY <2>2, <2>3, <2>4
  <2> QED BY <2>5
<1>4. Bad = {}
  <2> HIDE DEF Solvable
  <2> SUFFICES ASSUME Bad # {} PROVE FALSE
    OBVIOUS
  <2>1. PICK n \in Bad : n = 0 \/ n - 1 \notin Bad
    BY LeastNumber
  <2>2. n = 0 \/ Solvable(n - 1)
    BY <2>1
  <2> QED BY <1>3, <2>2
<1>5. Cardinality(set) \in Nat /\ Upto(Cardinality(set)) = SUBSET set
  BY <1>1
<1>6. Solvable(Cardinality(set))
  <2> HIDE DEF Solvable
  <2> QED BY <1>4, <1>5
<1>7. PICK f : Solves(f, Cardinality(set))
  BY <1>6
<1> QED BY <1>5, <1>7

LEMMA PlanRecursion ==
  ASSUME NEW records, NEW selection, NEW set, Known(records, set)
  PROVE  \A T \in SUBSET set :
           PlansOf(records, selection, set)[T]
             = PlanFrom(records, selection, PlansOf(records, selection, set), T)
<1> DEFINE plans == PlansOf(records, selection, set)
<1>1. plans = [T \in SUBSET set |-> PlanFrom(records, selection, plans, T)]
  BY PlansExist DEF PlansOf
<1> HIDE DEF plans
<1>2. \A T \in SUBSET set : plans[T] = PlanFrom(records, selection, plans, T)
  BY <1>1
<1> QED BY <1>2 DEF plans

LEMMA PlanOfAll ==
  ASSUME NEW records, NEW selection, NEW up
  PROVE  DiscoveryPlan(records, up, selection)
           = PlansOf(records, selection, {i \in up : HasUsableAddress(records[i])})
               [{i \in up : HasUsableAddress(records[i])}]
BY DEF DiscoveryPlan, MapThenFoldSet, PlansOf, PlanFrom

-----------------------------------------------------------------------------
(* What the pass over the interfaces leaves.                                *)

Used(selection, T) == {i \in T : Includes(selection, i)}
Claimants(records, selection, T) ==
  {i \in Used(selection, T) : Deduplicated(selection, records[i])}
Preceded(records, selection, T, key, i) ==
  \E j \in Claimants(records, selection, T) :
    key \in NetworkKeys(records[j]) /\ Before(records, j, i)

\* Every network that a claimant reaches was claimed by one that is used, at or before
\* it; covered are those that find all their networks claimed.
PassFacts(records, selection, T, plan) ==
  /\ plan.claimed =
       UNION {NetworkKeys(records[i]) : i \in Claimants(records, selection, T)}
  /\ plan.covered =
       {i \in Claimants(records, selection, T) :
          /\ NetworkKeys(records[i]) # {}
          /\ \A key \in NetworkKeys(records[i]) : Preceded(records, selection, T, key, i)}
  /\ plan.endpoints =
       UNION {EndpointsOf(i, records[i]) : i \in Used(selection, T) \ plan.covered}
  /\ \A i \in Claimants(records, selection, T) : \A key \in NetworkKeys(records[i]) :
       \E j \in Claimants(records, selection, T) \ plan.covered :
         key \in NetworkKeys(records[j]) /\ (j = i \/ Before(records, j, i))

LEMMA PassStep ==
  ASSUME NEW records, NEW selection, NEW set, Known(records, set), NEW T \in SUBSET set,
         NEW m \in T, \A j \in T \ {m} : Before(records, j, m),
         NEW plan, PassFacts(records, selection, T \ {m}, plan)
  PROVE  PassFacts(records, selection, T, PlanStep(records, selection, plan, m))
<1> DEFINE U == T \ {m}
           next == PlanStep(records, selection, plan, m)
           keys(i) == NetworkKeys(records[i])
           ends(i) == EndpointsOf(i, records[i])
           lower(j, i) == Before(records, j, i)
           prior(S, key, i) == \E j \in S : key \in keys(j) /\ lower(j, i)
           all == Claimants(records, selection, T)
           old == Claimants(records, selection, U)
<1>1. \A i \in U : ~lower(m, i) /\ i # m /\ lower(i, m)
  BY BeforeIsOrder
<1>2. ~lower(m, m)
  BY BeforeIsOrder
<1>3. \A i, j, k \in T : lower(i, j) /\ lower(j, k) => lower(i, k)
  BY BeforeIsOrder
<1>4. /\ plan.claimed = UNION {keys(i) : i \in old}
      /\ plan.covered = {i \in old : keys(i) # {} /\ \A key \in keys(i) : prior(old, key, i)}
      /\ plan.endpoints = UNION {ends(i) : i \in Used(selection, U) \ plan.covered}
      /\ \A i \in old : \A key \in keys(i) :
           \E j \in old \ plan.covered : key \in keys(j) /\ (j = i \/ lower(j, i))
  BY DEF PassFacts, Preceded
<1>5. old \subseteq U /\ all \subseteq T
  BY DEF Claimants, Used
<1> DEFINE Goal ==
     /\ next.claimed = UNION {keys(i) : i \in all}
     /\ next.covered = {i \in all : keys(i) # {} /\ \A key \in keys(i) : prior(all, key, i)}
     /\ next.endpoints = UNION {ends(i) : i \in Used(selection, T) \ next.covered}
     /\ \A i \in all : \A key \in keys(i) :
          \E j \in all \ next.covered : key \in keys(j) /\ (j = i \/ lower(j, i))
<1>6. Goal => PassFacts(records, selection, T, next)
  BY DEF PassFacts, Preceded
<1>7. ASSUME ~Includes(selection, m) PROVE Goal
  <2>1. Used(selection, T) = Used(selection, U) /\ all = old
    BY <1>7 DEF Used, Claimants
  <2>2. next = plan
    BY <1>7 DEF PlanStep
  <2> HIDE DEF all, old, keys, ends, lower
  <2> QED BY <1>4, <2>1, <2>2
<1>8. ASSUME Includes(selection, m), IsCovered(plan.claimed, selection, records[m]) PROVE Goal
  <2>1. all = old \union {m} /\ Used(selection, T) = Used(selection, U) \union {m}
    BY <1>8 DEF Used, Claimants, IsCovered
  <2>2. /\ next.claimed = plan.claimed /\ next.covered = plan.covered \union {m}
        /\ next.endpoints = plan.endpoints
        /\ keys(m) # {} /\ keys(m) \subseteq plan.claimed
    BY <1>8 DEF PlanStep, IsCovered
  <2>a. Used(selection, U) \subseteq U
    BY DEF Used
  <2> HIDE DEF all, old, keys, ends, lower, next, U
  <2>3. \A key \in keys(m) : \E j \in old \ plan.covered : key \in keys(j) /\ lower(j, m)
    <3> SUFFICES ASSUME NEW key \in keys(m)
                 PROVE  \E j \in old \ plan.covered : key \in keys(j) /\ lower(j, m)
      OBVIOUS
    <3>1. PICK i \in old : key \in keys(i)
      BY <1>4, <2>2
    <3>2. PICK j \in old \ plan.covered : key \in keys(j)
      BY <1>4, <3>1
    <3> QED BY <1>1, <1>5, <3>2
  <2>4. \A i \in old : \A key : prior(all, key, i) <=> prior(old, key, i)
    BY <1>1, <1>5, <2>1
  <2>5. next.claimed = UNION {keys(i) : i \in all}
    BY <1>4, <2>1, <2>2
  <2>6. next.covered = {i \in all : keys(i) # {} /\ \A key \in keys(i) : prior(all, key, i)}
    BY <1>4, <2>1, <2>2, <2>3, <2>4
  <2>7. Used(selection, T) \ next.covered = Used(selection, U) \ plan.covered
    BY <1>1, <2>a, <2>1, <2>2
  <2>8. \A i \in all : \A key \in keys(i) :
          \E j \in all \ next.covered : key \in keys(j) /\ (j = i \/ lower(j, i))
    <3>1. old \ plan.covered \subseteq all \ next.covered
      BY <1>1, <1>5, <2>1, <2>2
    <3>2. ASSUME NEW i \in old, NEW key \in keys(i)
          PROVE  \E j \in all \ next.covered : key \in keys(j) /\ (j = i \/ lower(j, i))
      BY <1>4, <3>1
    <3>3. ASSUME NEW key \in keys(m)
          PROVE  \E j \in all \ next.covered : key \in keys(j) /\ (j = m \/ lower(j, m))
      BY <2>3, <3>1
    <3> QED BY <2>1, <3>2, <3>3
  <2> QED BY <1>4, <2>2, <2>5, <2>6, <2>7, <2>8
<1>9. ASSUME Includes(selection, m), ~IsCovered(plan.claimed, selection, records[m]) PROVE Goal
  <2> DEFINE mine == IF Deduplicated(selection, records[m]) THEN {m} ELSE {}
  <2>1. all = old \union mine /\ Used(selection, T) = Used(selection, U) \union {m}
    BY <1>9 DEF Used, Claimants
  <2>2. /\ next.claimed = plan.claimed \union UNION {keys(i) : i \in mine}
        /\ next.covered = plan.covered
        /\ next.endpoints = plan.endpoints \union ends(m)
        /\ mine # {} => keys(m) = {} \/ ~(keys(m) \subseteq plan.claimed)
    BY <1>9 DEF PlanStep, IsCovered
  <2>a. Used(selection, U) \subseteq U /\ mine \subseteq {m}
    BY DEF Used
  <2>b. plan.covered \subseteq U
    BY <1>4, <1>5
  <2> HIDE DEF all, old, keys, ends, lower, next, U, mine
  <2>3. \A i \in old : \A key : prior(all, key, i) <=> prior(old, key, i)
    BY <1>1, <1>5, <2>1, <2>a
  <2>4. next.claimed = UNION {keys(i) : i \in all}
    BY <1>4, <2>1, <2>2
  <2>5. m \in mine => ~(keys(m) # {} /\ \A key \in keys(m) : prior(all, key, m))
    BY <1>2, <1>4, <2>1, <2>2, <2>a
  <2>6. next.covered = {i \in all : keys(i) # {} /\ \A key \in keys(i) : prior(all, key, i)}
    BY <1>4, <2>1, <2>2, <2>3, <2>5, <2>a
  <2>7. next.endpoints = UNION {ends(i) : i \in Used(selection, T) \ next.covered}
    <3>1. Used(selection, T) \ next.covered = (Used(selection, U) \ plan.covered) \union {m}
      BY <1>1, <2>1, <2>2, <2>b
    <3> QED BY <1>4, <2>2, <3>1
  <2>8. \A i \in all : \A key \in keys(i) :
          \E j \in all \ next.covered : key \in keys(j) /\ (j = i \/ lower(j, i))
    BY <1>1, <1>4, <1>5, <2>1, <2>2, <2>a, <2>b
  <2> QED BY <2>4, <2>6, <2>7, <2>8
<1> HIDE DEF Goal
<1> QED BY <1>6, <1>7, <1>8, <1>9 DEF next

LEMMA PassOfAll ==
  ASSUME NEW records, NEW selection, NEW set, Known(records, set)
  PROVE  PassFacts(records, selection, set, PlansOf(records, selection, set)[set])
<1> DEFINE plans == PlansOf(records, selection, set)
           Holds(T) == PassFacts(records, selection, T, plans[T])
           Bad == {T \in SUBSET set : ~Holds(T)}
<1>1. IsFiniteSet(set)
  BY DEF Known
<1>2. Holds({})
  <2>1. plans[{}] = EmptyPlan
    BY PlanRecursion DEF PlanFrom
  <2> QED BY <2>1 DEF PassFacts, EmptyPlan, Used, Claimants
<1>3. ASSUME NEW T \in SUBSET set, T # {}, Holds(T \ {LastOf(records, T)}) PROVE Holds(T)
  <2>1. plans[T] = PlanStep(records, selection, plans[T \ {LastOf(records, T)}], LastOf(records, T))
    BY <1>3, PlanRecursion DEF PlanFrom
  <2>2. /\ LastOf(records, T) \in T
        /\ \A j \in T \ {LastOf(records, T)} : Before(records, j, LastOf(records, T))
    BY <1>3, LastExists
  <2> HIDE DEF plans
  <2> QED BY <1>3, <2>1, <2>2, PassStep
<1>4. ASSUME Bad # {} PROVE FALSE
  <2> HIDE DEF Holds
  <2>1. PICK T \in Bad : \A V \in Bad : V \subseteq T => V = T
    <3>1. Bad \in SUBSET SUBSET set
      OBVIOUS
    <3> HIDE DEF Bad
    <3> QED BY <1>1, <1>4, <3>1, LeastSet
  <2>2. T # {} /\ T \in SUBSET set
    BY <1>2, <2>1
  <2>3. LastOf(records, T) \in T
    BY <2>2, LastExists
  <2>4. Holds(T \ {LastOf(records, T)})
    BY <2>1, <2>2, <2>3
  <2> QED BY <1>3, <2>1, <2>2, <2>4
<1> QED BY <1>4

LEMMA EndpointNames ==
  ASSUME NEW i, NEW record
  PROVE  /\ \A e \in EndpointsOf(i, record) : NameOf(e) = i
         /\ EndpointsOf(i, record) # {} <=> DiscoveryCapable(record)
<1>1. \A e \in EndpointsOf(i, record) : NameOf(e) = i
  <2> SUFFICES ASSUME NEW e \in EndpointsOf(i, record) PROVE NameOf(e) = i
    OBVIOUS
  <2>1. (\E n \in record.v4 : e = <<i, "v4", n>>) \/ e = <<i, "v6">>
    BY DEF EndpointsOf
  <2> QED BY <2>1 DEF NameOf
<1>2. ASSUME Ipv4Discovery(record) PROVE EndpointsOf(i, record) # {}
  <2>1. PICK n \in record.v4 : TRUE
    BY <1>2 DEF Ipv4Discovery
  <2>2. <<i, "v4", n>> \in EndpointsOf(i, record)
    BY <1>2 DEF EndpointsOf
  <2> QED BY <2>2
<1>3. ASSUME Ipv6Discovery(record) PROVE EndpointsOf(i, record) # {}
  BY <1>3 DEF EndpointsOf
<1>4. ASSUME ~DiscoveryCapable(record) PROVE EndpointsOf(i, record) = {}
  BY <1>4 DEF DiscoveryCapable, EndpointsOf
<1> QED BY <1>1, <1>2, <1>3, <1>4 DEF DiscoveryCapable

-----------------------------------------------------------------------------

\* discovery_plan, for every host and selection: which networks it takes, which
\* interfaces it leaves out, and that exactly the others that can are listened on.
THEOREM PlanOfAnyHost ==
  ASSUME NEW records, NEW up, NEW selection, Known(records, up)
  PROVE  LET plan == DiscoveryPlan(records, up, selection)
             usable == {i \in up : HasUsableAddress(records[i])}
         IN  /\ PassFacts(records, selection, usable, plan)
             /\ ActiveInterfaces(plan) =
                  {i \in Used(selection, usable) \ plan.covered : DiscoveryCapable(records[i])}
<1> DEFINE plan == DiscoveryPlan(records, up, selection)
           usable == {i \in up : HasUsableAddress(records[i])}
<1>1. Known(records, usable)
  BY FS_Subset DEF Known
<1>2. PassFacts(records, selection, usable, plan)
  <2> HIDE DEF usable
  <2>1. PassFacts(records, selection, usable, PlansOf(records, selection, usable)[usable])
    BY <1>1, PassOfAll
  <2> QED BY <2>1, PlanOfAll DEF usable
<1>3. plan.endpoints =
        UNION {EndpointsOf(i, records[i]) : i \in Used(selection, usable) \ plan.covered}
  BY <1>2 DEF PassFacts
<1> HIDE DEF plan, usable
<1>4. ASSUME NEW n PROVE n \in ActiveInterfaces(plan) <=>
        n \in Used(selection, usable) \ plan.covered /\ EndpointsOf(n, records[n]) # {}
  <2>1. n \in ActiveInterfaces(plan) <=> \E e \in plan.endpoints : NameOf(e) = n
    BY DEF ActiveInterfaces
  <2>2. \A e : e \in plan.endpoints <=>
          \E i \in Used(selection, usable) \ plan.covered : e \in EndpointsOf(i, records[i])
    BY <1>3
  <2> QED BY <2>1, <2>2, EndpointNames
<1>5. ActiveInterfaces(plan) =
        {i \in Used(selection, usable) \ plan.covered : DiscoveryCapable(records[i])}
  BY <1>4, EndpointNames
<1> QED BY <1>2, <1>5 DEF plan, usable
=============================================================================
