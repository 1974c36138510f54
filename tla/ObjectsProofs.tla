---------------------------- MODULE ObjectsProofs ----------------------------
(***************************************************************************)
(* Theorems about Objects, for any interfaces, classes and calls.           *)
(***************************************************************************)
EXTENDS Objects, FiniteSetTheorems, TLAPS

\* Instances are made once and numbered without going over the classes there are.
InstancesInv == instance \in [Classes -> 0 .. Cardinality(Classes)]

\* Object number o is the instance of c, which exists.
Names(o, object, c) ==
  instance[c] = object /\ instance[c] # 0 /\ o = ObjectId(IdOf(Implements[c]), 0)

ServicesInv ==
  \A id \in DOMAIN services : services[id] \in Classes /\ id = IdOf(Implements[services[id]])
LocalObjectsInv ==
  \A o \in DOMAIN localObjects : \E c \in Classes : Names(o, localObjects[o], c)
FactoriesInv == factories \subseteq {IdOf(i) : i \in Interfaces \cup {CoreObject}}

\* GetService gave out an instance of a class that implements what was asked for.
HandedInv ==
  \A h \in handed :
    /\ h.how # "throws"
    /\ h.how = "local" =>
         \E c \in Classes : instance[c] = h.object /\ instance[c] # 0 /\ Implements[c] = h.interface

\* A call that found an object found one that its id, as it arrived, names.
CallsInv ==
  \A call \in calls : call.object # 0 =>
    \E c \in Classes : Names(Arrived(call.meant), call.object, c)

ObjectsInv ==
  InstancesInv /\ ServicesInv /\ LocalObjectsInv /\ FactoriesInv /\ HandedInv /\ CallsInv

------------------------------------------------------------------------------
\* Identifiers

LEMMA IdOfIs == \A i : IdOf(i) = [Name |-> i, Version |-> 1]
  BY DEF IdOf, ClassId, Spelled

LEMMA ArrivedIs ==
  \A o : /\ Arrived(o).Type = IdOf(o.Type.Name)
         /\ Arrived(o).Id = o.Id
  BY DEF Arrived, ObjectId, IdOf, ClassId, Spelled

\* What is printed is read again as the same id.
LEMMA PrintedIsRead == \A i : ClassId(ToString(IdOf(i)), 1) = IdOf(i)
<1> SUFFICES ASSUME NEW i PROVE ClassId(ToString(IdOf(i)), 1) = IdOf(i)
  OBVIOUS
<1>1. ToString(IdOf(i)) = [name |-> i, number |-> {1}]
  BY IdOfIs DEF ToString, SpelledWith
<1>2. ToString(IdOf(i)).name = i /\ ToString(IdOf(i)).number = {1} /\ {1} # {}
  BY <1>1
<1>3. (CHOOSE k \in {1} : TRUE) = 1
  OBVIOUS
<1>4. QED  BY <1>2, <1>3, IdOfIs DEF ClassId

------------------------------------------------------------------------------
\* Chains of interfaces.  Ancestors and Dispatched are recursive functions, that
\* is, chosen among the solutions of their equations.  What is above an interface
\* is the least set that holds it and the bases of its members: this solves the
\* equation of Ancestors.  The nearest interface above that runs a method solves
\* that of Dispatched.  BasesFirst leaves no other solution.

Everything == Interfaces \cup {CoreObject}

HoldsBases(S) == S \subseteq Everything /\ \A j \in S : j = CoreObject \/ Base[j] \in S

Above(i) == {j \in Everything : \A S \in SUBSET Everything : HoldsBases(S) /\ i \in S => j \in S}

LEMMA BaseIs == ASSUME NEW i \in Everything, i # CoreObject PROVE i \in Interfaces /\ Base[i] \in Everything
  BY ObjectsAssumption DEF Everything

\* Among any interfaces, the root included, one comes first.
LEMMA FirstOf ==
  ASSUME NEW S, S \subseteq Everything, S # {}
  PROVE  \E i \in S : i = CoreObject \/ Base[i] \notin S
<1>1. CASE CoreObject \in S
  BY <1>1
<1>2. CASE CoreObject \notin S
  <2>1. S \in SUBSET Interfaces
    BY <1>2 DEF Everything
  <2>2. QED  BY <2>1, BasesFirst
<1>3. QED  BY <1>1, <1>2

LEMMA AboveLeast ==
  ASSUME NEW i, NEW S, HoldsBases(S), i \in S
  PROVE  Above(i) \subseteq S
BY DEF Above, HoldsBases

LEMMA AboveHolds ==
  ASSUME NEW i \in Everything
  PROVE  i \in Above(i) /\ HoldsBases(Above(i)) /\ Above(i) \subseteq Everything
<1>1. i \in Above(i) /\ Above(i) \subseteq Everything
  BY DEF Above
<1>2. ASSUME NEW j \in Above(i), j # CoreObject PROVE Base[j] \in Above(i)
  <2>1. j \in Everything /\ Base[j] \in Everything
    BY <1>1, <1>2, BaseIs
  <2>2. ASSUME NEW S \in SUBSET Everything, HoldsBases(S), i \in S PROVE Base[j] \in S
    <3>1. j \in S
      BY <2>2 DEF Above
    <3>2. QED  BY <1>2, <2>2, <3>1 DEF HoldsBases
  <2>3. QED  BY <2>1, <2>2 DEF Above
<1>3. QED  BY <1>1, <1>2 DEF HoldsBases

LEMMA AboveAll ==
  ASSUME NEW i \in Everything, NEW j \in Above(i)
  PROVE  j \in Everything /\ Above(j) \subseteq Above(i)
<1>1. HoldsBases(Above(i)) /\ Above(i) \subseteq Everything
  BY AboveHolds
<1>2. QED  BY <1>1, AboveLeast

LEMMA AboveRoot == CoreObject \in Everything /\ Above(CoreObject) = {CoreObject}
<1>1. CoreObject \in Everything
  BY DEF Everything
<1>2. HoldsBases({CoreObject}) /\ CoreObject \in {CoreObject}
  BY <1>1 DEF HoldsBases
<1>3. Above(CoreObject) \subseteq {CoreObject} /\ CoreObject \in Above(CoreObject)
  BY <1>1, <1>2, AboveLeast, AboveHolds
<1>4. QED  BY <1>1, <1>3

LEMMA AboveBase ==
  ASSUME NEW i \in Everything, i # CoreObject
  PROVE  Above(i) = {i} \cup Above(Base[i])
<1>1. PICK b \in Everything : b = Base[i]
  BY BaseIs
<1>2. i \in Above(i) /\ HoldsBases(Above(i)) /\ b \in Above(b) /\ HoldsBases(Above(b))
  BY AboveHolds
<1>3. Above(b) \subseteq Above(i)
  <2>1. b \in Above(i)
    BY <1>1, <1>2 DEF HoldsBases
  <2>2. QED  BY <2>1, AboveAll
<1>4. PICK S : S = {i} \cup Above(b)
  OBVIOUS
<1>5. HoldsBases(S) /\ i \in S
  BY <1>1, <1>2, <1>4 DEF HoldsBases
<1>6. Above(i) \subseteq S
  BY <1>5, AboveLeast
<1>7. QED  BY <1>1, <1>2, <1>3, <1>4, <1>6

\* No interface extends itself, directly or not.
LEMMA NoCircle ==
  ASSUME NEW j \in Everything, NEW k \in Above(j), j \in Above(k)
  PROVE  k = j
<1>1. PICK S : S = {x \in Above(j) : j \in Above(x)}
  OBVIOUS
<1>2. j \in Above(j) /\ HoldsBases(Above(j)) /\ Above(j) \subseteq Everything
  BY AboveHolds
<1>3. PICK x \in S : x = CoreObject \/ Base[x] \notin S
  <2>1. S # {} /\ S \subseteq Everything
    BY <1>1, <1>2
  <2>2. QED  BY <2>1, FirstOf
<1>4. x \in Everything /\ x \in Above(j) /\ j \in Above(x)
  BY <1>1, <1>2
<1>5. CASE x = CoreObject
  BY <1>4, <1>5, AboveRoot
<1>6. CASE x # CoreObject /\ Base[x] \notin S
  <2>1. Base[x] \in Above(j)
    BY <1>2, <1>4, <1>6 DEF HoldsBases
  <2>2. j \notin Above(Base[x])
    BY <1>1, <1>6, <2>1
  <2>3. Above(x) = {x} \cup Above(Base[x])
    BY <1>4, <1>6, AboveBase
  <2>4. j = x
    BY <1>4, <2>2, <2>3
  <2>5. ASSUME k # j PROVE FALSE
    <3>1. PICK b \in Everything : b = Base[x]
      BY <1>4, <1>6, BaseIs
    <3>2. k \in Above(b)
      BY <2>3, <2>4, <2>5, <3>1
    <3>3. Above(k) \subseteq Above(b)
      BY <3>2, AboveAll
    <3>4. QED  BY <2>2, <3>1, <3>3
  <2>6. QED  BY <2>5
<1>7. QED  BY <1>3, <1>5, <1>6

\* A function that solves the equation of Ancestors.
Climbs(g) == g = [j \in Everything |-> IF j = CoreObject THEN {j} ELSE {j} \cup g[Base[j]]]

LEMMA AncestorsClimbs ==
  ASSUME NEW i, \E g : Climbs(g)
  PROVE  \E g : Climbs(g) /\ Ancestors(i) = g[i]
<1> DEFINE a == CHOOSE g : g = [j \in Interfaces \cup {CoreObject} |->
                                  IF j = CoreObject THEN {j} ELSE {j} \cup g[Base[j]]]
<1>1. Ancestors(i) = a[i]
  BY DEF Ancestors
<1>2. Climbs(a)
  BY DEF Climbs, Everything
<1>3. QED  BY <1>1, <1>2

LEMMA AncestorsAre == ASSUME NEW i \in Everything PROVE Ancestors(i) = Above(i)
<1>1. PICK a : a = [j \in Everything |-> Above(j)]
  OBVIOUS
<1>2. ASSUME NEW j \in Everything
      PROVE  a[j] = IF j = CoreObject THEN {j} ELSE {j} \cup a[Base[j]]
  <2>1. CASE j = CoreObject
    BY <1>1, <2>1, AboveRoot
  <2>2. CASE j # CoreObject
    <3>1. Base[j] \in Everything /\ Above(j) = {j} \cup Above(Base[j])
      BY <2>2, BaseIs, AboveBase
    <3>2. QED  BY <1>1, <2>2, <3>1
  <2>3. QED  BY <2>1, <2>2
<1>3. Climbs(a)
  BY <1>1, <1>2 DEF Climbs
<1>4. PICK g : Climbs(g) /\ Ancestors(i) = g[i]
  BY <1>3, AncestorsClimbs
<1>5. \A j \in Everything : g[j] = IF j = CoreObject THEN {j} ELSE {j} \cup g[Base[j]]
  BY <1>4 DEF Climbs
<1>6. PICK S : S = {j \in Everything : g[j] # Above(j)}
  OBVIOUS
<1>7. ASSUME S # {} PROVE FALSE
  <2>1. PICK x \in S : x = CoreObject \/ Base[x] \notin S
    BY <1>6, <1>7, FirstOf
  <2>2. x \in Everything /\ g[x] # Above(x)
    BY <1>6
  <2>3. CASE x = CoreObject
    BY <1>5, <2>2, <2>3, AboveRoot
  <2>4. CASE x # CoreObject
    <3>1. Base[x] \in Everything /\ Above(x) = {x} \cup Above(Base[x])
      BY <2>2, <2>4, BaseIs, AboveBase
    <3>2. g[Base[x]] = Above(Base[x])
      BY <1>6, <2>1, <2>4, <3>1
    <3>3. g[x] = {x} \cup g[Base[x]]
      BY <1>5, <2>2, <2>4
    <3>4. QED  BY <2>2, <3>1, <3>2, <3>3
  <2>5. QED  BY <2>3, <2>4
<1>8. QED  BY <1>4, <1>6, <1>7

\* The branch of j for the method runs, or j is the root and throws.
Stops(method, j) == j = CoreObject \/ method \in Methods[j]

Nearest(method, j, k) ==
  /\ k \in Above(j) /\ Stops(method, k)
  /\ \A l \in Above(j) : Stops(method, l) => l \in Above(k)

LEMMA NearestHere ==
  ASSUME NEW method, NEW j \in Everything, Stops(method, j)
  PROVE  Nearest(method, j, j)
BY AboveHolds DEF Nearest

LEMMA NearestOfBase ==
  ASSUME NEW method, NEW j \in Everything, ~Stops(method, j), NEW k
  PROVE  /\ j # CoreObject /\ Base[j] \in Everything
         /\ Nearest(method, j, k) <=> Nearest(method, Base[j], k)
<1>1. j # CoreObject
  BY DEF Stops
<1>2. Base[j] \in Everything /\ Above(j) = {j} \cup Above(Base[j])
  BY <1>1, BaseIs, AboveBase
<1>3. \A l : l \in Above(j) /\ Stops(method, l) <=> l \in Above(Base[j]) /\ Stops(method, l)
  BY <1>2
<1>4. QED  BY <1>1, <1>2, <1>3 DEF Nearest

LEMMA NearestExists ==
  ASSUME NEW method, NEW i \in Everything
  PROVE  \E k : Nearest(method, i, k)
<1>1. PICK S : S = {j \in Everything : ~\E k : Nearest(method, j, k)}
  OBVIOUS
<1>2. ASSUME S # {} PROVE FALSE
  <2>1. PICK x \in S : x = CoreObject \/ Base[x] \notin S
    BY <1>1, <1>2, FirstOf
  <2>2. x \in Everything /\ ~\E k : Nearest(method, x, k)
    BY <1>1
  <2>3. CASE Stops(method, x)
    BY <2>2, <2>3, NearestHere
  <2>4. CASE ~Stops(method, x)
    <3>1. x # CoreObject /\ Base[x] \in Everything
      BY <2>2, <2>4, NearestOfBase
    <3>2. PICK k : Nearest(method, Base[x], k)
      BY <1>1, <2>1, <3>1
    <3>3. Nearest(method, x, k)
      BY <2>2, <2>4, <3>2, NearestOfBase
    <3>4. QED  BY <2>2, <3>3
  <2>5. QED  BY <2>3, <2>4
<1>3. QED  BY <1>1, <1>2

LEMMA NearestOne ==
  ASSUME NEW method, NEW j \in Everything, NEW k, NEW l,
         Nearest(method, j, k), Nearest(method, j, l)
  PROVE  k = l
<1>1. k \in Above(j) /\ l \in Above(j) /\ k \in Above(l) /\ l \in Above(k)
  BY DEF Nearest
<1>2. k \in Everything
  BY <1>1, AboveAll
<1>3. QED  BY <1>1, <1>2, NoCircle

\* A function that solves the equation of Dispatched.
Resolves(g, method) == g = [j \in Everything |-> IF Stops(method, j) THEN j ELSE g[Base[j]]]

LEMMA DispatchedResolves ==
  ASSUME NEW i, NEW method, \E g : Resolves(g, method)
  PROVE  \E g : Resolves(g, method) /\ Dispatched(i, method) = g[i]
<1> DEFINE a == CHOOSE g : g = [j \in Interfaces \cup {CoreObject} |->
                                  IF j = CoreObject \/ method \in Methods[j] THEN j ELSE g[Base[j]]]
<1>1. Dispatched(i, method) = a[i]
  BY DEF Dispatched
<1>2. Resolves(a, method)
  BY DEF Resolves, Everything, Stops
<1>3. QED  BY <1>1, <1>2

LEMMA DispatchedNearest ==
  ASSUME NEW method, NEW i \in Everything
  PROVE  Nearest(method, i, Dispatched(i, method))
<1>1. PICK a : a = [j \in Everything |-> CHOOSE k : Nearest(method, j, k)]
  OBVIOUS
<1>2. ASSUME NEW j \in Everything PROVE Nearest(method, j, a[j])
  <2>1. \E k : Nearest(method, j, k)
    BY NearestExists
  <2>2. Nearest(method, j, CHOOSE k : Nearest(method, j, k))
    BY <2>1
  <2>3. QED  BY <1>1, <2>2
<1>3. ASSUME NEW j \in Everything
      PROVE  a[j] = IF Stops(method, j) THEN j ELSE a[Base[j]]
  <2>1. PICK x : x = a[j]
    OBVIOUS
  <2>2. Nearest(method, j, x)
    BY <1>2, <2>1
  <2>3. CASE Stops(method, j)
    <3>1. Nearest(method, j, j)
      BY <2>3, NearestHere
    <3>2. x = j
      BY <2>2, <3>1, NearestOne
    <3>3. QED  BY <2>1, <2>3, <3>2
  <2>4. CASE ~Stops(method, j)
    <3>1. PICK b \in Everything : b = Base[j]
      BY <2>4, NearestOfBase
    <3>2. Nearest(method, b, x)
      BY <2>2, <2>4, <3>1, NearestOfBase
    <3>3. PICK y : y = a[b] /\ Nearest(method, b, y)
      BY <1>2
    <3>4. x = y
      BY <3>2, <3>3, NearestOne
    <3>5. QED  BY <2>1, <2>4, <3>1, <3>3, <3>4
  <2>5. QED  BY <2>3, <2>4
<1>4. Resolves(a, method)
  <2>1. a = [j \in Everything |-> a[j]]
    BY <1>1
  <2>2. QED  BY <1>3, <2>1 DEF Resolves
<1>5. PICK g : Resolves(g, method) /\ Dispatched(i, method) = g[i]
  BY <1>4, DispatchedResolves
<1>6. \A j \in Everything : g[j] = IF Stops(method, j) THEN j ELSE g[Base[j]]
  BY <1>5 DEF Resolves
<1>7. PICK S : S = {j \in Everything : ~Nearest(method, j, g[j])}
  OBVIOUS
<1>8. ASSUME S # {} PROVE FALSE
  <2>1. PICK x \in S : x = CoreObject \/ Base[x] \notin S
    BY <1>7, <1>8, FirstOf
  <2>2. x \in Everything /\ ~Nearest(method, x, g[x])
    BY <1>7
  <2>3. CASE Stops(method, x)
    <3>1. g[x] = x
      BY <1>6, <2>2, <2>3
    <3>2. Nearest(method, x, x)
      BY <2>2, <2>3, NearestHere
    <3>3. QED  BY <2>2, <3>1, <3>2
  <2>4. CASE ~Stops(method, x)
    <3>1. PICK b \in Everything : b = Base[x] /\ x # CoreObject
      BY <2>2, <2>4, NearestOfBase
    <3>2. PICK y : y = g[b]
      OBVIOUS
    <3>3. Nearest(method, b, y)
      BY <1>7, <2>1, <3>1, <3>2
    <3>4. Nearest(method, x, y)
      BY <2>2, <2>4, <3>1, <3>3, NearestOfBase
    <3>5. g[x] = y
      BY <1>6, <2>2, <2>4, <3>1, <3>2
    <3>6. QED  BY <2>2, <3>4, <3>5
  <2>5. QED  BY <2>3, <2>4
<1>9. QED  BY <1>5, <1>7, <1>8

\* A method runs in the nearest interface above that declares it, and nowhere if
\* none does.
LEMMA DispatchedRuns ==
  ASSUME NEW method, NEW i \in Interfaces
  PROVE  LET declaring == Declaring(i, method)
             ran == Dispatched(i, method)
         IN  IF declaring = {} THEN ran = CoreObject
             ELSE ran \in declaring /\ declaring \subseteq Ancestors(ran)
<1>1. PICK ran : ran = Dispatched(i, method)
  OBVIOUS
<1>2. PICK declaring : declaring = Declaring(i, method)
  OBVIOUS
<1>3. i \in Everything
  BY DEF Everything
<1>4. declaring = {j \in Above(i) \cap Interfaces : method \in Methods[j]}
  BY <1>2, <1>3, AncestorsAre DEF Declaring
<1>5. Nearest(method, i, ran)
  BY <1>1, <1>3, DispatchedNearest
<1>6. ran \in Above(i) /\ ran \in Everything /\ Stops(method, ran)
  BY <1>3, <1>5, AboveAll DEF Nearest
<1>7. Ancestors(ran) = Above(ran)
  BY <1>6, AncestorsAre
<1>8. \A l \in declaring : l \in Above(ran)
  BY <1>4, <1>5 DEF Nearest, Stops
<1>9. ran = CoreObject => declaring = {}
  BY <1>4, <1>8, AboveRoot, ObjectsAssumption
<1>10. ran # CoreObject => ran \in declaring
  BY <1>4, <1>6 DEF Stops, Everything
<1>11. IF declaring = {} THEN ran = CoreObject
       ELSE ran \in declaring /\ declaring \subseteq Ancestors(ran)
  BY <1>7, <1>8, <1>9, <1>10
<1>12. QED  BY <1>1, <1>2, <1>11

------------------------------------------------------------------------------
\* Steps

\* The factory makes an instance that was not there, and keeps the others.
LEMMA MadeOnce ==
  ASSUME InstancesInv, NEW c \in Classes, instance' = Made(c)
  PROVE  /\ InstancesInv' /\ instance'[c] # 0
         /\ \A d \in Classes : instance[d] # 0 => instance'[d] = instance[d]
<1>1. CASE instance[c] # 0
  BY <1>1 DEF Made, InstancesInv
<1>2. CASE instance[c] = 0
  <2> DEFINE S == {d \in Classes : instance[d] # 0}
  <2>1. /\ IsFiniteSet(S) /\ Cardinality(S) \in Nat /\ Cardinality(Classes) \in Nat
        /\ IsFiniteSet(S \cup {c}) /\ Cardinality(S \cup {c}) = Cardinality(S) + 1
    <3>1. S \in SUBSET Classes /\ c \notin S /\ IsFiniteSet(Classes)
      BY <1>2, ObjectsAssumption
    <3>2. IsFiniteSet(S)
      BY <3>1, FS_Subset
    <3>3. QED  BY <3>1, <3>2, FS_AddElement, FS_CardinalityType
  <2>2. Cardinality(S) + 1 <= Cardinality(Classes)
    <3>1. S \cup {c} \in SUBSET Classes /\ IsFiniteSet(Classes)
      BY ObjectsAssumption
    <3>2. Cardinality(S \cup {c}) <= Cardinality(Classes)
      BY <3>1, FS_Subset
    <3>3. QED  BY <2>1, <3>2
  <2>3. instance' = [instance EXCEPT ![c] = Cardinality(S) + 1]
    BY <1>2 DEF Made
  <2> HIDE DEF S
  <2>4. Cardinality(S) + 1 \in 0 .. Cardinality(Classes) /\ Cardinality(S) + 1 # 0
    BY <2>1, <2>2
  <2>5. QED  BY <1>2, <2>3, <2>4 DEF InstancesInv
<1>3. QED  BY <1>1, <1>2

\* The history stays true when instances are only added.
LEMMA HistoryKept ==
  ASSUME ObjectsInv, \A d \in Classes : instance[d] # 0 => instance'[d] = instance[d]
  PROVE  /\ handed' = handed => HandedInv'
         /\ calls' = calls => CallsInv'
         /\ localObjects' = localObjects => LocalObjectsInv'
<1>1. ASSUME NEW o, NEW object, NEW c \in Classes, Names(o, object, c)
      PROVE  Names(o, object, c)'
  BY <1>1 DEF Names
<1>2. ASSUME handed' = handed PROVE HandedInv'
  BY <1>2 DEF ObjectsInv, HandedInv
<1>3. ASSUME calls' = calls, NEW call \in calls, call.object # 0
      PROVE  \E c \in Classes : Names(Arrived(call.meant), call.object, c)'
  BY <1>1, <1>3 DEF ObjectsInv, CallsInv
<1>4. ASSUME localObjects' = localObjects, NEW o \in DOMAIN localObjects
      PROVE  \E c \in Classes : Names(o, localObjects[o], c)'
  BY <1>1, <1>4 DEF ObjectsInv, LocalObjectsInv
<1>5. QED  BY <1>2, <1>3, <1>4 DEF CallsInv, LocalObjectsInv

\* GetLocalService adds its service's object, or finds it in the table.
LEMMA GetsLocalServiceStep ==
  ASSUME ObjectsInv, NEW id \in DOMAIN services, GetsLocalService(id)
  PROVE  /\ InstancesInv' /\ LocalObjectsInv'
         /\ services[id] \in Classes /\ id = IdOf(Implements[services[id]])
         /\ instance'[services[id]] # 0
         /\ \A d \in Classes : instance[d] # 0 => instance'[d] = instance[d]
         /\ ObjectId(id, 0) \in DOMAIN localObjects'
<1>1. PICK c \in Classes : c = services[id] /\ id = IdOf(Implements[c])
  BY DEF ObjectsInv, ServicesInv
<1>2. /\ instance' = Made(c)
      /\ localObjects' = Inserted(ObjectId(id, 0), instance'[c])
  BY <1>1 DEF GetsLocalService
<1>3. /\ InstancesInv' /\ instance'[c] # 0
      /\ \A d \in Classes : instance[d] # 0 => instance'[d] = instance[d]
  BY <1>2, MadeOnce DEF ObjectsInv
<1>4. /\ DOMAIN localObjects' = DOMAIN localObjects \cup {ObjectId(id, 0)}
      /\ \A o \in DOMAIN localObjects : localObjects'[o] = localObjects[o]
      /\ ObjectId(id, 0) \notin DOMAIN localObjects =>
           localObjects'[ObjectId(id, 0)] = instance'[c]
  BY <1>2 DEF Inserted
<1>5. ASSUME NEW o \in DOMAIN localObjects'
      PROVE  \E d \in Classes : Names(o, localObjects[o], d)'
  <2>1. CASE o \in DOMAIN localObjects
    <3>1. PICK d \in Classes : Names(o, localObjects[o], d)
      BY <2>1 DEF ObjectsInv, LocalObjectsInv
    <3>2. QED  BY <1>3, <1>4, <2>1, <3>1 DEF Names
  <2>2. CASE o \notin DOMAIN localObjects
    BY <1>1, <1>3, <1>4, <2>2 DEF Names
  <2>3. QED  BY <2>1, <2>2
<1>6. LocalObjectsInv'
  BY <1>5 DEF LocalObjectsInv
<1>7. QED  BY <1>1, <1>3, <1>4, <1>6

LEMMA ObjectsInvInit == Init => ObjectsInv
<1> SUFFICES ASSUME Init PROVE ObjectsInv
  OBVIOUS
<1>1. InstancesInv
  <2>1. Cardinality(Classes) \in Nat
    BY ObjectsAssumption, FS_CardinalityType
  <2>2. QED  BY <2>1 DEF Init, InstancesInv
<1>2. FactoriesInv
  BY ObjectsAssumption DEF Init, FactoriesInv, WithBase
<1>3. QED
  BY <1>1, <1>2 DEF Init, ObjectsInv, ServicesInv, LocalObjectsInv, HandedInv, CallsInv

LEMMA RegisterServiceStep ==
  ASSUME ObjectsInv, NEW c \in Classes, RegisterService(c)
  PROVE  ObjectsInv'
<1>1. ServicesInv'
  BY DEF RegisterService, ObjectsInv, ServicesInv
<1>2. UNCHANGED <<factories, localObjects, instance, handed, calls>>
  BY DEF RegisterService
<1>3. InstancesInv' /\ FactoriesInv'
  BY <1>2 DEF ObjectsInv, InstancesInv, FactoriesInv
<1>4. HandedInv' /\ CallsInv' /\ LocalObjectsInv'
  BY <1>2, HistoryKept
<1>5. QED  BY <1>1, <1>3, <1>4 DEF ObjectsInv

LEMMA GetServiceLocalStep ==
  ASSUME ObjectsInv, NEW i \in Called, GetServiceLocal(i)
  PROVE  ObjectsInv'
<1>1. /\ IdOf(i) \in DOMAIN services /\ GetsLocalService(IdOf(i))
      /\ UNCHANGED <<services, factories, calls>>
  BY DEF GetServiceLocal
<1>2. PICK c \in Classes : c = services[IdOf(i)] /\ IdOf(i) = IdOf(Implements[c])
  BY <1>1, GetsLocalServiceStep
<1>3. /\ InstancesInv' /\ LocalObjectsInv' /\ instance'[c] # 0
      /\ \A d \in Classes : instance[d] # 0 => instance'[d] = instance[d]
  BY <1>1, <1>2, GetsLocalServiceStep
<1>4. Implements[c] = i
  <2>1. IdOf(i).Name = i /\ IdOf(Implements[c]).Name = Implements[c]
    BY IdOfIs
  <2>2. QED  BY <1>2, <2>1
<1>5. handed' = handed \cup {[interface |-> i, how |-> "local", object |-> instance'[c]]}
  BY <1>2 DEF GetServiceLocal
<1>6. HandedInv'
  BY <1>3, <1>4, <1>5 DEF ObjectsInv, HandedInv
<1>7. CallsInv'
  BY <1>1, <1>3, HistoryKept
<1>8. ServicesInv' /\ FactoriesInv'
  BY <1>1 DEF ObjectsInv, ServicesInv, FactoriesInv
<1>9. QED  BY <1>3, <1>6, <1>7, <1>8 DEF ObjectsInv

LEMMA GetServiceProxyStep ==
  ASSUME ObjectsInv, NEW i \in Called, GetServiceProxy(i)
  PROVE  ObjectsInv'
<1>1. factories' = factories \cup WithBase(i) /\ UNCHANGED <<services, localObjects, instance, calls>>
  BY DEF GetServiceProxy
<1>2. ClassId(ToString(IdOf(i)), 1) \in factories'
  BY <1>1, PrintedIsRead DEF WithBase
<1>3. handed' = handed \cup {[interface |-> i, object |-> 0, how |-> "proxy"]}
  BY <1>2 DEF GetServiceProxy
<1>4. HandedInv'
  BY <1>1, <1>3 DEF ObjectsInv, HandedInv
<1>5. FactoriesInv'
  BY <1>1, ObjectsAssumption DEF ObjectsInv, FactoriesInv, WithBase
<1>6. ServicesInv' /\ InstancesInv'
  BY <1>1 DEF ObjectsInv, ServicesInv, InstancesInv
<1>7. LocalObjectsInv' /\ CallsInv'
  BY <1>1, HistoryKept
<1>8. QED  BY <1>4, <1>5, <1>6, <1>7 DEF ObjectsInv

LEMMA InvokedStep ==
  ASSUME ObjectsInv, NEW o \in Ids, NEW method, Invoked(o, method)
  PROVE  ObjectsInv'
<1>1. PICK id : id = Arrived(o)
  OBVIOUS
<1>2. /\ InstancesInv' /\ LocalObjectsInv' /\ id \in DOMAIN localObjects'
      /\ \A d \in Classes : instance[d] # 0 => instance'[d] = instance[d]
  <2>1. CASE id \in DOMAIN localObjects /\ UNCHANGED <<instance, localObjects>>
    <3>1. InstancesInv'
      BY <2>1 DEF ObjectsInv, InstancesInv
    <3>2. QED  BY <2>1, <3>1, HistoryKept
  <2>2. CASE id.Id = 0 /\ id.Type \in DOMAIN services /\ GetsLocalService(id.Type)
    <3>1. id = ObjectId(id.Type, 0)
      BY <1>1, <2>2 DEF Arrived, ObjectId
    <3>2. QED  BY <2>2, <3>1, GetsLocalServiceStep
  <2>3. QED  BY <1>1, <2>1, <2>2 DEF Invoked
<1>3. PICK ran, there :
        calls' = calls \cup {[meant |-> o, method |-> method, object |-> localObjects'[id],
                              ran |-> ran, there |-> there]}
  BY <1>1 DEF Invoked, Logged
<1>4. UNCHANGED <<services, factories, handed>>
  BY DEF Invoked
<1>5. ASSUME NEW call \in calls', call.object # 0
      PROVE  \E c \in Classes : Names(Arrived(call.meant), call.object, c)'
  <2>1. CASE call \in calls
    <3>1. PICK c \in Classes : Names(Arrived(call.meant), call.object, c)
      BY <1>5, <2>1 DEF ObjectsInv, CallsInv
    <3>2. QED  BY <1>2, <3>1 DEF Names
  <2>2. CASE call.meant = o /\ call.object = localObjects'[id]
    <3>1. PICK c \in Classes : Names(id, localObjects[id], c)'
      BY <1>2 DEF LocalObjectsInv
    <3>2. QED  BY <1>1, <2>2, <3>1
  <2>3. QED  BY <1>3, <2>1, <2>2
<1>6. CallsInv'
  BY <1>5 DEF CallsInv
<1>7. HandedInv' /\ ServicesInv' /\ FactoriesInv'
  BY <1>2, <1>4, HistoryKept DEF ObjectsInv, ServicesInv, FactoriesInv
<1>8. QED  BY <1>2, <1>6, <1>7 DEF ObjectsInv

LEMMA NotFoundStep ==
  ASSUME ObjectsInv, NEW o \in Ids, NEW method, NotFound(o, method)
  PROVE  ObjectsInv'
<1>1. UNCHANGED <<services, factories, localObjects, instance, handed>>
  BY DEF NotFound
<1>2. PICK ran, there :
        calls' = calls \cup {[meant |-> o, method |-> method, object |-> 0,
                              ran |-> ran, there |-> there]}
  BY DEF NotFound, Logged
<1>3. CallsInv'
  BY <1>1, <1>2 DEF ObjectsInv, CallsInv, Names
<1>4. HandedInv' /\ LocalObjectsInv'
  BY <1>1, HistoryKept
<1>5. ServicesInv' /\ FactoriesInv' /\ InstancesInv'
  BY <1>1 DEF ObjectsInv, ServicesInv, FactoriesInv, InstancesInv
<1>6. QED  BY <1>3, <1>4, <1>5 DEF ObjectsInv

LEMMA ObjectsInvStep == ASSUME ObjectsInv, [Next]_vars PROVE ObjectsInv'
<1>1. CASE UNCHANGED vars
  <2>1. UNCHANGED <<services, factories, localObjects, instance, handed, calls>>
    BY <1>1 DEF vars
  <2>2. HandedInv' /\ CallsInv' /\ LocalObjectsInv'
    BY <2>1, HistoryKept
  <2>3. ServicesInv' /\ FactoriesInv' /\ InstancesInv'
    BY <2>1 DEF ObjectsInv, ServicesInv, FactoriesInv, InstancesInv
  <2>4. QED  BY <2>2, <2>3 DEF ObjectsInv
<1>2. QED
  BY <1>1, RegisterServiceStep, GetServiceLocalStep, GetServiceProxyStep,
     InvokedStep, NotFoundStep DEF Next

------------------------------------------------------------------------------
\* Methods

\* Instances are numbered in the order they are made, none twice.
NumberedInv ==
  \A c \in Classes :
    /\ instance[c] <= Cardinality({d \in Classes : instance[d] # 0})
    /\ \A d \in Classes : instance[c] # 0 /\ instance[c] = instance[d] => c = d

\* A call of a registered service found the object of a class that implements the
\* interface called, and was dispatched from that interface.
MethodsInv ==
  \A call \in calls, i \in Interfaces :
    /\ call.meant = ObjectId(IdOf(i), 0) /\ call.there
    => call.object # 0 /\ call.ran = Dispatched(i, call.method)

LEMMA MadeNumbered ==
  ASSUME InstancesInv, NumberedInv, NEW c \in Classes, instance' = Made(c)
  PROVE  NumberedInv'
<1>1. CASE instance[c] # 0
  <2>1. instance' = instance
    BY <1>1 DEF Made
  <2>2. QED  BY <2>1 DEF NumberedInv
<1>2. CASE instance[c] = 0
  <2>1. PICK S : S = {d \in Classes : instance[d] # 0}
    OBVIOUS
  <2>2. PICK n \in Nat : n = Cardinality(S)
    <3>1. S \in SUBSET Classes /\ IsFiniteSet(Classes)
      BY <2>1, ObjectsAssumption
    <3>2. QED  BY <3>1, FS_Subset, FS_CardinalityType
  <2>3. instance' = [instance EXCEPT ![c] = n + 1]
    BY <1>2, <2>1, <2>2 DEF Made
  <2>4. /\ instance'[c] = n + 1
        /\ \A d \in Classes : d # c => instance'[d] = instance[d]
    BY <2>3 DEF InstancesInv
  <2>5. PICK T : T = {d \in Classes : instance'[d] # 0}
    OBVIOUS
  <2>6. Cardinality(T) = n + 1
    <3>1. n + 1 # 0
      BY <2>2
    <3>2. T = S \cup {c} /\ c \notin S
      BY <1>2, <2>1, <2>4, <2>5, <3>1
    <3>3. S \in SUBSET Classes /\ IsFiniteSet(Classes)
      BY <2>1, ObjectsAssumption
    <3>4. IsFiniteSet(S)
      BY <3>3, FS_Subset
    <3>5. Cardinality(S \cup {c}) = Cardinality(S) + 1
      BY <3>2, <3>4, FS_AddElement
    <3>6. QED  BY <2>2, <3>2, <3>5
  <2>7. \A d \in Classes : instance[d] \in Nat /\ instance[d] <= n
    <3>1. Cardinality(Classes) \in Nat
      BY ObjectsAssumption, FS_CardinalityType
    <3>2. \A d \in Classes : instance[d] \in Nat
      BY <3>1 DEF InstancesInv
    <3>3. QED  BY <2>1, <2>2, <3>2 DEF NumberedInv
  <2>8. ASSUME NEW d \in Classes PROVE instance'[d] <= n + 1
    BY <2>2, <2>4, <2>7
  <2>9. ASSUME NEW d \in Classes, NEW e \in Classes, instance'[d] # 0, instance'[d] = instance'[e]
        PROVE  d = e
    <3>1. CASE d # c /\ e # c
      BY <2>4, <2>9, <3>1 DEF NumberedInv
    <3>2. ASSUME NEW f \in Classes, f # c PROVE instance'[f] # n + 1
      BY <2>2, <2>4, <2>7, <3>2
    <3>3. QED  BY <2>4, <2>9, <3>1, <3>2
  <2>10. QED  BY <2>5, <2>6, <2>8, <2>9 DEF NumberedInv
<1>3. QED  BY <1>1, <1>2

LEMMA NumberedStep ==
  ASSUME ObjectsInv, NumberedInv, [Next]_vars
  PROVE  NumberedInv'
<1>1. CASE instance' = instance
  BY <1>1 DEF NumberedInv
<1>2. ASSUME NEW id \in DOMAIN services, GetsLocalService(id) PROVE NumberedInv'
  <2>1. PICK c \in Classes : c = services[id]
    BY DEF ObjectsInv, ServicesInv
  <2>2. instance' = Made(c)
    BY <1>2, <2>1 DEF GetsLocalService
  <2>3. QED  BY <2>2, MadeNumbered DEF ObjectsInv
<1>3. CASE UNCHANGED vars
  BY <1>1, <1>3 DEF vars
<1>4. ASSUME NEW c \in Classes, RegisterService(c) PROVE NumberedInv'
  BY <1>1, <1>4 DEF RegisterService
<1>5. ASSUME NEW i \in Called, GetServiceLocal(i) \/ GetServiceProxy(i) PROVE NumberedInv'
  <2>1. CASE GetServiceLocal(i)
    BY <1>2, <2>1 DEF GetServiceLocal
  <2>2. CASE GetServiceProxy(i)
    BY <1>1, <2>2 DEF GetServiceProxy
  <2>3. QED  BY <1>5, <2>1, <2>2
<1>6. ASSUME NEW o \in Ids, NEW method, Invoked(o, method) \/ NotFound(o, method)
      PROVE  NumberedInv'
  <2>1. CASE Invoked(o, method)
    BY <1>1, <1>2, <2>1 DEF Invoked
  <2>2. CASE NotFound(o, method)
    BY <1>1, <2>2 DEF NotFound
  <2>3. QED  BY <1>6, <2>1, <2>2
<1>7. QED  BY <1>3, <1>4, <1>5, <1>6 DEF Next

\* What a call of a service is logged with, if its object is looked up and found.
LEMMA InvokedMethods ==
  ASSUME ObjectsInv, ObjectsInv', NumberedInv', MethodsInv, NEW o \in Ids, NEW method,
         Invoked(o, method)
  PROVE  MethodsInv'
<1>1. PICK id : id = Arrived(o)
  OBVIOUS
<1>2. PICK object : object = localObjects'[id]
  OBVIOUS
<1>3. id \in DOMAIN localObjects'
  <2>1. CASE id \in DOMAIN localObjects /\ localObjects' = localObjects
    BY <2>1
  <2>2. CASE id.Id = 0 /\ id.Type \in DOMAIN services /\ GetsLocalService(id.Type)
    <3>1. id = ObjectId(id.Type, 0)
      BY <1>1, <2>2 DEF Arrived, ObjectId
    <3>2. QED  BY <2>2, <3>1 DEF GetsLocalService, Inserted
  <2>3. QED  BY <1>1, <2>1, <2>2 DEF Invoked
<1>4. PICK c \in Classes : Names(id, object, c)'
  BY <1>2, <1>3 DEF ObjectsInv, LocalObjectsInv
<1>5. ClassOf(object) = c
  <2>1. instance'[c] = object /\ object # 0
    BY <1>4 DEF Names
  <2>2. ASSUME NEW d \in Classes, instance'[d] = object PROVE d = c
    BY <2>1, <2>2 DEF NumberedInv
  <2>3. PICK d \in Classes : d = ClassOf(object) /\ instance'[d] = object
    BY <2>1 DEF ClassOf
  <2>4. QED  BY <2>2, <2>3
<1>6. PICK there :
        calls' = calls \cup {[meant |-> o, method |-> method, object |-> object,
                              ran |-> Dispatched(Implements[c], method), there |-> there]}
  BY <1>1, <1>2, <1>5 DEF Invoked, Logged
<1>7. ASSUME NEW call \in calls', NEW i \in Interfaces,
             call.meant = ObjectId(IdOf(i), 0), call.there
      PROVE  call.object # 0 /\ call.ran = Dispatched(i, call.method)
  <2>1. CASE call \in calls
    BY <1>7, <2>1 DEF MethodsInv
  <2>2. CASE call = [meant |-> o, method |-> method, object |-> object,
                     ran |-> Dispatched(Implements[c], method), there |-> there]
    <3>1. call.object # 0
      BY <1>4, <2>2 DEF Names
    <3>2. o = ObjectId(IdOf(i), 0)
      BY <1>7, <2>2
    <3>3. IdOf(i) = IdOf(Implements[c])
      <4>1. id.Type = IdOf(Implements[c])
        BY <1>4 DEF Names, ObjectId
      <4>2. o.Type.Name = i
        BY <3>2, IdOfIs DEF ObjectId
      <4>3. QED  BY <1>1, <4>1, <4>2, ArrivedIs
    <3>4. i = Implements[c]
      <4>1. IdOf(i).Name = i /\ IdOf(Implements[c]).Name = Implements[c]
        BY IdOfIs
      <4>2. QED  BY <3>3, <4>1
    <3>5. QED  BY <2>2, <3>1, <3>4
  <2>3. QED  BY <1>6, <2>1, <2>2
<1>8. QED  BY <1>7 DEF MethodsInv

\* A call that finds no object names no registered service.
LEMMA NotFoundMethods ==
  ASSUME MethodsInv, NEW o \in Ids, NEW method, NotFound(o, method)
  PROVE  MethodsInv'
<1>1. /\ ~(Arrived(o).Id = 0 /\ Arrived(o).Type \in DOMAIN services)
      /\ calls' = calls \cup {[meant |-> o, method |-> method, object |-> 0,
                               ran |-> CoreObject, there |-> o.Type \in DOMAIN services]}
  BY DEF NotFound, Logged
<1>2. ASSUME NEW call \in calls', NEW i \in Interfaces,
             call.meant = ObjectId(IdOf(i), 0), call.there
      PROVE  call.object # 0 /\ call.ran = Dispatched(i, call.method)
  <2>1. CASE call \in calls
    BY <1>2, <2>1 DEF MethodsInv
  <2>2. CASE call = [meant |-> o, method |-> method, object |-> 0,
                     ran |-> CoreObject, there |-> o.Type \in DOMAIN services]
    <3>1. o = ObjectId(IdOf(i), 0) /\ o.Type \in DOMAIN services
      BY <1>2, <2>2
    <3>2. o.Id = 0 /\ o.Type = IdOf(i) /\ o.Type.Name = i
      BY <3>1, IdOfIs DEF ObjectId
    <3>3. Arrived(o).Id = 0 /\ Arrived(o).Type = o.Type
      BY <3>2, ArrivedIs
    <3>4. QED  BY <1>1, <3>1, <3>3
  <2>3. QED  BY <1>1, <2>1, <2>2
<1>3. QED  BY <1>2 DEF MethodsInv

LEMMA MethodsStep ==
  ASSUME ObjectsInv, ObjectsInv', NumberedInv', MethodsInv, [Next]_vars
  PROVE  MethodsInv'
<1>1. CASE calls' = calls
  BY <1>1 DEF MethodsInv
<1>2. CASE UNCHANGED vars
  BY <1>1, <1>2 DEF vars
<1>3. ASSUME NEW c \in Classes, RegisterService(c) PROVE MethodsInv'
  BY <1>1, <1>3 DEF RegisterService
<1>4. ASSUME NEW i \in Called, GetServiceLocal(i) \/ GetServiceProxy(i) PROVE MethodsInv'
  BY <1>1, <1>4 DEF GetServiceLocal, GetServiceProxy
<1>5. QED
  BY <1>2, <1>3, <1>4, InvokedMethods, NotFoundMethods DEF Next

------------------------------------------------------------------------------
\* The theorems

\* The tables of services, proxies and objects hold what their ids say, however
\* services are registered, asked for and called.
THEOREM ObjectsTypeCorrect == Spec => []ObjectsTypeOK
<1>1. ObjectsInv => ObjectsTypeOK
  BY DEF ObjectsInv, ServicesInv, LocalObjectsInv, FactoriesInv, InstancesInv, Names, ObjectsTypeOK
<1>2. QED  BY <1>1, ObjectsInvInit, ObjectsInvStep, PTL DEF Spec

\* The process that runs a service and the processes that call it use one instance.
THEOREM OneInstanceInvariant == Spec => []OneInstance
<1>1. ObjectsInv => OneInstance
  <2> SUFFICES ASSUME ObjectsInv, NEW h \in handed, NEW call \in calls,
                      h.how = "local", call.object # 0,
                      call.meant = ObjectId(IdOf(h.interface), 0),
                      Cardinality({c \in Classes : Implements[c] = h.interface}) = 1
               PROVE  h.object = call.object
    BY DEF OneInstance
  <2> DEFINE S == {c \in Classes : Implements[c] = h.interface}
  <2>1. PICK c \in Classes : instance[c] = h.object /\ Implements[c] = h.interface
    BY DEF ObjectsInv, HandedInv
  <2>2. PICK d \in Classes : Names(Arrived(call.meant), call.object, d)
    BY DEF ObjectsInv, CallsInv
  <2>3. Implements[d] = h.interface
    <3>1. call.meant.Type.Name = h.interface
      BY IdOfIs DEF ObjectId
    <3>2. Arrived(call.meant).Type = IdOf(Implements[d])
      BY <2>2 DEF Names, ObjectId
    <3>3. IdOf(h.interface) = IdOf(Implements[d])
      BY <3>1, <3>2, ArrivedIs
    <3>4. IdOf(h.interface).Name = h.interface /\ IdOf(Implements[d]).Name = Implements[d]
      BY IdOfIs
    <3>5. QED  BY <3>3, <3>4
  <2>4. IsFiniteSet(S)
    <3>1. S \in SUBSET Classes /\ IsFiniteSet(Classes)
      BY ObjectsAssumption
    <3>2. QED  BY <3>1, FS_Subset
  <2>5. PICK x : S = {x}
    BY <2>4, FS_Singleton
  <2>6. c = d
    BY <2>1, <2>3, <2>5
  <2>7. QED  BY <2>1, <2>2, <2>6 DEF Names
<1>2. QED  BY <1>1, ObjectsInvInit, ObjectsInvStep, PTL DEF Spec

\* GetService finds the proxy it has just registered, under the printed id.
THEOREM ProxyFoundInvariant == Spec => []ProxyFound
<1>1. ObjectsInv => ProxyFound
  BY DEF ObjectsInv, HandedInv, ProxyFound
<1>2. QED  BY <1>1, ObjectsInvInit, ObjectsInvStep, PTL DEF Spec

\* A call that runs on an object runs on one its id names.
THEOREM CallReachesItsClassInvariant == Spec => []CallReachesItsClass
<1>1. ObjectsInv => CallReachesItsClass
  <2> SUFFICES ASSUME ObjectsInv, NEW call \in calls, call.object # 0
               PROVE  /\ call.meant.Id = 0
                      /\ \E c \in Classes : /\ instance[c] = call.object
                                            /\ IdOf(Implements[c]).Name = call.meant.Type.Name
    BY DEF CallReachesItsClass
  <2>1. PICK c \in Classes : Names(Arrived(call.meant), call.object, c)
    BY DEF ObjectsInv, CallsInv
  <2>2. /\ Arrived(call.meant).Type = IdOf(Implements[c]) /\ Arrived(call.meant).Id = 0
        /\ instance[c] = call.object
    BY <2>1 DEF Names, ObjectId
  <2>3. call.meant.Id = 0 /\ IdOf(call.meant.Type.Name) = IdOf(Implements[c])
    BY <2>2, ArrivedIs
  <2>4. IdOf(call.meant.Type.Name).Name = call.meant.Type.Name
    BY IdOfIs
  <2>5. QED  BY <2>2, <2>3, <2>4
<1>2. QED  BY <1>1, ObjectsInvInit, ObjectsInvStep, PTL DEF Spec

\* A peer's call of a registered service finds its object, and runs the method of
\* the nearest interface that declares it, however long the chain of bases is.
THEOREM CallReachesMethodInvariant == Spec => []CallReachesMethod
<1>1. Init => NumberedInv /\ MethodsInv
  <2>1. ASSUME Init PROVE NumberedInv
    <3>1. \A c \in Classes : instance[c] = 0
      BY <2>1 DEF Init
    <3>2. {d \in Classes : instance[d] # 0} \in SUBSET Classes /\ IsFiniteSet(Classes)
      BY ObjectsAssumption
    <3>3. Cardinality({d \in Classes : instance[d] # 0}) \in Nat
      BY <3>2, FS_Subset, FS_CardinalityType
    <3>4. QED  BY <3>1, <3>3 DEF NumberedInv
  <2>2. ASSUME Init PROVE MethodsInv
    BY <2>2 DEF Init, MethodsInv
  <2>3. QED  BY <2>1, <2>2
<1>2. ObjectsInv /\ NumberedInv /\ MethodsInv /\ [Next]_vars
        => ObjectsInv' /\ NumberedInv' /\ MethodsInv'
  BY ObjectsInvStep, NumberedStep, MethodsStep
<1>3. MethodsInv => CallReachesMethod
  <2> SUFFICES ASSUME MethodsInv, NEW call \in calls, NEW i \in Interfaces,
                      call.meant = ObjectId(IdOf(i), 0), call.there
               PROVE  /\ call.object # 0
                      /\ LET declaring == Declaring(i, call.method)
                         IN  IF declaring = {} THEN call.ran = CoreObject
                             ELSE call.ran \in declaring /\ declaring \subseteq Ancestors(call.ran)
    BY DEF CallReachesMethod
  <2>1. call.object # 0 /\ call.ran = Dispatched(i, call.method)
    BY DEF MethodsInv
  <2>2. PICK method : method = call.method
    OBVIOUS
  <2>3. LET declaring == Declaring(i, method)
            ran == Dispatched(i, method)
        IN  IF declaring = {} THEN ran = CoreObject
            ELSE ran \in declaring /\ declaring \subseteq Ancestors(ran)
    BY DispatchedRuns
  <2>4. QED  BY <2>1, <2>2, <2>3
<1>4. QED  BY <1>1, <1>2, <1>3, ObjectsInvInit, PTL DEF Spec

\* An object id never changes its instance, also when its service is registered
\* again with another class.
THEOREM StableObjectsHolds == Spec => StableObjects
<1> DEFINE Stable == \A o \in DOMAIN localObjects :
                       o \in DOMAIN localObjects' /\ localObjects'[o] = localObjects[o]
<1>1. ASSUME [Next]_vars PROVE [Stable]_vars
  <2>1. ASSUME NEW id, GetsLocalService(id) PROVE Stable
    BY <2>1 DEF GetsLocalService, Inserted
  <2>2. CASE localObjects' = localObjects
    BY <2>2
  <2>3. QED
    BY <1>1, <2>1, <2>2
    DEF Next, RegisterService, GetServiceLocal, GetServiceProxy, Invoked, NotFound
<1>2. QED  BY <1>1, PTL DEF Spec, StableObjects
==============================================================================
