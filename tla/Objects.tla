------------------------------- MODULE Objects -------------------------------
(***************************************************************************)
(* What a session calls things by, and what it finds under those names: the *)
(* identifiers (ClassId, ObjectId), the tables of services, proxies and     *)
(* local objects of one process, and the dispatch of an invocation to a     *)
(* method through the interfaces generated from the IDL.                    *)
(*                                                                          *)
(* A spelled identifier is the text before the first '-' and, if there is a *)
(* '-', the number read after it.                                           *)
(***************************************************************************)
EXTENDS Integers, FiniteSets

CONSTANTS
  Interfaces,   \* interfaces of the IDL, each its own name
  CoreObject,   \* the interface at the root, not written in the IDL
  Base,         \* Base[i]: what i extends
  Methods,      \* Methods[i]: what i declares
  Classes,      \* service classes
  Implements,   \* Implements[c]: the interface c derives from
  InitialProxy, \* the interface whose proxy Session's constructor registers
  Called,       \* interfaces this process asks for and others call methods of
  Versions,     \* versions in the ids they call
  MaxCalls      \* bound: different calls

ASSUME ObjectsAssumption ==
  /\ CoreObject \notin Interfaces /\ InitialProxy \in Interfaces
  /\ Base \in [Interfaces -> Interfaces \cup {CoreObject}]
  /\ IsFiniteSet(Classes) /\ Implements \in [Classes -> Interfaces]
  /\ Called \subseteq Interfaces
  /\ Versions \subseteq Nat \ {0}
  /\ MaxCalls \in Nat

\* The generated C++ derives an interface from its base, which must be complete
\* by then: among any interfaces one comes first.
ASSUME BasesFirst ==
  \A S \in SUBSET Interfaces : S # {} => \E i \in S : Base[i] \notin S

VARIABLES
  services,      \* _services: services[id] is the class whose factory is registered
  factories,     \* _factories: class ids with a registered proxy
  localObjects,  \* _localObjects: localObjects[o] is an instance
  instance,      \* instance[c]: the one instance of c, 0 before it is made
  handed,        \* history: what GetService returned, [interface, how, object]
  calls          \* history: [meant, method, there, object, ran]

vars == <<services, factories, localObjects, instance, handed, calls>>

------------------------------------------------------------------------------
\* Identifiers

Spelled(name) == [name |-> name, number |-> {}]
SpelledWith(name, k) == [name |-> name, number |-> {k}]

\* Mutant: the '-' is read with the number (unsigned, this is modulo 2^32).
ClassIdFromDash(spelled, version) ==
  IF spelled.number = {} THEN [Name |-> spelled.name, Version |-> 1]
  ELSE [Name |-> spelled.name, Version |-> -(CHOOSE k \in spelled.number : TRUE)]

\* The constructor: a version in the text counts, the one given beside it never.
ClassId(spelled, version) ==
  IF spelled.number = {} THEN [Name |-> spelled.name, Version |-> 1]
  ELSE [Name |-> spelled.name, Version |-> CHOOSE k \in spelled.number : TRUE]

ToString(id) == SpelledWith(id.Name, id.Version)
ObjectId(type, id) == [Type |-> type, Id |-> id]

\* The generated I...::ClassId.
IdOf(i) == ClassId(Spelled(i), 1)

\* Mutant: the number of an object does not travel.
ArrivedRoot(o) == ObjectId(ClassId(Spelled(o.Type.Name), o.Type.Version), 0)

\* Written by Write, and read again by OnIncomingInvoke.
Arrived(o) == ObjectId(ClassId(Spelled(o.Type.Name), o.Type.Version), o.Id)

------------------------------------------------------------------------------
\* Interfaces

\* Mutant: an interface does not hand unknown methods to its base.
DispatchedOwn(i, method) ==
  IF i \in Interfaces /\ method \in Methods[i] THEN i ELSE CoreObject

\* The generated __pbus__invoke: the interface whose branch runs the method, or
\* CoreObject, which throws.
Dispatched(i, method) ==
  LET at[j \in Interfaces \cup {CoreObject}] ==
        IF j = CoreObject \/ method \in Methods[j] THEN j ELSE at[Base[j]]
  IN  at[i]

\* I...::RegisterProxy: the interface's own proxy and that of its base.
WithBase(i) == {IdOf(j) : j \in {i, Base[i]}}

------------------------------------------------------------------------------
Init ==
  /\ services = [id \in {} |-> CHOOSE c \in Classes : TRUE]
  /\ factories = WithBase(InitialProxy)
  /\ localObjects = [o \in {} |-> 0]
  /\ instance = [c \in Classes |-> 0]
  /\ handed = {}
  /\ calls = {}

\* Mutant: a factory that makes an instance whenever it is asked.
MadeAnew(c) ==
  [instance EXCEPT ![c] = Cardinality({d \in Classes : instance[d] # 0}) + @ + 1]

\* ServiceComponentFactory::Get: one static instance of each class.
Made(c) ==
  IF instance[c] # 0 THEN instance
  ELSE [instance EXCEPT ![c] = Cardinality({d \in Classes : instance[d] # 0}) + 1]

\* Mutant: the table entry is assigned.
InsertedOver(o, object) ==
  [x \in DOMAIN localObjects \cup {o} |-> IF x = o THEN object ELSE localObjects[x]]

\* _localObjects.insert leaves an entry that is there.
Inserted(o, object) ==
  [x \in DOMAIN localObjects \cup {o} |->
     IF x \in DOMAIN localObjects THEN localObjects[x] ELSE object]

\* GetLocalService for an id some service is registered under.
GetsLocalService(id) ==
  /\ instance' = Made(services[id])
  /\ localObjects' = Inserted(ObjectId(id, 0), instance'[services[id]])

------------------------------------------------------------------------------
\* Mutant: the class id of the base interface is taken.
RegisterServiceAsBase(c) ==
  LET id == IdOf(Base[Implements[c]])
  IN  /\ services' = [x \in DOMAIN services \cup {id} |-> IF x = id THEN c ELSE services[x]]
      /\ UNCHANGED <<factories, localObjects, instance, handed, calls>>

\* Application::RegisterService: a later one takes the place of an earlier one.
RegisterService(c) ==
  LET id == IdOf(Implements[c])
  IN  /\ services' = [x \in DOMAIN services \cup {id} |-> IF x = id THEN c ELSE services[x]]
      /\ UNCHANGED <<factories, localObjects, instance, handed, calls>>

\* GetService finds the service in its own process, ...
GetServiceLocal(i) ==
  /\ IdOf(i) \in DOMAIN services
  /\ GetsLocalService(IdOf(i))
  /\ handed' = handed \cup {[interface |-> i, how |-> "local",
                            object |-> instance'[services[IdOf(i)]]]}
  /\ UNCHANGED <<services, factories, calls>>

\* ... or makes a proxy, if it finds under the printed id what it registered.
GetServiceProxy(i) ==
  /\ IdOf(i) \notin DOMAIN services
  /\ factories' = factories \cup WithBase(i)
  /\ handed' = handed \cup
       {[interface |-> i, object |-> 0,
         how |-> IF ClassId(ToString(IdOf(i)), 1) \in factories' THEN "proxy" ELSE "throws"]}
  /\ UNCHANGED <<services, localObjects, instance, calls>>

\* The call a peer made, what it was told to run on, and which interface ran it.
Logged(o, method, object, ran) ==
  /\ Cardinality(calls) < MaxCalls
  /\ calls' = calls \cup {[meant |-> o, method |-> method, object |-> object, ran |-> ran,
                           there |-> o.Type \in DOMAIN services]}

ClassOf(object) == CHOOSE c \in Classes : instance'[c] = object

\* OnIncomingInvoke finds the object, if need be by making the service, and the
\* method runs or is unknown.
Invoked(o, method) ==
  LET id == Arrived(o)
  IN  /\ \/ id \in DOMAIN localObjects /\ UNCHANGED <<instance, localObjects>>
         \/ /\ id \notin DOMAIN localObjects
            /\ id.Id = 0 /\ id.Type \in DOMAIN services
            /\ GetsLocalService(id.Type)
      /\ LET object == localObjects'[id]
         IN  Logged(o, method, object, Dispatched(Implements[ClassOf(object)], method))
      /\ UNCHANGED <<services, factories, handed>>

\* No such object: OnIncomingInvoke throws.
NotFound(o, method) ==
  LET id == Arrived(o)
  IN  /\ id \notin DOMAIN localObjects
      /\ ~(id.Id = 0 /\ id.Type \in DOMAIN services)
      /\ Logged(o, method, 0, CoreObject)
      /\ UNCHANGED <<services, factories, localObjects, instance, handed>>

\* The ids and methods that peers send.
Ids == {ObjectId(ClassId(SpelledWith(i, v), 1), n) :
          i \in Called, v \in Versions, n \in {0, 1}}
AllMethods == UNION {Methods[i] : i \in Interfaces}

Next ==
  \/ \E c \in Classes : RegisterService(c)
  \/ \E i \in Called : GetServiceLocal(i) \/ GetServiceProxy(i)
  \/ \E o \in Ids, method \in AllMethods : Invoked(o, method) \/ NotFound(o, method)

Spec == Init /\ [][Next]_vars

------------------------------------------------------------------------------
\* Properties

Ancestors(i) ==
  LET above[j \in Interfaces \cup {CoreObject}] ==
        IF j = CoreObject THEN {j} ELSE {j} \cup above[Base[j]]
  IN  above[i]

\* The tables hold what their names say: a service under its interface's id, and
\* as an object only an instance of a class that implements the id's interface.
ObjectsTypeOK ==
  /\ \A id \in DOMAIN services : id = IdOf(Implements[services[id]])
  /\ factories \subseteq {IdOf(i) : i \in Interfaces \cup {CoreObject}}
  /\ instance \in [Classes -> 0 .. Cardinality(Classes)]
  /\ \A o \in DOMAIN localObjects :
       \E c \in Classes : /\ instance[c] = localObjects[o] /\ instance[c] # 0
                         /\ o = ObjectId(IdOf(Implements[c]), 0)

\* An object id goes on meaning the same instance, whatever is registered and
\* asked for later: proxies in other processes hold nothing but the id.
StableObjects ==
  [][\A o \in DOMAIN localObjects :
       o \in DOMAIN localObjects' /\ localObjects'[o] = localObjects[o]]_vars

\* A service's own process and its peers use the same instance, as long as one
\* class implements the interface.
OneInstance ==
  \A h \in handed, call \in calls :
    /\ h.how = "local" /\ call.object # 0
    /\ call.meant = ObjectId(IdOf(h.interface), 0)
    /\ Cardinality({c \in Classes : Implements[c] = h.interface}) = 1
    => h.object = call.object

\* GetService never fails for an interface of the IDL.
ProxyFound == \A h \in handed : h.how # "throws"

Declaring(i, method) == {j \in Ancestors(i) \cap Interfaces : method \in Methods[j]}

\* A call of a version 1 id that a service is registered under finds its object
\* and runs the method of the nearest interface that declares it.
CallReachesMethod ==
  \A call \in calls, i \in Interfaces :
    /\ call.meant = ObjectId(IdOf(i), 0) /\ call.there
    => /\ call.object # 0
       /\ LET declaring == Declaring(i, call.method)
          IN  IF declaring = {} THEN call.ran = CoreObject
              ELSE call.ran \in declaring /\ declaring \subseteq Ancestors(call.ran)

\* A call runs only on an object that its id names, by class and by number: an
\* object nobody made is not found, one of another class is not taken for it.
CallReachesItsClass ==
  \A call \in calls :
    call.object # 0 =>
      /\ call.meant.Id = 0
      /\ \E c \in Classes : /\ instance[c] = call.object
                            /\ IdOf(Implements[c]).Name = call.meant.Type.Name
==============================================================================
