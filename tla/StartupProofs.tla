---------------------------- MODULE StartupProofs ----------------------------
(***************************************************************************)
(* Theorems about Startup, for any callers, services and bounds.            *)
(***************************************************************************)
EXTENDS Startup, ServiceManagerProofs, FiniteSetTheorems

Results == {"none", "connected", "thrown", "timed out"}
RequestsOf == 1 .. Len(requests)
RequestType ==
  [from : Callers, service : Services, pid : {0} \cup PidOf, result : Results]

------------------------------------------------------------------------------
\* The invariant

\* start waits for the child it made last.
AwaitedIsNewest == starting # 0 => starting = Len(child)

\* A start that threw left no living child.
FailedIsDead == \A pid \in PidOf : outcome[pid] \in Failures => child[pid] = "dead"

ServiceInv == service \in Seq(Services) /\ Len(service) = Len(child)

\* A path belongs to a child of that service, and no living child that has come
\* to listen is younger than the one the path belongs to.
PathInv ==
  /\ path \in [Services -> Nat]
  /\ \A s \in Services : path[s] # 0 => path[s] \in PidOf /\ service[path[s]] = s
  /\ \A pid \in PidOf : child[pid] \in {"listening", "ready"} => pid <= path[service[pid]]

CallersInv ==
  /\ managerUp \in BOOLEAN /\ attached \subseteq Callers
  /\ peer \in [Callers -> [Services -> {0} \cup PidOf]]
  /\ unpolled \subseteq Callers \X (Services \cup {Manager})

\* A request that was taken has a child of its service, and every child was asked for.
RequestsInv ==
  /\ requests \in Seq(RequestType)
  /\ \A r \in RequestsOf :
       requests[r].pid # 0 => service[requests[r].pid] = requests[r].service
  /\ \A pid \in PidOf : \E r \in RequestsOf : requests[r].pid = pid

Awaits(p, r, reqs, socks) ==
  reqs[r].from = p /\ reqs[r].result = "none" /\ <<p, reqs[r].service>> \in socks

\* w is a stack of p's waits: later requests further in, each for another service.
Nested(p, w, reqs, socks) ==
  \A i \in 1 .. Len(w) :
    /\ Awaits(p, w[i], reqs, socks)
    /\ \A j \in 1 .. Len(w) : i < j => w[i] < w[j] /\ reqs[w[j]].service # reqs[w[i]].service

WaitingInv ==
  /\ waiting \in [Callers -> Seq(RequestsOf)]
  /\ \A p \in Callers : Nested(p, waiting[p], requests, unpolled)

CallersPart ==
  ServiceInv /\ PathInv /\ CallersInv /\ RequestsInv /\ WaitingInv /\ StuckForCause

StartupInv == PromptInv /\ AwaitedIsNewest /\ FailedIsDead /\ CallersPart

------------------------------------------------------------------------------
\* The manager's part

\* Every step is one of ServiceManager or changes nothing of it.
LEMMA StepOfManager == ASSUME StartupNext PROVE [Next]_vars
<1>1. CASE \E p \in Callers, s \in Services :
             ConnectsAtOnce(p, s) \/ AsksManager(p, s) \/ CannotAsk(p, s) \/ PeerHangup(p, s)
  BY <1>1 DEF ConnectsAtOnce, AsksManager, CannotAsk, PeerHangup
<1>2. CASE \E p \in Callers : ConnectsStarted(p) \/ ConnectThrows(p) \/ StartTimesOut(p)
  BY <1>2 DEF ConnectsStarted, ConnectThrows, StartTimesOut
<1>3. CASE ManagerListens
  BY <1>3 DEF ManagerListens
<1>4. CASE \E r \in DOMAIN requests : Serves(r)
  BY <1>4 DEF Serves, Next
<1>5. CASE \E pid \in DOMAIN child : Unlinks(pid) \/ Listens(pid)
  BY <1>5 DEF Unlinks, Listens, Next
<1>6. CASE ManagerStep
  BY <1>6 DEF ManagerStep, Next
<1>7. QED  BY <1>1, <1>2, <1>3, <1>4, <1>5, <1>6 DEF StartupNext

\* With callers and paths around it the manager takes the steps of ServiceManager
\* only, whatever the callers do.
THEOREM ManagerImplemented == StartupSpec => ImplementsManager
<1>1. StartupInit => Init
  BY DEF StartupInit
<1>2. [StartupNext]_allVars => [Next]_vars
  BY StepOfManager DEF allVars
<1>3. QED  BY <1>1, <1>2, PTL DEF StartupSpec, ImplementsManager

\* What such a step leaves of the children there were.
Kept ==
  /\ PidOf \subseteq PidOf'
  /\ \A pid \in PidOf : child[pid] = "dead" => child'[pid] = "dead"

LEMMA ManagerInit == StartupInit => PromptInv /\ AwaitedIsNewest /\ FailedIsDead
<1>1. StartupInit => Init
  BY DEF StartupInit
<1>2. Init => AwaitedIsNewest
  BY DEF Init, AwaitedIsNewest
<1>3. Init => FailedIsDead
  BY EmptySeq DEF Init, FailedIsDead, PidOf
<1>4. QED  BY <1>1, <1>2, <1>3, PromptInvInit

\* A step that changes one child leaves the others and the sequence's length.
LEMMA OneChildChanges ==
  ASSUME TypeOK, AwaitedIsNewest, FailedIsDead, NEW pid \in PidOf, NEW state \in ChildState,
         child' = [child EXCEPT ![pid] = state], UNCHANGED <<starting, outcome>>,
         child[pid] # "dead" \/ state = "dead"
  PROVE  AwaitedIsNewest' /\ FailedIsDead' /\ Kept
<1>1. /\ Len(child') = Len(child) /\ PidOf' = PidOf /\ child'[pid] = state
      /\ \A p \in PidOf \ {pid} : child'[p] = child[p]
  BY ChildChanges
<1>2. QED  BY <1>1 DEF AwaitedIsNewest, FailedIsDead, Kept

LEMMA ManagerKept ==
  ASSUME Prompt, PromptInv, AwaitedIsNewest, FailedIsDead, [Next]_vars
  PROVE  PromptInv' /\ AwaitedIsNewest' /\ FailedIsDead' /\ Kept
<1>1. PromptInv' /\ TypeOK /\ Pid = PidOf
  BY PromptInvStep, Types DEF PromptInv
<1>2. CASE Start
  <2>1. /\ child' = Append(child, "forked") /\ outcome' = Append(outcome, "none")
        /\ starting' = Len(child) + 1
    BY <1>2 DEF Start
  <2>2. /\ Len(child) \in Nat /\ Len(child') = Len(child) + 1
        /\ \A p \in PidOf : child'[p] = child[p]
        /\ \A p \in PidOf : outcome'[p] = outcome[p]
        /\ outcome'[Len(child) + 1] = "none"
    <3>1. "forked" \in ChildState /\ "none" \in StartOutcome /\ Len(outcome) = Len(child)
      BY <1>1 DEF ChildState, StartOutcome, TypeOK
    <3>2. QED  BY <1>1, <2>1, <3>1, Types, AppendProperties DEF PidOf
  <2>3. PidOf \subseteq PidOf' /\ PidOf' = PidOf \cup {Len(child) + 1}
    BY <2>2 DEF PidOf
  <2>4. FailedIsDead'
    BY <2>2, <2>3 DEF FailedIsDead, Failures
  <2>5. AwaitedIsNewest' /\ Kept
    BY <2>1, <2>2, <2>3 DEF AwaitedIsNewest, Kept
  <2>6. QED  BY <1>1, <2>4, <2>5
<1>3. ASSUME NEW pid \in PidOf, Listen(pid) PROVE AwaitedIsNewest' /\ FailedIsDead' /\ Kept
  BY <1>1, <1>3, OneChildChanges DEF Listen, ChildState
<1>4. ASSUME NEW pid \in PidOf, NotifyParent(pid)
      PROVE  AwaitedIsNewest' /\ FailedIsDead' /\ Kept
  BY <1>1, <1>4, OneChildChanges DEF NotifyParent, ChildState
<1>5. ASSUME NEW pid \in PidOf, Die(pid) PROVE AwaitedIsNewest' /\ FailedIsDead' /\ Kept
  BY <1>1, <1>5, OneChildChanges DEF Die, ChildState
<1>6. CASE OnSigUSR2 \/ OnSigChld \/ UNCHANGED vars
  BY <1>1, <1>6 DEF OnSigUSR2, OnSigChld, vars, AwaitedIsNewest, FailedIsDead, Kept, PidOf
<1>7. CASE ReadStarted
  <2>1. child' = child /\ starting' = 0
    BY <1>7 DEF ReadStarted, Reads, Returns
  <2>2. \A p \in PidOf : outcome'[p] = IF p = starting THEN "started" ELSE outcome[p]
    BY <1>7, ReadStartedStep
  <2>3. QED  BY <1>1, <2>1, <2>2 DEF AwaitedIsNewest, FailedIsDead, Kept, PidOf, Failures
<1>8. CASE ReadStopped
  <2>1. child' = child /\ starting' \in {0, starting}
    BY <1>8 DEF ReadStopped, Reads, Returns
  <2>2. \A p \in PidOf : outcome'[p] # outcome[p] => child[p] = "dead"
    BY <1>8, ReadStoppedStep
  <2>3. QED  BY <1>1, <2>1, <2>2 DEF AwaitedIsNewest, FailedIsDead, Kept, PidOf
<1>9. QED  BY <1>1, <1>2, <1>3, <1>4, <1>5, <1>6, <1>7, <1>8 DEF Next, Pid

------------------------------------------------------------------------------
\* The callers' part

LEMMA Shapes ==
  ASSUME StartupInv
  PROVE  /\ Pid = PidOf /\ Len(child) \in Nat /\ child \in [PidOf -> ChildState]
         /\ service \in [PidOf -> Services]
         /\ DOMAIN requests = RequestsOf /\ Len(requests) \in Nat
         /\ \A r \in RequestsOf :
              /\ requests[r] \in RequestType
              /\ requests[r].from \in Callers /\ requests[r].service \in Services
              /\ requests[r].pid \in {0} \cup PidOf /\ requests[r].pid \in Nat
              /\ requests[r].result \in Results
         /\ \A p \in Callers :
              /\ waiting[p] \in Seq(RequestsOf) /\ DOMAIN waiting[p] = 1 .. Len(waiting[p])
              /\ Len(waiting[p]) \in Nat
              /\ \A i \in 1 .. Len(waiting[p]) : waiting[p][i] \in RequestsOf
<1>1. /\ Pid = PidOf /\ Len(child) \in Nat /\ child \in [PidOf -> ChildState]
  BY Types DEF StartupInv, PromptInv
<1>2. service \in [PidOf -> Services]
  BY <1>1, LenProperties DEF StartupInv, CallersPart, ServiceInv, PidOf
<1>3. requests \in Seq(RequestType)
  BY DEF StartupInv, CallersPart, RequestsInv
<1>4. DOMAIN requests = RequestsOf /\ Len(requests) \in Nat
  BY <1>3, LenProperties DEF RequestsOf
<1>5. ASSUME NEW r \in RequestsOf
      PROVE  /\ requests[r] \in RequestType
             /\ requests[r].from \in Callers /\ requests[r].service \in Services
             /\ requests[r].pid \in {0} \cup PidOf /\ requests[r].pid \in Nat
             /\ requests[r].result \in Results
  <2>1. requests[r] \in RequestType
    BY <1>3, <1>5, ElementOfSeq DEF RequestsOf
  <2>2. QED  BY <2>1, <1>1 DEF RequestType, PidOf
<1>6. ASSUME NEW p \in Callers
      PROVE  /\ waiting[p] \in Seq(RequestsOf) /\ DOMAIN waiting[p] = 1 .. Len(waiting[p])
             /\ Len(waiting[p]) \in Nat
             /\ \A i \in 1 .. Len(waiting[p]) : waiting[p][i] \in RequestsOf
  <2>1. waiting[p] \in Seq(RequestsOf)
    BY DEF StartupInv, CallersPart, WaitingInv
  <2>2. QED  BY <2>1, LenProperties, ElementOfSeq
<1>7. QED  BY <1>1, <1>2, <1>4, <1>5, <1>6

\* What every step leaves of the requests there were.
RequestsKept ==
  /\ requests' \in Seq(RequestType')
  /\ \A r \in RequestsOf :
       /\ r \in RequestsOf'
       /\ requests'[r].from = requests[r].from
       /\ requests'[r].service = requests[r].service
       /\ requests[r].result = "timed out" => requests'[r].result = "timed out"
       /\ requests[r].pid # 0 => requests'[r].pid = requests[r].pid

\* What made a connection stuck is never undone.
LEMMA CauseKept ==
  ASSUME StartupInv, Kept, RequestsKept, NEW p \in Callers, NEW s \in Services,
         <<p, Manager>> \in unpolled => <<p, Manager>> \in unpolled',
         Cause(p, s)
  PROVE  Cause(p, s)'
<1>1. CASE <<p, Manager>> \in unpolled
  BY <1>1 DEF Cause
<1>2. CASE \E r \in RequestsOf :
             /\ requests[r].from = p /\ requests[r].service = s
             /\ \/ requests[r].result = "timed out"
                \/ /\ requests[r].pid # 0
                   /\ \/ child[requests[r].pid] = "dead"
                      \/ \E k \in RequestsOf :
                           requests[k].service = s /\ requests[k].pid > requests[r].pid
  <2>1. DOMAIN requests' = RequestsOf'
    BY LenProperties DEF RequestsKept, RequestsOf
  <2>2. PICK r \in RequestsOf :
             /\ requests[r].from = p /\ requests[r].service = s
             /\ \/ requests[r].result = "timed out"
                \/ /\ requests[r].pid # 0
                   /\ \/ child[requests[r].pid] = "dead"
                      \/ \E k \in RequestsOf :
                           requests[k].service = s /\ requests[k].pid > requests[r].pid
    BY <1>2
  <2>3. r \in DOMAIN requests' /\ requests'[r].from = p /\ requests'[r].service = s
    BY <2>1, <2>2 DEF RequestsKept
  <2>4. CASE requests[r].result = "timed out"
    BY <2>3, <2>4 DEF RequestsKept, Cause
  <2>5. CASE requests[r].pid # 0 /\ child[requests[r].pid] = "dead"
    <3>1. requests'[r].pid = requests[r].pid /\ requests[r].pid \in PidOf
      BY <2>5, Shapes DEF RequestsKept
    <3>2. QED  BY <2>3, <2>5, <3>1 DEF Kept, Cause
  <2>6. CASE /\ requests[r].pid # 0
             /\ \E k \in RequestsOf :
                  requests[k].service = s /\ requests[k].pid > requests[r].pid
    <3>1. PICK k \in RequestsOf : requests[k].service = s /\ requests[k].pid > requests[r].pid
      BY <2>6
    <3>2. requests[k].pid # 0
      BY <3>1, Shapes
    <3>3. /\ requests'[r].pid = requests[r].pid /\ requests'[k].pid = requests[k].pid
          /\ k \in DOMAIN requests' /\ requests'[k].service = s
      BY <2>1, <2>6, <3>1, <3>2 DEF RequestsKept
    <3>4. QED  BY <2>3, <2>6, <3>1, <3>3 DEF Cause
  <2>7. QED  BY <2>2, <2>4, <2>5, <2>6
<1>3. QED  BY <1>1, <1>2, Shapes DEF Cause

\* No connection gets stuck where no wait and no socket changes.
LEMMA StuckKept ==
  ASSUME StartupInv, Kept, RequestsKept, UNCHANGED <<unpolled, waiting>>
  PROVE  StuckForCause'
<1> SUFFICES ASSUME NEW p \in Callers, NEW s \in Services, Stuck(p, s)'
             PROVE  Cause(p, s)'
  BY DEF StuckForCause
<1>1. Stuck(p, s)
  BY Shapes DEF Stuck, RequestsKept
<1>2. QED  BY <1>1, CauseKept DEF StartupInv, CallersPart, StuckForCause

LEMMA CallersPartInit == StartupInit => CallersPart
<1> SUFFICES ASSUME StartupInit PROVE CallersPart
  OBVIOUS
<1>1. /\ Len(child) = 0 /\ Len(service) = 0 /\ Len(requests) = 0
      /\ PidOf = {} /\ RequestsOf = {} /\ DOMAIN requests = {}
      /\ \A p \in Callers : Len(waiting[p]) = 0 /\ waiting[p] = << >>
  BY EmptySeq DEF StartupInit, Init, PidOf, RequestsOf
<1>2. ServiceInv
  BY <1>1, EmptySeq DEF ServiceInv, StartupInit
<1>3. PathInv
  BY <1>1 DEF PathInv, StartupInit
<1>4. CallersInv
  BY DEF CallersInv, StartupInit
<1>5. RequestsInv
  BY <1>1, EmptySeq DEF RequestsInv, StartupInit
<1>6. WaitingInv
  BY <1>1, EmptySeq DEF WaitingInv, Nested, StartupInit
<1>7. StuckForCause
  BY DEF StuckForCause, Stuck, StartupInit
<1>8. QED  BY <1>2, <1>3, <1>4, <1>5, <1>6, <1>7 DEF CallersPart

\* A step of managers, children or hangups: no request and no wait changes.
LEMMA QuietStep ==
  ASSUME StartupInv, Kept, Len(child') = Len(child), CallersInv', PathInv',
         UNCHANGED <<service, requests, waiting, unpolled>>
  PROVE  CallersPart'
<1>1. PidOf' = PidOf /\ RequestsOf' = RequestsOf /\ RequestType' = RequestType
  BY DEF PidOf, RequestsOf, RequestType
<1>2. ServiceInv' /\ RequestsInv' /\ WaitingInv'
  BY <1>1 DEF StartupInv, CallersPart, ServiceInv, RequestsInv, WaitingInv
<1>3. RequestsKept
  BY <1>1 DEF StartupInv, CallersPart, RequestsInv, RequestsKept
<1>4. QED  BY <1>2, <1>3, StuckKept DEF CallersPart

LEMMA ConnectsAtOnceStep ==
  ASSUME StartupInv, Kept, NEW p \in Callers, NEW s \in Services, ConnectsAtOnce(p, s)
  PROVE  CallersPart'
<1>1. /\ child' = child /\ PidOf' = PidOf
      /\ peer' = [peer EXCEPT ![p][s] = path[s]] /\ path[s] # 0
      /\ UNCHANGED <<service, path, managerUp, attached, unpolled, requests, waiting>>
  BY DEF ConnectsAtOnce, Reachable, vars, PidOf
<1>2. path[s] \in PidOf
  BY <1>1 DEF StartupInv, CallersPart, PathInv
<1>3. CallersInv' /\ PathInv'
  BY <1>1, <1>2 DEF StartupInv, CallersPart, CallersInv, PathInv
<1>4. QED  BY <1>1, <1>3, QuietStep

LEMMA PeerHangupStep ==
  ASSUME StartupInv, Kept, NEW p \in Callers, NEW s \in Services, PeerHangup(p, s)
  PROVE  CallersPart'
<1>1. /\ child' = child /\ PidOf' = PidOf
      /\ peer' = [peer EXCEPT ![p][s] = 0]
      /\ UNCHANGED <<service, path, managerUp, attached, unpolled, requests, waiting>>
  BY DEF PeerHangup, vars, PidOf
<1>2. CallersInv' /\ PathInv'
  BY <1>1 DEF StartupInv, CallersPart, CallersInv, PathInv
<1>3. QED  BY <1>1, <1>2, QuietStep

LEMMA ManagerListensStep == ASSUME StartupInv, Kept, ManagerListens PROVE CallersPart'
<1>1. /\ child' = child /\ PidOf' = PidOf /\ managerUp' = TRUE
      /\ UNCHANGED <<service, path, peer, attached, unpolled, requests, waiting>>
  BY DEF ManagerListens, vars, PidOf
<1>2. CallersInv' /\ PathInv'
  BY <1>1 DEF StartupInv, CallersPart, CallersInv, PathInv
<1>3. QED  BY <1>1, <1>2, QuietStep

\* A stack of waits stands while its requests and their sockets do.
LEMMA NestedKept ==
  ASSUME NEW p, NEW w, NEW reqs, NEW socks, NEW reqs2, NEW socks2, Nested(p, w, reqs, socks),
         \A i \in 1 .. Len(w) :
           /\ reqs2[w[i]].from = reqs[w[i]].from /\ reqs2[w[i]].service = reqs[w[i]].service
           /\ reqs2[w[i]].result = reqs[w[i]].result
           /\ <<p, reqs[w[i]].service>> \in socks2
  PROVE  Nested(p, w, reqs2, socks2)
<1> SUFFICES ASSUME NEW i \in 1 .. Len(w)
             PROVE  /\ Awaits(p, w[i], reqs2, socks2)
                    /\ \A j \in 1 .. Len(w) :
                         i < j => w[i] < w[j] /\ reqs2[w[j]].service # reqs2[w[i]].service
  BY DEF Nested
<1>1. Awaits(p, w[i], reqs2, socks2)
  <2>1. reqs[w[i]].from = p /\ reqs[w[i]].result = "none"
    BY DEF Nested, Awaits
  <2>2. /\ reqs2[w[i]].from = p /\ reqs2[w[i]].result = "none"
        /\ reqs2[w[i]].service = reqs[w[i]].service /\ <<p, reqs[w[i]].service>> \in socks2
    BY <2>1
  <2>3. QED  BY <2>2 DEF Awaits
<1>2. ASSUME NEW j \in 1 .. Len(w), i < j
      PROVE  w[i] < w[j] /\ reqs2[w[j]].service # reqs2[w[i]].service
  <2>1. w[i] < w[j] /\ reqs[w[j]].service # reqs[w[i]].service
    BY <1>2 DEF Nested
  <2>2. /\ reqs2[w[i]].service = reqs[w[i]].service
        /\ reqs2[w[j]].service = reqs[w[j]].service
    BY <1>2
  <2>3. QED  BY <2>1, <2>2
<1>3. QED  BY <1>1, <1>2

LEMMA NestedAppend ==
  ASSUME NEW p, NEW w, NEW w2, NEW x, NEW reqs, NEW socks, Nested(p, w, reqs, socks),
         Len(w) \in Nat, Len(w2) = Len(w) + 1, w2[Len(w) + 1] = x,
         \A i \in 1 .. Len(w) : w2[i] = w[i],
         Awaits(p, x, reqs, socks),
         \A i \in 1 .. Len(w) : w[i] < x /\ reqs[w[i]].service # reqs[x].service
  PROVE  Nested(p, w2, reqs, socks)
<1> SUFFICES ASSUME NEW i \in 1 .. Len(w) + 1
             PROVE  /\ Awaits(p, w2[i], reqs, socks)
                    /\ \A j \in 1 .. Len(w) + 1 :
                         i < j => w2[i] < w2[j] /\ reqs[w2[j]].service # reqs[w2[i]].service
  BY DEF Nested
<1>1. CASE i = Len(w) + 1
  BY <1>1
<1>2. CASE i \in 1 .. Len(w)
  <2>1. Awaits(p, w2[i], reqs, socks)
    BY <1>2 DEF Nested
  <2>2. ASSUME NEW j \in 1 .. Len(w) + 1, i < j
        PROVE  w2[i] < w2[j] /\ reqs[w2[j]].service # reqs[w2[i]].service
    <3>1. CASE j = Len(w) + 1
      BY <1>2, <3>1
    <3>2. CASE j \in 1 .. Len(w)
      BY <1>2, <2>2, <3>2 DEF Nested
    <3>3. QED  BY <3>1, <3>2
  <2>3. QED  BY <2>1, <2>2
<1>3. QED  BY <1>1, <1>2

\* The fallback's request goes to the end of the history, and its wait on top.
LEMMA AsksManagerStep ==
  ASSUME StartupInv, Kept, NEW p \in Callers, NEW s \in Services, AsksManager(p, s)
  PROVE  CallersPart'
<1> DEFINE x == Len(requests) + 1
           e == [from |-> p, service |-> s, pid |-> 0, result |-> "none"]
           n == Len(waiting[p])
<1>1. /\ <<p, s>> \notin unpolled
      /\ attached' = attached \cup {p} /\ unpolled' = unpolled \cup {<<p, s>>}
      /\ requests' = Append(requests, e)
      /\ waiting' = [waiting EXCEPT ![p] = Append(@, x)]
      /\ UNCHANGED <<child, service, path, managerUp, peer>>
  BY DEF AsksManager, Connecting, vars
<1>2. PidOf' = PidOf /\ RequestType' = RequestType
  BY <1>1 DEF PidOf, RequestType
<1>3. e \in RequestType
  BY DEF RequestType, Results
<1>4. /\ requests' \in Seq(RequestType) /\ Len(requests') = x /\ requests'[x] = e
      /\ \A r \in RequestsOf : requests'[r] = requests[r]
  BY <1>1, <1>3, AppendProperties DEF RequestsOf, StartupInv, CallersPart, RequestsInv
<1> HIDE DEF e
<1>5. /\ RequestsOf' = RequestsOf \cup {x} /\ x \in RequestsOf'
      /\ \A r \in RequestsOf : r < x /\ r \in RequestsOf'
  BY <1>4, Shapes DEF RequestsOf
<1>6. /\ e.from = p /\ e.service = s /\ e.pid = 0 /\ e.result = "none"
  BY DEF e
<1>7. RequestsKept
  BY <1>2, <1>4, <1>5 DEF RequestsKept
<1>8. /\ waiting'[p] \in Seq(RequestsOf') /\ Len(waiting'[p]) = n + 1 /\ waiting'[p][n + 1] = x
      /\ \A i \in 1 .. n : waiting'[p][i] = waiting[p][i]
      /\ \A q \in Callers \ {p} : waiting'[q] = waiting[q]
  <2>1. /\ waiting'[p] = Append(waiting[p], x)
        /\ \A q \in Callers \ {p} : waiting'[q] = waiting[q]
    BY <1>1 DEF StartupInv, CallersPart, WaitingInv
  <2>2. waiting[p] \in Seq(RequestsOf')
    BY <1>5, Shapes, SeqMonotonic
  <2>3. QED  BY <1>5, <2>1, <2>2, AppendProperties
<1>9. ServiceInv' /\ PathInv' /\ CallersInv'
  BY <1>1, <1>2 DEF StartupInv, CallersPart, ServiceInv, PathInv, CallersInv
<1>10. RequestsInv'
  <2>1. RequestsInv /\ service' = service
    BY <1>1 DEF StartupInv, CallersPart
  <2>2. requests' \in Seq(RequestType')
    BY <1>2, <1>4
  <2>3. ASSUME NEW r \in RequestsOf', requests'[r].pid # 0
        PROVE  service'[requests'[r].pid] = requests'[r].service
    <3>1. requests'[x].pid = 0
      BY <1>4, <1>6
    <3>2. r \in RequestsOf
      BY <1>5, <2>3, <3>1
    <3>3. requests'[r] = requests[r]
      BY <1>4, <3>2
    <3>4. QED  BY <2>1, <2>3, <3>2, <3>3 DEF RequestsInv
  <2>4. ASSUME NEW pid \in PidOf' PROVE \E r \in RequestsOf' : requests'[r].pid = pid
    <3>1. PICK r \in RequestsOf : requests[r].pid = pid
      BY <1>2, <2>1, <2>4 DEF RequestsInv
    <3>2. r \in RequestsOf' /\ requests'[r] = requests[r]
      BY <1>4, <1>5, <3>1
    <3>3. QED  BY <3>1, <3>2
  <2>5. QED  BY <2>2, <2>3, <2>4 DEF RequestsInv
<1>11. WaitingInv'
  <2>1. ASSUME NEW q \in Callers PROVE waiting'[q] \in Seq(RequestsOf')
    <3>1. waiting[q] \in Seq(RequestsOf')
      BY <1>5, Shapes, SeqMonotonic
    <3>2. QED  BY <1>8, <3>1
  <2>2. waiting' \in [Callers -> Seq(RequestsOf')]
    BY <1>1, <2>1 DEF StartupInv, CallersPart, WaitingInv
  <2>3. ASSUME NEW q \in Callers PROVE Nested(q, waiting[q], requests', unpolled')
    <3>1. Nested(q, waiting[q], requests, unpolled)
      BY DEF StartupInv, CallersPart, WaitingInv
    <3>2. \A i \in 1 .. Len(waiting[q]) :
             /\ requests'[waiting[q][i]] = requests[waiting[q][i]]
             /\ <<q, requests[waiting[q][i]].service>> \in unpolled'
      BY <1>1, <1>4, <3>1, Shapes DEF Nested, Awaits
    <3>3. QED  BY <3>1, <3>2, NestedKept
  <2>4. Nested(p, waiting'[p], requests', unpolled')
    <3>1. \A i \in 1 .. n : /\ waiting[p][i] < x
                            /\ requests'[waiting[p][i]].service # s
      <4>1. \A i \in 1 .. n : waiting[p][i] \in RequestsOf
        BY Shapes
      <4>2. \A i \in 1 .. n : <<p, requests[waiting[p][i]].service>> \in unpolled
        BY DEF StartupInv, CallersPart, WaitingInv, Nested, Awaits
      <4>3. QED  BY <1>1, <1>4, <1>5, <4>1, <4>2
    <3>2. Awaits(p, x, requests', unpolled')
      BY <1>1, <1>4, <1>6 DEF Awaits
    <3>3. /\ n \in Nat /\ Nested(p, waiting[p], requests', unpolled')
          /\ \A i \in 1 .. n : requests'[waiting[p][i]].service # requests'[x].service
      BY <1>4, <1>6, <2>3, <3>1, Shapes
    <3>4. QED  BY <1>8, <3>1, <3>2, <3>3, NestedAppend
  <2>5. QED  BY <1>8, <2>2, <2>3, <2>4 DEF WaitingInv
<1>12. StuckForCause'
  <2> SUFFICES ASSUME NEW q \in Callers, NEW t \in Services, Stuck(q, t)'
               PROVE  Cause(q, t)'
    BY DEF StuckForCause
  <2>1. DOMAIN waiting'[p] = 1 .. n + 1 /\ n \in Nat
    BY <1>8, Shapes, LenProperties
  <2>2. ~(q = p /\ t = s)
    BY <1>4, <1>6, <1>8, <2>1 DEF Stuck
  <2>3. Stuck(q, t)
    <3>1. <<q, t>> \in unpolled
      BY <1>1, <2>2 DEF Stuck
    <3>2. ASSUME NEW i \in DOMAIN waiting[q] PROVE requests[waiting[q][i]].service # t
      <4>1. /\ i \in DOMAIN waiting'[q] /\ waiting'[q][i] = waiting[q][i]
            /\ waiting[q][i] \in RequestsOf
        <5>1. i \in 1 .. Len(waiting[q]) /\ waiting[q][i] \in RequestsOf
          BY Shapes
        <5>2. CASE q = p
          BY <1>8, <2>1, <5>1, <5>2
        <5>3. CASE q # p
          BY <1>8, <5>1, <5>3
        <5>4. QED  BY <5>2, <5>3
      <4>2. QED  BY <1>4, <4>1 DEF Stuck
    <3>3. QED  BY <3>1, <3>2 DEF Stuck
  <2>4. QED  BY <1>1, <1>7, <2>3, CauseKept DEF StartupInv, CallersPart, StuckForCause
<1>13. QED  BY <1>9, <1>10, <1>11, <1>12 DEF CallersPart

LEMMA CannotAskStep ==
  ASSUME StartupInv, Kept, NEW p \in Callers, NEW s \in Services, CannotAsk(p, s)
  PROVE  CallersPart'
<1>1. /\ unpolled' = unpolled \cup {<<p, s>>, <<p, Manager>>}
      /\ UNCHANGED <<child, service, path, managerUp, attached, peer, requests, waiting>>
  BY DEF CannotAsk, vars
<1>2. PidOf' = PidOf /\ RequestsOf' = RequestsOf /\ RequestType' = RequestType
  BY <1>1 DEF PidOf, RequestsOf, RequestType
<1>3. ServiceInv' /\ PathInv' /\ CallersInv' /\ RequestsInv' /\ RequestsKept
  <2>1. ServiceInv' /\ PathInv' /\ CallersInv'
    BY <1>1, <1>2 DEF StartupInv, CallersPart, ServiceInv, PathInv, CallersInv
  <2>2. RequestsInv' /\ RequestsKept
    BY <1>1, <1>2 DEF StartupInv, CallersPart, RequestsInv, RequestsKept
  <2>3. QED  BY <2>1, <2>2
<1>4. WaitingInv'
  <2>1. ASSUME NEW q \in Callers PROVE Nested(q, waiting[q], requests, unpolled')
    <3>1. Nested(q, waiting[q], requests, unpolled)
      BY DEF StartupInv, CallersPart, WaitingInv
    <3>2. \A i \in 1 .. Len(waiting[q]) : <<q, requests[waiting[q][i]].service>> \in unpolled'
      BY <1>1, <3>1 DEF Nested, Awaits
    <3>3. QED  BY <3>1, <3>2, NestedKept
  <2>2. QED  BY <1>1, <1>2, <2>1 DEF StartupInv, CallersPart, WaitingInv
<1>5. StuckForCause'
  <2> SUFFICES ASSUME NEW q \in Callers, NEW t \in Services, Stuck(q, t)'
               PROVE  Cause(q, t)'
    BY DEF StuckForCause
  <2>1. CASE q = p
    BY <1>1, <2>1 DEF Cause
  <2>2. CASE q # p
    <3>1. Stuck(q, t)
      BY <1>1, <2>2 DEF Stuck
    <3>2. QED  BY <1>1, <1>3, <3>1, CauseKept DEF StartupInv, CallersPart, StuckForCause
  <2>3. QED  BY <2>1, <2>2
<1>6. QED  BY <1>3, <1>4, <1>5 DEF CallersPart

\* What is left of a stack of waits whose innermost one ends.
LEMMA NestedButLast ==
  ASSUME NEW p, NEW w, NEW w2, NEW reqs, NEW socks, Nested(p, w, reqs, socks),
         Len(w) \in Nat \ {0}, Len(w2) = Len(w) - 1,
         \A i \in 1 .. Len(w) - 1 : w2[i] = w[i]
  PROVE  Nested(p, w2, reqs, socks)
<1> SUFFICES ASSUME NEW i \in 1 .. Len(w) - 1
             PROVE  /\ Awaits(p, w2[i], reqs, socks)
                    /\ \A j \in 1 .. Len(w) - 1 :
                         i < j => w2[i] < w2[j] /\ reqs[w2[j]].service # reqs[w2[i]].service
  BY DEF Nested
<1>1. i \in 1 .. Len(w) /\ w2[i] = w[i]
  OBVIOUS
<1>2. Awaits(p, w2[i], reqs, socks)
  BY <1>1 DEF Nested
<1>3. ASSUME NEW j \in 1 .. Len(w) - 1, i < j
      PROVE  w2[i] < w2[j] /\ reqs[w2[j]].service # reqs[w2[i]].service
  <2>1. j \in 1 .. Len(w) /\ w2[j] = w[j]
    OBVIOUS
  <2>2. QED  BY <1>1, <1>3, <2>1 DEF Nested
<1>4. QED  BY <1>2, <1>3

LEMMA InnerFacts ==
  ASSUME StartupInv, NEW p \in Callers, waiting[p] # << >>
  PROVE  /\ Len(waiting[p]) \in Nat \ {0} /\ Inner(p) \in RequestsOf
         /\ requests[Inner(p)].from = p /\ requests[Inner(p)].result = "none"
         /\ <<p, requests[Inner(p)].service>> \in unpolled
<1>1. Len(waiting[p]) \in Nat \ {0}
  BY Shapes, EmptySeq
<1>2. Inner(p) \in RequestsOf
  BY <1>1, Shapes DEF Inner
<1>3. Awaits(p, waiting[p][Len(waiting[p])], requests, unpolled)
  BY <1>1 DEF StartupInv, CallersPart, WaitingInv, Nested
<1>4. QED  BY <1>1, <1>2, <1>3 DEF Awaits, Inner

\* Nothing gets stuck, the wait timed out, or there is another cause.
Excused(p, result) ==
  result \in {"timed out", "connected"} \/ Cause(p, requests[Inner(p)].service)

\* However the innermost wait ends: the waits around it stand, and a connection it
\* leaves stuck has a cause.
LEMMA EndsWaitStep ==
  ASSUME StartupInv, Kept, NEW p \in Callers, NEW result \in Results \ {"none"},
         waiting[p] # << >>, EndsWait(p, result), CallersInv',
         UNCHANGED <<child, service, path>>,
         Excused(p, result)
  PROVE  CallersPart'
<1>1. PICK r \in RequestsOf : r = Inner(p)
  BY InnerFacts
<1>2. PICK s \in Services : s = requests[r].service
  BY Shapes
<1> DEFINE n == Len(waiting[p])
<1>3. n \in Nat /\ n > 0 /\ n - 1 \in Nat
  BY InnerFacts
<1>4. /\ requests' = [requests EXCEPT ![r].result = result]
      /\ waiting' = [waiting EXCEPT ![p] = SubSeq(@, 1, Len(@) - 1)]
      /\ unpolled' = IF result = "connected" THEN unpolled \ {<<p, s>>} ELSE unpolled
  BY <1>1, <1>2 DEF EndsWait
<1>5. /\ r = waiting[p][n] /\ requests[r].from = p /\ requests[r].result = "none"
  BY <1>1, <1>3, InnerFacts DEF Inner
<1>6. PidOf' = PidOf /\ RequestType' = RequestType
  BY DEF PidOf, RequestType
<1>7. /\ requests' \in Seq(RequestType) /\ Len(requests') = Len(requests)
      /\ \A k \in RequestsOf \ {r} : requests'[k] = requests[k]
      /\ requests'[r] = [requests[r] EXCEPT !.result = result]
  <2>1. PICK e : e = [requests[r] EXCEPT !.result = result]
    OBVIOUS
  <2>2. e \in RequestType
    BY <2>1, Shapes DEF RequestType
  <2>3. requests' = [requests EXCEPT ![r] = e]
    BY <1>4, <2>1
  <2>4. requests \in Seq(RequestType) /\ r \in 1 .. Len(requests)
    BY DEF StartupInv, CallersPart, RequestsInv, RequestsOf
  <2>5. /\ requests' \in Seq(RequestType) /\ Len(requests') = Len(requests)
        /\ \A k \in 1 .. Len(requests) : requests'[k] = IF k = r THEN e ELSE requests[k]
    BY <2>2, <2>3, <2>4, ExceptSeq
  <2>6. QED  BY <2>1, <2>4, <2>5 DEF RequestsOf
<1>8. /\ requests'[r].from = p /\ requests'[r].service = s
      /\ requests'[r].pid = requests[r].pid /\ requests'[r].result = result
  BY <1>2, <1>5, <1>7, Shapes DEF RequestType
<1>9. RequestsOf' = RequestsOf /\ DOMAIN requests' = RequestsOf
  BY <1>7, LenProperties DEF RequestsOf
<1>10. RequestsKept
  BY <1>2, <1>5, <1>6, <1>7, <1>8, <1>9 DEF RequestsKept
<1>11. ServiceInv' /\ PathInv' /\ RequestsInv'
  <2>1. ServiceInv' /\ PathInv'
    BY <1>6 DEF StartupInv, CallersPart, ServiceInv, PathInv
  <2>2. \A k \in RequestsOf :
          requests'[k].pid = requests[k].pid /\ requests'[k].service = requests[k].service
    BY <1>2, <1>7, <1>8
  <2>3. RequestsInv'
    <3>1. /\ \A k \in RequestsOf :
               requests[k].pid # 0 => service[requests[k].pid] = requests[k].service
          /\ \A pid \in PidOf : \E k \in RequestsOf : requests[k].pid = pid
      BY DEF StartupInv, CallersPart, RequestsInv
    <3>2. \A pid \in PidOf : \E k \in RequestsOf : requests'[k].pid = pid
      BY <2>2, <3>1
    <3>3. \A k \in RequestsOf :
             requests'[k].pid # 0 => service[requests'[k].pid] = requests'[k].service
      BY <2>2, <3>1
    <3>4. QED  BY <1>6, <1>7, <1>9, <3>2, <3>3 DEF RequestsInv
  <2>4. QED  BY <2>1, <2>3
<1>12. /\ waiting'[p] \in Seq(RequestsOf) /\ Len(waiting'[p]) = n - 1
       /\ \A i \in 1 .. n - 1 : waiting'[p][i] = waiting[p][i]
       /\ \A q \in Callers \ {p} : waiting'[q] = waiting[q]
       /\ DOMAIN waiting'[p] = 1 .. n - 1
  <2>1. /\ waiting'[p] = SubSeq(waiting[p], 1, n - 1)
        /\ \A q \in Callers \ {p} : waiting'[q] = waiting[q]
    BY <1>3, <1>4 DEF StartupInv, CallersPart, WaitingInv
  <2>2. \A i \in 1 .. n - 1 : waiting[p][i] \in RequestsOf
    BY <1>3, Shapes
  <2>3. /\ SubSeq(waiting[p], 1, n - 1) \in Seq(RequestsOf)
        /\ Len(SubSeq(waiting[p], 1, n - 1)) = IF 1 <= n - 1 THEN n - 1 ELSE 0
        /\ \A i \in 1 .. n - 1 : SubSeq(waiting[p], 1, n - 1)[i] = waiting[p][i]
    <3>1. /\ SubSeq(waiting[p], 1, n - 1) \in Seq(RequestsOf)
          /\ Len(SubSeq(waiting[p], 1, n - 1)) = IF 1 <= n - 1 THEN (n - 1) - 1 + 1 ELSE 0
          /\ \A i \in 1 .. (n - 1) - 1 + 1 :
               SubSeq(waiting[p], 1, n - 1)[i] = waiting[p][1 + i - 1]
      BY <2>2, SubSeqProperties
    <3>2. QED  BY <3>1
  <2>4. QED  BY <2>1, <2>3, LenProperties
<1>13. Nested(p, waiting[p], requests, unpolled)
  BY DEF StartupInv, CallersPart, WaitingInv
<1>14. \A i \in 1 .. n - 1 : waiting[p][i] < r /\ requests[waiting[p][i]].service # s
  BY <1>2, <1>3, <1>5, <1>13 DEF Nested
<1>15. WaitingInv'
  <2>1. ASSUME NEW q \in Callers \ {p} PROVE Nested(q, waiting'[q], requests', unpolled')
    <3>1. Nested(q, waiting[q], requests, unpolled)
      BY DEF StartupInv, CallersPart, WaitingInv
    <3>2. ASSUME NEW i \in 1 .. Len(waiting[q])
          PROVE  /\ requests'[waiting[q][i]] = requests[waiting[q][i]]
                 /\ <<q, requests[waiting[q][i]].service>> \in unpolled'
      <4>1. /\ requests[waiting[q][i]].from = q
            /\ <<q, requests[waiting[q][i]].service>> \in unpolled
        BY <3>1 DEF Nested, Awaits
      <4>2. waiting[q][i] \in RequestsOf \ {r}
        BY <1>5, <4>1, Shapes
      <4>3. QED  BY <1>4, <1>7, <4>1, <4>2
    <3>3. Nested(q, waiting[q], requests', unpolled')
      BY <3>1, <3>2, NestedKept
    <3>4. QED  BY <1>12, <3>3
  <2>2. Nested(p, waiting'[p], requests', unpolled')
    <3>1. Nested(p, waiting'[p], requests, unpolled)
      BY <1>3, <1>12, <1>13, NestedButLast
    <3>2. ASSUME NEW i \in 1 .. Len(waiting'[p])
          PROVE  /\ requests'[waiting'[p][i]] = requests[waiting'[p][i]]
                 /\ <<p, requests[waiting'[p][i]].service>> \in unpolled'
      <4>1. i \in 1 .. n - 1 /\ waiting'[p][i] = waiting[p][i] /\ waiting[p][i] \in RequestsOf
        <5>1. i \in 1 .. n - 1
          BY <1>12
        <5>2. i \in 1 .. n
          BY <1>3, <5>1
        <5>3. QED  BY <1>12, <5>1, <5>2, Shapes
      <4>2. waiting'[p][i] \in RequestsOf \ {r} /\ requests[waiting'[p][i]].service # s
        BY <1>14, <4>1 DEF RequestsOf
      <4>3. <<p, requests[waiting'[p][i]].service>> \in unpolled
        BY <3>1 DEF Nested, Awaits
      <4>4. <<p, requests[waiting'[p][i]].service>> \in unpolled'
        <5>1. ASSUME NEW t, t # s, <<p, t>> \in unpolled PROVE <<p, t>> \in unpolled'
          <6>1. <<p, t>> # <<p, s>>
            BY <5>1
          <6>2. QED  BY <1>4, <5>1, <6>1
        <5>2. QED  BY <4>2, <4>3, <5>1
      <4>5. requests'[waiting'[p][i]] = requests[waiting'[p][i]]
        BY <1>7, <4>2
      <4>6. QED  BY <4>4, <4>5
    <3>3. QED  BY <3>1, <3>2, NestedKept
  <2>3. waiting' \in [Callers -> Seq(RequestsOf)]
    <3>1. \A q \in Callers : waiting'[q] \in Seq(RequestsOf)
      BY <1>12, Shapes
    <3>2. QED  BY <1>4, <3>1 DEF StartupInv, CallersPart, WaitingInv
  <2>4. QED  BY <1>9, <2>1, <2>2, <2>3 DEF WaitingInv
<1>16. StuckForCause'
  <2> SUFFICES ASSUME NEW q \in Callers, NEW t \in Services, Stuck(q, t)'
               PROVE  Cause(q, t)'
    BY DEF StuckForCause
  <2>1. <<p, Manager>> \in unpolled => <<p, Manager>> \in unpolled'
    BY <1>4, StartupAssumption
  <2>2. CASE q = p /\ t = s
    <3>1. result # "connected"
      BY <1>4, <2>2 DEF Stuck
    <3>2. CASE result = "timed out"
      BY <1>8, <1>9, <2>2, <3>2 DEF Cause
    <3>3. CASE Cause(p, s)
      BY <1>10, <2>1, <2>2, <3>3, CauseKept
    <3>4. QED  BY <1>1, <1>2, <3>1, <3>2, <3>3 DEF Excused
  <2>3. CASE ~(q = p /\ t = s)
    <3>1. <<q, t>> \in unpolled
      BY <1>4 DEF Stuck
    <3>2. ASSUME NEW i \in DOMAIN waiting[q] PROVE requests[waiting[q][i]].service # t
      <4>1. i \in 1 .. Len(waiting[q]) /\ waiting[q][i] \in RequestsOf
        BY Shapes
      <4>2. requests'[waiting[q][i]].service = requests[waiting[q][i]].service
        BY <1>10, <4>1 DEF RequestsKept
      <4>3. CASE q = p /\ i = n
        BY <1>2, <1>5, <2>3, <4>3
      <4>4. CASE ~(q = p /\ i = n)
        <5>1. i \in DOMAIN waiting'[q] /\ waiting'[q][i] = waiting[q][i]
          BY <1>3, <1>12, <4>1, <4>4
        <5>2. QED  BY <4>2, <5>1 DEF Stuck
      <4>5. QED  BY <4>3, <4>4
    <3>3. Stuck(q, t)
      BY <3>1, <3>2 DEF Stuck
    <3>4. <<q, Manager>> \in unpolled => <<q, Manager>> \in unpolled'
      BY <1>4, StartupAssumption
    <3>5. QED  BY <1>10, <3>3, <3>4, CauseKept DEF StartupInv, CallersPart, StuckForCause
  <2>4. QED  BY <2>2, <2>3
<1>17. QED  BY <1>11, <1>15, <1>16 DEF CallersPart

LEMMA ConnectsStartedStep ==
  ASSUME StartupInv, Kept, NEW p \in Callers, ConnectsStarted(p)
  PROVE  CallersPart'
<1>1. PICK s \in Services : s = requests[Inner(p)].service
  BY InnerFacts, Shapes DEF ConnectsStarted
<1>2. /\ waiting[p] # << >> /\ Reachable(s) /\ peer' = [peer EXCEPT ![p][s] = path[s]]
      /\ EndsWait(p, "connected")
      /\ UNCHANGED <<child, service, path, managerUp, attached>>
  BY <1>1 DEF ConnectsStarted, vars
<1>3. path[s] \in PidOf /\ PidOf' = PidOf
  BY <1>2 DEF Reachable, StartupInv, CallersPart, PathInv, PidOf
<1>4. unpolled' \subseteq unpolled
  BY <1>2 DEF EndsWait
<1>5. CallersInv'
  BY <1>2, <1>3, <1>4 DEF StartupInv, CallersPart, CallersInv
<1>6. "connected" \in Results \ {"none"} /\ Excused(p, "connected")
  BY DEF Results, Excused
<1>7. QED  BY <1>2, <1>5, <1>6, EndsWaitStep

LEMMA StartTimesOutStep ==
  ASSUME StartupInv, Kept, NEW p \in Callers, StartTimesOut(p)
  PROVE  CallersPart'
<1>1. /\ waiting[p] # << >> /\ EndsWait(p, "timed out")
      /\ UNCHANGED <<child, service, path, managerUp, attached, peer>>
  BY DEF StartTimesOut, vars
<1>2. unpolled' \subseteq unpolled /\ PidOf' = PidOf
  BY <1>1 DEF EndsWait, PidOf
<1>3. CallersInv'
  BY <1>1, <1>2 DEF StartupInv, CallersPart, CallersInv
<1>4. "timed out" \in Results \ {"none"} /\ Excused(p, "timed out")
  BY DEF Results, Excused
<1>5. QED  BY <1>1, <1>3, <1>4, EndsWaitStep

\* Connect throws for a child that died, or that a later one has pushed from its path.
LEMMA ConnectThrowsStep ==
  ASSUME StartupInv, Kept, NEW p \in Callers, ConnectThrows(p)
  PROVE  CallersPart'
<1>1. /\ waiting[p] # << >> /\ EndsWait(p, "thrown")
      /\ UNCHANGED <<child, service, path, managerUp, attached, peer>>
      /\ Answer(Inner(p)) # "none"
      /\ Answer(Inner(p)) = "started" => ~Reachable(requests[Inner(p)].service)
  BY DEF ConnectThrows, vars
<1>2. unpolled' \subseteq unpolled /\ PidOf' = PidOf
  BY <1>1 DEF EndsWait, PidOf
<1>3. CallersInv'
  BY <1>1, <1>2 DEF StartupInv, CallersPart, CallersInv
<1>4. PICK r \in RequestsOf : r = Inner(p) /\ requests[r].from = p
  BY <1>1, InnerFacts
<1>5. PICK s \in Services : s = requests[r].service
  BY Shapes
<1>6. PICK pid \in PidOf : pid = requests[r].pid
  BY <1>1, <1>4, Shapes DEF Answer
<1>7. pid # 0 /\ pid \in Nat /\ service[pid] = s
  <2>1. pid # 0 /\ pid \in Nat
    BY <1>6, Shapes DEF PidOf
  <2>2. QED  BY <1>5, <1>6, <2>1 DEF StartupInv, CallersPart, RequestsInv
<1>8. outcome[pid] # "none" /\ (outcome[pid] = "started" => ~Reachable(s))
  BY <1>1, <1>4, <1>5, <1>6, <1>7 DEF Answer
<1>9. outcome[pid] = "started" \/ outcome[pid] \in Failures
  BY <1>8, Types DEF StartupInv, PromptInv, StartOutcome
<1>10. Cause(p, s)
  <2>1. CASE child[pid] = "dead"
    BY <1>4, <1>5, <1>6, <1>7, <2>1, Shapes DEF Cause
  <2>2. CASE child[pid] # "dead"
    <3>1. outcome[pid] = "started" /\ child[pid] = "ready" /\ ~Reachable(s)
      BY <1>8, <1>9, <2>2 DEF StartupInv, FailedIsDead, PromptInv, StartedIsUp
    <3>2. pid <= path[s] /\ path[s] \in Nat
      BY <1>7, <3>1 DEF StartupInv, CallersPart, PathInv
    <3>3. path[s] # 0 /\ path[s] # pid
      BY <1>7, <3>1, <3>2 DEF Reachable
    <3>4. path[s] > pid /\ path[s] \in PidOf /\ service[path[s]] = s
      BY <1>7, <3>2, <3>3 DEF StartupInv, CallersPart, PathInv
    <3>5. PICK k \in RequestsOf : requests[k].pid = path[s]
      BY <3>4 DEF StartupInv, CallersPart, RequestsInv
    <3>6. requests[k].service = s
      BY <3>3, <3>4, <3>5 DEF StartupInv, CallersPart, RequestsInv
    <3>7. \E j \in RequestsOf : requests[j].service = s /\ requests[j].pid > requests[r].pid
      BY <1>6, <3>4, <3>5, <3>6
    <3>8. QED  BY <1>4, <1>5, <1>6, <1>7, <3>7, Shapes DEF Cause
  <2>3. QED  BY <2>1, <2>2
<1>11. "thrown" \in Results \ {"none"} /\ Excused(p, "thrown")
  BY <1>4, <1>5, <1>10 DEF Results, Excused
<1>12. QED  BY <1>1, <1>3, <1>11, EndsWaitStep

\* start makes a child for the request; nothing else of the callers' changes.
LEMMA ServesStep ==
  ASSUME StartupInv, Kept, NEW r \in RequestsOf, Serves(r)
  PROVE  CallersPart'
<1> DEFINE pid == Len(child) + 1
<1>1. /\ requests[r].pid = 0
      /\ child' = Append(child, "forked")
      /\ service' = Append(service, requests[r].service)
      /\ requests' = [requests EXCEPT ![r].pid = pid]
      /\ UNCHANGED <<path, managerUp, attached, peer, unpolled, waiting>>
  BY DEF Serves, NextOf, Start
<1>2. PICK s \in Services : s = requests[r].service
  BY Shapes
<1>3. /\ Len(child) \in Nat /\ Len(child') = pid
      /\ \A q \in PidOf : child'[q] = child[q]
      /\ child'[pid] = "forked"
  <2>1. "forked" \in ChildState /\ child \in Seq(ChildState)
    BY Types DEF ChildState, StartupInv, PromptInv
  <2>2. QED  BY <1>1, <2>1, AppendProperties, LenProperties DEF PidOf
<1>4. PidOf' = PidOf \cup {pid} /\ pid \notin PidOf /\ pid \in Nat /\ pid # 0
  BY <1>3 DEF PidOf
<1>5. /\ service' \in Seq(Services) /\ Len(service') = pid
      /\ \A q \in PidOf : service'[q] = service[q]
      /\ service'[pid] = s
  BY <1>1, <1>2, AppendProperties DEF StartupInv, CallersPart, ServiceInv, PidOf
<1>6. ServiceInv'
  BY <1>3, <1>5 DEF ServiceInv
<1>7. PathInv'
  <2>1. ASSUME NEW t \in Services, path'[t] # 0
        PROVE  path'[t] \in PidOf' /\ service'[path'[t]] = t
    BY <1>1, <1>4, <1>5, <2>1 DEF StartupInv, CallersPart, PathInv
  <2>2. ASSUME NEW q \in PidOf', child'[q] \in {"listening", "ready"}
        PROVE  q <= path'[service'[q]]
    BY <1>1, <1>3, <1>4, <1>5, <2>2 DEF StartupInv, CallersPart, PathInv
  <2>3. QED  BY <1>1, <2>1, <2>2 DEF StartupInv, CallersPart, PathInv
<1>8. CallersInv'
  BY <1>1, <1>4 DEF StartupInv, CallersPart, CallersInv
<1>9. RequestType \subseteq RequestType'
  BY <1>4 DEF RequestType
<1>10. /\ requests' \in Seq(RequestType') /\ Len(requests') = Len(requests)
       /\ \A k \in RequestsOf \ {r} : requests'[k] = requests[k]
       /\ requests'[r] = [requests[r] EXCEPT !.pid = pid]
  <2>1. PICK e : e = [requests[r] EXCEPT !.pid = pid]
    OBVIOUS
  <2>2. e \in RequestType'
    BY <1>4, <2>1, Shapes DEF RequestType
  <2>3. requests' = [requests EXCEPT ![r] = e]
    BY <1>1, <2>1
  <2>4. requests \in Seq(RequestType') /\ r \in 1 .. Len(requests)
    BY <1>9, SeqMonotonic DEF StartupInv, CallersPart, RequestsInv, RequestsOf
  <2>5. /\ requests' \in Seq(RequestType') /\ Len(requests') = Len(requests)
        /\ \A k \in 1 .. Len(requests) : requests'[k] = IF k = r THEN e ELSE requests[k]
    BY <2>2, <2>3, <2>4, ExceptSeq
  <2>6. QED  BY <2>1, <2>4, <2>5 DEF RequestsOf
<1>11. RequestsOf' = RequestsOf /\ DOMAIN requests' = RequestsOf
  BY <1>10, LenProperties DEF RequestsOf
<1>12. /\ requests'[r].pid = pid /\ requests'[r].service = s
       /\ requests'[r].from = requests[r].from /\ requests'[r].result = requests[r].result
  BY <1>2, <1>10, Shapes DEF RequestType
<1>13. \A k \in RequestsOf :
         /\ requests'[k].from = requests[k].from /\ requests'[k].service = requests[k].service
         /\ requests'[k].result = requests[k].result
         /\ requests[k].pid # 0 => requests'[k].pid = requests[k].pid
  BY <1>1, <1>2, <1>10, <1>12
<1>14. RequestsKept
  BY <1>10, <1>11, <1>13 DEF RequestsKept
<1>15. RequestsInv'
  <2>1. ASSUME NEW k \in RequestsOf, requests'[k].pid # 0
        PROVE  service'[requests'[k].pid] = requests'[k].service
    <3>1. CASE k = r
      BY <1>5, <1>12, <3>1
    <3>2. CASE k # r
      <4>1. requests'[k] = requests[k] /\ requests[k].pid \in PidOf
        BY <1>10, <2>1, <3>2, Shapes
      <4>2. QED  BY <1>5, <2>1, <4>1 DEF StartupInv, CallersPart, RequestsInv
    <3>3. QED  BY <3>1, <3>2
  <2>2. ASSUME NEW q \in PidOf' PROVE \E k \in RequestsOf : requests'[k].pid = q
    <3>1. CASE q = pid
      BY <1>12, <3>1
    <3>2. CASE q \in PidOf
      <4>1. PICK k \in RequestsOf : requests[k].pid = q
        BY <3>2 DEF StartupInv, CallersPart, RequestsInv
      <4>2. requests[k].pid # 0
        BY <3>2, <4>1 DEF PidOf
      <4>3. QED  BY <1>13, <4>1, <4>2
    <3>3. QED  BY <1>4, <3>1, <3>2
  <2>3. QED  BY <1>10, <1>11, <2>1, <2>2 DEF RequestsInv
<1>16. WaitingInv'
  <2>1. ASSUME NEW q \in Callers PROVE Nested(q, waiting[q], requests', unpolled)
    <3>1. Nested(q, waiting[q], requests, unpolled)
      BY DEF StartupInv, CallersPart, WaitingInv
    <3>2. ASSUME NEW i \in 1 .. Len(waiting[q])
          PROVE  /\ requests'[waiting[q][i]].from = requests[waiting[q][i]].from
                 /\ requests'[waiting[q][i]].service = requests[waiting[q][i]].service
                 /\ requests'[waiting[q][i]].result = requests[waiting[q][i]].result
                 /\ <<q, requests[waiting[q][i]].service>> \in unpolled
      BY <1>13, <3>1, Shapes DEF Nested, Awaits
    <3>3. QED  BY <3>1, <3>2, NestedKept
  <2>2. QED  BY <1>1, <1>11, <2>1 DEF StartupInv, CallersPart, WaitingInv
<1>17. StuckForCause'
  BY <1>1, <1>14, StuckKept
<1>18. QED  BY <1>6, <1>7, <1>8, <1>15, <1>16, <1>17 DEF CallersPart

\* Only the newest child is still on its way, so no living one takes a path over
\* from a younger one.
LEMMA UnlinksStep ==
  ASSUME StartupInv, Kept, NEW pid \in PidOf, Unlinks(pid)
  PROVE  CallersPart'
<1>1. /\ child[pid] = "forked" /\ path' = [path EXCEPT ![service[pid]] = pid]
      /\ UNCHANGED <<child, service, managerUp, attached, peer, unpolled, requests, waiting>>
  BY DEF Unlinks, vars
<1>2. PidOf' = PidOf
  BY <1>1 DEF PidOf
<1>3. PICK s \in Services : s = service[pid]
  BY Shapes
<1>4. pid = Len(child) /\ Len(child) \in Nat /\ pid # 0
  BY <1>1, Shapes DEF StartupInv, AwaitedIsNewest, PromptInv, BootingIsAwaited, PidOf
<1>5. /\ path' \in [Services -> Nat] /\ path'[s] = pid
      /\ \A t \in Services \ {s} : path'[t] = path[t]
  BY <1>1, <1>3, <1>4 DEF StartupInv, CallersPart, PathInv
<1>6. ASSUME NEW t \in Services, path'[t] # 0
      PROVE  path'[t] \in PidOf /\ service[path'[t]] = t
  <2>1. CASE t = s
    BY <1>3, <1>5, <2>1
  <2>2. CASE t # s
    BY <1>5, <1>6, <2>2 DEF StartupInv, CallersPart, PathInv
  <2>3. QED  BY <2>1, <2>2
<1>7. ASSUME NEW q \in PidOf, child[q] \in {"listening", "ready"}
      PROVE  q <= path'[service[q]]
  <2>1. CASE service[q] = s
    BY <1>4, <1>5, <2>1 DEF PidOf
  <2>2. CASE service[q] # s
    <3>1. service[q] \in Services
      BY Shapes
    <3>2. QED  BY <1>5, <1>7, <2>2, <3>1 DEF StartupInv, CallersPart, PathInv
  <2>3. QED  BY <2>1, <2>2
<1>8. PathInv'
  BY <1>1, <1>2, <1>5, <1>6, <1>7 DEF PathInv
<1>9. CallersInv'
  BY <1>1, <1>2 DEF StartupInv, CallersPart, CallersInv
<1>10. QED  BY <1>1, <1>8, <1>9, QuietStep

\* A step of the children or the manager in which only the owner of a path begins
\* to listen.
LEMMA ChildrenStep ==
  ASSUME StartupInv, Kept, Len(child') = Len(child), UNCHANGED startupVars,
         \A q \in PidOf : child'[q] \in {"listening", "ready"} =>
           child[q] \in {"listening", "ready"} \/ path[service[q]] = q
  PROVE  CallersPart'
<1>1. UNCHANGED <<service, path, managerUp, attached, peer, unpolled, requests, waiting>>
  BY DEF startupVars
<1>2. PidOf' = PidOf
  BY DEF PidOf
<1>3. ASSUME NEW q \in PidOf, child'[q] \in {"listening", "ready"}
      PROVE  q <= path[service[q]]
  <2>1. CASE path[service[q]] = q
    BY <2>1 DEF PidOf
  <2>2. CASE child[q] \in {"listening", "ready"}
    BY <2>2 DEF StartupInv, CallersPart, PathInv
  <2>3. QED  BY <1>3, <2>1, <2>2
<1>4. PathInv'
  BY <1>1, <1>2, <1>3 DEF StartupInv, CallersPart, PathInv
<1>5. CallersInv'
  BY <1>1, <1>2 DEF StartupInv, CallersPart, CallersInv
<1>6. QED  BY <1>1, <1>4, <1>5, QuietStep

LEMMA ListensStep ==
  ASSUME StartupInv, Kept, NEW pid \in PidOf, Listens(pid)
  PROVE  CallersPart'
<1>1. /\ path[service[pid]] = pid /\ UNCHANGED startupVars
      /\ child' = [child EXCEPT ![pid] = "listening"] /\ "listening" \in ChildState
  BY DEF Listens, Listen, ChildState
<1>2. Len(child') = Len(child) /\ \A q \in PidOf \ {pid} : child'[q] = child[q]
  BY <1>1, ChildChanges DEF StartupInv, PromptInv
<1>3. QED  BY <1>1, <1>2, ChildrenStep

LEMMA ManagerStepStep == ASSUME StartupInv, Kept, ManagerStep PROVE CallersPart'
<1>1. UNCHANGED startupVars /\ DOMAIN child = PidOf /\ TypeOK
  BY Shapes DEF ManagerStep, StartupInv, PromptInv, Pid
<1>2. ASSUME NEW pid \in PidOf, NEW state \in ChildState,
             child' = [child EXCEPT ![pid] = state],
             state = "ready" => child[pid] = "listening", state # "listening"
      PROVE  CallersPart'
  <2>1. /\ Len(child') = Len(child) /\ child'[pid] = state
        /\ \A q \in PidOf \ {pid} : child'[q] = child[q]
    BY <1>1, <1>2, ChildChanges
  <2>2. QED  BY <1>1, <1>2, <2>1, ChildrenStep
<1>3. ASSUME NEW pid \in PidOf, NotifyParent(pid) PROVE CallersPart'
  <2>1. child[pid] = "listening" /\ child' = [child EXCEPT ![pid] = "ready"]
    BY <1>3 DEF NotifyParent
  <2>2. QED  BY <1>2, <2>1 DEF ChildState
<1>4. ASSUME NEW pid \in PidOf, Die(pid) PROVE CallersPart'
  <2>1. child' = [child EXCEPT ![pid] = "dead"]
    BY <1>4 DEF Die
  <2>2. QED  BY <1>2, <2>1 DEF ChildState
<1>5. CASE OnSigUSR2 \/ OnSigChld \/ ReadStarted \/ ReadStopped
  <2>1. child' = child
    BY <1>5 DEF OnSigUSR2, OnSigChld, ReadStarted, ReadStopped, Reads
  <2>2. QED  BY <1>1, <2>1, ChildrenStep
<1>6. QED  BY <1>1, <1>3, <1>4, <1>5 DEF ManagerStep

------------------------------------------------------------------------------
\* The theorems

LEMMA StartupInvInit == StartupInit => StartupInv
  BY ManagerInit, CallersPartInit DEF StartupInv

LEMMA StartupInvStep == ASSUME StartupInv, [StartupNext]_allVars PROVE StartupInv'
<1>1. [Next]_vars
  BY StepOfManager DEF allVars
<1>2. PromptInv' /\ AwaitedIsNewest' /\ FailedIsDead' /\ Kept
  BY <1>1, ManagerKept, StartupAssumption DEF StartupInv
<1>3. DOMAIN child = PidOf /\ DOMAIN requests = RequestsOf
  BY Shapes DEF Pid
<1>4. CASE UNCHANGED allVars
  <2>1. Len(child') = Len(child) /\ UNCHANGED startupVars /\ child' = child
    BY <1>4 DEF allVars, vars
  <2>2. QED  BY <1>2, <2>1, ChildrenStep DEF StartupInv
<1>5. ASSUME NEW p \in Callers, NEW s \in Services,
             ConnectsAtOnce(p, s) \/ AsksManager(p, s) \/ CannotAsk(p, s) \/ PeerHangup(p, s)
      PROVE  CallersPart'
  BY <1>2, <1>5, ConnectsAtOnceStep, AsksManagerStep, CannotAskStep, PeerHangupStep
<1>6. ASSUME NEW p \in Callers, ConnectsStarted(p) \/ ConnectThrows(p) \/ StartTimesOut(p)
      PROVE  CallersPart'
  BY <1>2, <1>6, ConnectsStartedStep, ConnectThrowsStep, StartTimesOutStep
<1>7. ASSUME ManagerListens PROVE CallersPart'
  BY <1>2, <1>7, ManagerListensStep
<1>8. ASSUME NEW r \in RequestsOf, Serves(r) PROVE CallersPart'
  BY <1>2, <1>8, ServesStep
<1>9. ASSUME NEW pid \in PidOf, Unlinks(pid) \/ Listens(pid) PROVE CallersPart'
  BY <1>2, <1>9, UnlinksStep, ListensStep
<1>10. ASSUME ManagerStep PROVE CallersPart'
  BY <1>2, <1>10, ManagerStepStep
<1>11. CASE StartupNext
  BY <1>2, <1>3, <1>5, <1>6, <1>7, <1>8, <1>9, <1>10, <1>11 DEF StartupNext, StartupInv
<1>12. QED  BY <1>4, <1>11

\* Every variable keeps its type, and a process waits for its own unanswered
\* requests, innermost last and each for another service.
THEOREM StartupTypeCorrect == StartupSpec => []StartupTypeOK
<1>1. StartupInv => StartupTypeOK
  <2> SUFFICES ASSUME StartupInv PROVE StartupTypeOK
    OBVIOUS
  <2>1. ServiceInv /\ PathInv /\ CallersInv /\ RequestsInv /\ WaitingInv
    BY DEF StartupInv, CallersPart
  <2>2. /\ Pid = PidOf /\ DOMAIN requests = RequestsOf
        /\ \A p \in Callers : DOMAIN waiting[p] = 1 .. Len(waiting[p])
    BY Shapes
  <2>3. ASSUME NEW p \in Callers, NEW i \in DOMAIN waiting[p]
        PROVE  LET r == requests[waiting[p][i]]
               IN  /\ r.from = p /\ r.result = "none"
                   /\ <<p, r.service>> \in unpolled
                   /\ \A j \in DOMAIN waiting[p] : i < j =>
                       /\ waiting[p][i] < waiting[p][j]
                       /\ requests[waiting[p][j]].service # r.service
    <3>1. Nested(p, waiting[p], requests, unpolled) /\ i \in 1 .. Len(waiting[p])
      BY <2>1, <2>2 DEF WaitingInv
    <3>2. Awaits(p, waiting[p][i], requests, unpolled)
      BY <3>1 DEF Nested
    <3>3. \A j \in DOMAIN waiting[p] : i < j =>
            /\ waiting[p][i] < waiting[p][j]
            /\ requests[waiting[p][j]].service # requests[waiting[p][i]].service
      BY <2>2, <3>1 DEF Nested
    <3>4. QED  BY <3>2, <3>3 DEF Awaits
  <2>4. requests \in Seq([from : Callers, service : Services, pid : {0} \cup Pid,
                          result : {"none", "connected", "thrown", "timed out"}])
    BY <2>1, <2>2 DEF RequestsInv, RequestType, Results
  <2>5. QED
    BY <2>1, <2>2, <2>3, <2>4
    DEF StartupTypeOK, ServiceInv, PathInv, CallersInv, RequestsInv, WaitingInv
<1>2. QED  BY <1>1, StartupInvInit, StartupInvStep, PTL DEF StartupSpec

\* A service that start reported and that lives can be connected to, unless a later
\* instance of it has taken its path.
THEOREM StartedIsReachableInvariant == StartupSpec => []StartedIsReachable
<1>1. StartupInv => StartedIsReachable
  <2> SUFFICES ASSUME StartupInv, NEW pid \in PidOf,
                      outcome[pid] = "started", child[pid] # "dead",
                      \A later \in PidOf : later > pid => service[later] # service[pid]
               PROVE  Reachable(service[pid]) /\ path[service[pid]] = pid
    BY Shapes DEF StartedIsReachable
  <2>1. child[pid] = "ready"
    BY DEF StartupInv, PromptInv, StartedIsUp
  <2>2. PICK s \in Services : s = service[pid]
    BY Shapes
  <2>3. pid <= path[s] /\ path[s] \in Nat /\ pid \in Nat /\ pid # 0
    BY <2>1, <2>2, Shapes DEF StartupInv, CallersPart, PathInv, PidOf
  <2>4. path[s] \in PidOf /\ service[path[s]] = s
    BY <2>3 DEF StartupInv, CallersPart, PathInv
  <2>5. path[s] = pid
    BY <2>2, <2>3, <2>4
  <2>6. QED  BY <2>1, <2>2, <2>3, <2>5 DEF Reachable
<1>2. QED  BY <1>1, StartupInvInit, StartupInvStep, PTL DEF StartupSpec

\* A connection gets stuck only where the manager was not there, the wait timed out,
\* the child died, or the service was started once more.
THEOREM StuckForCauseInvariant == StartupSpec => []StuckForCause
<1>1. StartupInv => StuckForCause
  BY DEF StartupInv, CallersPart
<1>2. QED  BY <1>1, StartupInvInit, StartupInvStep, PTL DEF StartupSpec

------------------------------------------------------------------------------
\* How often a caller asks

Asked(p, s) == {r \in DOMAIN requests : requests[r].from = p /\ requests[r].service = s}
Dead(s) == {pid \in PidOf : service[pid] = s /\ child[pid] = "dead"}

\* A Send goes into Connect only after the child at the other end has died.
Held(p, s) == <<p, s>> \in unpolled \/ (peer[p][s] # 0 /\ child[peer[p][s]] # "dead")

PeerInv ==
  \A p \in Callers, s \in Services :
    peer[p][s] # 0 => peer[p][s] \in PidOf /\ service[peer[p][s]] = s

\* One request for each death, and one more while the connection is held.
AskedOnce(p, s) ==
  Cardinality(Asked(p, s)) <= Cardinality(Dead(s)) + (IF Held(p, s) THEN 1 ELSE 0)

AskedInv == StartupInv /\ PeerInv /\ \A p \in Callers, s \in Services : AskedOnce(p, s)

ServiceKept == \A pid \in PidOf : service'[pid] = service[pid]

\* What a step may do to a connection: nothing, connect it to a living child, or
\* take a dead one from it.
MovesOn(p, s) ==
  \/ peer'[p][s] = peer[p][s] /\ (<<p, s>> \in unpolled => <<p, s>> \in unpolled')
  \/ peer'[p][s] # 0 /\ child'[peer'[p][s]] # "dead"
  \/ peer[p][s] # 0 /\ child[peer[p][s]] = "dead" /\ unpolled' = unpolled

LEMMA AskedFinite ==
  ASSUME StartupInv, NEW p \in Callers, NEW s \in Services
  PROVE  /\ IsFiniteSet(Asked(p, s)) /\ Cardinality(Asked(p, s)) \in Nat
         /\ IsFiniteSet(Dead(s)) /\ Cardinality(Dead(s)) \in Nat
<1>1. /\ DOMAIN requests = 1 .. Len(requests) /\ Len(requests) \in Nat
      /\ PidOf = 1 .. Len(child) /\ Len(child) \in Nat
  BY Shapes DEF RequestsOf, PidOf
<1>2. IsFiniteSet(DOMAIN requests) /\ IsFiniteSet(PidOf)
  BY <1>1, FS_Interval
<1>3. Asked(p, s) \in SUBSET DOMAIN requests /\ Dead(s) \in SUBSET PidOf
  BY DEF Asked, Dead
<1>4. IsFiniteSet(Asked(p, s)) /\ IsFiniteSet(Dead(s))
  BY <1>2, <1>3, FS_Subset
<1>5. QED  BY <1>4, FS_CardinalityType

LEMMA DeadFiniteNext ==
  ASSUME TypeOK', NEW s \in Services
  PROVE  IsFiniteSet(Dead(s)') /\ Cardinality(Dead(s)') \in Nat
<1>1. Len(child') \in Nat
  BY LenProperties DEF TypeOK
<1>2. IsFiniteSet(PidOf')
  BY <1>1, FS_Interval DEF PidOf
<1>3. Dead(s)' \in SUBSET PidOf'
  BY DEF Dead
<1>4. IsFiniteSet(Dead(s)')
  BY <1>2, <1>3, FS_Subset
<1>5. QED  BY <1>4, FS_CardinalityType

LEMMA DeadKept ==
  ASSUME Kept, ServiceKept, NEW s \in Services
  PROVE  Dead(s) \subseteq Dead(s)'
  BY DEF Kept, ServiceKept, Dead

\* The connection is still held, or one more child has died.
LEMMA HeldKept ==
  ASSUME Kept, ServiceKept, PeerInv, NEW p \in Callers, NEW s \in Services,
         MovesOn(p, s), Held(p, s)
  PROVE  Held(p, s)' \/ Dead(s)' # Dead(s)
<1>1. CASE peer'[p][s] # 0 /\ child'[peer'[p][s]] # "dead"
  BY <1>1 DEF Held
<1>2. CASE peer[p][s] # 0 /\ child[peer[p][s]] = "dead" /\ unpolled' = unpolled
  BY <1>2 DEF Held
<1>3. CASE /\ peer'[p][s] = peer[p][s]
           /\ <<p, s>> \in unpolled => <<p, s>> \in unpolled'
  <2>1. CASE <<p, s>> \in unpolled
    BY <1>3, <2>1 DEF Held
  <2>2. CASE peer[p][s] # 0 /\ child[peer[p][s]] # "dead" /\ child'[peer[p][s]] = "dead"
    <3>1. peer[p][s] \in PidOf /\ service[peer[p][s]] = s
      BY <2>2 DEF PeerInv
    <3>2. peer[p][s] \in Dead(s)' /\ peer[p][s] \notin Dead(s)
      BY <2>2, <3>1 DEF Dead, Kept, ServiceKept
    <3>3. QED  BY <3>2
  <2>3. CASE peer[p][s] # 0 /\ child'[peer[p][s]] # "dead"
    BY <1>3, <2>3 DEF Held
  <2>4. QED  BY <2>1, <2>2, <2>3 DEF Held
<1>4. QED  BY <1>1, <1>2, <1>3 DEF MovesOn

LEMMA AskedKept ==
  ASSUME StartupInv, TypeOK', Kept, ServiceKept, PeerInv,
         NEW p \in Callers, NEW s \in Services, MovesOn(p, s),
         Asked(p, s)' = Asked(p, s), AskedOnce(p, s)
  PROVE  AskedOnce(p, s)'
<1> DEFINE n == Cardinality(Asked(p, s))
           d == Cardinality(Dead(s))
           e == Cardinality(Dead(s)')
<1>1. n \in Nat /\ d \in Nat /\ e \in Nat /\ IsFiniteSet(Dead(s)')
  BY AskedFinite, DeadFiniteNext
<1>2. d <= e /\ (Dead(s)' # Dead(s) => d < e)
  <2>1. Dead(s) \in SUBSET Dead(s)'
    BY DeadKept
  <2>2. d <= e /\ (e = d => Dead(s)' = Dead(s))
    BY <1>1, <2>1, FS_Subset
  <2>3. QED  BY <1>1, <2>2
<1>3. n <= d + (IF Held(p, s) THEN 1 ELSE 0)
  BY DEF AskedOnce
<1>4. Held(p, s) => Held(p, s)' \/ Dead(s)' # Dead(s)
  BY HeldKept
<1>5. Cardinality(Asked(p, s)') = n
  OBVIOUS
<1> HIDE DEF n, d, e
<1>6. n <= e + (IF Held(p, s)' THEN 1 ELSE 0)
  BY <1>1, <1>2, <1>3, <1>4
<1>7. QED  BY <1>5, <1>6 DEF AskedOnce, n, e

\* The request that is new: no child held the connection.
LEMMA AskedOnceMore ==
  ASSUME StartupInv, TypeOK', Kept, ServiceKept,
         NEW p \in Callers, NEW s \in Services, NEW x,
         ~Held(p, s), Held(p, s)', Asked(p, s)' = Asked(p, s) \cup {x}, AskedOnce(p, s)
  PROVE  AskedOnce(p, s)'
<1>1. /\ Cardinality(Asked(p, s)) \in Nat /\ IsFiniteSet(Asked(p, s))
      /\ Cardinality(Dead(s)) \in Nat /\ Cardinality(Dead(s)') \in Nat /\ IsFiniteSet(Dead(s)')
  BY AskedFinite, DeadFiniteNext
<1>2. Cardinality(Dead(s)) <= Cardinality(Dead(s)')
  <2>1. Dead(s) \in SUBSET Dead(s)'
    BY DeadKept
  <2>2. QED  BY <1>1, <2>1, FS_Subset
<1>3. /\ IsFiniteSet(Asked(p, s)')
      /\ Cardinality(Asked(p, s)') <= Cardinality(Asked(p, s)) + 1
  <2>1. /\ IsFiniteSet(Asked(p, s) \cup {x})
        /\ Cardinality(Asked(p, s) \cup {x}) =
             IF x \in Asked(p, s) THEN Cardinality(Asked(p, s)) ELSE Cardinality(Asked(p, s)) + 1
    BY <1>1, FS_AddElement
  <2>2. QED  BY <1>1, <2>1
<1>4. Cardinality(Asked(p, s)') \in Nat
  BY <1>3, FS_CardinalityType
<1>5. Cardinality(Asked(p, s)) <= Cardinality(Dead(s))
  BY <1>1 DEF AskedOnce
<1>6. Cardinality(Asked(p, s)') <= Cardinality(Dead(s)') + 1
  BY <1>1, <1>2, <1>3, <1>4, <1>5
<1>7. QED  BY <1>6 DEF AskedOnce

LEMMA ConnectionsMove ==
  ASSUME StartupInv, [StartupNext]_allVars, NEW p \in Callers, NEW s \in Services
  PROVE  MovesOn(p, s)
<1>1. /\ peer \in [Callers -> [Services -> {0} \cup PidOf]]
      /\ DOMAIN child = PidOf /\ DOMAIN requests = RequestsOf
  BY Shapes DEF StartupInv, CallersPart, CallersInv, Pid
<1>2. ASSUME NEW q \in Callers, NEW t \in Services, ConnectsAtOnce(q, t) PROVE MovesOn(p, s)
  <2>1. /\ peer' = [peer EXCEPT ![q][t] = path[t]] /\ unpolled' = unpolled /\ child' = child
        /\ path[t] # 0 /\ child[path[t]] # "dead"
    BY <1>2 DEF ConnectsAtOnce, Reachable, vars
  <2>2. QED  BY <1>1, <2>1 DEF MovesOn
<1>3. ASSUME NEW q \in Callers, NEW t \in Services, AsksManager(q, t) \/ CannotAsk(q, t)
      PROVE  MovesOn(p, s)
  BY <1>3 DEF AsksManager, CannotAsk, MovesOn
<1>4. ASSUME NEW q \in Callers, NEW t \in Services, PeerHangup(q, t) PROVE MovesOn(p, s)
  <2>1. /\ peer' = [peer EXCEPT ![q][t] = 0] /\ unpolled' = unpolled
        /\ peer[q][t] # 0 /\ child[peer[q][t]] = "dead"
    BY <1>4 DEF PeerHangup
  <2>2. QED  BY <1>1, <2>1 DEF MovesOn
<1>5. ASSUME NEW q \in Callers, ConnectsStarted(q) PROVE MovesOn(p, s)
  <2>1. PICK t \in Services : t = requests[Inner(q)].service
    BY <1>5, InnerFacts, Shapes DEF ConnectsStarted
  <2>2. /\ peer' = [peer EXCEPT ![q][t] = path[t]] /\ child' = child
        /\ path[t] # 0 /\ child[path[t]] # "dead" /\ unpolled' = unpolled \ {<<q, t>>}
    BY <1>5, <2>1 DEF ConnectsStarted, EndsWait, Reachable, vars
  <2>3. CASE p = q /\ s = t
    BY <1>1, <2>2, <2>3 DEF MovesOn
  <2>4. CASE ~(p = q /\ s = t)
    <3>1. <<p, s>> # <<q, t>>
      BY <2>4
    <3>2. peer'[p][s] = peer[p][s]
      BY <1>1, <2>2, <2>4
    <3>3. QED  BY <2>2, <3>1, <3>2 DEF MovesOn
  <2>5. QED  BY <2>3, <2>4
<1>6. ASSUME NEW q \in Callers, ConnectThrows(q) \/ StartTimesOut(q) PROVE MovesOn(p, s)
  BY <1>6 DEF ConnectThrows, StartTimesOut, EndsWait, MovesOn
<1>7. CASE ManagerListens
  BY <1>7 DEF ManagerListens, MovesOn
<1>8. ASSUME NEW r \in RequestsOf, Serves(r) PROVE MovesOn(p, s)
  BY <1>8 DEF Serves, MovesOn
<1>9. ASSUME NEW pid \in PidOf, Unlinks(pid) \/ Listens(pid) PROVE MovesOn(p, s)
  BY <1>9 DEF Unlinks, Listens, startupVars, MovesOn
<1>10. CASE ManagerStep \/ UNCHANGED allVars
  BY <1>10 DEF ManagerStep, startupVars, allVars, MovesOn
<1>11. QED
  BY <1>1, <1>2, <1>3, <1>4, <1>5, <1>6, <1>7, <1>8, <1>9, <1>10 DEF StartupNext

LEMMA ServicesStay ==
  ASSUME StartupInv, [StartupNext]_allVars
  PROVE  ServiceKept
<1>1. DOMAIN requests = RequestsOf
  BY Shapes
<1>2. ASSUME NEW r \in RequestsOf, Serves(r) PROVE ServiceKept
  <2>1. service' = Append(service, requests[r].service) /\ requests[r].service \in Services
    BY <1>2, Shapes DEF Serves
  <2>2. QED
    BY <2>1, AppendProperties DEF StartupInv, CallersPart, ServiceInv, ServiceKept, PidOf
<1>3. CASE service' = service
  BY <1>3 DEF ServiceKept
<1>4. QED
  BY <1>1, <1>2, <1>3
  DEF StartupNext, ConnectsAtOnce, AsksManager, CannotAsk, PeerHangup, ConnectsStarted,
      ConnectThrows, StartTimesOut, ManagerListens, Unlinks, Listens, ManagerStep,
      startupVars, allVars

\* Only AsksManager makes a request.
LEMMA AskedChanges ==
  ASSUME StartupInv, [StartupNext]_allVars, NEW p \in Callers, NEW s \in Services
  PROVE  \/ Asked(p, s)' = Asked(p, s)
         \/ /\ AsksManager(p, s)
            /\ Asked(p, s)' = Asked(p, s) \cup {Len(requests) + 1}
<1>1. DOMAIN requests = RequestsOf /\ \A r \in RequestsOf : requests[r] \in RequestType
  BY Shapes
<1>2. ASSUME NEW q \in Callers, NEW t \in Services, AsksManager(q, t)
      PROVE  \/ Asked(p, s)' = Asked(p, s)
             \/ /\ AsksManager(p, s)
                /\ Asked(p, s)' = Asked(p, s) \cup {Len(requests) + 1}
  <2>1. PICK e : e = [from |-> q, service |-> t, pid |-> 0, result |-> "none"]
    OBVIOUS
  <2>2. e \in RequestType /\ e.from = q /\ e.service = t
    BY <2>1 DEF RequestType, Results
  <2>3. requests' = Append(requests, e) /\ requests \in Seq(RequestType)
    BY <1>2, <2>1 DEF AsksManager, StartupInv, CallersPart, RequestsInv
  <2>4. /\ Len(requests') = Len(requests) + 1 /\ requests'[Len(requests) + 1] = e
        /\ \A r \in 1 .. Len(requests) : requests'[r] = requests[r]
        /\ DOMAIN requests' = 1 .. Len(requests')
        /\ DOMAIN requests = 1 .. Len(requests) /\ Len(requests) \in Nat
    BY <2>2, <2>3, AppendProperties, LenProperties
  <2>5. DOMAIN requests' = DOMAIN requests \cup {Len(requests) + 1}
    BY <2>4
  <2>6. CASE p = q /\ s = t
    BY <1>2, <2>2, <2>4, <2>5, <2>6 DEF Asked
  <2>7. CASE ~(p = q /\ s = t)
    BY <2>2, <2>4, <2>5, <2>7 DEF Asked
  <2>8. QED  BY <2>6, <2>7
<1>3. ASSUME NEW q \in Callers, ConnectsStarted(q) \/ ConnectThrows(q) \/ StartTimesOut(q)
      PROVE  Asked(p, s)' = Asked(p, s)
  <2>1. PICK result : requests' = [requests EXCEPT ![Inner(q)].result = result]
    BY <1>3 DEF ConnectsStarted, ConnectThrows, StartTimesOut, EndsWait
  <2>2. DOMAIN requests' = DOMAIN requests
    BY <2>1
  <2>3. \A r \in RequestsOf :
          requests'[r].from = requests[r].from /\ requests'[r].service = requests[r].service
    BY <1>1, <2>1 DEF RequestType
  <2>4. QED  BY <1>1, <2>2, <2>3 DEF Asked
<1>4. ASSUME NEW k \in RequestsOf, Serves(k)
      PROVE  Asked(p, s)' = Asked(p, s)
  <2>1. requests' = [requests EXCEPT ![k].pid = Len(child) + 1]
    BY <1>4 DEF Serves
  <2>2. DOMAIN requests' = DOMAIN requests
    BY <2>1
  <2>3. \A r \in RequestsOf :
          requests'[r].from = requests[r].from /\ requests'[r].service = requests[r].service
    BY <1>1, <2>1 DEF RequestType
  <2>4. QED  BY <1>1, <2>2, <2>3 DEF Asked
<1>5. CASE requests' = requests
  BY <1>5 DEF Asked
<1>6. QED
  BY <1>1, <1>2, <1>3, <1>4, <1>5
  DEF StartupNext, ConnectsAtOnce, CannotAsk, PeerHangup,
      ManagerListens, Unlinks, Listens, ManagerStep, startupVars, allVars

LEMMA PeersStep ==
  ASSUME StartupInv, PeerInv, Kept, ServiceKept, [StartupNext]_allVars
  PROVE  PeerInv'
<1> SUFFICES ASSUME NEW p \in Callers, NEW s \in Services, peer'[p][s] # 0
             PROVE  peer'[p][s] \in PidOf' /\ service'[peer'[p][s]] = s
  BY DEF PeerInv
<1>1. /\ peer \in [Callers -> [Services -> {0} \cup PidOf]]
      /\ DOMAIN child = PidOf /\ DOMAIN requests = RequestsOf
      /\ \A t \in Services : path[t] # 0 => path[t] \in PidOf /\ service[path[t]] = t
  BY Shapes DEF StartupInv, CallersPart, CallersInv, PathInv, Pid
<1>2. peer'[p][s] = peer[p][s] \/ peer'[p][s] = path[s] \/ peer'[p][s] = 0
  <2>1. ASSUME NEW q \in Callers, NEW t \in Services, ConnectsAtOnce(q, t) \/ PeerHangup(q, t)
        PROVE  peer'[p][s] = peer[p][s] \/ peer'[p][s] = path[s] \/ peer'[p][s] = 0
    BY <1>1, <2>1 DEF ConnectsAtOnce, PeerHangup
  <2>2. ASSUME NEW q \in Callers, ConnectsStarted(q)
        PROVE  peer'[p][s] = peer[p][s] \/ peer'[p][s] = path[s] \/ peer'[p][s] = 0
    <3>1. PICK t \in Services : t = requests[Inner(q)].service
      BY <2>2, InnerFacts, Shapes DEF ConnectsStarted
    <3>2. peer' = [peer EXCEPT ![q][t] = path[t]]
      BY <2>2, <3>1 DEF ConnectsStarted
    <3>3. QED  BY <1>1, <3>2
  <2>3. CASE peer' = peer
    BY <2>3
  <2>4. QED
    BY <2>1, <2>2, <2>3
    DEF StartupNext, AsksManager, CannotAsk, ConnectThrows, StartTimesOut,
        ManagerListens, Serves, Unlinks, Listens, ManagerStep, startupVars, allVars
<1>3. peer'[p][s] \in PidOf /\ service[peer'[p][s]] = s
  BY <1>1, <1>2 DEF PeerInv
<1>4. QED  BY <1>3 DEF Kept, ServiceKept

LEMMA AskedInvInit == StartupInit => AskedInv
<1> SUFFICES ASSUME StartupInit PROVE AskedInv
  OBVIOUS
<1>1. StartupInv
  BY StartupInvInit
<1>2. PeerInv
  BY DEF StartupInit, PeerInv
<1>3. ASSUME NEW p \in Callers, NEW s \in Services PROVE AskedOnce(p, s)
  <2>1. Asked(p, s) = {}
    BY DEF StartupInit, Asked
  <2>2. Cardinality(Asked(p, s)) = 0 /\ Cardinality(Dead(s)) \in Nat
    BY <1>1, <2>1, AskedFinite, FS_EmptySet
  <2>3. QED  BY <2>2 DEF AskedOnce
<1>4. QED  BY <1>1, <1>2, <1>3 DEF AskedInv

LEMMA AskedInvStep == ASSUME AskedInv, [StartupNext]_allVars PROVE AskedInv'
<1>1. StartupInv /\ PeerInv
  BY DEF AskedInv
<1>2. StartupInv' /\ TypeOK'
  BY <1>1, StartupInvStep DEF StartupInv, PromptInv
<1>3. Kept /\ ServiceKept
  <2>1. [Next]_vars
    BY StepOfManager DEF allVars
  <2>2. QED  BY <1>1, <2>1, ManagerKept, ServicesStay, StartupAssumption DEF StartupInv
<1>4. PeerInv'
  BY <1>1, <1>3, PeersStep
<1>5. ASSUME NEW p \in Callers, NEW s \in Services PROVE AskedOnce(p, s)'
  <2>1. AskedOnce(p, s) /\ MovesOn(p, s)
    BY <1>1, ConnectionsMove DEF AskedInv
  <2>2. CASE Asked(p, s)' = Asked(p, s)
    BY <1>1, <1>2, <1>3, <2>1, <2>2, AskedKept
  <2>3. CASE AsksManager(p, s) /\ Asked(p, s)' = Asked(p, s) \cup {Len(requests) + 1}
    <3>1. ~Held(p, s) /\ Held(p, s)'
      BY <2>3 DEF AsksManager, Connecting, Held
    <3>2. QED  BY <1>1, <1>2, <1>3, <2>1, <2>3, <3>1, AskedOnceMore
  <2>4. QED  BY <1>1, <2>2, <2>3, AskedChanges
<1>6. QED  BY <1>2, <1>4, <1>5 DEF AskedInv

\* A caller has a service started once, and once more for each instance that died,
\* however its Sends nest, fail and time out.
THEOREM StartsPerDeathInvariant == StartupSpec => []StartsPerDeath
<1>1. AskedInv => StartsPerDeath
  <2> SUFFICES ASSUME AskedInv, NEW p \in Callers, NEW s \in Services
               PROVE  Cardinality(Asked(p, s)) <= 1 + Cardinality(Dead(s))
    BY Shapes DEF StartsPerDeath, Asked, Dead, AskedInv
  <2>1. StartupInv /\ AskedOnce(p, s)
    BY DEF AskedInv
  <2>2. Cardinality(Asked(p, s)) \in Nat /\ Cardinality(Dead(s)) \in Nat
    BY <2>1, AskedFinite
  <2>3. QED  BY <2>1, <2>2 DEF AskedOnce
<1>2. QED  BY <1>1, AskedInvInit, AskedInvStep, PTL DEF StartupSpec

==============================================================================
