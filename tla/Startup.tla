------------------------------- MODULE Startup -------------------------------
(***************************************************************************)
(* How a service comes to be there when a message is sent to it: Connect,   *)
(* its fallback to the service manager, the manager, and the socket paths.  *)
(*                                                                          *)
(* LocalBusConnection::Connect tries the service's socket path.  When that  *)
(* fails it asks the manager to start the service, waits for the answer by  *)
(* polling, and tries once more.  Handlers that run in that poll may send   *)
(* too, so the waits of a process nest.  ServiceManager has the manager's   *)
(* and the children's steps; here each child gets the service it runs.      *)
(*                                                                          *)
(* A Send to a connected socket queues a frame, and a Send to a socket that *)
(* is not in the poll throws: neither changes what is modelled here.        *)
(***************************************************************************)
EXTENDS ServiceManager, FiniteSets

CONSTANTS
  Callers,      \* processes that send, each under a name of its own
  Services,     \* what they send to
  Manager,      \* the service manager's id
  MaxRequests,  \* bound: requests to start a service
  MaxNested     \* bound: Sends of a process that wait inside its others

ASSUME StartupAssumption ==
  /\ Prompt
  /\ Manager \notin Services
  /\ MaxRequests \in Nat /\ MaxNested \in Nat

VARIABLES
  service,    \* service[pid]: what child pid runs
  path,       \* path[s]: the child that last unlinked the socket path of s, 0 for none
  managerUp,  \* the manager listens at its own path
  attached,   \* callers with a connection to the manager
  peer,       \* peer[p][s]: the child p's connection to s leads to, 0 for none
  unpolled,   \* <<p, s>>: p's _socket for s was made and neither connected nor polled
  requests,   \* history: calls of start, [from, service, pid, result]
  waiting     \* waiting[p]: the requests p's thread waits for, innermost last

startupVars == <<service, path, managerUp, attached, peer, unpolled, requests, waiting>>
allVars == <<vars, startupVars>>

StartupInit ==
  /\ Init
  /\ service = << >>
  /\ path = [s \in Services |-> 0]
  /\ managerUp = FALSE
  /\ attached = {}
  /\ peer = [p \in Callers |-> [s \in Services |-> 0]]
  /\ unpolled = {}
  /\ requests = << >>
  /\ waiting = [p \in Callers |-> << >>]

------------------------------------------------------------------------------
\* Connect

\* Somebody listens at the path; a path left by a child that died, or just
\* unlinked by one that is coming up, refuses.
Reachable(s) == path[s] # 0 /\ child[path[s]] \in {"listening", "ready"}

\* A Send that goes into Connect: the connection has no _socket.
Connecting(p, s) ==
  /\ Len(waiting[p]) <= MaxNested
  /\ peer[p][s] = 0
  /\ <<p, s>> \notin unpolled

ConnectsAtOnce(p, s) ==
  /\ Connecting(p, s)
  /\ Reachable(s)
  /\ peer' = [peer EXCEPT ![p][s] = path[s]]
  /\ UNCHANGED <<vars, service, path, managerUp, attached, unpolled, requests, waiting>>

ManagerReachable(p) == p \in attached \/ (<<p, Manager>> \notin unpolled /\ managerUp)

\* The fallback calls start and begins to wait.
AsksManager(p, s) ==
  /\ Connecting(p, s)
  /\ ~Reachable(s)
  /\ ManagerReachable(p)
  /\ Len(requests) < MaxRequests
  /\ attached' = attached \cup {p}
  /\ unpolled' = unpolled \cup {<<p, s>>}
  /\ requests' = Append(requests, [from |-> p, service |-> s, pid |-> 0, result |-> "none"])
  /\ waiting' = [waiting EXCEPT ![p] = Append(@, Len(requests) + 1)]
  /\ UNCHANGED <<vars, service, path, managerUp, peer>>

\* Neither path answers: both connections keep the sockets they made.
CannotAsk(p, s) ==
  /\ Connecting(p, s)
  /\ ~Reachable(s)
  /\ ~ManagerReachable(p)
  /\ unpolled' = unpolled \cup {<<p, s>>, <<p, Manager>>}
  /\ UNCHANGED <<vars, service, path, managerUp, attached, peer, requests, waiting>>

\* Mutant: an answer ends the first wait of p's, not the innermost.
InnerFirst(p) == waiting[p][1]

Inner(p) == waiting[p][Len(waiting[p])]
Answer(r) == IF requests[r].pid = 0 THEN "none" ELSE outcome[requests[r].pid]

\* Mutant: Connect takes its socket away again when it throws.
EndsWaitReset(p, result) ==
  /\ requests' = [requests EXCEPT ![Inner(p)].result = result]
  /\ waiting' = [waiting EXCEPT ![p] = SubSeq(@, 1, Len(@) - 1)]
  /\ unpolled' = unpolled \ {<<p, requests[Inner(p)].service>>}

\* The wait of p's innermost Send ends; only a connected socket gets polled.
EndsWait(p, result) ==
  /\ requests' = [requests EXCEPT ![Inner(p)].result = result]
  /\ waiting' = [waiting EXCEPT ![p] = SubSeq(@, 1, Len(@) - 1)]
  /\ unpolled' = IF result = "connected"
                   THEN unpolled \ {<<p, requests[Inner(p)].service>>} ELSE unpolled

\* start returned, and the second try succeeds.
ConnectsStarted(p) ==
  /\ waiting[p] # << >>
  /\ Answer(Inner(p)) = "started"
  /\ LET s == requests[Inner(p)].service
     IN  /\ Reachable(s)
         /\ peer' = [peer EXCEPT ![p][s] = path[s]]
  /\ EndsWait(p, "connected")
  /\ UNCHANGED <<vars, service, path, managerUp, attached>>

\* Mutant: Connect throws after a start without trying again.
ConnectThrowsUntried(p) ==
  /\ waiting[p] # << >>
  /\ Answer(Inner(p)) # "none"
  /\ EndsWait(p, "thrown")
  /\ UNCHANGED <<vars, service, path, managerUp, attached, peer>>

\* start threw, or the second try fails as well: Connect throws.
ConnectThrows(p) ==
  /\ waiting[p] # << >>
  /\ Answer(Inner(p)) # "none"
  /\ Answer(Inner(p)) = "started" => ~Reachable(requests[Inner(p)].service)
  /\ EndsWait(p, "thrown")
  /\ UNCHANGED <<vars, service, path, managerUp, attached, peer>>

\* WaitResponse gives up; the manager still has the request.
StartTimesOut(p) ==
  /\ waiting[p] # << >>
  /\ Answer(Inner(p)) = "none"
  /\ EndsWait(p, "timed out")
  /\ UNCHANGED <<vars, service, path, managerUp, attached, peer>>

\* The hangup branch, when the service at the other end has died.
PeerHangup(p, s) ==
  /\ peer[p][s] # 0 /\ child[peer[p][s]] = "dead"
  /\ peer' = [peer EXCEPT ![p][s] = 0]
  /\ UNCHANGED <<vars, service, path, managerUp, attached, unpolled, requests, waiting>>

------------------------------------------------------------------------------
\* The manager and the children

ManagerListens ==
  /\ ~managerUp
  /\ managerUp' = TRUE
  /\ UNCHANGED <<vars, service, path, attached, peer, unpolled, requests, waiting>>

\* Requests of one caller come over one connection, in order.
NextOf(r) ==
  /\ requests[r].pid = 0
  /\ \A k \in 1 .. r - 1 : requests[k].from = requests[r].from => requests[k].pid # 0

\* Mutant: the manager takes the next request while it waits for a child.
ServesAtOnce(r) ==
  /\ NextOf(r)
  /\ Len(child) < MaxStarts
  /\ child' = Append(child, "forked")
  /\ outcome' = Append(outcome, "none")
  /\ starting' = Len(child) + 1
  /\ service' = Append(service, requests[r].service)
  /\ requests' = [requests EXCEPT ![r].pid = Len(child) + 1]
  /\ UNCHANGED <<signals, pipe, deaths, path, managerUp, attached, peer, unpolled, waiting>>

\* start, for whoever asked, and whether or not the service is there already.
Serves(r) ==
  /\ NextOf(r)
  /\ Start
  /\ service' = Append(service, requests[r].service)
  /\ requests' = [requests EXCEPT ![r].pid = Len(child) + 1]
  /\ UNCHANGED <<path, managerUp, attached, peer, unpolled, waiting>>

\* LocalBus::LocalBus removes the path, whoever listens there ...
Unlinks(pid) ==
  /\ child[pid] = "forked"
  /\ path[service[pid]] # pid
  /\ path' = [path EXCEPT ![service[pid]] = pid]
  /\ UNCHANGED <<vars, service, managerUp, attached, peer, unpolled, requests, waiting>>

\* Mutant: a path that is there already is not unlinked.
ListensAtLeftover(pid) ==
  /\ Listen(pid)
  /\ UNCHANGED startupVars

\* ... and listens at a new one.
Listens(pid) ==
  /\ path[service[pid]] = pid
  /\ Listen(pid)
  /\ UNCHANGED startupVars

\* The steps ServiceManager has, as they are there.
ManagerStep ==
  /\ \/ \E pid \in DOMAIN child : NotifyParent(pid) \/ Die(pid)
     \/ OnSigUSR2 \/ OnSigChld
     \/ ReadStarted \/ ReadStopped
  /\ UNCHANGED startupVars

------------------------------------------------------------------------------
StartupNext ==
  \/ \E p \in Callers, s \in Services :
       ConnectsAtOnce(p, s) \/ AsksManager(p, s) \/ CannotAsk(p, s) \/ PeerHangup(p, s)
  \/ \E p \in Callers : ConnectsStarted(p) \/ ConnectThrows(p) \/ StartTimesOut(p)
  \/ ManagerListens
  \/ \E r \in DOMAIN requests : Serves(r)
  \/ \E pid \in DOMAIN child : Unlinks(pid) \/ Listens(pid)
  \/ ManagerStep

\* ServiceManager's fairness, with Unlinks before Listen; the manager goes on to
\* the next request, and a caller that waits takes its answer.
StartupFairness ==
  /\ \A pid \in 1 .. MaxStarts :
       WF_allVars(pid \in DOMAIN child
                  /\ (Unlinks(pid) \/ Listens(pid) \/ (NotifyParent(pid) /\ UNCHANGED startupVars)))
  /\ WF_allVars(OnSigUSR2 /\ UNCHANGED startupVars)
  /\ WF_allVars(OnSigChld /\ UNCHANGED startupVars)
  /\ WF_allVars((ReadStarted \/ ReadStopped) /\ UNCHANGED startupVars)
  /\ WF_allVars(\E r \in DOMAIN requests : Serves(r))
  /\ \A p \in Callers : WF_allVars(ConnectsStarted(p) \/ ConnectThrows(p))

StartupSpec == StartupInit /\ [][StartupNext]_allVars /\ StartupFairness

------------------------------------------------------------------------------
\* Properties

\* Every variable has its type, and a process waits for its own unanswered
\* requests, in the order it made them, each for another service and on a socket
\* that is not polled.
StartupTypeOK ==
  /\ service \in Seq(Services) /\ Len(service) = Len(child)
  /\ path \in [Services -> Nat]
  /\ \A s \in Services : path[s] # 0 => path[s] \in Pid /\ service[path[s]] = s
  /\ managerUp \in BOOLEAN
  /\ attached \subseteq Callers
  /\ peer \in [Callers -> [Services -> {0} \cup Pid]]
  /\ unpolled \subseteq Callers \X (Services \cup {Manager})
  /\ requests \in Seq([from : Callers, service : Services, pid : {0} \cup Pid,
                       result : {"none", "connected", "thrown", "timed out"}])
  /\ \A r \in DOMAIN requests :
       requests[r].pid # 0 => service[requests[r].pid] = requests[r].service
  /\ waiting \in [Callers -> Seq(DOMAIN requests)]
  /\ \A p \in Callers : \A i \in DOMAIN waiting[p] :
       LET r == requests[waiting[p][i]]
       IN  /\ r.from = p /\ r.result = "none"
           /\ <<p, r.service>> \in unpolled
           /\ \A j \in DOMAIN waiting[p] : i < j =>
               /\ waiting[p][i] < waiting[p][j]
               /\ requests[waiting[p][j]].service # r.service

\* A service that start reported and that lives can be connected to, unless the
\* manager has started the same service again since: the later instance takes the
\* path away from the earlier one, which goes on where nobody can reach it.
StartedIsReachable ==
  \A pid \in Pid :
    /\ outcome[pid] = "started" /\ child[pid] # "dead"
    /\ \A later \in Pid : later > pid => service[later] # service[pid]
    => Reachable(service[pid]) /\ path[service[pid]] = pid

\* A connection stuck with a socket that is in no poll, so that every further
\* Send throws.
Stuck(p, s) ==
  /\ <<p, s>> \in unpolled
  /\ \A i \in DOMAIN waiting[p] : requests[waiting[p][i]].service # s

\* What can make p's connection to s stuck: the manager was not there, p's wait
\* timed out, the child died, or another request had the service started again.
Cause(p, s) ==
  \/ <<p, Manager>> \in unpolled
  \/ \E r \in DOMAIN requests :
       /\ requests[r].from = p /\ requests[r].service = s
       /\ \/ requests[r].result = "timed out"
          \/ /\ requests[r].pid # 0
             /\ \/ child[requests[r].pid] = "dead"
                \/ \E k \in DOMAIN requests :
                     requests[k].service = s /\ requests[k].pid > requests[r].pid

\* A connection gets stuck for such a cause only: with the manager up, patient
\* callers, services that live and no two requests for one of them, every Send
\* that has a service started gets through to it.
StuckForCause ==
  \A p \in Callers, s \in Services : Stuck(p, s) => Cause(p, s)

\* A caller has a service started once, and once more for each instance that
\* died: neither a failure nor a nested Send makes it ask again.
StartsPerDeath ==
  \A p \in Callers, s \in Services :
    Cardinality({r \in DOMAIN requests : requests[r].from = p /\ requests[r].service = s})
      <= 1 + Cardinality({pid \in Pid : service[pid] = s /\ child[pid] = "dead"})

\* Every Send that waits for a start ends, connected or with an exception.
SendEnds ==
  \A r \in 1 .. MaxRequests :
    r \in DOMAIN requests ~> r \in DOMAIN requests /\ requests[r].result # "none"

\* With callers and paths around them, the manager and its children still take
\* ServiceManager's steps only; StartReturns is the liveness it promises.
ImplementsManager == Init /\ [][Next]_vars
==============================================================================
