------------------------------- MODULE Session -------------------------------
(***************************************************************************)
(* Processes on the bus and their pbus::Session objects: connections,       *)
(* request tables, and the call stack of the one thread each process has.   *)
(*                                                                          *)
(* A handler that calls another service waits by polling, so event handlers *)
(* nest: a stack holds waits ("wait") and the input loops of connections    *)
(* ("loop").  Messages are whole here, bytes are LocalBusConnection's       *)
(* subject; a connection still has its _readTask, because a message being   *)
(* dispatched stays in it.  Every service has a listening socket; how       *)
(* services get started is not modelled here.                               *)
(***************************************************************************)
EXTENDS Naturals, Sequences

CONSTANTS
  Clients,      \* processes whose main makes calls and polls only to wait
  Services,     \* processes in Application::Run
  Peers,        \* Peers[p]: the processes that p's code calls
  Image,        \* Image[p]: a process run from the same executable as p; others
                \* know p by the name of that file, whoever else goes by it
  Mortal,       \* processes that may end at any time
  Timeouts,     \* processes whose waits may time out
  MaxCalls,     \* bound: calls in a behaviour
  Releasing,    \* processes that destroy proxies
  MaxReleases,  \* bound: proxies destroyed
  MaxCrashes    \* bound: processes that end

Process == Clients \cup Services

ASSUME ProcessAssumption ==
  /\ Clients \cap Services = {}
  /\ Peers \in [Process -> SUBSET Process]
  /\ Image \in [Process -> Process]
  /\ \A p, q \in Process : q \in Peers[p] => {x \in Process : Image[x] = q} = {q}
  /\ \A p \in Process : p \notin Peers[p]
  /\ Mortal \subseteq Process
  /\ Timeouts \subseteq Process /\ Releasing \subseteq Process
  /\ MaxCalls \in Nat /\ MaxReleases \in Nat /\ MaxCrashes \in Nat

VARIABLES
  connections,  \* _connections: connections[p][q] is p's object for the name q
  sockets,      \* every stream socket ever connected
  requests,     \* _requests: requests[p][q][serial] is a response parser
  stack,        \* stack[p]: innermost frame last
  broken,       \* processes that destroyed a connection whose loop is on the stack
  calls,        \* history of calls: [from, to, runs, run, answer]
  releases,     \* history: proxies destroyed
  crashes       \* history: processes that ended

vars == <<connections, sockets, requests, stack, broken, calls, releases, crashes>>

------------------------------------------------------------------------------
\* A message names the call it is about.  An answer carries the serial of the
\* request as the answering end counted it.  "number" is the serial the sending
\* end gave the message itself; it does not travel and only properties use it.
Message(type, serial, call) == [type |-> type, serial |-> serial, call |-> call]
Numbered(m, n) == [type |-> m.type, serial |-> m.serial, call |-> m.call, number |-> n]
Request == {"invoke", "release"}
Outcome == {"result", "exception"}

NewConnection ==
  [socket |-> 0, writeQueue |-> << >>, writeSerial |-> 0, readSerial |-> 0, readTask |-> << >>]

NewSocket(p, q) ==
  [from |-> p, to |-> q, accepted |-> FALSE, orphan |-> FALSE, up |-> TRUE,
   wire |-> [x \in Process |-> << >>]]

Closed(socket) == [socket EXCEPT !.up = FALSE, !.wire = [x \in Process |-> << >>]]

\* A response parser: what it was told, and which call that was about.
Unanswered == [outcome |-> "none", of |-> 0]

\* Mutant: Wait is given the serial the connection has after the send.
WaitFrameNextSerial(q, serial, call) ==
  [kind |-> "wait", peer |-> q, serial |-> serial + 1, call |-> call]

WaitFrame(q, serial, call) == [kind |-> "wait", peer |-> q, serial |-> serial, call |-> call]
LoopFrame(q, rest, serving) == [kind |-> "loop", peer |-> q, rest |-> rest, serving |-> serving]

------------------------------------------------------------------------------
Init ==
  /\ connections = [p \in Process |-> [q \in Process |-> NewConnection]]
  /\ sockets = << >>
  /\ requests = [p \in Process |-> [q \in Process |-> << >>]]
  /\ stack = [p \in Process |-> << >>]
  /\ broken = {}
  /\ calls = << >>
  /\ releases = 0
  /\ crashes = 0

Idle(p) == stack[p] = << >>
Top(p) == stack[p][Len(stack[p])]
Below(p) == SubSeq(stack[p], 1, Len(stack[p]) - 1)

Push(p, frame) == stack' = [stack EXCEPT ![p] = Append(@, frame)]
Pop(p) == stack' = [stack EXCEPT ![p] = Below(p)]
SetTop(p, frame) == stack' = [stack EXCEPT ![p][Len(stack[p])] = frame]

Waiting(p) == ~Idle(p) /\ Top(p).kind = "wait"
Looping(p) == ~Idle(p) /\ Top(p).kind = "loop"
Serving(p) == Looping(p) /\ Top(p).serving # << >>

\* p is inside Poll.Wait.
Polling(p) == p \notin broken /\ IF Idle(p) THEN p \in Services ELSE Waiting(p)

\* p runs its own code: a client's main, or the method a message invoked.
Coding(p) == p \notin broken /\ IF Idle(p) THEN p \in Clients ELSE Serving(p)

\* Mutant: Send returns _writeSerial without incrementing it.
SendOnUncounted(p, q, c, m) ==
  LET s == IF c.socket = 0 THEN Len(sockets) + 1 ELSE c.socket
  IN  /\ connections' = [connections EXCEPT ![p][q] =
           [c EXCEPT !.socket = s, !.writeQueue = Append(@, Numbered(m, c.writeSerial))]]
      /\ sockets' = IF c.socket = 0 THEN Append(sockets, NewSocket(p, q)) ELSE sockets

\* Session::Send: p's connection to q, already updated to c, connects if it has
\* no socket and queues m.
SendOn(p, q, c, m) ==
  LET s == IF c.socket = 0 THEN Len(sockets) + 1 ELSE c.socket
  IN  /\ connections' = [connections EXCEPT ![p][q] =
           [c EXCEPT !.socket = s, !.writeSerial = @ + 1,
                     !.writeQueue = Append(@, Numbered(m, c.writeSerial))]]
      /\ sockets' = IF c.socket = 0 THEN Append(sockets, NewSocket(p, q)) ELSE sockets

------------------------------------------------------------------------------
\* The calling side

\* A proxy method: Invoke sends the request and registers its parser under the
\* serial that Send returned, then Wait starts to poll.
Invoke(p, q) ==
  /\ Coding(p)
  /\ q \in Peers[p]
  /\ Len(calls) < MaxCalls
  /\ LET serial == connections[p][q].writeSerial
         call   == Len(calls) + 1
     IN  /\ SendOn(p, q, connections[p][q], Message("invoke", 0, call))
         /\ requests' = [requests EXCEPT ![p][q] =
              [s \in DOMAIN @ \cup {serial} |-> IF s = serial THEN Unanswered ELSE @[s]]]
         /\ Push(p, WaitFrame(q, serial, call))
         /\ calls' = Append(calls, [from |-> p, to |-> q, runs |-> 0, run |-> "sent",
                                    answer |-> Unanswered])
  /\ UNCHANGED <<broken, releases, crashes>>

\* Session::Release, from the destructor of a proxy: a request nobody waits for.
Release(p, q) ==
  /\ Coding(p)
  /\ q \in Peers[p]
  /\ p \in Releasing /\ releases < MaxReleases
  /\ releases' = releases + 1
  /\ SendOn(p, q, connections[p][q], Message("release", 0, 0))
  /\ UNCHANGED <<requests, stack, broken, calls, crashes>>

Awaited(p) == requests[p][Top(p).peer][Top(p).serial]

\* WaitResponse finds its parser finished after a poll.
WaitReturns(p) ==
  /\ Waiting(p) /\ p \notin broken
  /\ Awaited(p).outcome \in Outcome
  /\ calls' = [calls EXCEPT ![Top(p).call].answer = Awaited(p)]
  /\ Pop(p)
  /\ UNCHANGED <<connections, sockets, requests, broken, releases, crashes>>

\* A poll saw no event for fifteen seconds; the parser stays in the table.
WaitTimesOut(p) ==
  /\ p \in Timeouts
  /\ Waiting(p) /\ p \notin broken
  /\ Awaited(p) = Unanswered
  /\ calls' = [calls EXCEPT ![Top(p).call].answer =
                 [outcome |-> "timeout", of |-> Top(p).call]]
  /\ Pop(p)
  /\ UNCHANGED <<connections, sockets, requests, broken, releases, crashes>>

------------------------------------------------------------------------------
\* Socket events

HasSocket(p, q) == connections[p][q].socket # 0
SocketOf(p, q) == sockets[connections[p][q].socket]
OtherEnd(p, q) == IF SocketOf(p, q).from = p THEN SocketOf(p, q).to ELSE SocketOf(p, q).from

\* Mutant: a message that was written is not taken off the queue.
OutputUnpopped(p, q) ==
  /\ Polling(p)
  /\ HasSocket(p, q) /\ SocketOf(p, q).up
  /\ connections[p][q].writeQueue # << >>
  /\ sockets' = [sockets EXCEPT ![connections[p][q].socket].wire[OtherEnd(p, q)] =
                   Append(@, Head(connections[p][q].writeQueue))]
  /\ UNCHANGED <<connections, requests, stack, broken, calls, releases, crashes>>

\* The output branch of HandleSocketEvent.
Output(p, q) ==
  /\ Polling(p)
  /\ HasSocket(p, q) /\ SocketOf(p, q).up
  /\ connections[p][q].writeQueue # << >>
  /\ sockets' = [sockets EXCEPT ![connections[p][q].socket].wire[OtherEnd(p, q)] =
                   Append(@, Head(connections[p][q].writeQueue))]
  /\ connections' = [connections EXCEPT ![p][q].writeQueue = Tail(@)]
  /\ UNCHANGED <<requests, stack, broken, calls, releases, crashes>>

\* The input branch reads all there is and starts to loop over it.
Input(p, q) ==
  /\ Polling(p)
  /\ HasSocket(p, q) /\ SocketOf(p, q).up
  /\ SocketOf(p, q).wire[p] # << >>
  /\ Push(p, LoopFrame(q, SocketOf(p, q).wire[p], << >>))
  /\ sockets' = [sockets EXCEPT ![connections[p][q].socket].wire[p] = << >>]
  /\ UNCHANGED <<connections, requests, broken, calls, releases, crashes>>

\* The hangup branch: the socket goes, the connection object stays as it is.
Hangup(p, q) ==
  /\ Polling(p)
  /\ HasSocket(p, q) /\ ~SocketOf(p, q).up
  /\ connections' = [connections EXCEPT ![p][q].socket = 0]
  /\ UNCHANGED <<sockets, requests, stack, broken, calls, releases, crashes>>

\* The listening socket hands out connections in the order they were made.
Backlog(p) == {n \in DOMAIN sockets : sockets[n].to = p /\ ~sockets[n].accepted}
NextInBacklog(p, n) == n \in Backlog(p) /\ \A k \in Backlog(p) : n <= k

\* LocalBus::Accept and Session::AddConnection: a new object takes the place of
\* whatever p had for the connector's name, be it the connector's own former
\* connection, p's own to it, or that of another process of the same image; the
\* destructor of that one closes its socket.
Accept(p, n) ==
  /\ Polling(p)
  /\ NextInBacklog(p, n) /\ ~sockets[n].orphan
  /\ LET q   == Image[sockets[n].from]
         old == connections[p][q].socket
     IN  /\ sockets' = [s \in DOMAIN sockets |->
              CASE s = n   -> [sockets[s] EXCEPT !.accepted = TRUE]
                [] s = old -> Closed(sockets[s])
                [] OTHER   -> sockets[s]]
         /\ connections' = [connections EXCEPT ![p][q] = [NewConnection EXCEPT !.socket = n]]
         /\ broken' = IF \E i \in DOMAIN stack[p] :
                           stack[p][i].kind = "loop" /\ stack[p][i].peer = q
                        THEN broken \cup {p} ELSE broken
  /\ UNCHANGED <<requests, stack, calls, releases, crashes>>

------------------------------------------------------------------------------
\* Dispatching: one turn of p's innermost input loop.  A message that an outer
\* loop of the same connection is dispatching is still in _readTask, finished,
\* and is taken again before anything new.

Conn(p) == connections[p][Top(p).peer]
Redispatch(p) == Conn(p).readTask # << >>
Current(p) == IF Redispatch(p) THEN Conn(p).readTask[1] ELSE Head(Top(p).rest)
Rest(p) == IF Redispatch(p) THEN Top(p).rest ELSE Tail(Top(p).rest)

Turn(p, types) ==
  /\ p \notin broken
  /\ Looping(p) /\ ~Serving(p)
  /\ Top(p).rest # << >>
  /\ Current(p).type \in types

\* Mutant: only requests are counted, answers take no serial.
CountedRequests(p) ==
  [Conn(p) EXCEPT !.readSerial = IF Current(p).type \in Request THEN @ + 1 ELSE @,
                  !.readTask = << >>]

\* The connection once the message in hand is dealt with.
Counted(p) == [Conn(p) EXCEPT !.readSerial = @ + 1, !.readTask = << >>]

\* Mutant: the serial of a request is taken after it was incremented.
DispatchInvokeLateSerial(p) ==
  /\ Turn(p, {"invoke"})
  /\ LET m == Current(p)
     IN  /\ connections' = [connections EXCEPT ![p][Top(p).peer] =
              [Counted(p) EXCEPT !.readTask = <<m>>]]
         /\ SetTop(p, LoopFrame(Top(p).peer, Rest(p),
                                <<[serial |-> Conn(p).readSerial + 1, call |-> m.call]>>))
         /\ calls' = [calls EXCEPT ![m.call].run = "running", ![m.call].runs = @ + 1]
  /\ UNCHANGED <<sockets, requests, broken, releases, crashes>>

\* OnIncomingInvoke finds the object and runs the method.
DispatchInvoke(p) ==
  /\ Turn(p, {"invoke"})
  /\ LET m == Current(p)
     IN  /\ connections' = [connections EXCEPT ![p][Top(p).peer] =
              [Counted(p) EXCEPT !.readTask = <<m>>]]
         /\ SetTop(p, LoopFrame(Top(p).peer, Rest(p),
                                <<[serial |-> Conn(p).readSerial, call |-> m.call]>>))
         /\ calls' = [calls EXCEPT ![m.call].run = "running", ![m.call].runs = @ + 1]
  /\ UNCHANGED <<sockets, requests, broken, releases, crashes>>

\* OnIncomingData throws: the request type has no case, or the object or the
\* method is unknown.  ThrowException answers.
DispatchRefused(p) ==
  /\ Turn(p, Request)
  /\ LET m == Current(p)
     IN  /\ SendOn(p, Top(p).peer, Counted(p),
                   Message("exception", Conn(p).readSerial, m.call))
         /\ calls' = IF m.type = "invoke"
                       THEN [calls EXCEPT ![m.call].run = "exception"] ELSE calls
  /\ SetTop(p, LoopFrame(Top(p).peer, Rest(p), << >>))
  /\ UNCHANGED <<requests, broken, releases, crashes>>

\* Mutant: SetException finishes the parser and loses the exception.
ToldResult(parser, m) == [outcome |-> "result", of |-> m.call]

\* Parse, or SetException: an exception replaces a result, never the reverse.
Told(parser, m) ==
  IF m.type = "result" /\ parser.outcome = "exception"
    THEN parser ELSE [outcome |-> m.type, of |-> m.call]

\* OnIncomingResult and OnIncomingException: the parser registered under the
\* serial in the answer is told; without one the answer is only logged.
DispatchAnswer(p) ==
  /\ Turn(p, Outcome)
  /\ LET m     == Current(p)
         table == requests[p][Top(p).peer]
     IN  requests' = [requests EXCEPT ![p][Top(p).peer] =
           [s \in DOMAIN table |-> IF s = m.serial THEN Told(table[s], m) ELSE table[s]]]
  /\ connections' = [connections EXCEPT ![p][Top(p).peer] = Counted(p)]
  /\ SetTop(p, LoopFrame(Top(p).peer, Rest(p), << >>))
  /\ UNCHANGED <<sockets, broken, calls, releases, crashes>>

\* The invoked method ends with a result or by throwing; the answer is sent, and
\* the loop clears the read task.
MethodReturns(p, outcome) ==
  /\ p \notin broken
  /\ Serving(p)
  /\ LET served == Top(p).serving[1]
     IN  /\ SendOn(p, Top(p).peer, [Conn(p) EXCEPT !.readTask = << >>],
                   Message(outcome, served.serial, served.call))
         /\ calls' = [calls EXCEPT ![served.call].run = outcome]
  /\ SetTop(p, LoopFrame(Top(p).peer, Top(p).rest, << >>))
  /\ UNCHANGED <<requests, broken, releases, crashes>>

LoopEnds(p) ==
  /\ p \notin broken
  /\ Looping(p) /\ ~Serving(p)
  /\ Top(p).rest = << >>
  /\ Pop(p)
  /\ UNCHANGED <<connections, sockets, requests, broken, calls, releases, crashes>>

------------------------------------------------------------------------------
\* A process ends, and is started again with nothing.

\* The calls whose methods are on p's stack.
Served(p) ==
  {stack[p][i].serving[1].call :
     i \in {j \in DOMAIN stack[p] : stack[p][j].kind = "loop" /\ stack[p][j].serving # << >>}}

Ends(p) ==
  /\ connections' = [connections EXCEPT ![p] = [q \in Process |-> NewConnection]]
  /\ sockets' = [s \in DOMAIN sockets |->
       IF p \in {sockets[s].from, sockets[s].to}
         THEN [Closed(sockets[s]) EXCEPT
                 !.orphan = @ \/ (~sockets[s].accepted /\ sockets[s].from = p),
                 !.accepted = @ \/ sockets[s].to = p]
         ELSE sockets[s]]
  /\ requests' = [requests EXCEPT ![p] = [q \in Process |-> << >>]]
  /\ stack' = [stack EXCEPT ![p] = << >>]
  /\ broken' = broken \ {p}
  /\ calls' = [c \in DOMAIN calls |->
       IF c \in Served(p) THEN [calls[c] EXCEPT !.run = "lost"] ELSE calls[c]]
  /\ UNCHANGED releases

Crash(p) ==
  /\ p \in Mortal
  /\ crashes < MaxCrashes
  /\ crashes' = crashes + 1
  /\ Ends(p)

\* Accept of a socket whose connector is gone: reading the connector's image path
\* throws out of Poll.Wait.  A wait inside a handler ends with that exception,
\* anywhere else it ends the process.
AcceptOrphan(p, n) ==
  /\ Polling(p)
  /\ NextInBacklog(p, n) /\ sockets[n].orphan
  /\ UNCHANGED crashes
  /\ IF Len(stack[p]) > 1
       THEN /\ sockets' = [sockets EXCEPT ![n].accepted = TRUE]
            /\ calls' = [calls EXCEPT ![Top(p).call].answer =
                           [outcome |-> "timeout", of |-> Top(p).call]]
            /\ Pop(p)
            /\ UNCHANGED <<connections, requests, broken, releases>>
       ELSE Ends(p)

------------------------------------------------------------------------------
Next ==
  \/ \E p, q \in Process :
       Invoke(p, q) \/ Release(p, q) \/ Output(p, q) \/ Input(p, q) \/ Hangup(p, q)
  \/ \E p \in Process, n \in DOMAIN sockets : Accept(p, n) \/ AcceptOrphan(p, n)
  \/ \E p \in Process :
       \/ WaitReturns(p) \/ WaitTimesOut(p)
       \/ DispatchInvoke(p) \/ DispatchRefused(p) \/ DispatchAnswer(p)
       \/ LoopEnds(p)
       \/ Crash(p)
       \/ \E outcome \in Outcome : MethodReturns(p, outcome)

\* What a process does by itself goes on: event handlers run for ready sockets,
\* loops and methods come to their ends.  Calls, time-outs and crashes need not
\* happen.
Fairness ==
  \A p \in Process :
    /\ \A q \in Process :
         WF_vars(Output(p, q)) /\ WF_vars(Input(p, q)) /\ WF_vars(Hangup(p, q))
    /\ WF_vars(\E n \in DOMAIN sockets : Accept(p, n))
    /\ WF_vars(DispatchInvoke(p) \/ DispatchRefused(p) \/ DispatchAnswer(p))
    /\ WF_vars(\E outcome \in Outcome : MethodReturns(p, outcome))
    /\ WF_vars(LoopEnds(p))
    /\ WF_vars(WaitReturns(p))

Spec == Init /\ [][Next]_vars /\ Fairness

------------------------------------------------------------------------------
\* Properties

MessageType == [type : Request \cup Outcome, serial : Nat, call : Nat, number : Nat]
ParserType == [outcome : Outcome \cup {"none", "timeout"}, of : Nat]
ConnectionType ==
  [socket : Nat, writeQueue : Seq(MessageType), writeSerial : Nat, readSerial : Nat,
   readTask : Seq(MessageType)]
FrameType ==
  [kind : {"wait"}, peer : Process, serial : Nat, call : Nat] \cup
  [kind : {"loop"}, peer : Process, rest : Seq(MessageType),
   serving : Seq([serial : Nat, call : Nat])]
SocketType ==
  [from : Process, to : Process, accepted : BOOLEAN, orphan : BOOLEAN, up : BOOLEAN,
   wire : [Process -> Seq(MessageType)]]
CallType ==
  [from : Process, to : Process, runs : Nat, run : {"sent", "running", "lost"} \cup Outcome,
   answer : ParserType]

\* Every variable has its type, and every wait has a parser to wait for.
TypeOK ==
  /\ connections \in [Process -> [Process -> ConnectionType]]
  /\ sockets \in Seq(SocketType)
  /\ \A p, q \in Process : \A s \in DOMAIN requests[p][q] :
       s \in Nat /\ requests[p][q][s] \in ParserType
  /\ stack \in [Process -> Seq(FrameType)]
  /\ \A p \in Process : \A i \in DOMAIN stack[p] :
       stack[p][i].kind = "wait" =>
         stack[p][i].serial \in DOMAIN requests[p][stack[p][i].peer]
  /\ broken \subseteq Process
  /\ calls \in Seq(CallType)
  /\ releases \in 0 .. MaxReleases
  /\ crashes \in 0 .. MaxCrashes

\* The two ends of a connection number messages without telling each other: the
\* message a loop is about to dispatch must get the serial its sender gave it.
\* Everything that consumes a serial at one end has to consume one at the other:
\* requests, answers, refusals and releases.
SerialAgreement ==
  \A p \in Process :
    Looping(p) /\ ~Serving(p) /\ Top(p).rest # << >> =>
      Current(p).number = Conn(p).readSerial

\* A caller is told what became of its own call, never of another one, and an
\* exception is not turned into a result or a result into an exception.
OwnAnswer ==
  \A c \in DOMAIN calls :
    LET answer == calls[c].answer
    IN  answer.outcome \in Outcome => answer = [outcome |-> calls[c].run, of |-> c]

\* One invocation runs the method once, not again and again.
RunsOnce == \A c \in DOMAIN calls : calls[c].runs <= 1

\* Calls follow the abstract specification: at most one execution each, the
\* caller told that execution's outcome, and (Spec) every call answered.
ToRemoteCall == INSTANCE RemoteCall WITH
  run    <- [c \in DOMAIN calls |-> calls[c].run],
  answer <- [c \in DOMAIN calls |-> calls[c].answer]

ImplementsRemoteCall == ToRemoteCall!Spec

\* method (...) -> [result | exception] (Session.h:49), for every call made.
EveryCallAnswered ==
  \A c \in 1 .. MaxCalls :
    c \in DOMAIN calls ~> c \in DOMAIN calls /\ calls[c].answer.outcome \in Outcome

\* The same for a call whose method is running once the last crash is over: from
\* then on nothing is lost, so its caller is told.
AnsweredOnceRunning ==
  \A c \in 1 .. MaxCalls :
    c \in DOMAIN calls /\ calls[c].run = "running" /\ crashes = MaxCrashes
      ~> c \in DOMAIN calls /\ calls[c].answer.outcome \in Outcome
==============================================================================
