----------------------------- MODULE CallProofs ------------------------------
(***************************************************************************)
(* What a caller is told, for every network of clients and services that    *)
(* call nobody themselves: any number of processes, calls, releases,        *)
(* crashes, time-outs, and any images.                                      *)
(***************************************************************************)
EXTENDS SessionProofs

\* Services call nobody, so that a method ends before its process polls again.
LeafServices ==
  /\ \A p \in Clients : Peers[p] \subseteq Services
  /\ \A q \in Services : Peers[q] = {}

\* A client waits, and perhaps handles answers while it waits; a service handles
\* requests of one connection at a time.
ClientStack(p) ==
  /\ Len(stack[p]) <= 2
  /\ Len(stack[p]) > 0 => stack[p][1].kind = "wait" /\ stack[p][1].peer \in Services
  /\ Len(stack[p]) = 2 =>
       /\ stack[p][2].kind = "loop" /\ stack[p][2].peer \in Services
       /\ stack[p][2].serving = << >>

ServiceStack(q) ==
  /\ Len(stack[q]) <= 1
  /\ Len(stack[q]) = 1 =>
       /\ stack[q][1].kind = "loop" /\ connections[q][stack[q][1].peer].socket # 0

StackShape == (\A p \in Clients : ClientStack(p)) /\ (\A q \in Services : ServiceStack(q))

\* Only clients connect.  A socket that is up is the one its ends use, and one
\* that is closed is empty.
SocketOK(n) ==
  /\ sockets[n].from \in Clients /\ sockets[n].to \in Services
  /\ sockets[n].up => connections[sockets[n].from][sockets[n].to].socket = n
  /\ sockets[n].up /\ sockets[n].accepted =>
       connections[sockets[n].to][Image[sockets[n].from]].socket = n
  /\ ~sockets[n].up => \A x \in Process : sockets[n].wire[x] = << >>
  /\ ~sockets[n].accepted => sockets[n].wire[sockets[n].from] = << >>
SocketsInv == \A n \in DOMAIN sockets : SocketOK(n)

ClientEnd(p, q) == HasSocket(p, q) => SocketOf(p, q).from = p /\ SocketOf(p, q).to = q
ServiceEnd(q, i) ==
  HasSocket(q, i) =>
    SocketOf(q, i).to = q /\ Image[SocketOf(q, i).from] = i /\ SocketOf(q, i).accepted
EndsInv ==
  /\ \A p \in Clients, q \in Process : ClientEnd(p, q)
  /\ \A q \in Services, i \in Process : ServiceEnd(q, i)

\* The method that q's loop runs, if any.
InService(q) == Len(stack[q]) = 1 /\ stack[q][1].serving # << >>

\* Only the message of a running method stays in a read task.
TasksInv ==
  /\ \A p \in Clients, q \in Process : connections[p][q].readTask = << >>
  /\ \A q \in Services, i \in Process :
       connections[q][i].readTask # << >> => InService(q) /\ stack[q][1].peer = i

Structure == broken = {} /\ StackShape /\ SocketsInv /\ EndsInv /\ TasksInv

------------------------------------------------------------------------------
\* Who does what

LEMMA Small == \A n \in Nat \ {0} : (n <= 1 => n = 1) /\ (n <= 2 => n = 1 \/ n = 2)
  OBVIOUS

LEMMA Kinds ==
  /\ \A p \in Process : p \in Clients \/ p \in Services
  /\ \A p \in Clients : p \in Process /\ p \notin Services
  /\ \A q \in Services : q \in Process /\ q \notin Clients
  /\ \A p \in Process : Image[p] \in Process
  BY ProcessAssumption DEF Process

LEMMA CodingIs ==
  ASSUME LeafServices, TypeInv, Structure, NEW p \in Process, NEW q \in Peers[p], Coding(p)
  PROVE  p \in Clients /\ q \in Services /\ Len(stack[p]) = 0 /\ Idle(p)
<1>1. p \in Clients /\ q \in Services
  BY Kinds DEF LeafServices
<1>2. ~Serving(p)
  <2> SUFFICES ASSUME Serving(p) PROVE FALSE
    OBVIOUS
  <2>1. ~Idle(p) /\ Len(stack[p]) \in Nat \ {0} /\ Top(p).kind = "loop" /\ Top(p).serving # << >>
    BY StackIs DEF Serving, Looping
  <2>2. ClientStack(p)
    BY <1>1 DEF Structure, StackShape
  <2>3. Len(stack[p]) = 1 \/ Len(stack[p]) = 2
    BY <2>1, <2>2, Small DEF ClientStack
  <2>4. QED  BY <2>1, <2>2, <2>3 DEF ClientStack, Top
<1>3. Idle(p)
  BY <1>2 DEF Coding
<1>4. QED  BY <1>1, <1>3, StackIs

LEMMA PollingIs ==
  ASSUME TypeInv, Structure, NEW p \in Process, Polling(p)
  PROVE  /\ p \in Clients => Len(stack[p]) = 1 /\ ~Idle(p) /\ Waiting(p)
         /\ p \in Services => Len(stack[p]) = 0 /\ Idle(p)
<1>1. CASE Idle(p)
  BY <1>1, StackIs, Kinds DEF Polling
<1>2. CASE ~Idle(p)
  <2>1. Waiting(p) /\ Len(stack[p]) \in Nat \ {0} /\ Top(p).kind = "wait"
    BY <1>2, StackIs DEF Polling, Waiting
  <2>2. p \notin Services
    <3>1. p \in Services => ServiceStack(p)
      BY DEF Structure, StackShape
    <3>2. ServiceStack(p) => Len(stack[p]) = 1
      BY <2>1, Small DEF ServiceStack
    <3>3. QED  BY <2>1, <3>1, <3>2 DEF ServiceStack, Top
  <2>3. p \in Clients => ClientStack(p)
    BY DEF Structure, StackShape
  <2>4. ClientStack(p) => Len(stack[p]) = 1
    <3>1. ClientStack(p) => Len(stack[p]) = 1 \/ Len(stack[p]) = 2
      BY <2>1, Small DEF ClientStack
    <3>2. QED  BY <2>1, <3>1 DEF ClientStack, Top
  <2>5. QED  BY <1>2, <2>1, <2>2, <2>3, <2>4
<1>3. QED  BY <1>1, <1>2

LEMMA WaitingIs ==
  ASSUME TypeInv, Structure, NEW p \in Process, Waiting(p)
  PROVE  /\ p \in Clients /\ Len(stack[p]) = 1 /\ Top(p) = stack[p][1] /\ ~Idle(p)
         /\ Top(p).peer \in Services /\ Top(p).kind = "wait"
<1>1. Polling(p)
  BY DEF Structure, Polling, Waiting
<1>2. p \in Clients /\ Len(stack[p]) = 1 /\ ~Idle(p) /\ Top(p) = stack[p][1]
  BY <1>1, PollingIs, Kinds DEF Waiting, Top
<1>3. ClientStack(p)
  BY <1>2 DEF Structure, StackShape
<1>4. QED  BY <1>2, <1>3 DEF ClientStack, Waiting

LEMMA LoopingIs ==
  ASSUME TypeInv, Structure, NEW p \in Process, Looping(p)
  PROVE  /\ ~Idle(p) /\ Top(p).kind = "loop" /\ Top(p).peer \in Process
         /\ p \in Clients => /\ Len(stack[p]) = 2 /\ Top(p) = stack[p][2]
                             /\ Top(p).peer \in Services /\ ~Serving(p)
         /\ p \in Services => /\ Len(stack[p]) = 1 /\ Top(p) = stack[p][1]
                              /\ connections[p][Top(p).peer].socket # 0
                              /\ Serving(p) <=> InService(p)
<1>1. ~Idle(p) /\ Len(stack[p]) \in Nat \ {0} /\ Top(p).kind = "loop" /\ Top(p).peer \in Process
  BY StackIs, TopIs DEF Looping
<1>2. ASSUME p \in Clients
      PROVE  /\ Len(stack[p]) = 2 /\ Top(p) = stack[p][2]
             /\ Top(p).peer \in Services /\ ~Serving(p)
  <2>1. ClientStack(p)
    BY <1>2 DEF Structure, StackShape
  <2>2. Len(stack[p]) = 1 \/ Len(stack[p]) = 2
    BY <1>1, <2>1, Small DEF ClientStack
  <2>3. Len(stack[p]) = 2
    BY <1>1, <2>1, <2>2 DEF ClientStack, Top
  <2>4. QED  BY <2>1, <2>3 DEF ClientStack, Top, Serving
<1>3. ASSUME p \in Services
      PROVE  /\ Len(stack[p]) = 1 /\ Top(p) = stack[p][1]
             /\ connections[p][Top(p).peer].socket # 0
             /\ Serving(p) <=> InService(p)
  <2>1. ServiceStack(p)
    BY <1>3 DEF Structure, StackShape
  <2>2. Len(stack[p]) = 1
    BY <1>1, <2>1, Small DEF ServiceStack
  <2>3. QED  BY <2>1, <2>2 DEF ServiceStack, Top, Serving, InService
<1>4. QED  BY <1>1, <1>2, <1>3

\* A loop takes up its messages in order, each one once.
LEMMA TurnIs ==
  ASSUME TypeInv, Structure, NEW p \in Process, NEW types, Turn(p, types)
  PROVE  /\ Looping(p) /\ ~Redispatch(p) /\ Top(p).rest # << >>
         /\ Top(p).rest \in Seq(MessageType)
         /\ Current(p) = Head(Top(p).rest) /\ Rest(p) = Tail(Top(p).rest)
<1>1. /\ Looping(p) /\ ~Serving(p) /\ Top(p).rest # << >> /\ Top(p).peer \in Process
      /\ Top(p).rest \in Seq(MessageType)
  BY TopIs DEF Turn, Looping
<1>2. Conn(p).readTask = << >>
  <2>1. p \in Clients \/ p \in Services
    BY Kinds
  <2>2. p \in Clients => Conn(p).readTask = << >>
    BY <1>1 DEF Structure, TasksInv, Conn
  <2>3. p \in Services => ~InService(p)
    BY <1>1, LoopingIs
  <2>4. p \in Services => Conn(p).readTask = << >>
    BY <1>1, <2>3 DEF Structure, TasksInv, Conn
  <2>5. QED  BY <2>1, <2>2, <2>4
<1>3. QED  BY <1>1, <1>2 DEF Redispatch, Current, Rest

------------------------------------------------------------------------------
\* The structure is kept

LEMMA SocketsSame ==
  ASSUME Structure, sockets' = sockets,
         \A r, x \in Process : connections'[r][x].socket = connections[r][x].socket
  PROVE  SocketsInv' /\ EndsInv'
<1>1. ASSUME NEW n \in DOMAIN sockets PROVE SocketOK(n)'
  <2>1. SocketOK(n)
    BY DEF Structure, SocketsInv
  <2>2. /\ sockets[n].from \in Process /\ sockets[n].to \in Process
        /\ Image[sockets[n].from] \in Process
    BY <2>1, Kinds DEF SocketOK
  <2>3. QED  BY <2>1, <2>2 DEF SocketOK
<1>2. ASSUME NEW p \in Clients, NEW q \in Process PROVE ClientEnd(p, q)'
  BY Kinds DEF Structure, EndsInv, ClientEnd, HasSocket, SocketOf
<1>3. ASSUME NEW q \in Services, NEW i \in Process PROVE ServiceEnd(q, i)'
  BY Kinds DEF Structure, EndsInv, ServiceEnd, HasSocket, SocketOf
<1>4. QED  BY <1>1, <1>2, <1>3 DEF SocketsInv, EndsInv

\* A client's request over its own connection, perhaps a new socket.
LEMMA ClientSends ==
  ASSUME TypeInv, Structure, NEW p \in Clients, NEW q \in Services,
         NEW type \in Request, NEW call \in Nat,
         SendOn(p, q, connections[p][q], Message(type, 0, call))
  PROVE  /\ SocketsInv' /\ EndsInv'
         /\ \A x \in Process : connections'[p][x].readTask = connections[p][x].readTask
<1> PICK c \in ConnectionType : c = connections[p][q]
  BY Kinds, ConnectionIs
<1>1. /\ p \in Process /\ q \in Process /\ p # q /\ type \in Request \cup Outcome
      /\ SendOn(p, q, c, Message(type, 0, call)) /\ c.socket = connections[p][q].socket
  BY Kinds
<1>2. /\ c.socket # 0 => sockets' = sockets /\ connections'[p][q].socket = c.socket
      /\ c.socket = 0 => /\ Len(sockets') = Len(sockets) + 1
                         /\ sockets'[Len(sockets) + 1] = NewSocket(p, q)
                         /\ connections'[p][q].socket = Len(sockets) + 1
      /\ \A n \in DOMAIN sockets : n \in DOMAIN sockets' /\ sockets'[n] = sockets[n]
      /\ connections'[p][q].readTask = c.readTask
      /\ \A r, x \in Process : <<r, x>> # <<p, q>> => connections'[r][x] = connections[r][x]
      /\ sockets' \in Seq(SocketType)
  BY <1>1, Sent
<1>3. \A x \in Process : connections'[p][x].readTask = connections[p][x].readTask
  BY <1>1, <1>2
<1>4. CASE c.socket # 0
  <2>1. ASSUME NEW r \in Process, NEW x \in Process
        PROVE  connections'[r][x].socket = connections[r][x].socket
    BY <1>2, <1>4
  <2>2. QED  BY <1>2, <1>3, <1>4, <2>1, SocketsSame
<1>5. CASE c.socket = 0
  <2> PICK k \in Nat : k = Len(sockets) + 1 /\ DOMAIN sockets = 1 .. Len(sockets)
                       /\ Len(sockets) \in Nat
    BY LenProperties DEF TypeInv
  <2>1. /\ DOMAIN sockets' = DOMAIN sockets \cup {k} /\ sockets'[k] = NewSocket(p, q)
        /\ connections'[p][q].socket = k /\ k # 0
    <3>1. DOMAIN sockets' = 1 .. Len(sockets')
      BY <1>2, LenProperties
    <3>2. QED  BY <1>2, <1>5, <3>1
  <2>2. /\ sockets'[k].from = p /\ sockets'[k].to = q /\ ~sockets'[k].accepted
        /\ sockets'[k].up /\ \A x \in Process : sockets'[k].wire[x] = << >>
    BY <2>1 DEF NewSocket
  <2>3. ASSUME NEW n \in DOMAIN sockets' PROVE SocketOK(n)'
    <3>1. CASE n = k
      <4>1. sockets'[n].wire[p] = << >>
        BY <1>1, <2>2, <3>1
      <4>2. QED  BY <2>1, <2>2, <3>1, <4>1 DEF SocketOK
    <3>2. CASE n \in DOMAIN sockets
      <4>1. SocketOK(n) /\ sockets'[n] = sockets[n]
        BY <1>2, <3>2 DEF Structure, SocketsInv
      <4>2. /\ sockets[n].from \in Process /\ sockets[n].to \in Process
            /\ sockets[n].to # p /\ Image[sockets[n].from] \in Process
        BY <4>1, Kinds DEF SocketOK
      <4>3. n # 0
        BY <3>2
      <4>4. sockets[n].up => <<sockets[n].from, sockets[n].to>> # <<p, q>>
        BY <1>5, <4>1, <4>3 DEF SocketOK
      <4>5. QED  BY <1>2, <4>1, <4>2, <4>4 DEF SocketOK
    <3>3. QED  BY <2>1, <2>3, <3>1, <3>2
  <2>4. ASSUME NEW r \in Clients, NEW x \in Process PROVE ClientEnd(r, x)'
    <3>1. CASE <<r, x>> = <<p, q>>
      BY <2>1, <2>2, <3>1 DEF ClientEnd, HasSocket, SocketOf
    <3>2. CASE <<r, x>> # <<p, q>>
      <4>1. ClientEnd(r, x) /\ r \in Process
        BY Kinds DEF Structure, EndsInv
      <4>2. connections[r][x].socket # 0 => connections[r][x].socket \in DOMAIN sockets
        BY <4>1, ConnectionIs
      <4>3. QED  BY <1>2, <3>2, <4>1, <4>2 DEF ClientEnd, HasSocket, SocketOf
    <3>3. QED  BY <3>1, <3>2
  <2>5. ASSUME NEW r \in Services, NEW x \in Process PROVE ServiceEnd(r, x)'
    <3>1. ServiceEnd(r, x) /\ r \in Process /\ r # p
      BY Kinds DEF Structure, EndsInv
    <3>2. connections[r][x].socket # 0 => connections[r][x].socket \in DOMAIN sockets
      BY <3>1, ConnectionIs
    <3>3. QED  BY <1>2, <3>1, <3>2 DEF ServiceEnd, HasSocket, SocketOf
  <2>6. QED  BY <1>3, <2>3, <2>4, <2>5 DEF SocketsInv, EndsInv
<1>6. QED  BY <1>4, <1>5

\* Services whose frames and sockets stay keep their shape and tasks.
LEMMA ServicesSame ==
  ASSUME Structure,
         \A q \in Services : stack'[q] = stack[q] /\ connections'[q] = connections[q]
  PROVE  /\ \A q \in Services : ServiceStack(q)'
         /\ \A q \in Services, i \in Process :
              connections'[q][i].readTask # << >> => InService(q)' /\ stack'[q][1].peer = i
  BY DEF Structure, StackShape, ServiceStack, TasksInv, InService

LEMMA ClientsSame ==
  ASSUME Structure,
         \A p \in Clients : stack'[p] = stack[p],
         \A p \in Clients, x \in Process :
           connections'[p][x].readTask = connections[p][x].readTask
  PROVE  /\ \A p \in Clients : ClientStack(p)'
         /\ \A p \in Clients, x \in Process : connections'[p][x].readTask = << >>
  BY DEF Structure, StackShape, ClientStack, TasksInv

LEMMA InvokeStructure ==
  ASSUME LeafServices, TypeInv, Structure, NEW p \in Process, NEW q \in Process, Invoke(p, q)
  PROVE  /\ Structure'
         /\ p \in Clients /\ q \in Services /\ Len(stack[p]) = 0 /\ Len(stack'[p]) = 1
         /\ stack'[p][1] = WaitFrame(q, connections[p][q].writeSerial, Len(calls) + 1)
         /\ \A r \in Process \ {p} : stack'[r] = stack[r]
<1>1. PICK serial \in Nat : serial = connections[p][q].writeSerial
  BY ConnectionIs
<1>2. PICK call \in Nat : call = Len(calls) + 1
  BY LenProperties DEF TypeInv, CallsType
<1>3. /\ Coding(p) /\ q \in Peers[p]
      /\ SendOn(p, q, connections[p][q], Message("invoke", 0, call))
      /\ Push(p, WaitFrame(q, serial, call)) /\ broken' = broken
  BY <1>1, <1>2 DEF Invoke
<1>4. p \in Clients /\ q \in Services /\ Len(stack[p]) = 0
  BY <1>3, CodingIs
<1>5. /\ SocketsInv' /\ EndsInv'
      /\ \A x \in Process : connections'[p][x].readTask = connections[p][x].readTask
  BY <1>2, <1>3, <1>4, ClientSends DEF Request
<1>6. PICK f : f = WaitFrame(q, serial, call)
  OBVIOUS
<1>7. f \in FrameType /\ f.kind = "wait" /\ f.peer = q
  <2>1. << >> \in Seq(MessageType) /\ << >> \in Seq(ServedType)
    BY EmptySeq
  <2>2. f \in FrameType
    BY <1>6, <2>1, FrameTypes
  <2>3. QED  BY <1>6, <2>2 DEF WaitFrame
<1>8. /\ Len(stack'[p]) = 1 /\ stack'[p][1] = f
      /\ \A r \in Process \ {p} : stack'[r] = stack[r]
  <2>1. Push(p, f)
    BY <1>3, <1>6
  <2>2. /\ Len(stack'[p]) = Len(stack[p]) + 1 /\ stack'[p][Len(stack[p]) + 1] = f
        /\ \A r \in Process \ {p} : stack'[r] = stack[r]
    BY <1>7, <2>1, Pushed
  <2>3. QED  BY <1>4, <2>2
<1>9. \A r, x \in Process : r # p => connections'[r][x] = connections[r][x]
  BY <1>3 DEF SendOn, TypeInv, ConnectionsType
<1>10. ASSUME NEW r \in Services PROVE stack'[r] = stack[r] /\ connections'[r] = connections[r]
  <2>1. r \in Process /\ r # p
    BY <1>4, Kinds
  <2>2. connections'[r] = connections[r]
    BY <1>3, <2>1 DEF SendOn, TypeInv, ConnectionsType
  <2>3. QED  BY <1>8, <2>1, <2>2
<1>11. ASSUME NEW r \in Clients PROVE ClientStack(r)'
  <2>1. CASE r = p
    <3>1. Len(stack'[r]) = 1 /\ stack'[r][1] = f
      BY <1>8, <2>1
    <3>2. 1 <= 2 /\ 1 > 0 /\ 1 # 2
      OBVIOUS
    <3>3. QED  BY <1>4, <1>7, <3>1, <3>2 DEF ClientStack
  <2>2. CASE r # p
    <3>1. stack'[r] = stack[r]
      BY <1>8, <2>2, Kinds
    <3>2. QED  BY <3>1 DEF Structure, StackShape, ClientStack
  <2>3. QED  BY <2>1, <2>2
<1>12. \A r \in Clients, x \in Process : connections'[r][x].readTask = << >>
  BY <1>5, <1>9, Kinds DEF Structure, TasksInv
<1>13. Structure'
  BY <1>3, <1>5, <1>10, <1>11, <1>12, ServicesSame DEF Structure, StackShape, TasksInv
<1>14. QED  BY <1>1, <1>2, <1>4, <1>6, <1>8, <1>13

LEMMA ReleaseStructure ==
  ASSUME LeafServices, TypeInv, Structure, NEW p \in Process, NEW q \in Process, Release(p, q)
  PROVE  Structure' /\ p \in Clients /\ q \in Services /\ Len(stack[p]) = 0
<1>1. /\ Coding(p) /\ q \in Peers[p]
      /\ SendOn(p, q, connections[p][q], Message("release", 0, 0))
      /\ stack' = stack /\ broken' = broken
  BY DEF Release
<1>2. p \in Clients /\ q \in Services /\ Len(stack[p]) = 0
  BY <1>1, CodingIs
<1>3. /\ SocketsInv' /\ EndsInv'
      /\ \A x \in Process : connections'[p][x].readTask = connections[p][x].readTask
  BY <1>1, <1>2, ClientSends DEF Request
<1>4. \A r \in Process : r # p => connections'[r] = connections[r]
  BY <1>1 DEF SendOn, TypeInv, ConnectionsType
<1>5. \A r \in Services : stack'[r] = stack[r] /\ connections'[r] = connections[r]
  BY <1>1, <1>2, <1>4, Kinds
<1>6. \A r \in Clients, x \in Process :
        connections'[r][x].readTask = connections[r][x].readTask
  BY <1>3, <1>4, Kinds
<1>7. Structure'
  BY <1>1, <1>3, <1>5, <1>6, ServicesSame, ClientsSame DEF Structure, StackShape, TasksInv
<1>8. QED  BY <1>2, <1>7

\* A client's wait or loop ends.
LEMMA ClientPops ==
  ASSUME TypeInv, Structure, NEW p \in Clients, ~Idle(p), Pop(p),
         UNCHANGED <<connections, sockets, broken>>
  PROVE  /\ Structure' /\ Len(stack'[p]) = Len(stack[p]) - 1
         /\ \A i \in 1 .. Len(stack[p]) - 1 : stack'[p][i] = stack[p][i]
         /\ \A r \in Process \ {p} : stack'[r] = stack[r]
<1>1. p \in Process /\ Len(stack[p]) \in Nat \ {0}
  BY Kinds, StackIs
<1>2. /\ Len(stack'[p]) = Len(stack[p]) - 1
      /\ \A i \in 1 .. Len(stack[p]) - 1 : stack'[p][i] = stack[p][i]
      /\ \A r \in Process \ {p} : stack'[r] = stack[r]
  BY <1>1, Popped
<1>3. SocketsInv' /\ EndsInv'
  BY SocketsSame
<1>4. \A r \in Services : stack'[r] = stack[r] /\ connections'[r] = connections[r]
  BY <1>2, Kinds
<1>5. ASSUME NEW r \in Clients PROVE ClientStack(r)'
  <2>1. CASE r # p
    <3>1. stack'[r] = stack[r]
      BY <1>2, <2>1, Kinds
    <3>2. QED  BY <3>1 DEF Structure, StackShape, ClientStack
  <2>2. CASE r = p
    <3>1. ClientStack(p)
      BY DEF Structure, StackShape
    <3>2. Len(stack[p]) = 1 \/ Len(stack[p]) = 2
      BY <1>1, <3>1, Small DEF ClientStack
    <3>3. CASE Len(stack[p]) = 1
      <4>1. Len(stack'[p]) = 0 /\ 0 <= 2 /\ ~(0 > 0) /\ 0 # 2
        BY <1>2, <3>3
      <4>2. QED  BY <2>2, <4>1 DEF ClientStack
    <3>4. CASE Len(stack[p]) = 2
      <4>1. Len(stack'[p]) = 1 /\ 1 <= 2 /\ 1 # 2 /\ 2 > 0 /\ stack'[p][1] = stack[p][1]
        BY <1>2, <3>4
      <4>2. stack[p][1].kind = "wait" /\ stack[p][1].peer \in Services
        BY <3>1, <3>4, <4>1 DEF ClientStack
      <4>3. QED  BY <2>2, <4>1, <4>2 DEF ClientStack
    <3>5. QED  BY <3>2, <3>3, <3>4
  <2>3. QED  BY <2>1, <2>2
<1>6. \A r \in Clients, x \in Process : connections'[r][x].readTask = << >>
  BY DEF Structure, TasksInv
<1>7. Structure'
  BY <1>3, <1>4, <1>5, <1>6, ServicesSame DEF Structure, StackShape, TasksInv
<1>8. QED  BY <1>2, <1>7

LEMMA ServicePops ==
  ASSUME TypeInv, Structure, NEW q \in Services, LoopEnds(q)
  PROVE  /\ Structure' /\ Len(stack[q]) = 1 /\ Len(stack'[q]) = 0
         /\ \A r \in Process \ {q} : stack'[r] = stack[r]
<1>1. /\ q \in Process /\ Looping(q) /\ ~Serving(q) /\ ~Idle(q) /\ Pop(q)
      /\ UNCHANGED <<connections, sockets, broken>>
  BY Kinds DEF LoopEnds, Looping
<1>2. Len(stack[q]) = 1 /\ ~InService(q)
  BY <1>1, LoopingIs
<1>3. Len(stack'[q]) = Len(stack[q]) - 1 /\ \A r \in Process \ {q} : stack'[r] = stack[r]
  BY <1>1, Popped
<1>4. SocketsInv' /\ EndsInv'
  BY <1>1, SocketsSame
<1>5. Len(stack'[q]) = 0
  BY <1>2, <1>3
<1>6. /\ \A r \in Clients : ClientStack(r)'
      /\ \A r \in Clients, x \in Process : connections'[r][x].readTask = << >>
  <2>1. \A r \in Clients : stack'[r] = stack[r]
    BY <1>3, Kinds
  <2>2. QED  BY <1>1, <2>1, ClientsSame
<1>7. ASSUME NEW r \in Services PROVE ServiceStack(r)'
  <2>1. CASE r = q
    <3>1. 0 <= 1 /\ 0 # 1
      OBVIOUS
    <3>2. QED  BY <1>5, <2>1, <3>1 DEF ServiceStack
  <2>2. CASE r # q
    <3>1. stack'[r] = stack[r]
      BY <1>3, <2>2, Kinds
    <3>2. QED  BY <1>1, <3>1 DEF Structure, StackShape, ServiceStack
  <2>3. QED  BY <2>1, <2>2
<1>8. ASSUME NEW r \in Services, NEW i \in Process, connections'[r][i].readTask # << >>
      PROVE  InService(r)' /\ stack'[r][1].peer = i
  <2>1. InService(r) /\ stack[r][1].peer = i
    BY <1>1, <1>8 DEF Structure, TasksInv
  <2>2. r # q
    BY <1>2, <2>1
  <2>3. stack'[r] = stack[r]
    BY <1>3, <2>2, Kinds
  <2>4. QED  BY <2>1, <2>3 DEF InService
<1>9. Structure'
  BY <1>1, <1>4, <1>6, <1>7, <1>8 DEF Structure, StackShape, TasksInv
<1>10. QED  BY <1>2, <1>3, <1>5, <1>9

\* Who is at the other end.
LEMMA EndIs ==
  ASSUME TypeInv, Structure, NEW p \in Process, NEW q \in Process, HasSocket(p, q)
  PROVE  LET n == connections[p][q].socket
         IN  /\ n \in DOMAIN sockets /\ sockets[n] \in SocketType /\ SocketOK(n)
             /\ sockets[n].from \in Process /\ sockets[n].to \in Process
             /\ sockets[n].from # sockets[n].to
             /\ p \in Clients =>
                  /\ sockets[n].from = p /\ sockets[n].to = q /\ q \in Services
                  /\ OtherEnd(p, q) = q
             /\ p \in Services =>
                  /\ sockets[n].to = p /\ Image[sockets[n].from] = q /\ sockets[n].accepted
                  /\ sockets[n].from \in Clients /\ OtherEnd(p, q) = sockets[n].from
<1> PICK n : n = connections[p][q].socket
  OBVIOUS
<1>1. n \in DOMAIN sockets /\ n # 0
  BY ConnectionIs DEF HasSocket
<1>2. sockets[n] \in SocketType /\ sockets[n].from \in Process /\ sockets[n].to \in Process
  BY <1>1, SocketIs
<1>3. SocketOK(n) /\ sockets[n].from # sockets[n].to
  <2>1. SocketOK(n)
    BY <1>1 DEF Structure, SocketsInv
  <2>2. QED  BY <2>1, Kinds DEF SocketOK
<1>4. p \in Clients => sockets[n].from = p /\ sockets[n].to = q
  BY DEF Structure, EndsInv, ClientEnd, SocketOf
<1>5. p \in Services =>
        sockets[n].to = p /\ Image[sockets[n].from] = q /\ sockets[n].accepted
  BY DEF Structure, EndsInv, ServiceEnd, SocketOf
<1>6. OtherEnd(p, q) = IF sockets[n].from = p THEN sockets[n].to ELSE sockets[n].from
  BY DEF OtherEnd, SocketOf
<1>7. QED  BY <1>1, <1>2, <1>3, <1>4, <1>5, <1>6 DEF SocketOK

\* A wire of a socket that is up changes.
WireSet(n, x, w) == sockets' = [sockets EXCEPT ![n].wire[x] = w]
WireIs(n, x, w) ==
  /\ DOMAIN sockets' = DOMAIN sockets
  /\ \A k \in DOMAIN sockets : k # n => sockets'[k] = sockets[k]
  /\ sockets'[n].wire[x] = w
  /\ \A y \in Process \ {x} : sockets'[n].wire[y] = sockets[n].wire[y]
  /\ \A k \in DOMAIN sockets :
       /\ sockets'[k].from = sockets[k].from /\ sockets'[k].to = sockets[k].to
       /\ sockets'[k].accepted = sockets[k].accepted /\ sockets'[k].up = sockets[k].up

LEMMA WireStructure ==
  ASSUME TypeInv, Structure, NEW n \in DOMAIN sockets, NEW x \in Process,
         NEW w \in Seq(MessageType), WireSet(n, x, w), sockets[n].up,
         ~sockets[n].accepted => x # sockets[n].from \/ w = << >>,
         \A r, y \in Process : connections'[r][y].socket = connections[r][y].socket
  PROVE  SocketsInv' /\ EndsInv' /\ WireIs(n, x, w)
<1>1. /\ DOMAIN sockets' = DOMAIN sockets
      /\ \A k \in DOMAIN sockets : k # n => sockets'[k] = sockets[k]
      /\ sockets'[n] = [sockets[n] EXCEPT !.wire = [@ EXCEPT ![x] = w]]
  BY WireChanges DEF WireSet
<1>2. sockets[n] \in SocketType /\ sockets[n].wire \in [Process -> Seq(MessageType)]
  BY SocketIs
<1>3. /\ sockets'[n].wire = [sockets[n].wire EXCEPT ![x] = w]
      /\ sockets'[n].from = sockets[n].from /\ sockets'[n].to = sockets[n].to
      /\ sockets'[n].accepted = sockets[n].accepted /\ sockets'[n].up = sockets[n].up
  BY <1>1, <1>2 DEF SocketType
<1>4. /\ sockets'[n].wire[x] = w
      /\ \A y \in Process \ {x} : sockets'[n].wire[y] = sockets[n].wire[y]
  <2>1. PICK before \in [Process -> Seq(MessageType)] : before = sockets[n].wire
    BY <1>2
  <2>2. PICK after : after = sockets'[n].wire
    OBVIOUS
  <2>3. after = [before EXCEPT ![x] = w]
    BY <1>3, <2>1, <2>2
  <2>4. after[x] = w /\ \A y \in Process \ {x} : after[y] = before[y]
    BY <2>3
  <2>5. QED  BY <2>1, <2>2, <2>4
<1>5. \A k \in DOMAIN sockets :
        /\ sockets'[k].from = sockets[k].from /\ sockets'[k].to = sockets[k].to
        /\ sockets'[k].accepted = sockets[k].accepted /\ sockets'[k].up = sockets[k].up
  BY <1>1, <1>3
<1>6. ASSUME NEW k \in DOMAIN sockets PROVE SocketOK(k)'
  <2>1. SocketOK(k)
    BY DEF Structure, SocketsInv
  <2>2. /\ sockets[k].from \in Process /\ sockets[k].to \in Process
        /\ Image[sockets[k].from] \in Process
    BY <2>1, Kinds DEF SocketOK
  <2>3. /\ sockets'[k].up => connections'[sockets'[k].from][sockets'[k].to].socket = k
        /\ sockets'[k].up /\ sockets'[k].accepted =>
             connections'[sockets'[k].to][Image[sockets'[k].from]].socket = k
        /\ sockets'[k].from \in Clients /\ sockets'[k].to \in Services
    BY <1>5, <2>1, <2>2 DEF SocketOK
  <2>4. ~sockets'[k].up => \A y \in Process : sockets'[k].wire[y] = << >>
    BY <1>1, <1>5, <2>1 DEF SocketOK
  <2>5. ~sockets'[k].accepted => sockets'[k].wire[sockets'[k].from] = << >>
    <3>1. CASE k = n
      <4>1. CASE sockets[n].from = x
        BY <1>4, <1>5, <3>1, <4>1
      <4>2. CASE sockets[n].from # x
        <5>1. ~sockets[n].accepted => sockets[n].wire[sockets[n].from] = << >>
          BY <2>1, <3>1 DEF SocketOK
        <5>2. sockets'[n].wire[sockets[n].from] = sockets[n].wire[sockets[n].from]
          BY <1>4, <2>2, <3>1, <4>2
        <5>3. QED  BY <1>5, <3>1, <5>1, <5>2
      <4>3. QED  BY <4>1, <4>2
    <3>2. CASE k # n
      BY <1>1, <2>1, <3>2 DEF SocketOK
    <3>3. QED  BY <3>1, <3>2
  <2>6. QED  BY <2>3, <2>4, <2>5 DEF SocketOK
<1>7. EndsInv'
  <2>1. ASSUME NEW r \in Process, NEW y \in Process, HasSocket(r, y)'
        PROVE  /\ HasSocket(r, y) /\ SocketOf(r, y)'.from = SocketOf(r, y).from
               /\ SocketOf(r, y)'.to = SocketOf(r, y).to
               /\ SocketOf(r, y)'.accepted = SocketOf(r, y).accepted
    <3>1. HasSocket(r, y) /\ connections[r][y].socket \in DOMAIN sockets
      BY <2>1, ConnectionIs DEF HasSocket
    <3>2. QED  BY <1>5, <3>1 DEF SocketOf
  <2>2. ASSUME NEW r \in Clients, NEW y \in Process PROVE ClientEnd(r, y)'
    BY <2>1, Kinds DEF Structure, EndsInv, ClientEnd
  <2>3. ASSUME NEW r \in Services, NEW y \in Process PROVE ServiceEnd(r, y)'
    BY <2>1, Kinds DEF Structure, EndsInv, ServiceEnd
  <2>4. QED  BY <2>2, <2>3 DEF EndsInv
<1>8. QED  BY <1>1, <1>4, <1>5, <1>6, <1>7 DEF SocketsInv, WireIs

\* The head of p's queue goes onto the wire to the other end.
LEMMA OutputStructure ==
  ASSUME TypeInv, Structure, NEW p \in Process, NEW q \in Process, Output(p, q),
         NEW n, n = connections[p][q].socket, NEW x, x = OtherEnd(p, q)
  PROVE  /\ Structure' /\ stack' = stack
         /\ n \in DOMAIN sockets /\ sockets[n].up /\ x \in Process
         /\ connections[p][q].writeQueue \in Seq(MessageType)
         /\ connections[p][q].writeQueue # << >>
         /\ sockets[n].wire[x] \in Seq(MessageType)
         /\ WireIs(n, x, Append(sockets[n].wire[x], Head(connections[p][q].writeQueue)))
         /\ connections'[p][q].writeQueue = Tail(connections[p][q].writeQueue)
         /\ \A r, y \in Process : <<r, y>> # <<p, q>> => connections'[r][y] = connections[r][y]
         /\ \A r, y \in Process :
              /\ connections'[r][y].socket = connections[r][y].socket
              /\ connections'[r][y].readTask = connections[r][y].readTask
              /\ connections'[r][y].writeSerial = connections[r][y].writeSerial
              /\ connections'[r][y].readSerial = connections[r][y].readSerial
<1> PICK queue : queue = connections[p][q].writeQueue
  OBVIOUS
<1>1. /\ HasSocket(p, q) /\ sockets[n].up /\ queue # << >>
      /\ broken' = broken /\ stack' = stack
  BY DEF Output, SocketOf
<1>2. /\ n \in DOMAIN sockets /\ sockets[n].from \in Process /\ sockets[n].to \in Process
      /\ sockets[n].from # sockets[n].to
      /\ p \in Clients => x = sockets[n].to
      /\ p \in Services => sockets[n].accepted /\ x = sockets[n].from
  <2>1. n \in DOMAIN sockets /\ sockets[n].from \in Process /\ sockets[n].to \in Process
    BY <1>1, EndIs
  <2>2. sockets[n].from # sockets[n].to
    BY <1>1, EndIs
  <2>3. p \in Clients => sockets[n].to = q /\ OtherEnd(p, q) = q
    BY <1>1, EndIs
  <2>4. p \in Services => sockets[n].accepted
    BY <1>1, EndIs
  <2>5. p \in Services => OtherEnd(p, q) = sockets[n].from
    BY <1>1, EndIs
  <2>6. QED  BY <2>1, <2>2, <2>3, <2>4, <2>5
<1>3. queue \in Seq(MessageType) /\ connections[p][q] \in ConnectionType
  BY ConnectionIs
<1>4. x \in Process /\ (~sockets[n].accepted => x # sockets[n].from)
  BY <1>2, Kinds
<1>5. PICK w : w = Append(sockets[n].wire[x], Head(queue))
  OBVIOUS
<1>6. w \in Seq(MessageType) /\ sockets[n].wire[x] \in Seq(MessageType)
  <2>1. sockets[n].wire[x] \in Seq(MessageType) /\ Head(queue) \in MessageType
    BY <1>1, <1>2, <1>3, <1>4, SocketIs, HeadTailProperties
  <2>2. QED  BY <1>5, <2>1, AppendProperties
<1>7. /\ WireSet(n, x, w)
      /\ connections' = [connections EXCEPT ![p][q].writeQueue = Tail(@)]
  BY <1>5 DEF Output, WireSet
<1>8. PICK c : c = [connections[p][q] EXCEPT !.writeQueue = Tail(queue)]
  OBVIOUS
<1>9. /\ connections'[p][q] = c
      /\ \A r, y \in Process : <<r, y>> # <<p, q>> => connections'[r][y] = connections[r][y]
  BY <1>7, <1>8 DEF TypeInv, ConnectionsType
<1>10. /\ c.writeQueue = Tail(queue) /\ c.socket = connections[p][q].socket
       /\ c.readTask = connections[p][q].readTask
       /\ c.writeSerial = connections[p][q].writeSerial
       /\ c.readSerial = connections[p][q].readSerial
  BY <1>3, <1>8 DEF ConnectionType
<1>11. ASSUME NEW r \in Process, NEW y \in Process
       PROVE  /\ connections'[r][y].socket = connections[r][y].socket
              /\ connections'[r][y].readTask = connections[r][y].readTask
              /\ connections'[r][y].writeSerial = connections[r][y].writeSerial
              /\ connections'[r][y].readSerial = connections[r][y].readSerial
  <2>1. CASE <<r, y>> = <<p, q>>
    BY <1>9, <1>10, <2>1
  <2>2. CASE <<r, y>> # <<p, q>>
    BY <1>9, <2>2
  <2>3. QED  BY <2>1, <2>2
<1>12. SocketsInv' /\ EndsInv' /\ WireIs(n, x, w)
  <2>1. ~sockets[n].accepted => x # sockets[n].from \/ w = << >>
    BY <1>4
  <2>2. \A r, y \in Process : connections'[r][y].socket = connections[r][y].socket
    BY <1>11
  <2>3. QED  BY <1>1, <1>2, <1>4, <1>6, <1>7, <2>1, <2>2, WireStructure
<1>13. StackShape'
  <2>1. \A r \in Clients : ClientStack(r)'
    BY <1>1 DEF Structure, StackShape, ClientStack
  <2>2. ASSUME NEW r \in Services PROVE ServiceStack(r)'
    <3>1. Len(stack[r]) = 1 => stack[r][1].peer \in Process
      BY StackIs, FrameIs, Kinds
    <3>2. QED  BY <1>1, <1>11, <3>1, Kinds DEF Structure, StackShape, ServiceStack
  <2>3. QED  BY <2>1, <2>2 DEF StackShape
<1>14. TasksInv'
  BY <1>1, <1>11, Kinds DEF Structure, TasksInv, InService
<1>15. Structure'
  BY <1>1, <1>12, <1>13, <1>14 DEF Structure
<1>16. QED  BY <1>1, <1>2, <1>3, <1>4, <1>5, <1>6, <1>9, <1>10, <1>11, <1>12, <1>15

\* What came over the wire is now in a loop.
LEMMA InputStructure ==
  ASSUME TypeInv, Structure, NEW p \in Process, NEW q \in Process, Input(p, q),
         NEW n, n = connections[p][q].socket
  PROVE  /\ Structure' /\ connections' = connections
         /\ n \in DOMAIN sockets /\ sockets[n].up
         /\ p \in Clients => Len(stack[p]) = 1 /\ Len(stack'[p]) = 2 /\ q \in Services
         /\ p \in Services => Len(stack[p]) = 0 /\ Len(stack'[p]) = 1 /\ sockets[n].accepted
         /\ stack'[p][Len(stack'[p])] = LoopFrame(q, sockets[n].wire[p], << >>)
         /\ p \in Clients => stack'[p][1] = stack[p][1]
         /\ \A r \in Process \ {p} : stack'[r] = stack[r]
         /\ sockets[n].wire[p] \in Seq(MessageType)
         /\ WireIs(n, p, << >>)
<1> PICK w : w = sockets[n].wire[p]
  OBVIOUS
<1>1. /\ HasSocket(p, q) /\ sockets[n].up /\ Polling(p)
      /\ Push(p, LoopFrame(q, w, << >>)) /\ sockets' = [sockets EXCEPT ![n].wire[p] = << >>]
      /\ broken' = broken /\ connections' = connections
  BY DEF Input, SocketOf
<1>2. /\ n \in DOMAIN sockets /\ sockets[n].from \in Process /\ sockets[n].to \in Process
      /\ p \in Clients => q \in Services
      /\ p \in Services => sockets[n].accepted
  BY <1>1, EndIs
<1>3. << >> \in Seq(MessageType) /\ << >> \in Seq(ServedType) /\ w \in Seq(MessageType)
  BY <1>2, EmptySeq, SocketIs
<1>4. SocketsInv' /\ EndsInv' /\ WireIs(n, p, << >>)
  <2>1. PICK empty \in Seq(MessageType) : empty = << >>
    BY <1>3
  <2>2. /\ WireSet(n, p, empty)
        /\ (~sockets[n].accepted => p # sockets[n].from \/ empty = << >>)
    BY <1>1, <2>1 DEF WireSet
  <2>3. \A r, y \in Process : connections'[r][y].socket = connections[r][y].socket
    BY <1>1
  <2>4. QED  BY <1>1, <1>2, <2>1, <2>2, <2>3, WireStructure
<1>5. PICK f : f = LoopFrame(q, w, << >>)
  OBVIOUS
<1>6. f \in FrameType /\ f.kind = "loop" /\ f.peer = q /\ f.serving = << >>
  <2>1. f \in FrameType
    BY <1>3, <1>5, FrameTypes, ConnectionIs
  <2>2. QED  BY <1>5, <2>1 DEF LoopFrame
<1>7. /\ Len(stack'[p]) = Len(stack[p]) + 1 /\ Len(stack[p]) \in Nat
      /\ stack'[p][Len(stack[p]) + 1] = f
      /\ \A i \in 1 .. Len(stack[p]) : stack'[p][i] = stack[p][i]
      /\ \A r \in Process \ {p} : stack'[r] = stack[r]
  <2>1. Push(p, f)
    BY <1>1, <1>5
  <2>2. QED  BY <1>6, <2>1, Pushed
<1>8. /\ p \in Clients => /\ Len(stack[p]) = 1 /\ Len(stack'[p]) = 2 /\ stack'[p][2] = f
                          /\ stack'[p][1] = stack[p][1]
      /\ p \in Services => Len(stack[p]) = 0 /\ Len(stack'[p]) = 1 /\ stack'[p][1] = f
  <2>1. /\ p \in Clients => Len(stack[p]) = 1
        /\ p \in Services => Len(stack[p]) = 0
    BY <1>1, PollingIs
  <2>2. ASSUME Len(stack[p]) = 1
        PROVE  Len(stack'[p]) = 2 /\ stack'[p][2] = f /\ stack'[p][1] = stack[p][1]
    BY <1>7, <2>2
  <2>3. ASSUME Len(stack[p]) = 0 PROVE Len(stack'[p]) = 1 /\ stack'[p][1] = f
    BY <1>7, <2>3
  <2>4. QED  BY <2>1, <2>2, <2>3
<1>9. ASSUME NEW r \in Clients PROVE ClientStack(r)'
  <2>1. ClientStack(r)
    BY DEF Structure, StackShape
  <2>2. CASE r # p
    <3>1. stack'[r] = stack[r]
      BY <1>7, <2>2, Kinds
    <3>2. QED  BY <2>1, <3>1 DEF ClientStack
  <2>3. CASE r = p
    <3>1. /\ 2 <= 2 /\ 2 > 0 /\ 1 > 0 /\ Len(stack'[p]) = 2 /\ stack'[p][2] = f
          /\ stack'[p][1] = stack[p][1] /\ Len(stack[p]) = 1 /\ q \in Services
      BY <1>2, <1>8, <2>3
    <3>2. stack[p][1].kind = "wait" /\ stack[p][1].peer \in Services
      BY <2>1, <2>3, <3>1 DEF ClientStack
    <3>3. QED  BY <1>6, <2>3, <3>1, <3>2 DEF ClientStack
  <2>4. QED  BY <2>2, <2>3
<1>10. ASSUME NEW r \in Services PROVE ServiceStack(r)'
  <2>1. ServiceStack(r)
    BY DEF Structure, StackShape
  <2>2. CASE r # p
    <3>1. stack'[r] = stack[r]
      BY <1>7, <2>2, Kinds
    <3>2. QED  BY <1>1, <2>1, <3>1 DEF ServiceStack
  <2>3. CASE r = p
    <3>1. Len(stack'[p]) = 1 /\ stack'[p][1] = f /\ 1 <= 1
      BY <1>8, <2>3
    <3>2. QED  BY <1>1, <1>6, <2>3, <3>1 DEF ServiceStack, HasSocket
  <2>4. QED  BY <2>2, <2>3
<1>11. TasksInv'
  <2>1. \A r \in Clients, x \in Process : connections'[r][x].readTask = << >>
    BY <1>1 DEF Structure, TasksInv
  <2>2. ASSUME NEW r \in Services, NEW i \in Process, connections'[r][i].readTask # << >>
        PROVE  InService(r)' /\ stack'[r][1].peer = i
    <3>1. InService(r) /\ stack[r][1].peer = i
      BY <1>1, <2>2 DEF Structure, TasksInv
    <3>2. r # p
      BY <1>8, <3>1 DEF InService
    <3>3. stack'[r] = stack[r]
      BY <1>7, <3>2, Kinds
    <3>4. QED  BY <3>1, <3>3 DEF InService
  <2>3. QED  BY <2>1, <2>2 DEF TasksInv
<1>12. Structure'
  BY <1>1, <1>4, <1>9, <1>10, <1>11 DEF Structure, StackShape
<1>13. stack'[p][Len(stack'[p])] = LoopFrame(q, w, << >>)
  BY <1>5, <1>8, Kinds
<1>14. QED  BY <1>1, <1>2, <1>3, <1>4, <1>7, <1>8, <1>12, <1>13

LEMMA HangupStructure ==
  ASSUME TypeInv, Structure, NEW p \in Process, NEW q \in Process, Hangup(p, q)
  PROVE  /\ Structure' /\ ~SocketOf(p, q).up /\ connections[p][q].socket \in DOMAIN sockets
         /\ stack' = stack /\ sockets' = sockets
         /\ connections'[p][q].socket = 0
         /\ \A r, y \in Process : <<r, y>> # <<p, q>> => connections'[r][y] = connections[r][y]
         /\ \A r, y \in Process :
              /\ connections'[r][y].readTask = connections[r][y].readTask
              /\ connections'[r][y].writeSerial = connections[r][y].writeSerial
              /\ connections'[r][y].readSerial = connections[r][y].readSerial
              /\ connections'[r][y].writeQueue = connections[r][y].writeQueue
<1>1. PICK c : c = [connections[p][q] EXCEPT !.socket = 0]
  OBVIOUS
<1>2. /\ connections' = [connections EXCEPT ![p][q] = c] /\ Polling(p) /\ HasSocket(p, q)
      /\ ~SocketOf(p, q).up /\ sockets' = sockets /\ stack' = stack /\ broken' = broken
  BY <1>1 DEF Hangup
<1>3. /\ connections[p][q] \in ConnectionType
      /\ c.socket = 0 /\ c.readTask = connections[p][q].readTask
      /\ c.writeSerial = connections[p][q].writeSerial
      /\ c.readSerial = connections[p][q].readSerial
      /\ c.writeQueue = connections[p][q].writeQueue
  <2>1. connections[p][q] \in ConnectionType
    BY ConnectionIs
  <2>2. QED  BY <1>1, <2>1 DEF ConnectionType
<1>4. /\ connections'[p][q] = c
      /\ \A r, y \in Process : <<r, y>> # <<p, q>> => connections'[r][y] = connections[r][y]
  BY <1>2 DEF TypeInv, ConnectionsType
<1>5. ASSUME NEW r \in Process, NEW y \in Process
      PROVE  /\ connections'[r][y].readTask = connections[r][y].readTask
             /\ connections'[r][y].writeSerial = connections[r][y].writeSerial
             /\ connections'[r][y].readSerial = connections[r][y].readSerial
             /\ connections'[r][y].writeQueue = connections[r][y].writeQueue
             /\ connections'[r][y].socket # 0 =>
                  connections'[r][y].socket = connections[r][y].socket
             /\ \A n \in DOMAIN sockets : sockets[n].up /\ connections[r][y].socket = n =>
                  connections'[r][y].socket = n
  <2>1. CASE <<r, y>> = <<p, q>>
    BY <1>2, <1>3, <1>4, <2>1 DEF SocketOf
  <2>2. CASE <<r, y>> # <<p, q>>
    BY <1>4, <2>2
  <2>3. QED  BY <2>1, <2>2
<1>6. ASSUME NEW n \in DOMAIN sockets PROVE SocketOK(n)'
  <2>1. SocketOK(n)
    BY DEF Structure, SocketsInv
  <2>2. /\ sockets[n].from \in Process /\ sockets[n].to \in Process
        /\ Image[sockets[n].from] \in Process
    BY <2>1, Kinds DEF SocketOK
  <2>3. QED  BY <1>2, <1>5, <2>1, <2>2 DEF SocketOK
<1>7. EndsInv'
  <2>1. ASSUME NEW r \in Clients, NEW y \in Process PROVE ClientEnd(r, y)'
    BY <1>2, <1>5, Kinds DEF Structure, EndsInv, ClientEnd, HasSocket, SocketOf
  <2>2. ASSUME NEW r \in Services, NEW y \in Process PROVE ServiceEnd(r, y)'
    <3>1. ServiceEnd(r, y) /\ r \in Process
      BY Kinds DEF Structure, EndsInv
    <3>2. connections'[r][y].socket # 0 => connections'[r][y].socket = connections[r][y].socket
      BY <1>5, <3>1
    <3>3. QED  BY <1>2, <3>1, <3>2 DEF ServiceEnd, HasSocket, SocketOf
  <2>3. QED  BY <2>1, <2>2 DEF EndsInv
<1>8. TasksInv'
  BY <1>2, <1>5, Kinds DEF Structure, TasksInv, InService
<1>9. StackShape'
  <2>1. \A r \in Clients : ClientStack(r)'
    BY <1>2 DEF Structure, StackShape, ClientStack
  <2>2. ASSUME NEW r \in Services PROVE ServiceStack(r)'
    <3>1. ServiceStack(r) /\ r \in Process
      BY Kinds DEF Structure, StackShape
    <3>2. r = p => Len(stack[r]) = 0
      BY <1>2, PollingIs
    <3>3. Len(stack[r]) = 1 => stack[r][1].peer \in Process
      BY <3>1, StackIs, FrameIs
    <3>4. Len(stack[r]) = 1 =>
            connections'[r][stack[r][1].peer] = connections[r][stack[r][1].peer]
      BY <1>4, <3>1, <3>2, <3>3
    <3>5. QED  BY <1>2, <3>1, <3>4 DEF ServiceStack
  <2>3. QED  BY <2>1, <2>2 DEF StackShape
<1>10. Structure'
  BY <1>2, <1>6, <1>7, <1>8, <1>9 DEF Structure, SocketsInv
<1>11. connections[p][q].socket \in DOMAIN sockets
  BY <1>2, EndIs
<1>12. QED  BY <1>2, <1>3, <1>4, <1>5, <1>10, <1>11

\* A service's only loop takes a step.
LEMMA ServiceLoopSet ==
  ASSUME TypeInv, Structure, NEW q \in Services, Looping(q),
         NEW rest \in Seq(MessageType), NEW serving \in Seq(ServedType),
         SetTop(q, LoopFrame(Top(q).peer, rest, serving)),
         connections'[q][Top(q).peer].socket # 0,
         \A r \in Services \ {q} : connections'[r] = connections[r]
  PROVE  /\ StackShape' /\ Len(stack[q]) = 1 /\ Len(stack'[q]) = 1
         /\ stack'[q][1] = LoopFrame(stack[q][1].peer, rest, serving)
         /\ stack'[q][1].kind = "loop" /\ stack'[q][1].peer = stack[q][1].peer
         /\ stack'[q][1].rest = rest /\ stack'[q][1].serving = serving
         /\ \A r \in Process \ {q} : stack'[r] = stack[r]
<1>1. q \in Process /\ ~Idle(q) /\ Len(stack[q]) = 1 /\ Top(q) = stack[q][1]
      /\ Top(q).peer \in Process
  BY Kinds, LoopingIs
<1>2. PICK f : f = LoopFrame(Top(q).peer, rest, serving)
  OBVIOUS
<1>3. f \in FrameType /\ f.kind = "loop" /\ f.peer = Top(q).peer /\ f.rest = rest
      /\ f.serving = serving
  <2>1. f \in FrameType
    BY <1>1, <1>2, FrameTypes
  <2>2. QED  BY <1>2, <2>1 DEF LoopFrame
<1>4. /\ Len(stack'[q]) = Len(stack[q]) /\ stack'[q][Len(stack[q])] = f
      /\ \A r \in Process \ {q} : stack'[r] = stack[r]
  <2>1. SetTop(q, f)
    BY <1>2
  <2>2. QED  BY <1>1, <1>3, <2>1, TopSet
<1>5. Len(stack'[q]) = 1 /\ stack'[q][1] = f
  BY <1>1, <1>4
<1>6. ASSUME NEW r \in Services PROVE ServiceStack(r)'
  <2>1. CASE r = q
    <3>1. Len(stack'[r]) = 1 /\ stack'[r][1] = f /\ 1 <= 1 /\ 1 = 1
      BY <1>5, <2>1
    <3>2. connections'[r][f.peer].socket # 0
      BY <1>3, <2>1
    <3>3. QED  BY <1>3, <3>1, <3>2 DEF ServiceStack
  <2>2. CASE r # q
    <3>1. stack'[r] = stack[r] /\ connections'[r] = connections[r]
      BY <1>4, <2>2, Kinds
    <3>2. QED  BY <3>1 DEF Structure, StackShape, ServiceStack
  <2>3. QED  BY <2>1, <2>2
<1>7. ASSUME NEW r \in Clients PROVE ClientStack(r)'
  <2>1. stack'[r] = stack[r]
    BY <1>4, Kinds
  <2>2. QED  BY <2>1 DEF Structure, StackShape, ClientStack
<1>8. QED  BY <1>1, <1>2, <1>3, <1>4, <1>5, <1>6, <1>7 DEF StackShape

\* The tasks of the other connections stay what they were.
LEMMA ServiceTask ==
  ASSUME Structure, NEW q \in Services, NEW i \in Process, Len(stack[q]) = 1,
         stack[q][1].peer = i, Len(stack'[q]) = 1, stack'[q][1].peer = i,
         \A r, y \in Process : <<r, y>> # <<q, i>> => connections'[r][y] = connections[r][y],
         \A r \in Process \ {q} : stack'[r] = stack[r],
         connections'[q][i].readTask = << >> \/ stack'[q][1].serving # << >>
  PROVE  TasksInv'
<1>1. ASSUME NEW r \in Clients, NEW x \in Process PROVE connections'[r][x].readTask = << >>
  <2>1. connections'[r][x] = connections[r][x]
    BY Kinds
  <2>2. QED  BY <2>1 DEF Structure, TasksInv
<1>2. ASSUME NEW r \in Services, NEW y \in Process, connections'[r][y].readTask # << >>
      PROVE  InService(r)' /\ stack'[r][1].peer = y
  <2>1. CASE r # q
    <3>1. connections'[r][y] = connections[r][y] /\ stack'[r] = stack[r]
      BY <2>1, Kinds
    <3>2. QED  BY <1>2, <3>1 DEF Structure, TasksInv, InService
  <2>2. CASE r = q /\ y # i
    <3>1. connections'[r][y] = connections[r][y]
      BY <2>2, Kinds
    <3>2. stack[q][1].peer = y
      BY <1>2, <2>2, <3>1 DEF Structure, TasksInv
    <3>3. QED  BY <2>2, <3>2
  <2>3. CASE r = q /\ y = i
    BY <1>2, <2>3 DEF InService
  <2>4. QED  BY <2>1, <2>2, <2>3
<1>3. QED  BY <1>1, <1>2 DEF TasksInv

LEMMA DispatchInvokeStructure ==
  ASSUME TypeInv, Structure, NEW q \in Services, DispatchInvoke(q)
  PROVE  LET i == stack[q][1].peer
             rest == stack[q][1].rest
         IN  /\ Structure' /\ Turn(q, {"invoke"}) /\ Len(stack[q]) = 1 /\ Len(stack'[q]) = 1
             /\ i \in Process /\ rest \in Seq(MessageType) /\ rest # << >>
             /\ Head(rest).type = "invoke" /\ stack[q][1].serving = << >>
             /\ connections[q][i].socket # 0
             /\ stack'[q][1].kind = "loop" /\ stack'[q][1].peer = i
             /\ stack'[q][1].rest = Tail(rest)
             /\ stack'[q][1].serving =
                  <<[serial |-> connections[q][i].readSerial, call |-> Head(rest).call]>>
             /\ \A r \in Process \ {q} : stack'[r] = stack[r]
             /\ calls' = [calls EXCEPT ![Head(rest).call].run = "running",
                                       ![Head(rest).call].runs = @ + 1]
             /\ \A r, y \in Process :
                  <<r, y>> # <<q, i>> => connections'[r][y] = connections[r][y]
             /\ connections'[q][i].socket = connections[q][i].socket
             /\ connections'[q][i].writeSerial = connections[q][i].writeSerial
             /\ connections'[q][i].writeQueue = connections[q][i].writeQueue
             /\ connections'[q][i].readSerial = connections[q][i].readSerial + 1
             /\ sockets' = sockets
<1>1. /\ Turn(q, {"invoke"}) /\ q \in Process
      /\ UNCHANGED <<sockets, requests, broken, releases, crashes>>
  BY Kinds DEF DispatchInvoke
<1> PICK i : i = stack[q][1].peer
  OBVIOUS
<1> PICK rest : rest = stack[q][1].rest
  OBVIOUS
<1>2. /\ Looping(q) /\ ~Serving(q) /\ Len(stack[q]) = 1 /\ Top(q) = stack[q][1]
      /\ i \in Process /\ connections[q][i].socket # 0 /\ rest \in Seq(MessageType)
      /\ rest # << >> /\ Current(q) = Head(rest) /\ Rest(q) = Tail(rest) /\ Top(q).peer = i
      /\ Conn(q) = connections[q][i] /\ ~InService(q)
  BY <1>1, TurnIs, LoopingIs DEF Turn, Conn
<1>3. /\ Head(rest) \in MessageType /\ Tail(rest) \in Seq(MessageType)
      /\ Head(rest).type = "invoke" /\ Head(rest).call \in Nat
      /\ Counted(q) \in ConnectionType /\ Counted(q).socket = connections[q][i].socket
      /\ Counted(q).writeSerial = connections[q][i].writeSerial
      /\ Counted(q).writeQueue = connections[q][i].writeQueue
      /\ Counted(q).readSerial = connections[q][i].readSerial + 1
      /\ connections[q][i].readSerial \in Nat
  BY <1>1, <1>2, CurrentIs
<1>4. PICK serving : serving = <<[serial |-> connections[q][i].readSerial, call |-> Head(rest).call]>>
  OBVIOUS
<1>5. PICK c : c = [Counted(q) EXCEPT !.readTask = <<Head(rest)>>]
  OBVIOUS
<1>6. /\ connections' = [connections EXCEPT ![q][i] = c]
      /\ SetTop(q, LoopFrame(Top(q).peer, Tail(rest), serving))
      /\ calls' = [calls EXCEPT ![Head(rest).call].run = "running",
                                ![Head(rest).call].runs = @ + 1]
  BY <1>2, <1>4, <1>5 DEF DispatchInvoke
<1>7. /\ c.socket = connections[q][i].socket
      /\ c.writeSerial = connections[q][i].writeSerial
      /\ c.writeQueue = connections[q][i].writeQueue
      /\ c.readSerial = connections[q][i].readSerial + 1
  BY <1>3, <1>5 DEF ConnectionType
<1>8. /\ connections'[q][i] = c
      /\ \A r, y \in Process : <<r, y>> # <<q, i>> => connections'[r][y] = connections[r][y]
      /\ \A r \in Process \ {q} : connections'[r] = connections[r]
  BY <1>1, <1>2, <1>6 DEF TypeInv, ConnectionsType
<1>9. /\ serving \in Seq(ServedType) /\ serving # << >>
  <2>1. [serial |-> connections[q][i].readSerial, call |-> Head(rest).call] \in ServedType
    BY <1>3 DEF ServedType
  <2>2. QED  BY <1>4, <2>1
<1>10. /\ StackShape' /\ Len(stack'[q]) = 1
       /\ stack'[q][1].kind = "loop" /\ stack'[q][1].peer = stack[q][1].peer
       /\ stack'[q][1].rest = Tail(rest) /\ stack'[q][1].serving = serving
       /\ \A r \in Process \ {q} : stack'[r] = stack[r]
  <2>1. \A r \in Services \ {q} : connections'[r] = connections[r]
    BY <1>8, Kinds
  <2>2. connections'[q][Top(q).peer].socket # 0
    BY <1>2, <1>7, <1>8
  <2>3. PICK others \in Seq(MessageType) : others = Tail(rest)
    BY <1>3
  <2>4. SetTop(q, LoopFrame(Top(q).peer, others, serving))
    BY <1>6, <2>3
  <2>5. /\ StackShape' /\ Len(stack[q]) = 1 /\ Len(stack'[q]) = 1
        /\ stack'[q][1] = LoopFrame(stack[q][1].peer, others, serving)
        /\ stack'[q][1].kind = "loop" /\ stack'[q][1].peer = stack[q][1].peer
        /\ stack'[q][1].rest = others /\ stack'[q][1].serving = serving
        /\ \A r \in Process \ {q} : stack'[r] = stack[r]
    BY <1>2, <1>9, <2>1, <2>2, <2>4, ServiceLoopSet
  <2>6. QED  BY <2>3, <2>5
<1>11. stack[q][1].serving = << >>
  BY <1>2 DEF InService
<1>12. TasksInv'
  BY <1>2, <1>8, <1>9, <1>10, ServiceTask
<1>13. SocketsInv' /\ EndsInv'
  <2>1. ASSUME NEW r \in Process, NEW y \in Process
        PROVE  connections'[r][y].socket = connections[r][y].socket
    <3>1. CASE <<r, y>> = <<q, i>>
      BY <1>7, <1>8, <3>1
    <3>2. CASE <<r, y>> # <<q, i>>
      BY <1>8, <3>2
    <3>3. QED  BY <3>1, <3>2
  <2>2. QED  BY <1>1, <2>1, SocketsSame
<1>14. Structure'
  BY <1>1, <1>10, <1>12, <1>13 DEF Structure
<1>15. /\ stack'[q][1].peer = i
       /\ stack'[q][1].serving =
            <<[serial |-> connections[q][i].readSerial, call |-> Head(rest).call]>>
       /\ connections'[q][i].socket = connections[q][i].socket
       /\ connections'[q][i].writeSerial = connections[q][i].writeSerial
       /\ connections'[q][i].writeQueue = connections[q][i].writeQueue
       /\ connections'[q][i].readSerial = connections[q][i].readSerial + 1
       /\ sockets' = sockets
  BY <1>1, <1>4, <1>7, <1>8, <1>10
<1>16. QED
  BY <1>1, <1>2, <1>3, <1>6, <1>8, <1>10, <1>11, <1>14, <1>15

\* A service answers: a refusal of the message in hand or a method's outcome.
AnsweredWith(q, i, c, m) ==
  /\ \A r, y \in Process : <<r, y>> # <<q, i>> => connections'[r][y] = connections[r][y]
  /\ connections'[q][i].socket = c.socket
  /\ connections'[q][i].readSerial = c.readSerial
  /\ connections'[q][i].writeSerial = c.writeSerial + 1
  /\ connections'[q][i].writeQueue = Append(c.writeQueue, Numbered(m, c.writeSerial))

LEMMA ServiceAnswers ==
  ASSUME TypeInv, Structure, NEW q \in Services, Looping(q), NEW rest \in Seq(MessageType),
         SetTop(q, LoopFrame(Top(q).peer, rest, << >>)), broken' = broken,
         NEW c \in ConnectionType, c.socket = connections[q][Top(q).peer].socket,
         c.readTask = << >>,
         NEW type \in Outcome, NEW serial \in Nat, NEW call \in Nat,
         SendOn(q, Top(q).peer, c, Message(type, serial, call))
  PROVE  /\ Structure' /\ Len(stack[q]) = 1 /\ Len(stack'[q]) = 1 /\ sockets' = sockets
         /\ stack'[q][1].kind = "loop" /\ stack'[q][1].peer = stack[q][1].peer
         /\ stack'[q][1].rest = rest /\ stack'[q][1].serving = << >>
         /\ \A r \in Process \ {q} : stack'[r] = stack[r]
         /\ AnsweredWith(q, Top(q).peer, c, Message(type, serial, call))
         /\ Numbered(Message(type, serial, call), c.writeSerial) \in MessageType
<1> PICK i \in Process : i = Top(q).peer
  BY Kinds, LoopingIs
<1>1. /\ q \in Process /\ Len(stack[q]) = 1 /\ Top(q) = stack[q][1]
      /\ connections[q][i].socket # 0 /\ c.socket = connections[q][i].socket
      /\ c.socket # 0 /\ type \in Request \cup Outcome
  BY Kinds, LoopingIs
<1>2. PICK m : m = Numbered(Message(type, serial, call), c.writeSerial)
  OBVIOUS
<1>3. /\ sockets' = sockets /\ connections'[q][i].socket = c.socket
      /\ connections'[q][i].writeSerial = c.writeSerial + 1
      /\ connections'[q][i].readSerial = c.readSerial
      /\ connections'[q][i].readTask = c.readTask
      /\ connections'[q][i].writeQueue = Append(c.writeQueue, m)
      /\ m \in MessageType
      /\ \A r, y \in Process : <<r, y>> # <<q, i>> => connections'[r][y] = connections[r][y]
  <2>1. SendOn(q, i, c, Message(type, serial, call))
    OBVIOUS
  <2>2. PICK d : d = [c EXCEPT !.socket = c.socket, !.writeSerial = @ + 1,
                                !.writeQueue = Append(@, m)]
    OBVIOUS
  <2>3. connections' = [connections EXCEPT ![q][i] = d] /\ sockets' = sockets
    BY <1>1, <1>2, <2>1, <2>2 DEF SendOn
  <2>4. /\ connections'[q][i] = d
        /\ \A r, y \in Process : <<r, y>> # <<q, i>> => connections'[r][y] = connections[r][y]
    BY <1>1, <2>3 DEF TypeInv, ConnectionsType
  <2>5. /\ d.socket = c.socket /\ d.writeSerial = c.writeSerial + 1
        /\ d.readSerial = c.readSerial /\ d.readTask = c.readTask
        /\ d.writeQueue = Append(c.writeQueue, m)
    BY <2>2 DEF ConnectionType
  <2>6. c.writeSerial \in Nat
    BY DEF ConnectionType
  <2>7. m \in MessageType
    BY <1>1, <1>2, <2>6, NumberedType
  <2>8. QED  BY <2>3, <2>4, <2>5, <2>7
<1>4. \A r \in Process \ {q} : connections'[r] = connections[r]
  BY <1>1 DEF SendOn, TypeInv, ConnectionsType
<1>5. PICK nothing : nothing = << >> /\ nothing \in Seq(ServedType)
  BY EmptySeq
<1>6. /\ StackShape' /\ Len(stack'[q]) = 1
      /\ stack'[q][1].kind = "loop" /\ stack'[q][1].peer = stack[q][1].peer
      /\ stack'[q][1].rest = rest /\ stack'[q][1].serving = nothing
      /\ \A r \in Process \ {q} : stack'[r] = stack[r]
  <2>1. \A r \in Services \ {q} : connections'[r] = connections[r]
    BY <1>4, Kinds
  <2>2. connections'[q][Top(q).peer].socket # 0
    BY <1>1, <1>3
  <2>3. SetTop(q, LoopFrame(Top(q).peer, rest, nothing))
    BY <1>5
  <2>4. /\ StackShape' /\ Len(stack[q]) = 1 /\ Len(stack'[q]) = 1
        /\ stack'[q][1] = LoopFrame(stack[q][1].peer, rest, nothing)
        /\ stack'[q][1].kind = "loop" /\ stack'[q][1].peer = stack[q][1].peer
        /\ stack'[q][1].rest = rest /\ stack'[q][1].serving = nothing
        /\ \A r \in Process \ {q} : stack'[r] = stack[r]
    <3>1. nothing \in Seq(ServedType)
      BY <1>5
    <3>2. QED  BY <2>1, <2>2, <2>3, <3>1, ServiceLoopSet
  <2>5. QED  BY <2>4
<1>7. TasksInv'
  <2>1. /\ Len(stack[q]) = 1 /\ stack[q][1].peer = i
        /\ Len(stack'[q]) = 1 /\ stack'[q][1].peer = i
    BY <1>1, <1>6
  <2>2. connections'[q][i].readTask = << >>
    BY <1>3
  <2>3. /\ \A r, y \in Process : <<r, y>> # <<q, i>> => connections'[r][y] = connections[r][y]
        /\ \A r \in Process \ {q} : stack'[r] = stack[r]
    BY <1>3, <1>6
  <2>4. QED  BY <2>1, <2>2, <2>3, ServiceTask
<1>8. SocketsInv' /\ EndsInv'
  <2>1. ASSUME NEW r \in Process, NEW y \in Process
        PROVE  connections'[r][y].socket = connections[r][y].socket
    <3>1. CASE <<r, y>> = <<q, i>>
      BY <1>1, <1>3, <3>1
    <3>2. CASE <<r, y>> # <<q, i>>
      BY <1>3, <3>2
    <3>3. QED  BY <3>1, <3>2
  <2>2. QED  BY <1>3, <2>1, SocketsSame
<1>9. Structure'
  BY <1>6, <1>7, <1>8 DEF Structure
<1>10. AnsweredWith(q, i, c, Message(type, serial, call))
  BY <1>2, <1>3 DEF AnsweredWith
<1>11. QED  BY <1>1, <1>2, <1>3, <1>5, <1>6, <1>9, <1>10

LEMMA DispatchAnswerStructure ==
  ASSUME TypeInv, Structure, NEW p \in Clients, DispatchAnswer(p)
  PROVE  LET q == stack[p][2].peer
             rest == stack[p][2].rest
         IN  /\ Structure' /\ Len(stack[p]) = 2 /\ Len(stack'[p]) = 2
             /\ q \in Services /\ rest \in Seq(MessageType) /\ rest # << >>
             /\ stack'[p][1] = stack[p][1] /\ stack'[p][2].kind = "loop"
             /\ stack'[p][2].peer = q /\ stack'[p][2].rest = Tail(rest)
             /\ \A r \in Process \ {p} : stack'[r] = stack[r]
             /\ \A r, y \in Process :
                  <<r, y>> # <<p, q>> => connections'[r][y] = connections[r][y]
             /\ connections'[p][q].socket = connections[p][q].socket
             /\ connections'[p][q].writeSerial = connections[p][q].writeSerial
             /\ connections'[p][q].writeQueue = connections[p][q].writeQueue
             /\ connections'[p][q].readSerial = connections[p][q].readSerial + 1
             /\ sockets' = sockets
             /\ requests' = [requests EXCEPT ![p][q] =
                  [s \in DOMAIN requests[p][q] |->
                     IF s = Head(rest).serial THEN Told(requests[p][q][s], Head(rest))
                                              ELSE requests[p][q][s]]]
<1>1. /\ Turn(p, Outcome) /\ p \in Process /\ UNCHANGED <<sockets, broken, calls, releases, crashes>>
  BY Kinds DEF DispatchAnswer
<1> PICK q : q = stack[p][2].peer
  OBVIOUS
<1> PICK rest : rest = stack[p][2].rest
  OBVIOUS
<1>2. /\ Looping(p) /\ ~Idle(p) /\ Len(stack[p]) = 2 /\ Top(p) = stack[p][2]
      /\ q \in Services /\ q \in Process /\ rest \in Seq(MessageType)
      /\ rest # << >> /\ Current(p) = Head(rest) /\ Rest(p) = Tail(rest) /\ Top(p).peer = q
      /\ Conn(p) = connections[p][q]
  BY <1>1, TurnIs, LoopingIs, Kinds DEF Conn
<1>3. /\ Tail(rest) \in Seq(MessageType)
      /\ Counted(p).socket = connections[p][q].socket
      /\ Counted(p).writeSerial = connections[p][q].writeSerial
      /\ Counted(p).writeQueue = connections[p][q].writeQueue
      /\ Counted(p).readSerial = connections[p][q].readSerial + 1
      /\ Counted(p).readTask = << >>
  BY <1>1, <1>2, CurrentIs
<1> PICK c : c = Counted(p)
  OBVIOUS
<1>4. /\ connections' = [connections EXCEPT ![p][q] = c]
      /\ SetTop(p, LoopFrame(q, Tail(rest), << >>))
      /\ requests' = [requests EXCEPT ![p][q] =
                  [s \in DOMAIN requests[p][q] |->
                     IF s = Head(rest).serial THEN Told(requests[p][q][s], Head(rest))
                                              ELSE requests[p][q][s]]]
  BY <1>2 DEF DispatchAnswer
<1>5. /\ connections'[p][q] = c
      /\ \A r, y \in Process : <<r, y>> # <<p, q>> => connections'[r][y] = connections[r][y]
      /\ \A r \in Process \ {p} : connections'[r] = connections[r]
  BY <1>1, <1>2, <1>4 DEF TypeInv, ConnectionsType
<1>6. PICK f : f = LoopFrame(q, Tail(rest), << >>)
  OBVIOUS
<1>7. f \in FrameType /\ f.kind = "loop" /\ f.peer = q /\ f.rest = Tail(rest) /\ f.serving = << >>
  <2>1. << >> \in Seq(ServedType)
    BY EmptySeq
  <2>2. f \in FrameType
    BY <1>2, <1>3, <1>6, <2>1, FrameTypes
  <2>3. QED  BY <1>6, <2>2 DEF LoopFrame
<1>8. /\ Len(stack'[p]) = 2 /\ stack'[p][2] = f /\ stack'[p][1] = stack[p][1]
      /\ \A r \in Process \ {p} : stack'[r] = stack[r]
  <2>1. SetTop(p, f)
    BY <1>4, <1>6
  <2>2. /\ Len(stack'[p]) = Len(stack[p]) /\ stack'[p][Len(stack[p])] = f
        /\ \A i \in 1 .. Len(stack[p]) - 1 : stack'[p][i] = stack[p][i]
        /\ \A r \in Process \ {p} : stack'[r] = stack[r]
    BY <1>1, <1>2, <1>7, <2>1, TopSet
  <2>3. QED  BY <1>2, <2>2
<1>9. ASSUME NEW r \in Clients PROVE ClientStack(r)'
  <2>1. ClientStack(r)
    BY DEF Structure, StackShape
  <2>2. CASE r # p
    <3>1. stack'[r] = stack[r]
      BY <1>8, <2>2, Kinds
    <3>2. QED  BY <2>1, <3>1 DEF ClientStack
  <2>3. CASE r = p
    <3>1. 2 <= 2 /\ 2 > 0
      OBVIOUS
    <3>2. stack[p][1].kind = "wait" /\ stack[p][1].peer \in Services
      BY <1>2, <2>1, <2>3, <3>1 DEF ClientStack
    <3>3. QED  BY <1>2, <1>7, <1>8, <2>3, <3>1, <3>2 DEF ClientStack
  <2>4. QED  BY <2>2, <2>3
<1>10. \A r \in Services : stack'[r] = stack[r] /\ connections'[r] = connections[r]
  BY <1>5, <1>8, Kinds
<1>11. ASSUME NEW r \in Clients, NEW x \in Process PROVE connections'[r][x].readTask = << >>
  <2>1. CASE <<r, x>> = <<p, q>>
    BY <1>3, <1>5, <2>1
  <2>2. CASE <<r, x>> # <<p, q>>
    BY <1>5, <2>2, Kinds DEF Structure, TasksInv
  <2>3. QED  BY <2>1, <2>2
<1>12. SocketsInv' /\ EndsInv'
  <2>1. ASSUME NEW r \in Process, NEW y \in Process
        PROVE  connections'[r][y].socket = connections[r][y].socket
    <3>1. CASE <<r, y>> = <<p, q>>
      BY <1>3, <1>5, <3>1
    <3>2. CASE <<r, y>> # <<p, q>>
      BY <1>5, <3>2
    <3>3. QED  BY <3>1, <3>2
  <2>2. QED  BY <1>1, <2>1, SocketsSame
<1>13. Structure'
  BY <1>1, <1>9, <1>10, <1>11, <1>12, ServicesSame DEF Structure, StackShape, TasksInv
<1>14. QED  BY <1>1, <1>2, <1>3, <1>4, <1>5, <1>7, <1>8, <1>13

\* A service gets a new object for the connector's image; the one it had is closed.
LEMMA AcceptStructure ==
  ASSUME TypeInv, Structure, NEW q \in Process, NEW n \in DOMAIN sockets, Accept(q, n),
         NEW p, p = sockets[n].from, NEW i, i = Image[p]
  PROVE  /\ Structure' /\ p \in Clients /\ q \in Services /\ stack' = stack /\ calls' = calls
         /\ requests' = requests /\ Len(stack[q]) = 0 /\ sockets[n].to = q /\ i \in Process
         /\ ~sockets[n].accepted /\ connections[q][i].socket # n
         /\ connections'[q][i] = [NewConnection EXCEPT !.socket = n]
         /\ \A r, y \in Process : <<r, y>> # <<q, i>> => connections'[r][y] = connections[r][y]
         /\ DOMAIN sockets' = DOMAIN sockets
         /\ sockets'[n].wire = sockets[n].wire
         /\ \A k \in DOMAIN sockets :
              /\ sockets'[k].from = sockets[k].from /\ sockets'[k].to = sockets[k].to
              /\ k # n => \/ sockets'[k].wire = sockets[k].wire
                          \/ \A y \in Process : sockets'[k].wire[y] = << >>
<1> PICK old : old = connections[q][i].socket
  OBVIOUS
<1>1. /\ Polling(q) /\ sockets[n].to = q /\ ~sockets[n].accepted
      /\ sockets' = [s \in DOMAIN sockets |->
              CASE s = n   -> [sockets[s] EXCEPT !.accepted = TRUE]
                [] s = old -> Closed(sockets[s])
                [] OTHER   -> sockets[s]]
      /\ connections' = [connections EXCEPT ![q][i] = [NewConnection EXCEPT !.socket = n]]
      /\ broken' = IF \E k \in DOMAIN stack[q] :
                        stack[q][k].kind = "loop" /\ stack[q][k].peer = i
                     THEN broken \cup {q} ELSE broken
      /\ stack' = stack /\ calls' = calls /\ requests' = requests
  BY DEF Accept, NextInBacklog, Backlog
<1>2. p \in Clients /\ q \in Services /\ p \in Process /\ i \in Process /\ SocketOK(n)
  <2>1. SocketOK(n)
    BY DEF Structure, SocketsInv
  <2>2. QED  BY <1>1, <2>1, Kinds DEF SocketOK
<1>3. Len(stack[q]) = 0
  BY <1>1, <1>2, PollingIs
<1>4. broken' = broken
  <2>1. DOMAIN stack[q] = {}
    BY <1>3, StackIs
  <2>2. QED  BY <1>1, <2>1
<1>5. old # n
  <2>1. n # 0
    BY SocketIs
  <2>2. old # 0 => sockets[old].accepted
    BY <1>2, EndIs DEF HasSocket
  <2>3. QED  BY <1>1, <2>1, <2>2
<1>6. PICK c : c = [NewConnection EXCEPT !.socket = n]
  OBVIOUS
<1>7. /\ connections'[q][i] = c
      /\ \A r, y \in Process : <<r, y>> # <<q, i>> => connections'[r][y] = connections[r][y]
      /\ c.socket = n /\ c.readTask = << >>
  BY <1>1, <1>2, <1>6 DEF TypeInv, ConnectionsType, NewConnection
<1>8. /\ DOMAIN sockets' = DOMAIN sockets
      /\ sockets'[n] = [sockets[n] EXCEPT !.accepted = TRUE]
      /\ old \in DOMAIN sockets => sockets'[old] = Closed(sockets[old])
      /\ \A k \in DOMAIN sockets : k # n /\ k # old => sockets'[k] = sockets[k]
  BY <1>1, <1>5
<1>9. /\ sockets'[n].from = sockets[n].from /\ sockets'[n].to = sockets[n].to
      /\ sockets'[n].accepted /\ sockets'[n].up = sockets[n].up
      /\ sockets'[n].wire = sockets[n].wire
  <2>1. sockets[n] \in SocketType
    BY SocketIs
  <2>2. QED  BY <1>8, <2>1 DEF SocketType
<1>10. ASSUME old \in DOMAIN sockets
       PROVE  /\ sockets'[old].from = sockets[old].from /\ sockets'[old].to = sockets[old].to
              /\ sockets'[old].accepted = sockets[old].accepted /\ ~sockets'[old].up
              /\ \A y \in Process : sockets'[old].wire[y] = << >>
  <2>1. PICK s \in SocketType : s = sockets[old]
    BY <1>10, SocketIs
  <2>2. \A y \in Process : Closed(s).wire[y] = << >>
    BY ClosedType
  <2>3. /\ Closed(s).from = s.from /\ Closed(s).to = s.to /\ Closed(s).accepted = s.accepted
        /\ ~Closed(s).up
    BY DEF Closed, SocketType
  <2>4. QED  BY <1>8, <1>10, <2>1, <2>2, <2>3
<1>11. ASSUME NEW k \in DOMAIN sockets
       PROVE  /\ sockets'[k].from = sockets[k].from /\ sockets'[k].to = sockets[k].to
              /\ k # n => \/ sockets'[k].wire = sockets[k].wire
                          \/ \A y \in Process : sockets'[k].wire[y] = << >>
              /\ k # n => sockets'[k].accepted = sockets[k].accepted
  <2>1. CASE k = n
    BY <1>9, <2>1
  <2>2. CASE k = old
    BY <1>10, <2>2
  <2>3. CASE k # n /\ k # old
    BY <1>8, <2>3
  <2>4. QED  BY <2>1, <2>2, <2>3
<1>12. ASSUME NEW k \in DOMAIN sockets PROVE SocketOK(k)'
  <2>1. SocketOK(k)
    BY DEF Structure, SocketsInv
  <2>2. /\ sockets[k].from \in Process /\ sockets[k].to \in Process
        /\ Image[sockets[k].from] \in Process /\ sockets[k].from # q
        /\ sockets[k].from \in Clients /\ sockets[k].to \in Services
    BY <1>2, <2>1, Kinds DEF SocketOK
  <2>3. CASE k = n
    <3>1. /\ sockets'[k].from = p /\ sockets'[k].to = q /\ sockets'[k].accepted
          /\ sockets'[k].up = sockets[k].up /\ sockets'[k].wire = sockets[k].wire
      BY <1>1, <1>9, <2>3
    <3>2. connections'[p][q] = connections[p][q]
      BY <1>2, <1>7, <2>2, <2>3
    <3>3. connections'[q][Image[p]].socket = n
      BY <1>7
    <3>4. connections'[q][Image[p]] = connections'[q][i] /\ n = k
      BY <2>3
    <3>5. sockets[n].up => connections[p][q].socket = n
      BY <1>1, <1>2 DEF SocketOK
    <3>6. ~sockets[n].up => \A x \in Process : sockets[n].wire[x] = << >>
      BY <1>2 DEF SocketOK
    <3>7. /\ sockets'[k].up => connections'[p][q].socket = k
          /\ ~sockets'[k].up => \A x \in Process : sockets'[k].wire[x] = << >>
          /\ connections'[q][Image[p]].socket = k
      BY <3>1, <3>2, <3>3, <3>4, <3>5, <3>6
    <3>8. QED  BY <1>2, <3>1, <3>7 DEF SocketOK
  <2>4. CASE k = old
    <3>1. sockets[k].accepted
      <4>1. k # 0
        BY SocketIs
      <4>2. HasSocket(q, i) /\ q \in Process
        BY <1>2, <2>4, <4>1, Kinds DEF HasSocket
      <4>3. sockets[connections[q][i].socket].accepted
        BY <1>2, <4>2, EndIs
      <4>4. QED  BY <2>4, <4>3
    <3>2. QED  BY <1>10, <2>2, <2>4, <3>1 DEF SocketOK
  <2>5. CASE k # n /\ k # old
    <3>1. sockets'[k] = sockets[k]
      BY <1>8, <2>5
    <3>2. connections'[sockets[k].from][sockets[k].to] =
            connections[sockets[k].from][sockets[k].to]
      BY <1>7, <2>2
    <3>3. sockets[k].up /\ sockets[k].accepted =>
            connections'[sockets[k].to][Image[sockets[k].from]].socket = k
      <4>1. CASE <<sockets[k].to, Image[sockets[k].from]>> = <<q, i>>
        BY <2>1, <2>5, <4>1 DEF SocketOK
      <4>2. CASE <<sockets[k].to, Image[sockets[k].from]>> # <<q, i>>
        BY <1>7, <2>1, <2>2, <4>2 DEF SocketOK
      <4>3. QED  BY <4>1, <4>2
    <3>4. QED  BY <2>1, <3>1, <3>2, <3>3 DEF SocketOK
  <2>6. QED  BY <2>3, <2>4, <2>5
<1>13. EndsInv'
  <2>1. ASSUME NEW r \in Clients, NEW y \in Process PROVE ClientEnd(r, y)'
    <3>1. connections'[r][y] = connections[r][y] /\ r \in Process /\ ClientEnd(r, y)
      BY <1>2, <1>7, Kinds DEF Structure, EndsInv
    <3>2. connections[r][y].socket # 0 => connections[r][y].socket \in DOMAIN sockets
      BY <3>1, ConnectionIs
    <3>3. QED  BY <1>11, <3>1, <3>2 DEF ClientEnd, HasSocket, SocketOf
  <2>2. ASSUME NEW r \in Services, NEW y \in Process PROVE ServiceEnd(r, y)'
    <3>1. CASE <<r, y>> = <<q, i>>
      <4>1. r = q /\ y = i /\ connections'[r][y].socket = n
        BY <1>7, <3>1
      <4>2. sockets'[n].to = r /\ Image[sockets'[n].from] = y /\ sockets'[n].accepted
        BY <1>1, <1>9, <4>1
      <4>3. QED  BY <4>1, <4>2 DEF ServiceEnd, HasSocket, SocketOf
    <3>2. CASE <<r, y>> # <<q, i>>
      <4>1. connections'[r][y] = connections[r][y] /\ r \in Process /\ ServiceEnd(r, y)
        BY <1>7, <3>2, Kinds DEF Structure, EndsInv
      <4>2. connections[r][y].socket # 0 => connections[r][y].socket \in DOMAIN sockets
        BY <4>1, ConnectionIs
      <4>3. connections[r][y].socket = n => HasSocket(r, y)
        BY SocketIs DEF HasSocket
      <4>4. connections[r][y].socket # n
        BY <1>1, <4>1, <4>3 DEF ServiceEnd, SocketOf
      <4>5. QED  BY <1>11, <4>1, <4>2, <4>4 DEF ServiceEnd, HasSocket, SocketOf
    <3>3. QED  BY <3>1, <3>2
  <2>3. QED  BY <2>1, <2>2 DEF EndsInv
<1>14. StackShape'
  <2>1. \A r \in Clients : ClientStack(r)'
    BY <1>1 DEF Structure, StackShape, ClientStack
  <2>2. ASSUME NEW r \in Services PROVE ServiceStack(r)'
    <3>1. ServiceStack(r) /\ r \in Process
      BY Kinds DEF Structure, StackShape
    <3>2. Len(stack[r]) = 1 => r # q /\ stack[r][1].peer \in Process
      BY <1>3, <3>1, StackIs, FrameIs
    <3>3. Len(stack[r]) = 1 =>
            connections'[r][stack[r][1].peer] = connections[r][stack[r][1].peer]
      BY <1>7, <3>1, <3>2
    <3>4. QED  BY <1>1, <3>1, <3>3 DEF ServiceStack
  <2>3. QED  BY <2>1, <2>2 DEF StackShape
<1>15. TasksInv'
  <2>1. ASSUME NEW r \in Process, NEW y \in Process, connections'[r][y].readTask # << >>
        PROVE  connections[r][y].readTask # << >>
    <3>1. <<r, y>> # <<q, i>>
      BY <1>7, <2>1
    <3>2. QED  BY <1>7, <2>1, <3>1
  <2>2. QED  BY <1>1, <2>1, Kinds DEF Structure, TasksInv, InService
<1>16. Structure'
  BY <1>4, <1>12, <1>8, <1>13, <1>14, <1>15 DEF Structure, SocketsInv
<1>17. \A k \in DOMAIN sockets :
         /\ sockets'[k].from = sockets[k].from /\ sockets'[k].to = sockets[k].to
         /\ k # n => \/ sockets'[k].wire = sockets[k].wire
                     \/ \A y \in Process : sockets'[k].wire[y] = << >>
  BY <1>11
<1>18. connections[q][i].socket # n /\ connections'[q][i] = [NewConnection EXCEPT !.socket = n]
  BY <1>5, <1>6, <1>7
<1>19. DOMAIN sockets' = DOMAIN sockets /\ sockets'[n].wire = sockets[n].wire
  BY <1>8, <1>9
<1>20. \A r, y \in Process : <<r, y>> # <<q, i>> => connections'[r][y] = connections[r][y]
  BY <1>7
<1>21. QED  BY <1>1, <1>2, <1>3, <1>16, <1>17, <1>18, <1>19, <1>20

\* A process ends: its sockets close, its objects and frames go, the call it ran is lost.
LEMMA EndsStructure ==
  ASSUME TypeInv, Structure, NEW p \in Process, Ends(p)
  PROVE  /\ Structure' /\ Len(stack'[p]) = 0 /\ \A r \in Process \ {p} : stack'[r] = stack[r]
         /\ \A x \in Process : connections'[p][x] = NewConnection
         /\ \A r \in Process \ {p} : connections'[r] = connections[r] /\ requests'[r] = requests[r]
         /\ DOMAIN sockets' = DOMAIN sockets
         /\ \A k \in DOMAIN sockets :
              /\ sockets'[k].from = sockets[k].from /\ sockets'[k].to = sockets[k].to
              /\ p \in {sockets[k].from, sockets[k].to} =>
                   \A y \in Process : sockets'[k].wire[y] = << >>
              /\ p \notin {sockets[k].from, sockets[k].to} =>
                   sockets'[k].wire = sockets[k].wire
         /\ DOMAIN calls' = DOMAIN calls
         /\ \A c \in DOMAIN calls :
              /\ calls'[c].from = calls[c].from /\ calls'[c].to = calls[c].to
              /\ calls'[c].runs = calls[c].runs /\ calls'[c].answer = calls[c].answer
              /\ \/ calls'[c].run = calls[c].run
                 \/ /\ calls'[c].run = "lost" /\ p \in Services /\ InService(p)
                    /\ c = stack[p][1].serving[1].call
<1>1. /\ connections' = [connections EXCEPT ![p] = [q \in Process |-> NewConnection]]
      /\ sockets' = [s \in DOMAIN sockets |->
           IF p \in {sockets[s].from, sockets[s].to}
             THEN [Closed(sockets[s]) EXCEPT
                     !.orphan = @ \/ (~sockets[s].accepted /\ sockets[s].from = p),
                     !.accepted = @ \/ sockets[s].to = p]
             ELSE sockets[s]]
      /\ requests' = [requests EXCEPT ![p] = [q \in Process |-> << >>]]
      /\ stack' = [stack EXCEPT ![p] = << >>]
      /\ broken' = broken \ {p}
      /\ calls' = [c \in DOMAIN calls |->
           IF c \in Served(p) THEN [calls[c] EXCEPT !.run = "lost"] ELSE calls[c]]
  BY DEF Ends
<1>2. /\ Len(stack'[p]) = 0 /\ \A r \in Process \ {p} : stack'[r] = stack[r]
      /\ \A x \in Process : connections'[p][x] = NewConnection
      /\ \A r \in Process \ {p} : connections'[r] = connections[r] /\ requests'[r] = requests[r]
  <2>1. /\ stack'[p] = << >> /\ \A r \in Process \ {p} : stack'[r] = stack[r]
    BY <1>1 DEF TypeInv, StackType
  <2>2. /\ \A x \in Process : connections'[p][x] = NewConnection
        /\ \A r \in Process \ {p} : connections'[r] = connections[r]
    BY <1>1 DEF TypeInv, ConnectionsType
  <2>3. \A r \in Process \ {p} : requests'[r] = requests[r]
    BY <1>1 DEF TypeInv, RequestsType
  <2>4. Len(<< >>) = 0
    BY EmptySeq
  <2>5. QED  BY <2>1, <2>2, <2>3, <2>4
<1>3. DOMAIN sockets' = DOMAIN sockets
  BY <1>1
<1>4. ASSUME NEW k \in DOMAIN sockets
      PROVE  /\ sockets'[k].from = sockets[k].from /\ sockets'[k].to = sockets[k].to
             /\ p \in {sockets[k].from, sockets[k].to} =>
                  /\ ~sockets'[k].up /\ \A y \in Process : sockets'[k].wire[y] = << >>
                  /\ sockets[k].accepted => sockets'[k].accepted
             /\ p \notin {sockets[k].from, sockets[k].to} => sockets'[k] = sockets[k]
  <2>1. CASE p \notin {sockets[k].from, sockets[k].to}
    BY <1>1, <2>1
  <2>2. CASE p \in {sockets[k].from, sockets[k].to}
    <3>1. PICK s \in SocketType : s = sockets[k]
      BY SocketIs
    <3>2. PICK t \in SocketType : t = Closed(s) /\ \A y \in Process : t.wire[y] = << >>
      BY ClosedType
    <3>3. t.from = s.from /\ t.to = s.to /\ t.accepted = s.accepted /\ ~t.up
      BY <3>2 DEF Closed, SocketType
    <3>4. PICK o \in BOOLEAN : o = (t.orphan \/ (~s.accepted /\ s.from = p))
      OBVIOUS
    <3>5. PICK a \in BOOLEAN : a = (t.accepted \/ s.to = p)
      OBVIOUS
    <3>6. sockets'[k] = [t EXCEPT !.orphan = o, !.accepted = a]
      BY <1>1, <2>2, <3>1, <3>2, <3>4, <3>5
    <3>7. /\ sockets'[k].from = t.from /\ sockets'[k].to = t.to /\ sockets'[k].up = t.up
          /\ sockets'[k].wire = t.wire /\ sockets'[k].accepted = a
      BY <3>6 DEF SocketType
    <3>8. QED  BY <2>2, <3>1, <3>2, <3>3, <3>5, <3>7
  <2>3. QED  BY <2>1, <2>2
<1>5. NewConnection.socket = 0 /\ NewConnection.readTask = << >>
  BY DEF NewConnection
<1>6. ASSUME NEW k \in DOMAIN sockets PROVE SocketOK(k)'
  <2>1. SocketOK(k)
    BY DEF Structure, SocketsInv
  <2>2. /\ sockets[k].from \in Process /\ sockets[k].to \in Process
        /\ sockets'[k].from \in Clients /\ sockets'[k].to \in Services
    BY <1>4, <2>1, Kinds DEF SocketOK
  <2>3. CASE p \in {sockets[k].from, sockets[k].to}
    BY <1>4, <2>2, <2>3 DEF SocketOK
  <2>4. CASE p \notin {sockets[k].from, sockets[k].to}
    <3>1. /\ connections'[sockets[k].from] = connections[sockets[k].from]
          /\ connections'[sockets[k].to] = connections[sockets[k].to]
          /\ sockets'[k] = sockets[k]
      BY <1>2, <1>4, <2>2, <2>4
    <3>2. QED  BY <2>1, <3>1 DEF SocketOK
  <2>5. QED  BY <2>3, <2>4
<1>7. EndsInv'
  <2>1. ASSUME NEW r \in Process, NEW y \in Process, connections'[r][y].socket # 0
        PROVE  /\ connections'[r][y] = connections[r][y] /\ HasSocket(r, y)
               /\ connections[r][y].socket \in DOMAIN sockets
    <3>1. r # p
      BY <1>2, <1>5, <2>1
    <3>2. connections'[r][y] = connections[r][y]
      BY <1>2, <3>1
    <3>3. QED  BY <2>1, <3>2, ConnectionIs DEF HasSocket
  <2>2. ASSUME NEW r \in Clients, NEW y \in Process PROVE ClientEnd(r, y)'
    <3>1. r \in Process /\ ClientEnd(r, y)
      BY Kinds DEF Structure, EndsInv
    <3>2. QED  BY <1>4, <2>1, <3>1 DEF ClientEnd, HasSocket, SocketOf
  <2>3. ASSUME NEW r \in Services, NEW y \in Process PROVE ServiceEnd(r, y)'
    <3>1. r \in Process /\ ServiceEnd(r, y)
      BY Kinds DEF Structure, EndsInv
    <3>2. \A k \in DOMAIN sockets : sockets[k].accepted => sockets'[k].accepted
      BY <1>4
    <3>3. ASSUME connections'[r][y].socket # 0
          PROVE  /\ SocketOf(r, y)'.to = r /\ Image[SocketOf(r, y)'.from] = y
                 /\ SocketOf(r, y)'.accepted
      <4>1. PICK k \in DOMAIN sockets : k = connections[r][y].socket
        BY <2>1, <3>1, <3>3
      <4>2. sockets[k].to = r /\ Image[sockets[k].from] = y /\ sockets[k].accepted
        BY <2>1, <3>1, <3>3, <4>1 DEF ServiceEnd, SocketOf
      <4>3. connections'[r][y].socket = k
        BY <2>1, <3>1, <3>3, <4>1
      <4>4. QED  BY <1>4, <3>2, <4>1, <4>2, <4>3 DEF SocketOf
    <3>4. QED  BY <3>3 DEF ServiceEnd, HasSocket
  <2>4. QED  BY <2>2, <2>3 DEF EndsInv
<1>8. StackShape'
  <2>1. ASSUME NEW r \in Clients PROVE ClientStack(r)'
    <3>1. ClientStack(r) /\ r \in Process
      BY Kinds DEF Structure, StackShape
    <3>2. CASE r = p
      <4>1. Len(stack'[r]) = 0 /\ 0 <= 2 /\ ~(0 > 0) /\ 0 # 2
        BY <1>2, <3>2
      <4>2. QED  BY <4>1 DEF ClientStack
    <3>3. CASE r # p
      <4>1. stack'[r] = stack[r]
        BY <1>2, <3>1, <3>3
      <4>2. QED  BY <3>1, <4>1 DEF ClientStack
    <3>4. QED  BY <3>2, <3>3
  <2>2. ASSUME NEW r \in Services PROVE ServiceStack(r)'
    <3>1. ServiceStack(r) /\ r \in Process
      BY Kinds DEF Structure, StackShape
    <3>2. CASE r = p
      <4>1. Len(stack'[r]) = 0 /\ 0 <= 1 /\ 0 # 1
        BY <1>2, <3>2
      <4>2. QED  BY <4>1 DEF ServiceStack
    <3>3. CASE r # p
      <4>1. stack'[r] = stack[r] /\ connections'[r] = connections[r]
        BY <1>2, <3>1, <3>3
      <4>2. QED  BY <3>1, <4>1 DEF ServiceStack
    <3>4. QED  BY <3>2, <3>3
  <2>3. QED  BY <2>1, <2>2 DEF StackShape
<1>9. TasksInv'
  <2>1. ASSUME NEW r \in Process, NEW y \in Process, connections'[r][y].readTask # << >>
        PROVE  /\ connections[r][y].readTask # << >> /\ stack'[r] = stack[r]
    BY <1>2, <1>5, <2>1
  <2>2. QED  BY <2>1, Kinds DEF Structure, TasksInv, InService
<1>10. broken' = {}
  BY <1>1 DEF Structure
<1>11. Structure'
  BY <1>3, <1>6, <1>7, <1>8, <1>9, <1>10 DEF Structure, SocketsInv
<1>12. ASSUME NEW c \in Served(p)
       PROVE  p \in Services /\ InService(p) /\ c = stack[p][1].serving[1].call
  <2>1. PICK i \in DOMAIN stack[p] : /\ stack[p][i].kind = "loop" /\ stack[p][i].serving # << >>
                                     /\ c = stack[p][i].serving[1].call
    BY <1>12 DEF Served
  <2>2. i \in 1 .. Len(stack[p]) /\ Len(stack[p]) \in Nat
    BY StackIs
  <2>3. p \notin Clients
    <3> SUFFICES ASSUME p \in Clients PROVE FALSE
      OBVIOUS
    <3>1. ClientStack(p)
      BY DEF Structure, StackShape
    <3>2. PICK k \in Nat : k = Len(stack[p]) /\ k <= 2
      BY <2>2, <3>1 DEF ClientStack
    <3>3. PICK j \in Nat \ {0} : j = i /\ j <= k
      BY <2>2, <3>2
    <3>4. (j = 1 \/ j = 2) /\ (j = 2 => k = 2) /\ k > 0
      <4>1. \A u \in Nat \ {0}, v \in Nat : u <= v /\ v <= 2 =>
              (u = 1 \/ u = 2) /\ (u = 2 => v = 2) /\ v > 0
        OBVIOUS
      <4>2. j <= k /\ k <= 2
        BY <3>2, <3>3
      <4>3. QED  BY <4>1, <4>2
    <3>5. "wait" # "loop"
      OBVIOUS
    <3>6. QED  BY <2>1, <3>1, <3>2, <3>3, <3>4, <3>5 DEF ClientStack
  <2>4. p \in Services /\ ServiceStack(p)
    BY <2>3, Kinds DEF Structure, StackShape
  <2>5. PICK k \in Nat : k = Len(stack[p]) /\ k <= 1
    BY <2>2, <2>4 DEF ServiceStack
  <2>6. PICK j \in Nat \ {0} : j = i /\ j <= k
    BY <2>2, <2>5
  <2>7. j = 1 /\ k = 1
    <3>1. \A u \in Nat \ {0}, v \in Nat : u <= v /\ v <= 1 => u = 1 /\ v = 1
      OBVIOUS
    <3>2. j <= k /\ k <= 1
      BY <2>5, <2>6
    <3>3. QED  BY <3>1, <3>2
  <2>8. QED  BY <2>1, <2>4, <2>5, <2>6, <2>7 DEF InService
<1>13. ASSUME NEW c \in DOMAIN calls
       PROVE  /\ calls'[c].from = calls[c].from /\ calls'[c].to = calls[c].to
              /\ calls'[c].runs = calls[c].runs /\ calls'[c].answer = calls[c].answer
              /\ \/ calls'[c].run = calls[c].run
                 \/ /\ calls'[c].run = "lost" /\ p \in Services /\ InService(p)
                    /\ c = stack[p][1].serving[1].call
  <2>1. CASE c \notin Served(p)
    BY <1>1, <2>1
  <2>2. CASE c \in Served(p)
    <3>1. calls'[c] = [calls[c] EXCEPT !.run = "lost"] /\ calls[c] \in CallType
      BY <1>1, <2>2, CallIs
    <3>2. QED  BY <1>12, <2>2, <3>1 DEF CallType
  <2>3. QED  BY <2>1, <2>2
<1>14. DOMAIN calls' = DOMAIN calls
  BY <1>1
<1>15. \A k \in DOMAIN sockets :
         /\ sockets'[k].from = sockets[k].from /\ sockets'[k].to = sockets[k].to
         /\ p \in {sockets[k].from, sockets[k].to} =>
              \A y \in Process : sockets'[k].wire[y] = << >>
         /\ p \notin {sockets[k].from, sockets[k].to} => sockets'[k].wire = sockets[k].wire
  BY <1>4
<1>16. QED  BY <1>2, <1>3, <1>11, <1>13, <1>14, <1>15

\* Only a service accepts, and it does not while it serves: whoever meets an orphan ends.
LEMMA AcceptOrphanIs ==
  ASSUME TypeInv, Structure, NEW q \in Process, NEW n \in DOMAIN sockets, AcceptOrphan(q, n)
  PROVE  q \in Services /\ Ends(q)
<1>1. sockets[n].to = q /\ Polling(q)
  BY DEF AcceptOrphan, NextInBacklog, Backlog
<1>2. q \in Services
  BY <1>1 DEF Structure, SocketsInv, SocketOK
<1>3. Len(stack[q]) = 0 /\ ~(0 > 1)
  BY <1>1, <1>2, PollingIs
<1>4. QED  BY <1>2, <1>3 DEF AcceptOrphan

------------------------------------------------------------------------------
\* Streams of messages

Elements(s) == {s[i] : i \in 1 .. Len(s)}
Among(a, b, c) == Elements(a) \cup Elements(b) \cup Elements(c)

\* R relates the messages of a stream that passes through c, b and a.
Sorted(R, s) == \A i, j \in 1 .. Len(s) : i < j => <<s[i], s[j]>> \in R
Across(R, s, t) == \A m \in Elements(s), n \in Elements(t) : <<m, n>> \in R
Ordered(R, a, b, c) ==
  /\ Sorted(R, a) /\ Sorted(R, b) /\ Sorted(R, c)
  /\ Across(R, a, b) /\ Across(R, a, c) /\ Across(R, b, c)

\* No call is asked for twice.  Numbers grow.
OneEach ==
  {x \in MessageType \X MessageType :
     x[1].type = "invoke" /\ x[2].type = "invoke" => x[1].call # x[2].call}
ByNumber == {x \in MessageType \X MessageType : x[1].number < x[2].number}

\* Messages move along a stream or leave it; none comes in or overtakes another.
Rearranged(a, b, c, d, e, f) ==
  /\ Among(d, e, f) \subseteq Among(a, b, c)
  /\ \A R \in {OneEach, ByNumber} : Ordered(R, a, b, c) => Ordered(R, d, e, f)
Less(s, t) == s = t \/ s = << >>

------------------------------------------------------------------------------
\* What is on its way between a client p and a service q

\* q's connection object may be for a socket of another process of p's image, or
\* for a socket of p's that p has left already.
From(q, i, p) == HasSocket(q, i) /\ SocketOf(q, i).from = p
Linked(p, q) == HasSocket(p, q) /\ connections[q][Image[p]].socket = connections[p][q].socket

\* Requests: read by q, on the wire, queued by p.
ReadBy(q, i) == IF Len(stack[q]) = 1 /\ stack[q][1].peer = i THEN stack[q][1].rest ELSE << >>
Read(p, q) == IF From(q, Image[p], p) THEN ReadBy(q, Image[p]) ELSE << >>
ReadNow(p, q) == IF Linked(p, q) THEN ReadBy(q, Image[p]) ELSE << >>
OnWire(p, q, x) == IF HasSocket(p, q) THEN SocketOf(p, q).wire[x] ELSE << >>
Queued(p, q) == connections[p][q].writeQueue

\* Answers: read by p, on the wire, queued by q; and what q is to answer.
Handled(p, q) == IF Len(stack[p]) = 2 /\ stack[p][2].peer = q THEN stack[p][2].rest ELSE << >>
QueuedAnswers(p, q) == IF Linked(p, q) THEN connections[q][Image[p]].writeQueue ELSE << >>
ServedBy(q, i) ==
  IF InService(q) /\ stack[q][1].peer = i THEN Elements(stack[q][1].serving) ELSE {}
Pending(p, q) == IF Linked(p, q) THEN ServedBy(q, Image[p]) ELSE {}

\* The counters of the two ends, and the call p waits for.
Sends(p, q) == connections[p][q].writeSerial
Reads(p, q) == IF Linked(p, q) THEN connections[q][Image[p]].readSerial ELSE 0
Awaiting(p, q) == IF Len(stack[p]) # 0 /\ stack[p][1].peer = q THEN stack[p][1].call ELSE 0

\* A request asks for a call that has not run.  An answer tells what became of its.
Asks(C, p, q, m) ==
  /\ m.type \in Request
  /\ m.type = "release" => m.call = 0
  /\ m.type = "invoke" =>
       m.call \in DOMAIN C /\ C[m.call].from = p /\ C[m.call].to = q /\ C[m.call].run = "sent"
Answers(C, m) ==
  m.type \in Outcome /\ (m.call # 0 => m.call \in DOMAIN C /\ C[m.call].run = m.type)

\* With w messages sent and x awaited, only the last of them is about x.
Fits(w, x, serial, call) == serial < w /\ (x # 0 /\ serial + 1 = w => call = x)

\* q may have lost requests and count behind p, never ahead of it.
Requested(C, p, q, a, b, c) ==
  Ordered(OneEach, a, b, c) /\ \A m \in Among(a, b, c) : Asks(C, p, q, m)
Numbering(r, w, x, a, b, c) ==
  /\ r <= w /\ Ordered(ByNumber, a, b, c)
  /\ \A m \in Among(a, b, c) : r <= m.number /\ Fits(w, x, m.number, m.call)
Answered(C, w, x, d, e, f) ==
  \A m \in Among(d, e, f) : Answers(C, m) /\ Fits(w, x, m.serial, m.call)
Serves(w, x, S) == \A s \in S : Fits(w, x, s.serial, s.call)

PairInv(p, q) ==
  /\ Requested(calls, p, q, Read(p, q), OnWire(p, q, q), Queued(p, q))
  /\ Numbering(Reads(p, q), Sends(p, q), Awaiting(p, q),
               ReadNow(p, q), OnWire(p, q, q), Queued(p, q))
  /\ Answered(calls, Sends(p, q), Awaiting(p, q),
              Handled(p, q), OnWire(p, q, p), QueuedAnswers(p, q))
  /\ Serves(Sends(p, q), Awaiting(p, q), Pending(p, q))
PairsInv == \A p \in Clients, q \in Services : PairInv(p, q)

\* The method that runs is the one of a call to q.
ServiceInv(q) ==
  InService(q) =>
    LET served == stack[q][1].serving
    IN  /\ Len(served) = 1 /\ served[1].call \in DOMAIN calls
        /\ calls[served[1].call].to = q /\ calls[served[1].call].run = "running"
ServicesInv == \A q \in Services : ServiceInv(q)

\* A wait is for the last message sent, and its parser was told of no other call.
WaitInv(p) ==
  Len(stack[p]) # 0 =>
    LET w      == stack[p][1]
        parser == requests[p][w.peer][w.serial]
    IN  /\ w.call \in DOMAIN calls /\ calls[w.call].from = p
        /\ calls[w.call].answer = Unanswered
        /\ w.serial + 1 = Sends(p, w.peer)
        /\ parser # Unanswered =>
             /\ calls[w.call].run \in Outcome
             /\ parser = [outcome |-> calls[w.call].run, of |-> w.call]
WaitsInv == \A p \in Clients : WaitInv(p)

HistoryInv == \A c \in DOMAIN calls : calls[c].run = "sent" => calls[c].runs = 0

LeafInv ==
  /\ Structure /\ PairsInv /\ ServicesInv /\ WaitsInv
  /\ HistoryInv /\ RunsOnce /\ OwnAnswer

------------------------------------------------------------------------------
\* Lemmas about streams

LEMMA NoElements == Elements(<< >>) = {} /\ Len(<< >>) = 0
  BY DEF Elements

LEMMA AppendedElements ==
  ASSUME NEW T, NEW s \in Seq(T), NEW m \in T
  PROVE  Elements(Append(s, m)) = Elements(s) \cup {m}
<1> PICK t : t = Append(s, m)
  OBVIOUS
<1> PICK n \in Nat : n = Len(s)
  BY LenProperties
<1>1. Len(t) = n + 1 /\ (\A i \in 1 .. n : t[i] = s[i]) /\ t[n + 1] = m
  BY AppendProperties
<1>2. 1 .. n + 1 = 1 .. n \cup {n + 1} /\ n + 1 \in 1 .. n + 1
  OBVIOUS
<1>3. QED  BY <1>1, <1>2 DEF Elements

LEMMA TailElements ==
  ASSUME NEW T, NEW s \in Seq(T), s # << >>
  PROVE  /\ Head(s) \in Elements(s) /\ Tail(s) \in Seq(T)
         /\ Elements(Tail(s)) \subseteq Elements(s) /\ Head(s) \in T
<1> PICK t : t = Tail(s)
  OBVIOUS
<1> PICK n \in Nat \ {0} : n = Len(s)
  BY EmptySeq
<1>1. /\ t \in Seq(T) /\ Len(t) = n - 1 /\ (\A i \in 1 .. Len(t) : t[i] = s[i + 1])
      /\ Head(s) \in T
  BY HeadTailProperties
<1>2. 1 \in 1 .. n /\ \A i \in 1 .. n - 1 : i + 1 \in 1 .. n
  OBVIOUS
<1>3. Head(s) = s[1]
  OBVIOUS
<1>4. QED  BY <1>1, <1>2, <1>3 DEF Elements

LEMMA ElementsType ==
  ASSUME NEW T, NEW s \in Seq(T)
  PROVE  Elements(s) \subseteq T
  BY ElementOfSeq DEF Elements

LEMMA SortedAppend ==
  ASSUME NEW T, NEW s \in Seq(T), NEW m \in T, NEW R, Sorted(R, s),
         \A x \in Elements(s) : <<x, m>> \in R
  PROVE  Sorted(R, Append(s, m))
<1> PICK t : t = Append(s, m)
  OBVIOUS
<1> PICK n \in Nat : n = Len(s)
  BY LenProperties
<1>1. Len(t) = n + 1 /\ (\A i \in 1 .. n : t[i] = s[i]) /\ t[n + 1] = m
  BY AppendProperties
<1>2. \A i \in 1 .. n : <<s[i], m>> \in R
  BY DEF Elements
<1>3. \A i, j \in 1 .. n : i < j => <<s[i], s[j]>> \in R
  BY DEF Sorted
<1>4. \A i, j \in 1 .. n + 1 : i < j => i \in 1 .. n /\ (j \in 1 .. n \/ j = n + 1)
  OBVIOUS
<1>5. \A i, j \in 1 .. n + 1 : i < j => <<t[i], t[j]>> \in R
  BY <1>1, <1>2, <1>3, <1>4
<1>6. QED  BY <1>1, <1>5 DEF Sorted

LEMMA SortedTail ==
  ASSUME NEW T, NEW s \in Seq(T), s # << >>, NEW R, Sorted(R, s)
  PROVE  Sorted(R, Tail(s)) /\ \A x \in Elements(Tail(s)) : <<Head(s), x>> \in R
<1> PICK t : t = Tail(s)
  OBVIOUS
<1> PICK n \in Nat \ {0} : n = Len(s)
  BY EmptySeq
<1>1. Len(t) = n - 1 /\ \A i \in 1 .. n - 1 : t[i] = s[i + 1]
  BY HeadTailProperties
<1>2. \A i, j \in 1 .. n : i < j => <<s[i], s[j]>> \in R
  BY DEF Sorted
<1>3. /\ 1 \in 1 .. n /\ \A i \in 1 .. n - 1 : i + 1 \in 1 .. n /\ 1 < i + 1
      /\ \A i, j \in 1 .. n - 1 : i < j => i + 1 < j + 1
  OBVIOUS
<1>4. \A i, j \in 1 .. n - 1 : i < j => <<t[i], t[j]>> \in R
  BY <1>1, <1>2, <1>3
<1>5. \A i \in 1 .. n - 1 : <<s[1], t[i]>> \in R
  BY <1>1, <1>2, <1>3
<1>6. Head(s) = s[1]
  OBVIOUS
<1>7. QED  BY <1>1, <1>4, <1>5, <1>6 DEF Sorted, Elements

LEMMA NothingSorted ==
  ASSUME NEW R, NEW s
  PROVE  Sorted(R, << >>) /\ Across(R, << >>, s) /\ Across(R, s, << >>)
<1>1. 1 .. Len(<< >>) = {}
  BY NoElements
<1>2. QED  BY <1>1, NoElements DEF Sorted, Across

\* The first message of the last place moves to the middle one.
LEMMA MovesOn ==
  ASSUME NEW a \in Seq(MessageType), NEW b \in Seq(MessageType), NEW c \in Seq(MessageType),
         c # << >>
  PROVE  Rearranged(a, b, c, a, Append(b, Head(c)), Tail(c))
<1> PICK h \in MessageType : h = Head(c) /\ h \in Elements(c)
  BY TailElements
<1> PICK v \in Seq(MessageType) : v = Tail(c) /\ Elements(v) \subseteq Elements(c)
  BY TailElements
<1> PICK u : u = Append(b, h)
  OBVIOUS
<1>0. Elements(u) = Elements(b) \cup {h}
  BY AppendedElements
<1>1. ASSUME NEW R, Ordered(R, a, b, c) PROVE Ordered(R, a, u, v)
  <2>1. /\ Sorted(R, a) /\ Sorted(R, b) /\ Sorted(R, c)
        /\ Across(R, a, b) /\ Across(R, a, c) /\ Across(R, b, c)
    BY <1>1 DEF Ordered
  <2>2. Sorted(R, v) /\ \A x \in Elements(v) : <<h, x>> \in R
    BY <2>1, SortedTail
  <2>3. \A x \in Elements(b) : <<x, h>> \in R
    BY <2>1 DEF Across
  <2>4. Sorted(R, u)
    BY <2>1, <2>3, SortedAppend
  <2>5. Across(R, a, u) /\ Across(R, a, v) /\ Across(R, u, v)
    BY <1>0, <2>1, <2>2 DEF Across
  <2>6. QED  BY <2>1, <2>2, <2>4, <2>5 DEF Ordered
<1>2. Among(a, u, v) \subseteq Among(a, b, c)
  BY <1>0 DEF Among
<1>3. QED  BY <1>1, <1>2 DEF Rearranged

\* All messages of the middle place move to the first, empty one.
LEMMA MovesIn ==
  ASSUME NEW b, NEW c
  PROVE  Rearranged(<< >>, b, c, b, << >>, c)
<1> PICK a : a = << >>
  OBVIOUS
<1>1. ASSUME NEW R, Ordered(R, a, b, c) PROVE Ordered(R, b, a, c)
  BY <1>1, NothingSorted DEF Ordered
<1>2. Among(b, a, c) \subseteq Among(a, b, c)
  BY DEF Among
<1>3. QED  BY <1>1, <1>2 DEF Rearranged

\* The first message leaves.
LEMMA MovesOut ==
  ASSUME NEW a \in Seq(MessageType), NEW b, NEW c, a # << >>
  PROVE  /\ Rearranged(a, b, c, Tail(a), b, c) /\ Head(a) \in Among(a, b, c)
         /\ \A R : Ordered(R, a, b, c) => \A m \in Among(Tail(a), b, c) : <<Head(a), m>> \in R
<1> PICK h : h = Head(a) /\ h \in Elements(a)
  BY TailElements
<1> PICK v : v = Tail(a) /\ Elements(v) \subseteq Elements(a)
  BY TailElements
<1>1. ASSUME NEW R, Ordered(R, a, b, c)
      PROVE  Ordered(R, v, b, c) /\ \A m \in Among(v, b, c) : <<h, m>> \in R
  <2>1. /\ Sorted(R, a) /\ Sorted(R, b) /\ Sorted(R, c)
        /\ Across(R, a, b) /\ Across(R, a, c) /\ Across(R, b, c)
    BY <1>1 DEF Ordered
  <2>2. Sorted(R, v) /\ \A x \in Elements(v) : <<h, x>> \in R
    BY <2>1, SortedTail
  <2>3. Across(R, v, b) /\ Across(R, v, c)
    BY <2>1 DEF Across
  <2>4. \A m \in Among(v, b, c) : <<h, m>> \in R
    BY <2>1, <2>2 DEF Among, Across
  <2>5. QED  BY <2>1, <2>2, <2>3, <2>4 DEF Ordered
<1>2. Among(v, b, c) \subseteq Among(a, b, c) /\ h \in Among(a, b, c)
  BY DEF Among
<1>3. QED  BY <1>1, <1>2 DEF Rearranged

\* Places are emptied, or nothing happens.
LEMMA Emptied ==
  ASSUME NEW a, NEW b, NEW c, NEW d, NEW e, NEW f, Less(d, a), Less(e, b), Less(f, c)
  PROVE  Rearranged(a, b, c, d, e, f)
<1>1. ASSUME NEW R, Ordered(R, a, b, c) PROVE Ordered(R, d, e, f)
  <2>1. Sorted(R, d) /\ Sorted(R, e) /\ Sorted(R, f)
    BY <1>1, NothingSorted DEF Ordered, Less
  <2>2. Across(R, d, e) /\ Across(R, d, f) /\ Across(R, e, f)
    BY <1>1, NothingSorted DEF Ordered, Less
  <2>3. QED  BY <2>1, <2>2 DEF Ordered
<1>2. Elements(d) \subseteq Elements(a) /\ Elements(e) \subseteq Elements(b)
      /\ Elements(f) \subseteq Elements(c)
  BY NoElements DEF Less
<1>3. QED  BY <1>1, <1>2 DEF Rearranged, Among

\* A message comes in.
LEMMA ComesIn ==
  ASSUME NEW a \in Seq(MessageType), NEW b \in Seq(MessageType), NEW c \in Seq(MessageType),
         NEW m \in MessageType
  PROVE  /\ Among(a, b, Append(c, m)) = Among(a, b, c) \cup {m}
         /\ \A R : Ordered(R, a, b, c) /\ (\A n \in Among(a, b, c) : <<n, m>> \in R)
                     => Ordered(R, a, b, Append(c, m))
<1> PICK u : u = Append(c, m)
  OBVIOUS
<1>0. Elements(u) = Elements(c) \cup {m}
  BY AppendedElements
<1>1. ASSUME NEW R, Ordered(R, a, b, c), \A n \in Among(a, b, c) : <<n, m>> \in R
      PROVE  Ordered(R, a, b, u)
  <2>1. /\ Sorted(R, a) /\ Sorted(R, b) /\ Sorted(R, c)
        /\ Across(R, a, b) /\ Across(R, a, c) /\ Across(R, b, c)
    BY <1>1 DEF Ordered
  <2>2. Sorted(R, u)
    <3>1. \A x \in Elements(c) : <<x, m>> \in R
      BY <1>1 DEF Among
    <3>2. QED  BY <2>1, <3>1, SortedAppend
  <2>3. Across(R, a, u) /\ Across(R, b, u)
    BY <1>0, <1>1, <2>1 DEF Among, Across
  <2>4. QED  BY <2>1, <2>2, <2>3 DEF Ordered
<1>2. Among(a, b, u) = Among(a, b, c) \cup {m}
  BY <1>0 DEF Among
<1>3. QED  BY <1>1, <1>2

LEMMA AmongType ==
  ASSUME NEW a \in Seq(MessageType), NEW b \in Seq(MessageType), NEW c \in Seq(MessageType)
  PROVE  Among(a, b, c) \subseteq MessageType
  BY ElementsType DEF Among


\* Calls are made, and the runs of some, S, go on; an outcome is final.
Kept(C, D, S) ==
  /\ DOMAIN C \subseteq DOMAIN D
  /\ \A c \in DOMAIN C :
       /\ D[c].from = C[c].from /\ D[c].to = C[c].to
       /\ c \notin S => D[c].run = C[c].run /\ D[c].runs = C[c].runs
       /\ c \in S => C[c].run \notin Outcome
Spared(C, S, p, q) ==
  \A c \in S : c \in DOMAIN C /\ C[c].from = p /\ C[c].to = q => C[c].run # "sent"

LEMMA KeptAsks ==
  ASSUME NEW C, NEW D, NEW S, Kept(C, D, S), NEW p, NEW q, NEW m, Asks(C, p, q, m),
         m.type = "invoke" => m.call \notin S
  PROVE  Asks(D, p, q, m)
  BY DEF Kept, Asks

LEMMA KeptAnswers ==
  ASSUME NEW C, NEW D, NEW S, Kept(C, D, S), NEW m, Answers(C, m)
  PROVE  Answers(D, m)
<1>1. CASE m.call = 0
  BY <1>1 DEF Answers
<1>2. CASE m.call # 0
  <2>1. m.call \in DOMAIN C /\ C[m.call].run = m.type /\ m.type \in Outcome
    BY <1>2 DEF Answers
  <2>2. m.call \in DOMAIN D /\ D[m.call].run = m.type
    BY <2>1 DEF Kept
  <2>3. QED  BY <2>1, <2>2 DEF Answers
<1>3. QED  BY <1>1, <1>2

LEMMA RequestedKept ==
  ASSUME NEW C, NEW D, NEW S, Kept(C, D, S), NEW p, NEW q, Spared(C, S, p, q),
         NEW a, NEW b, NEW c, NEW d, NEW e, NEW f, Rearranged(a, b, c, d, e, f),
         Requested(C, p, q, a, b, c)
  PROVE  Requested(D, p, q, d, e, f)
<1>1. Ordered(OneEach, d, e, f) /\ Among(d, e, f) \subseteq Among(a, b, c)
  BY DEF Requested, Rearranged
<1>2. ASSUME NEW m \in Among(d, e, f) PROVE Asks(D, p, q, m)
  <2>1. Asks(C, p, q, m)
    BY <1>1 DEF Requested
  <2>2. m.type = "invoke" => m.call \notin S
    BY <2>1 DEF Asks, Spared
  <2>3. QED  BY <2>1, <2>2, KeptAsks
<1>3. QED  BY <1>1, <1>2 DEF Requested

LEMMA LessAwaited ==
  ASSUME NEW w, NEW x, NEW y \in {0, x}, NEW serial, NEW call, Fits(w, x, serial, call)
  PROVE  Fits(w, y, serial, call)
  BY DEF Fits

LEMMA NumberingKept ==
  ASSUME NEW r \in Nat, NEW s \in {0, r}, NEW w \in Nat, NEW x, NEW y \in {0, x},
         NEW a, NEW b, NEW c, NEW d, NEW e, NEW f, Rearranged(a, b, c, d, e, f),
         Among(a, b, c) \subseteq MessageType, Numbering(r, w, x, a, b, c)
  PROVE  Numbering(s, w, y, d, e, f)
<1>1. Ordered(ByNumber, d, e, f) /\ Among(d, e, f) \subseteq Among(a, b, c)
  BY DEF Numbering, Rearranged
<1>2. ASSUME NEW m \in Among(d, e, f) PROVE s <= m.number /\ Fits(w, y, m.number, m.call)
  <2>1. /\ r <= m.number /\ Fits(w, x, m.number, m.call) /\ m \in MessageType
    BY <1>1 DEF Numbering
  <2>2. PICK n \in Nat : n = m.number
    BY <2>1 DEF MessageType
  <2>3. s <= n
    BY <2>1, <2>2
  <2>4. QED  BY <2>1, <2>2, <2>3, LessAwaited
<1>3. r <= w
  BY DEF Numbering
<1>4. s <= w
  BY <1>3
<1>5. QED  BY <1>1, <1>2, <1>4 DEF Numbering

LEMMA AnsweredKept ==
  ASSUME NEW C, NEW D, NEW S, Kept(C, D, S), NEW w, NEW x, NEW y \in {0, x},
         NEW a, NEW b, NEW c, NEW d, NEW e, NEW f, Rearranged(a, b, c, d, e, f),
         Answered(C, w, x, a, b, c)
  PROVE  Answered(D, w, y, d, e, f)
<1>1. Among(d, e, f) \subseteq Among(a, b, c)
  BY DEF Rearranged
<1>2. ASSUME NEW m \in Among(d, e, f) PROVE Answers(D, m) /\ Fits(w, y, m.serial, m.call)
  BY <1>1, LessAwaited, KeptAnswers DEF Answered
<1>3. QED  BY <1>2 DEF Answered

LEMMA NothingNumbered ==
  ASSUME NEW w \in Nat, NEW x
  PROVE  Numbering(0, w, x, << >>, << >>, << >>)
<1>1. Ordered(ByNumber, << >>, << >>, << >>)
  BY NothingSorted DEF Ordered
<1>2. Among(<< >>, << >>, << >>) = {}
  BY NoElements DEF Among
<1>3. 0 <= w
  OBVIOUS
<1>4. QED  BY <1>1, <1>2, <1>3 DEF Numbering

LEMMA NothingAnswered ==
  ASSUME NEW C, NEW w, NEW x
  PROVE  Answered(C, w, x, << >>, << >>, << >>)
<1>1. Among(<< >>, << >>, << >>) = {}
  BY NoElements DEF Among
<1>2. QED  BY <1>1 DEF Answered

\* p sends one more: m, the last so far.
LEMMA SendsOn ==
  ASSUME NEW w \in Nat, NEW x, NEW y, NEW serial \in Nat, NEW call, Fits(w, x, serial, call)
  PROVE  Fits(w + 1, y, serial, call)
<1>1. \A u, v \in Nat : u < v => u < v + 1 /\ u + 1 # v + 1
  OBVIOUS
<1>2. serial < w
  BY DEF Fits
<1>3. serial < w + 1 /\ serial + 1 # w + 1
  BY <1>1, <1>2
<1>4. QED  BY <1>3 DEF Fits

LEMMA RequestedMore ==
  ASSUME NEW C, NEW D, Kept(C, D, {}), NEW p, NEW q,
         NEW a \in Seq(MessageType), NEW b \in Seq(MessageType), NEW c \in Seq(MessageType),
         Requested(C, p, q, a, b, c), NEW m \in MessageType, Asks(D, p, q, m),
         m.type = "invoke" => m.call \notin DOMAIN C
  PROVE  Requested(D, p, q, a, b, Append(c, m))
<1>1. \A n \in Among(a, b, c) : n \in MessageType /\ Asks(C, p, q, n)
  BY AmongType DEF Requested
<1>2. \A n \in Among(a, b, c) : <<n, m>> \in OneEach
  <2> SUFFICES ASSUME NEW n \in Among(a, b, c) PROVE <<n, m>> \in OneEach
    OBVIOUS
  <2>1. n \in MessageType /\ Asks(C, p, q, n)
    BY <1>1
  <2>2. n.type = "invoke" /\ m.type = "invoke" => n.call # m.call
    BY <2>1 DEF Asks
  <2>3. QED  BY <2>1, <2>2 DEF OneEach
<1>3. Among(a, b, Append(c, m)) = Among(a, b, c) \cup {m}
  BY ComesIn
<1>4. Ordered(OneEach, a, b, Append(c, m))
  BY <1>2, ComesIn DEF Requested
<1>5. \A n \in Among(a, b, c) : Asks(D, p, q, n)
  BY <1>1, KeptAsks
<1>6. QED  BY <1>3, <1>4, <1>5 DEF Requested

LEMMA NumberingMore ==
  ASSUME NEW r \in Nat, NEW w \in Nat, NEW x, NEW y,
         NEW a \in Seq(MessageType), NEW b \in Seq(MessageType), NEW c \in Seq(MessageType),
         Numbering(r, w, x, a, b, c), NEW m \in MessageType, m.number = w,
         y \in {0, m.call}
  PROVE  Numbering(r, w + 1, y, a, b, Append(c, m))
<1>1. \A n \in Among(a, b, c) :
        n \in MessageType /\ n.number \in Nat /\ r <= n.number /\ Fits(w, x, n.number, n.call)
  BY AmongType DEF Numbering, MessageType
<1>2. \A n \in Among(a, b, c) : <<n, m>> \in ByNumber
  <2> SUFFICES ASSUME NEW n \in Among(a, b, c) PROVE <<n, m>> \in ByNumber
    OBVIOUS
  <2>1. n \in MessageType /\ n.number < m.number
    BY <1>1 DEF Fits
  <2>2. QED  BY <2>1 DEF ByNumber
<1>3. Among(a, b, Append(c, m)) = Among(a, b, c) \cup {m}
  BY ComesIn
<1>4. Ordered(ByNumber, a, b, Append(c, m))
  BY <1>2, ComesIn DEF Numbering
<1>5. \A n \in Among(a, b, c) : r <= n.number /\ Fits(w + 1, y, n.number, n.call)
  BY <1>1, SendsOn
<1>6. r <= w
  BY DEF Numbering
<1>7. r <= w + 1 /\ w < w + 1
  BY <1>6
<1>8. Fits(w + 1, y, m.number, m.call)
  BY <1>7 DEF Fits
<1>9. \A n \in Among(a, b, Append(c, m)) : r <= n.number /\ Fits(w + 1, y, n.number, n.call)
  BY <1>3, <1>5, <1>6, <1>8
<1>10. QED  BY <1>4, <1>7, <1>9 DEF Numbering

LEMMA AnsweredMore ==
  ASSUME NEW C, NEW D, NEW S, Kept(C, D, S), NEW w \in Nat, NEW x, NEW y,
         NEW a \in Seq(MessageType), NEW b \in Seq(MessageType), NEW c \in Seq(MessageType),
         Answered(C, w, x, a, b, c)
  PROVE  Answered(D, w + 1, y, a, b, c)
<1>1. ASSUME NEW m \in Among(a, b, c) PROVE Answers(D, m) /\ Fits(w + 1, y, m.serial, m.call)
  <2>1. Answers(C, m) /\ Fits(w, x, m.serial, m.call) /\ m.serial \in Nat
    BY AmongType DEF Answered, MessageType
  <2>2. QED  BY <2>1, SendsOn, KeptAnswers
<1>2. QED  BY <1>1 DEF Answered

\* q takes up the first request, h, counting it.
LEMMA RequestedTaken ==
  ASSUME NEW C, NEW p, NEW q,
         NEW a \in Seq(MessageType), NEW b, NEW c, a # << >>, Requested(C, p, q, a, b, c),
         NEW h, h = Head(a)
  PROVE  /\ Asks(C, p, q, h)
         /\ \A D, S : Kept(C, D, S) /\ (S = {} \/ (h.type = "invoke" /\ S = {h.call}))
                        => Requested(D, p, q, Tail(a), b, c)
<1> PICK v : v = Tail(a)
  OBVIOUS
<1>1. /\ Rearranged(a, b, c, v, b, c) /\ h \in Among(a, b, c)
      /\ Ordered(OneEach, a, b, c) => \A m \in Among(v, b, c) : <<h, m>> \in OneEach
  BY MovesOut
<1>2. Ordered(OneEach, a, b, c) /\ \A m \in Among(a, b, c) : Asks(C, p, q, m)
  BY DEF Requested
<1>3. /\ Ordered(OneEach, v, b, c) /\ Among(v, b, c) \subseteq Among(a, b, c)
      /\ \A m \in Among(v, b, c) : <<h, m>> \in OneEach
  BY <1>1, <1>2 DEF Rearranged
<1>4. ASSUME NEW D, NEW S, Kept(C, D, S), S = {} \/ (h.type = "invoke" /\ S = {h.call})
      PROVE  Requested(D, p, q, v, b, c)
  <2>1. ASSUME NEW m \in Among(v, b, c) PROVE Asks(D, p, q, m)
    <3>1. Asks(C, p, q, m) /\ <<h, m>> \in OneEach
      BY <1>2, <1>3
    <3>2. m.type = "invoke" => m.call \notin S
      BY <1>4, <3>1 DEF OneEach
    <3>3. QED  BY <1>4, <3>1, <3>2, KeptAsks
  <2>2. QED  BY <1>3, <2>1 DEF Requested
<1>5. QED  BY <1>1, <1>2, <1>4

LEMMA NumberingTaken ==
  ASSUME NEW r \in Nat, NEW w \in Nat, NEW x,
         NEW a \in Seq(MessageType), NEW b \in Seq(MessageType), NEW c \in Seq(MessageType),
         a # << >>, Numbering(r, w, x, a, b, c), NEW h, h = Head(a)
  PROVE  Numbering(r + 1, w, x, Tail(a), b, c) /\ Fits(w, x, r, h.call)
<1> PICK v : v = Tail(a)
  OBVIOUS
<1>1. /\ Rearranged(a, b, c, v, b, c) /\ h \in Among(a, b, c)
      /\ Ordered(ByNumber, a, b, c) => \A m \in Among(v, b, c) : <<h, m>> \in ByNumber
  BY MovesOut
<1>2. /\ Ordered(ByNumber, a, b, c)
      /\ \A m \in Among(a, b, c) :
           m \in MessageType /\ m.number \in Nat /\ r <= m.number /\ Fits(w, x, m.number, m.call)
  BY AmongType DEF Numbering, MessageType
<1>3. /\ Ordered(ByNumber, v, b, c) /\ Among(v, b, c) \subseteq Among(a, b, c)
      /\ \A m \in Among(v, b, c) : h.number < m.number
  BY <1>1, <1>2 DEF Rearranged, ByNumber
<1>4. PICK n \in Nat : n = h.number /\ r <= n /\ Fits(w, x, n, h.call)
  BY <1>1, <1>2
<1>5. n < w /\ (x # 0 /\ n + 1 = w => h.call = x)
  BY <1>4 DEF Fits
<1>6. r + 1 <= w /\ r < w /\ (r + 1 = w => n + 1 = w)
  <2>1. \A i, j, k \in Nat : i <= j /\ j < k => i + 1 <= k /\ i < k /\ (i + 1 = k => j + 1 = k)
    OBVIOUS
  <2>2. r <= n /\ n < w
    BY <1>4, <1>5
  <2>3. QED  BY <2>1, <2>2
<1>7. Fits(w, x, r, h.call)
  BY <1>5, <1>6 DEF Fits
<1>8. ASSUME NEW m \in Among(v, b, c) PROVE r + 1 <= m.number /\ Fits(w, x, m.number, m.call)
  <2>1. PICK k \in Nat : k = m.number /\ n < k /\ Fits(w, x, k, m.call)
    BY <1>2, <1>3, <1>4
  <2>2. r + 1 <= k
    BY <1>4, <2>1
  <2>3. QED  BY <2>1, <2>2
<1>9. QED  BY <1>3, <1>6, <1>7, <1>8 DEF Numbering

\* q queues an answer, m.
LEMMA AnsweredAlso ==
  ASSUME NEW C, NEW D, NEW S, Kept(C, D, S), NEW w, NEW x,
         NEW a \in Seq(MessageType), NEW b \in Seq(MessageType), NEW c \in Seq(MessageType),
         Answered(C, w, x, a, b, c), NEW m \in MessageType, Answers(D, m),
         Fits(w, x, m.serial, m.call)
  PROVE  Answered(D, w, x, a, b, Append(c, m))
<1>1. Among(a, b, Append(c, m)) = Among(a, b, c) \cup {m}
  BY ComesIn
<1>2. \A n \in Among(a, b, c) : Answers(D, n) /\ Fits(w, x, n.serial, n.call)
  BY KeptAnswers DEF Answered
<1>3. QED  BY <1>1, <1>2 DEF Answered


------------------------------------------------------------------------------
\* A step and the stream between p and q

LEMMA LinkedFrom ==
  Structure => \A p \in Clients, q \in Services : Linked(p, q) => From(q, Image[p], p)
<1> SUFFICES ASSUME Structure, NEW p \in Clients, NEW q \in Services, Linked(p, q)
             PROVE  From(q, Image[p], p)
  OBVIOUS
<1>1. SocketOf(p, q).from = p
  BY Kinds DEF Structure, EndsInv, ClientEnd, Linked
<1>2. QED  BY <1>1 DEF Linked, From, HasSocket, SocketOf

LEMMA LinkedFromNext ==
  Structure' => \A p \in Clients, q \in Services : Linked(p, q)' => From(q, Image[p], p)'
<1> SUFFICES ASSUME Structure', NEW p \in Clients, NEW q \in Services, Linked(p, q)'
             PROVE  From(q, Image[p], p)'
  OBVIOUS
<1>1. SocketOf(p, q)'.from = p
  BY Kinds DEF Structure, EndsInv, ClientEnd, Linked
<1>2. QED  BY <1>1 DEF Linked, From, HasSocket, SocketOf

LEMMA ViewTypes ==
  ASSUME TypeInv, Structure, NEW p \in Clients, NEW q \in Services
  PROVE  /\ Read(p, q) \in Seq(MessageType) /\ ReadNow(p, q) \in Seq(MessageType)
         /\ OnWire(p, q, q) \in Seq(MessageType) /\ OnWire(p, q, p) \in Seq(MessageType)
         /\ Queued(p, q) \in Seq(MessageType) /\ Handled(p, q) \in Seq(MessageType)
         /\ QueuedAnswers(p, q) \in Seq(MessageType)
         /\ Reads(p, q) \in Nat /\ Sends(p, q) \in Nat
<1>1. p \in Process /\ q \in Process /\ Image[p] \in Process /\ << >> \in Seq(MessageType)
  BY Kinds, EmptySeq
<1>2. ReadBy(q, Image[p]) \in Seq(MessageType)
  <2>1. CASE Len(stack[q]) = 1
    <3>1. stack[q][1].kind = "loop"
      BY <2>1 DEF Structure, StackShape, ServiceStack
    <3>2. stack[q][1] \in FrameType
      BY <1>1, <2>1, StackIs
    <3>3. QED  BY <1>1, <3>1, <3>2, FrameIs DEF ReadBy
  <2>2. CASE Len(stack[q]) # 1
    BY <1>1, <2>2 DEF ReadBy
  <2>3. QED  BY <2>1, <2>2
<1>3. Handled(p, q) \in Seq(MessageType)
  <2>1. CASE Len(stack[p]) = 2
    <3>1. stack[p][2].kind = "loop"
      BY <2>1 DEF Structure, StackShape, ClientStack
    <3>2. stack[p][2] \in FrameType
      BY <1>1, <2>1, StackIs
    <3>3. QED  BY <1>1, <3>1, <3>2, FrameIs DEF Handled
  <2>2. CASE Len(stack[p]) # 2
    BY <1>1, <2>2 DEF Handled
  <2>3. QED  BY <2>1, <2>2
<1>4. OnWire(p, q, q) \in Seq(MessageType) /\ OnWire(p, q, p) \in Seq(MessageType)
  <2>1. CASE HasSocket(p, q)
    <3>1. connections[p][q].socket \in DOMAIN sockets
      BY <1>1, <2>1, ConnectionIs DEF HasSocket
    <3>2. SocketOf(p, q).wire \in [Process -> Seq(MessageType)]
      BY <3>1, SocketIs DEF SocketOf
    <3>3. QED  BY <1>1, <3>2 DEF OnWire
  <2>2. CASE ~HasSocket(p, q)
    BY <1>1, <2>2 DEF OnWire
  <2>3. QED  BY <2>1, <2>2
<1>5. /\ Queued(p, q) \in Seq(MessageType) /\ Sends(p, q) \in Nat
      /\ QueuedAnswers(p, q) \in Seq(MessageType) /\ Reads(p, q) \in Nat
  BY <1>1, ConnectionIs DEF Queued, Sends, QueuedAnswers, Reads
<1>6. Read(p, q) \in Seq(MessageType) /\ ReadNow(p, q) \in Seq(MessageType)
  BY <1>1, <1>2 DEF Read, ReadNow
<1>7. QED  BY <1>3, <1>4, <1>5, <1>6

\* Messages only move on or are lost, and so may be a wait.
LEMMA PairKept ==
  ASSUME TypeInv, Structure, NEW p \in Clients, NEW q \in Services, PairInv(p, q),
         NEW S, Kept(calls, calls', S), Spared(calls, S, p, q),
         Rearranged(Read(p, q), OnWire(p, q, q), Queued(p, q),
                    Read(p, q)', OnWire(p, q, q)', Queued(p, q)'),
         Rearranged(ReadNow(p, q), OnWire(p, q, q), Queued(p, q),
                    ReadNow(p, q)', OnWire(p, q, q)', Queued(p, q)'),
         Rearranged(Handled(p, q), OnWire(p, q, p), QueuedAnswers(p, q),
                    Handled(p, q)', OnWire(p, q, p)', QueuedAnswers(p, q)'),
         Reads(p, q)' \in {0, Reads(p, q)}, Sends(p, q)' = Sends(p, q),
         Awaiting(p, q)' \in {0, Awaiting(p, q)}, Pending(p, q)' \subseteq Pending(p, q)
  PROVE  PairInv(p, q)'
<1>1. Requested(calls', p, q, Read(p, q)', OnWire(p, q, q)', Queued(p, q)')
  <2>1. Requested(calls, p, q, Read(p, q), OnWire(p, q, q), Queued(p, q))
    BY DEF PairInv
  <2>2. QED  BY <2>1, RequestedKept
<1>2. Numbering(Reads(p, q)', Sends(p, q), Awaiting(p, q)',
                ReadNow(p, q)', OnWire(p, q, q)', Queued(p, q)')
  <2>1. Numbering(Reads(p, q), Sends(p, q), Awaiting(p, q),
                  ReadNow(p, q), OnWire(p, q, q), Queued(p, q))
    BY DEF PairInv
  <2>2. /\ Among(ReadNow(p, q), OnWire(p, q, q), Queued(p, q)) \subseteq MessageType
        /\ Reads(p, q) \in Nat /\ Sends(p, q) \in Nat
    BY ViewTypes, AmongType
  <2>3. QED  BY <2>1, <2>2, NumberingKept
<1>3. Answered(calls', Sends(p, q), Awaiting(p, q)',
               Handled(p, q)', OnWire(p, q, p)', QueuedAnswers(p, q)')
  <2>1. Answered(calls, Sends(p, q), Awaiting(p, q),
                 Handled(p, q), OnWire(p, q, p), QueuedAnswers(p, q))
    BY DEF PairInv
  <2>2. PICK x : x = Awaiting(p, q)
    OBVIOUS
  <2>3. PICK y \in {0, x} : y = Awaiting(p, q)'
    BY <2>2
  <2>4. PICK w : w = Sends(p, q)
    OBVIOUS
  <2>5. Answered(calls, w, x, Handled(p, q), OnWire(p, q, p), QueuedAnswers(p, q))
    BY <2>1, <2>2, <2>4
  <2>6. Answered(calls', w, y, Handled(p, q)', OnWire(p, q, p)', QueuedAnswers(p, q)')
    BY <2>5, AnsweredKept
  <2>7. QED  BY <2>3, <2>4, <2>6
<1>4. Serves(Sends(p, q), Awaiting(p, q)', Pending(p, q)')
  <2>1. Serves(Sends(p, q), Awaiting(p, q), Pending(p, q))
    BY DEF PairInv
  <2>2. QED  BY <2>1, LessAwaited DEF Serves
<1>5. QED  BY <1>1, <1>2, <1>3, <1>4 DEF PairInv

ClientSame(p, q) ==
  /\ Queued(p, q)' = Queued(p, q) /\ Handled(p, q)' = Handled(p, q)
  /\ Sends(p, q)' = Sends(p, q) /\ Awaiting(p, q)' = Awaiting(p, q)
WireSame(p, q) ==
  OnWire(p, q, q)' = OnWire(p, q, q) /\ OnWire(p, q, p)' = OnWire(p, q, p)
ServiceSame(p, q) ==
  /\ Read(p, q)' = Read(p, q) /\ ReadNow(p, q)' = ReadNow(p, q)
  /\ QueuedAnswers(p, q)' = QueuedAnswers(p, q)
  /\ Reads(p, q)' = Reads(p, q) /\ Pending(p, q)' = Pending(p, q)

LEMMA PairSame ==
  ASSUME TypeInv, Structure, NEW p \in Clients, NEW q \in Services, PairInv(p, q),
         NEW S, Kept(calls, calls', S), Spared(calls, S, p, q),
         ClientSame(p, q), WireSame(p, q), ServiceSame(p, q)
  PROVE  PairInv(p, q)'
<1>1. \A a, b, c : Rearranged(a, b, c, a, b, c)
  BY DEF Rearranged
<1>2. QED  BY <1>1, PairKept DEF ClientSame, WireSame, ServiceSame

LEMMA ClientSides ==
  ASSUME NEW p, NEW q, connections'[p][q] = connections[p][q], stack'[p] = stack[p]
  PROVE  ClientSame(p, q)
  BY DEF ClientSame, Queued, Handled, Sends, Awaiting

LEMMA WireSides ==
  ASSUME NEW p, NEW q, connections'[p][q].socket = connections[p][q].socket,
         HasSocket(p, q) => SocketOf(p, q)'.wire = SocketOf(p, q).wire
  PROVE  WireSame(p, q)
  BY DEF WireSame, OnWire, HasSocket

LEMMA ServiceSidesSame ==
  ASSUME NEW p, NEW q, connections'[p][q].socket = connections[p][q].socket,
         connections'[q][Image[p]] = connections[q][Image[p]],
         ReadBy(q, Image[p])' = ReadBy(q, Image[p]), ServedBy(q, Image[p])' = ServedBy(q, Image[p]),
         From(q, Image[p], p)' <=> From(q, Image[p], p)
  PROVE  ServiceSame(p, q)
<1>1. Linked(p, q)' <=> Linked(p, q)
  BY DEF Linked, HasSocket
<1>2. QED
  BY <1>1 DEF ServiceSame, Read, ReadNow, QueuedAnswers, Reads, Pending

LEMMA ServiceSides ==
  ASSUME NEW p, NEW q, connections'[p][q].socket = connections[p][q].socket,
         connections'[q][Image[p]] = connections[q][Image[p]], stack'[q] = stack[q],
         From(q, Image[p], p)' <=> From(q, Image[p], p)
  PROVE  ServiceSame(p, q)
<1>1. /\ ReadBy(q, Image[p])' = ReadBy(q, Image[p])
      /\ ServedBy(q, Image[p])' = ServedBy(q, Image[p])
  BY DEF ReadBy, ServedBy, InService
<1>2. QED  BY <1>1, ServiceSidesSame

\* q's object for p's image is another process's.
LEMMA ServiceOthers ==
  ASSUME Structure, Structure', NEW p \in Clients, NEW q \in Services,
         ~From(q, Image[p], p), ~From(q, Image[p], p)'
  PROVE  ServiceSame(p, q)
<1>1. ~Linked(p, q) /\ ~Linked(p, q)'
  BY LinkedFrom, LinkedFromNext
<1>2. QED  BY <1>1 DEF ServiceSame, Read, ReadNow, QueuedAnswers, Reads, Pending

LEMMA FromKept ==
  ASSUME TypeInv, NEW q \in Process, NEW i \in Process, NEW p,
         connections'[q][i].socket = connections[q][i].socket,
         \A k \in DOMAIN sockets : sockets'[k].from = sockets[k].from
  PROVE  From(q, i, p)' <=> From(q, i, p)
<1>1. HasSocket(q, i) => connections[q][i].socket \in DOMAIN sockets
  BY ConnectionIs DEF HasSocket
<1>2. QED  BY <1>1 DEF From, HasSocket, SocketOf

\* A service's step on its connection to p does not concern the others.
LEMMA ServiceStep ==
  ASSUME TypeInv, Structure, Structure', NEW q \in Services, NEW i \in Process, NEW p,
         \A r, y \in Process : <<r, y>> # <<q, i>> => connections'[r][y] = connections[r][y],
         \A r \in Process \ {q} : stack'[r] = stack[r],
         Len(stack[q]) = 1 => stack[q][1].peer = i,
         Len(stack'[q]) = 1 => stack'[q][1].peer = i,
         \A r \in Clients : r # p => ~From(q, i, r) /\ ~From(q, i, r)',
         \A k \in DOMAIN sockets : sockets'[k].from = sockets[k].from,
         NEW r \in Clients, NEW y \in Services, <<r, y>> # <<p, q>>
  PROVE  ClientSame(r, y) /\ ServiceSame(r, y) /\ connections'[r][y] = connections[r][y]
<1>1. r \in Process /\ y \in Process /\ Image[r] \in Process /\ r # q
  BY Kinds
<1>2. connections'[r][y] = connections[r][y] /\ stack'[r] = stack[r]
  BY <1>1
<1>3. ClientSame(r, y)
  BY <1>2, ClientSides
<1>4. CASE y = q /\ Image[r] = i
  <2>1. r # p
    BY <1>4
  <2>2. ~From(y, Image[r], r) /\ ~From(y, Image[r], r)'
    BY <1>4, <2>1
  <2>3. QED  BY <1>2, <1>3, <2>2, ServiceOthers
<1>5. CASE ~(y = q /\ Image[r] = i)
  <2>1. connections'[y][Image[r]] = connections[y][Image[r]]
    BY <1>1, <1>5
  <2>2. From(y, Image[r], r)' <=> From(y, Image[r], r)
    <3>1. connections'[y][Image[r]].socket = connections[y][Image[r]].socket
      BY <2>1
    <3>2. QED  BY <1>1, <3>1, FromKept
  <2>3. /\ ReadBy(y, Image[r])' = ReadBy(y, Image[r])
        /\ ServedBy(y, Image[r])' = ServedBy(y, Image[r])
    BY <1>1, <1>5 DEF ReadBy, ServedBy, InService
  <2>4. connections'[r][y].socket = connections[r][y].socket
    BY <1>2
  <2>5. ServiceSame(r, y)
    BY <2>1, <2>2, <2>3, <2>4, ServiceSidesSame
  <2>6. QED  BY <1>2, <1>3, <2>5
<1>6. QED  BY <1>4, <1>5

------------------------------------------------------------------------------
\* A step and the rest of the state

LEMMA ServiceKept ==
  ASSUME NEW q \in Services, ServiceInv(q), NEW S, Kept(calls, calls', S),
         InService(q)' => InService(q) /\ stack'[q][1].serving = stack[q][1].serving,
         \A c \in S : c \in DOMAIN calls => calls[c].to # q
  PROVE  ServiceInv(q)'
<1> SUFFICES ASSUME InService(q)'
             PROVE  LET served == stack'[q][1].serving
                    IN  /\ Len(served) = 1 /\ served[1].call \in DOMAIN calls'
                        /\ calls'[served[1].call].to = q
                        /\ calls'[served[1].call].run = "running"
  BY DEF ServiceInv
<1> PICK served : served = stack[q][1].serving
  OBVIOUS
<1> PICK c : c = served[1].call
  OBVIOUS
<1>1. /\ Len(served) = 1 /\ c \in DOMAIN calls /\ calls[c].to = q
      /\ calls[c].run = "running" /\ stack'[q][1].serving = served
  BY DEF ServiceInv
<1>2. c \in DOMAIN calls' /\ calls'[c].to = q /\ calls'[c].run = "running"
  BY <1>1 DEF Kept
<1>3. QED  BY <1>1, <1>2

\* Who goes on waiting, waits for the same call and was told nothing.
WaitStays(p) ==
  /\ Len(stack[p]) # 0 /\ stack'[p][1] = stack[p][1] /\ requests'[p] = requests[p]
  /\ \A x \in Services : Sends(p, x)' = Sends(p, x)
  /\ \A c \in DOMAIN calls : calls[c].from = p => calls'[c].answer = calls[c].answer

LEMMA WaitKept ==
  ASSUME TypeInv, Structure, NEW p \in Clients, WaitInv(p), NEW S, Kept(calls, calls', S),
         Len(stack'[p]) # 0 => WaitStays(p)
  PROVE  WaitInv(p)'
<1> SUFFICES ASSUME Len(stack'[p]) # 0, WaitStays(p) PROVE WaitInv(p)'
  BY DEF WaitInv
<1> PICK w : w = stack[p][1]
  OBVIOUS
<1> PICK parser : parser = requests[p][w.peer][w.serial]
  OBVIOUS
<1>1. /\ w.call \in DOMAIN calls /\ calls[w.call].from = p
      /\ calls[w.call].answer = Unanswered
      /\ w.serial + 1 = Sends(p, w.peer)
      /\ parser # Unanswered =>
           /\ calls[w.call].run \in Outcome
           /\ parser = [outcome |-> calls[w.call].run, of |-> w.call]
  BY DEF WaitInv, WaitStays
<1>2. /\ w.call \in DOMAIN calls' /\ calls'[w.call].from = p
      /\ calls'[w.call].answer = Unanswered
      /\ calls[w.call].run \in Outcome => calls'[w.call].run = calls[w.call].run
  BY <1>1 DEF Kept, WaitStays
<1>3. w.serial + 1 = Sends(p, w.peer)'
  <2>1. Len(stack[p]) > 0
    <3>1. Len(stack[p]) \in Nat
      BY Kinds, StackIs
    <3>2. QED  BY <3>1 DEF WaitStays
  <2>2. w.peer \in Services
    <3>1. ClientStack(p)
      BY DEF Structure, StackShape
    <3>2. QED  BY <2>1, <3>1 DEF ClientStack
  <2>3. Sends(p, w.peer)' = Sends(p, w.peer)
    BY <2>2 DEF WaitStays
  <2>4. QED  BY <1>1, <2>3
<1>4. stack'[p][1] = w /\ requests'[p][w.peer][w.serial] = parser
  BY DEF WaitStays
<1>5. parser # Unanswered =>
        /\ calls'[w.call].run \in Outcome
        /\ parser = [outcome |-> calls'[w.call].run, of |-> w.call]
  BY <1>1, <1>2
<1>6. QED  BY <1>2, <1>3, <1>4, <1>5 DEF WaitInv

\* Runs go on, nobody is told anything.
LEMMA PastKept ==
  ASSUME HistoryInv, RunsOnce, OwnAnswer, NEW S, Kept(calls, calls', S),
         DOMAIN calls' = DOMAIN calls,
         \A c \in DOMAIN calls : calls'[c].answer = calls[c].answer,
         \A c \in S : c \in DOMAIN calls => calls'[c].run # "sent" /\ calls'[c].runs <= 1
  PROVE  HistoryInv' /\ RunsOnce' /\ OwnAnswer'
<1> SUFFICES ASSUME NEW c \in DOMAIN calls
             PROVE  /\ calls'[c].run = "sent" => calls'[c].runs = 0
                    /\ calls'[c].runs <= 1
                    /\ calls'[c].answer.outcome \in Outcome =>
                         calls'[c].answer = [outcome |-> calls'[c].run, of |-> c]
  BY DEF HistoryInv, RunsOnce, OwnAnswer
<1>1. /\ calls[c].run = "sent" => calls[c].runs = 0
      /\ calls[c].runs <= 1
      /\ calls[c].answer.outcome \in Outcome =>
           calls[c].answer = [outcome |-> calls[c].run, of |-> c]
  BY DEF HistoryInv, RunsOnce, OwnAnswer
<1>2. CASE c \notin S
  <2>1. calls'[c].run = calls[c].run /\ calls'[c].runs = calls[c].runs
    BY <1>2 DEF Kept
  <2>2. QED  BY <1>1, <2>1
<1>3. CASE c \in S
  <2>1. calls[c].run \notin Outcome /\ calls'[c].run # "sent" /\ calls'[c].runs <= 1
    BY <1>3 DEF Kept
  <2>2. calls[c].answer.outcome \notin Outcome
    BY <1>1, <2>1
  <2>3. QED  BY <2>1, <2>2
<1>4. QED  BY <1>2, <1>3

LEMMA NothingKept == ASSUME calls' = calls PROVE Kept(calls, calls', {})
  BY DEF Kept

LEMMA NobodySpared == ASSUME NEW C, NEW p, NEW q PROVE Spared(C, {}, p, q)
  BY DEF Spared


------------------------------------------------------------------------------
\* The invariant is kept, action by action

LEMMA WireElsewhere ==
  ASSUME TypeInv, Structure, NEW n \in DOMAIN sockets, NEW x, NEW w, WireIs(n, x, w),
         NEW p \in Clients, NEW q \in Services, sockets[n].from # p \/ sockets[n].to # q,
         connections'[p][q].socket = connections[p][q].socket
  PROVE  WireSame(p, q)
<1>1. ASSUME HasSocket(p, q) PROVE SocketOf(p, q)'.wire = SocketOf(p, q).wire
  <2>1. PICK k \in DOMAIN sockets : k = connections[p][q].socket
    BY <1>1, Kinds, ConnectionIs DEF HasSocket
  <2>2. sockets[k].from = p /\ sockets[k].to = q
    BY <1>1, <2>1, Kinds DEF Structure, EndsInv, ClientEnd, SocketOf
  <2>3. sockets'[k] = sockets[k]
    BY <2>2 DEF WireIs
  <2>4. QED  BY <2>1, <2>3 DEF SocketOf
<1>2. QED  BY <1>1, WireSides

\* Steps that tell and call nobody.
LEMMA RestKept ==
  ASSUME TypeInv, LeafInv, calls' = calls,
         \A p \in Clients : Len(stack'[p]) # 0 => WaitStays(p),
         \A q \in Services :
           InService(q)' => InService(q) /\ stack'[q][1].serving = stack[q][1].serving
  PROVE  ServicesInv' /\ WaitsInv' /\ HistoryInv' /\ RunsOnce' /\ OwnAnswer'
<1>1. Kept(calls, calls', {})
  BY NothingKept
<1>2. ASSUME NEW q \in Services PROVE ServiceInv(q)'
  BY <1>1, ServiceKept DEF LeafInv, ServicesInv
<1>3. ASSUME NEW p \in Clients PROVE WaitInv(p)'
  BY <1>1, WaitKept DEF LeafInv, WaitsInv
<1>4. QED
  BY <1>2, <1>3 DEF LeafInv, ServicesInv, WaitsInv, HistoryInv, RunsOnce, OwnAnswer

LEMMA SameWaits ==
  ASSUME calls' = calls, NEW p \in Clients, stack'[p] = stack[p], requests'[p] = requests[p],
         \A x \in Services : connections'[p][x].writeSerial = connections[p][x].writeSerial
  PROVE  Len(stack'[p]) # 0 => WaitStays(p)
  BY DEF WaitStays, Sends

\* A request of p's goes onto the wire.
LEMMA OutputRequests ==
  ASSUME TypeInv, LeafInv, NEW p \in Clients, NEW q \in Process, Output(p, q)
  PROVE  PairsInv'
<1> PICK n : n = connections[p][q].socket
  OBVIOUS
<1> PICK x : x = OtherEnd(p, q)
  OBVIOUS
<1> PICK queue : queue = connections[p][q].writeQueue
  OBVIOUS
<1>1. p \in Process /\ Structure /\ PairsInv /\ HasSocket(p, q) /\ calls' = calls
  BY Kinds DEF LeafInv, Output
<1>2. /\ Structure' /\ stack' = stack /\ n \in DOMAIN sockets
      /\ queue \in Seq(MessageType) /\ queue # << >> /\ sockets[n].wire[x] \in Seq(MessageType)
      /\ WireIs(n, x, Append(sockets[n].wire[x], Head(queue)))
      /\ connections'[p][q].writeQueue = Tail(queue)
      /\ \A r, y \in Process : <<r, y>> # <<p, q>> => connections'[r][y] = connections[r][y]
      /\ \A r, y \in Process :
           /\ connections'[r][y].socket = connections[r][y].socket
           /\ connections'[r][y].writeSerial = connections[r][y].writeSerial
           /\ connections'[r][y].readSerial = connections[r][y].readSerial
  BY <1>1, OutputStructure
<1>3. sockets[n].from = p /\ sockets[n].to = q /\ q \in Services /\ x = q /\ p # q
  BY <1>1, EndIs, Kinds
<1>4. Kept(calls, calls', {}) /\ \A r, y : Spared(calls, {}, r, y)
  BY <1>1, NothingKept, NobodySpared
<1>5. ASSUME NEW r \in Clients, NEW y \in Services PROVE ServiceSame(r, y)
  <2>1. r \in Process /\ y \in Process /\ Image[r] \in Process /\ y # p
    BY Kinds
  <2>2. /\ connections'[r][y].socket = connections[r][y].socket
        /\ connections'[y][Image[r]] = connections[y][Image[r]]
    BY <1>2, <2>1
  <2>3. From(y, Image[r], r)' <=> From(y, Image[r], r)
    <3>1. \A k \in DOMAIN sockets : sockets'[k].from = sockets[k].from
      BY <1>2 DEF WireIs
    <3>2. QED  BY <1>1, <2>1, <2>2, <3>1, FromKept
  <2>4. QED  BY <1>2, <2>2, <2>3, ServiceSides
<1>6. PairInv(p, q)'
  <2>1. PICK w \in Seq(MessageType) : w = OnWire(p, q, q)
    BY <1>1, <1>3, ViewTypes
  <2>2. w = sockets[n].wire[q] /\ Queued(p, q) = queue
    BY <1>1, <2>1 DEF OnWire, SocketOf, Queued
  <2>3. OnWire(p, q, q)' = Append(w, Head(queue)) /\ OnWire(p, q, p)' = OnWire(p, q, p)
    <3>1. connections'[p][q].socket = n /\ HasSocket(p, q)'
      BY <1>1, <1>2, <1>3, Kinds DEF HasSocket
    <3>2. sockets'[n].wire[q] = Append(w, Head(queue)) /\ sockets'[n].wire[p] = sockets[n].wire[p]
      BY <1>1, <1>2, <1>3, <2>2 DEF WireIs
    <3>3. QED  BY <1>1, <3>1, <3>2 DEF OnWire, SocketOf
  <2>4. Queued(p, q)' = Tail(queue)
    BY <1>2 DEF Queued
  <2>5. Sends(p, q)' = Sends(p, q) /\ Handled(p, q)' = Handled(p, q) /\ Awaiting(p, q)' = Awaiting(p, q)
    BY <1>1, <1>2, <1>3, Kinds DEF Sends, Handled, Awaiting
  <2>6. ServiceSame(p, q)
    BY <1>3, <1>5
  <2>7. /\ Rearranged(Read(p, q), w, queue, Read(p, q), Append(w, Head(queue)), Tail(queue))
        /\ Rearranged(ReadNow(p, q), w, queue, ReadNow(p, q), Append(w, Head(queue)), Tail(queue))
    BY <1>1, <1>2, <1>3, MovesOn, ViewTypes
  <2>8. \A a, b, c : Rearranged(a, b, c, a, b, c)
    BY DEF Rearranged
  <2>9. PairInv(p, q)
    BY <1>1, <1>3 DEF PairsInv
  <2>10. /\ Rearranged(Read(p, q), OnWire(p, q, q), Queued(p, q),
                       Read(p, q)', OnWire(p, q, q)', Queued(p, q)')
         /\ Rearranged(ReadNow(p, q), OnWire(p, q, q), Queued(p, q),
                       ReadNow(p, q)', OnWire(p, q, q)', Queued(p, q)')
         /\ Rearranged(Handled(p, q), OnWire(p, q, p), QueuedAnswers(p, q),
                       Handled(p, q)', OnWire(p, q, p)', QueuedAnswers(p, q)')
    BY <2>1, <2>2, <2>3, <2>4, <2>5, <2>6, <2>7, <2>8 DEF ServiceSame
  <2>11. /\ Reads(p, q)' \in {0, Reads(p, q)} /\ Awaiting(p, q)' \in {0, Awaiting(p, q)}
         /\ Pending(p, q)' \subseteq Pending(p, q) /\ Sends(p, q)' = Sends(p, q)
    BY <2>5, <2>6 DEF ServiceSame
  <2>12. QED  BY <1>1, <1>3, <1>4, <2>9, <2>10, <2>11, PairKept
<1>7. ASSUME NEW r \in Clients, NEW y \in Services, <<r, y>> # <<p, q>> PROVE PairInv(r, y)'
  <2>1. PairInv(r, y) /\ ServiceSame(r, y) /\ r \in Process /\ y \in Process
    BY <1>1, <1>5, Kinds DEF PairsInv
  <2>2. connections'[r][y] = connections[r][y]
    BY <1>2, <1>7, <2>1
  <2>3. ClientSame(r, y)
    BY <1>2, <2>2, ClientSides
  <2>4. WireSame(r, y)
    <3>1. sockets[n].from # r \/ sockets[n].to # y
      BY <1>3, <1>7
    <3>2. connections'[r][y].socket = connections[r][y].socket
      BY <2>2
    <3>3. QED  BY <1>1, <1>2, <3>1, <3>2, WireElsewhere
  <2>5. QED  BY <1>1, <1>4, <2>1, <2>3, <2>4, PairSame
<1>8. QED  BY <1>6, <1>7 DEF PairsInv


\* An answer of q's goes onto the wire.
LEMMA OutputAnswers ==
  ASSUME TypeInv, LeafInv, NEW q \in Services, NEW i \in Process, Output(q, i)
  PROVE  PairsInv'
<1> PICK n : n = connections[q][i].socket
  OBVIOUS
<1> PICK p : p = OtherEnd(q, i)
  OBVIOUS
<1> PICK queue : queue = connections[q][i].writeQueue
  OBVIOUS
<1>1. q \in Process /\ Structure /\ PairsInv /\ HasSocket(q, i) /\ calls' = calls
  BY Kinds DEF LeafInv, Output
<1>2. /\ Structure' /\ stack' = stack /\ n \in DOMAIN sockets /\ sockets[n].up
      /\ queue \in Seq(MessageType) /\ queue # << >> /\ sockets[n].wire[p] \in Seq(MessageType)
      /\ WireIs(n, p, Append(sockets[n].wire[p], Head(queue)))
      /\ connections'[q][i].writeQueue = Tail(queue)
      /\ \A r, y \in Process : <<r, y>> # <<q, i>> => connections'[r][y] = connections[r][y]
      /\ \A r, y \in Process :
           /\ connections'[r][y].socket = connections[r][y].socket
           /\ connections'[r][y].writeSerial = connections[r][y].writeSerial
           /\ connections'[r][y].readSerial = connections[r][y].readSerial
  BY <1>1, OutputStructure
<1>3. /\ sockets[n].from = p /\ sockets[n].to = q /\ p \in Clients /\ p \in Process /\ p # q
      /\ Image[p] = i /\ connections[p][q].socket = n /\ n # 0
  <2>1. /\ sockets[n].from = p /\ sockets[n].to = q /\ p \in Clients /\ Image[p] = i
        /\ sockets[n].accepted
    BY <1>1, EndIs
  <2>2. SocketOK(n)
    BY <1>1, <1>2 DEF Structure, SocketsInv
  <2>3. QED  BY <1>1, <1>2, <2>1, <2>2, Kinds DEF SocketOK, HasSocket
<1>4. Kept(calls, calls', {}) /\ \A r, y : Spared(calls, {}, r, y)
  BY <1>1, NothingKept, NobodySpared
<1>5. \A k \in DOMAIN sockets : sockets'[k].from = sockets[k].from
  BY <1>2 DEF WireIs
<1>6. PairInv(p, q)'
  <2>1. Linked(p, q) /\ Linked(p, q)'
    BY <1>1, <1>2, <1>3 DEF Linked, HasSocket
  <2>2. From(q, i, p)' <=> From(q, i, p)
    BY <1>1, <1>2, <1>5, FromKept
  <2>3. ReadBy(q, i)' = ReadBy(q, i) /\ ServedBy(q, i)' = ServedBy(q, i)
    BY <1>2 DEF ReadBy, ServedBy, InService
  <2>4. /\ Read(p, q)' = Read(p, q) /\ ReadNow(p, q)' = ReadNow(p, q)
        /\ Reads(p, q)' = Reads(p, q) /\ Pending(p, q)' = Pending(p, q)
    BY <1>1, <1>2, <1>3, <2>1, <2>2, <2>3 DEF Read, ReadNow, Reads, Pending
  <2>5. QueuedAnswers(p, q) = queue /\ QueuedAnswers(p, q)' = Tail(queue)
    BY <1>2, <1>3, <2>1 DEF QueuedAnswers
  <2>6. ClientSame(p, q)
    <3>1. connections'[p][q] = connections[p][q]
      BY <1>1, <1>2, <1>3
    <3>2. QED  BY <1>2, <3>1, ClientSides
  <2>7. PICK w \in Seq(MessageType) : w = OnWire(p, q, p)
    BY <1>1, <1>3, ViewTypes
  <2>8. w = sockets[n].wire[p]
    BY <1>3, <2>1, <2>7 DEF Linked, OnWire, SocketOf
  <2>9. OnWire(p, q, p)' = Append(w, Head(queue)) /\ OnWire(p, q, q)' = OnWire(p, q, q)
    <3>1. connections'[p][q].socket = n
      BY <1>1, <1>2, <1>3
    <3>2. sockets'[n].wire[p] = Append(w, Head(queue)) /\ sockets'[n].wire[q] = sockets[n].wire[q]
      BY <1>1, <1>2, <1>3, <2>8 DEF WireIs
    <3>3. QED  BY <1>3, <2>1, <3>1, <3>2 DEF Linked, OnWire, SocketOf
  <2>10. Rearranged(Handled(p, q), w, queue, Handled(p, q), Append(w, Head(queue)), Tail(queue))
    BY <1>1, <1>2, <1>3, MovesOn, ViewTypes
  <2>11. \A a, b, c : Rearranged(a, b, c, a, b, c)
    BY DEF Rearranged
  <2>12. PairInv(p, q)
    BY <1>1, <1>3 DEF PairsInv
  <2>13. /\ Rearranged(Read(p, q), OnWire(p, q, q), Queued(p, q),
                       Read(p, q)', OnWire(p, q, q)', Queued(p, q)')
         /\ Rearranged(ReadNow(p, q), OnWire(p, q, q), Queued(p, q),
                       ReadNow(p, q)', OnWire(p, q, q)', Queued(p, q)')
         /\ Rearranged(Handled(p, q), OnWire(p, q, p), QueuedAnswers(p, q),
                       Handled(p, q)', OnWire(p, q, p)', QueuedAnswers(p, q)')
    BY <2>4, <2>5, <2>6, <2>7, <2>9, <2>10, <2>11 DEF ClientSame
  <2>14. /\ Reads(p, q)' \in {0, Reads(p, q)} /\ Awaiting(p, q)' \in {0, Awaiting(p, q)}
         /\ Pending(p, q)' \subseteq Pending(p, q) /\ Sends(p, q)' = Sends(p, q)
    BY <2>4, <2>6 DEF ClientSame
  <2>15. QED  BY <1>1, <1>3, <1>4, <2>12, <2>13, <2>14, PairKept
<1>7. ASSUME NEW r \in Clients, NEW y \in Services, <<r, y>> # <<p, q>> PROVE PairInv(r, y)'
  <2>1. PairInv(r, y) /\ r \in Process /\ y \in Process /\ Image[r] \in Process /\ r # q
    BY <1>1, Kinds DEF PairsInv
  <2>2. connections'[r][y] = connections[r][y]
    BY <1>2, <2>1
  <2>3. ClientSame(r, y)
    BY <1>2, <2>2, ClientSides
  <2>4. WireSame(r, y)
    <3>1. sockets[n].from # r \/ sockets[n].to # y
      BY <1>3, <1>7
    <3>2. connections'[r][y].socket = connections[r][y].socket
      BY <2>2
    <3>3. QED  BY <1>1, <1>2, <3>1, <3>2, WireElsewhere
  <2>5. From(y, Image[r], r)' <=> From(y, Image[r], r)
    BY <1>2, <1>5, <2>1, FromKept
  <2>6. ServiceSame(r, y)
    <3>1. CASE <<y, Image[r]>> # <<q, i>>
      <4>1. connections'[y][Image[r]] = connections[y][Image[r]]
        BY <1>2, <2>1, <3>1
      <4>2. connections'[r][y].socket = connections[r][y].socket
        BY <2>2
      <4>3. QED  BY <1>2, <2>5, <4>1, <4>2, ServiceSides
    <3>2. CASE <<y, Image[r]>> = <<q, i>>
      <4>1. y = q /\ Image[r] = i /\ r # p
        BY <1>7, <3>2
      <4>2. ~From(y, Image[r], r)
        BY <1>3, <4>1 DEF From, SocketOf
      <4>3. QED  BY <1>1, <1>2, <2>5, <4>2, ServiceOthers
    <3>3. QED  BY <3>1, <3>2
  <2>7. QED  BY <1>1, <1>4, <2>1, <2>3, <2>4, <2>6, PairSame
<1>8. QED  BY <1>6, <1>7 DEF PairsInv

LEMMA OutputLeaf ==
  ASSUME TypeInv, LeafInv, NEW p \in Process, NEW q \in Process, Output(p, q)
  PROVE  LeafInv'
<1>1. /\ Structure' /\ stack' = stack /\ calls' = calls /\ requests' = requests
      /\ \A r, y \in Process : connections'[r][y].writeSerial = connections[r][y].writeSerial
  <2>1. Structure
    BY DEF LeafInv
  <2>2. PICK n : n = connections[p][q].socket
    OBVIOUS
  <2>3. PICK x : x = OtherEnd(p, q)
    OBVIOUS
  <2>4. /\ Structure' /\ stack' = stack
        /\ \A r, y \in Process : connections'[r][y].writeSerial = connections[r][y].writeSerial
    BY <2>1, <2>2, <2>3, OutputStructure
  <2>5. QED  BY <2>4 DEF Output
<1>2. PairsInv'
  BY OutputRequests, OutputAnswers, Kinds
<1>3. \A r \in Clients : Len(stack'[r]) # 0 => WaitStays(r)
  BY <1>1, SameWaits, Kinds
<1>4. \A y \in Services :
        InService(y)' => InService(y) /\ stack'[y][1].serving = stack[y][1].serving
  BY <1>1 DEF InService
<1>5. QED  BY <1>1, <1>2, <1>3, <1>4, RestKept DEF LeafInv

------------------------------------------------------------------------------
\* p reads what came in.
LEMMA InputAnswers ==
  ASSUME TypeInv, LeafInv, NEW p \in Clients, NEW q \in Process, Input(p, q)
  PROVE  PairsInv'
<1> PICK n : n = connections[p][q].socket
  OBVIOUS
<1> PICK w : w = sockets[n].wire[p]
  OBVIOUS
<1>1. p \in Process /\ Structure /\ PairsInv /\ HasSocket(p, q) /\ calls' = calls
  BY Kinds DEF LeafInv, Input
<1>2. /\ Structure' /\ connections' = connections /\ n \in DOMAIN sockets /\ q \in Services
      /\ Len(stack[p]) = 1 /\ Len(stack'[p]) = 2
      /\ stack'[p][Len(stack'[p])] = LoopFrame(q, w, << >>)
      /\ stack'[p][1] = stack[p][1] /\ \A r \in Process \ {p} : stack'[r] = stack[r]
      /\ WireIs(n, p, << >>)
  BY <1>1, InputStructure
<1>3. sockets[n].from = p /\ sockets[n].to = q /\ p # q /\ q \in Process
  BY <1>1, EndIs, Kinds
<1>4. Kept(calls, calls', {}) /\ \A r, y : Spared(calls, {}, r, y)
  BY <1>1, NothingKept, NobodySpared
<1>5. ASSUME NEW r \in Clients, NEW y \in Services PROVE ServiceSame(r, y)
  <2>1. r \in Process /\ y \in Process /\ Image[r] \in Process /\ y # p
    BY Kinds
  <2>2. From(y, Image[r], r)' <=> From(y, Image[r], r)
    <3>1. \A k \in DOMAIN sockets : sockets'[k].from = sockets[k].from
      BY <1>2 DEF WireIs
    <3>2. connections'[y][Image[r]].socket = connections[y][Image[r]].socket
      BY <1>2
    <3>3. QED  BY <2>1, <3>1, <3>2, FromKept
  <2>3. /\ connections'[r][y].socket = connections[r][y].socket
        /\ connections'[y][Image[r]] = connections[y][Image[r]] /\ stack'[y] = stack[y]
    BY <1>2, <2>1
  <2>4. QED  BY <2>2, <2>3, ServiceSides
<1>6. PairInv(p, q)'
  <2>1. Handled(p, q) = << >> /\ Handled(p, q)' = w
    <3>1. Len(stack[p]) # 2
      BY <1>2
    <3>2. stack'[p][2] = LoopFrame(q, w, << >>)
      BY <1>2
    <3>3. QED  BY <1>2, <3>1, <3>2 DEF Handled, LoopFrame
  <2>2. OnWire(p, q, p) = w /\ OnWire(p, q, p)' = << >> /\ OnWire(p, q, q)' = OnWire(p, q, q)
    <3>1. sockets'[n].wire[p] = << >> /\ sockets'[n].wire[q] = sockets[n].wire[q]
      BY <1>1, <1>2, <1>3 DEF WireIs
    <3>2. QED  BY <1>1, <1>2, <3>1 DEF OnWire, HasSocket, SocketOf
  <2>3. Queued(p, q)' = Queued(p, q) /\ Sends(p, q)' = Sends(p, q)
    BY <1>2 DEF Queued, Sends
  <2>4. Awaiting(p, q)' = Awaiting(p, q)
    <3>1. Len(stack[p]) # 0 /\ Len(stack'[p]) # 0
      BY <1>2
    <3>2. QED  BY <1>2, <3>1 DEF Awaiting
  <2>5. ServiceSame(p, q)
    BY <1>2, <1>5
  <2>6. Rearranged(<< >>, w, QueuedAnswers(p, q), w, << >>, QueuedAnswers(p, q))
    BY MovesIn
  <2>7. \A a, b, c : Rearranged(a, b, c, a, b, c)
    BY DEF Rearranged
  <2>8. PairInv(p, q)
    BY <1>1, <1>2 DEF PairsInv
  <2>9. /\ Rearranged(Read(p, q), OnWire(p, q, q), Queued(p, q),
                      Read(p, q)', OnWire(p, q, q)', Queued(p, q)')
        /\ Rearranged(ReadNow(p, q), OnWire(p, q, q), Queued(p, q),
                      ReadNow(p, q)', OnWire(p, q, q)', Queued(p, q)')
        /\ Rearranged(Handled(p, q), OnWire(p, q, p), QueuedAnswers(p, q),
                      Handled(p, q)', OnWire(p, q, p)', QueuedAnswers(p, q)')
    BY <2>1, <2>2, <2>3, <2>5, <2>6, <2>7 DEF ServiceSame
  <2>10. /\ Reads(p, q)' \in {0, Reads(p, q)} /\ Awaiting(p, q)' \in {0, Awaiting(p, q)}
         /\ Pending(p, q)' \subseteq Pending(p, q) /\ Sends(p, q)' = Sends(p, q)
    BY <2>3, <2>4, <2>5 DEF ServiceSame
  <2>11. QED  BY <1>1, <1>2, <1>4, <2>8, <2>9, <2>10, PairKept
<1>7. ASSUME NEW r \in Clients, NEW y \in Services, <<r, y>> # <<p, q>> PROVE PairInv(r, y)'
  <2>1. PairInv(r, y) /\ ServiceSame(r, y)
    BY <1>1, <1>5 DEF PairsInv
  <2>2. ClientSame(r, y)
    <3>1. CASE r # p
      <4>1. stack'[r] = stack[r] /\ connections'[r][y] = connections[r][y]
        BY <1>2, <3>1, Kinds
      <4>2. QED  BY <4>1, ClientSides
    <3>2. CASE r = p
      <4>1. y # q
        BY <1>7, <3>2
      <4>2. stack'[p][2].peer = q
        BY <1>2 DEF LoopFrame
      <4>3. Handled(p, y) = << >> /\ Handled(p, y)' = << >>
        <5>1. Len(stack[p]) # 2
          BY <1>2
        <5>2. QED  BY <4>1, <4>2, <5>1 DEF Handled
      <4>4. Awaiting(p, y)' = Awaiting(p, y)
        <5>1. Len(stack[p]) # 0 /\ Len(stack'[p]) # 0
          BY <1>2
        <5>2. QED  BY <1>2, <5>1 DEF Awaiting
      <4>5. QED  BY <1>2, <3>2, <4>3, <4>4 DEF ClientSame, Queued, Sends
    <3>3. QED  BY <3>1, <3>2
  <2>3. WireSame(r, y)
    <3>1. sockets[n].from # r \/ sockets[n].to # y
      BY <1>3, <1>7
    <3>2. connections'[r][y].socket = connections[r][y].socket
      BY <1>2
    <3>3. QED  BY <1>1, <1>2, <3>1, <3>2, WireElsewhere
  <2>4. QED  BY <1>1, <1>4, <2>1, <2>2, <2>3, PairSame
<1>8. QED  BY <1>6, <1>7 DEF PairsInv


\* q reads what came in.
LEMMA InputRequests ==
  ASSUME TypeInv, LeafInv, NEW q \in Services, NEW i \in Process, Input(q, i)
  PROVE  PairsInv'
<1> PICK n : n = connections[q][i].socket
  OBVIOUS
<1> PICK w : w = sockets[n].wire[q]
  OBVIOUS
<1> PICK p : p = sockets[n].from
  OBVIOUS
<1>1. q \in Process /\ Structure /\ PairsInv /\ HasSocket(q, i) /\ calls' = calls
  BY Kinds DEF LeafInv, Input
<1>2. /\ Structure' /\ connections' = connections /\ n \in DOMAIN sockets /\ sockets[n].up
      /\ sockets[n].accepted /\ Len(stack[q]) = 0 /\ Len(stack'[q]) = 1
      /\ stack'[q][Len(stack'[q])] = LoopFrame(i, w, << >>)
      /\ \A r \in Process \ {q} : stack'[r] = stack[r]
      /\ WireIs(n, q, << >>)
  BY <1>1, InputStructure
<1>3. /\ sockets[n].to = q /\ p \in Clients /\ p \in Process /\ p # q
      /\ Image[p] = i /\ connections[p][q].socket = n /\ n # 0
  <2>1. sockets[n].to = q /\ p \in Clients /\ Image[p] = i
    BY <1>1, EndIs
  <2>2. SocketOK(n)
    BY <1>1, <1>2 DEF Structure, SocketsInv
  <2>3. QED  BY <1>1, <1>2, <2>1, <2>2, Kinds DEF SocketOK, HasSocket
<1>4. Kept(calls, calls', {}) /\ \A r, y : Spared(calls, {}, r, y)
  BY <1>1, NothingKept, NobodySpared
<1>5. \A k \in DOMAIN sockets : sockets'[k].from = sockets[k].from
  BY <1>2 DEF WireIs
<1>6. stack'[q][1].peer = i /\ stack'[q][1].rest = w /\ stack'[q][1].serving = << >>
  BY <1>2 DEF LoopFrame
<1>7. \A r \in Process : From(q, i, r)' <=> From(q, i, r)
  <2>1. connections'[q][i].socket = connections[q][i].socket
    BY <1>2
  <2>2. QED  BY <1>1, <1>5, <2>1, FromKept
<1>8. PairInv(p, q)'
  <2>1. Linked(p, q) /\ Linked(p, q)' /\ From(q, i, p) /\ From(q, i, p)'
    <3>1. Linked(p, q) /\ From(q, i, p)
      BY <1>1, <1>3 DEF Linked, HasSocket, From, SocketOf
    <3>2. Linked(p, q)'
      BY <1>2, <3>1 DEF Linked, HasSocket
    <3>3. QED  BY <1>3, <1>7, <3>1, <3>2
  <2>2. ReadBy(q, i) = << >> /\ ServedBy(q, i) = {}
    <3>1. Len(stack[q]) # 1
      BY <1>2
    <3>2. QED  BY <3>1 DEF ReadBy, ServedBy, InService
  <2>3. ReadBy(q, i)' = w /\ ServedBy(q, i)' = {}
    BY <1>2, <1>6 DEF ReadBy, ServedBy, InService
  <2>4. /\ Read(p, q) = << >> /\ Read(p, q)' = w /\ ReadNow(p, q) = << >> /\ ReadNow(p, q)' = w
        /\ Reads(p, q)' = Reads(p, q) /\ Pending(p, q)' = {}
        /\ QueuedAnswers(p, q)' = QueuedAnswers(p, q)
    BY <1>2, <1>3, <2>1, <2>2, <2>3 DEF Read, ReadNow, Reads, Pending, QueuedAnswers
  <2>5. ClientSame(p, q)
    BY <1>2, <1>3, ClientSides
  <2>6. OnWire(p, q, q) = w /\ OnWire(p, q, q)' = << >> /\ OnWire(p, q, p)' = OnWire(p, q, p)
    <3>1. sockets'[n].wire[q] = << >> /\ sockets'[n].wire[p] = sockets[n].wire[p]
      <4>1. WireIs(n, q, << >>)
        BY <1>2
      <4>2. p \in Process \ {q}
        BY <1>3
      <4>3. QED  BY <4>1, <4>2 DEF WireIs
    <3>2. connections[p][q].socket = n /\ connections'[p][q].socket = n /\ n # 0
      BY <1>2, <1>3
    <3>3. sockets[n].wire[q] = w
      OBVIOUS
    <3>4. QED  BY <3>1, <3>2, <3>3 DEF OnWire, HasSocket, SocketOf
  <2>7. Rearranged(<< >>, w, Queued(p, q), w, << >>, Queued(p, q))
    BY MovesIn
  <2>8. \A a, b, c : Rearranged(a, b, c, a, b, c)
    BY DEF Rearranged
  <2>9. PairInv(p, q)
    BY <1>1, <1>3 DEF PairsInv
  <2>10. /\ Rearranged(Read(p, q), OnWire(p, q, q), Queued(p, q),
                       Read(p, q)', OnWire(p, q, q)', Queued(p, q)')
         /\ Rearranged(ReadNow(p, q), OnWire(p, q, q), Queued(p, q),
                       ReadNow(p, q)', OnWire(p, q, q)', Queued(p, q)')
         /\ Rearranged(Handled(p, q), OnWire(p, q, p), QueuedAnswers(p, q),
                       Handled(p, q)', OnWire(p, q, p)', QueuedAnswers(p, q)')
    <3>1. /\ Queued(p, q)' = Queued(p, q) /\ Handled(p, q)' = Handled(p, q)
          /\ QueuedAnswers(p, q)' = QueuedAnswers(p, q) /\ OnWire(p, q, p)' = OnWire(p, q, p)
      BY <2>4, <2>5, <2>6 DEF ClientSame
    <3>2. Rearranged(Read(p, q), OnWire(p, q, q), Queued(p, q),
                     Read(p, q)', OnWire(p, q, q)', Queued(p, q)')
      BY <2>4, <2>6, <2>7, <3>1
    <3>3. Rearranged(ReadNow(p, q), OnWire(p, q, q), Queued(p, q),
                     ReadNow(p, q)', OnWire(p, q, q)', Queued(p, q)')
      BY <2>4, <2>6, <2>7, <3>1
    <3>4. Rearranged(Handled(p, q), OnWire(p, q, p), QueuedAnswers(p, q),
                     Handled(p, q)', OnWire(p, q, p)', QueuedAnswers(p, q)')
      BY <2>8, <3>1
    <3>5. QED  BY <3>2, <3>3, <3>4
  <2>11. /\ Reads(p, q)' \in {0, Reads(p, q)} /\ Awaiting(p, q)' \in {0, Awaiting(p, q)}
         /\ Pending(p, q)' \subseteq Pending(p, q) /\ Sends(p, q)' = Sends(p, q)
    BY <2>4, <2>5 DEF ClientSame
  <2>12. QED  BY <1>1, <1>3, <1>4, <2>9, <2>10, <2>11, PairKept
<1>9. ASSUME NEW r \in Clients, NEW y \in Services, <<r, y>> # <<p, q>> PROVE PairInv(r, y)'
  <2>1. \A s \in Clients : s # p => ~From(q, i, s) /\ ~From(q, i, s)'
    <3>1. \A s \in Clients : s # p => ~From(q, i, s)
      BY DEF From, SocketOf
    <3>2. QED  BY <1>7, <3>1, Kinds
  <2>2. /\ Len(stack[q]) = 1 => stack[q][1].peer = i
        /\ Len(stack'[q]) = 1 => stack'[q][1].peer = i
        /\ \A a, b \in Process : <<a, b>> # <<q, i>> => connections'[a][b] = connections[a][b]
        /\ \A a \in Process \ {q} : stack'[a] = stack[a]
    BY <1>2, <1>6
  <2>3. ClientSame(r, y) /\ ServiceSame(r, y)
    <3>1. Structure' /\ Structure /\ \A k \in DOMAIN sockets : sockets'[k].from = sockets[k].from
      BY <1>1, <1>2, <1>5
    <3>2. ClientSame(r, y) /\ ServiceSame(r, y) /\ connections'[r][y] = connections[r][y]
      BY <1>9, <2>1, <2>2, <3>1, ServiceStep
    <3>3. QED  BY <3>2
  <2>4. WireSame(r, y)
    <3>1. sockets[n].from # r \/ sockets[n].to # y
      BY <1>3, <1>9
    <3>2. connections'[r][y].socket = connections[r][y].socket
      BY <1>2
    <3>3. QED  BY <1>1, <1>2, <3>1, <3>2, WireElsewhere
  <2>5. PairInv(r, y)
    BY <1>1 DEF PairsInv
  <2>6. QED  BY <1>1, <1>4, <2>3, <2>4, <2>5, PairSame
<1>10. QED  BY <1>8, <1>9 DEF PairsInv

LEMMA InputLeaf ==
  ASSUME TypeInv, LeafInv, NEW p \in Process, NEW q \in Process, Input(p, q)
  PROVE  LeafInv'
<1> PICK n : n = connections[p][q].socket
  OBVIOUS
<1> PICK w : w = sockets[n].wire[p]
  OBVIOUS
<1>1. /\ Structure' /\ connections' = connections /\ calls' = calls /\ requests' = requests
      /\ p \in Clients => Len(stack[p]) = 1 /\ stack'[p][1] = stack[p][1]
      /\ p \in Services => Len(stack'[p]) = 1
      /\ stack'[p][Len(stack'[p])] = LoopFrame(q, w, << >>)
      /\ \A r \in Process \ {p} : stack'[r] = stack[r]
  <2>1. Structure
    BY DEF LeafInv
  <2>2. /\ Structure' /\ connections' = connections
        /\ p \in Clients => Len(stack[p]) = 1 /\ stack'[p][1] = stack[p][1]
        /\ p \in Services => Len(stack'[p]) = 1
        /\ stack'[p][Len(stack'[p])] = LoopFrame(q, w, << >>)
        /\ \A r \in Process \ {p} : stack'[r] = stack[r]
    BY <2>1, InputStructure
  <2>3. calls' = calls /\ requests' = requests
    BY DEF Input
  <2>4. QED  BY <2>2, <2>3
<1>2. PairsInv'
  BY InputRequests, InputAnswers, Kinds
<1>3. ASSUME NEW r \in Clients PROVE Len(stack'[r]) # 0 => WaitStays(r)
  <2>1. CASE r # p
    <3>1. stack'[r] = stack[r]
      BY <1>1, <2>1, Kinds
    <3>2. QED  BY <1>1, <3>1, SameWaits
  <2>2. CASE r = p
    <3>1. Len(stack[r]) # 0 /\ stack'[r][1] = stack[r][1]
      BY <1>1, <2>2
    <3>2. QED  BY <1>1, <3>1 DEF WaitStays, Sends
  <2>3. QED  BY <2>1, <2>2
<1>4. ASSUME NEW y \in Services, InService(y)'
      PROVE  InService(y) /\ stack'[y][1].serving = stack[y][1].serving
  <2>1. CASE y # p
    BY <1>1, <1>4, <2>1, Kinds DEF InService
  <2>2. CASE y = p
    <3>1. stack'[y][1].serving = << >>
      BY <1>1, <2>2 DEF LoopFrame
    <3>2. QED  BY <1>4, <3>1 DEF InService
  <2>3. QED  BY <2>1, <2>2
<1>5. QED  BY <1>1, <1>2, <1>3, <1>4, RestKept DEF LeafInv


------------------------------------------------------------------------------
\* Messages are dropped.

LEMMA PairLess ==
  ASSUME TypeInv, Structure, NEW p \in Clients, NEW q \in Services, PairInv(p, q),
         NEW S, Kept(calls, calls', S), Spared(calls, S, p, q),
         Less(Read(p, q)', Read(p, q)), Less(ReadNow(p, q)', ReadNow(p, q)),
         Less(OnWire(p, q, q)', OnWire(p, q, q)), Less(Queued(p, q)', Queued(p, q)),
         Less(Handled(p, q)', Handled(p, q)), Less(OnWire(p, q, p)', OnWire(p, q, p)),
         Less(QueuedAnswers(p, q)', QueuedAnswers(p, q)),
         Reads(p, q)' \in {0, Reads(p, q)}, Sends(p, q)' = Sends(p, q),
         Awaiting(p, q)' \in {0, Awaiting(p, q)}, Pending(p, q)' \subseteq Pending(p, q)
  PROVE  PairInv(p, q)'
<1>1. /\ Rearranged(Read(p, q), OnWire(p, q, q), Queued(p, q),
                    Read(p, q)', OnWire(p, q, q)', Queued(p, q)')
      /\ Rearranged(ReadNow(p, q), OnWire(p, q, q), Queued(p, q),
                    ReadNow(p, q)', OnWire(p, q, q)', Queued(p, q)')
      /\ Rearranged(Handled(p, q), OnWire(p, q, p), QueuedAnswers(p, q),
                    Handled(p, q)', OnWire(p, q, p)', QueuedAnswers(p, q)')
  BY Emptied
<1>2. QED  BY <1>1, PairKept

\* p starts anew, or loses q.
LEMMA PairLost ==
  ASSUME NEW p \in Clients, NEW q \in Services, PairInv(p, q),
         NEW S, Kept(calls, calls', S), Spared(calls, S, p, q),
         Less(Read(p, q)', Read(p, q)), ReadNow(p, q)' = << >>,
         OnWire(p, q, q)' = << >>, Queued(p, q)' = << >>,
         Handled(p, q)' = << >>, OnWire(p, q, p)' = << >>, QueuedAnswers(p, q)' = << >>,
         Reads(p, q)' = 0, Sends(p, q)' \in Nat, Pending(p, q)' = {}
  PROVE  PairInv(p, q)'
<1>1. Requested(calls', p, q, Read(p, q)', OnWire(p, q, q)', Queued(p, q)')
  <2>1. Requested(calls, p, q, Read(p, q), OnWire(p, q, q), Queued(p, q))
    BY DEF PairInv
  <2>2. Rearranged(Read(p, q), OnWire(p, q, q), Queued(p, q),
                   Read(p, q)', OnWire(p, q, q)', Queued(p, q)')
    <3>1. Less(OnWire(p, q, q)', OnWire(p, q, q)) /\ Less(Queued(p, q)', Queued(p, q))
      BY DEF Less
    <3>2. QED  BY <3>1, Emptied
  <2>3. QED  BY <2>1, <2>2, RequestedKept
<1>2. Numbering(Reads(p, q)', Sends(p, q)', Awaiting(p, q)',
                ReadNow(p, q)', OnWire(p, q, q)', Queued(p, q)')
  BY NothingNumbered
<1>3. Answered(calls', Sends(p, q)', Awaiting(p, q)',
               Handled(p, q)', OnWire(p, q, p)', QueuedAnswers(p, q)')
  BY NothingAnswered
<1>4. Serves(Sends(p, q)', Awaiting(p, q)', Pending(p, q)')
  BY DEF Serves
<1>5. QED  BY <1>1, <1>2, <1>3, <1>4 DEF PairInv

\* p notices that the other end is gone.
LEMMA HangupPairs ==
  ASSUME TypeInv, LeafInv, NEW a \in Process, NEW b \in Process, Hangup(a, b)
  PROVE  PairsInv'
<1>1. Structure /\ PairsInv /\ calls' = calls /\ HasSocket(a, b) /\ Polling(a)
  BY DEF LeafInv, Hangup
<1>2. /\ Structure' /\ stack' = stack /\ sockets' = sockets
      /\ connections'[a][b].socket = 0
      /\ \A r, y \in Process : <<r, y>> # <<a, b>> => connections'[r][y] = connections[r][y]
      /\ \A r, y \in Process :
           /\ connections'[r][y].writeSerial = connections[r][y].writeSerial
           /\ connections'[r][y].writeQueue = connections[r][y].writeQueue
  BY <1>1, HangupStructure
<1>3. Kept(calls, calls', {}) /\ \A r, y : Spared(calls, {}, r, y)
  BY <1>1, NothingKept, NobodySpared
<1>4. ASSUME NEW p \in Clients, NEW q \in Services
      PROVE  /\ Queued(p, q)' = Queued(p, q) /\ Handled(p, q)' = Handled(p, q)
             /\ Sends(p, q)' = Sends(p, q) /\ Awaiting(p, q)' = Awaiting(p, q)
  BY <1>2, Kinds DEF Queued, Handled, Sends, Awaiting
<1>5. ASSUME NEW p \in Clients, NEW q \in Services
      PROVE  /\ Less(OnWire(p, q, q)', OnWire(p, q, q)) /\ Less(OnWire(p, q, p)', OnWire(p, q, p))
             /\ Linked(p, q)' => Linked(p, q) /\ connections'[q][Image[p]] = connections[q][Image[p]]
             /\ Less(Read(p, q)', Read(p, q))
  <2>1. p \in Process /\ q \in Process /\ Image[p] \in Process /\ p # q
    BY Kinds
  <2>2. /\ Less(OnWire(p, q, q)', OnWire(p, q, q)) /\ Less(OnWire(p, q, p)', OnWire(p, q, p))
    <3>1. CASE <<p, q>> = <<a, b>>
      BY <1>2, <3>1 DEF OnWire, HasSocket, Less
    <3>2. CASE <<p, q>> # <<a, b>>
      <4>1. connections'[p][q] = connections[p][q]
        BY <1>2, <2>1, <3>2
      <4>2. QED  BY <1>2, <4>1 DEF OnWire, HasSocket, SocketOf, Less
    <3>3. QED  BY <3>1, <3>2
  <2>3. ASSUME Linked(p, q)'
        PROVE  Linked(p, q) /\ connections'[q][Image[p]] = connections[q][Image[p]]
    <3>1. <<p, q>> # <<a, b>> /\ <<q, Image[p]>> # <<a, b>>
      BY <1>2, <2>3 DEF Linked, HasSocket
    <3>2. QED  BY <1>2, <2>1, <2>3, <3>1 DEF Linked, HasSocket
  <2>4. Less(Read(p, q)', Read(p, q))
    <3>1. CASE <<q, Image[p]>> = <<a, b>>
      BY <1>2, <3>1 DEF Read, From, HasSocket, Less
    <3>2. CASE <<q, Image[p]>> # <<a, b>>
      <4>1. connections'[q][Image[p]] = connections[q][Image[p]]
        BY <1>2, <2>1, <3>2
      <4>2. QED  BY <1>2, <4>1 DEF Read, ReadBy, From, HasSocket, SocketOf, Less
    <3>3. QED  BY <3>1, <3>2
  <2>5. QED  BY <2>2, <2>3, <2>4
<1>6. ASSUME NEW p \in Clients, NEW q \in Services PROVE PairInv(p, q)'
  <2>1. ReadBy(q, Image[p])' = ReadBy(q, Image[p]) /\ ServedBy(q, Image[p])' = ServedBy(q, Image[p])
    BY <1>2 DEF ReadBy, ServedBy, InService
  <2>2. /\ Less(ReadNow(p, q)', ReadNow(p, q)) /\ Less(QueuedAnswers(p, q)', QueuedAnswers(p, q))
        /\ Reads(p, q)' \in {0, Reads(p, q)} /\ Pending(p, q)' \subseteq Pending(p, q)
    <3>1. CASE Linked(p, q)'
      <4>1. Linked(p, q) /\ connections'[q][Image[p]] = connections[q][Image[p]]
        BY <1>5, <3>1
      <4>2. QED  BY <2>1, <3>1, <4>1 DEF ReadNow, QueuedAnswers, Reads, Pending, Less
    <3>2. CASE ~Linked(p, q)'
      BY <3>2 DEF ReadNow, QueuedAnswers, Reads, Pending, Less
    <3>3. QED  BY <3>1, <3>2
  <2>3. /\ Less(Queued(p, q)', Queued(p, q)) /\ Less(Handled(p, q)', Handled(p, q))
        /\ Sends(p, q)' = Sends(p, q) /\ Awaiting(p, q)' \in {0, Awaiting(p, q)}
    BY <1>4 DEF Less
  <2>4. PairInv(p, q)
    BY <1>1 DEF PairsInv
  <2>5. QED  BY <1>1, <1>3, <1>5, <2>2, <2>3, <2>4, PairLess
<1>7. QED  BY <1>6 DEF PairsInv

LEMMA HangupLeaf ==
  ASSUME TypeInv, LeafInv, NEW p \in Process, NEW q \in Process, Hangup(p, q)
  PROVE  LeafInv'
<1>1. /\ Structure' /\ stack' = stack /\ calls' = calls /\ requests' = requests
      /\ \A r, y \in Process : connections'[r][y].writeSerial = connections[r][y].writeSerial
  <2>1. Structure /\ calls' = calls /\ requests' = requests
    BY DEF LeafInv, Hangup
  <2>2. /\ Structure' /\ ~SocketOf(p, q).up /\ connections[p][q].socket \in DOMAIN sockets
        /\ stack' = stack /\ sockets' = sockets
        /\ connections'[p][q].socket = 0
        /\ \A r, y \in Process : <<r, y>> # <<p, q>> => connections'[r][y] = connections[r][y]
        /\ \A r, y \in Process :
             /\ connections'[r][y].readTask = connections[r][y].readTask
             /\ connections'[r][y].writeSerial = connections[r][y].writeSerial
             /\ connections'[r][y].readSerial = connections[r][y].readSerial
             /\ connections'[r][y].writeQueue = connections[r][y].writeQueue
    BY <2>1, HangupStructure
  <2>3. QED  BY <2>1, <2>2
<1>2. PairsInv'
  BY HangupPairs
<1>3. \A r \in Clients : Len(stack'[r]) # 0 => WaitStays(r)
  BY <1>1, SameWaits, Kinds
<1>4. \A y \in Services :
        InService(y)' => InService(y) /\ stack'[y][1].serving = stack[y][1].serving
  BY <1>1 DEF InService
<1>5. QED  BY <1>1, <1>2, <1>3, <1>4, RestKept DEF LeafInv

\* A frame of p's goes, with what it was for.
LEMMA PoppedPairs ==
  ASSUME TypeInv, Structure, PairsInv, NEW p \in Process,
         UNCHANGED <<connections, sockets>>, Kept(calls, calls', {}),
         p \in Services => Len(stack'[p]) = 0,
         p \in Clients =>
           Len(stack'[p]) = 0 \/ (Len(stack'[p]) = 1 /\ Len(stack[p]) # 0 /\ stack'[p][1] = stack[p][1]),
         \A r \in Process \ {p} : stack'[r] = stack[r]
  PROVE  PairsInv'
<1>1. ASSUME NEW r \in Clients, NEW q \in Services PROVE PairInv(r, q)'
  <2>1. r \in Process /\ q \in Process
    BY Kinds
  <2>2. /\ OnWire(r, q, q)' = OnWire(r, q, q) /\ OnWire(r, q, r)' = OnWire(r, q, r)
        /\ Queued(r, q)' = Queued(r, q) /\ Sends(r, q)' = Sends(r, q)
        /\ QueuedAnswers(r, q)' = QueuedAnswers(r, q) /\ Reads(r, q)' = Reads(r, q)
        /\ Linked(r, q)' = Linked(r, q) /\ From(q, Image[r], r)' = From(q, Image[r], r)
    BY DEF OnWire, Queued, Sends, QueuedAnswers, Reads, Linked, From, HasSocket, SocketOf
  <2>3. /\ Less(ReadBy(q, Image[r])', ReadBy(q, Image[r]))
        /\ ServedBy(q, Image[r])' \subseteq ServedBy(q, Image[r])
    <3>1. CASE q = p
      <4>1. Len(stack'[q]) # 1
        BY <3>1
      <4>2. QED  BY <4>1 DEF ReadBy, ServedBy, InService, Less
    <3>2. CASE q # p
      <4>1. stack'[q] = stack[q]
        BY <2>1, <3>2
      <4>2. QED  BY <4>1 DEF ReadBy, ServedBy, InService, Less
    <3>3. QED  BY <3>1, <3>2
  <2>4. /\ Less(Read(r, q)', Read(r, q)) /\ Less(ReadNow(r, q)', ReadNow(r, q))
        /\ Pending(r, q)' \subseteq Pending(r, q)
    BY <2>2, <2>3 DEF Read, ReadNow, Pending, Less
  <2>5. Less(Handled(r, q)', Handled(r, q)) /\ Awaiting(r, q)' \in {0, Awaiting(r, q)}
    <3>1. CASE r # p
      <4>1. stack'[r] = stack[r]
        BY <2>1, <3>1
      <4>2. QED  BY <4>1 DEF Handled, Awaiting, Less
    <3>2. CASE r = p
      <4>1. Len(stack'[p]) # 2
        BY <3>2
      <4>2. QED  BY <3>2, <4>1 DEF Handled, Awaiting, Less
    <3>3. QED  BY <3>1, <3>2
  <2>6. PairInv(r, q) /\ Spared(calls, {}, r, q)
    BY NobodySpared DEF PairsInv
  <2>7. /\ Less(OnWire(r, q, q)', OnWire(r, q, q)) /\ Less(OnWire(r, q, r)', OnWire(r, q, r))
        /\ Less(Queued(r, q)', Queued(r, q)) /\ Less(QueuedAnswers(r, q)', QueuedAnswers(r, q))
        /\ Reads(r, q)' \in {0, Reads(r, q)} /\ Sends(r, q)' = Sends(r, q)
    BY <2>2 DEF Less
  <2>8. QED  BY <2>4, <2>5, <2>6, <2>7, PairLess
<1>2. QED  BY <1>1 DEF PairsInv


LEMMA LoopEndsLeaf ==
  ASSUME TypeInv, LeafInv, NEW p \in Process, LoopEnds(p)
  PROVE  LeafInv'
<1>1. /\ Structure /\ PairsInv /\ Looping(p) /\ ~Idle(p) /\ Pop(p) /\ calls' = calls
      /\ requests' = requests /\ UNCHANGED <<connections, sockets, broken>>
  BY DEF LeafInv, LoopEnds, Looping
<1>2. /\ Structure' /\ \A r \in Process \ {p} : stack'[r] = stack[r]
      /\ p \in Services => Len(stack'[p]) = 0
      /\ p \in Clients => Len(stack'[p]) = 1 /\ Len(stack[p]) # 0 /\ stack'[p][1] = stack[p][1]
  <2>1. CASE p \in Clients
    <3>1. Len(stack[p]) = 2
      BY <1>1, <2>1, LoopingIs
    <3>2. /\ Structure' /\ \A r \in Process \ {p} : stack'[r] = stack[r]
          /\ Len(stack'[p]) = Len(stack[p]) - 1
          /\ \A i \in 1 .. Len(stack[p]) - 1 : stack'[p][i] = stack[p][i]
      BY <1>1, <2>1, ClientPops
    <3>3. Len(stack'[p]) = 1 /\ stack'[p][1] = stack[p][1]
      BY <3>1, <3>2
    <3>4. QED  BY <2>1, <3>1, <3>2, <3>3, Kinds
  <2>2. CASE p \in Services
    BY <1>1, <2>2, ServicePops, Kinds
  <2>3. QED  BY <2>1, <2>2, Kinds
<1>3. PairsInv'
  BY <1>1, <1>2, NothingKept, PoppedPairs
<1>4. ASSUME NEW r \in Clients PROVE Len(stack'[r]) # 0 => WaitStays(r)
  <2>1. CASE r # p
    <3>1. stack'[r] = stack[r]
      BY <1>2, <2>1, Kinds
    <3>2. QED  BY <1>1, <3>1, SameWaits
  <2>2. CASE r = p
    BY <1>1, <1>2, <2>2 DEF WaitStays, Sends
  <2>3. QED  BY <2>1, <2>2
<1>5. ASSUME NEW y \in Services, InService(y)'
      PROVE  InService(y) /\ stack'[y][1].serving = stack[y][1].serving
  <2>1. CASE y # p
    BY <1>2, <1>5, <2>1, Kinds DEF InService
  <2>2. CASE y = p
    BY <1>2, <1>5, <2>2 DEF InService
  <2>3. QED  BY <2>1, <2>2
<1>6. QED  BY <1>1, <1>2, <1>3, <1>4, <1>5, RestKept DEF LeafInv

\* p waits no more.
LEMMA OverKept ==
  ASSUME TypeInv, LeafInv, NEW p \in Clients, Len(stack'[p]) = 0,
         \A r \in Process \ {p} : stack'[r] = stack[r],
         UNCHANGED <<connections, sockets, requests>>, Kept(calls, calls', {}),
         \A d \in DOMAIN calls : calls[d].from # p => calls'[d].answer = calls[d].answer
  PROVE  PairsInv' /\ WaitsInv' /\ ServicesInv'
<1>1. Structure /\ PairsInv /\ p \in Process /\ p \notin Services
  BY Kinds DEF LeafInv
<1>2. PairsInv'
  <2>1. p \in Services => Len(stack'[p]) = 0
    OBVIOUS
  <2>2. UNCHANGED <<connections, sockets>>
    OBVIOUS
  <2>3. p \in Clients =>
          Len(stack'[p]) = 0 \/ (Len(stack'[p]) = 1 /\ Len(stack[p]) # 0 /\ stack'[p][1] = stack[p][1])
    OBVIOUS
  <2>4. QED  BY <1>1, <2>1, <2>2, <2>3, PoppedPairs
<1>3. ASSUME NEW r \in Clients PROVE WaitInv(r)'
  <2>1. CASE r = p
    BY <2>1 DEF WaitInv
  <2>2. CASE r # p
    <3>1. stack'[r] = stack[r] /\ requests'[r] = requests[r]
      BY <2>2, Kinds
    <3>2. \A d \in DOMAIN calls : calls[d].from = r => calls'[d].answer = calls[d].answer
      BY <2>2
    <3>3. Len(stack'[r]) # 0 => WaitStays(r)
      BY <3>1, <3>2 DEF WaitStays, Sends
    <3>4. WaitInv(r)
      BY DEF LeafInv, WaitsInv
    <3>5. QED  BY <1>1, <3>3, <3>4, WaitKept
  <2>3. QED  BY <2>1, <2>2
<1>4. ASSUME NEW y \in Services PROVE ServiceInv(y)'
  <2>1. stack'[y] = stack[y]
    BY <1>1, Kinds
  <2>2. InService(y)' => InService(y) /\ stack'[y][1].serving = stack[y][1].serving
    BY <2>1 DEF InService
  <2>3. ServiceInv(y)
    BY DEF LeafInv, ServicesInv
  <2>4. QED  BY <2>2, <2>3, ServiceKept
<1>5. QED  BY <1>2, <1>3, <1>4 DEF WaitsInv, ServicesInv

\* A wait is over, and the caller gets what its parser was told, or nothing.
LEMMA WaitOver ==
  ASSUME TypeInv, LeafInv, NEW p \in Process, Waiting(p), NEW answer,
         answer.outcome \in Outcome => answer = Awaited(p),
         calls' = [calls EXCEPT ![Top(p).call].answer = answer], Pop(p),
         UNCHANGED <<connections, sockets, requests, broken>>
  PROVE  /\ LeafInv' /\ Top(p).call \in DOMAIN calls
         /\ calls[Top(p).call].answer = Unanswered
         /\ Awaited(p) # Unanswered =>
              /\ calls[Top(p).call].run \in Outcome
              /\ Awaited(p) = [outcome |-> calls[Top(p).call].run, of |-> Top(p).call]
<1> PICK c : c = Top(p).call
  OBVIOUS
<1>1. /\ Structure /\ PairsInv /\ p \in Clients /\ Len(stack[p]) = 1 /\ Top(p) = stack[p][1]
      /\ ~Idle(p)
  BY WaitingIs DEF LeafInv
<1>2. /\ c \in DOMAIN calls /\ calls[c].from = p /\ calls[c].answer = Unanswered
      /\ Awaited(p) # Unanswered =>
           calls[c].run \in Outcome /\ Awaited(p) = [outcome |-> calls[c].run, of |-> c]
  <2>1. WaitInv(p) /\ Len(stack[p]) # 0
    BY <1>1 DEF LeafInv, WaitsInv
  <2>2. QED  BY <1>1, <2>1 DEF WaitInv, Awaited
<1>3. /\ Structure' /\ Len(stack'[p]) = 0 /\ \A r \in Process \ {p} : stack'[r] = stack[r]
  <2>1. Structure' /\ Len(stack'[p]) = Len(stack[p]) - 1 /\ \A r \in Process \ {p} : stack'[r] = stack[r]
    BY <1>1, ClientPops
  <2>2. QED  BY <1>1, <2>1
<1>4. /\ DOMAIN calls' = DOMAIN calls /\ \A d \in DOMAIN calls : d # c => calls'[d] = calls[d]
      /\ calls'[c] = [calls[c] EXCEPT !.answer = answer]
  BY <1>2
<1>5. /\ calls'[c].from = calls[c].from /\ calls'[c].to = calls[c].to
      /\ calls'[c].run = calls[c].run /\ calls'[c].runs = calls[c].runs
      /\ calls'[c].answer = answer
  <2>1. calls[c] \in CallType
    BY <1>2, CallIs
  <2>2. QED  BY <1>4, <2>1 DEF CallType
<1>6. Kept(calls, calls', {})
  <2>1. ASSUME NEW d \in DOMAIN calls
        PROVE  /\ calls'[d].from = calls[d].from /\ calls'[d].to = calls[d].to
               /\ calls'[d].run = calls[d].run /\ calls'[d].runs = calls[d].runs
    <3>1. CASE d = c
      BY <1>5, <3>1
    <3>2. CASE d # c
      BY <1>4, <3>2
    <3>3. QED  BY <3>1, <3>2
  <2>2. QED  BY <1>4, <2>1 DEF Kept
<1>7. \A d \in DOMAIN calls : calls[d].from # p => calls'[d].answer = calls[d].answer
  BY <1>2, <1>4
<1>8. PairsInv' /\ WaitsInv' /\ ServicesInv'
  BY <1>1, <1>3, <1>6, <1>7, OverKept
<1>9. HistoryInv' /\ RunsOnce' /\ OwnAnswer'
  <2>1. \A d \in DOMAIN calls : calls'[d].run = calls[d].run /\ calls'[d].runs = calls[d].runs
    BY <1>6 DEF Kept
  <2>2. HistoryInv' /\ RunsOnce'
    BY <1>4, <2>1 DEF LeafInv, HistoryInv, RunsOnce
  <2>3. ASSUME NEW d \in DOMAIN calls, calls'[d].answer.outcome \in Outcome
        PROVE  calls'[d].answer = [outcome |-> calls'[d].run, of |-> d]
    <3>1. CASE d # c
      <4>1. calls'[d] = calls[d]
        BY <1>4, <3>1
      <4>2. QED  BY <2>3, <4>1 DEF LeafInv, OwnAnswer
    <3>2. CASE d = c
      <4>1. answer.outcome \in Outcome /\ answer = Awaited(p)
        BY <1>5, <2>3, <3>2
      <4>2. answer # Unanswered
        BY <4>1 DEF Unanswered, Outcome
      <4>3. QED  BY <1>2, <1>5, <3>2, <4>1, <4>2
    <3>3. QED  BY <3>1, <3>2
  <2>4. QED  BY <1>4, <2>2, <2>3 DEF OwnAnswer
<1>10. LeafInv'
  BY <1>3, <1>8, <1>9 DEF LeafInv
<1>11. QED  BY <1>2, <1>10

LEMMA WaitReturnsLeaf ==
  ASSUME TypeInv, LeafInv, NEW p \in Process, WaitReturns(p)
  PROVE  LeafInv'
<1>1. /\ Waiting(p) /\ calls' = [calls EXCEPT ![Top(p).call].answer = Awaited(p)] /\ Pop(p)
      /\ UNCHANGED <<connections, sockets, requests, broken>>
  BY DEF WaitReturns
<1>2. QED  BY <1>1, WaitOver

LEMMA WaitTimesOutLeaf ==
  ASSUME TypeInv, LeafInv, NEW p \in Process, WaitTimesOut(p)
  PROVE  LeafInv'
<1>1. PICK answer : answer = [outcome |-> "timeout", of |-> Top(p).call]
  OBVIOUS
<1>2. /\ Waiting(p) /\ calls' = [calls EXCEPT ![Top(p).call].answer = answer] /\ Pop(p)
      /\ UNCHANGED <<connections, sockets, requests, broken>>
  BY <1>1 DEF WaitTimesOut
<1>3. answer.outcome \notin Outcome
  BY <1>1 DEF Outcome
<1>4. QED  BY <1>2, <1>3, WaitOver

------------------------------------------------------------------------------
\* q accepts p's new connection in place of the one it had for p's image.
LEMMA AcceptViews ==
  ASSUME TypeInv, LeafInv, NEW q \in Process, NEW n \in DOMAIN sockets, Accept(q, n),
         NEW r \in Clients, NEW y \in Services
  PROVE  /\ ClientSame(r, y)
         /\ Less(OnWire(r, y, y)', OnWire(r, y, y)) /\ Less(OnWire(r, y, r)', OnWire(r, y, r))
         /\ \/ ServiceSame(r, y)
            \/ /\ Read(r, y)' = << >> /\ ReadNow(r, y)' = << >> /\ QueuedAnswers(r, y)' = << >>
               /\ Reads(r, y)' = 0 /\ Pending(r, y)' = {}
<1> PICK p : p = sockets[n].from
  OBVIOUS
<1> PICK i : i = Image[p]
  OBVIOUS
<1>1. Structure
  BY DEF LeafInv
<1>2. /\ Structure' /\ p \in Clients /\ q \in Services /\ stack' = stack
      /\ Len(stack[q]) = 0 /\ i \in Process
      /\ connections'[q][i] = [NewConnection EXCEPT !.socket = n]
      /\ \A a, b \in Process : <<a, b>> # <<q, i>> => connections'[a][b] = connections[a][b]
      /\ DOMAIN sockets' = DOMAIN sockets
      /\ sockets'[n].wire = sockets[n].wire
      /\ \A k \in DOMAIN sockets :
           /\ sockets'[k].from = sockets[k].from
           /\ k # n => \/ sockets'[k].wire = sockets[k].wire
                       \/ \A b \in Process : sockets'[k].wire[b] = << >>
  BY <1>1, AcceptStructure
<1>3. r \in Process /\ y \in Process /\ Image[r] \in Process /\ r # q
  BY <1>2, Kinds
<1>4. connections'[r][y] = connections[r][y]
  BY <1>2, <1>3
<1>5. ClientSame(r, y)
  BY <1>2, <1>4, ClientSides
<1>6. Less(OnWire(r, y, y)', OnWire(r, y, y)) /\ Less(OnWire(r, y, r)', OnWire(r, y, r))
  <2>1. CASE HasSocket(r, y)
    <3>1. PICK k \in DOMAIN sockets : k = connections[r][y].socket
      BY <1>3, <2>1, ConnectionIs DEF HasSocket
    <3>2. \/ sockets'[k].wire = sockets[k].wire
          \/ \A b \in Process : sockets'[k].wire[b] = << >>
      BY <1>2
    <3>3. HasSocket(r, y)' /\ connections'[r][y].socket = k
      BY <1>4, <2>1, <3>1 DEF HasSocket
    <3>4. QED  BY <1>3, <2>1, <3>1, <3>2, <3>3 DEF OnWire, SocketOf, Less
  <2>2. CASE ~HasSocket(r, y)
    BY <1>4, <2>2 DEF OnWire, HasSocket, Less
  <2>3. QED  BY <2>1, <2>2
<1>7. CASE y = q /\ Image[r] = i
  <2>1. ReadBy(q, i)' = << >> /\ ServedBy(q, i)' = {}
    BY <1>2 DEF ReadBy, ServedBy, InService
  <2>2. connections'[q][i].writeQueue = << >> /\ connections'[q][i].readSerial = 0
    BY <1>2 DEF NewConnection
  <2>3. QED
    BY <1>5, <1>6, <1>7, <2>1, <2>2 DEF Read, ReadNow, QueuedAnswers, Reads, Pending
<1>8. CASE ~(y = q /\ Image[r] = i)
  <2>1. connections'[y][Image[r]] = connections[y][Image[r]]
    BY <1>2, <1>3, <1>8
  <2>2. From(y, Image[r], r)' <=> From(y, Image[r], r)
    <3>1. connections'[y][Image[r]].socket = connections[y][Image[r]].socket
      BY <2>1
    <3>2. QED  BY <1>2, <1>3, <3>1, FromKept
  <2>3. connections'[r][y].socket = connections[r][y].socket
    BY <1>4
  <2>4. QED  BY <1>2, <1>5, <1>6, <2>1, <2>2, <2>3, ServiceSides
<1>9. QED  BY <1>7, <1>8

LEMMA AcceptLeaf ==
  ASSUME TypeInv, LeafInv, NEW q \in Process, NEW n \in DOMAIN sockets, Accept(q, n)
  PROVE  LeafInv'
<1> PICK p : p = sockets[n].from
  OBVIOUS
<1> PICK i : i = Image[p]
  OBVIOUS
<1>1. Structure
  BY DEF LeafInv
<1>2. Structure' /\ stack' = stack /\ calls' = calls /\ requests' = requests
  <2>1. Structure'
    BY <1>1, AcceptStructure
  <2>2. QED  BY <2>1 DEF Accept
<1>3. Kept(calls, calls', {}) /\ \A r, y : Spared(calls, {}, r, y)
  BY <1>2, NothingKept, NobodySpared
<1>4. ASSUME NEW r \in Clients, NEW y \in Services PROVE PairInv(r, y)'
  <2>1. /\ ClientSame(r, y)
        /\ Less(OnWire(r, y, y)', OnWire(r, y, y)) /\ Less(OnWire(r, y, r)', OnWire(r, y, r))
        /\ \/ ServiceSame(r, y)
           \/ /\ Read(r, y)' = << >> /\ ReadNow(r, y)' = << >> /\ QueuedAnswers(r, y)' = << >>
              /\ Reads(r, y)' = 0 /\ Pending(r, y)' = {}
    BY AcceptViews
  <2>2. /\ Less(Read(r, y)', Read(r, y)) /\ Less(ReadNow(r, y)', ReadNow(r, y))
        /\ Less(QueuedAnswers(r, y)', QueuedAnswers(r, y))
        /\ Reads(r, y)' \in {0, Reads(r, y)} /\ Pending(r, y)' \subseteq Pending(r, y)
    BY <2>1 DEF ServiceSame, Less
  <2>3. /\ Less(Queued(r, y)', Queued(r, y)) /\ Less(Handled(r, y)', Handled(r, y))
        /\ Sends(r, y)' = Sends(r, y) /\ Awaiting(r, y)' \in {0, Awaiting(r, y)}
    BY <2>1 DEF ClientSame, Less
  <2>4. PairInv(r, y)
    BY DEF LeafInv, PairsInv
  <2>5. QED  BY <1>1, <1>3, <2>1, <2>2, <2>3, <2>4, PairLess
<1>5. \A r \in Clients : Len(stack'[r]) # 0 => WaitStays(r)
  <2>1. ASSUME NEW r \in Clients PROVE \A x \in Services : Sends(r, x)' = Sends(r, x)
    BY AcceptViews DEF ClientSame
  <2>2. QED  BY <1>2, <2>1 DEF WaitStays
<1>6. \A y \in Services :
        InService(y)' => InService(y) /\ stack'[y][1].serving = stack[y][1].serving
  BY <1>2 DEF InService
<1>7. PairsInv'
  BY <1>4 DEF PairsInv
<1>8. QED  BY <1>2, <1>5, <1>6, <1>7, RestKept DEF LeafInv

------------------------------------------------------------------------------
\* p ends, and with it the method it runs.
Lost == {c \in DOMAIN calls : calls'[c].run # calls[c].run}

LEMMA EndsCalls ==
  ASSUME TypeInv, LeafInv, NEW p \in Process, Ends(p)
  PROVE  /\ Kept(calls, calls', Lost) /\ \A r, y : Spared(calls, Lost, r, y)
         /\ DOMAIN calls' = DOMAIN calls
         /\ \A c \in DOMAIN calls : calls'[c].answer = calls[c].answer
         /\ \A c \in Lost : p \in Services /\ calls[c].to = p /\ calls'[c].run = "lost"
                            /\ calls'[c].runs <= 1
<1>1. Structure
  BY DEF LeafInv
<1>2. /\ DOMAIN calls' = DOMAIN calls
      /\ \A c \in DOMAIN calls :
           /\ calls'[c].from = calls[c].from /\ calls'[c].to = calls[c].to
           /\ calls'[c].runs = calls[c].runs /\ calls'[c].answer = calls[c].answer
           /\ \/ calls'[c].run = calls[c].run
              \/ /\ calls'[c].run = "lost" /\ p \in Services /\ InService(p)
                 /\ c = stack[p][1].serving[1].call
  BY <1>1, EndsStructure
<1>3. ASSUME NEW c \in Lost
      PROVE  /\ c \in DOMAIN calls /\ calls'[c].run = "lost" /\ p \in Services
             /\ calls[c].to = p /\ calls[c].run = "running" /\ calls'[c].runs <= 1
  <2>1. /\ c \in DOMAIN calls /\ calls'[c].run = "lost" /\ p \in Services /\ InService(p)
        /\ c = stack[p][1].serving[1].call /\ calls'[c].runs = calls[c].runs
    BY <1>2 DEF Lost
  <2>2. ServiceInv(p)
    BY <2>1 DEF LeafInv, ServicesInv
  <2>3. calls[c].to = p /\ calls[c].run = "running"
    BY <2>1, <2>2 DEF ServiceInv
  <2>4. calls[c].runs <= 1
    BY <2>1 DEF LeafInv, RunsOnce
  <2>5. QED  BY <2>1, <2>3, <2>4
<1>4. \A c \in Lost : calls[c].run \notin Outcome /\ calls[c].run # "sent"
  BY <1>3 DEF Outcome
<1>5. Kept(calls, calls', Lost)
  <2>1. \A c \in DOMAIN calls : c \notin Lost => calls'[c].run = calls[c].run
    BY DEF Lost
  <2>2. QED  BY <1>2, <1>4, <2>1 DEF Kept
<1>6. \A r, y : Spared(calls, Lost, r, y)
  BY <1>4 DEF Spared
<1>7. QED  BY <1>2, <1>3, <1>5, <1>6

LEMMA EndsPairs ==
  ASSUME TypeInv, LeafInv, NEW p \in Process, Ends(p), NEW r \in Clients, NEW y \in Services
  PROVE  PairInv(r, y)'
<1> PICK i \in Process : i = Image[r]
  BY Kinds
<1>1. Structure /\ PairInv(r, y) /\ r \in Process /\ y \in Process /\ r # y
  BY Kinds DEF LeafInv, PairsInv
<1>2. /\ Structure' /\ Len(stack'[p]) = 0 /\ \A x \in Process \ {p} : stack'[x] = stack[x]
      /\ \A x \in Process : connections'[p][x] = NewConnection
      /\ \A x \in Process \ {p} : connections'[x] = connections[x]
      /\ \A k \in DOMAIN sockets :
           /\ sockets'[k].from = sockets[k].from
           /\ p \in {sockets[k].from, sockets[k].to} =>
                \A x \in Process : sockets'[k].wire[x] = << >>
           /\ p \notin {sockets[k].from, sockets[k].to} =>
                sockets'[k].wire = sockets[k].wire
  <2>1. Structure
    BY <1>1
  <2>2. QED  BY <2>1, EndsStructure
<1>3. /\ NewConnection.socket = 0 /\ NewConnection.writeQueue = << >>
      /\ NewConnection.writeSerial = 0
  BY DEF NewConnection
<1>4. Kept(calls, calls', Lost) /\ Spared(calls, Lost, r, y)
  BY EndsCalls
<1>5. CASE r = p
  <2>1. /\ connections'[r][y].socket = 0 /\ connections'[r][y].writeQueue = << >>
        /\ connections'[r][y].writeSerial = 0
    BY <1>1, <1>2, <1>3, <1>5
  <2>2. stack'[y] = stack[y] /\ connections'[y] = connections[y]
    BY <1>1, <1>2, <1>5
  <2>3. Less(Read(r, y)', Read(r, y))
    <3>1. From(y, i, r)' <=> From(y, i, r)
      BY <1>1, <1>2, <2>2, FromKept
    <3>2. ReadBy(y, i)' = ReadBy(y, i)
      BY <2>2 DEF ReadBy
    <3>3. QED  BY <3>1, <3>2 DEF Read, Less
  <2>4. ~HasSocket(r, y)' /\ ~Linked(r, y)'
    BY <2>1 DEF HasSocket, Linked
  <2>5. /\ OnWire(r, y, y)' = << >> /\ OnWire(r, y, r)' = << >>
        /\ ReadNow(r, y)' = << >> /\ QueuedAnswers(r, y)' = << >>
        /\ Reads(r, y)' = 0 /\ Pending(r, y)' = {}
    BY <2>4 DEF OnWire, ReadNow, QueuedAnswers, Reads, Pending
  <2>6. Queued(r, y)' = << >> /\ Sends(r, y)' = 0 /\ Handled(r, y)' = << >>
    BY <1>2, <1>5, <2>1 DEF Queued, Sends, Handled
  <2>7. Sends(r, y)' \in Nat
    BY <2>6
  <2>8. QED  BY <1>1, <1>4, <2>3, <2>5, <2>6, <2>7, PairLost
<1>6. CASE y = p
  <2>1. stack'[r] = stack[r] /\ connections'[r] = connections[r]
    BY <1>1, <1>2, <1>6
  <2>2. ~From(y, i, r)' /\ ~Linked(r, y)'
    <3>1. connections'[y][i].socket = 0
      BY <1>1, <1>2, <1>3, <1>6
    <3>2. QED  BY <3>1 DEF From, Linked, HasSocket
  <2>3. OnWire(r, y, y)' = << >> /\ OnWire(r, y, r)' = << >>
    <3>1. CASE HasSocket(r, y)
      <4>1. PICK k \in DOMAIN sockets : k = connections[r][y].socket
        BY <1>1, <3>1, ConnectionIs DEF HasSocket
      <4>2. sockets[k].to = y
        BY <1>1, <3>1, <4>1 DEF Structure, EndsInv, ClientEnd, SocketOf
      <4>3. sockets'[k].wire[y] = << >> /\ sockets'[k].wire[r] = << >>
        BY <1>1, <1>2, <1>6, <4>2
      <4>4. QED  BY <2>1, <4>1, <4>3 DEF OnWire, SocketOf
    <3>2. CASE ~HasSocket(r, y)
      BY <2>1, <3>2 DEF OnWire, HasSocket
    <3>3. QED  BY <3>1, <3>2
  <2>4. /\ Read(r, y)' = << >> /\ ReadNow(r, y)' = << >> /\ QueuedAnswers(r, y)' = << >>
        /\ Reads(r, y)' = 0 /\ Pending(r, y)' = {}
    BY <2>2 DEF Read, ReadNow, QueuedAnswers, Reads, Pending
  <2>5. ClientSame(r, y)
    BY <2>1, ClientSides
  <2>6. /\ Less(Read(r, y)', Read(r, y)) /\ Less(ReadNow(r, y)', ReadNow(r, y))
        /\ Less(OnWire(r, y, y)', OnWire(r, y, y)) /\ Less(OnWire(r, y, r)', OnWire(r, y, r))
        /\ Less(QueuedAnswers(r, y)', QueuedAnswers(r, y))
        /\ Reads(r, y)' \in {0, Reads(r, y)} /\ Pending(r, y)' \subseteq Pending(r, y)
    BY <2>3, <2>4 DEF Less
  <2>7. /\ Less(Queued(r, y)', Queued(r, y)) /\ Less(Handled(r, y)', Handled(r, y))
        /\ Sends(r, y)' = Sends(r, y) /\ Awaiting(r, y)' \in {0, Awaiting(r, y)}
    BY <2>5 DEF ClientSame, Less
  <2>8. QED  BY <1>1, <1>4, <2>6, <2>7, PairLess
<1>7. CASE r # p /\ y # p
  <2>1. /\ stack'[r] = stack[r] /\ connections'[r] = connections[r]
        /\ stack'[y] = stack[y] /\ connections'[y] = connections[y]
    BY <1>1, <1>2, <1>7
  <2>2. ClientSame(r, y)
    BY <2>1, ClientSides
  <2>3. WireSame(r, y)
    <3>1. ASSUME HasSocket(r, y) PROVE SocketOf(r, y)'.wire = SocketOf(r, y).wire
      <4>1. PICK k \in DOMAIN sockets : k = connections[r][y].socket
        BY <1>1, <3>1, ConnectionIs DEF HasSocket
      <4>2. sockets[k].to = y /\ sockets[k].from = r
        BY <1>1, <3>1, <4>1 DEF Structure, EndsInv, ClientEnd, SocketOf
      <4>3. sockets'[k].wire = sockets[k].wire
        BY <1>2, <1>7, <4>2
      <4>4. QED  BY <2>1, <4>1, <4>3 DEF SocketOf
    <3>2. QED  BY <2>1, <3>1, WireSides
  <2>4. ServiceSame(r, y)
    <3>1. From(y, Image[r], r)' <=> From(y, Image[r], r)
      BY <1>1, <1>2, <2>1, FromKept
    <3>2. QED  BY <2>1, <3>1, ServiceSides
  <2>5. QED  BY <1>1, <1>4, <2>2, <2>3, <2>4, PairSame
<1>8. QED  BY <1>5, <1>6, <1>7

LEMMA EndsLeaf ==
  ASSUME TypeInv, LeafInv, NEW p \in Process, Ends(p)
  PROVE  LeafInv'
<1>1. Structure /\ HistoryInv /\ RunsOnce /\ OwnAnswer
  BY DEF LeafInv
<1>2. /\ Structure' /\ Len(stack'[p]) = 0 /\ \A x \in Process \ {p} : stack'[x] = stack[x]
      /\ \A x \in Process \ {p} : connections'[x] = connections[x] /\ requests'[x] = requests[x]
  <2>1. Structure
    BY <1>1
  <2>2. QED  BY <2>1, EndsStructure
<1>3. /\ Kept(calls, calls', Lost) /\ DOMAIN calls' = DOMAIN calls
      /\ \A c \in DOMAIN calls : calls'[c].answer = calls[c].answer
      /\ \A c \in Lost : p \in Services /\ calls[c].to = p /\ calls'[c].run = "lost"
                         /\ calls'[c].runs <= 1
  BY EndsCalls
<1>4. PairsInv'
  BY EndsPairs DEF PairsInv
<1>5. ASSUME NEW q \in Services PROVE ServiceInv(q)'
  <2>1. CASE q = p
    BY <1>2, <2>1 DEF ServiceInv, InService
  <2>2. CASE q # p
    <3>1. stack'[q] = stack[q]
      BY <1>2, <2>2, Kinds
    <3>2. InService(q)' => InService(q) /\ stack'[q][1].serving = stack[q][1].serving
      BY <3>1 DEF InService
    <3>3. \A c \in Lost : c \in DOMAIN calls => calls[c].to # q
      BY <1>3, <2>2
    <3>4. ServiceInv(q)
      BY DEF LeafInv, ServicesInv
    <3>5. QED  BY <1>3, <3>2, <3>3, <3>4, ServiceKept
  <2>3. QED  BY <2>1, <2>2
<1>6. ASSUME NEW r \in Clients PROVE WaitInv(r)'
  <2>1. CASE r = p
    BY <1>2, <2>1 DEF WaitInv
  <2>2. CASE r # p
    <3>1. stack'[r] = stack[r] /\ connections'[r] = connections[r] /\ requests'[r] = requests[r]
      BY <1>2, <2>2, Kinds
    <3>2. Len(stack'[r]) # 0 => WaitStays(r)
      BY <1>3, <3>1 DEF WaitStays, Sends
    <3>3. WaitInv(r)
      BY DEF LeafInv, WaitsInv
    <3>4. QED  BY <1>1, <1>3, <3>2, <3>3, WaitKept
  <2>3. QED  BY <2>1, <2>2
<1>7. HistoryInv' /\ RunsOnce' /\ OwnAnswer'
  <2>1. \A c \in Lost : c \in DOMAIN calls => calls'[c].run # "sent" /\ calls'[c].runs <= 1
    BY <1>3
  <2>2. QED  BY <1>1, <1>3, <2>1, PastKept
<1>8. QED  BY <1>2, <1>4, <1>5, <1>6, <1>7 DEF LeafInv, ServicesInv, WaitsInv

------------------------------------------------------------------------------
\* p sends q one more request, m.
Asked(p, q, type, call) == Numbered(Message(type, 0, call), connections[p][q].writeSerial)

LEMMA PendingType ==
  ASSUME TypeInv, Structure, NEW p \in Clients, NEW q \in Services
  PROVE  \A s \in Pending(p, q) : s.serial \in Nat
<1>1. CASE Len(stack[q]) = 1
  <2>1. stack[q][1].kind = "loop"
    BY <1>1 DEF Structure, StackShape, ServiceStack
  <2>2. stack[q][1] \in FrameType
    BY <1>1, Kinds, StackIs
  <2>3. stack[q][1].serving \in Seq(ServedType)
    BY <2>1, <2>2, FrameIs
  <2>4. Elements(stack[q][1].serving) \subseteq ServedType
    BY <2>3, ElementsType
  <2>5. QED  BY <2>4 DEF Pending, ServedBy, ServedType
<1>2. CASE Len(stack[q]) # 1
  BY <1>2 DEF Pending, ServedBy, InService
<1>3. QED  BY <1>1, <1>2

LEMMA AskedViews ==
  ASSUME TypeInv, Structure, NEW p \in Clients, NEW q \in Services,
         NEW type \in Request, NEW call \in Nat,
         SendOn(p, q, connections[p][q], Message(type, 0, call)),
         \A y \in Services : stack'[y] = stack[y]
  PROVE  /\ Asked(p, q, type, call) \in MessageType
         /\ Queued(p, q)' = Append(Queued(p, q), Asked(p, q, type, call))
         /\ Sends(p, q)' = Sends(p, q) + 1
         /\ \A r, y \in Process : <<r, y>> # <<p, q>> => connections'[r][y] = connections[r][y]
         /\ \A r \in Clients, y \in Services : WireSame(r, y) /\ ServiceSame(r, y)
<1> PICK c \in ConnectionType : c = connections[p][q]
  BY Kinds, ConnectionIs
<1>1. /\ p \in Process /\ q \in Process /\ p # q /\ type \in Request \cup Outcome
      /\ SendOn(p, q, c, Message(type, 0, call)) /\ c.socket = connections[p][q].socket
  BY Kinds
<1>2. /\ c.socket # 0 => sockets' = sockets /\ connections'[p][q].socket = c.socket
      /\ c.socket = 0 => /\ sockets'[Len(sockets) + 1] = NewSocket(p, q)
                         /\ connections'[p][q].socket = Len(sockets) + 1
      /\ \A n \in DOMAIN sockets : sockets'[n] = sockets[n]
      /\ connections'[p][q].writeSerial = c.writeSerial + 1
      /\ connections'[p][q].writeQueue =
           Append(c.writeQueue, Numbered(Message(type, 0, call), c.writeSerial))
      /\ Numbered(Message(type, 0, call), c.writeSerial) \in MessageType
      /\ \A r, x \in Process : <<r, x>> # <<p, q>> => connections'[r][x] = connections[r][x]
  <2>1. /\ c.socket # 0 => sockets' = sockets /\ connections'[p][q].socket = c.socket
        /\ c.socket = 0 => /\ Len(sockets') = Len(sockets) + 1
                           /\ sockets'[Len(sockets) + 1] = NewSocket(p, q)
                           /\ connections'[p][q].socket = Len(sockets) + 1
        /\ \A n \in DOMAIN sockets : n \in DOMAIN sockets' /\ sockets'[n] = sockets[n]
    BY <1>1, Sent
  <2>2. /\ connections'[p][q].writeSerial = c.writeSerial + 1
        /\ connections'[p][q].writeQueue =
             Append(c.writeQueue, Numbered(Message(type, 0, call), c.writeSerial))
        /\ Numbered(Message(type, 0, call), c.writeSerial) \in MessageType
    <3>1. PICK m : m = Numbered(Message(type, 0, call), c.writeSerial)
      OBVIOUS
    <3>2. PICK k : k = IF c.socket = 0 THEN Len(sockets) + 1 ELSE c.socket
      OBVIOUS
    <3>3. PICK d : d = [c EXCEPT !.socket = k, !.writeSerial = @ + 1, !.writeQueue = Append(@, m)]
      OBVIOUS
    <3>4. connections' = [connections EXCEPT ![p][q] = d]
      BY <1>1, <3>1, <3>2, <3>3 DEF SendOn
    <3>5. connections'[p][q] = d
      BY <1>1, <3>4 DEF TypeInv, ConnectionsType
    <3>6. d.writeSerial = c.writeSerial + 1 /\ d.writeQueue = Append(c.writeQueue, m)
      BY <3>3 DEF ConnectionType
    <3>7. c.writeSerial \in Nat
      BY DEF ConnectionType
    <3>8. m \in MessageType
      BY <1>1, <3>1, <3>7, NumberedType
    <3>9. QED  BY <3>1, <3>5, <3>6, <3>8
  <2>3. \A r, x \in Process : <<r, x>> # <<p, q>> => connections'[r][x] = connections[r][x]
    BY <1>1 DEF SendOn, TypeInv, ConnectionsType
  <2>4. QED  BY <2>1, <2>2, <2>3
<1>3. ASSUME NEW r \in Clients, NEW y \in Services PROVE WireSame(r, y) /\ ServiceSame(r, y)
  <2>1. r \in Process /\ y \in Process /\ Image[r] \in Process /\ y # p
    BY Kinds
  <2>2. connections'[y][Image[r]] = connections[y][Image[r]]
    BY <1>2, <2>1
  <2>3. From(y, Image[r], r)' <=> From(y, Image[r], r)
    <3>1. connections'[y][Image[r]].socket = connections[y][Image[r]].socket
      BY <2>2
    <3>2. \A k \in DOMAIN sockets : sockets'[k].from = sockets[k].from
      BY <1>2
    <3>3. QED  BY <2>1, <3>1, <3>2, FromKept
  <2>4. CASE connections'[r][y].socket = connections[r][y].socket
    <3>1. HasSocket(r, y) => SocketOf(r, y)'.wire = SocketOf(r, y).wire
      <4>1. HasSocket(r, y) => connections[r][y].socket \in DOMAIN sockets
        BY <2>1, ConnectionIs DEF HasSocket
      <4>2. QED  BY <1>2, <2>4, <4>1 DEF SocketOf
    <3>2. QED  BY <2>2, <2>3, <2>4, <3>1, WireSides, ServiceSides
  <2>5. CASE connections'[r][y].socket # connections[r][y].socket
    <3>1. <<r, y>> = <<p, q>> /\ c.socket = 0
      BY <1>2, <2>1, <2>5
    <3>2. ~HasSocket(r, y) /\ ~Linked(r, y)
      BY <3>1 DEF HasSocket, Linked
    <3>3. PICK k \in Nat : k = Len(sockets) + 1
      BY LenProperties DEF TypeInv
    <3>4. connections'[r][y].socket = k /\ sockets'[k] = NewSocket(p, q)
      BY <1>2, <3>1, <3>3
    <3>5. ~Linked(r, y)'
      <4>1. connections[y][Image[r]].socket \in 0 .. Len(sockets) /\ Len(sockets) \in Nat
        BY <2>1, ConnectionIs
      <4>2. connections'[y][Image[r]].socket # k
        BY <2>2, <3>3, <4>1
      <4>3. QED  BY <3>4, <4>2 DEF Linked
    <3>6. OnWire(r, y, y)' = << >> /\ OnWire(r, y, r)' = << >>
      <4>1. sockets'[k].wire[y] = << >> /\ sockets'[k].wire[r] = << >>
        BY <2>1, <3>4 DEF NewSocket
      <4>2. QED  BY <3>4, <4>1 DEF OnWire, SocketOf
    <3>7. WireSame(r, y)
      BY <3>2, <3>6 DEF WireSame, OnWire
    <3>8. ReadBy(y, Image[r])' = ReadBy(y, Image[r])
      BY DEF ReadBy
    <3>9. ServiceSame(r, y)
      BY <2>3, <3>2, <3>5, <3>8 DEF ServiceSame, Read, ReadNow, QueuedAnswers, Reads, Pending
    <3>10. QED  BY <3>7, <3>9
  <2>6. QED  BY <2>4, <2>5
<1>4. Asked(p, q, type, call) = Numbered(Message(type, 0, call), c.writeSerial)
  BY DEF Asked
<1>5. QED  BY <1>2, <1>3, <1>4 DEF Queued, Sends

LEMMA AskedPairs ==
  ASSUME TypeInv, Structure, PairsInv, NEW p \in Clients, NEW q \in Services,
         NEW type \in Request, NEW call \in Nat,
         SendOn(p, q, connections[p][q], Message(type, 0, call)),
         \A r \in Process \ {p} : stack'[r] = stack[r],
         Len(stack[p]) = 0, Len(stack'[p]) # 2,
         Awaiting(p, q)' \in {0, call}, \A y \in Services : y # q => Awaiting(p, y)' = 0,
         Kept(calls, calls', {}), Asks(calls', p, q, Asked(p, q, type, call)),
         type = "invoke" => call \notin DOMAIN calls
  PROVE  PairsInv'
<1> PICK m : m = Asked(p, q, type, call)
  OBVIOUS
<1>1. /\ m \in MessageType /\ Queued(p, q)' = Append(Queued(p, q), m)
      /\ Sends(p, q)' = Sends(p, q) + 1
      /\ \A r, y \in Process : <<r, y>> # <<p, q>> => connections'[r][y] = connections[r][y]
      /\ \A r \in Clients, y \in Services : WireSame(r, y) /\ ServiceSame(r, y)
  <2>1. \A y \in Services : stack'[y] = stack[y]
    BY Kinds
  <2>2. QED  BY <2>1, AskedViews
<1>2. m.type = type /\ m.call = call /\ m.number = Sends(p, q)
  BY DEF Asked, Numbered, Message, Sends
<1>3. \A y \in Services : Awaiting(p, y) = 0 /\ Handled(p, y) = << >> /\ Handled(p, y)' = << >>
  BY DEF Awaiting, Handled
<1>4. PairInv(p, q)'
  <2>1. /\ PairInv(p, q) /\ WireSame(p, q) /\ ServiceSame(p, q)
        /\ Handled(p, q)' = Handled(p, q)
    BY <1>1, <1>3 DEF PairsInv
  <2>2. /\ Read(p, q) \in Seq(MessageType) /\ ReadNow(p, q) \in Seq(MessageType)
        /\ OnWire(p, q, q) \in Seq(MessageType) /\ OnWire(p, q, p) \in Seq(MessageType)
        /\ Queued(p, q) \in Seq(MessageType) /\ Handled(p, q) \in Seq(MessageType)
        /\ QueuedAnswers(p, q) \in Seq(MessageType)
        /\ Reads(p, q) \in Nat /\ Sends(p, q) \in Nat
    BY ViewTypes
  <2>3. Requested(calls', p, q, Read(p, q), OnWire(p, q, q), Append(Queued(p, q), m))
    <3>1. Requested(calls, p, q, Read(p, q), OnWire(p, q, q), Queued(p, q))
      BY <2>1 DEF PairInv
    <3>2. m.type = "invoke" => m.call \notin DOMAIN calls
      BY <1>2
    <3>3. Asks(calls', p, q, m)
      OBVIOUS
    <3>4. QED  BY <1>1, <2>2, <3>1, <3>2, <3>3, RequestedMore
  <2>4. Numbering(Reads(p, q), Sends(p, q) + 1, Awaiting(p, q)',
                  ReadNow(p, q), OnWire(p, q, q), Append(Queued(p, q), m))
    <3>1. Numbering(Reads(p, q), Sends(p, q), Awaiting(p, q),
                    ReadNow(p, q), OnWire(p, q, q), Queued(p, q))
      BY <2>1 DEF PairInv
    <3>2. Awaiting(p, q)' \in {0, m.call}
      BY <1>2
    <3>3. QED  BY <1>1, <1>2, <2>2, <3>1, <3>2, NumberingMore
  <2>5. Answered(calls', Sends(p, q) + 1, Awaiting(p, q)',
                 Handled(p, q), OnWire(p, q, p), QueuedAnswers(p, q))
    <3>1. Answered(calls, Sends(p, q), Awaiting(p, q),
                   Handled(p, q), OnWire(p, q, p), QueuedAnswers(p, q))
      BY <2>1 DEF PairInv
    <3>2. QED  BY <2>2, <3>1, AnsweredMore
  <2>6. Serves(Sends(p, q) + 1, Awaiting(p, q)', Pending(p, q))
    <3>1. Serves(Sends(p, q), Awaiting(p, q), Pending(p, q))
      BY <2>1 DEF PairInv
    <3>2. ASSUME NEW s \in Pending(p, q)
          PROVE  Fits(Sends(p, q) + 1, Awaiting(p, q)', s.serial, s.call)
      <4>1. Fits(Sends(p, q), Awaiting(p, q), s.serial, s.call) /\ s.serial \in Nat
        BY <3>1, PendingType DEF Serves
      <4>2. QED  BY <2>2, <4>1, SendsOn
    <3>3. QED  BY <3>2 DEF Serves
  <2>7. QED
    BY <1>1, <2>1, <2>3, <2>4, <2>5, <2>6 DEF PairInv, WireSame, ServiceSame
<1>5. ASSUME NEW r \in Clients, NEW y \in Services, <<r, y>> # <<p, q>> PROVE PairInv(r, y)'
  <2>1. /\ PairInv(r, y) /\ WireSame(r, y) /\ ServiceSame(r, y)
        /\ connections'[r][y] = connections[r][y] /\ Spared(calls, {}, r, y)
    BY <1>1, <1>5, Kinds, NobodySpared DEF PairsInv
  <2>2. ClientSame(r, y)
    <3>1. CASE r # p
      BY <2>1, <3>1, Kinds, ClientSides
    <3>2. CASE r = p
      <4>1. y # q
        BY <1>5, <3>2
      <4>2. QED  BY <1>3, <2>1, <3>2, <4>1 DEF ClientSame, Queued, Sends
    <3>3. QED  BY <3>1, <3>2
  <2>3. QED  BY <2>1, <2>2, PairSame
<1>6. QED  BY <1>4, <1>5 DEF PairsInv


LEMMA ReleaseLeaf ==
  ASSUME LeafServices, TypeInv, LeafInv, NEW p \in Process, NEW q \in Process, Release(p, q)
  PROVE  LeafInv'
<1> PICK type \in Request : type = "release"
  BY DEF Request
<1> PICK call \in Nat : call = 0
  OBVIOUS
<1>1. Structure
  BY DEF LeafInv
<1>2. Structure' /\ p \in Clients /\ q \in Services /\ Len(stack[p]) = 0
  BY <1>1, ReleaseStructure
<1>3. /\ SendOn(p, q, connections[p][q], Message(type, 0, call))
      /\ stack' = stack /\ calls' = calls /\ requests' = requests
  BY DEF Release
<1>4. Kept(calls, calls', {})
  BY <1>3, NothingKept
<1>5. PairsInv'
  <2>1. \A y \in Services : Awaiting(p, y)' = 0
    BY <1>2, <1>3 DEF Awaiting
  <2>2. Asks(calls', p, q, Asked(p, q, type, call))
    BY DEF Asks, Asked, Numbered, Message
  <2>3. type = "invoke" => call \notin DOMAIN calls
    OBVIOUS
  <2>4. /\ \A r \in Process \ {p} : stack'[r] = stack[r]
        /\ Awaiting(p, q)' \in {0, call}
        /\ \A y \in Services : y # q => Awaiting(p, y)' = 0
    BY <1>2, <1>3, <2>1
  <2>5. Len(stack'[p]) # 2
    <3>1. stack'[p] = stack[p]
      BY <1>3
    <3>2. QED  BY <1>2, <3>1
  <2>6. PairsInv
    BY DEF LeafInv
  <2>7. QED  BY <1>1, <1>2, <1>3, <1>4, <2>2, <2>3, <2>4, <2>5, <2>6, AskedPairs
<1>6. ASSUME NEW r \in Clients PROVE Len(stack'[r]) # 0 => WaitStays(r)
  <2>1. CASE r = p
    BY <1>2, <1>3, <2>1
  <2>2. CASE r # p
    <3>1. connections'[r] = connections[r]
      BY <1>2, <1>3, <2>2, Kinds DEF SendOn, TypeInv, ConnectionsType
    <3>2. QED  BY <1>3, <3>1 DEF WaitStays, Sends
  <2>3. QED  BY <2>1, <2>2
<1>7. \A y \in Services :
        InService(y)' => InService(y) /\ stack'[y][1].serving = stack[y][1].serving
  BY <1>3 DEF InService
<1>8. QED  BY <1>2, <1>3, <1>5, <1>6, <1>7, RestKept DEF LeafInv

\* A call more, which nobody has heard of yet.
LEMMA CallMade ==
  ASSUME TypeInv, NEW p \in Process, NEW q \in Process, NEW call, call = Len(calls) + 1,
         calls' = Append(calls, [from |-> p, to |-> q, runs |-> 0, run |-> "sent",
                                 answer |-> Unanswered])
  PROVE  /\ call \in Nat \ {0} /\ call \notin DOMAIN calls /\ Kept(calls, calls', {})
         /\ DOMAIN calls' = DOMAIN calls \cup {call}
         /\ \A c \in DOMAIN calls : calls'[c] = calls[c]
         /\ calls'[call] = [from |-> p, to |-> q, runs |-> 0, run |-> "sent", answer |-> Unanswered]
<1> PICK new : new = [from |-> p, to |-> q, runs |-> 0, run |-> "sent", answer |-> Unanswered]
  OBVIOUS
<1>1. calls \in Seq(CallType) /\ Len(calls) \in Nat /\ DOMAIN calls = 1 .. Len(calls)
  BY LenProperties DEF TypeInv, CallsType
<1>2. new \in CallType
  BY UnansweredType DEF CallType
<1>3. calls' = Append(calls, new)
  OBVIOUS
<1>4. /\ calls' \in Seq(CallType) /\ Len(calls') = Len(calls) + 1
      /\ \A c \in 1 .. Len(calls) : calls'[c] = calls[c]
      /\ calls'[Len(calls) + 1] = new
  BY <1>1, <1>2, <1>3, AppendProperties
<1>5. DOMAIN calls' = 1 .. Len(calls')
  BY <1>4, LenProperties
<1>6. DOMAIN calls' = DOMAIN calls \cup {call} /\ call \in Nat \ {0} /\ call \notin DOMAIN calls
  BY <1>1, <1>4, <1>5
<1>7. \A c \in DOMAIN calls : calls'[c] = calls[c]
  BY <1>1, <1>4
<1>8. Kept(calls, calls', {})
  BY <1>6, <1>7 DEF Kept
<1>9. QED  BY <1>4, <1>6, <1>7, <1>8

LEMMA InvokeLeaf ==
  ASSUME LeafServices, TypeInv, LeafInv, NEW p \in Process, NEW q \in Process, Invoke(p, q)
  PROVE  LeafInv'
<1> PICK type \in Request : type = "invoke"
  BY DEF Request
<1> PICK call : call = Len(calls) + 1
  OBVIOUS
<1> PICK serial : serial = connections[p][q].writeSerial
  OBVIOUS
<1>1. Structure
  BY DEF LeafInv
<1>2. /\ Structure' /\ p \in Clients /\ q \in Services /\ Len(stack[p]) = 0 /\ Len(stack'[p]) = 1
      /\ stack'[p][1] = WaitFrame(q, serial, call)
      /\ \A r \in Process \ {p} : stack'[r] = stack[r]
  BY <1>1, InvokeStructure
<1>3. /\ SendOn(p, q, connections[p][q], Message(type, 0, call))
      /\ requests' = [requests EXCEPT ![p][q] =
           [s \in DOMAIN @ \cup {serial} |-> IF s = serial THEN Unanswered ELSE @[s]]]
      /\ calls' = Append(calls, [from |-> p, to |-> q, runs |-> 0, run |-> "sent",
                                 answer |-> Unanswered])
  BY DEF Invoke
<1>4. /\ call \in Nat \ {0} /\ call \notin DOMAIN calls /\ Kept(calls, calls', {})
      /\ DOMAIN calls' = DOMAIN calls \cup {call}
      /\ \A c \in DOMAIN calls : calls'[c] = calls[c]
      /\ calls'[call] = [from |-> p, to |-> q, runs |-> 0, run |-> "sent", answer |-> Unanswered]
  BY <1>3, CallMade
<1>5. /\ stack'[p][1].kind = "wait" /\ stack'[p][1].peer = q /\ stack'[p][1].serial = serial
      /\ stack'[p][1].call = call
  BY <1>2 DEF WaitFrame
<1>6. PairsInv'
  <2>1. Awaiting(p, q)' \in {0, call} /\ \A y \in Services : y # q => Awaiting(p, y)' = 0
    BY <1>2, <1>5 DEF Awaiting
  <2>2. Asks(calls', p, q, Asked(p, q, type, call))
    <3>1. /\ calls'[call].from = p /\ calls'[call].to = q /\ calls'[call].run = "sent"
          /\ call \in DOMAIN calls'
      BY <1>4
    <3>2. QED  BY <3>1 DEF Asks, Asked, Numbered, Message
  <2>3. type = "invoke" => call \notin DOMAIN calls
    BY <1>4
  <2>4. PairsInv /\ call \in Nat
    BY <1>4 DEF LeafInv
  <2>5. Len(stack'[p]) # 2
    BY <1>2
  <2>6. Kept(calls, calls', {})
    BY <1>4
  <2>7. \A r \in Process \ {p} : stack'[r] = stack[r]
    BY <1>2
  <2>8. p \in Clients /\ q \in Services /\ Len(stack[p]) = 0
    BY <1>2
  <2>9. SendOn(p, q, connections[p][q], Message(type, 0, call))
    BY <1>3
  <2>10. Awaiting(p, q)' \in {0, call}
    BY <2>1
  <2>11. \A y \in Services : y # q => Awaiting(p, y)' = 0
    BY <2>1
  <2>12. QED
    BY <1>1, <2>2, <2>3, <2>4, <2>5, <2>6, <2>7, <2>8, <2>9, <2>10, <2>11, AskedPairs
<1>7. ASSUME NEW r \in Clients PROVE WaitInv(r)'
  <2>1. CASE r = p
    <3>1. requests'[p][q][serial] = Unanswered
      BY <1>3 DEF TypeInv, RequestsType
    <3>2. Sends(p, q)' = serial + 1
      <4>1. Sends(p, q)' = Sends(p, q) + 1
        <5>1. \A y \in Services : stack'[y] = stack[y]
          BY <1>2, Kinds
        <5>2. call \in Nat /\ SendOn(p, q, connections[p][q], Message(type, 0, call))
          BY <1>3, <1>4
        <5>3. QED  BY <1>1, <1>2, <5>1, <5>2, AskedViews
      <4>2. QED  BY <4>1 DEF Sends
    <3>3. calls'[call].from = p /\ calls'[call].answer = Unanswered /\ call \in DOMAIN calls'
      BY <1>4
    <3>4. QED  BY <1>5, <2>1, <3>1, <3>2, <3>3 DEF WaitInv
  <2>2. CASE r # p
    <3>1. r \in Process
      BY Kinds
    <3>2. connections'[r] = connections[r]
      BY <1>3, <2>2, <3>1 DEF SendOn, TypeInv, ConnectionsType
    <3>3. requests'[r] = requests[r]
      BY <1>3, <2>2, <3>1 DEF TypeInv, RequestsType
    <3>4. stack'[r] = stack[r]
      BY <1>2, <2>2, <3>1
    <3>5. \A c \in DOMAIN calls : calls'[c].answer = calls[c].answer
      BY <1>4
    <3>6. Len(stack'[r]) # 0 => WaitStays(r)
      BY <3>2, <3>3, <3>4, <3>5 DEF WaitStays, Sends
    <3>7. WaitInv(r)
      BY DEF LeafInv, WaitsInv
    <3>8. QED  BY <1>1, <1>4, <3>6, <3>7, WaitKept
  <2>3. QED  BY <2>1, <2>2
<1>8. ASSUME NEW y \in Services PROVE ServiceInv(y)'
  <2>1. stack'[y] = stack[y]
    BY <1>2, Kinds
  <2>2. InService(y)' => InService(y) /\ stack'[y][1].serving = stack[y][1].serving
    BY <2>1 DEF InService
  <2>3. ServiceInv(y)
    BY DEF LeafInv, ServicesInv
  <2>4. QED  BY <1>4, <2>2, <2>3, ServiceKept
<1>9. HistoryInv' /\ RunsOnce' /\ OwnAnswer'
  <2>1. /\ calls'[call].runs = 0 /\ calls'[call].answer.outcome = "none"
    BY <1>4 DEF Unanswered
  <2>2. 0 <= 1 /\ "none" \notin Outcome
    BY DEF Outcome
  <2>3. HistoryInv /\ RunsOnce /\ OwnAnswer
    BY DEF LeafInv
  <2>4. HistoryInv'
    BY <1>4, <2>1, <2>3 DEF HistoryInv
  <2>5. RunsOnce'
    BY <1>4, <2>1, <2>2, <2>3 DEF RunsOnce
  <2>6. OwnAnswer'
    BY <1>4, <2>1, <2>2, <2>3 DEF OwnAnswer
  <2>7. QED  BY <2>4, <2>5, <2>6
<1>10. QED  BY <1>2, <1>6, <1>7, <1>8, <1>9 DEF LeafInv, WaitsInv, ServicesInv

------------------------------------------------------------------------------
\* A service's turns: its loop over what p sent goes on.
TurnOf(q, i) ==
  /\ Structure' /\ Len(stack[q]) = 1 /\ Len(stack'[q]) = 1
  /\ stack[q][1].peer = i /\ stack'[q][1].peer = i
  /\ \A r \in Process \ {q} : stack'[r] = stack[r]
  /\ \A r, y \in Process : <<r, y>> # <<q, i>> => connections'[r][y] = connections[r][y]
  /\ connections'[q][i].socket = connections[q][i].socket
  /\ connections[q][i].socket # 0
  /\ sockets' = sockets

LEMMA LoopOver ==
  ASSUME TypeInv, Structure, NEW q \in Services, NEW i \in Process, Len(stack[q]) = 1,
         stack[q][1].peer = i, connections[q][i].socket # 0, NEW p, p = SocketOf(q, i).from
  PROVE  /\ p \in Clients /\ p \in Process /\ p # q /\ Image[p] = i /\ From(q, i, p)
         /\ \A r \in Clients : r # p => ~From(q, i, r)
         /\ Read(p, q) = stack[q][1].rest
<1>1. HasSocket(q, i) /\ q \in Process
  BY Kinds DEF HasSocket
<1>2. p \in Clients /\ Image[p] = i
  BY <1>1, EndIs DEF SocketOf
<1>3. From(q, i, p) /\ \A r \in Clients : r # p => ~From(q, i, r)
  BY <1>1 DEF From
<1>4. Read(p, q) = stack[q][1].rest
  BY <1>2, <1>3 DEF Read, ReadBy
<1>5. QED  BY <1>2, <1>3, <1>4, Kinds

LEMMA TurnViews ==
  ASSUME TypeInv, Structure, NEW q \in Services, NEW i \in Process, TurnOf(q, i),
         NEW p, p = SocketOf(q, i).from
  PROVE  /\ ClientSame(p, q) /\ WireSame(p, q)
         /\ Read(p, q) = stack[q][1].rest /\ Read(p, q)' = stack'[q][1].rest
         /\ \/ /\ Linked(p, q)
               /\ ReadNow(p, q) = stack[q][1].rest /\ ReadNow(p, q)' = stack'[q][1].rest
               /\ Reads(p, q) = connections[q][i].readSerial
               /\ Reads(p, q)' = connections'[q][i].readSerial
               /\ QueuedAnswers(p, q) = connections[q][i].writeQueue
               /\ QueuedAnswers(p, q)' = connections'[q][i].writeQueue
               /\ Pending(p, q) = Elements(stack[q][1].serving)
               /\ Pending(p, q)' = Elements(stack'[q][1].serving)
            \/ /\ ~Linked(p, q)
               /\ ReadNow(p, q)' = ReadNow(p, q) /\ Reads(p, q)' = Reads(p, q)
               /\ QueuedAnswers(p, q)' = << >> /\ QueuedAnswers(p, q) = << >>
               /\ Pending(p, q)' = {}
<1>1. /\ Len(stack[q]) = 1 /\ Len(stack'[q]) = 1
      /\ stack[q][1].peer = i /\ stack'[q][1].peer = i
      /\ \A r \in Process \ {q} : stack'[r] = stack[r]
      /\ \A r, y \in Process : <<r, y>> # <<q, i>> => connections'[r][y] = connections[r][y]
      /\ connections'[q][i].socket = connections[q][i].socket
      /\ connections[q][i].socket # 0 /\ sockets' = sockets
  BY DEF TurnOf
<1>2. /\ p \in Clients /\ p \in Process /\ p # q /\ Image[p] = i /\ From(q, i, p)
      /\ Read(p, q) = stack[q][1].rest
  BY <1>1, LoopOver
<1>3. q \in Process
  BY Kinds
<1>4. connections'[p][q] = connections[p][q] /\ stack'[p] = stack[p]
  BY <1>1, <1>2, <1>3
<1>5. ClientSame(p, q)
  BY <1>4, ClientSides
<1>6. WireSame(p, q)
  BY <1>1, <1>4 DEF WireSame, OnWire, HasSocket, SocketOf
<1>7. Read(p, q)' = stack'[q][1].rest
  <2>1. From(q, i, p)'
    BY <1>1, <1>2 DEF From, HasSocket, SocketOf
  <2>2. QED  BY <1>1, <1>2, <2>1 DEF Read, ReadBy
<1>8. Linked(p, q)' <=> Linked(p, q)
  BY <1>1, <1>2, <1>4 DEF Linked, HasSocket
<1>9. /\ ServedBy(q, i) = Elements(stack[q][1].serving)
      /\ ServedBy(q, i)' = Elements(stack'[q][1].serving)
  BY <1>1, NoElements DEF ServedBy, InService
<1>10. CASE Linked(p, q)
  <2>1. Linked(p, q)'
    BY <1>8, <1>10
  <2>2. /\ ReadNow(p, q) = stack[q][1].rest /\ ReadNow(p, q)' = stack'[q][1].rest
    BY <1>1, <1>2, <1>10, <2>1 DEF ReadNow, ReadBy
  <2>3. /\ Reads(p, q) = connections[q][i].readSerial
        /\ Reads(p, q)' = connections'[q][i].readSerial
        /\ QueuedAnswers(p, q) = connections[q][i].writeQueue
        /\ QueuedAnswers(p, q)' = connections'[q][i].writeQueue
        /\ Pending(p, q) = Elements(stack[q][1].serving)
        /\ Pending(p, q)' = Elements(stack'[q][1].serving)
    BY <1>2, <1>9, <1>10, <2>1 DEF Reads, QueuedAnswers, Pending
  <2>4. QED  BY <1>2, <1>5, <1>6, <1>7, <1>10, <2>2, <2>3
<1>11. CASE ~Linked(p, q)
  <2>1. ~Linked(p, q)'
    BY <1>8, <1>11
  <2>2. /\ ReadNow(p, q)' = ReadNow(p, q) /\ Reads(p, q)' = Reads(p, q)
        /\ QueuedAnswers(p, q)' = << >> /\ QueuedAnswers(p, q) = << >>
        /\ Pending(p, q)' = {}
    BY <1>11, <2>1 DEF ReadNow, Reads, QueuedAnswers, Pending
  <2>3. QED  BY <1>2, <1>5, <1>6, <1>7, <1>11, <2>2
<1>12. QED  BY <1>10, <1>11

\* Such a turn concerns nobody but q and p.
LEMMA TurnLeaf ==
  ASSUME TypeInv, LeafInv, NEW q \in Services, NEW i \in Process, TurnOf(q, i),
         NEW p, p = SocketOf(q, i).from, requests' = requests,
         NEW S, Kept(calls, calls', S), DOMAIN calls' = DOMAIN calls,
         \A c \in DOMAIN calls : calls'[c].answer = calls[c].answer,
         \A c \in S : c \in DOMAIN calls =>
           /\ calls[c].to = q /\ (calls[c].from = p \/ calls[c].run # "sent")
           /\ calls'[c].run # "sent" /\ calls'[c].runs <= 1,
         PairInv(p, q)', ServiceInv(q)'
  PROVE  LeafInv'
<1>1. /\ Structure' /\ Len(stack[q]) = 1 /\ Len(stack'[q]) = 1
      /\ stack[q][1].peer = i /\ stack'[q][1].peer = i
      /\ \A r \in Process \ {q} : stack'[r] = stack[r]
      /\ \A r, y \in Process : <<r, y>> # <<q, i>> => connections'[r][y] = connections[r][y]
      /\ connections'[q][i].socket = connections[q][i].socket
      /\ connections[q][i].socket # 0 /\ sockets' = sockets
  BY DEF TurnOf
<1>2. Structure
  BY DEF LeafInv
<1>3. /\ p \in Clients /\ p \in Process /\ p # q /\ Image[p] = i
      /\ \A r \in Clients : r # p => ~From(q, i, r)
  BY <1>1, <1>2, LoopOver
<1>4. \A r \in Clients : r # p => ~From(q, i, r) /\ ~From(q, i, r)'
  BY <1>1, <1>3 DEF From, HasSocket, SocketOf
<1>5. ASSUME NEW r \in Clients, NEW y \in Services, <<r, y>> # <<p, q>> PROVE PairInv(r, y)'
  <2>1. ClientSame(r, y) /\ ServiceSame(r, y) /\ connections'[r][y] = connections[r][y]
    <3>1. \A k \in DOMAIN sockets : sockets'[k].from = sockets[k].from
      BY <1>1
    <3>2. Len(stack[q]) = 1 => stack[q][1].peer = i
      BY <1>1
    <3>3. Len(stack'[q]) = 1 => stack'[q][1].peer = i
      BY <1>1
    <3>4. \A a, b \in Process : <<a, b>> # <<q, i>> => connections'[a][b] = connections[a][b]
      BY <1>1
    <3>5. \A a \in Process \ {q} : stack'[a] = stack[a]
      BY <1>1
    <3>6. Structure'
      BY <1>1
    <3>7. QED  BY <1>2, <1>4, <1>5, <3>1, <3>2, <3>3, <3>4, <3>5, <3>6, ServiceStep
  <2>2. WireSame(r, y)
    BY <1>1, <2>1 DEF WireSame, OnWire, HasSocket, SocketOf
  <2>3. Spared(calls, S, r, y)
    BY <1>5 DEF Spared
  <2>4. PairInv(r, y)
    BY DEF LeafInv, PairsInv
  <2>5. QED  BY <1>2, <2>1, <2>2, <2>3, <2>4, PairSame
<1>6. PairsInv'
  BY <1>5 DEF PairsInv
<1>7. ASSUME NEW r \in Clients PROVE WaitInv(r)'
  <2>1. r \in Process /\ r # q
    BY Kinds
  <2>2. stack'[r] = stack[r] /\ requests'[r] = requests[r]
    BY <1>1, <2>1
  <2>3. \A x \in Services : Sends(r, x)' = Sends(r, x)
    BY <1>1, <2>1, Kinds DEF Sends
  <2>4. Len(stack'[r]) # 0 => WaitStays(r)
    BY <2>2, <2>3 DEF WaitStays
  <2>5. WaitInv(r)
    BY DEF LeafInv, WaitsInv
  <2>6. QED  BY <1>2, <2>4, <2>5, WaitKept
<1>8. ASSUME NEW y \in Services PROVE ServiceInv(y)'
  <2>1. CASE y = q
    BY <2>1
  <2>2. CASE y # q
    <3>1. stack'[y] = stack[y]
      BY <1>1, <2>2, Kinds
    <3>2. InService(y)' => InService(y) /\ stack'[y][1].serving = stack[y][1].serving
      BY <3>1 DEF InService
    <3>3. \A c \in S : c \in DOMAIN calls => calls[c].to # y
      BY <2>2
    <3>4. ServiceInv(y)
      BY DEF LeafInv, ServicesInv
    <3>5. QED  BY <3>2, <3>3, <3>4, ServiceKept
  <2>3. QED  BY <2>1, <2>2
<1>9. HistoryInv' /\ RunsOnce' /\ OwnAnswer'
  <2>1. HistoryInv /\ RunsOnce /\ OwnAnswer
    BY DEF LeafInv
  <2>2. \A c \in S : c \in DOMAIN calls => calls'[c].run # "sent" /\ calls'[c].runs <= 1
    OBVIOUS
  <2>3. QED  BY <2>1, <2>2, PastKept
<1>10. QED  BY <1>1, <1>6, <1>7, <1>8, <1>9 DEF LeafInv, WaitsInv, ServicesInv


\* What p sees of such a turn.
LEMMA PairTurn ==
  ASSUME NEW p, NEW q, ClientSame(p, q), WireSame(p, q),
         Requested(calls', p, q, Read(p, q)', OnWire(p, q, q), Queued(p, q)),
         Numbering(Reads(p, q)', Sends(p, q), Awaiting(p, q),
                   ReadNow(p, q)', OnWire(p, q, q), Queued(p, q)),
         Answered(calls', Sends(p, q), Awaiting(p, q),
                  Handled(p, q), OnWire(p, q, p), QueuedAnswers(p, q)'),
         Serves(Sends(p, q), Awaiting(p, q), Pending(p, q)')
  PROVE  PairInv(p, q)'
  BY DEF PairInv, ClientSame, WireSame

\* q takes up a request of p's.
LEMMA RequestTurn ==
  ASSUME TypeInv, Structure, NEW q \in Services, NEW i \in Process, TurnOf(q, i),
         NEW p \in Clients, p = SocketOf(q, i).from, PairInv(p, q),
         stack[q][1].rest \in Seq(MessageType), stack[q][1].rest # << >>,
         stack'[q][1].rest = Tail(stack[q][1].rest),
         connections'[q][i].readSerial = connections[q][i].readSerial + 1,
         NEW h, h = Head(stack[q][1].rest)
  PROVE  /\ Asks(calls, p, q, h)
         /\ \A D, S : Kept(calls, D, S) /\ (S = {} \/ (h.type = "invoke" /\ S = {h.call}))
                        => Requested(D, p, q, Read(p, q)', OnWire(p, q, q), Queued(p, q))
         /\ Numbering(Reads(p, q)', Sends(p, q), Awaiting(p, q),
                      ReadNow(p, q)', OnWire(p, q, q), Queued(p, q))
         /\ Linked(p, q) =>
              Fits(Sends(p, q), Awaiting(p, q), connections[q][i].readSerial, h.call)
<1> PICK a : a = stack[q][1].rest
  OBVIOUS
<1>1. /\ a \in Seq(MessageType) /\ a # << >> /\ h = Head(a) /\ Read(p, q) = a
      /\ Read(p, q)' = Tail(a)
  BY TurnViews
<1>2. /\ OnWire(p, q, q) \in Seq(MessageType) /\ Queued(p, q) \in Seq(MessageType)
      /\ Reads(p, q) \in Nat /\ Sends(p, q) \in Nat
  BY ViewTypes
<1>3. /\ Requested(calls, p, q, a, OnWire(p, q, q), Queued(p, q))
      /\ Numbering(Reads(p, q), Sends(p, q), Awaiting(p, q),
                   ReadNow(p, q), OnWire(p, q, q), Queued(p, q))
  BY <1>1 DEF PairInv
<1>4. /\ Asks(calls, p, q, h)
      /\ \A D, S : Kept(calls, D, S) /\ (S = {} \/ (h.type = "invoke" /\ S = {h.call}))
                     => Requested(D, p, q, Tail(a), OnWire(p, q, q), Queued(p, q))
  BY <1>1, <1>3, RequestedTaken
<1>5. CASE Linked(p, q)
  <2>1. /\ ReadNow(p, q) = a /\ ReadNow(p, q)' = Tail(a)
        /\ Reads(p, q) = connections[q][i].readSerial
        /\ Reads(p, q)' = Reads(p, q) + 1
    BY <1>1, <1>5, TurnViews
  <2>2. Numbering(Reads(p, q), Sends(p, q), Awaiting(p, q), a, OnWire(p, q, q), Queued(p, q))
    BY <1>3, <2>1
  <2>3. /\ Numbering(Reads(p, q) + 1, Sends(p, q), Awaiting(p, q),
                     Tail(a), OnWire(p, q, q), Queued(p, q))
        /\ Fits(Sends(p, q), Awaiting(p, q), Reads(p, q), h.call)
    BY <1>1, <1>2, <2>2, NumberingTaken
  <2>4. QED  BY <1>1, <1>4, <2>1, <2>3
<1>6. CASE ~Linked(p, q)
  <2>1. ReadNow(p, q)' = ReadNow(p, q) /\ Reads(p, q)' = Reads(p, q)
    BY <1>6, TurnViews
  <2>2. QED  BY <1>1, <1>3, <1>4, <1>6, <2>1
<1>7. QED  BY <1>5, <1>6

\* q answers p with m.
LEMMA AnswerTurn ==
  ASSUME TypeInv, Structure, NEW q \in Services, NEW i \in Process, TurnOf(q, i),
         NEW p \in Clients, p = SocketOf(q, i).from, PairInv(p, q),
         NEW S, Kept(calls, calls', S), NEW m \in MessageType, Answers(calls', m),
         connections'[q][i].writeQueue = Append(connections[q][i].writeQueue, m),
         Linked(p, q) => Fits(Sends(p, q), Awaiting(p, q), m.serial, m.call)
  PROVE  Answered(calls', Sends(p, q), Awaiting(p, q),
                  Handled(p, q), OnWire(p, q, p), QueuedAnswers(p, q)')
<1>1. /\ OnWire(p, q, p) \in Seq(MessageType) /\ Handled(p, q) \in Seq(MessageType)
      /\ QueuedAnswers(p, q) \in Seq(MessageType)
  BY ViewTypes
<1>2. Answered(calls, Sends(p, q), Awaiting(p, q),
               Handled(p, q), OnWire(p, q, p), QueuedAnswers(p, q))
  BY DEF PairInv
<1>3. CASE Linked(p, q)
  <2>1. /\ QueuedAnswers(p, q)' = Append(QueuedAnswers(p, q), m)
        /\ Fits(Sends(p, q), Awaiting(p, q), m.serial, m.call)
    BY <1>3, TurnViews
  <2>2. Answered(calls', Sends(p, q), Awaiting(p, q),
                 Handled(p, q), OnWire(p, q, p), Append(QueuedAnswers(p, q), m))
    BY <1>1, <1>2, <2>1, AnsweredAlso
  <2>3. QED  BY <2>1, <2>2
<1>4. CASE ~Linked(p, q)
  <2>1. QueuedAnswers(p, q)' = QueuedAnswers(p, q)
    BY <1>4, TurnViews
  <2>2. PICK x : x = Awaiting(p, q)
    OBVIOUS
  <2>3. \A a, b, c : Rearranged(a, b, c, a, b, c)
    BY DEF Rearranged
  <2>4. Answered(calls, Sends(p, q), x, Handled(p, q), OnWire(p, q, p), QueuedAnswers(p, q))
    BY <1>2, <2>2
  <2>5. x \in {0, x}
    OBVIOUS
  <2>6. Answered(calls', Sends(p, q), x, Handled(p, q), OnWire(p, q, p), QueuedAnswers(p, q))
    BY <2>3, <2>4, <2>5, AnsweredKept
  <2>7. QED  BY <2>1, <2>2, <2>6
<1>5. QED  BY <1>3, <1>4

------------------------------------------------------------------------------
\* What becomes of a call

LEMMA RunSet ==
  ASSUME TypeInv, NEW c \in DOMAIN calls, calls[c].run \notin Outcome, NEW run,
         calls' = [calls EXCEPT ![c].run = run]
  PROVE  /\ Kept(calls, calls', {c}) /\ DOMAIN calls' = DOMAIN calls
         /\ \A d \in DOMAIN calls : calls'[d].answer = calls[d].answer
         /\ calls'[c].run = run /\ calls'[c].runs = calls[c].runs
<1>1. calls[c] \in CallType
  BY CallIs
<1>2. DOMAIN calls' = DOMAIN calls /\ \A d \in DOMAIN calls : d # c => calls'[d] = calls[d]
  OBVIOUS
<1>3. calls'[c] = [calls[c] EXCEPT !.run = run]
  OBVIOUS
<1>4. /\ calls'[c].run = run /\ calls'[c].runs = calls[c].runs
      /\ calls'[c].from = calls[c].from /\ calls'[c].to = calls[c].to
      /\ calls'[c].answer = calls[c].answer
  BY <1>1, <1>3 DEF CallType
<1>5. \A d \in DOMAIN calls : calls'[d].answer = calls[d].answer
  BY <1>2, <1>4
<1>6. Kept(calls, calls', {c})
  BY <1>2, <1>4 DEF Kept
<1>7. QED  BY <1>2, <1>4, <1>5, <1>6

LEMMA RunStarts ==
  ASSUME TypeInv, NEW c \in DOMAIN calls, calls[c].run = "sent", calls[c].runs = 0,
         calls' = [calls EXCEPT ![c].run = "running", ![c].runs = @ + 1]
  PROVE  /\ Kept(calls, calls', {c}) /\ DOMAIN calls' = DOMAIN calls
         /\ \A d \in DOMAIN calls : calls'[d].answer = calls[d].answer
         /\ calls'[c].run = "running" /\ calls'[c].runs = 1
<1>1. calls[c] \in CallType
  BY CallIs
<1>2. DOMAIN calls' = DOMAIN calls /\ \A d \in DOMAIN calls : d # c => calls'[d] = calls[d]
  OBVIOUS
<1>3. calls'[c] = [calls[c] EXCEPT !.run = "running", !.runs = @ + 1]
  BY <1>1 DEF CallType
<1>4. /\ calls'[c].run = "running" /\ calls'[c].runs = calls[c].runs + 1
      /\ calls'[c].from = calls[c].from /\ calls'[c].to = calls[c].to
      /\ calls'[c].answer = calls[c].answer
  BY <1>1, <1>3 DEF CallType
<1>5. \A d \in DOMAIN calls : calls'[d].answer = calls[d].answer
  BY <1>2, <1>4
<1>6. calls[c].run \notin Outcome
  BY DEF Outcome
<1>7. Kept(calls, calls', {c})
  BY <1>2, <1>4, <1>6 DEF Kept
<1>8. QED  BY <1>2, <1>4, <1>5, <1>7


------------------------------------------------------------------------------
\* Clients are sent answers, services requests.
LEMMA ClientTurn ==
  ASSUME TypeInv, LeafInv, NEW p \in Clients, NEW types, Turn(p, types)
  PROVE  LET h == Head(stack[p][2].rest)
         IN  /\ h.type \in types /\ h.type \in Outcome
             /\ Answers(calls, h)
             /\ Fits(Sends(p, stack[p][2].peer), Awaiting(p, stack[p][2].peer), h.serial, h.call)
<1> PICK q : q = stack[p][2].peer
  OBVIOUS
<1> PICK a : a = stack[p][2].rest
  OBVIOUS
<1>1. Structure /\ PairsInv /\ p \in Process
  BY Kinds DEF LeafInv
<1>2. /\ Looping(p) /\ Top(p).rest # << >> /\ Top(p).rest \in Seq(MessageType)
      /\ Current(p) = Head(Top(p).rest) /\ Current(p).type \in types
  BY <1>1, TurnIs DEF Turn
<1>3. Len(stack[p]) = 2 /\ Top(p) = stack[p][2] /\ Top(p).peer \in Services
  BY <1>1, <1>2, LoopingIs
<1>4. /\ a # << >> /\ a \in Seq(MessageType) /\ Current(p) = Head(a) /\ q \in Services
      /\ Handled(p, q) = a
  BY <1>2, <1>3 DEF Handled
<1>5. Head(a) \in Among(a, OnWire(p, q, p), QueuedAnswers(p, q))
  BY <1>4, TailElements DEF Among
<1>6. Answered(calls, Sends(p, q), Awaiting(p, q), a, OnWire(p, q, p), QueuedAnswers(p, q))
  BY <1>1, <1>4 DEF PairsInv, PairInv
<1>7. Answers(calls, Head(a)) /\ Fits(Sends(p, q), Awaiting(p, q), Head(a).serial, Head(a).call)
  BY <1>5, <1>6 DEF Answered
<1>8. QED  BY <1>2, <1>4, <1>7 DEF Answers

LEMMA ServiceTurn ==
  ASSUME TypeInv, LeafInv, NEW q \in Services, NEW types, Turn(q, types),
         NEW i, i = stack[q][1].peer, NEW p, p = SocketOf(q, i).from
  PROVE  /\ p \in Clients /\ i \in Process /\ Len(stack[q]) = 1 /\ Top(q) = stack[q][1]
         /\ connections[q][i].socket # 0 /\ Looping(q) /\ PairInv(p, q)
         /\ stack[q][1].rest \in Seq(MessageType) /\ stack[q][1].rest # << >>
         /\ Current(q) = Head(stack[q][1].rest) /\ Rest(q) = Tail(stack[q][1].rest)
         /\ Current(q).type \in types /\ Current(q).type \in Request
<1> PICK a : a = stack[q][1].rest
  OBVIOUS
<1>1. Structure /\ PairsInv /\ q \in Process
  BY Kinds DEF LeafInv
<1>2. /\ Looping(q) /\ Top(q).rest # << >> /\ Top(q).rest \in Seq(MessageType)
      /\ Current(q) = Head(Top(q).rest) /\ Rest(q) = Tail(Top(q).rest)
      /\ Current(q).type \in types
  BY <1>1, TurnIs DEF Turn
<1>3. /\ Len(stack[q]) = 1 /\ Top(q) = stack[q][1] /\ Top(q).peer \in Process
      /\ connections[q][Top(q).peer].socket # 0
  BY <1>1, <1>2, LoopingIs
<1>4. p \in Clients /\ Read(p, q) = a
  BY <1>1, <1>3, LoopOver
<1>5. PairInv(p, q) /\ a # << >> /\ a \in Seq(MessageType)
  BY <1>1, <1>2, <1>3, <1>4 DEF PairsInv
<1>6. Head(a) \in Among(a, OnWire(p, q, q), Queued(p, q))
  BY <1>5, TailElements DEF Among
<1>7. Head(a).type \in Request
  BY <1>4, <1>5, <1>6 DEF PairInv, Requested, Asks
<1>8. QED  BY <1>2, <1>3, <1>4, <1>5, <1>7

LEMMA Apart == \A t \in Request : t \notin Outcome
  BY DEF Request, Outcome

\* q answers nobody.
LEMMA QuietTurn ==
  ASSUME TypeInv, Structure, NEW q \in Services, NEW i \in Process, TurnOf(q, i),
         NEW p \in Clients, p = SocketOf(q, i).from, PairInv(p, q),
         NEW S, Kept(calls, calls', S),
         connections'[q][i].writeQueue = connections[q][i].writeQueue
  PROVE  Answered(calls', Sends(p, q), Awaiting(p, q),
                  Handled(p, q), OnWire(p, q, p), QueuedAnswers(p, q)')
<1>1. QueuedAnswers(p, q)' = QueuedAnswers(p, q)
  <2>1. CASE Linked(p, q)
    <3>1. /\ QueuedAnswers(p, q) = connections[q][i].writeQueue
          /\ QueuedAnswers(p, q)' = connections'[q][i].writeQueue
      BY <2>1, TurnViews
    <3>2. QED  BY <3>1
  <2>2. CASE ~Linked(p, q)
    <3>1. QueuedAnswers(p, q)' = << >> /\ QueuedAnswers(p, q) = << >>
      BY <2>2, TurnViews
    <3>2. QED  BY <3>1
  <2>3. QED  BY <2>1, <2>2
<1>2. PICK x : x = Awaiting(p, q) /\ x \in {0, x}
  OBVIOUS
<1>3. \A u, v, w : Rearranged(u, v, w, u, v, w)
  BY DEF Rearranged
<1>4. Answered(calls, Sends(p, q), x, Handled(p, q), OnWire(p, q, p), QueuedAnswers(p, q))
  BY <1>2 DEF PairInv
<1>5. Answered(calls', Sends(p, q), x, Handled(p, q), OnWire(p, q, p), QueuedAnswers(p, q))
  BY <1>2, <1>3, <1>4, AnsweredKept
<1>6. QED  BY <1>1, <1>2, <1>5

\* q is to answer s, or nothing.
LEMMA OneElement ==
  ASSUME NEW s
  PROVE  Elements(<<s>>) = {s} /\ Len(<<s>>) = 1 /\ <<s>>[1] = s
<1>1. Len(<<s>>) = 1 /\ <<s>>[1] = s /\ 1 .. 1 = {1}
  OBVIOUS
<1>2. QED  BY <1>1 DEF Elements

LEMMA ServesTurn ==
  ASSUME TypeInv, Structure, NEW q \in Services, NEW i \in Process, TurnOf(q, i),
         NEW p \in Clients, p = SocketOf(q, i).from, NEW s,
         stack'[q][1].serving = << >> \/ stack'[q][1].serving = <<s>>,
         Linked(p, q) => Fits(Sends(p, q), Awaiting(p, q), s.serial, s.call)
  PROVE  Serves(Sends(p, q), Awaiting(p, q), Pending(p, q)')
<1>1. CASE Linked(p, q)
  <2>1. Pending(p, q)' = Elements(stack'[q][1].serving)
    BY <1>1, TurnViews
  <2>2. Elements(stack'[q][1].serving) \subseteq {s}
    BY OneElement, NoElements
  <2>3. Pending(p, q)' \subseteq {s}
    BY <2>1, <2>2
  <2>4. QED  BY <1>1, <2>3 DEF Serves
<1>2. CASE ~Linked(p, q)
  <2>1. Pending(p, q)' = {}
    BY <1>2, TurnViews
  <2>2. QED  BY <2>1 DEF Serves
<1>3. QED  BY <1>1, <1>2

LEMMA DispatchInvokeLeaf ==
  ASSUME TypeInv, LeafInv, NEW q \in Process, DispatchInvoke(q)
  PROVE  /\ LeafInv'
         /\ \E c \in DOMAIN calls :
              /\ calls[c].run = "sent"
              /\ calls' = [calls EXCEPT ![c].run = "running", ![c].runs = @ + 1]
<1>1. Structure /\ Turn(q, {"invoke"}) /\ requests' = requests
  BY DEF LeafInv, DispatchInvoke
<1>2. q \in Services
  <2>1. q \notin Clients
    BY <1>1, ClientTurn DEF Outcome
  <2>2. QED  BY <2>1, Kinds
<1> PICK i : i = stack[q][1].peer
  OBVIOUS
<1> PICK p : p = SocketOf(q, i).from
  OBVIOUS
<1> PICK h : h = Head(stack[q][1].rest)
  OBVIOUS
<1> PICK c : c = h.call
  OBVIOUS
<1> PICK r : r = connections[q][i].readSerial
  OBVIOUS
<1> PICK s : s = [serial |-> r, call |-> c]
  OBVIOUS
<1>3. p \in Clients /\ i \in Process /\ PairInv(p, q) /\ Current(q) = h
  BY <1>1, <1>2, ServiceTurn
<1>4. /\ Structure' /\ Len(stack[q]) = 1 /\ Len(stack'[q]) = 1
      /\ stack[q][1].rest \in Seq(MessageType) /\ stack[q][1].rest # << >>
      /\ h.type = "invoke"
      /\ connections[q][i].socket # 0
      /\ stack'[q][1].peer = i /\ stack'[q][1].rest = Tail(stack[q][1].rest)
      /\ stack'[q][1].serving = <<[serial |-> r, call |-> c]>>
      /\ \A x \in Process \ {q} : stack'[x] = stack[x]
      /\ calls' = [calls EXCEPT ![c].run = "running", ![c].runs = @ + 1]
      /\ \A x, y \in Process : <<x, y>> # <<q, i>> => connections'[x][y] = connections[x][y]
      /\ connections'[q][i].socket = connections[q][i].socket
      /\ connections'[q][i].writeQueue = connections[q][i].writeQueue
      /\ connections'[q][i].readSerial = connections[q][i].readSerial + 1
      /\ sockets' = sockets
  <2>1. LET j == stack[q][1].peer
           rest == stack[q][1].rest
       IN  /\ Structure' /\ Turn(q, {"invoke"}) /\ Len(stack[q]) = 1 /\ Len(stack'[q]) = 1
           /\ j \in Process /\ rest \in Seq(MessageType) /\ rest # << >>
           /\ Head(rest).type = "invoke" /\ stack[q][1].serving = << >>
           /\ connections[q][j].socket # 0
           /\ stack'[q][1].kind = "loop" /\ stack'[q][1].peer = j
           /\ stack'[q][1].rest = Tail(rest)
           /\ stack'[q][1].serving =
                <<[serial |-> connections[q][j].readSerial, call |-> Head(rest).call]>>
           /\ \A x \in Process \ {q} : stack'[x] = stack[x]
           /\ calls' = [calls EXCEPT ![Head(rest).call].run = "running",
                                     ![Head(rest).call].runs = @ + 1]
           /\ \A x, y \in Process :
                <<x, y>> # <<q, j>> => connections'[x][y] = connections[x][y]
           /\ connections'[q][j].socket = connections[q][j].socket
           /\ connections'[q][j].writeSerial = connections[q][j].writeSerial
           /\ connections'[q][j].writeQueue = connections[q][j].writeQueue
           /\ connections'[q][j].readSerial = connections[q][j].readSerial + 1
           /\ sockets' = sockets
    BY <1>1, <1>2, DispatchInvokeStructure
  <2>2. QED  BY <2>1
<1>5. TurnOf(q, i)
  BY <1>4 DEF TurnOf
<1>6. /\ Asks(calls, p, q, h)
      /\ \A D, S : Kept(calls, D, S) /\ (S = {} \/ (h.type = "invoke" /\ S = {h.call}))
                     => Requested(D, p, q, Read(p, q)', OnWire(p, q, q), Queued(p, q))
      /\ Numbering(Reads(p, q)', Sends(p, q), Awaiting(p, q),
                   ReadNow(p, q)', OnWire(p, q, q), Queued(p, q))
      /\ Linked(p, q) => Fits(Sends(p, q), Awaiting(p, q), r, h.call)
  BY <1>1, <1>2, <1>3, <1>4, <1>5, RequestTurn
<1>7. /\ c \in DOMAIN calls /\ calls[c].from = p /\ calls[c].to = q /\ calls[c].run = "sent"
      /\ calls[c].runs = 0
  BY <1>4, <1>6 DEF Asks, LeafInv, HistoryInv
<1>8. /\ Kept(calls, calls', {c}) /\ DOMAIN calls' = DOMAIN calls
      /\ \A d \in DOMAIN calls : calls'[d].answer = calls[d].answer
      /\ calls'[c].run = "running" /\ calls'[c].runs = 1
  BY <1>4, <1>7, RunStarts
<1>9. PairInv(p, q)'
  <2>1. ClientSame(p, q) /\ WireSame(p, q)
    BY <1>1, <1>2, <1>3, <1>5, TurnViews
  <2>2. Requested(calls', p, q, Read(p, q)', OnWire(p, q, q), Queued(p, q))
    BY <1>4, <1>6, <1>8
  <2>3. Answered(calls', Sends(p, q), Awaiting(p, q),
                 Handled(p, q), OnWire(p, q, p), QueuedAnswers(p, q)')
    BY <1>2, <1>3, <1>4, <1>5, <1>8, <1>1, QuietTurn
  <2>4. Serves(Sends(p, q), Awaiting(p, q), Pending(p, q)')
    <3>1. stack'[q][1].serving = <<s>>
      BY <1>4
    <3>2. Linked(p, q) => Fits(Sends(p, q), Awaiting(p, q), s.serial, s.call)
      BY <1>6
    <3>3. QED  BY <1>1, <1>2, <1>3, <1>5, <3>1, <3>2, ServesTurn
  <2>5. QED  BY <1>6, <2>1, <2>2, <2>3, <2>4, PairTurn
<1>10. ServiceInv(q)'
  <2>1. PICK served : served = stack'[q][1].serving
    OBVIOUS
  <2>2. Len(served) = 1 /\ served[1].call = c
    <3>1. served = <<s>> /\ s.call = c
      BY <1>4, <2>1
    <3>2. QED  BY <3>1, OneElement
  <2>3. c \in DOMAIN calls' /\ calls'[c].to = q
    BY <1>7, <1>8 DEF Kept
  <2>4. QED  BY <1>8, <2>1, <2>2, <2>3 DEF ServiceInv
<1>11. LeafInv'
  <2>1. \A d \in {c} : d \in DOMAIN calls =>
          /\ calls[d].to = q /\ (calls[d].from = p \/ calls[d].run # "sent")
          /\ calls'[d].run # "sent" /\ calls'[d].runs <= 1
    <3>1. calls[c].to = q /\ calls[c].from = p
      BY <1>7
    <3>2. calls'[c].run # "sent" /\ calls'[c].runs <= 1
      <4>1. calls'[c].run = "running" /\ calls'[c].runs = 1
        BY <1>8
      <4>2. QED  BY <4>1
    <3>3. QED  BY <3>1, <3>2
  <2>2. PICK S : S = {c}
    OBVIOUS
  <2>3. /\ Kept(calls, calls', S)
        /\ \A d \in S : d \in DOMAIN calls =>
             /\ calls[d].to = q /\ (calls[d].from = p \/ calls[d].run # "sent")
             /\ calls'[d].run # "sent" /\ calls'[d].runs <= 1
    BY <1>8, <2>1, <2>2
  <2>4. /\ requests' = requests /\ DOMAIN calls' = DOMAIN calls
        /\ \A d \in DOMAIN calls : calls'[d].answer = calls[d].answer
    BY <1>1, <1>8
  <2>5. QED  BY <1>2, <1>3, <1>5, <1>9, <1>10, <2>3, <2>4, TurnLeaf
<1>12. QED  BY <1>4, <1>7, <1>11

------------------------------------------------------------------------------
\* OnIncomingData throws, and q answers h with the exception.
Refusal(q, i, h) ==
  Numbered(Message("exception", connections[q][i].readSerial, h.call),
           connections[q][i].writeSerial)
RefusedSet(h) == IF h.type = "invoke" THEN {h.call} ELSE {}

LEMMA RefusedTurn ==
  ASSUME TypeInv, Structure, NEW q \in Services, DispatchRefused(q), NEW i, i = stack[q][1].peer,
         NEW h, h = Current(q), NEW m, m = Refusal(q, i, h)
  PROVE  /\ TurnOf(q, i) /\ stack'[q][1].rest = Rest(q) /\ stack'[q][1].serving = << >>
         /\ connections'[q][i].readSerial = connections[q][i].readSerial + 1
         /\ connections'[q][i].writeSerial = connections[q][i].writeSerial + 1
         /\ connections'[q][i].writeQueue = Append(connections[q][i].writeQueue, m)
         /\ m \in MessageType /\ requests' = requests
<1> PICK rest : rest = Rest(q)
  OBVIOUS
<1> PICK type \in Outcome : type = "exception"
  BY DEF Outcome
<1> PICK c : c = Counted(q)
  OBVIOUS
<1> PICK r : r = connections[q][i].readSerial
  OBVIOUS
<1>1. Turn(q, Request) /\ q \in Process
  BY Kinds DEF DispatchRefused
<1>2. /\ rest \in Seq(MessageType) /\ h.call \in Nat
      /\ Top(q).peer \in Process /\ Looping(q)
      /\ c \in ConnectionType /\ c.socket = Conn(q).socket
      /\ c.readTask = << >> /\ c.readSerial = Conn(q).readSerial + 1
      /\ c.writeSerial = Conn(q).writeSerial
      /\ c.writeQueue = Conn(q).writeQueue
      /\ Conn(q).readSerial \in Nat
  BY <1>1, CurrentIs
<1>3. /\ Top(q) = stack[q][1] /\ Top(q).peer = i /\ i \in Process /\ connections[q][i].socket # 0
  BY <1>1, <1>2, LoopingIs
<1>4. /\ c.socket = connections[q][i].socket /\ c.readSerial = r + 1 /\ r \in Nat
      /\ c.writeSerial = connections[q][i].writeSerial
      /\ c.writeQueue = connections[q][i].writeQueue
  BY <1>2, <1>3 DEF Conn
<1>5. SetTop(q, LoopFrame(Top(q).peer, rest, << >>)) /\ broken' = broken /\ requests' = requests
  BY DEF DispatchRefused
<1>6. SendOn(q, Top(q).peer, c, Message(type, r, h.call))
  BY <1>3 DEF DispatchRefused, Conn
<1>7. c.socket = connections[q][Top(q).peer].socket
  BY <1>3, <1>4
<1>8. /\ Structure' /\ Len(stack[q]) = 1 /\ Len(stack'[q]) = 1 /\ sockets' = sockets
      /\ stack'[q][1].peer = stack[q][1].peer
      /\ stack'[q][1].rest = rest /\ stack'[q][1].serving = << >>
      /\ \A x \in Process \ {q} : stack'[x] = stack[x]
      /\ AnsweredWith(q, Top(q).peer, c, Message(type, r, h.call))
      /\ Numbered(Message(type, r, h.call), c.writeSerial) \in MessageType
  BY <1>2, <1>4, <1>5, <1>6, <1>7, ServiceAnswers
<1>9. m = Numbered(Message(type, r, h.call), c.writeSerial)
  BY <1>4 DEF Refusal
<1>10. /\ \A x, y \in Process : <<x, y>> # <<q, i>> => connections'[x][y] = connections[x][y]
       /\ connections'[q][i].socket = c.socket
       /\ connections'[q][i].readSerial = c.readSerial
       /\ connections'[q][i].writeSerial = c.writeSerial + 1
       /\ connections'[q][i].writeQueue = Append(c.writeQueue, m)
  BY <1>3, <1>8, <1>9 DEF AnsweredWith
<1>11. TurnOf(q, i)
  BY <1>3, <1>4, <1>8, <1>10 DEF TurnOf
<1>12. QED  BY <1>4, <1>5, <1>8, <1>9, <1>10, <1>11

\* An invocation that was refused never ran and has its outcome.
LEMMA RefusedCalls ==
  ASSUME TypeInv, HistoryInv, RunsOnce, NEW p, NEW q, NEW h, Asks(calls, p, q, h),
         DispatchRefused(q), h = Current(q), NEW S, S = RefusedSet(h)
  PROVE  /\ Kept(calls, calls', S) /\ DOMAIN calls' = DOMAIN calls
         /\ \A d \in DOMAIN calls : calls'[d].answer = calls[d].answer
         /\ \A d \in S : /\ d \in DOMAIN calls /\ calls[d].to = q /\ calls[d].from = p
                         /\ calls[d].run = "sent"
                         /\ calls'[d].run # "sent" /\ calls'[d].runs <= 1
         /\ h.call # 0 => h.call \in DOMAIN calls' /\ calls'[h.call].run = "exception"
<1> PICK c : c = h.call
  OBVIOUS
<1>0. calls' = IF h.type = "invoke" THEN [calls EXCEPT ![h.call].run = "exception"] ELSE calls
  BY DEF DispatchRefused
<1>1. CASE h.type = "invoke"
  <2>1. /\ c \in DOMAIN calls /\ calls[c].from = p /\ calls[c].to = q /\ calls[c].run = "sent"
    BY <1>1 DEF Asks
  <2>2. calls[c].run \notin Outcome /\ calls[c].runs <= 1
    BY <2>1 DEF Outcome, RunsOnce
  <2>3. calls' = [calls EXCEPT ![c].run = "exception"]
    BY <1>0, <1>1
  <2>4. /\ Kept(calls, calls', {c}) /\ DOMAIN calls' = DOMAIN calls
        /\ \A d \in DOMAIN calls : calls'[d].answer = calls[d].answer
        /\ calls'[c].run = "exception" /\ calls'[c].runs = calls[c].runs
    BY <2>1, <2>2, <2>3, RunSet
  <2>5. S = {c}
    BY <1>1 DEF RefusedSet
  <2>6. QED  BY <2>1, <2>2, <2>4, <2>5
<1>2. CASE h.type # "invoke"
  <2>1. h.call = 0 /\ S = {} /\ calls' = calls
    BY <1>0, <1>2 DEF Asks, Request, RefusedSet
  <2>2. Kept(calls, calls', {})
    BY <2>1, NothingKept
  <2>3. QED  BY <2>1, <2>2
<1>3. QED  BY <1>1, <1>2

LEMMA DispatchRefusedLeaf ==
  ASSUME TypeInv, LeafInv, NEW q \in Process, DispatchRefused(q)
  PROVE  /\ LeafInv'
         /\ \/ calls' = calls
            \/ \E c \in DOMAIN calls :
                 calls[c].run = "sent" /\ calls' = [calls EXCEPT ![c].run = "exception"]
<1>1. Structure /\ Turn(q, Request) /\ HistoryInv /\ RunsOnce
  BY DEF LeafInv, DispatchRefused
<1>2. q \in Services
  <2>1. q \notin Clients
    BY <1>1, ClientTurn, Apart
  <2>2. QED  BY <2>1, Kinds
<1> PICK i : i = stack[q][1].peer
  OBVIOUS
<1> PICK p : p = SocketOf(q, i).from
  OBVIOUS
<1> PICK h : h = Current(q)
  OBVIOUS
<1> PICK r : r = connections[q][i].readSerial
  OBVIOUS
<1> PICK m : m = Refusal(q, i, h)
  OBVIOUS
<1>3. /\ p \in Clients /\ i \in Process /\ PairInv(p, q)
      /\ stack[q][1].rest \in Seq(MessageType) /\ stack[q][1].rest # << >>
      /\ h = Head(stack[q][1].rest) /\ Rest(q) = Tail(stack[q][1].rest)
      /\ h.type \in Request
  BY <1>1, <1>2, ServiceTurn
<1>4. /\ TurnOf(q, i) /\ stack'[q][1].rest = Rest(q) /\ stack'[q][1].serving = << >>
      /\ connections'[q][i].readSerial = connections[q][i].readSerial + 1
      /\ connections'[q][i].writeQueue = Append(connections[q][i].writeQueue, m)
      /\ m \in MessageType /\ requests' = requests
  <2>1. Structure /\ TypeInv /\ q \in Services /\ DispatchRefused(q)
    BY <1>1, <1>2
  <2>2. i = stack[q][1].peer /\ h = Current(q) /\ m = Refusal(q, i, h)
    OBVIOUS
  <2>3. /\ TurnOf(q, i) /\ stack'[q][1].rest = Rest(q) /\ stack'[q][1].serving = << >>
        /\ connections'[q][i].readSerial = connections[q][i].readSerial + 1
        /\ connections'[q][i].writeSerial = connections[q][i].writeSerial + 1
        /\ connections'[q][i].writeQueue = Append(connections[q][i].writeQueue, m)
        /\ m \in MessageType /\ requests' = requests
    BY <2>1, <2>2, RefusedTurn
  <2>4. QED  BY <2>3
<1>5. /\ Asks(calls, p, q, h)
      /\ \A D, S : Kept(calls, D, S) /\ (S = {} \/ (h.type = "invoke" /\ S = {h.call}))
                     => Requested(D, p, q, Read(p, q)', OnWire(p, q, q), Queued(p, q))
      /\ Numbering(Reads(p, q)', Sends(p, q), Awaiting(p, q),
                   ReadNow(p, q)', OnWire(p, q, q), Queued(p, q))
      /\ Linked(p, q) => Fits(Sends(p, q), Awaiting(p, q), r, h.call)
  <2>1. stack'[q][1].rest = Tail(stack[q][1].rest)
    BY <1>3, <1>4
  <2>2. QED  BY <1>1, <1>2, <1>3, <1>4, <2>1, RequestTurn
<1> PICK S : S = RefusedSet(h)
  OBVIOUS
<1>6. calls' = IF h.type = "invoke" THEN [calls EXCEPT ![h.call].run = "exception"] ELSE calls
  BY DEF DispatchRefused
<1>7. /\ Kept(calls, calls', S) /\ DOMAIN calls' = DOMAIN calls
      /\ \A d \in DOMAIN calls : calls'[d].answer = calls[d].answer
      /\ \A d \in S : /\ d \in DOMAIN calls /\ calls[d].to = q /\ calls[d].from = p
                      /\ calls[d].run = "sent"
                      /\ calls'[d].run # "sent" /\ calls'[d].runs <= 1
      /\ h.call # 0 => h.call \in DOMAIN calls' /\ calls'[h.call].run = "exception"
  <2>2. HistoryInv /\ RunsOnce /\ Asks(calls, p, q, h)
    BY <1>1, <1>5
  <2>3. QED  BY <2>2, RefusedCalls
<1>8. PairInv(p, q)'
  <2>1. ClientSame(p, q) /\ WireSame(p, q)
    BY <1>1, <1>2, <1>3, <1>4, TurnViews
  <2>2. Requested(calls', p, q, Read(p, q)', OnWire(p, q, q), Queued(p, q))
    <3>1. S = {} \/ (h.type = "invoke" /\ S = {h.call})
      BY DEF RefusedSet
    <3>2. QED  BY <1>5, <1>7, <3>1
  <2>3. m.type = "exception" /\ m.serial = r /\ m.call = h.call
    BY DEF Refusal, Numbered, Message
  <2>4. Answers(calls', m)
    BY <1>7, <2>3 DEF Answers, Outcome
  <2>5. Linked(p, q) => Fits(Sends(p, q), Awaiting(p, q), m.serial, m.call)
    BY <1>5, <2>3
  <2>6. Answered(calls', Sends(p, q), Awaiting(p, q),
                 Handled(p, q), OnWire(p, q, p), QueuedAnswers(p, q)')
    BY <1>1, <1>2, <1>3, <1>4, <1>7, <2>4, <2>5, AnswerTurn
  <2>7. Serves(Sends(p, q), Awaiting(p, q), Pending(p, q)')
    BY <1>1, <1>2, <1>3, <1>4, <2>5, ServesTurn
  <2>8. QED  BY <1>5, <2>1, <2>2, <2>6, <2>7, PairTurn
<1>9. ServiceInv(q)'
  BY <1>4 DEF ServiceInv, InService
<1>10. LeafInv'
  <2>1. \A d \in S : d \in DOMAIN calls =>
          /\ calls[d].to = q /\ (calls[d].from = p \/ calls[d].run # "sent")
          /\ calls'[d].run # "sent" /\ calls'[d].runs <= 1
    BY <1>7
  <2>2. QED  BY <1>2, <1>3, <1>4, <1>7, <1>8, <1>9, <2>1, TurnLeaf
<1>11. calls' = calls \/ \E c \in DOMAIN calls :
         calls[c].run = "sent" /\ calls' = [calls EXCEPT ![c].run = "exception"]
  <2>1. CASE h.type = "invoke"
    <3>1. h.call \in DOMAIN calls /\ calls[h.call].run = "sent"
      BY <1>7, <2>1 DEF RefusedSet
    <3>2. QED  BY <1>6, <2>1, <3>1
  <2>2. CASE h.type # "invoke"
    BY <1>6, <2>2
  <2>3. QED  BY <2>1, <2>2
<1>12. QED  BY <1>10, <1>11

------------------------------------------------------------------------------
\* The method ends, and q answers with its outcome.
Reply(q, i, outcome, s) ==
  Numbered(Message(outcome, s.serial, s.call), connections[q][i].writeSerial)

LEMMA ReturnsTurn ==
  ASSUME TypeInv, Structure, NEW q \in Services, NEW outcome \in Outcome,
         MethodReturns(q, outcome), NEW i, i = stack[q][1].peer,
         NEW s, s = stack[q][1].serving[1], NEW m, m = Reply(q, i, outcome, s)
  PROVE  /\ TurnOf(q, i) /\ i \in Process
         /\ stack[q][1].serving \in Seq(ServedType) /\ stack[q][1].serving # << >>
         /\ stack'[q][1].rest = stack[q][1].rest /\ stack'[q][1].serving = << >>
         /\ connections'[q][i].readSerial = connections[q][i].readSerial
         /\ connections'[q][i].writeSerial = connections[q][i].writeSerial + 1
         /\ connections'[q][i].writeQueue = Append(connections[q][i].writeQueue, m)
         /\ m \in MessageType /\ requests' = requests
<1> PICK rest : rest = Top(q).rest
  OBVIOUS
<1>1. Serving(q) /\ Looping(q) /\ q \in Process
  BY Kinds DEF MethodReturns, Serving
<1>2. /\ Top(q) = stack[q][1] /\ Top(q).peer = i /\ i \in Process
      /\ connections[q][i].socket # 0 /\ ~Idle(q)
  BY <1>1, LoopingIs
<1>3. /\ rest \in Seq(MessageType) /\ stack[q][1].serving \in Seq(ServedType)
      /\ stack[q][1].serving # << >>
  BY <1>1, <1>2, TopIs DEF Serving, Looping
<1>4. s.serial \in Nat /\ s.call \in Nat
  <2>1. s \in ServedType
    BY <1>3, EmptySeq, ElementOfSeq
  <2>2. QED  BY <2>1 DEF ServedType
<1>5. PICK c : c = [Conn(q) EXCEPT !.readTask = << >>]
  OBVIOUS
<1>6. Conn(q) = connections[q][i]
  BY <1>2 DEF Conn
<1>7. /\ c \in ConnectionType /\ c.socket = connections[q][i].socket /\ c.readTask = << >>
      /\ c.readSerial = connections[q][i].readSerial
      /\ c.writeSerial = connections[q][i].writeSerial
      /\ c.writeQueue = connections[q][i].writeQueue
  <2>1. << >> \in Seq(MessageType) /\ Conn(q) \in ConnectionType
    BY <1>1, <1>2, <1>6, EmptySeq, ConnectionIs
  <2>2. QED  BY <1>5, <1>6, <2>1 DEF ConnectionType
<1>8. /\ SendOn(q, Top(q).peer, c, Message(outcome, s.serial, s.call))
      /\ calls' = [calls EXCEPT ![s.call].run = outcome]
      /\ SetTop(q, LoopFrame(Top(q).peer, rest, << >>))
      /\ broken' = broken /\ requests' = requests
  BY <1>2, <1>5 DEF MethodReturns
<1>9. c.socket = connections[q][Top(q).peer].socket
  BY <1>2, <1>7
<1>10. /\ Structure' /\ Len(stack[q]) = 1 /\ Len(stack'[q]) = 1 /\ sockets' = sockets
       /\ stack'[q][1].peer = stack[q][1].peer
       /\ stack'[q][1].rest = rest /\ stack'[q][1].serving = << >>
       /\ \A x \in Process \ {q} : stack'[x] = stack[x]
       /\ AnsweredWith(q, Top(q).peer, c, Message(outcome, s.serial, s.call))
       /\ Numbered(Message(outcome, s.serial, s.call), c.writeSerial) \in MessageType
  BY <1>1, <1>3, <1>4, <1>7, <1>8, <1>9, ServiceAnswers
<1>11. m = Numbered(Message(outcome, s.serial, s.call), c.writeSerial)
  BY <1>7 DEF Reply
<1>12. /\ \A x, y \in Process : <<x, y>> # <<q, i>> => connections'[x][y] = connections[x][y]
       /\ connections'[q][i].socket = c.socket
       /\ connections'[q][i].readSerial = c.readSerial
       /\ connections'[q][i].writeSerial = c.writeSerial + 1
       /\ connections'[q][i].writeQueue = Append(c.writeQueue, m)
  BY <1>2, <1>10, <1>11 DEF AnsweredWith
<1>13. TurnOf(q, i)
  BY <1>2, <1>7, <1>10, <1>12 DEF TurnOf
<1>14. QED  BY <1>2, <1>3, <1>7, <1>8, <1>10, <1>11, <1>12, <1>13

\* q's turn takes up no request.
LEMMA SameRequests ==
  ASSUME TypeInv, Structure, NEW q \in Services, NEW i \in Process, TurnOf(q, i),
         NEW p \in Clients, p = SocketOf(q, i).from, PairInv(p, q),
         stack'[q][1].rest = stack[q][1].rest,
         connections'[q][i].readSerial = connections[q][i].readSerial,
         NEW S, Kept(calls, calls', S), Spared(calls, S, p, q)
  PROVE  /\ Requested(calls', p, q, Read(p, q)', OnWire(p, q, q), Queued(p, q))
         /\ Numbering(Reads(p, q)', Sends(p, q), Awaiting(p, q),
                      ReadNow(p, q)', OnWire(p, q, q), Queued(p, q))
<1>1. /\ Requested(calls, p, q, Read(p, q), OnWire(p, q, q), Queued(p, q))
      /\ Numbering(Reads(p, q), Sends(p, q), Awaiting(p, q),
                   ReadNow(p, q), OnWire(p, q, q), Queued(p, q))
  BY DEF PairInv
<1>2. Read(p, q)' = Read(p, q)
  <2>1. Read(p, q) = stack[q][1].rest /\ Read(p, q)' = stack'[q][1].rest
    BY TurnViews
  <2>2. QED  BY <2>1
<1>3. ReadNow(p, q)' = ReadNow(p, q) /\ Reads(p, q)' = Reads(p, q)
  <2>1. CASE Linked(p, q)
    <3>1. /\ ReadNow(p, q) = stack[q][1].rest /\ ReadNow(p, q)' = stack'[q][1].rest
          /\ Reads(p, q) = connections[q][i].readSerial
          /\ Reads(p, q)' = connections'[q][i].readSerial
      BY <2>1, TurnViews
    <3>2. QED  BY <3>1
  <2>2. CASE ~Linked(p, q)
    BY <2>2, TurnViews
  <2>3. QED  BY <2>1, <2>2
<1>4. \A a, b, c : Rearranged(a, b, c, a, b, c)
  BY DEF Rearranged
<1>5. Requested(calls', p, q, Read(p, q), OnWire(p, q, q), Queued(p, q))
  BY <1>1, <1>4, RequestedKept
<1>6. QED  BY <1>1, <1>2, <1>3, <1>5

LEMMA MethodReturnsLeaf ==
  ASSUME TypeInv, LeafInv, NEW q \in Process, NEW outcome \in Outcome, MethodReturns(q, outcome)
  PROVE  /\ LeafInv'
         /\ \E c \in DOMAIN calls :
              calls[c].run = "running" /\ calls' = [calls EXCEPT ![c].run = outcome]
<1>1. Structure /\ Serving(q) /\ Looping(q)
  BY DEF LeafInv, MethodReturns, Serving
<1>2. q \in Services
  BY <1>1, LoopingIs, Kinds
<1> PICK i : i = stack[q][1].peer
  OBVIOUS
<1> PICK p : p = SocketOf(q, i).from
  OBVIOUS
<1> PICK s : s = stack[q][1].serving[1]
  OBVIOUS
<1> PICK m : m = Reply(q, i, outcome, s)
  OBVIOUS
<1> PICK c : c = s.call
  OBVIOUS
<1>3. /\ TurnOf(q, i) /\ i \in Process
      /\ stack[q][1].serving \in Seq(ServedType) /\ stack[q][1].serving # << >>
      /\ stack'[q][1].rest = stack[q][1].rest /\ stack'[q][1].serving = << >>
      /\ connections'[q][i].readSerial = connections[q][i].readSerial
      /\ connections'[q][i].writeQueue = Append(connections[q][i].writeQueue, m)
      /\ m \in MessageType /\ requests' = requests
      /\ calls' = [calls EXCEPT ![c].run = outcome]
  <2>1. Structure /\ TypeInv /\ q \in Services
    BY <1>1, <1>2
  <2>2. i = stack[q][1].peer /\ s = stack[q][1].serving[1] /\ m = Reply(q, i, outcome, s)
    OBVIOUS
  <2>3. /\ TurnOf(q, i) /\ i \in Process
        /\ stack[q][1].serving \in Seq(ServedType) /\ stack[q][1].serving # << >>
        /\ stack'[q][1].rest = stack[q][1].rest /\ stack'[q][1].serving = << >>
        /\ connections'[q][i].readSerial = connections[q][i].readSerial
        /\ connections'[q][i].writeSerial = connections[q][i].writeSerial + 1
        /\ connections'[q][i].writeQueue = Append(connections[q][i].writeQueue, m)
        /\ m \in MessageType /\ requests' = requests
    BY <2>1, <2>2, ReturnsTurn
  <2>4. Top(q) = stack[q][1]
    BY <1>1, <1>2, LoopingIs
  <2>5. calls' = [calls EXCEPT ![c].run = outcome]
    BY <2>4 DEF MethodReturns
  <2>6. QED  BY <2>3, <2>5
<1>4. Len(stack[q]) = 1 /\ connections[q][i].socket # 0 /\ InService(q)
  BY <1>3 DEF TurnOf, InService
<1>5. p \in Clients /\ PairInv(p, q)
  <2>1. p \in Clients
    BY <1>1, <1>2, <1>3, <1>4, LoopOver
  <2>2. QED  BY <1>2, <2>1 DEF LeafInv, PairsInv
<1>6. c \in DOMAIN calls /\ calls[c].to = q /\ calls[c].run = "running" /\ calls[c].runs <= 1
      /\ Len(stack[q][1].serving) = 1
  <2>1. ServiceInv(q) /\ RunsOnce
    BY <1>2 DEF LeafInv, ServicesInv
  <2>2. QED  BY <1>4, <2>1 DEF ServiceInv, RunsOnce
<1>7. /\ Kept(calls, calls', {c}) /\ DOMAIN calls' = DOMAIN calls
      /\ \A d \in DOMAIN calls : calls'[d].answer = calls[d].answer
      /\ calls'[c].run = outcome /\ calls'[c].runs = calls[c].runs
  <2>1. calls[c].run \notin Outcome
    BY <1>6 DEF Outcome
  <2>2. calls' = [calls EXCEPT ![c].run = outcome]
    BY <1>3
  <2>3. QED  BY <1>6, <2>1, <2>2, RunSet
<1>8. Spared(calls, {c}, p, q)
  BY <1>6 DEF Spared
<1>9. PairInv(p, q)'
  <2>1. ClientSame(p, q) /\ WireSame(p, q)
    BY <1>1, <1>2, <1>3, <1>5, TurnViews
  <2>2. /\ Requested(calls', p, q, Read(p, q)', OnWire(p, q, q), Queued(p, q))
        /\ Numbering(Reads(p, q)', Sends(p, q), Awaiting(p, q),
                     ReadNow(p, q)', OnWire(p, q, q), Queued(p, q))
    BY <1>1, <1>2, <1>3, <1>5, <1>7, <1>8, SameRequests
  <2>3. m.type = outcome /\ m.serial = s.serial /\ m.call = c
    BY DEF Reply, Numbered, Message
  <2>4. Answers(calls', m)
    BY <1>6, <1>7, <2>3 DEF Answers
  <2>5. Linked(p, q) => Fits(Sends(p, q), Awaiting(p, q), s.serial, s.call)
    <3> SUFFICES ASSUME Linked(p, q) PROVE Fits(Sends(p, q), Awaiting(p, q), s.serial, s.call)
      OBVIOUS
    <3>1. Pending(p, q) = Elements(stack[q][1].serving)
      BY <1>1, <1>2, <1>3, <1>5, TurnViews
    <3>2. s \in Elements(stack[q][1].serving)
      BY <1>6 DEF Elements
    <3>3. QED  BY <1>5, <3>1, <3>2 DEF PairInv, Serves
  <2>6. Linked(p, q) => Fits(Sends(p, q), Awaiting(p, q), m.serial, m.call)
    BY <2>3, <2>5
  <2>7. Answered(calls', Sends(p, q), Awaiting(p, q),
                 Handled(p, q), OnWire(p, q, p), QueuedAnswers(p, q)')
    BY <1>1, <1>2, <1>3, <1>5, <1>7, <2>4, <2>6, AnswerTurn
  <2>8. Serves(Sends(p, q), Awaiting(p, q), Pending(p, q)')
    BY <1>1, <1>2, <1>3, <1>5, <2>5, ServesTurn
  <2>9. QED  BY <2>1, <2>2, <2>7, <2>8, PairTurn
<1>10. ServiceInv(q)'
  BY <1>3 DEF ServiceInv, InService
<1>11. LeafInv'
  <2>1. \A d \in {c} : d \in DOMAIN calls =>
          /\ calls[d].to = q /\ (calls[d].from = p \/ calls[d].run # "sent")
          /\ calls'[d].run # "sent" /\ calls'[d].runs <= 1
    BY <1>6, <1>7 DEF Outcome
  <2>2. TurnOf(q, i) /\ i \in Process /\ requests' = requests
    BY <1>3
  <2>3. PICK S : S = {c}
    OBVIOUS
  <2>4. \A d \in S : d \in DOMAIN calls =>
          /\ calls[d].to = q /\ (calls[d].from = p \/ calls[d].run # "sent")
          /\ calls'[d].run # "sent" /\ calls'[d].runs <= 1
    BY <2>1, <2>3
  <2>5. /\ Kept(calls, calls', S) /\ DOMAIN calls' = DOMAIN calls
        /\ \A d \in DOMAIN calls : calls'[d].answer = calls[d].answer
    BY <1>7, <2>3
  <2>6. q \in Services /\ p \in Clients /\ PairInv(p, q)' /\ ServiceInv(q)'
    BY <1>2, <1>5, <1>9, <1>10
  <2>7. QED  BY <2>2, <2>4, <2>5, <2>6, TurnLeaf
<1>12. QED  BY <1>3, <1>6, <1>11

------------------------------------------------------------------------------
\* p takes up an answer.
LEMMA AnswerPairs ==
  ASSUME TypeInv, LeafInv, NEW p \in Clients, DispatchAnswer(p)
  PROVE  PairsInv'
<1> PICK q : q = stack[p][2].peer
  OBVIOUS
<1> PICK a : a = stack[p][2].rest
  OBVIOUS
<1>1. p \in Process /\ Structure /\ PairsInv /\ calls' = calls
  BY Kinds DEF LeafInv, DispatchAnswer
<1>2. /\ Structure' /\ Len(stack[p]) = 2 /\ Len(stack'[p]) = 2
      /\ q \in Services /\ a \in Seq(MessageType) /\ a # << >>
      /\ stack'[p][1] = stack[p][1] /\ stack'[p][2].peer = q /\ stack'[p][2].rest = Tail(a)
      /\ \A r \in Process \ {p} : stack'[r] = stack[r]
      /\ \A r, y \in Process : <<r, y>> # <<p, q>> => connections'[r][y] = connections[r][y]
      /\ connections'[p][q].socket = connections[p][q].socket
      /\ connections'[p][q].writeSerial = connections[p][q].writeSerial
      /\ connections'[p][q].writeQueue = connections[p][q].writeQueue
      /\ sockets' = sockets
  <2>1. Structure
    BY <1>1
  <2>2. QED  BY <2>1, DispatchAnswerStructure
<1>3. Kept(calls, calls', {}) /\ \A r, y : Spared(calls, {}, r, y)
  BY <1>1, NothingKept, NobodySpared
<1>4. ASSUME NEW r \in Clients, NEW y \in Services
      PROVE  /\ ServiceSame(r, y) /\ WireSame(r, y) /\ Queued(r, y)' = Queued(r, y)
             /\ Sends(r, y)' = Sends(r, y) /\ Awaiting(r, y)' = Awaiting(r, y)
  <2>1. r \in Process /\ y \in Process /\ Image[r] \in Process /\ y # p
    BY Kinds
  <2>2. /\ connections'[r][y].socket = connections[r][y].socket
        /\ connections'[r][y].writeSerial = connections[r][y].writeSerial
        /\ connections'[r][y].writeQueue = connections[r][y].writeQueue
    <3>1. CASE <<r, y>> = <<p, q>>
      BY <1>2, <3>1
    <3>2. CASE <<r, y>> # <<p, q>>
      <4>1. connections'[r][y] = connections[r][y]
        BY <1>2, <2>1, <3>2
      <4>2. QED  BY <4>1
    <3>3. QED  BY <3>1, <3>2
  <2>3. connections'[y][Image[r]] = connections[y][Image[r]] /\ stack'[y] = stack[y]
    <3>1. <<y, Image[r]>> # <<p, q>>
      BY <2>1
    <3>2. QED  BY <1>2, <2>1, <3>1
  <2>4. From(y, Image[r], r)' <=> From(y, Image[r], r)
    <3>1. \A k \in DOMAIN sockets : sockets'[k].from = sockets[k].from
      BY <1>2
    <3>2. connections'[y][Image[r]].socket = connections[y][Image[r]].socket
      BY <2>3
    <3>3. QED  BY <2>1, <3>1, <3>2, FromKept
  <2>5. ServiceSame(r, y)
    BY <2>2, <2>3, <2>4, ServiceSides
  <2>6. WireSame(r, y)
    BY <1>2, <2>2 DEF WireSame, OnWire, HasSocket, SocketOf
  <2>7. Awaiting(r, y)' = Awaiting(r, y)
    <3>1. CASE r = p
      <4>1. Len(stack[p]) # 0 /\ Len(stack'[p]) # 0 /\ stack'[p][1] = stack[p][1]
        BY <1>2
      <4>2. QED  BY <3>1, <4>1 DEF Awaiting
    <3>2. CASE r # p
      <4>1. stack'[r] = stack[r]
        BY <1>2, <2>1, <3>2
      <4>2. QED  BY <4>1 DEF Awaiting
    <3>3. QED  BY <3>1, <3>2
  <2>8. QED  BY <2>2, <2>5, <2>6, <2>7 DEF Queued, Sends
<1>5. ASSUME NEW r \in Clients, NEW y \in Services
      PROVE  Rearranged(Handled(r, y), OnWire(r, y, r), QueuedAnswers(r, y),
                        Handled(r, y)', OnWire(r, y, r), QueuedAnswers(r, y))
  <2>1. CASE r = p /\ y = q
    <3>1. Handled(p, q) = a /\ Handled(p, q)' = Tail(a)
      BY <1>2 DEF Handled
    <3>2. \A b, c : Rearranged(a, b, c, Tail(a), b, c)
      BY <1>2, MovesOut
    <3>3. QED  BY <2>1, <3>1, <3>2
  <2>2. CASE ~(r = p /\ y = q)
    <3>1. Handled(r, y)' = Handled(r, y)
      <4>1. CASE r = p
        <5>1. stack[p][2].peer # y /\ stack'[p][2].peer # y
          BY <1>2, <2>2, <4>1
        <5>2. QED  BY <4>1, <5>1 DEF Handled
      <4>2. CASE r # p
        <5>1. stack'[r] = stack[r]
          BY <1>2, <4>2, Kinds
        <5>2. QED  BY <5>1 DEF Handled
      <4>3. QED  BY <4>1, <4>2
    <3>2. \A u, v, w : Rearranged(u, v, w, u, v, w)
      BY DEF Rearranged
    <3>3. QED  BY <3>1, <3>2
  <2>3. QED  BY <2>1, <2>2
<1>6. ASSUME NEW r \in Clients, NEW y \in Services PROVE PairInv(r, y)'
  <2>1. /\ ServiceSame(r, y) /\ WireSame(r, y) /\ Queued(r, y)' = Queued(r, y)
        /\ Sends(r, y)' = Sends(r, y) /\ Awaiting(r, y)' = Awaiting(r, y)
    BY <1>4
  <2>2. \A u, v, w : Rearranged(u, v, w, u, v, w)
    BY DEF Rearranged
  <2>3. /\ Rearranged(Read(r, y), OnWire(r, y, y), Queued(r, y),
                      Read(r, y)', OnWire(r, y, y)', Queued(r, y)')
        /\ Rearranged(ReadNow(r, y), OnWire(r, y, y), Queued(r, y),
                      ReadNow(r, y)', OnWire(r, y, y)', Queued(r, y)')
        /\ Rearranged(Handled(r, y), OnWire(r, y, r), QueuedAnswers(r, y),
                      Handled(r, y)', OnWire(r, y, r)', QueuedAnswers(r, y)')
    BY <1>5, <2>1, <2>2 DEF ServiceSame, WireSame
  <2>4. /\ Reads(r, y)' \in {0, Reads(r, y)} /\ Awaiting(r, y)' \in {0, Awaiting(r, y)}
        /\ Pending(r, y)' \subseteq Pending(r, y) /\ Sends(r, y)' = Sends(r, y)
    BY <2>1 DEF ServiceSame
  <2>5. PairInv(r, y) /\ Spared(calls, {}, r, y)
    BY <1>1, <1>3 DEF PairsInv
  <2>6. QED  BY <1>1, <1>3, <2>3, <2>4, <2>5, PairKept
<1>7. QED  BY <1>6 DEF PairsInv

\* A parser is told only of the call its caller waits for, and what became of it.
LEMMA ToldOwn ==
  ASSUME NEW parser, NEW h, NEW told, told = [outcome |-> h.type, of |-> h.call],
         parser = Unanswered \/ parser = told
  PROVE  Told(parser, h) = told
<1>1. CASE parser = Unanswered
  <2>1. parser.outcome # "exception"
    BY <1>1 DEF Unanswered
  <2>2. QED  BY <2>1 DEF Told
<1>2. CASE parser = told
  BY <1>2 DEF Told
<1>3. QED  BY <1>1, <1>2

LEMMA AnswerWait ==
  ASSUME TypeInv, LeafInv, NEW p \in Clients, DispatchAnswer(p)
  PROVE  WaitInv(p)'
<1> PICK q : q = stack[p][2].peer
  OBVIOUS
<1> PICK w : w = stack[p][1]
  OBVIOUS
<1> PICK h : h = Head(stack[p][2].rest)
  OBVIOUS
<1> PICK parser : parser = requests[p][w.peer][w.serial]
  OBVIOUS
<1>1. p \in Process /\ Structure /\ WaitInv(p) /\ calls' = calls /\ Turn(p, Outcome)
  BY Kinds DEF LeafInv, WaitsInv, DispatchAnswer
<1>2. /\ Len(stack[p]) = 2 /\ Len(stack'[p]) = 2 /\ q \in Services
      /\ stack'[p][1] = w
      /\ \A r, y \in Process : <<r, y>> # <<p, q>> => connections'[r][y] = connections[r][y]
      /\ connections'[p][q].writeSerial = connections[p][q].writeSerial
  <2>1. Structure
    BY <1>1
  <2>2. QED  BY <2>1, DispatchAnswerStructure
<1>3. requests' = [requests EXCEPT ![p][q] =
        [s \in DOMAIN requests[p][q] |->
           IF s = h.serial THEN Told(requests[p][q][s], h) ELSE requests[p][q][s]]]
  <2>1. Top(p) = stack[p][2]
    BY <1>1, LoopingIs DEF Turn
  <2>2. Current(p) = h
    BY <1>1, <2>1, TurnIs
  <2>3. QED  BY <2>1, <2>2 DEF DispatchAnswer
<1>4. w.kind = "wait" /\ w.peer \in Services /\ w.peer \in Process
  <2>1. ClientStack(p) /\ Len(stack[p]) > 0
    BY <1>1, <1>2 DEF Structure, StackShape
  <2>2. QED  BY <2>1, Kinds DEF ClientStack
<1>5. /\ w.call \in DOMAIN calls /\ calls[w.call].from = p
      /\ calls[w.call].answer = Unanswered
      /\ w.serial + 1 = Sends(p, w.peer)
      /\ parser # Unanswered =>
           /\ calls[w.call].run \in Outcome
           /\ parser = [outcome |-> calls[w.call].run, of |-> w.call]
  <2>1. Len(stack[p]) # 0
    BY <1>2
  <2>2. QED  BY <1>1, <2>1 DEF WaitInv
<1>6. w.serial \in DOMAIN requests[p][w.peer]
  <2>1. 1 \in DOMAIN stack[p]
    BY <1>1, <1>2, StackIs
  <2>2. QED  BY <1>1, <1>4, <2>1 DEF TypeInv, WaitsHaveParsers
<1>7. Sends(p, w.peer)' = Sends(p, w.peer)
  <2>1. CASE w.peer = q
    BY <1>2, <2>1 DEF Sends
  <2>2. CASE w.peer # q
    <3>1. connections'[p][w.peer] = connections[p][w.peer]
      BY <1>1, <1>2, <1>4, <2>2
    <3>2. QED  BY <3>1 DEF Sends
  <2>3. QED  BY <2>1, <2>2
<1> PICK told : told = requests'[p][w.peer][w.serial]
  OBVIOUS
<1>8. told = parser \/ (w.peer = q /\ w.serial = h.serial /\ told = Told(parser, h))
  <2>1. q \in Process /\ requests \in [Process -> [Process -> Tables]]
    BY <1>2, Kinds DEF TypeInv, RequestsType
  <2>2. CASE w.peer # q
    BY <1>1, <1>3, <1>4, <2>1, <2>2
  <2>3. CASE w.peer = q
    <3>1. requests'[p][q] = [s \in DOMAIN requests[p][q] |->
            IF s = h.serial THEN Told(requests[p][q][s], h) ELSE requests[p][q][s]]
      BY <1>1, <1>3, <2>1
    <3>2. w.serial \in DOMAIN requests[p][q] /\ parser = requests[p][q][w.serial]
      BY <1>6, <2>3
    <3>3. requests'[p][q][w.serial] = IF w.serial = h.serial THEN Told(parser, h) ELSE parser
      <4>1. PICK table : table = requests[p][q]
        OBVIOUS
      <4>2. PICK serial : serial = w.serial
        OBVIOUS
      <4>3. requests'[p][q] = [s \in DOMAIN table |->
                                IF s = h.serial THEN Told(table[s], h) ELSE table[s]]
        BY <3>1, <4>1
      <4>4. serial \in DOMAIN table /\ parser = table[serial]
        BY <3>2, <4>1, <4>2
      <4>5. requests'[p][q][serial] = IF serial = h.serial THEN Told(table[serial], h)
                                                           ELSE table[serial]
        BY <4>3, <4>4
      <4>6. QED  BY <4>2, <4>4, <4>5
    <3>4. QED  BY <2>3, <3>3
  <2>4. QED  BY <2>2, <2>3
<1>9. told # Unanswered =>
        /\ calls[w.call].run \in Outcome
        /\ told = [outcome |-> calls[w.call].run, of |-> w.call]
  <2>1. CASE told = parser
    BY <1>5, <2>1
  <2>2. CASE w.peer = q /\ w.serial = h.serial /\ told = Told(parser, h)
    <3>1. h.type \in Outcome /\ Answers(calls, h) /\ Fits(Sends(p, q), Awaiting(p, q), h.serial, h.call)
      BY <1>1, ClientTurn
    <3>2. Awaiting(p, q) = w.call
      <4>1. Len(stack[p]) # 0
        <5>1. Len(stack[p]) = 2
          BY <1>2
        <5>2. QED  BY <5>1
      <4>2. QED  BY <2>2, <4>1 DEF Awaiting
    <3>3. w.call # 0
      BY <1>5, CallIs
    <3>4. h.serial + 1 = Sends(p, q)
      BY <1>5, <2>2
    <3>5. h.call = w.call
      BY <3>1, <3>2, <3>3, <3>4 DEF Fits
    <3>6. calls[w.call].run = h.type
      BY <3>1, <3>3, <3>5 DEF Answers
    <3>7. told = [outcome |-> calls[w.call].run, of |-> w.call]
      <4>1. PICK answer : answer = [outcome |-> h.type, of |-> h.call]
        OBVIOUS
      <4>2. answer = [outcome |-> calls[w.call].run, of |-> w.call]
        BY <3>5, <3>6, <4>1
      <4>3. parser = Unanswered \/ parser = answer
        BY <1>5, <4>2
      <4>4. Told(parser, h) = answer
        BY <4>1, <4>3, ToldOwn
      <4>5. QED  BY <2>2, <4>2, <4>4
    <3>8. QED  BY <3>1, <3>6, <3>7
  <2>3. QED  BY <1>8, <2>1, <2>2
<1>10. QED  BY <1>1, <1>2, <1>5, <1>7, <1>9 DEF WaitInv

LEMMA DispatchAnswerLeaf ==
  ASSUME TypeInv, LeafInv, NEW p \in Process, DispatchAnswer(p)
  PROVE  LeafInv' /\ calls' = calls
<1>1. Structure /\ Turn(p, Outcome) /\ calls' = calls /\ HistoryInv /\ RunsOnce /\ OwnAnswer
  BY DEF LeafInv, DispatchAnswer
<1>2. p \in Clients
  <2>1. p \notin Services
    BY <1>1, ServiceTurn, Apart
  <2>2. QED  BY <2>1, Kinds
<1>3. Structure' /\ \A r \in Process \ {p} : stack'[r] = stack[r]
  BY <1>1, <1>2, DispatchAnswerStructure
<1>4. PairsInv'
  BY <1>2, AnswerPairs
<1>5. Kept(calls, calls', {})
  BY <1>1, NothingKept
<1>6. ASSUME NEW r \in Clients PROVE WaitInv(r)'
  <2>1. CASE r = p
    BY <1>2, <2>1, AnswerWait
  <2>2. CASE r # p
    <3>1. r \in Process /\ stack'[r] = stack[r]
      BY <1>3, <2>2, Kinds
    <3>2. connections'[r] = connections[r] /\ requests'[r] = requests[r]
      BY <2>2, <3>1 DEF DispatchAnswer, TypeInv, ConnectionsType, RequestsType
    <3>3. \A c \in DOMAIN calls : calls'[c].answer = calls[c].answer
      BY <1>1
    <3>4. Len(stack'[r]) # 0 => WaitStays(r)
      BY <3>1, <3>2, <3>3 DEF WaitStays, Sends
    <3>5. WaitInv(r)
      BY DEF LeafInv, WaitsInv
    <3>6. QED  BY <1>1, <1>5, <3>4, <3>5, WaitKept
  <2>3. QED  BY <2>1, <2>2
<1>7. ASSUME NEW y \in Services PROVE ServiceInv(y)'
  <2>1. stack'[y] = stack[y]
    BY <1>2, <1>3, Kinds
  <2>2. InService(y)' => InService(y) /\ stack'[y][1].serving = stack[y][1].serving
    BY <2>1 DEF InService
  <2>3. ServiceInv(y)
    BY DEF LeafInv, ServicesInv
  <2>4. QED  BY <1>5, <2>2, <2>3, ServiceKept
<1>8. HistoryInv' /\ RunsOnce' /\ OwnAnswer'
  BY <1>1 DEF HistoryInv, RunsOnce, OwnAnswer
<1>9. QED  BY <1>1, <1>3, <1>4, <1>6, <1>7, <1>8 DEF LeafInv, WaitsInv, ServicesInv

------------------------------------------------------------------------------
\* The invariant of networks with leaf services

LEMMA LeafInvInit == Init => LeafInv
<1> SUFFICES ASSUME Init PROVE LeafInv
  OBVIOUS
<1>1. /\ \A p, q \in Process : connections[p][q] = NewConnection
      /\ \A p \in Process : stack[p] = << >> /\ Len(stack[p]) = 0
      /\ DOMAIN sockets = {} /\ DOMAIN calls = {} /\ broken = {}
  BY NoElements DEF Init
<1>2. /\ NewConnection.socket = 0 /\ NewConnection.writeQueue = << >>
      /\ NewConnection.writeSerial = 0 /\ NewConnection.readTask = << >>
  BY DEF NewConnection
<1>3. Structure
  <2>1. StackShape
    BY <1>1, Kinds DEF StackShape, ClientStack, ServiceStack
  <2>2. EndsInv
    BY <1>1, <1>2, Kinds DEF EndsInv, ClientEnd, ServiceEnd, HasSocket
  <2>3. TasksInv
    BY <1>1, <1>2, Kinds DEF TasksInv
  <2>4. SocketsInv
    BY <1>1 DEF SocketsInv
  <2>5. QED  BY <1>1, <2>1, <2>2, <2>3, <2>4 DEF Structure
<1>4. ASSUME NEW p \in Clients, NEW q \in Services PROVE PairInv(p, q)
  <2>1. /\ p \in Process /\ q \in Process /\ Image[p] \in Process
    BY Kinds
  <2>2. /\ ~HasSocket(p, q) /\ ~HasSocket(q, Image[p]) /\ Len(stack[p]) = 0
        /\ connections[p][q].writeQueue = << >> /\ connections[p][q].writeSerial = 0
    BY <1>1, <1>2, <2>1 DEF HasSocket
  <2>3. ~Linked(p, q) /\ ~From(q, Image[p], p)
    BY <2>2 DEF Linked, From
  <2>4. /\ Read(p, q) = << >> /\ ReadNow(p, q) = << >> /\ OnWire(p, q, q) = << >>
        /\ OnWire(p, q, p) = << >> /\ Queued(p, q) = << >> /\ Handled(p, q) = << >>
        /\ QueuedAnswers(p, q) = << >> /\ Pending(p, q) = {}
        /\ Sends(p, q) = 0 /\ Reads(p, q) = 0
    BY <2>2, <2>3 DEF Read, ReadNow, OnWire, Queued, Handled, QueuedAnswers, Pending, Sends, Reads
  <2>5. Numbering(0, 0, Awaiting(p, q), << >>, << >>, << >>)
    BY NothingNumbered
  <2>6. Answered(calls, 0, Awaiting(p, q), << >>, << >>, << >>)
    BY NothingAnswered
  <2>7. Requested(calls, p, q, << >>, << >>, << >>)
    <3>1. Ordered(OneEach, << >>, << >>, << >>)
      BY NothingSorted DEF Ordered
    <3>2. Among(<< >>, << >>, << >>) = {}
      BY NoElements DEF Among
    <3>3. QED  BY <3>1, <3>2 DEF Requested
  <2>8. Serves(0, Awaiting(p, q), {})
    BY DEF Serves
  <2>9. QED  BY <2>4, <2>5, <2>6, <2>7, <2>8 DEF PairInv
<1>5. ServicesInv
  BY <1>1, Kinds DEF ServicesInv, ServiceInv, InService
<1>6. WaitsInv
  BY <1>1, Kinds DEF WaitsInv, WaitInv
<1>7. HistoryInv /\ RunsOnce /\ OwnAnswer
  BY <1>1 DEF HistoryInv, RunsOnce, OwnAnswer
<1>8. QED  BY <1>3, <1>4, <1>5, <1>6, <1>7 DEF LeafInv, PairsInv

LEMMA StutterLeaf == ASSUME LeafInv, UNCHANGED vars PROVE LeafInv'
<1>1. /\ connections' = connections /\ sockets' = sockets /\ requests' = requests
      /\ stack' = stack /\ broken' = broken /\ calls' = calls
  BY DEF vars
<1>2. Structure'
  <2>1. Structure
    BY DEF LeafInv
  <2>2. StackShape'
    BY <1>1, <2>1 DEF Structure, StackShape, ClientStack, ServiceStack
  <2>3. SocketsInv'
    BY <1>1, <2>1 DEF Structure, SocketsInv, SocketOK
  <2>4. EndsInv'
    <3>1. ASSUME NEW p \in Clients, NEW q \in Process PROVE ClientEnd(p, q)'
      BY <1>1, <2>1 DEF Structure, EndsInv, ClientEnd, HasSocket, SocketOf
    <3>2. ASSUME NEW q \in Services, NEW i \in Process PROVE ServiceEnd(q, i)'
      BY <1>1, <2>1 DEF Structure, EndsInv, ServiceEnd, HasSocket, SocketOf
    <3>3. QED  BY <3>1, <3>2 DEF EndsInv
  <2>5. TasksInv'
    BY <1>1, <2>1 DEF Structure, TasksInv, InService
  <2>6. QED  BY <1>1, <2>1, <2>2, <2>3, <2>4, <2>5 DEF Structure
<1>3. PairsInv'
  <2>1. ASSUME NEW p \in Clients, NEW q \in Services PROVE PairInv(p, q)'
    <3>1. /\ Read(p, q)' = Read(p, q) /\ ReadNow(p, q)' = ReadNow(p, q)
          /\ OnWire(p, q, p)' = OnWire(p, q, p) /\ OnWire(p, q, q)' = OnWire(p, q, q)
          /\ Queued(p, q)' = Queued(p, q) /\ Handled(p, q)' = Handled(p, q)
          /\ QueuedAnswers(p, q)' = QueuedAnswers(p, q) /\ Pending(p, q)' = Pending(p, q)
          /\ Sends(p, q)' = Sends(p, q) /\ Reads(p, q)' = Reads(p, q)
          /\ Awaiting(p, q)' = Awaiting(p, q)
      BY <1>1 DEF Read, ReadBy, ReadNow, OnWire, Queued, Handled, QueuedAnswers, Pending,
        ServedBy, InService, Sends, Reads, Awaiting, Linked, From, HasSocket, SocketOf
    <3>2. PairInv(p, q)
      BY DEF LeafInv, PairsInv
    <3>3. QED  BY <1>1, <3>1, <3>2 DEF PairInv
  <2>2. QED  BY <2>1 DEF PairsInv
<1>4. ServicesInv'
  BY <1>1 DEF LeafInv, ServicesInv, ServiceInv, InService
<1>5. WaitsInv'
  BY <1>1 DEF LeafInv, WaitsInv, WaitInv, Sends
<1>6. HistoryInv' /\ RunsOnce' /\ OwnAnswer'
  BY <1>1 DEF LeafInv, HistoryInv, RunsOnce, OwnAnswer
<1>7. QED  BY <1>2, <1>3, <1>4, <1>5, <1>6 DEF LeafInv

LEMMA LeafInvStep ==
  ASSUME LeafServices, TypeInv, LeafInv, [Next]_vars
  PROVE  LeafInv'
<1>1. ASSUME NEW p \in Process, NEW q \in Process,
             Invoke(p, q) \/ Release(p, q) \/ Output(p, q) \/ Input(p, q) \/ Hangup(p, q)
      PROVE  LeafInv'
  BY <1>1, InvokeLeaf, ReleaseLeaf, OutputLeaf, InputLeaf, HangupLeaf
<1>2. ASSUME NEW p \in Process, NEW n \in DOMAIN sockets, Accept(p, n) \/ AcceptOrphan(p, n)
      PROVE  LeafInv'
  <2>1. AcceptOrphan(p, n) => Ends(p)
    BY AcceptOrphanIs DEF LeafInv
  <2>2. QED  BY <1>2, <2>1, AcceptLeaf, EndsLeaf
<1>3. ASSUME NEW p \in Process, WaitReturns(p) \/ WaitTimesOut(p) \/ LoopEnds(p)
      PROVE  LeafInv'
  BY <1>3, WaitReturnsLeaf, WaitTimesOutLeaf, LoopEndsLeaf
<1>4. ASSUME NEW p \in Process, DispatchInvoke(p) \/ DispatchRefused(p) \/ DispatchAnswer(p)
      PROVE  LeafInv'
  BY <1>4, DispatchInvokeLeaf, DispatchRefusedLeaf, DispatchAnswerLeaf
<1>5. ASSUME NEW p \in Process, Crash(p) PROVE LeafInv'
  BY <1>5, EndsLeaf DEF Crash
<1>6. ASSUME NEW p \in Process, NEW outcome \in Outcome, MethodReturns(p, outcome)
      PROVE  LeafInv'
  BY <1>6, MethodReturnsLeaf
<1>7. CASE UNCHANGED vars
  BY <1>7, StutterLeaf
<1>8. QED  BY <1>1, <1>2, <1>3, <1>4, <1>5, <1>6, <1>7 DEF Next

\* A service runs no method twice for one call, whatever is refused, times out,
\* reconnects, crashes or is started again in between (OnIncomingInvoke).
THEOREM MethodsRunOnce ==
  ASSUME LeafServices
  PROVE  Spec => []RunsOnce
<1>1. TypeInv /\ LeafInv /\ [Next]_vars => (TypeInv /\ LeafInv)'
  BY TypeInvStep, LeafInvStep
<1>2. LeafInv => RunsOnce
  BY DEF LeafInv
<1>3. QED  BY <1>1, <1>2, TypeInvInit, LeafInvInit, PTL DEF Spec

\* A caller is told what became of its own call, although calls and answers carry
\* no more than serials that the two ends count each for itself, parsers stay in
\* the table, and processes of one image take each other's connection objects
\* (OnIncomingResult, OnIncomingException, WaitResponse).
THEOREM CallersToldOwnAnswer ==
  ASSUME LeafServices
  PROVE  Spec => []OwnAnswer
<1>1. TypeInv /\ LeafInv /\ [Next]_vars => (TypeInv /\ LeafInv)'
  BY TypeInvStep, LeafInvStep
<1>2. LeafInv => OwnAnswer
  BY DEF LeafInv
<1>3. QED  BY <1>1, <1>2, TypeInvInit, LeafInvInit, PTL DEF Spec

------------------------------------------------------------------------------
\* What the steps are to RemoteCall

RemoteStep == ToRemoteCall!Next \/ UNCHANGED ToRemoteCall!callVars

\* A service that ends loses the method it runs; its caller's call never has an
\* outcome.
RunLost(C, D) ==
  /\ DOMAIN D = DOMAIN C
  /\ \A c \in DOMAIN C :
       /\ D[c].answer = C[c].answer
       /\ D[c].run # C[c].run => C[c].run = "running" /\ D[c].run = "lost"
LossStep == RunLost(calls, calls') /\ \E q \in Mortal \cap Services : Crash(q)

LEMMA SameRemote ==
  ASSUME DOMAIN calls' = DOMAIN calls,
         \A c \in DOMAIN calls : calls'[c].run = calls[c].run /\ calls'[c].answer = calls[c].answer
  PROVE  RemoteStep
<1>1. /\ [c \in DOMAIN calls' |-> calls'[c].run] = [c \in DOMAIN calls |-> calls[c].run]
      /\ [c \in DOMAIN calls' |-> calls'[c].answer] = [c \in DOMAIN calls |-> calls[c].answer]
  OBVIOUS
<1>2. QED  BY <1>1 DEF RemoteStep, ToRemoteCall!callVars

LEMMA OneRuns ==
  ASSUME NEW C, NEW D, NEW c \in DOMAIN C, NEW run, Kept(C, D, {c}), DOMAIN D = DOMAIN C,
         \A d \in DOMAIN C : D[d].answer = C[d].answer, D[c].run = run
  PROVE  /\ [d \in DOMAIN D |-> D[d].run] = [[d \in DOMAIN C |-> C[d].run] EXCEPT ![c] = run]
         /\ [d \in DOMAIN D |-> D[d].answer] = [d \in DOMAIN C |-> C[d].answer]
<1>1. \A d \in DOMAIN C : d # c => D[d].run = C[d].run
  BY DEF Kept
<1>2. QED  BY <1>1

LEMMA AppendIs ==
  ASSUME NEW T, NEW n \in Nat, NEW s \in [1 .. n -> T], NEW x \in T
  PROVE  Append(s, x) = [c \in 1 .. n + 1 |-> IF c = n + 1 THEN x ELSE s[c]]
<1>1. s \in Seq(T) /\ Len(s) = n
  <2>1. s \in Seq(T)
    BY SeqDef
  <2>2. DOMAIN s = 1 .. Len(s) /\ Len(s) \in Nat
    BY <2>1, LenProperties
  <2>3. QED  BY <2>1, <2>2
<1>2. PICK t : t = Append(s, x)
  OBVIOUS
<1>3. /\ t \in Seq(T) /\ Len(t) = n + 1 /\ \A c \in 1 .. n : t[c] = s[c]
      /\ t[n + 1] = x
  BY <1>1, <1>2, AppendProperties
<1>4. t \in [1 .. n + 1 -> T]
  BY <1>3, LenProperties
<1>5. \A c \in 1 .. n + 1 : t[c] = IF c = n + 1 THEN x ELSE s[c]
  <2>1. \A c \in 1 .. n + 1 : c # n + 1 => c \in 1 .. n
    OBVIOUS
  <2>2. QED  BY <1>3, <2>1
<1>6. QED  BY <1>2, <1>4, <1>5

LEMMA InvokeRemote ==
  ASSUME TypeInv, NEW p \in Process, NEW q \in Process, Invoke(p, q)
  PROVE  RemoteStep
<1> PICK n \in Nat : n = Len(calls)
  BY LenProperties DEF TypeInv, CallsType
<1> PICK call : call = Len(calls) + 1
  OBVIOUS
<1> PICK runs : runs = [c \in DOMAIN calls |-> calls[c].run]
  OBVIOUS
<1> PICK answers : answers = [c \in DOMAIN calls |-> calls[c].answer]
  OBVIOUS
<1>1. calls' = Append(calls, [from |-> p, to |-> q, runs |-> 0, run |-> "sent",
                              answer |-> Unanswered])
  BY DEF Invoke
<1>2. /\ DOMAIN calls' = DOMAIN calls \cup {call} /\ call \notin DOMAIN calls
      /\ \A c \in DOMAIN calls : calls'[c] = calls[c]
      /\ calls'[call] = [from |-> p, to |-> q, runs |-> 0, run |-> "sent", answer |-> Unanswered]
  BY <1>1, CallMade
<1>3. calls'[call].run = "sent" /\ calls'[call].answer = Unanswered
  BY <1>2
<1>4. DOMAIN calls = 1 .. n /\ DOMAIN calls' = 1 .. n + 1 /\ call = n + 1
  <2>1. DOMAIN calls = 1 .. n
    BY LenProperties DEF TypeInv, CallsType
  <2>2. QED  BY <1>2, <2>1
<1>5. /\ runs \in [1 .. n -> {"sent", "running", "lost"} \cup Outcome]
      /\ answers \in [1 .. n -> ParserType]
      /\ "sent" \in {"sent", "running", "lost"} \cup Outcome /\ Unanswered \in ParserType
  BY <1>4, CallIs, UnansweredType
<1>6. Append(runs, "sent") = [c \in 1 .. n + 1 |-> IF c = n + 1 THEN "sent" ELSE runs[c]]
  BY <1>5, AppendIs
<1>7. Append(answers, Unanswered) =
        [c \in 1 .. n + 1 |-> IF c = n + 1 THEN Unanswered ELSE answers[c]]
  BY <1>5, AppendIs
<1>8. \A c \in 1 .. n + 1 :
        /\ calls'[c].run = IF c = n + 1 THEN "sent" ELSE runs[c]
        /\ calls'[c].answer = IF c = n + 1 THEN Unanswered ELSE answers[c]
  <2>1. \A c \in DOMAIN calls : runs[c] = calls[c].run /\ answers[c] = calls[c].answer
    OBVIOUS
  <2>2. \A c \in 1 .. n + 1 : c # n + 1 => c \in 1 .. n
    OBVIOUS
  <2>3. QED  BY <1>2, <1>3, <1>4, <2>1, <2>2
<1>9. [c \in DOMAIN calls' |-> calls'[c].run] = Append(runs, "sent")
  BY <1>4, <1>6, <1>8
<1>10. [c \in DOMAIN calls' |-> calls'[c].answer] = Append(answers, Unanswered)
  BY <1>4, <1>7, <1>8
<1>11. QED
  BY <1>9, <1>10 DEF RemoteStep, ToRemoteCall!Next, ToRemoteCall!Call, ToRemoteCall!Unanswered,
    Unanswered


\* The run of one call goes on.
LEMMA RunRemote ==
  ASSUME TypeInv, NEW c \in DOMAIN calls, NEW run, Kept(calls, calls', {c}),
         DOMAIN calls' = DOMAIN calls, \A d \in DOMAIN calls : calls'[d].answer = calls[d].answer,
         calls'[c].run = run,
         \/ calls[c].run = "sent" /\ run \in {"running", "exception"}
         \/ calls[c].run = "running" /\ run \in Outcome
  PROVE  RemoteStep
<1> PICK runs : runs = [d \in DOMAIN calls |-> calls[d].run]
  OBVIOUS
<1> PICK answers : answers = [d \in DOMAIN calls |-> calls[d].answer]
  OBVIOUS
<1>1. /\ [d \in DOMAIN calls' |-> calls'[d].run] = [runs EXCEPT ![c] = run]
      /\ [d \in DOMAIN calls' |-> calls'[d].answer] = answers
  BY OneRuns
<1>2. c \in DOMAIN runs /\ runs[c] = calls[c].run
  OBVIOUS
<1>3. CASE calls[c].run = "sent" /\ run = "running"
  <2>1. ToRemoteCall!Execute(c)
    BY <1>1, <1>2, <1>3 DEF ToRemoteCall!Execute
  <2>2. QED  BY <1>2, <2>1 DEF RemoteStep, ToRemoteCall!Next
<1>4. CASE calls[c].run = "sent" /\ run = "exception"
  <2>1. ToRemoteCall!Refuse(c)
    BY <1>1, <1>2, <1>4 DEF ToRemoteCall!Refuse
  <2>2. QED  BY <1>2, <2>1 DEF RemoteStep, ToRemoteCall!Next
<1>5. CASE calls[c].run = "running" /\ run \in Outcome
  <2>1. ToRemoteCall!Complete(c)
    BY <1>1, <1>2, <1>5 DEF ToRemoteCall!Complete, ToRemoteCall!Outcome, Outcome
  <2>2. QED  BY <1>2, <2>1 DEF RemoteStep, ToRemoteCall!Next
<1>6. QED  BY <1>3, <1>4, <1>5

\* A caller is told, or gives up.
LEMMA AnswerRemote ==
  ASSUME TypeInv, NEW c \in DOMAIN calls, NEW answer, calls[c].answer = Unanswered,
         calls' = [calls EXCEPT ![c].answer = answer],
         \/ answer = [outcome |-> "timeout", of |-> c]
         \/ calls[c].run \in Outcome /\ answer = [outcome |-> calls[c].run, of |-> c]
  PROVE  RemoteStep
<1> PICK runs : runs = [d \in DOMAIN calls |-> calls[d].run]
  OBVIOUS
<1> PICK answers : answers = [d \in DOMAIN calls |-> calls[d].answer]
  OBVIOUS
<1>1. calls[c] \in CallType
  BY CallIs
<1>2. calls'[c] = [calls[c] EXCEPT !.answer = answer]
  OBVIOUS
<1>3. calls'[c].run = calls[c].run /\ calls'[c].answer = answer
  BY <1>1, <1>2 DEF CallType
<1>4. DOMAIN calls' = DOMAIN calls /\ \A d \in DOMAIN calls : d # c => calls'[d] = calls[d]
  OBVIOUS
<1>5. [d \in DOMAIN calls' |-> calls'[d].run] = runs
  BY <1>3, <1>4
<1>6. [d \in DOMAIN calls' |-> calls'[d].answer] = [answers EXCEPT ![c] = answer]
  BY <1>3, <1>4
<1>7. c \in DOMAIN runs /\ runs[c] = calls[c].run /\ answers[c] = calls[c].answer
  OBVIOUS
<1>8. CASE answer = [outcome |-> "timeout", of |-> c]
  <2>1. ToRemoteCall!GiveUp(c)
    BY <1>5, <1>6, <1>7, <1>8 DEF ToRemoteCall!GiveUp, ToRemoteCall!Unanswered, Unanswered
  <2>2. QED  BY <1>7, <2>1 DEF RemoteStep, ToRemoteCall!Next
<1>9. CASE calls[c].run \in Outcome /\ answer = [outcome |-> calls[c].run, of |-> c]
  <2>1. ToRemoteCall!Answer(c)
    BY <1>5, <1>6, <1>7, <1>9
       DEF ToRemoteCall!Answer, ToRemoteCall!Unanswered, ToRemoteCall!Outcome, Unanswered, Outcome
  <2>2. QED  BY <1>7, <2>1 DEF RemoteStep, ToRemoteCall!Next
<1>10. QED  BY <1>8, <1>9

LEMMA WaitReturnsRemote ==
  ASSUME TypeInv, LeafInv, NEW p \in Process, WaitReturns(p)
  PROVE  RemoteStep
<1> PICK c : c = Top(p).call
  OBVIOUS
<1> PICK answer : answer = Awaited(p)
  OBVIOUS
<1>1. /\ Waiting(p) /\ calls' = [calls EXCEPT ![Top(p).call].answer = Awaited(p)] /\ Pop(p)
      /\ UNCHANGED <<connections, sockets, requests, broken>>
  BY DEF WaitReturns
<1>2. answer # Unanswered
  BY DEF WaitReturns, Unanswered, Outcome
<1>3. /\ Top(p).call \in DOMAIN calls /\ calls[Top(p).call].answer = Unanswered
      /\ Awaited(p) # Unanswered =>
           /\ calls[Top(p).call].run \in Outcome
           /\ Awaited(p) = [outcome |-> calls[Top(p).call].run, of |-> Top(p).call]
  BY <1>1, WaitOver
<1>4. /\ c \in DOMAIN calls /\ calls[c].answer = Unanswered
      /\ calls[c].run \in Outcome /\ answer = [outcome |-> calls[c].run, of |-> c]
  BY <1>2, <1>3
<1>5. calls' = [calls EXCEPT ![c].answer = answer]
  BY <1>1
<1>6. QED  BY <1>4, <1>5, AnswerRemote

LEMMA WaitTimesOutRemote ==
  ASSUME TypeInv, LeafInv, NEW p \in Process, WaitTimesOut(p)
  PROVE  RemoteStep
<1> PICK c : c = Top(p).call
  OBVIOUS
<1> PICK answer : answer = [outcome |-> "timeout", of |-> c]
  OBVIOUS
<1>1. /\ Waiting(p) /\ calls' = [calls EXCEPT ![Top(p).call].answer = answer] /\ Pop(p)
      /\ UNCHANGED <<connections, sockets, requests, broken>>
  BY DEF WaitTimesOut
<1>2. answer.outcome \notin Outcome
  BY DEF Outcome
<1>3. c \in DOMAIN calls /\ calls[c].answer = Unanswered
  BY <1>1, <1>2, WaitOver
<1>4. calls' = [calls EXCEPT ![c].answer = answer]
  BY <1>1
<1>5. QED  BY <1>3, <1>4, AnswerRemote

LEMMA ServiceRemote ==
  ASSUME TypeInv, LeafInv, NEW q \in Process,
         \/ DispatchInvoke(q) \/ DispatchRefused(q) \/ DispatchAnswer(q)
         \/ \E outcome \in Outcome : MethodReturns(q, outcome)
  PROVE  RemoteStep
<1>1. CASE DispatchInvoke(q)
  <2>1. PICK c \in DOMAIN calls :
          /\ calls[c].run = "sent"
          /\ calls' = [calls EXCEPT ![c].run = "running", ![c].runs = @ + 1]
    BY <1>1, DispatchInvokeLeaf
  <2>2. calls[c].runs = 0
    BY <2>1 DEF LeafInv, HistoryInv
  <2>3. /\ Kept(calls, calls', {c}) /\ DOMAIN calls' = DOMAIN calls
        /\ \A d \in DOMAIN calls : calls'[d].answer = calls[d].answer
        /\ calls'[c].run = "running"
    BY <2>1, <2>2, RunStarts
  <2>4. QED  BY <2>1, <2>3, RunRemote
<1>2. CASE DispatchRefused(q)
  <2>1. CASE calls' = calls
    BY <2>1, SameRemote
  <2>2. CASE calls' # calls
    <3>1. PICK c \in DOMAIN calls :
            calls[c].run = "sent" /\ calls' = [calls EXCEPT ![c].run = "exception"]
      BY <1>2, <2>2, DispatchRefusedLeaf
    <3>2. calls[c].run \notin Outcome
      BY <3>1 DEF Outcome
    <3>3. /\ Kept(calls, calls', {c}) /\ DOMAIN calls' = DOMAIN calls
          /\ \A d \in DOMAIN calls : calls'[d].answer = calls[d].answer
          /\ calls'[c].run = "exception"
      BY <3>1, <3>2, RunSet
    <3>4. QED  BY <3>1, <3>3, RunRemote
  <2>3. QED  BY <2>1, <2>2
<1>3. CASE DispatchAnswer(q)
  <2>1. calls' = calls
    BY <1>3, DispatchAnswerLeaf
  <2>2. QED  BY <2>1, SameRemote
<1>4. ASSUME NEW outcome \in Outcome, MethodReturns(q, outcome) PROVE RemoteStep
  <2>1. PICK c \in DOMAIN calls :
          calls[c].run = "running" /\ calls' = [calls EXCEPT ![c].run = outcome]
    BY <1>4, MethodReturnsLeaf
  <2>2. calls[c].run \notin Outcome
    BY <2>1 DEF Outcome
  <2>3. /\ Kept(calls, calls', {c}) /\ DOMAIN calls' = DOMAIN calls
        /\ \A d \in DOMAIN calls : calls'[d].answer = calls[d].answer
        /\ calls'[c].run = outcome
    BY <2>1, <2>2, RunSet
  <2>4. QED  BY <2>1, <2>3, RunRemote
<1>5. QED  BY <1>1, <1>2, <1>3, <1>4

\* Only a service in a method loses one.
LEMMA EndsRemote ==
  ASSUME TypeInv, LeafInv, NEW p \in Process, Ends(p)
  PROVE  RunLost(calls, calls') /\ (~(p \in Services /\ InService(p)) => RemoteStep)
<1>1. Structure
  BY DEF LeafInv
<1>2. /\ DOMAIN calls' = DOMAIN calls
      /\ \A c \in DOMAIN calls :
           /\ calls'[c].answer = calls[c].answer
           /\ \/ calls'[c].run = calls[c].run
              \/ /\ calls'[c].run = "lost" /\ p \in Services /\ InService(p)
                 /\ c = stack[p][1].serving[1].call
  BY <1>1, EndsStructure
<1>3. p \in Services /\ InService(p) => calls[stack[p][1].serving[1].call].run = "running"
  BY DEF LeafInv, ServicesInv, ServiceInv
<1>4. RunLost(calls, calls')
  BY <1>2, <1>3 DEF RunLost
<1>5. ~(p \in Services /\ InService(p)) => RemoteStep
  BY <1>2, SameRemote
<1>6. QED  BY <1>4, <1>5

LEMMA StepsFollow ==
  ASSUME LeafServices, TypeInv, LeafInv, [Next]_vars
  PROVE  RemoteStep \/ LossStep
<1>1. ASSUME NEW p \in Process, NEW q \in Process, Invoke(p, q) PROVE RemoteStep
  BY <1>1, InvokeRemote
<1>2. ASSUME NEW p \in Process, NEW q \in Process,
             Release(p, q) \/ Output(p, q) \/ Input(p, q) \/ Hangup(p, q)
      PROVE  RemoteStep
  <2>1. calls' = calls
    BY <1>2 DEF Release, Output, Input, Hangup
  <2>2. QED  BY <2>1, SameRemote
<1>3. ASSUME NEW p \in Process, NEW n \in DOMAIN sockets, Accept(p, n) PROVE RemoteStep
  <2>1. calls' = calls
    BY <1>3 DEF Accept
  <2>2. QED  BY <2>1, SameRemote
<1>4. ASSUME NEW p \in Process, NEW n \in DOMAIN sockets, AcceptOrphan(p, n) PROVE RemoteStep
  <2>1. p \in Services /\ Ends(p) /\ Polling(p) /\ Structure
    BY <1>4, AcceptOrphanIs DEF AcceptOrphan, LeafInv
  <2>2. Len(stack[p]) = 0
    BY <2>1, PollingIs
  <2>3. ~InService(p)
    BY <2>2 DEF InService
  <2>4. QED  BY <2>1, <2>3, EndsRemote
<1>5. ASSUME NEW p \in Process, WaitReturns(p) \/ WaitTimesOut(p) PROVE RemoteStep
  BY <1>5, WaitReturnsRemote, WaitTimesOutRemote
<1>6. ASSUME NEW p \in Process,
             \/ DispatchInvoke(p) \/ DispatchRefused(p) \/ DispatchAnswer(p)
             \/ \E outcome \in Outcome : MethodReturns(p, outcome)
      PROVE  RemoteStep
  BY <1>6, ServiceRemote
<1>7. ASSUME NEW p \in Process, LoopEnds(p) PROVE RemoteStep
  <2>1. calls' = calls
    BY <1>7 DEF LoopEnds
  <2>2. QED  BY <2>1, SameRemote
<1>8. ASSUME NEW p \in Process, Crash(p) PROVE RemoteStep \/ LossStep
  <2>1. Ends(p) /\ p \in Mortal
    BY <1>8 DEF Crash
  <2>2. QED  BY <1>8, <2>1, EndsRemote DEF LossStep
<1>9. CASE UNCHANGED vars
  <2>1. calls' = calls
    BY <1>9 DEF vars
  <2>2. QED  BY <2>1, SameRemote
<1>10. QED
  BY <1>1, <1>2, <1>3, <1>4, <1>5, <1>6, <1>7, <1>8, <1>9 DEF Next

LEMMA InitFollows == Init => ToRemoteCall!Init
<1> SUFFICES ASSUME Init PROVE ToRemoteCall!Init
  OBVIOUS
<1>1. DOMAIN calls = {}
  BY DEF Init
<1>2. /\ [c \in DOMAIN calls |-> calls[c].run] = << >>
      /\ [c \in DOMAIN calls |-> calls[c].answer] = << >>
  BY <1>1
<1>3. QED  BY <1>2 DEF ToRemoteCall!Init

\* Every step of the bus is a step of RemoteCall or none at all, unless a service
\* ends in a method, and then the run is lost: its call is never executed again
\* and its caller is never told an outcome.
THEOREM CallsFollowRemoteCall ==
  ASSUME LeafServices
  PROVE  Spec => ToRemoteCall!Init /\ [][ToRemoteCall!Next \/ LossStep]_(ToRemoteCall!callVars)
<1>1. TypeInv /\ LeafInv /\ [Next]_vars => (TypeInv /\ LeafInv)'
  BY TypeInvStep, LeafInvStep
<1>2. TypeInv /\ LeafInv /\ [Next]_vars => [ToRemoteCall!Next \/ LossStep]_(ToRemoteCall!callVars)
  BY StepsFollow DEF RemoteStep
<1>3. QED  BY <1>1, <1>2, TypeInvInit, LeafInvInit, InitFollows, PTL DEF Spec

\* As long as only clients end, the bus is a RemoteCall (the safety part of
\* ImplementsRemoteCall): at most one execution of each call, and its outcome for
\* the caller.
THEOREM ImplementsRemoteCallSafety ==
  ASSUME LeafServices, Mortal \subseteq Clients
  PROVE  Spec => ToRemoteCall!Safety
<1>1. TypeInv /\ LeafInv /\ [Next]_vars => (TypeInv /\ LeafInv)'
  BY TypeInvStep, LeafInvStep
<1>2. ~LossStep
  BY Kinds DEF LossStep
<1>3. TypeInv /\ LeafInv /\ [Next]_vars => [ToRemoteCall!Next]_(ToRemoteCall!callVars)
  BY <1>2, StepsFollow DEF RemoteStep
<1>4. QED  BY <1>1, <1>3, TypeInvInit, LeafInvInit, InitFollows, PTL DEF Spec, ToRemoteCall!Safety

==============================================================================
