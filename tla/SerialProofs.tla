---------------------------- MODULE SerialProofs ----------------------------
(***************************************************************************)
(* The two ends of a connection count alike, for every network of clients   *)
(* and services that call nobody, as long as nothing is lost: nobody ended, *)
(* and no two clients are of one image.                                     *)
(***************************************************************************)
EXTENDS CallProofs

\* No two clients go by one name, so that no client takes another's connection.
NamesApart == \A p, r \in Clients : Image[p] = Image[r] => p = r

\* What u's loop over its connection to v has left.  A client waits below its loop.
Place(u) == IF u \in Clients THEN 2 ELSE 1
Reading(u, v) ==
  IF Len(stack[u]) = Place(u) /\ stack[u][Place(u)].peer = v THEN stack[u][Place(u)].rest ELSE << >>

\* Messages numbered one after the other, from f on.
Counts(s, f) == \A k \in 1 .. Len(s) : s[k].number + 1 = f + k

\* What is read, on the wire and queued are the messages from r up to w, w excluded.
Dense(r, w, a, b, c) ==
  /\ Counts(a, r) /\ Counts(b, r + Len(a)) /\ Counts(c, r + Len(a) + Len(b))
  /\ w = r + Len(a) + Len(b) + Len(c)

\* The messages from u's connection to v to x's connection to y, over the socket
\* between the client p and the service q.
Line(p, q, u, v, x, y) ==
  Dense(connections[x][y].readSerial, connections[u][v].writeSerial,
        Reading(x, y), OnWire(p, q, x), connections[u][v].writeQueue)
LinesInv ==
  \A p \in Clients, q \in Services :
    Line(p, q, p, q, q, Image[p]) /\ Line(p, q, q, Image[p], p, q)

\* A service has not used the connections it has no socket for.
Unused(c) == c.readSerial = 0 /\ c.writeSerial = 0 /\ c.writeQueue = << >>
UnusedInv == \A q \in Services, i \in Process : ~HasSocket(q, i) => Unused(connections[q][i])
AllUp == \A n \in DOMAIN sockets : sockets[n].up /\ ~sockets[n].orphan

SerialInv == AllUp /\ UnusedInv /\ LinesInv

------------------------------------------------------------------------------
\* Counting along a stream

LEMMA CountsAppend ==
  ASSUME NEW s \in Seq(MessageType), NEW f \in Nat, Counts(s, f), NEW m \in MessageType,
         NEW g, g = f + Len(s), m.number = g
  PROVE  Counts(Append(s, m), f)
<1>1. Len(s) \in Nat /\ Len(Append(s, m)) = Len(s) + 1
  BY LenProperties, AppendProperties
<1>2. ASSUME NEW k \in 1 .. Len(s) + 1 PROVE Append(s, m)[k].number + 1 = f + k
  <2>1. CASE k = Len(s) + 1
    <3>1. Append(s, m)[k] = m
      BY <1>1, <2>1, AppendProperties
    <3>2. QED  BY <1>1, <2>1, <3>1
  <2>2. CASE k # Len(s) + 1
    <3>1. k \in 1 .. Len(s)
      BY <1>1, <2>2
    <3>2. Append(s, m)[k] = s[k]
      BY <3>1, AppendProperties
    <3>3. QED  BY <3>1, <3>2 DEF Counts
  <2>3. QED  BY <2>1, <2>2
<1>3. QED  BY <1>1, <1>2 DEF Counts

LEMMA CountsTail ==
  ASSUME NEW s \in Seq(MessageType), s # << >>, NEW f \in Nat, Counts(s, f)
  PROVE  /\ Head(s) \in MessageType /\ Head(s).number = f
         /\ Tail(s) \in Seq(MessageType) /\ Len(s) = Len(Tail(s)) + 1 /\ Len(Tail(s)) \in Nat
         /\ Counts(Tail(s), f + 1)
<1>1. /\ Head(s) \in MessageType /\ Head(s) = s[1] /\ Tail(s) \in Seq(MessageType)
      /\ Len(Tail(s)) = Len(s) - 1 /\ Len(s) \in Nat \ {0}
      /\ \A k \in 1 .. Len(Tail(s)) : Tail(s)[k] = s[k + 1]
  BY EmptySeq, LenProperties, HeadTailProperties
<1>2. Len(s) = Len(Tail(s)) + 1 /\ Len(Tail(s)) \in Nat /\ 1 \in 1 .. Len(s)
  BY <1>1
<1>3. Head(s).number = f
  <2>1. Head(s).number \in Nat
    BY <1>1 DEF MessageType
  <2>2. Head(s).number + 1 = f + 1
    BY <1>1, <1>2 DEF Counts
  <2>3. QED  BY <2>1, <2>2
<1>4. ASSUME NEW k \in 1 .. Len(Tail(s)) PROVE Tail(s)[k].number + 1 = f + 1 + k
  <2>1. k + 1 \in 1 .. Len(s)
    BY <1>2
  <2>2. s[k + 1].number + 1 = f + (k + 1)
    BY <2>1 DEF Counts
  <2>3. Tail(s)[k] = s[k + 1]
    BY <1>1
  <2>4. QED  BY <2>2, <2>3
<1>5. QED  BY <1>1, <1>2, <1>3, <1>4 DEF Counts

LEMMA NothingCounted == \A f : Counts(<< >>, f) /\ Len(<< >>) = 0
  BY EmptySeq DEF Counts

LEMMA DenseSent ==
  ASSUME NEW r \in Nat, NEW w, NEW a \in Seq(MessageType), NEW b \in Seq(MessageType),
         NEW c \in Seq(MessageType), Dense(r, w, a, b, c), NEW m \in MessageType, m.number = w
  PROVE  Dense(r, w + 1, a, b, Append(c, m))
<1>1. Len(a) \in Nat /\ Len(b) \in Nat /\ Len(c) \in Nat /\ Len(Append(c, m)) = Len(c) + 1
  BY LenProperties, AppendProperties
<1>2. PICK f \in Nat : f = r + Len(a) + Len(b)
  BY <1>1
<1>3. Counts(c, f) /\ w = f + Len(c)
  BY <1>2 DEF Dense
<1>4. Counts(Append(c, m), f)
  BY <1>3, CountsAppend
<1>5. w + 1 = r + Len(a) + Len(b) + Len(Append(c, m))
  BY <1>1, <1>2, <1>3
<1>6. QED  BY <1>2, <1>4, <1>5 DEF Dense

LEMMA DenseTaken ==
  ASSUME NEW r \in Nat, NEW w, NEW a \in Seq(MessageType), NEW b \in Seq(MessageType),
         NEW c \in Seq(MessageType), Dense(r, w, a, b, c), a # << >>
  PROVE  Head(a).number = r /\ Dense(r + 1, w, Tail(a), b, c)
<1>1. Len(b) \in Nat /\ Len(c) \in Nat
  BY LenProperties
<1>2. Counts(a, r)
  BY DEF Dense
<1>3. /\ Head(a).number = r /\ Len(a) = Len(Tail(a)) + 1 /\ Len(Tail(a)) \in Nat
      /\ Counts(Tail(a), r + 1)
  BY <1>2, CountsTail
<1>4. /\ r + Len(a) = r + 1 + Len(Tail(a))
      /\ r + Len(a) + Len(b) = r + 1 + Len(Tail(a)) + Len(b)
      /\ r + Len(a) + Len(b) + Len(c) = r + 1 + Len(Tail(a)) + Len(b) + Len(c)
  BY <1>1, <1>3
<1>5. QED  BY <1>3, <1>4 DEF Dense

LEMMA DenseOut ==
  ASSUME NEW r \in Nat, NEW w, NEW a \in Seq(MessageType), NEW b \in Seq(MessageType),
         NEW c \in Seq(MessageType), Dense(r, w, a, b, c), c # << >>
  PROVE  Dense(r, w, a, Append(b, Head(c)), Tail(c))
<1> PICK h : h = Head(c)
  OBVIOUS
<1>1. Len(a) \in Nat /\ Len(b) \in Nat /\ Len(c) \in Nat
  BY LenProperties
<1>2. PICK f \in Nat : f = r + Len(a)
  BY <1>1
<1>3. PICK g \in Nat : g = f + Len(b)
  BY <1>1
<1>4. Counts(a, r) /\ Counts(b, f) /\ Counts(c, g) /\ w = g + Len(c)
  BY <1>2, <1>3 DEF Dense
<1>5. /\ h \in MessageType /\ h.number = g /\ Len(c) = Len(Tail(c)) + 1 /\ Len(Tail(c)) \in Nat
      /\ Counts(Tail(c), g + 1)
  BY <1>4, CountsTail
<1>6. Counts(Append(b, h), f) /\ Len(Append(b, h)) = Len(b) + 1
  BY <1>3, <1>4, <1>5, CountsAppend, AppendProperties
<1>7. /\ g + 1 = r + Len(a) + Len(Append(b, h))
      /\ w = r + Len(a) + Len(Append(b, h)) + Len(Tail(c))
  BY <1>1, <1>2, <1>3, <1>4, <1>5, <1>6
<1>8. QED  BY <1>2, <1>4, <1>5, <1>6, <1>7 DEF Dense

LEMMA DenseIn ==
  ASSUME NEW r \in Nat, NEW w, NEW b \in Seq(MessageType), NEW c \in Seq(MessageType),
         Dense(r, w, << >>, b, c)
  PROVE  Dense(r, w, b, << >>, c)
<1>1. Len(b) \in Nat /\ Len(c) \in Nat /\ Len(<< >>) = 0
  BY LenProperties, NothingCounted
<1>2. r + 0 = r /\ r + 0 + Len(b) = r + Len(b) /\ r + Len(b) + 0 = r + Len(b)
  BY <1>1
<1>3. QED  BY <1>1, <1>2, NothingCounted DEF Dense

------------------------------------------------------------------------------
\* A line whose wire stays as it is

\* What u may do with its connection to v: go on reading, or send one message.
Takes(u, v) ==
  \/ /\ Reading(u, v)' = Reading(u, v)
     /\ connections'[u][v].readSerial = connections[u][v].readSerial
  \/ /\ Reading(u, v) # << >> /\ Reading(u, v)' = Tail(Reading(u, v))
     /\ connections'[u][v].readSerial = connections[u][v].readSerial + 1
Puts(u, v) ==
  \/ /\ connections'[u][v].writeQueue = connections[u][v].writeQueue
     /\ connections'[u][v].writeSerial = connections[u][v].writeSerial
  \/ /\ connections'[u][v].writeSerial = connections[u][v].writeSerial + 1
     /\ \E m \in MessageType :
          /\ m.number = connections[u][v].writeSerial
          /\ connections'[u][v].writeQueue = Append(connections[u][v].writeQueue, m)

LEMMA PlaceIs ==
  /\ \A p \in Clients : Place(p) = 2
  /\ \A q \in Services : Place(q) = 1
  BY Kinds DEF Place

LEMMA ReadingType ==
  ASSUME TypeInv, Structure, NEW u \in Process, NEW v
  PROVE  Reading(u, v) \in Seq(MessageType)
<1>1. PICK k : k = Place(u)
  OBVIOUS
<1>2. ASSUME Len(stack[u]) = k PROVE stack[u][k].kind = "loop" /\ stack[u][k] \in FrameType
  <2>1. CASE u \in Clients
    <3>1. k = 2
      BY <1>1, <2>1, PlaceIs
    <3>2. stack[u][2].kind = "loop"
      BY <1>2, <2>1, <3>1 DEF Structure, StackShape, ClientStack
    <3>3. QED  BY <1>2, <3>1, <3>2, StackIs
  <2>2. CASE u \in Services
    <3>1. k = 1
      BY <1>1, <2>2, PlaceIs
    <3>2. stack[u][1].kind = "loop"
      BY <1>2, <2>2, <3>1 DEF Structure, StackShape, ServiceStack
    <3>3. QED  BY <1>2, <3>1, <3>2, StackIs
  <2>3. QED  BY <2>1, <2>2, Kinds
<1>3. << >> \in Seq(MessageType)
  BY EmptySeq
<1>4. QED  BY <1>1, <1>2, <1>3, FrameIs DEF Reading

LEMMA LineTypes ==
  ASSUME TypeInv, Structure, NEW p \in Clients, NEW q \in Services,
         NEW u \in Process, NEW v \in Process, NEW x \in {p, q}, NEW y \in Process
  PROVE  /\ connections[x][y].readSerial \in Nat /\ connections[u][v].writeSerial \in Nat
         /\ Reading(x, y) \in Seq(MessageType) /\ OnWire(p, q, x) \in Seq(MessageType)
         /\ connections[u][v].writeQueue \in Seq(MessageType)
<1>1. x \in Process
  BY Kinds
<1>2. Reading(x, y) \in Seq(MessageType)
  BY <1>1, ReadingType
<1>3. OnWire(p, q, x) \in Seq(MessageType)
  BY ViewTypes
<1>4. QED  BY <1>1, <1>2, <1>3, ConnectionIs

LEMMA LineKept ==
  ASSUME TypeInv, Structure, NEW p \in Clients, NEW q \in Services,
         NEW u \in Process, NEW v \in Process, NEW x \in {p, q}, NEW y \in Process,
         Line(p, q, u, v, x, y), Takes(x, y), Puts(u, v),
         OnWire(p, q, x)' = OnWire(p, q, x)
  PROVE  Line(p, q, u, v, x, y)'
<1> PICK r \in Nat : r = connections[x][y].readSerial
  BY LineTypes
<1> PICK w \in Nat : w = connections[u][v].writeSerial
  BY LineTypes
<1> PICK a \in Seq(MessageType) : a = Reading(x, y)
  BY LineTypes
<1> PICK b \in Seq(MessageType) : b = OnWire(p, q, x)
  BY LineTypes
<1> PICK c \in Seq(MessageType) : c = connections[u][v].writeQueue
  BY LineTypes
<1> PICK r1 : r1 = connections'[x][y].readSerial
  OBVIOUS
<1> PICK w1 : w1 = connections'[u][v].writeSerial
  OBVIOUS
<1> PICK a1 : a1 = Reading(x, y)'
  OBVIOUS
<1> PICK c1 : c1 = connections'[u][v].writeQueue
  OBVIOUS
<1>1. Dense(r, w, a, b, c)
  BY DEF Line
<1>2. Dense(r1, w, a1, b, c) /\ a1 \in Seq(MessageType) /\ r1 \in Nat
  <2>1. CASE a1 = a /\ r1 = r
    BY <1>1, <2>1
  <2>2. CASE a # << >> /\ a1 = Tail(a) /\ r1 = r + 1
    <3>1. Dense(r + 1, w, Tail(a), b, c)
      BY <1>1, <2>2, DenseTaken
    <3>2. Tail(a) \in Seq(MessageType)
      BY <2>2, HeadTailProperties
    <3>3. QED  BY <2>2, <3>1, <3>2
  <2>3. QED  BY <2>1, <2>2 DEF Takes
<1>3. Dense(r1, w1, a1, b, c1)
  <2>1. CASE c1 = c /\ w1 = w
    BY <1>2, <2>1
  <2>2. ASSUME NEW m \in MessageType, m.number = w, c1 = Append(c, m), w1 = w + 1
        PROVE  Dense(r1, w1, a1, b, c1)
    <3>1. Dense(r1, w + 1, a1, b, Append(c, m))
      BY <1>2, <2>2, DenseSent
    <3>2. QED  BY <2>2, <3>1
  <2>3. QED  BY <2>1, <2>2 DEF Puts
<1>4. OnWire(p, q, x)' = b
  OBVIOUS
<1>5. QED  BY <1>3, <1>4 DEF Line

\* Most steps leave the wires as they are.
LEMMA LinesKept ==
  ASSUME TypeInv, Structure, LinesInv,
         \A u, v \in Process : Takes(u, v) /\ Puts(u, v),
         \A p \in Clients, q \in Services : WireSame(p, q)
  PROVE  LinesInv'
<1> SUFFICES ASSUME NEW p \in Clients, NEW q \in Services
             PROVE  Line(p, q, p, q, q, Image[p])' /\ Line(p, q, q, Image[p], p, q)'
  BY DEF LinesInv
<1> PICK i \in Process : i = Image[p]
  BY Kinds
<1>1. /\ p \in Process /\ q \in Process /\ p \in {p, q} /\ q \in {p, q}
      /\ Line(p, q, p, q, q, i) /\ Line(p, q, q, i, p, q)
      /\ OnWire(p, q, p)' = OnWire(p, q, p) /\ OnWire(p, q, q)' = OnWire(p, q, q)
  BY Kinds DEF LinesInv, WireSame
<1>2. /\ Takes(p, q) /\ Puts(p, q) /\ Takes(q, i) /\ Puts(q, i)
  BY <1>1
<1>3. Line(p, q, p, q, q, i)' /\ Line(p, q, q, i, p, q)'
  BY <1>1, <1>2, LineKept
<1>4. QED  BY <1>3

\* Who does nothing takes and puts nothing.
LEMMA Quiet ==
  ASSUME NEW u, NEW v, stack'[u] = stack[u], connections'[u][v] = connections[u][v]
  PROVE  Takes(u, v) /\ Puts(u, v)
  BY DEF Takes, Puts, Reading

\* A process acts on one of its connections.
LEMMA ActsOn ==
  ASSUME NEW u \in Process, NEW v \in Process,
         \A r \in Process \ {u} : stack'[r] = stack[r],
         \A r, y \in Process : <<r, y>> # <<u, v>> => connections'[r][y] = connections[r][y],
         \A y \in Process : y # v => Reading(u, y)' = Reading(u, y),
         Takes(u, v), Puts(u, v)
  PROVE  \A r, y \in Process : Takes(r, y) /\ Puts(r, y)
<1> SUFFICES ASSUME NEW r \in Process, NEW y \in Process PROVE Takes(r, y) /\ Puts(r, y)
  OBVIOUS
<1>1. CASE r # u
  BY <1>1, Quiet
<1>2. CASE r = u /\ y # v
  <2>1. connections'[r][y] = connections[r][y] /\ Reading(r, y)' = Reading(r, y)
    BY <1>2
  <2>2. QED  BY <2>1 DEF Takes, Puts
<1>3. CASE r = u /\ y = v
  BY <1>3
<1>4. QED  BY <1>1, <1>2, <1>3

------------------------------------------------------------------------------
\* Steps that leave the wires alone

LEMMA UnusedKept ==
  ASSUME UnusedInv,
         \A q \in Services, i \in Process :
           connections'[q][i] = connections[q][i] \/ connections'[q][i].socket # 0
  PROVE  UnusedInv'
  BY DEF UnusedInv, HasSocket

LEMMA WiresKept ==
  ASSUME sockets' = sockets,
         \A r, y \in Process : connections'[r][y].socket = connections[r][y].socket
  PROVE  \A p \in Clients, q \in Services : WireSame(p, q)
<1> SUFFICES ASSUME NEW p \in Clients, NEW q \in Services PROVE WireSame(p, q)
  OBVIOUS
<1>1. connections'[p][q].socket = connections[p][q].socket
  BY Kinds
<1>2. HasSocket(p, q) => SocketOf(p, q)'.wire = SocketOf(p, q).wire
  BY <1>1 DEF SocketOf
<1>3. QED  BY <1>1, <1>2, WireSides

\* A client sends a request, perhaps over a new socket.
LEMMA AskedSerial ==
  ASSUME TypeInv, Structure, SerialInv, NEW p \in Clients, NEW q \in Services,
         NEW type \in Request, NEW call \in Nat,
         SendOn(p, q, connections[p][q], Message(type, 0, call)),
         \A r \in Process \ {p} : stack'[r] = stack[r],
         Len(stack[p]) # 2, Len(stack'[p]) # 2
  PROVE  SerialInv'
<1>1. p \in Process /\ q \in Process
  BY Kinds
<1>2. PICK m : m = Asked(p, q, type, call)
  OBVIOUS
<1>3. /\ m \in MessageType
      /\ connections'[p][q].writeQueue = Append(connections[p][q].writeQueue, m)
      /\ connections'[p][q].writeSerial = connections[p][q].writeSerial + 1
      /\ \A r, y \in Process : <<r, y>> # <<p, q>> => connections'[r][y] = connections[r][y]
      /\ \A r \in Clients, y \in Services : WireSame(r, y)
  <2>1. \A y \in Services : stack'[y] = stack[y]
    BY Kinds
  <2>2. QED  BY <1>2, <2>1, AskedViews DEF Queued, Sends
<1>4. m.number = connections[p][q].writeSerial
  BY <1>2 DEF Asked, Numbered
<1>5. /\ connections'[p][q].readSerial = connections[p][q].readSerial
      /\ sockets' = sockets \/ /\ sockets' \in Seq(SocketType)
                               /\ Len(sockets') = Len(sockets) + 1
                               /\ sockets'[Len(sockets) + 1] = NewSocket(p, q)
      /\ \A n \in DOMAIN sockets : sockets'[n] = sockets[n]
  <2>1. PICK c \in ConnectionType : c = connections[p][q]
    BY <1>1, ConnectionIs
  <2>2. c.socket = connections[p][q].socket /\ SendOn(p, q, c, Message(type, 0, call))
    BY <2>1
  <2>3. type \in Request \cup Outcome
    OBVIOUS
  <2>4. QED  BY <1>1, <2>1, <2>2, <2>3, Sent
<1>6. \A y \in Process : Reading(p, y) = << >> /\ Reading(p, y)' = << >>
  BY PlaceIs DEF Reading
<1>7. Takes(p, q) /\ Puts(p, q)
  BY <1>1, <1>3, <1>4, <1>5, <1>6 DEF Takes, Puts
<1>8. \A r, y \in Process : Takes(r, y) /\ Puts(r, y)
  <2>1. \A y \in Process : y # q => Reading(p, y)' = Reading(p, y)
    BY <1>6
  <2>2. QED  BY <1>1, <1>3, <1>7, <2>1, ActsOn
<1>9. LinesInv'
  BY <1>3, <1>8, LinesKept DEF SerialInv
<1>10. AllUp'
  <2>1. CASE sockets' = sockets
    BY <2>1 DEF SerialInv, AllUp
  <2>2. CASE /\ sockets' \in Seq(SocketType) /\ Len(sockets') = Len(sockets) + 1
             /\ sockets'[Len(sockets) + 1] = NewSocket(p, q)
    <3>1. /\ Len(sockets) \in Nat /\ DOMAIN sockets = 1 .. Len(sockets)
          /\ DOMAIN sockets' = 1 .. Len(sockets) + 1
      BY <1>1, <2>2, ConnectionIs, LenProperties
    <3>2. ASSUME NEW n \in DOMAIN sockets' PROVE sockets'[n].up /\ ~sockets'[n].orphan
      <4>1. CASE n \in DOMAIN sockets
        BY <1>5, <4>1 DEF SerialInv, AllUp
      <4>2. CASE n \notin DOMAIN sockets
        <5>1. n = Len(sockets) + 1
          BY <3>1, <4>2
        <5>2. QED  BY <2>2, <5>1 DEF NewSocket
      <4>3. QED  BY <4>1, <4>2
    <3>3. QED  BY <3>2 DEF AllUp
  <2>3. QED  BY <1>5, <2>1, <2>2
<1>11. UnusedInv'
  <2>1. \A y \in Services, i \in Process : connections'[y][i] = connections[y][i]
    BY <1>3, Kinds
  <2>2. QED  BY <2>1, UnusedKept DEF SerialInv
<1>12. QED  BY <1>9, <1>10, <1>11 DEF SerialInv

LEMMA InvokeSerial ==
  ASSUME LeafServices, TypeInv, LeafInv, SerialInv,
         NEW p \in Process, NEW q \in Process, Invoke(p, q)
  PROVE  SerialInv'
<1>1. Structure
  BY DEF LeafInv
<1>2. /\ p \in Clients /\ q \in Services /\ Len(stack[p]) = 0 /\ Len(stack'[p]) = 1
      /\ \A r \in Process \ {p} : stack'[r] = stack[r]
  BY <1>1, InvokeStructure
<1>3. PICK call \in Nat : call = Len(calls) + 1
  BY LenProperties DEF TypeInv, CallsType
<1>4. PICK type \in Request : type = "invoke"
  BY DEF Request
<1>5. SendOn(p, q, connections[p][q], Message(type, 0, call))
  BY <1>3, <1>4 DEF Invoke
<1>6. Len(stack[p]) # 2 /\ Len(stack'[p]) # 2
  BY <1>2
<1>7. QED  BY <1>1, <1>2, <1>5, <1>6, AskedSerial

LEMMA ReleaseSerial ==
  ASSUME LeafServices, TypeInv, LeafInv, SerialInv,
         NEW p \in Process, NEW q \in Process, Release(p, q)
  PROVE  SerialInv'
<1>1. Structure
  BY DEF LeafInv
<1>2. p \in Clients /\ q \in Services /\ Len(stack[p]) = 0
  BY <1>1, ReleaseStructure
<1>3. PICK type \in Request : type = "release"
  BY DEF Request
<1>4. SendOn(p, q, connections[p][q], Message(type, 0, 0)) /\ stack' = stack
  BY <1>3 DEF Release
<1>5. \A r : stack'[r] = stack[r]
  BY <1>4
<1>6. Len(stack[p]) # 2 /\ Len(stack'[p]) # 2 /\ 0 \in Nat
  <2>1. Len(stack'[p]) = Len(stack[p])
    BY <1>5
  <2>2. QED  BY <1>2, <2>1
<1>7. QED  BY <1>1, <1>2, <1>4, <1>5, <1>6, AskedSerial

\* Whatever a process does with one of its sockets left alone.
LEMMA ActSerial ==
  ASSUME TypeInv, Structure, SerialInv, NEW u \in Process, NEW v \in Process,
         \A r \in Process \ {u} : stack'[r] = stack[r],
         \A r, y \in Process : <<r, y>> # <<u, v>> => connections'[r][y] = connections[r][y],
         connections'[u][v].socket = connections[u][v].socket, sockets' = sockets,
         u \in Services => connections[u][v].socket # 0,
         \A y \in Process : y # v => Reading(u, y)' = Reading(u, y),
         Takes(u, v), Puts(u, v)
  PROVE  SerialInv'
<1>1. \A r, y \in Process : Takes(r, y) /\ Puts(r, y)
  BY ActsOn
<1>2. \A r, y \in Process : connections'[r][y].socket = connections[r][y].socket
  OBVIOUS
<1>3. \A p \in Clients, q \in Services : WireSame(p, q)
  BY <1>2, WiresKept
<1>4. LinesInv'
  BY <1>1, <1>3, LinesKept DEF SerialInv
<1>5. UnusedInv'
  <2>1. ASSUME NEW q \in Services, NEW i \in Process
        PROVE  connections'[q][i] = connections[q][i] \/ connections'[q][i].socket # 0
    BY Kinds
  <2>2. QED  BY <2>1, UnusedKept DEF SerialInv
<1>6. QED  BY <1>4, <1>5 DEF SerialInv, AllUp

LEMMA TurnSerial ==
  ASSUME TypeInv, Structure, SerialInv, NEW q \in Services, NEW i \in Process, TurnOf(q, i),
         Takes(q, i), Puts(q, i)
  PROVE  SerialInv'
<1>1. \A y \in Process : y # i => Reading(q, y)' = Reading(q, y)
  BY PlaceIs DEF Reading, TurnOf
<1>2. q \in Process
  BY Kinds
<1>3. /\ \A r \in Process \ {q} : stack'[r] = stack[r]
      /\ \A r, y \in Process : <<r, y>> # <<q, i>> => connections'[r][y] = connections[r][y]
      /\ connections'[q][i].socket = connections[q][i].socket /\ sockets' = sockets
      /\ connections[q][i].socket # 0
  BY DEF TurnOf
<1>4. QED  BY <1>1, <1>2, <1>3, ActSerial

LEMMA DispatchInvokeSerial ==
  ASSUME TypeInv, LeafInv, SerialInv, NEW q \in Process, DispatchInvoke(q)
  PROVE  SerialInv'
<1>1. Structure
  BY DEF LeafInv
<1>2. q \in Services
  <2>1. Turn(q, {"invoke"})
    BY DEF DispatchInvoke
  <2>2. ASSUME q \in Clients PROVE FALSE
    <3>1. Head(stack[q][2].rest).type \in {"invoke"} /\ Head(stack[q][2].rest).type \in Outcome
      BY <2>1, <2>2, ClientTurn
    <3>2. QED  BY <3>1 DEF Outcome
  <2>3. QED  BY <2>2, Kinds
<1> PICK i : i = stack[q][1].peer
  OBVIOUS
<1> PICK rest : rest = stack[q][1].rest
  OBVIOUS
<1>3. /\ Structure' /\ Len(stack[q]) = 1 /\ Len(stack'[q]) = 1
      /\ i \in Process /\ rest # << >>
      /\ connections[q][i].socket # 0 /\ stack'[q][1].peer = i
      /\ stack'[q][1].rest = Tail(rest)
      /\ \A r \in Process \ {q} : stack'[r] = stack[r]
      /\ \A r, y \in Process : <<r, y>> # <<q, i>> => connections'[r][y] = connections[r][y]
      /\ connections'[q][i].socket = connections[q][i].socket
      /\ connections'[q][i].writeSerial = connections[q][i].writeSerial
      /\ connections'[q][i].writeQueue = connections[q][i].writeQueue
      /\ connections'[q][i].readSerial = connections[q][i].readSerial + 1
      /\ sockets' = sockets
  BY <1>1, <1>2, DispatchInvokeStructure
<1>4. TurnOf(q, i)
  BY <1>3 DEF TurnOf
<1>5. Reading(q, i) = rest /\ Reading(q, i)' = Tail(rest)
  BY <1>2, <1>3, PlaceIs DEF Reading
<1>6. Takes(q, i) /\ Puts(q, i)
  BY <1>3, <1>5 DEF Takes, Puts
<1>7. QED  BY <1>1, <1>2, <1>3, <1>4, <1>6, TurnSerial

LEMMA DispatchRefusedSerial ==
  ASSUME TypeInv, LeafInv, SerialInv, NEW q \in Process, DispatchRefused(q)
  PROVE  SerialInv'
<1>1. Structure
  BY DEF LeafInv
<1>2. Turn(q, Request)
  BY DEF DispatchRefused
<1>3. q \in Services
  <2>1. ASSUME q \in Clients PROVE FALSE
    <3>1. Head(stack[q][2].rest).type \in Request /\ Head(stack[q][2].rest).type \in Outcome
      BY <1>2, <2>1, ClientTurn
    <3>2. QED  BY <3>1, Apart
  <2>2. QED  BY <2>1, Kinds
<1> PICK i : i = stack[q][1].peer
  OBVIOUS
<1> PICK h : h = Current(q)
  OBVIOUS
<1> PICK m : m = Refusal(q, i, h)
  OBVIOUS
<1>4. /\ TurnOf(q, i) /\ stack'[q][1].rest = Rest(q) /\ stack'[q][1].serving = << >>
      /\ connections'[q][i].readSerial = connections[q][i].readSerial + 1
      /\ connections'[q][i].writeSerial = connections[q][i].writeSerial + 1
      /\ connections'[q][i].writeQueue = Append(connections[q][i].writeQueue, m)
      /\ m \in MessageType /\ requests' = requests
  <2>1. Structure /\ TypeInv /\ q \in Services /\ DispatchRefused(q)
    BY <1>1, <1>3
  <2>2. i = stack[q][1].peer /\ h = Current(q) /\ m = Refusal(q, i, h)
    OBVIOUS
  <2>3. QED  BY <2>1, <2>2, RefusedTurn
<1>5. i \in Process /\ Rest(q) = Tail(stack[q][1].rest) /\ stack[q][1].rest # << >>
  BY <1>2, <1>3, ServiceTurn
<1>6. Reading(q, i) = stack[q][1].rest /\ Reading(q, i)' = Tail(stack[q][1].rest)
  BY <1>3, <1>4, <1>5, PlaceIs DEF Reading, TurnOf
<1>7. m.number = connections[q][i].writeSerial
  BY DEF Refusal, Numbered
<1>8. Takes(q, i) /\ Puts(q, i)
  BY <1>4, <1>5, <1>6, <1>7 DEF Takes, Puts
<1>9. QED  BY <1>1, <1>3, <1>4, <1>5, <1>8, TurnSerial

LEMMA MethodReturnsSerial ==
  ASSUME TypeInv, LeafInv, SerialInv, NEW q \in Process, NEW outcome \in Outcome,
         MethodReturns(q, outcome)
  PROVE  SerialInv'
<1>1. Structure
  BY DEF LeafInv
<1>2. q \in Services
  <2>1. Serving(q) /\ Looping(q)
    BY DEF MethodReturns, Serving
  <2>2. QED  BY <1>1, <2>1, LoopingIs, Kinds
<1> PICK i : i = stack[q][1].peer
  OBVIOUS
<1> PICK s : s = stack[q][1].serving[1]
  OBVIOUS
<1> PICK m : m = Reply(q, i, outcome, s)
  OBVIOUS
<1>3. /\ TurnOf(q, i) /\ i \in Process
      /\ stack[q][1].serving \in Seq(ServedType) /\ stack[q][1].serving # << >>
      /\ stack'[q][1].rest = stack[q][1].rest /\ stack'[q][1].serving = << >>
      /\ connections'[q][i].readSerial = connections[q][i].readSerial
      /\ connections'[q][i].writeSerial = connections[q][i].writeSerial + 1
      /\ connections'[q][i].writeQueue = Append(connections[q][i].writeQueue, m)
      /\ m \in MessageType /\ requests' = requests
  <2>1. Structure /\ TypeInv /\ q \in Services /\ MethodReturns(q, outcome)
    BY <1>1, <1>2
  <2>2. i = stack[q][1].peer /\ s = stack[q][1].serving[1] /\ m = Reply(q, i, outcome, s)
    OBVIOUS
  <2>3. QED  BY <2>1, <2>2, ReturnsTurn
<1>4. Reading(q, i)' = Reading(q, i)
  BY <1>2, <1>3, PlaceIs DEF Reading, TurnOf
<1>5. m.number = connections[q][i].writeSerial
  BY DEF Reply, Numbered
<1>6. Takes(q, i) /\ Puts(q, i)
  BY <1>3, <1>4, <1>5 DEF Takes, Puts
<1>7. QED  BY <1>1, <1>2, <1>3, <1>6, TurnSerial

LEMMA DispatchAnswerSerial ==
  ASSUME TypeInv, LeafInv, SerialInv, NEW p \in Process, DispatchAnswer(p)
  PROVE  SerialInv'
<1>1. Structure
  BY DEF LeafInv
<1>2. p \in Clients
  <2>1. Turn(p, Outcome)
    BY DEF DispatchAnswer
  <2>2. ASSUME p \in Services PROVE FALSE
    <3>1. Current(p).type \in Outcome /\ Current(p).type \in Request
      BY <2>1, <2>2, ServiceTurn
    <3>2. QED  BY <3>1, Apart
  <2>3. QED  BY <2>2, Kinds
<1> PICK q : q = stack[p][2].peer
  OBVIOUS
<1> PICK rest : rest = stack[p][2].rest
  OBVIOUS
<1>3. /\ Len(stack[p]) = 2 /\ Len(stack'[p]) = 2 /\ q \in Services /\ rest # << >>
      /\ stack'[p][2].peer = q /\ stack'[p][2].rest = Tail(rest)
      /\ \A r \in Process \ {p} : stack'[r] = stack[r]
      /\ \A r, y \in Process : <<r, y>> # <<p, q>> => connections'[r][y] = connections[r][y]
      /\ connections'[p][q].socket = connections[p][q].socket
      /\ connections'[p][q].writeSerial = connections[p][q].writeSerial
      /\ connections'[p][q].writeQueue = connections[p][q].writeQueue
      /\ connections'[p][q].readSerial = connections[p][q].readSerial + 1
      /\ sockets' = sockets
  BY <1>1, <1>2, DispatchAnswerStructure
<1>4. /\ Reading(p, q) = rest /\ Reading(p, q)' = Tail(rest)
      /\ \A y \in Process : y # q => Reading(p, y)' = Reading(p, y)
  BY <1>2, <1>3, PlaceIs DEF Reading
<1>5. Takes(p, q) /\ Puts(p, q)
  BY <1>3, <1>4 DEF Takes, Puts
<1>6. p \notin Services /\ q \in Process
  BY <1>2, <1>3, Kinds
<1>7. QED  BY <1>1, <1>3, <1>4, <1>5, <1>6, ActSerial

\* The innermost frame goes: a wait, or a loop that has nothing left.
LEMMA PoppedSerial ==
  ASSUME SerialInv, TypeInv, Structure, NEW p \in Process, Len(stack'[p]) # Place(p),
         \A y \in Process : Reading(p, y) = << >>,
         \A r \in Process \ {p} : stack'[r] = stack[r],
         UNCHANGED <<connections, sockets>>
  PROVE  SerialInv'
<1>1. \A y \in Process : Reading(p, y)' = << >>
  BY DEF Reading
<1>2. ASSUME NEW u \in Process, NEW v \in Process PROVE Takes(u, v) /\ Puts(u, v)
  <2>1. CASE u = p
    BY <1>1, <2>1 DEF Takes, Puts
  <2>2. CASE u # p
    BY <2>2, Quiet
  <2>3. QED  BY <2>1, <2>2
<1>3. \A r \in Clients, y \in Services : WireSame(r, y)
  BY WiresKept
<1>4. LinesInv'
  BY <1>2, <1>3, LinesKept DEF SerialInv
<1>5. UnusedInv' /\ AllUp'
  BY UnusedKept DEF SerialInv, AllUp
<1>6. QED  BY <1>4, <1>5 DEF SerialInv

LEMMA WaitOverSerial ==
  ASSUME TypeInv, LeafInv, SerialInv, NEW p \in Process, WaitReturns(p) \/ WaitTimesOut(p)
  PROVE  SerialInv'
<1>1. Structure /\ Waiting(p) /\ Pop(p) /\ UNCHANGED <<connections, sockets>>
  BY DEF LeafInv, WaitReturns, WaitTimesOut
<1>2. p \in Clients /\ Len(stack[p]) = 1 /\ ~Idle(p)
  BY <1>1, WaitingIs
<1>3. Len(stack'[p]) = Len(stack[p]) - 1 /\ \A r \in Process \ {p} : stack'[r] = stack[r]
  BY <1>1, <1>2, Popped
<1>4. Place(p) = 2 /\ Len(stack'[p]) = 0
  BY <1>2, <1>3, PlaceIs
<1>5. Len(stack'[p]) # Place(p) /\ \A y \in Process : Reading(p, y) = << >>
  BY <1>2, <1>4 DEF Reading
<1>6. QED  BY <1>1, <1>3, <1>5, PoppedSerial

LEMMA LoopEndsSerial ==
  ASSUME TypeInv, LeafInv, SerialInv, NEW p \in Process, LoopEnds(p)
  PROVE  SerialInv'
<1>1. /\ Structure /\ Looping(p) /\ Top(p).rest = << >> /\ Pop(p)
      /\ UNCHANGED <<connections, sockets>>
  BY DEF LeafInv, LoopEnds
<1>2. ~Idle(p) /\ Len(stack[p]) = Place(p) /\ stack[p][Place(p)] = Top(p)
  BY <1>1, LoopingIs, PlaceIs, Kinds
<1>3. Len(stack'[p]) = Len(stack[p]) - 1 /\ \A r \in Process \ {p} : stack'[r] = stack[r]
  BY <1>1, <1>2, Popped
<1>4. Place(p) \in Nat
  BY PlaceIs, Kinds
<1>5. Len(stack'[p]) # Place(p)
  BY <1>2, <1>3, <1>4
<1>6. \A y \in Process : Reading(p, y) = << >>
  BY <1>1, <1>2 DEF Reading
<1>7. QED  BY <1>1, <1>3, <1>5, <1>6, PoppedSerial

------------------------------------------------------------------------------
\* The socket between two ends

\* A connection that has a socket has the one of a client and a service.
LEMMA PairIs ==
  ASSUME TypeInv, Structure, AllUp, NEW u \in Process, NEW v \in Process, HasSocket(u, v),
         NEW n, n = connections[u][v].socket
  PROVE  /\ n \in DOMAIN sockets /\ sockets[n].up
         /\ sockets[n].from \in Clients /\ sockets[n].to \in Services
         /\ connections[sockets[n].from][sockets[n].to].socket = n
         /\ u \in Clients =>
              u = sockets[n].from /\ v = sockets[n].to /\ OtherEnd(u, v) = sockets[n].to
         /\ u \in Services =>
              /\ u = sockets[n].to /\ v = Image[sockets[n].from]
              /\ OtherEnd(u, v) = sockets[n].from
<1>1. /\ n \in DOMAIN sockets /\ SocketOK(n)
      /\ u \in Clients => /\ sockets[n].from = u /\ sockets[n].to = v
                          /\ OtherEnd(u, v) = v
      /\ u \in Services => /\ sockets[n].to = u /\ Image[sockets[n].from] = v
                           /\ OtherEnd(u, v) = sockets[n].from
  BY EndIs
<1>2. sockets[n].up
  BY <1>1 DEF AllUp
<1>3. QED  BY <1>1, <1>2, Kinds DEF SocketOK

\* Every socket is held by the client it connects.
LEMMA AllHeld ==
  ASSUME Structure, AllUp, NEW n \in DOMAIN sockets
  PROVE  connections[sockets[n].from][sockets[n].to].socket = n
<1>1. SocketOK(n) /\ sockets[n].up
  BY DEF Structure, SocketsInv, AllUp
<1>2. QED  BY <1>1 DEF SocketOK

\* With names apart, u's connection to v belongs to no other pair.
LEMMA PairOnly ==
  ASSUME NamesApart, TypeInv, Structure, AllUp, NEW u \in Process, NEW v \in Process,
         HasSocket(u, v), NEW n, n = connections[u][v].socket,
         NEW p \in Clients, NEW q \in Services, NEW i, i = Image[p]
  PROVE  /\ u = p /\ v = q =>
              sockets[n].from = p /\ sockets[n].to = q /\ OtherEnd(u, v) = q
         /\ u = q /\ v = i =>
              sockets[n].from = p /\ sockets[n].to = q /\ OtherEnd(u, v) = p
         /\ ~(u = p /\ v = q) /\ ~(u = q /\ v = i) =>
              sockets[n].from # p \/ sockets[n].to # q
<1>1. /\ sockets[n].from \in Clients
      /\ u \in Clients =>
           u = sockets[n].from /\ v = sockets[n].to /\ OtherEnd(u, v) = sockets[n].to
      /\ u \in Services =>
           /\ u = sockets[n].to /\ v = Image[sockets[n].from]
           /\ OtherEnd(u, v) = sockets[n].from
  BY PairIs
<1>2. u = q /\ v = i => sockets[n].from = p
  BY <1>1 DEF NamesApart
<1>3. QED  BY <1>1, <1>2, Kinds

\* Nothing but the wire to x of socket n changes.
WireMoves(n, x) == \E w : WireIs(n, x, w)

\* What changes on the wire between p and q when that of u's connection to v does.
LEMMA WireTo ==
  ASSUME NamesApart, TypeInv, Structure, AllUp, NEW u \in Process, NEW v \in Process,
         HasSocket(u, v), NEW n, n = connections[u][v].socket, NEW x \in Process,
         WireMoves(n, x), \A r, y \in Process : connections'[r][y].socket = connections[r][y].socket,
         NEW p \in Clients, NEW q \in Services, NEW i, i = Image[p]
  PROVE  /\ ~(u = p /\ v = q) /\ ~(u = q /\ v = i) => WireSame(p, q)
         /\ (u = p /\ v = q) \/ (u = q /\ v = i) =>
              /\ OnWire(p, q, x) = sockets[n].wire[x] /\ OnWire(p, q, x)' = sockets'[n].wire[x]
              /\ \A y \in Process : y # x => OnWire(p, q, y)' = OnWire(p, q, y)
<1>1. p \in Process /\ q \in Process
  BY Kinds
<1> PICK w : WireIs(n, x, w)
  BY DEF WireMoves
<1>2. n \in DOMAIN sockets
  BY PairIs
<1>8. connections[sockets[n].from][sockets[n].to].socket = n
  BY <1>2, AllHeld
<1>3. /\ (u = p /\ v = q) \/ (u = q /\ v = i) => sockets[n].from = p /\ sockets[n].to = q
      /\ ~(u = p /\ v = q) /\ ~(u = q /\ v = i) => sockets[n].from # p \/ sockets[n].to # q
  <2>1. i = Image[p]
    OBVIOUS
  <2>2. QED  BY <2>1, PairOnly
<1>4. connections'[p][q].socket = connections[p][q].socket
  BY <1>1
<1>5. ASSUME ~(u = p /\ v = q), ~(u = q /\ v = i) PROVE WireSame(p, q)
  <2>1. sockets[n].from # p \/ sockets[n].to # q
    BY <1>3, <1>5
  <2>2. QED  BY <1>2, <1>4, <2>1, WireElsewhere
<1>6. ASSUME (u = p /\ v = q) \/ (u = q /\ v = i)
      PROVE  /\ OnWire(p, q, x) = sockets[n].wire[x] /\ OnWire(p, q, x)' = sockets'[n].wire[x]
             /\ \A y \in Process : y # x => OnWire(p, q, y)' = OnWire(p, q, y)
  <2>1. connections[p][q].socket = n /\ n # 0
    BY <1>3, <1>6, <1>8 DEF HasSocket
  <2>2. connections'[p][q].socket = n
    BY <1>4, <2>1
  <2>3. /\ \A y : OnWire(p, q, y) = sockets[n].wire[y]
        /\ \A y : OnWire(p, q, y)' = sockets'[n].wire[y]
    BY <2>1, <2>2 DEF OnWire, HasSocket, SocketOf
  <2>4. ASSUME NEW y \in Process, y # x PROVE OnWire(p, q, y)' = OnWire(p, q, y)
    <3>1. sockets'[n].wire[y] = sockets[n].wire[y]
      BY <2>4 DEF WireIs
    <3>2. QED  BY <2>3, <3>1
  <2>5. QED  BY <2>3, <2>4
<1>7. QED  BY <1>5, <1>6

LEMMA UpKept ==
  ASSUME TypeInv, AllUp, NEW n \in DOMAIN sockets, NEW x, NEW w, WireSet(n, x, w)
  PROVE  AllUp'
<1>1. PICK s : s = [sockets[n] EXCEPT !.wire[x] = w]
  OBVIOUS
<1>2. sockets[n] \in SocketType
  BY SocketIs
<1>3. s.up = sockets[n].up /\ s.orphan = sockets[n].orphan
  BY <1>1, <1>2 DEF SocketType
<1>4. sockets' = [sockets EXCEPT ![n] = s]
  BY <1>1 DEF WireSet
<1>5. DOMAIN sockets' = DOMAIN sockets
  BY <1>4
<1>6. ASSUME NEW k \in DOMAIN sockets PROVE sockets'[k].up /\ ~sockets'[k].orphan
  <2>1. sockets[k].up /\ ~sockets[k].orphan
    BY DEF AllUp
  <2>2. CASE k = n
    BY <1>3, <1>4, <2>1, <2>2
  <2>3. CASE k # n
    BY <1>4, <2>1, <2>3
  <2>4. QED  BY <2>2, <2>3
<1>7. QED  BY <1>5, <1>6 DEF AllUp

------------------------------------------------------------------------------
\* Messages go onto the wire and come off it

LEMMA LineOut ==
  ASSUME TypeInv, Structure, NEW p \in Clients, NEW q \in Services,
         NEW u \in Process, NEW v \in Process, NEW x \in {p, q}, NEW y \in Process,
         Line(p, q, u, v, x, y), NEW c, c = connections[u][v].writeQueue, c # << >>,
         connections'[u][v].writeQueue = Tail(c),
         OnWire(p, q, x)' = Append(OnWire(p, q, x), Head(c)),
         connections'[u][v].writeSerial = connections[u][v].writeSerial,
         connections'[x][y].readSerial = connections[x][y].readSerial,
         Reading(x, y)' = Reading(x, y)
  PROVE  Line(p, q, u, v, x, y)'
<1> PICK r \in Nat : r = connections[x][y].readSerial
  BY LineTypes
<1> PICK w : w = connections[u][v].writeSerial
  OBVIOUS
<1> PICK a \in Seq(MessageType) : a = Reading(x, y)
  BY LineTypes
<1> PICK b \in Seq(MessageType) : b = OnWire(p, q, x)
  BY LineTypes
<1>1. c \in Seq(MessageType)
  BY LineTypes
<1>2. Dense(r, w, a, b, c)
  BY DEF Line
<1>3. Dense(r, w, a, Append(b, Head(c)), Tail(c))
  BY <1>1, <1>2, DenseOut
<1>4. OnWire(p, q, x)' = Append(b, Head(c)) /\ Reading(x, y)' = a
  OBVIOUS
<1>5. QED  BY <1>3, <1>4 DEF Line

LEMMA LineIn ==
  ASSUME TypeInv, Structure, NEW p \in Clients, NEW q \in Services,
         NEW u \in Process, NEW v \in Process, NEW x \in {p, q}, NEW y \in Process,
         Line(p, q, u, v, x, y), connections' = connections,
         Reading(x, y) = << >>, Reading(x, y)' = OnWire(p, q, x), OnWire(p, q, x)' = << >>
  PROVE  Line(p, q, u, v, x, y)'
<1> PICK r \in Nat : r = connections[x][y].readSerial
  BY LineTypes
<1> PICK w : w = connections[u][v].writeSerial
  OBVIOUS
<1> PICK b \in Seq(MessageType) : b = OnWire(p, q, x)
  BY LineTypes
<1> PICK c \in Seq(MessageType) : c = connections[u][v].writeQueue
  BY LineTypes
<1>1. Dense(r, w, << >>, b, c)
  BY DEF Line
<1>2. Dense(r, w, b, << >>, c)
  BY <1>1, DenseIn
<1>3. Reading(x, y)' = b
  OBVIOUS
<1>4. QED  BY <1>2, <1>3 DEF Line

LEMMA OutputSerial ==
  ASSUME NamesApart, TypeInv, LeafInv, SerialInv,
         NEW u \in Process, NEW v \in Process, Output(u, v)
  PROVE  SerialInv'
<1>1. Structure /\ AllUp /\ UnusedInv /\ LinesInv /\ HasSocket(u, v)
  BY DEF LeafInv, SerialInv, Output
<1> PICK n : n = connections[u][v].socket
  OBVIOUS
<1>10. PICK x : x = OtherEnd(u, v)
  OBVIOUS
<1>11. PICK c : c = connections[u][v].writeQueue
  OBVIOUS
<1>12. PICK w : w = Append(sockets[n].wire[x], Head(c))
  OBVIOUS
<1>2. /\ stack' = stack /\ n \in DOMAIN sockets /\ x \in Process /\ c # << >>
      /\ WireIs(n, x, w) /\ connections'[u][v].writeQueue = Tail(c)
      /\ \A r, y \in Process : <<r, y>> # <<u, v>> => connections'[r][y] = connections[r][y]
      /\ \A r, y \in Process :
           /\ connections'[r][y].socket = connections[r][y].socket
           /\ connections'[r][y].writeSerial = connections[r][y].writeSerial
           /\ connections'[r][y].readSerial = connections[r][y].readSerial
  <2>1. /\ Structure' /\ stack' = stack
        /\ n \in DOMAIN sockets /\ sockets[n].up /\ x \in Process
        /\ connections[u][v].writeQueue \in Seq(MessageType)
        /\ connections[u][v].writeQueue # << >>
        /\ sockets[n].wire[x] \in Seq(MessageType)
        /\ WireIs(n, x, Append(sockets[n].wire[x], Head(connections[u][v].writeQueue)))
        /\ connections'[u][v].writeQueue = Tail(connections[u][v].writeQueue)
        /\ \A r, y \in Process : <<r, y>> # <<u, v>> => connections'[r][y] = connections[r][y]
        /\ \A r, y \in Process :
             /\ connections'[r][y].socket = connections[r][y].socket
             /\ connections'[r][y].readTask = connections[r][y].readTask
             /\ connections'[r][y].writeSerial = connections[r][y].writeSerial
             /\ connections'[r][y].readSerial = connections[r][y].readSerial
    BY <1>1, <1>10, OutputStructure
  <2>2. WireIs(n, x, w)
    BY <2>1, <1>11, <1>12
  <2>3. QED  BY <2>1, <2>2, <1>11
<1>3. WireSet(n, x, w)
  BY <1>10, <1>11, <1>12 DEF Output, WireSet
<1>4. AllUp'
  BY <1>1, <1>2, <1>3, UpKept
<1>5. UnusedInv'
  <2>1. ASSUME NEW q \in Services, NEW i \in Process
        PROVE  connections'[q][i] = connections[q][i] \/ connections'[q][i].socket # 0
    BY <1>1, <1>2, Kinds DEF HasSocket
  <2>2. QED  BY <1>1, <2>1, UnusedKept
<1>6. ASSUME NEW r \in Process, NEW y \in Process
      PROVE  /\ Takes(r, y) /\ Reading(r, y)' = Reading(r, y)
             /\ ~(r = u /\ y = v) => Puts(r, y)
  <2>1. Reading(r, y)' = Reading(r, y)
    BY <1>2 DEF Reading
  <2>2. QED  BY <1>2, <2>1 DEF Takes, Puts
<1>7. ASSUME NEW p \in Clients, NEW q \in Services, NEW i, i = Image[p]
      PROVE  Line(p, q, p, q, q, i)' /\ Line(p, q, q, i, p, q)'
  <2>1. /\ p \in Process /\ q \in Process /\ i \in Process /\ p # q /\ q \notin Clients
        /\ p \in {p, q} /\ q \in {p, q}
        /\ Line(p, q, p, q, q, i) /\ Line(p, q, q, i, p, q)
    BY <1>1, <1>7, Kinds DEF LinesInv
  <2>2. /\ ~(u = p /\ v = q) /\ ~(u = q /\ v = i) => WireSame(p, q)
        /\ (u = p /\ v = q) \/ (u = q /\ v = i) =>
             /\ OnWire(p, q, x) = sockets[n].wire[x] /\ OnWire(p, q, x)' = w
             /\ \A y \in Process : y # x => OnWire(p, q, y)' = OnWire(p, q, y)
    <3>1. \A r, y \in Process : connections'[r][y].socket = connections[r][y].socket
      BY <1>2
    <3>2. WireMoves(n, x) /\ x \in Process /\ sockets'[n].wire[x] = w
      BY <1>2 DEF WireMoves, WireIs
    <3>3. /\ ~(u = p /\ v = q) /\ ~(u = q /\ v = i) => WireSame(p, q)
          /\ (u = p /\ v = q) \/ (u = q /\ v = i) =>
               /\ OnWire(p, q, x) = sockets[n].wire[x]
               /\ OnWire(p, q, x)' = sockets'[n].wire[x]
               /\ \A y \in Process : y # x => OnWire(p, q, y)' = OnWire(p, q, y)
      BY <1>1, <1>7, <3>1, <3>2, WireTo
    <3>4. QED  BY <3>2, <3>3
  <2>3. CASE ~(u = p /\ v = q) /\ ~(u = q /\ v = i)
    <3>1. Takes(p, q) /\ Puts(p, q) /\ Takes(q, i) /\ Puts(q, i)
      BY <1>6, <2>1, <2>3
    <3>2. OnWire(p, q, p)' = OnWire(p, q, p) /\ OnWire(p, q, q)' = OnWire(p, q, q)
      BY <2>2, <2>3 DEF WireSame
    <3>3. QED  BY <1>1, <2>1, <3>1, <3>2, LineKept
  <2>4. CASE u = p /\ v = q
    <3>1. x = q
      BY <1>1, <1>7, <1>10, <2>4, PairOnly
    <3>2. /\ OnWire(p, q, q)' = Append(OnWire(p, q, q), Head(c))
          /\ OnWire(p, q, p)' = OnWire(p, q, p)
      BY <1>12, <2>1, <2>2, <2>4, <3>1
    <3>3. Takes(p, q) /\ Puts(q, i) /\ Reading(q, i)' = Reading(q, i)
      BY <1>6, <2>1, <2>4
    <3>4. Line(p, q, q, i, p, q)'
      BY <1>1, <2>1, <3>2, <3>3, LineKept
    <3>5. /\ c = connections[p][q].writeQueue /\ connections'[p][q].writeQueue = Tail(c)
          /\ connections'[p][q].writeSerial = connections[p][q].writeSerial
          /\ connections'[q][i].readSerial = connections[q][i].readSerial
      BY <1>2, <1>11, <2>1, <2>4
    <3>6. Line(p, q, p, q, q, i)'
      BY <1>1, <1>2, <2>1, <3>2, <3>3, <3>5, LineOut
    <3>7. QED  BY <3>4, <3>6
  <2>5. CASE u = q /\ v = i
    <3>1. x = p
      <4>1. u = q /\ v = i =>
              sockets[n].from = p /\ sockets[n].to = q /\ OtherEnd(u, v) = p
        BY <1>1, <1>7, PairOnly
      <4>2. QED  BY <1>10, <2>5, <4>1
    <3>2. /\ OnWire(p, q, p)' = Append(OnWire(p, q, p), Head(c))
          /\ OnWire(p, q, q)' = OnWire(p, q, q)
      BY <1>12, <2>1, <2>2, <2>5, <3>1
    <3>3. Takes(q, i) /\ Puts(p, q) /\ Reading(p, q)' = Reading(p, q)
      BY <1>6, <2>1, <2>5
    <3>4. Line(p, q, p, q, q, i)'
      BY <1>1, <2>1, <3>2, <3>3, LineKept
    <3>5. /\ c = connections[q][i].writeQueue /\ connections'[q][i].writeQueue = Tail(c)
          /\ connections'[q][i].writeSerial = connections[q][i].writeSerial
          /\ connections'[p][q].readSerial = connections[p][q].readSerial
      BY <1>2, <1>11, <2>1, <2>5
    <3>6. Line(p, q, q, i, p, q)'
      BY <1>1, <1>2, <2>1, <3>2, <3>3, <3>5, LineOut
    <3>7. QED  BY <3>4, <3>6
  <2>6. QED  BY <2>3, <2>4, <2>5
<1>8. LinesInv'
  BY <1>7 DEF LinesInv
<1>9. QED  BY <1>4, <1>5, <1>8 DEF SerialInv

LEMMA InputSerial ==
  ASSUME NamesApart, TypeInv, LeafInv, SerialInv,
         NEW u \in Process, NEW v \in Process, Input(u, v)
  PROVE  SerialInv'
<1>1. Structure /\ AllUp /\ UnusedInv /\ LinesInv /\ HasSocket(u, v)
  BY DEF LeafInv, SerialInv, Input
<1> PICK n : n = connections[u][v].socket
  OBVIOUS
<1> PICK w : w = sockets[n].wire[u]
  OBVIOUS
<1>2. /\ connections' = connections /\ n \in DOMAIN sockets
      /\ Len(stack[u]) # Place(u) /\ Len(stack'[u]) = Place(u)
      /\ stack'[u][Place(u)] = LoopFrame(v, w, << >>)
      /\ \A r \in Process \ {u} : stack'[r] = stack[r]
      /\ WireIs(n, u, << >>)
  <2>1. /\ connections' = connections /\ n \in DOMAIN sockets
        /\ u \in Clients => Len(stack[u]) = 1 /\ Len(stack'[u]) = 2
        /\ u \in Services => Len(stack[u]) = 0 /\ Len(stack'[u]) = 1
        /\ stack'[u][Len(stack'[u])] = LoopFrame(v, w, << >>)
        /\ \A r \in Process \ {u} : stack'[r] = stack[r]
        /\ WireIs(n, u, << >>)
    BY <1>1, InputStructure
  <2>2. Len(stack[u]) # Place(u) /\ Len(stack'[u]) = Place(u)
    BY <2>1, PlaceIs, Kinds
  <2>3. QED  BY <2>1, <2>2
<1>3. AllUp'
  <2>1. PICK empty : empty = << >>
    OBVIOUS
  <2>2. WireSet(n, u, empty)
    BY <2>1 DEF Input, WireSet
  <2>3. QED  BY <1>1, <1>2, <2>2, UpKept
<1>4. UnusedInv'
  BY <1>1, <1>2, UnusedKept
<1>5. Reading(u, v) = << >> /\ Reading(u, v)' = w
  BY <1>2 DEF Reading, LoopFrame
<1>6. ASSUME NEW r \in Process, NEW y \in Process
      PROVE  Puts(r, y) /\ (~(r = u /\ y = v) => Takes(r, y))
  <2>1. CASE r # u
    <3>1. Reading(r, y)' = Reading(r, y)
      BY <1>2, <2>1 DEF Reading
    <3>2. QED  BY <1>2, <3>1 DEF Puts, Takes
  <2>2. CASE r = u
    <3>1. y # v => Reading(r, y) = << >> /\ Reading(r, y)' = << >>
      BY <1>2, <2>2 DEF Reading, LoopFrame
    <3>2. QED  BY <1>2, <2>2, <3>1 DEF Puts, Takes
  <2>3. QED  BY <2>1, <2>2
<1>7. ASSUME NEW p \in Clients, NEW q \in Services, NEW i, i = Image[p]
      PROVE  Line(p, q, p, q, q, i)' /\ Line(p, q, q, i, p, q)'
  <2>1. /\ p \in Process /\ q \in Process /\ i \in Process /\ p # q
        /\ p \in {p, q} /\ q \in {p, q}
        /\ Line(p, q, p, q, q, i) /\ Line(p, q, q, i, p, q)
    BY <1>1, <1>7, Kinds DEF LinesInv
  <2>2. /\ ~(u = p /\ v = q) /\ ~(u = q /\ v = i) => WireSame(p, q)
        /\ (u = p /\ v = q) \/ (u = q /\ v = i) =>
             /\ OnWire(p, q, u) = w /\ OnWire(p, q, u)' = << >>
             /\ \A y \in Process : y # u => OnWire(p, q, y)' = OnWire(p, q, y)
    <3>1. \A r, y \in Process : connections'[r][y].socket = connections[r][y].socket
      BY <1>2
    <3>2. WireMoves(n, u) /\ sockets'[n].wire[u] = << >>
      BY <1>2 DEF WireMoves, WireIs
    <3>3. /\ ~(u = p /\ v = q) /\ ~(u = q /\ v = i) => WireSame(p, q)
          /\ (u = p /\ v = q) \/ (u = q /\ v = i) =>
               /\ OnWire(p, q, u) = sockets[n].wire[u]
               /\ OnWire(p, q, u)' = sockets'[n].wire[u]
               /\ \A y \in Process : y # u => OnWire(p, q, y)' = OnWire(p, q, y)
      BY <1>1, <1>7, <3>1, <3>2, WireTo
    <3>4. QED  BY <3>2, <3>3
  <2>3. CASE ~(u = p /\ v = q) /\ ~(u = q /\ v = i)
    <3>1. Takes(p, q) /\ Puts(p, q) /\ Takes(q, i) /\ Puts(q, i)
      BY <1>6, <2>1, <2>3
    <3>2. OnWire(p, q, p)' = OnWire(p, q, p) /\ OnWire(p, q, q)' = OnWire(p, q, q)
      BY <2>2, <2>3 DEF WireSame
    <3>3. QED  BY <1>1, <2>1, <3>1, <3>2, LineKept
  <2>4. CASE u = p /\ v = q
    <3>1. /\ OnWire(p, q, p) = w /\ OnWire(p, q, p)' = << >>
          /\ OnWire(p, q, q)' = OnWire(p, q, q)
      BY <2>1, <2>2, <2>4
    <3>2. Takes(q, i) /\ Puts(p, q)
      BY <1>6, <2>1, <2>4
    <3>3. Line(p, q, p, q, q, i)'
      BY <1>1, <2>1, <3>1, <3>2, LineKept
    <3>4. Reading(p, q) = << >> /\ Reading(p, q)' = OnWire(p, q, p)
      BY <1>5, <2>4, <3>1
    <3>5. Line(p, q, q, i, p, q)'
      BY <1>1, <1>2, <2>1, <3>1, <3>4, LineIn
    <3>6. QED  BY <3>3, <3>5
  <2>5. CASE u = q /\ v = i
    <3>1. /\ OnWire(p, q, q) = w /\ OnWire(p, q, q)' = << >>
          /\ OnWire(p, q, p)' = OnWire(p, q, p)
      BY <2>1, <2>2, <2>5
    <3>2. Takes(p, q) /\ Puts(q, i)
      BY <1>6, <2>1, <2>5
    <3>3. Line(p, q, q, i, p, q)'
      BY <1>1, <2>1, <3>1, <3>2, LineKept
    <3>4. Reading(q, i) = << >> /\ Reading(q, i)' = OnWire(p, q, q)
      BY <1>5, <2>5, <3>1
    <3>5. Line(p, q, p, q, q, i)'
      BY <1>1, <1>2, <2>1, <3>1, <3>4, LineIn
    <3>6. QED  BY <3>3, <3>5
  <2>6. QED  BY <2>3, <2>4, <2>5
<1>8. LinesInv'
  BY <1>7 DEF LinesInv
<1>9. QED  BY <1>3, <1>4, <1>8 DEF SerialInv


------------------------------------------------------------------------------
\* Accepting

\* With names apart, nobody has a connection under the name of who connects.
LEMMA NothingReplaced ==
  ASSUME NamesApart, TypeInv, Structure, AllUp,
         NEW p \in Clients, NEW q \in Services, NEW i \in Process, i = Image[p],
         connections[q][i].socket # connections[p][q].socket
  PROVE  ~HasSocket(q, i)
<1> SUFFICES ASSUME HasSocket(q, i) PROVE FALSE
  OBVIOUS
<1>1. q \in Process
  BY Kinds
<1>2. HasSocket(q, i)
  OBVIOUS
<1>3. PICK k : k = connections[q][i].socket
  OBVIOUS
<1>4. /\ k \in DOMAIN sockets /\ sockets[k].from \in Clients
      /\ q = sockets[k].to /\ i = Image[sockets[k].from]
  <2>1. k \in DOMAIN sockets
    BY <1>1, <1>2, <1>3, PairIs
  <2>2. sockets[k].from \in Clients
    BY <1>1, <1>2, <1>3, PairIs
  <2>3. q \in Services => q = sockets[k].to
    BY <1>1, <1>2, <1>3, PairIs
  <2>4. q \in Services => i = Image[sockets[k].from]
    BY <1>1, <1>2, <1>3, PairIs
  <2>5. QED  BY <2>1, <2>2, <2>3, <2>4
<1>5. sockets[k].from = p /\ sockets[k].to = q
  BY <1>4 DEF NamesApart
<1>6. connections[sockets[k].from][sockets[k].to].socket = k
  BY <1>4, AllHeld
<1>7. QED  BY <1>3, <1>5, <1>6

LEMMA AcceptSerial ==
  ASSUME NamesApart, TypeInv, LeafInv, SerialInv,
         NEW q \in Process, NEW n \in DOMAIN sockets, Accept(q, n)
  PROVE  SerialInv'
<1>1. Structure /\ AllUp /\ UnusedInv /\ LinesInv /\ SocketOK(n)
  BY DEF LeafInv, SerialInv, Structure, SocketsInv
<1>10. PICK p : p = sockets[n].from
  OBVIOUS
<1>11. PICK i : i = Image[p]
  OBVIOUS
<1>2. /\ p \in Clients /\ q \in Services /\ stack' = stack /\ sockets[n].to = q /\ i \in Process
      /\ connections[q][i].socket # n
      /\ connections'[q][i] = [NewConnection EXCEPT !.socket = n]
      /\ \A r, y \in Process : <<r, y>> # <<q, i>> => connections'[r][y] = connections[r][y]
      /\ DOMAIN sockets' = DOMAIN sockets
  BY <1>1, <1>10, <1>11, AcceptStructure
<1>3. connections[q][i].socket = 0
  <2>1. connections[p][q].socket = n
    BY <1>1, <1>2, <1>10 DEF AllUp, SocketOK
  <2>2. connections[q][i].socket # connections[p][q].socket
    BY <1>2, <2>1
  <2>3. QED  BY <1>1, <1>2, <1>11, <2>2, NothingReplaced DEF HasSocket
<1>4. Unused(connections[q][i])
  BY <1>1, <1>2, <1>3 DEF UnusedInv, HasSocket
<1>5. \A k \in DOMAIN sockets :
        /\ sockets'[k].up = sockets[k].up /\ sockets'[k].orphan = sockets[k].orphan
        /\ sockets'[k].wire = sockets[k].wire
  <2> SUFFICES ASSUME NEW k \in DOMAIN sockets
               PROVE  /\ sockets'[k].up = sockets[k].up /\ sockets'[k].orphan = sockets[k].orphan
                      /\ sockets'[k].wire = sockets[k].wire
    OBVIOUS
  <2>1. k # 0 /\ sockets[k] \in SocketType
    BY SocketIs
  <2>2. sockets'[k] = IF k = n THEN [sockets[k] EXCEPT !.accepted = TRUE] ELSE sockets[k]
    BY <1>3, <1>10, <1>11, <2>1 DEF Accept
  <2>3. QED  BY <2>1, <2>2 DEF SocketType
<1>6. AllUp'
  BY <1>1, <1>2, <1>5 DEF AllUp
<1>7. /\ connections'[q][i].socket = n /\ connections'[q][i].readSerial = 0
      /\ connections'[q][i].writeSerial = 0 /\ connections'[q][i].writeQueue = << >>
  BY <1>2 DEF NewConnection
<1>8. UnusedInv'
  <2>1. ASSUME NEW r \in Services, NEW y \in Process
        PROVE  connections'[r][y] = connections[r][y] \/ connections'[r][y].socket # 0
    <3>1. n # 0 /\ r \in Process
      BY SocketIs, Kinds
    <3>2. QED  BY <1>2, <1>7, <3>1
  <2>2. QED  BY <1>1, <2>1, UnusedKept
<1>9. \A u, v \in Process : Takes(u, v) /\ Puts(u, v)
  <2> SUFFICES ASSUME NEW u \in Process, NEW v \in Process PROVE Takes(u, v) /\ Puts(u, v)
    OBVIOUS
  <2>1. CASE u = q /\ v = i
    <3>1. Reading(u, v)' = Reading(u, v)
      BY <1>2 DEF Reading
    <3>2. QED  BY <1>4, <1>7, <2>1, <3>1 DEF Takes, Puts, Unused
  <2>2. CASE ~(u = q /\ v = i)
    <3>1. connections'[u][v] = connections[u][v] /\ stack'[u] = stack[u]
      BY <1>2, <2>2
    <3>2. QED  BY <3>1, Quiet
  <2>3. QED  BY <2>1, <2>2
<1>12. \A r \in Clients, s \in Services : WireSame(r, s)
  <2> SUFFICES ASSUME NEW r \in Clients, NEW s \in Services PROVE WireSame(r, s)
    OBVIOUS
  <2>1. r \in Process /\ s \in Process /\ r # q
    BY <1>2, Kinds
  <2>2. connections'[r][s].socket = connections[r][s].socket
    BY <1>2, <2>1
  <2>3. HasSocket(r, s) => connections[r][s].socket \in DOMAIN sockets
    BY <2>1, ConnectionIs DEF HasSocket
  <2>4. HasSocket(r, s) => SocketOf(r, s)'.wire = SocketOf(r, s).wire
    BY <1>5, <2>2, <2>3 DEF SocketOf
  <2>5. QED  BY <2>2, <2>4, WireSides
<1>13. LinesInv'
  BY <1>1, <1>9, <1>12, LinesKept
<1>14. QED  BY <1>6, <1>8, <1>13 DEF SerialInv

------------------------------------------------------------------------------
\* All steps

LEMMA SerialInvInit == Init => SerialInv
<1> SUFFICES ASSUME Init PROVE SerialInv
  OBVIOUS
<1>1. AllUp
  BY EmptySeq DEF Init, AllUp
<1>2. \A u, v \in Process : connections[u][v] = NewConnection /\ stack[u] = << >>
  BY DEF Init
<1>3. \A u, v \in Process : ~HasSocket(u, v) /\ Unused(connections[u][v])
  BY <1>2 DEF Unused, NewConnection, HasSocket
<1>4. UnusedInv
  BY <1>3, Kinds DEF UnusedInv
<1>5. \A u, v \in Process : Reading(u, v) = << >>
  <2>1. \A u \in Process : Place(u) # 0 /\ Len(stack[u]) = 0
    BY <1>2, NothingCounted DEF Place
  <2>2. QED  BY <2>1 DEF Reading
<1>6. Dense(0, 0, << >>, << >>, << >>)
  <2>1. Len(<< >>) = 0
    BY NothingCounted
  <2>2. 0 = 0 + Len(<< >>) + Len(<< >>) + Len(<< >>)
    BY <2>1
  <2>3. QED  BY <2>2, NothingCounted DEF Dense
<1>7. ASSUME NEW p \in Clients, NEW q \in Services, NEW u \in Process, NEW v \in Process,
             NEW x \in Process, NEW y \in Process
      PROVE  Line(p, q, u, v, x, y)
  <2>1. OnWire(p, q, x) = << >>
    BY <1>3, Kinds DEF OnWire
  <2>2. /\ connections[x][y].readSerial = 0 /\ connections[u][v].writeSerial = 0
        /\ connections[u][v].writeQueue = << >> /\ Reading(x, y) = << >>
    BY <1>3, <1>5 DEF Unused
  <2>3. QED  BY <1>6, <2>1, <2>2 DEF Line
<1>8. LinesInv
  <2> SUFFICES ASSUME NEW p \in Clients, NEW q \in Services
               PROVE  Line(p, q, p, q, q, Image[p]) /\ Line(p, q, q, Image[p], p, q)
    BY DEF LinesInv
  <2>1. p \in Process /\ q \in Process /\ Image[p] \in Process
    BY Kinds
  <2>2. QED  BY <1>7, <2>1
<1>9. QED  BY <1>1, <1>4, <1>8 DEF SerialInv

LEMMA StutterSerial == ASSUME SerialInv, UNCHANGED vars PROVE SerialInv'
<1>1. /\ connections' = connections /\ sockets' = sockets /\ stack' = stack
  BY DEF vars
<1>2. AllUp' /\ UnusedInv'
  BY <1>1 DEF SerialInv, AllUp, UnusedInv, HasSocket, Unused
<1>3. ASSUME NEW p, NEW q, NEW u, NEW v, NEW x, NEW y
      PROVE  Line(p, q, u, v, x, y)' = Line(p, q, u, v, x, y)
  <2>1. /\ Reading(x, y)' = Reading(x, y) /\ OnWire(p, q, x)' = OnWire(p, q, x)
    BY <1>1 DEF Reading, OnWire, HasSocket, SocketOf
  <2>2. QED  BY <1>1, <2>1 DEF Line
<1>4. LinesInv'
  BY <1>3 DEF SerialInv, LinesInv
<1>5. QED  BY <1>2, <1>4 DEF SerialInv

\* Nobody meets a closed socket before the first crash.
LEMMA NothingLost ==
  ASSUME TypeInv, LeafInv, SerialInv
  PROVE  /\ \A p, q \in Process : ~Hangup(p, q)
         /\ \A p \in Process, n \in DOMAIN sockets : ~AcceptOrphan(p, n)
<1>1. ASSUME NEW p \in Process, NEW q \in Process, Hangup(p, q) PROVE FALSE
  <2>1. ~SocketOf(p, q).up /\ connections[p][q].socket \in DOMAIN sockets
    BY <1>1, HangupStructure DEF LeafInv
  <2>2. QED  BY <2>1 DEF SerialInv, AllUp, SocketOf
<1>2. ASSUME NEW p \in Process, NEW n \in DOMAIN sockets, AcceptOrphan(p, n) PROVE FALSE
  BY <1>2 DEF SerialInv, AllUp, AcceptOrphan
<1>3. QED  BY <1>1, <1>2

LEMMA SerialInvStep ==
  ASSUME LeafServices, NamesApart, TypeInv, LeafInv, SerialInv, [Next]_vars
  PROVE  SerialInv' \/ \E p \in Process : Crash(p)
<1>1. CASE UNCHANGED vars
  BY <1>1, StutterSerial
<1>2. ASSUME NEW p \in Process, NEW q \in Process,
             Invoke(p, q) \/ Release(p, q) \/ Output(p, q) \/ Input(p, q) \/ Hangup(p, q)
      PROVE  SerialInv'
  BY <1>2, InvokeSerial, ReleaseSerial, OutputSerial, InputSerial, NothingLost
<1>3. ASSUME NEW p \in Process, NEW n \in DOMAIN sockets, Accept(p, n) \/ AcceptOrphan(p, n)
      PROVE  SerialInv'
  BY <1>3, AcceptSerial, NothingLost
<1>4. ASSUME NEW p \in Process,
             \/ WaitReturns(p) \/ WaitTimesOut(p)
             \/ DispatchInvoke(p) \/ DispatchRefused(p) \/ DispatchAnswer(p)
             \/ LoopEnds(p)
             \/ \E outcome \in Outcome : MethodReturns(p, outcome)
      PROVE  SerialInv'
  BY <1>4, WaitOverSerial, DispatchInvokeSerial, DispatchRefusedSerial, DispatchAnswerSerial,
     LoopEndsSerial, MethodReturnsSerial
<1>5. QED  BY <1>1, <1>2, <1>3, <1>4 DEF Next

\* Only crashes are counted as crashes.
LEMMA CrashesStep ==
  ASSUME [Next]_vars, \A p \in Process : ~Crash(p)
  PROVE  crashes' = crashes
<1>1. CASE UNCHANGED vars
  BY <1>1 DEF vars
<1>2. ASSUME NEW p \in Process, NEW q \in Process,
             Invoke(p, q) \/ Release(p, q) \/ Output(p, q) \/ Input(p, q) \/ Hangup(p, q)
      PROVE  crashes' = crashes
  <2>1. CASE Invoke(p, q)
    BY <2>1 DEF Invoke
  <2>2. CASE Release(p, q)
    BY <2>2 DEF Release
  <2>3. CASE Output(p, q)
    BY <2>3 DEF Output
  <2>4. CASE Input(p, q)
    BY <2>4 DEF Input
  <2>5. CASE Hangup(p, q)
    BY <2>5 DEF Hangup
  <2>6. QED  BY <1>2, <2>1, <2>2, <2>3, <2>4, <2>5
<1>3. ASSUME NEW p \in Process, NEW n \in DOMAIN sockets, Accept(p, n) \/ AcceptOrphan(p, n)
      PROVE  crashes' = crashes
  <2>1. CASE Accept(p, n)
    BY <2>1 DEF Accept
  <2>2. CASE AcceptOrphan(p, n)
    BY <2>2 DEF AcceptOrphan
  <2>3. QED  BY <1>3, <2>1, <2>2
<1>4. ASSUME NEW p \in Process,
             \/ WaitReturns(p) \/ WaitTimesOut(p)
             \/ DispatchInvoke(p) \/ DispatchRefused(p) \/ DispatchAnswer(p)
             \/ LoopEnds(p)
             \/ \E outcome \in Outcome : MethodReturns(p, outcome)
      PROVE  crashes' = crashes
  <2>1. CASE WaitReturns(p)
    BY <2>1 DEF WaitReturns
  <2>2. CASE WaitTimesOut(p)
    BY <2>2 DEF WaitTimesOut
  <2>3. CASE DispatchInvoke(p)
    BY <2>3 DEF DispatchInvoke
  <2>4. CASE DispatchRefused(p)
    BY <2>4 DEF DispatchRefused
  <2>5. CASE DispatchAnswer(p)
    BY <2>5 DEF DispatchAnswer
  <2>6. CASE LoopEnds(p)
    BY <2>6 DEF LoopEnds
  <2>7. CASE \E outcome \in Outcome : MethodReturns(p, outcome)
    BY <2>7 DEF MethodReturns
  <2>8. QED  BY <1>4, <2>1, <2>2, <2>3, <2>4, <2>5, <2>6, <2>7
<1>5. QED  BY <1>1, <1>2, <1>3, <1>4 DEF Next

\* Until the first crash, the streams are dense.
LEMMA SerialStep ==
  ASSUME LeafServices, NamesApart, TypeInv, LeafInv, crashes = 0 => SerialInv, [Next]_vars
  PROVE  (crashes = 0 => SerialInv)'
<1> SUFFICES ASSUME crashes' = 0 PROVE SerialInv'
  OBVIOUS
<1>1. crashes \in Nat
  BY DEF TypeInv
<1>2. \A p \in Process : ~Crash(p)
  BY <1>1 DEF Crash
<1>3. crashes' = crashes
  BY <1>2, CrashesStep
<1>4. SerialInv
  BY <1>3
<1>5. QED  BY <1>2, <1>4, SerialInvStep

------------------------------------------------------------------------------
\* Both ends count alike

LEMMA ReadsNext ==
  ASSUME TypeInv, Structure, NEW p \in Clients, NEW q \in Services,
         NEW u \in Process, NEW v \in Process, NEW x \in {p, q}, NEW y \in Process,
         Line(p, q, u, v, x, y), Reading(x, y) # << >>
  PROVE  Head(Reading(x, y)).number = connections[x][y].readSerial
<1> PICK r \in Nat : r = connections[x][y].readSerial
  BY LineTypes
<1> PICK w : w = connections[u][v].writeSerial
  OBVIOUS
<1> PICK a \in Seq(MessageType) : a = Reading(x, y)
  BY LineTypes
<1> PICK b \in Seq(MessageType) : b = OnWire(p, q, x)
  BY LineTypes
<1> PICK c \in Seq(MessageType) : c = connections[u][v].writeQueue
  BY LineTypes
<1>1. Dense(r, w, a, b, c)
  BY DEF Line
<1>2. Head(a).number = r
  BY <1>1, DenseTaken
<1>3. QED  BY <1>2

LEMMA SerialsMatch ==
  ASSUME TypeInv, LeafInv, SerialInv
  PROVE  SerialAgreement
<1> SUFFICES ASSUME NEW u \in Process, Looping(u), ~Serving(u), Top(u).rest # << >>
             PROVE  Current(u).number = Conn(u).readSerial
  BY DEF SerialAgreement
<1>1. Structure /\ AllUp /\ LinesInv
  BY DEF LeafInv, SerialInv
<1>2. Current(u) = Head(Top(u).rest)
  <2>1. PICK types : types = {Current(u).type}
    OBVIOUS
  <2>2. Turn(u, types)
    BY <1>1, <2>1 DEF Turn, Structure
  <2>3. QED  BY <1>1, <2>2, TurnIs
<1>3. PICK v \in Process : v = Top(u).peer
  BY <1>1, LoopingIs
<1>4. Reading(u, v) = Top(u).rest
  <2>1. Len(stack[u]) = Place(u) /\ Top(u) = stack[u][Place(u)]
    BY <1>1, LoopingIs, PlaceIs, Kinds
  <2>2. QED  BY <1>3, <2>1 DEF Reading
<1>5. Head(Reading(u, v)).number = connections[u][v].readSerial
  <2>1. CASE u \in Clients
    <3>1. v \in Services
      BY <1>1, <1>3, <2>1, LoopingIs
    <3>2. PICK i \in Process : i = Image[u]
      BY Kinds
    <3>3. Line(u, v, v, i, u, v)
      BY <1>1, <2>1, <3>1, <3>2 DEF LinesInv
    <3>4. u \in {u, v} /\ Reading(u, v) # << >>
      BY <1>4
    <3>5. QED  BY <1>1, <2>1, <3>1, <3>2, <3>3, <3>4, ReadsNext
  <2>2. CASE u \in Services
    <3>1. HasSocket(u, v)
      BY <1>1, <1>3, <2>2, LoopingIs DEF HasSocket
    <3>2. PICK n : n = connections[u][v].socket
      OBVIOUS
    <3>3. sockets[n].from \in Clients /\ v = Image[sockets[n].from]
      BY <1>1, <2>2, <3>1, <3>2, PairIs
    <3>4. PICK p \in Clients : p = sockets[n].from
      BY <3>3
    <3>5. Line(p, u, p, u, u, v)
      BY <1>1, <2>2, <3>3, <3>4 DEF LinesInv
    <3>6. u \in {p, u} /\ p \in Process /\ Reading(u, v) # << >>
      BY <1>4, Kinds
    <3>7. QED  BY <1>1, <2>2, <3>5, <3>6, ReadsNext
  <2>3. QED  BY <2>1, <2>2, Kinds
<1>6. QED  BY <1>2, <1>3, <1>4, <1>5 DEF Conn

\* The two ends of a connection number its messages without telling each other
\* (LocalBusConnection.h:114, Session.cpp:99): until a process ends, and among
\* clients of different images, the message that a loop is about to dispatch gets
\* the serial that its sender gave it, so that an answer carries the serial under
\* which the caller's parser is registered.
THEOREM SerialsAgree ==
  ASSUME LeafServices, NamesApart
  PROVE  Spec => [](crashes = 0 => SerialAgreement)
<1>1. Init => TypeInv /\ LeafInv /\ (crashes = 0 => SerialInv)
  BY TypeInvInit, LeafInvInit, SerialInvInit
<1>2. /\ TypeInv /\ LeafInv /\ (crashes = 0 => SerialInv) /\ [Next]_vars
      => (TypeInv /\ LeafInv /\ (crashes = 0 => SerialInv))'
  <2> SUFFICES ASSUME TypeInv, LeafInv, crashes = 0 => SerialInv, [Next]_vars
               PROVE  TypeInv' /\ LeafInv' /\ (crashes = 0 => SerialInv)'
    OBVIOUS
  <2>1. TypeInv'
    BY TypeInvStep
  <2>2. LeafInv'
    BY LeafInvStep
  <2>3. (crashes = 0 => SerialInv)'
    BY SerialStep
  <2>4. QED  BY <2>1, <2>2, <2>3
<1>3. TypeInv /\ LeafInv /\ (crashes = 0 => SerialInv) => (crashes = 0 => SerialAgreement)
  BY SerialsMatch
<1>4. QED  BY <1>1, <1>2, <1>3, PTL DEF Spec
==============================================================================
