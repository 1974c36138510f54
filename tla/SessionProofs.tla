---------------------------- MODULE SessionProofs ----------------------------
(***************************************************************************)
(* Theorems about Session, for any network of processes and any bounds,     *)
(* crashes, time-outs and nested handlers included: type correctness, and   *)
(* that a method runs once for a call while no message is dispatched again. *)
(***************************************************************************)
EXTENDS Session, SequenceTheorems, TLAPS

Tables == UNION {[D -> ParserType] : D \in SUBSET Nat}
ServedType == [serial : Nat, call : Nat]

\* A connection's socket exists; a wait's parser is in the table.
ConnectionsType ==
  /\ connections \in [Process -> [Process -> ConnectionType]]
  /\ \A p, q \in Process : connections[p][q].socket <= Len(sockets)
WaitsHaveParsers ==
  \A p \in Process : \A i \in DOMAIN stack[p] :
    stack[p][i].kind = "wait" => stack[p][i].serial \in DOMAIN requests[p][stack[p][i].peer]
StackType == stack \in [Process -> Seq(FrameType)]
RequestsType == requests \in [Process -> [Process -> Tables]]
CallsType == calls \in Seq(CallType)

TypeInv ==
  /\ ConnectionsType /\ sockets \in Seq(SocketType) /\ RequestsType
  /\ StackType /\ WaitsHaveParsers /\ broken \subseteq Process /\ CallsType
  /\ releases \in 0 .. MaxReleases /\ crashes \in 0 .. MaxCrashes

------------------------------------------------------------------------------
\* What is made of what

LEMMA NewConnectionType == NewConnection \in ConnectionType
  BY EmptySeq DEF NewConnection, ConnectionType

LEMMA NewSocketType ==
  ASSUME NEW p \in Process, NEW q \in Process
  PROVE  NewSocket(p, q) \in SocketType
<1>1. [x \in Process |-> << >>] \in [Process -> Seq(MessageType)]
  BY EmptySeq
<1>2. QED  BY <1>1 DEF NewSocket, SocketType

LEMMA ClosedType ==
  ASSUME NEW s \in SocketType
  PROVE  /\ Closed(s) \in SocketType
         /\ \A x \in Process : Closed(s).wire[x] = << >>
<1>1. [x \in Process |-> << >>] \in [Process -> Seq(MessageType)]
  BY EmptySeq
<1>2. QED  BY <1>1 DEF Closed, SocketType

LEMMA NumberedType ==
  ASSUME NEW type \in Request \cup Outcome, NEW serial \in Nat, NEW call \in Nat, NEW n \in Nat
  PROVE  Numbered(Message(type, serial, call), n) \in MessageType
  BY DEF Numbered, Message, MessageType

LEMMA UnansweredType == Unanswered \in ParserType
  BY DEF Unanswered, ParserType, Outcome

LEMMA FrameTypes ==
  ASSUME NEW q \in Process, NEW serial \in Nat, NEW call \in Nat,
         NEW rest \in Seq(MessageType), NEW serving \in Seq(ServedType)
  PROVE  WaitFrame(q, serial, call) \in FrameType /\ LoopFrame(q, rest, serving) \in FrameType
  BY DEF WaitFrame, LoopFrame, FrameType, ServedType

LEMMA FrameIs ==
  ASSUME NEW f \in FrameType
  PROVE  /\ f.kind \in {"wait", "loop"} /\ f.peer \in Process
         /\ f.kind = "wait" => f.serial \in Nat /\ f.call \in Nat
         /\ f.kind = "loop" => f.rest \in Seq(MessageType) /\ f.serving \in Seq(ServedType)
  BY DEF FrameType, ServedType

LEMMA EmptyTable == << >> \in Tables
<1>1. << >> \in [{} -> ParserType]
  OBVIOUS
<1>2. QED  BY <1>1 DEF Tables

------------------------------------------------------------------------------
\* Parts of the state and what the helpers make of them

LEMMA ConnectionIs ==
  ASSUME TypeInv, NEW p \in Process, NEW q \in Process
  PROVE  /\ connections[p][q] \in ConnectionType
         /\ connections[p][q].socket \in 0 .. Len(sockets)
         /\ connections[p][q].writeQueue \in Seq(MessageType)
         /\ connections[p][q].writeSerial \in Nat /\ connections[p][q].readSerial \in Nat
         /\ connections[p][q].readTask \in Seq(MessageType)
         /\ Len(sockets) \in Nat /\ DOMAIN sockets = 1 .. Len(sockets)
         /\ connections[p][q].socket # 0 => connections[p][q].socket \in DOMAIN sockets
<1>1. /\ connections[p][q] \in ConnectionType
      /\ connections[p][q].socket <= Len(sockets)
  BY DEF TypeInv, ConnectionsType
<1>2. Len(sockets) \in Nat /\ DOMAIN sockets = 1 .. Len(sockets)
  BY LenProperties DEF TypeInv
<1>3. QED  BY <1>1, <1>2 DEF ConnectionType

LEMMA SocketIs ==
  ASSUME TypeInv, NEW n \in DOMAIN sockets
  PROVE  /\ n \in 1 .. Len(sockets) /\ n \in Nat \ {0}
         /\ sockets[n] \in SocketType
         /\ sockets[n].from \in Process /\ sockets[n].to \in Process
         /\ sockets[n].accepted \in BOOLEAN /\ sockets[n].orphan \in BOOLEAN
         /\ sockets[n].up \in BOOLEAN
         /\ sockets[n].wire \in [Process -> Seq(MessageType)]
<1>1. n \in 1 .. Len(sockets) /\ n \in Nat \ {0} /\ sockets[n] \in SocketType
  BY LenProperties, ElementOfSeq DEF TypeInv
<1>2. QED  BY <1>1 DEF SocketType

\* The sockets change one by one and stay as many.
LEMMA SocketsChange ==
  ASSUME TypeInv, NEW S, sockets' = S, DOMAIN S = DOMAIN sockets,
         S = [s \in DOMAIN S |-> S[s]], \A s \in DOMAIN sockets : S[s] \in SocketType
  PROVE  sockets' \in Seq(SocketType) /\ Len(sockets') = Len(sockets)
<1>1. Len(sockets) \in Nat /\ DOMAIN sockets = 1 .. Len(sockets)
  BY LenProperties DEF TypeInv
<1>2. S \in [1 .. Len(sockets) -> SocketType]
  BY <1>1
<1>3. S \in Seq(SocketType)
  BY <1>1, <1>2, SeqDef
<1>4. DOMAIN S = 1 .. Len(S) /\ Len(S) \in Nat
  BY <1>3, LenProperties
<1>5. QED  BY <1>1, <1>3, <1>4

LEMMA StackIs ==
  ASSUME TypeInv, NEW p \in Process
  PROVE  /\ stack[p] \in Seq(FrameType) /\ Len(stack[p]) \in Nat
         /\ DOMAIN stack[p] = 1 .. Len(stack[p])
         /\ \A i \in 1 .. Len(stack[p]) : stack[p][i] \in FrameType
         /\ ~Idle(p) => Len(stack[p]) \in Nat \ {0} /\ Top(p) \in FrameType
         /\ Idle(p) => Len(stack[p]) = 0
<1>1. stack[p] \in Seq(FrameType)
  BY DEF TypeInv, StackType
<1>2. /\ Len(stack[p]) \in Nat /\ DOMAIN stack[p] = 1 .. Len(stack[p])
      /\ \A i \in 1 .. Len(stack[p]) : stack[p][i] \in FrameType
  BY <1>1, LenProperties, ElementOfSeq
<1>3. ~Idle(p) => Len(stack[p]) \in Nat \ {0}
  BY <1>1, EmptySeq DEF Idle
<1>4. Idle(p) => Len(stack[p]) = 0
  BY EmptySeq DEF Idle
<1>5. ~Idle(p) => Top(p) \in FrameType
  BY <1>2, <1>3 DEF Top
<1>6. QED  BY <1>1, <1>2, <1>3, <1>4, <1>5

\* What p's frames hold, by their kind.
LEMMA TopIs ==
  ASSUME TypeInv, NEW p \in Process, ~Idle(p)
  PROVE  /\ Top(p).kind \in {"wait", "loop"} /\ Top(p).peer \in Process
         /\ Top(p).kind = "wait" => Top(p).serial \in Nat /\ Top(p).call \in Nat
         /\ Top(p).kind = "loop" =>
              Top(p).rest \in Seq(MessageType) /\ Top(p).serving \in Seq(ServedType)
  BY StackIs, FrameIs

\* A frame more; the frames there were stay where they are.
LEMMA Pushed ==
  ASSUME TypeInv, NEW p \in Process, NEW f \in FrameType, Push(p, f)
  PROVE  /\ StackType'
         /\ stack'[p] = Append(stack[p], f)
         /\ Len(stack'[p]) = Len(stack[p]) + 1 /\ Len(stack[p]) \in Nat
         /\ DOMAIN stack'[p] = 1 .. Len(stack[p]) + 1
         /\ stack'[p][Len(stack[p]) + 1] = f
         /\ \A i \in 1 .. Len(stack[p]) : stack'[p][i] = stack[p][i]
         /\ \A r \in Process \ {p} : stack'[r] = stack[r]
<1>1. stack \in [Process -> Seq(FrameType)] /\ stack[p] \in Seq(FrameType)
  BY DEF TypeInv, StackType
<1>2. /\ stack'[p] = Append(stack[p], f) /\ \A r \in Process \ {p} : stack'[r] = stack[r]
      /\ DOMAIN stack' = Process /\ stack' = [r \in Process |-> stack'[r]]
  BY <1>1 DEF Push
<1>3. /\ stack'[p] \in Seq(FrameType) /\ Len(stack'[p]) = Len(stack[p]) + 1
      /\ stack'[p][Len(stack[p]) + 1] = f
      /\ \A i \in 1 .. Len(stack[p]) : stack'[p][i] = stack[p][i]
  BY <1>1, <1>2, AppendProperties
<1>4. Len(stack[p]) \in Nat /\ DOMAIN stack'[p] = 1 .. Len(stack'[p])
  BY <1>1, <1>3, LenProperties
<1>5. StackType'
  BY <1>1, <1>2, <1>3 DEF StackType
<1>6. QED  BY <1>2, <1>3, <1>4, <1>5

LEMMA Popped ==
  ASSUME TypeInv, NEW p \in Process, ~Idle(p), Pop(p)
  PROVE  /\ StackType'
         /\ Len(stack'[p]) = Len(stack[p]) - 1
         /\ DOMAIN stack'[p] = 1 .. Len(stack[p]) - 1
         /\ \A i \in 1 .. Len(stack[p]) - 1 : stack'[p][i] = stack[p][i]
         /\ \A r \in Process \ {p} : stack'[r] = stack[r]
<1>1. /\ stack \in [Process -> Seq(FrameType)] /\ stack[p] \in Seq(FrameType)
      /\ Len(stack[p]) \in Nat \ {0} /\ \A i \in 1 .. Len(stack[p]) : stack[p][i] \in FrameType
  BY StackIs DEF TypeInv, StackType
<1>2. /\ stack'[p] = SubSeq(stack[p], 1, Len(stack[p]) - 1)
      /\ \A r \in Process \ {p} : stack'[r] = stack[r]
      /\ DOMAIN stack' = Process /\ stack' = [r \in Process |-> stack'[r]]
  BY <1>1 DEF Pop, Below
<1> PICK k \in Nat : k + 1 = Len(stack[p])
  BY <1>1
<1>3. stack'[p] = SubSeq(stack[p], 1, k) /\ k \in Int /\ Len(stack[p]) - 1 = k
  BY <1>2
<1>4. \A i \in 1 .. k : stack[p][i] \in FrameType
  BY <1>1
<1>5. /\ stack'[p] \in Seq(FrameType)
      /\ Len(stack'[p]) = IF 1 <= k THEN k - 1 + 1 ELSE 0
      /\ \A i \in 1 .. k - 1 + 1 : stack'[p][i] = stack[p][1 + i - 1]
  BY <1>3, <1>4, SubSeqProperties
<1>6. Len(stack'[p]) = k /\ \A i \in 1 .. k : stack'[p][i] = stack[p][i]
  BY <1>5
<1>7. DOMAIN stack'[p] = 1 .. k
  BY <1>5, <1>6, LenProperties
<1>8. StackType'
  BY <1>1, <1>2, <1>5 DEF StackType
<1>9. QED  BY <1>2, <1>3, <1>6, <1>7, <1>8

LEMMA TopSet ==
  ASSUME TypeInv, NEW p \in Process, ~Idle(p), NEW f \in FrameType, SetTop(p, f)
  PROVE  /\ StackType'
         /\ Len(stack'[p]) = Len(stack[p]) /\ DOMAIN stack'[p] = 1 .. Len(stack[p])
         /\ stack'[p][Len(stack[p])] = f
         /\ \A i \in 1 .. Len(stack[p]) - 1 : stack'[p][i] = stack[p][i]
         /\ \A r \in Process \ {p} : stack'[r] = stack[r]
<1>1. /\ stack \in [Process -> Seq(FrameType)] /\ stack[p] \in Seq(FrameType)
      /\ Len(stack[p]) \in Nat \ {0}
  BY StackIs DEF TypeInv, StackType
<1>2. /\ stack'[p] = [stack[p] EXCEPT ![Len(stack[p])] = f]
      /\ \A r \in Process \ {p} : stack'[r] = stack[r]
      /\ DOMAIN stack' = Process /\ stack' = [r \in Process |-> stack'[r]]
  BY <1>1 DEF SetTop
<1>3. /\ stack'[p] \in Seq(FrameType) /\ Len(stack'[p]) = Len(stack[p])
      /\ \A j \in 1 .. Len(stack[p]) :
           stack'[p][j] = IF j = Len(stack[p]) THEN f ELSE stack[p][j]
  BY <1>1, <1>2, ExceptSeq
<1>4. DOMAIN stack'[p] = 1 .. Len(stack[p])
  BY <1>3, LenProperties
<1>5. StackType'
  BY <1>1, <1>2, <1>3 DEF StackType
<1>6. QED  BY <1>1, <1>2, <1>3, <1>4, <1>5

\* Send changes the connection it is given and may append a socket.
LEMMA Sent ==
  ASSUME TypeInv, NEW p \in Process, NEW q \in Process, NEW c \in ConnectionType,
         c.socket = connections[p][q].socket,
         NEW type \in Request \cup Outcome, NEW serial \in Nat, NEW call \in Nat,
         SendOn(p, q, c, Message(type, serial, call))
  PROVE  /\ ConnectionsType' /\ sockets' \in Seq(SocketType)
         /\ Len(sockets') \in Nat /\ Len(sockets) <= Len(sockets')
         /\ c.socket # 0 => sockets' = sockets /\ connections'[p][q].socket = c.socket
         /\ c.socket = 0 => /\ Len(sockets') = Len(sockets) + 1
                            /\ sockets'[Len(sockets) + 1] = NewSocket(p, q)
                            /\ connections'[p][q].socket = Len(sockets) + 1
         /\ \A n \in DOMAIN sockets : n \in DOMAIN sockets' /\ sockets'[n] = sockets[n]
         /\ connections'[p][q].writeSerial = c.writeSerial + 1
         /\ connections'[p][q].readSerial = c.readSerial
         /\ connections'[p][q].readTask = c.readTask
         /\ connections'[p][q].writeQueue =
              Append(c.writeQueue, Numbered(Message(type, serial, call), c.writeSerial))
         /\ Numbered(Message(type, serial, call), c.writeSerial) \in MessageType
         /\ \A r, x \in Process : <<r, x>> # <<p, q>> => connections'[r][x] = connections[r][x]
<1> DEFINE m == Numbered(Message(type, serial, call), c.writeSerial)
<1> DEFINE s == IF c.socket = 0 THEN Len(sockets) + 1 ELSE c.socket
<1> DEFINE d == [c EXCEPT !.socket = s, !.writeSerial = @ + 1, !.writeQueue = Append(@, m)]
<1>1. /\ c.writeSerial \in Nat /\ c.readSerial \in Nat /\ c.writeQueue \in Seq(MessageType)
      /\ c.readTask \in Seq(MessageType) /\ c.socket \in 0 .. Len(sockets)
      /\ Len(sockets) \in Nat /\ DOMAIN sockets = 1 .. Len(sockets)
      /\ sockets \in Seq(SocketType)
      /\ connections \in [Process -> [Process -> ConnectionType]]
  BY ConnectionIs DEF ConnectionType, TypeInv, ConnectionsType
<1>2. m \in MessageType
  BY <1>1, NumberedType
<1>3. /\ connections' = [connections EXCEPT ![p][q] = d]
      /\ sockets' = IF c.socket = 0 THEN Append(sockets, NewSocket(p, q)) ELSE sockets
  BY DEF SendOn
<1>4. Append(c.writeQueue, m) \in Seq(MessageType)
  BY <1>1, <1>2, AppendProperties
<1> HIDE DEF m
<1>5. /\ d \in ConnectionType /\ d.socket = s /\ d.writeSerial = c.writeSerial + 1
      /\ d.readSerial = c.readSerial /\ d.readTask = c.readTask
      /\ d.writeQueue = Append(c.writeQueue, m)
  <2>1. s \in Nat /\ c.writeSerial + 1 \in Nat
    BY <1>1
  <2> HIDE DEF s
  <2>2. PICK w, k : w = Append(c.writeQueue, m) /\ k = c.writeSerial + 1
    OBVIOUS
  <2>3. d = [c EXCEPT !.socket = s, !.writeSerial = k, !.writeQueue = w]
    BY <2>2
  <2>4. k \in Nat /\ w \in Seq(MessageType)
    BY <1>4, <2>1, <2>2
  <2> HIDE DEF d
  <2>5. /\ d \in ConnectionType /\ d.socket = s /\ d.writeSerial = k
        /\ d.readSerial = c.readSerial /\ d.readTask = c.readTask /\ d.writeQueue = w
    BY <1>1, <2>1, <2>3, <2>4 DEF ConnectionType
  <2>6. QED  BY <2>2, <2>5
<1> HIDE DEF d
<1>6. /\ connections'[p][q] = d
      /\ \A r, x \in Process : <<r, x>> # <<p, q>> => connections'[r][x] = connections[r][x]
      /\ connections' \in [Process -> [Process -> ConnectionType]]
  BY <1>1, <1>3, <1>5
<1>7. /\ sockets' \in Seq(SocketType) /\ Len(sockets') \in Nat /\ Len(sockets) <= Len(sockets')
      /\ s <= Len(sockets')
      /\ c.socket = 0 => /\ Len(sockets') = Len(sockets) + 1
                         /\ sockets'[Len(sockets) + 1] = NewSocket(p, q)
      /\ \A n \in DOMAIN sockets : n \in DOMAIN sockets' /\ sockets'[n] = sockets[n]
  <2>1. CASE c.socket # 0
    <3>1. sockets' = sockets /\ s = c.socket
      BY <1>3, <2>1
    <3>2. s <= Len(sockets) /\ Len(sockets) <= Len(sockets)
      BY <1>1, <3>1
    <3>3. \A n \in DOMAIN sockets : n \in DOMAIN sockets' /\ sockets'[n] = sockets[n]
      BY <3>1
    <3> HIDE DEF s
    <3>4. QED  BY <1>1, <2>1, <3>1, <3>2, <3>3
  <2>2. CASE c.socket = 0
    <3>1. /\ sockets' = Append(sockets, NewSocket(p, q)) /\ NewSocket(p, q) \in SocketType
      BY <1>3, <2>2, NewSocketType
    <3>2. /\ sockets' \in Seq(SocketType) /\ Len(sockets') = Len(sockets) + 1
          /\ sockets'[Len(sockets) + 1] = NewSocket(p, q)
          /\ \A n \in 1 .. Len(sockets) : sockets'[n] = sockets[n]
      BY <1>1, <3>1, AppendProperties
    <3>3. DOMAIN sockets' = 1 .. Len(sockets')
      BY <3>2, LenProperties
    <3>4. QED  BY <1>1, <2>2, <3>2, <3>3
  <2>3. QED  BY <2>1, <2>2
<1>8. ConnectionsType'
  <2>1. ASSUME NEW r \in Process, NEW x \in Process
        PROVE  connections'[r][x].socket <= Len(sockets')
    <3>1. CASE <<r, x>> = <<p, q>>
      BY <1>5, <1>6, <1>7, <3>1
    <3>2. CASE <<r, x>> # <<p, q>>
      <4>1. /\ connections'[r][x] = connections[r][x]
            /\ connections[r][x].socket \in 0 .. Len(sockets)
        BY <1>6, <3>2, ConnectionIs
      <4>2. QED  BY <1>1, <1>7, <4>1
    <3>3. QED  BY <3>1, <3>2
  <2>2. QED  BY <1>6, <2>1 DEF ConnectionsType
<1>9. c.socket # 0 => sockets' = sockets
  BY <1>3
<1>10. QED  BY <1>2, <1>5, <1>6, <1>7, <1>8, <1>9 DEF m

\* A connection whose object changes but not its socket.
LEMMA ConnectionChanges ==
  ASSUME TypeInv, NEW p \in Process, NEW q \in Process, NEW c \in ConnectionType,
         c.socket \in {0, connections[p][q].socket},
         connections' = [connections EXCEPT ![p][q] = c], Len(sockets') = Len(sockets)
  PROVE  /\ ConnectionsType' /\ connections'[p][q] = c
         /\ \A r, x \in Process : <<r, x>> # <<p, q>> => connections'[r][x] = connections[r][x]
<1>1. /\ connections \in [Process -> [Process -> ConnectionType]] /\ Len(sockets) \in Nat
      /\ \A r, x \in Process : connections[r][x].socket \in 0 .. Len(sockets)
  BY ConnectionIs DEF TypeInv, ConnectionsType
<1>2. /\ connections'[p][q] = c
      /\ \A r, x \in Process : <<r, x>> # <<p, q>> => connections'[r][x] = connections[r][x]
      /\ connections' \in [Process -> [Process -> ConnectionType]]
  BY <1>1
<1>3. ASSUME NEW r \in Process, NEW x \in Process
      PROVE  connections'[r][x].socket <= Len(sockets')
  <2>1. CASE <<r, x>> = <<p, q>>
    BY <1>1, <1>2, <2>1
  <2>2. CASE <<r, x>> # <<p, q>>
    BY <1>1, <1>2, <2>2
  <2>3. QED  BY <2>1, <2>2
<1>4. QED  BY <1>2, <1>3 DEF ConnectionsType

\* A call's record changes in fields of its type.
LEMMA CallsChange ==
  ASSUME TypeInv, NEW S, calls' = S, DOMAIN S = DOMAIN calls,
         S = [c \in DOMAIN S |-> S[c]], \A c \in DOMAIN calls : S[c] \in CallType
  PROVE  CallsType' /\ Len(calls') = Len(calls)
<1>1. calls \in Seq(CallType)
  BY DEF TypeInv, CallsType
<1>2. Len(calls) \in Nat /\ DOMAIN calls = 1 .. Len(calls)
  BY <1>1, LenProperties
<1>3. S \in [1 .. Len(calls) -> CallType]
  BY <1>2
<1>4. S \in Seq(CallType)
  BY <1>2, <1>3, SeqDef
<1>5. DOMAIN S = 1 .. Len(S) /\ Len(S) \in Nat
  BY <1>4, LenProperties
<1>6. QED  BY <1>2, <1>4, <1>5 DEF CallsType

LEMMA CallIs ==
  ASSUME TypeInv, NEW c \in DOMAIN calls
  PROVE  /\ calls[c] \in CallType /\ c \in 1 .. Len(calls) /\ c \in Nat \ {0}
         /\ calls[c].from \in Process /\ calls[c].to \in Process /\ calls[c].runs \in Nat
         /\ calls[c].run \in {"sent", "running", "lost"} \cup Outcome
         /\ calls[c].answer \in ParserType
<1>1. calls \in Seq(CallType)
  BY DEF TypeInv, CallsType
<1>2. c \in 1 .. Len(calls) /\ c \in Nat \ {0} /\ calls[c] \in CallType
  BY <1>1, LenProperties, ElementOfSeq
<1>3. QED  BY <1>2 DEF CallType

\* One call's answer, its run, or its run and its count change.
LEMMA OneCallChanges ==
  ASSUME TypeInv, NEW c,
         NEW answer \in ParserType, NEW run \in {"sent", "running", "lost"} \cup Outcome,
         \/ calls' = [calls EXCEPT ![c].answer = answer]
         \/ calls' = [calls EXCEPT ![c].run = run]
         \/ calls' = [calls EXCEPT ![c].run = run, ![c].runs = @ + 1]
  PROVE  CallsType' /\ Len(calls') = Len(calls)
<1>1. \A d \in DOMAIN calls : calls[d] \in CallType
  BY CallIs
<1>2. /\ DOMAIN calls' = DOMAIN calls /\ calls' = [d \in DOMAIN calls |-> calls'[d]]
      /\ \A d \in DOMAIN calls : calls'[d] \in CallType
  <2>1. CASE calls' = [calls EXCEPT ![c].answer = answer]
    BY <1>1, <2>1 DEF CallType
  <2>2. CASE calls' = [calls EXCEPT ![c].run = run]
    BY <1>1, <2>2 DEF CallType
  <2>3. CASE calls' = [calls EXCEPT ![c].run = run, ![c].runs = @ + 1]
    <3>1. ASSUME NEW d \in DOMAIN calls PROVE calls'[d] \in CallType
      <4>1. calls[d] \in CallType
        BY <1>1
      <4>2. CASE d # c
        BY <2>3, <4>1, <4>2
      <4>3. CASE d = c
        <5>1. PICK k : k = calls[c].runs + 1
          OBVIOUS
        <5>2. calls'[c] = [[calls[c] EXCEPT !.run = run] EXCEPT !.runs = k]
          BY <2>3, <4>3, <5>1
        <5>3. k \in Nat
          BY <4>1, <4>3, <5>1 DEF CallType
        <5>4. QED  BY <4>1, <4>3, <5>2, <5>3 DEF CallType
      <4>4. QED  BY <4>2, <4>3
    <3>2. QED  BY <2>3, <3>1
  <2>4. QED  BY <2>1, <2>2, <2>3
<1>3. PICK S : S = calls'
  OBVIOUS
<1>4. QED  BY <1>2, <1>3, CallsChange

------------------------------------------------------------------------------
\* Steps

LEMMA WaitsKept ==
  ASSUME TypeInv,
         \A p, q \in Process : DOMAIN requests[p][q] \subseteq DOMAIN requests'[p][q],
         \A p \in Process : \A i \in DOMAIN stack'[p] : stack'[p][i].kind = "wait" =>
           \/ i \in DOMAIN stack[p] /\ stack'[p][i] = stack[p][i]
           \/ stack'[p][i].serial \in DOMAIN requests'[p][stack'[p][i].peer]
  PROVE  WaitsHaveParsers'
<1> SUFFICES ASSUME NEW p \in Process, NEW i \in DOMAIN stack'[p], stack'[p][i].kind = "wait"
             PROVE  stack'[p][i].serial \in DOMAIN requests'[p][stack'[p][i].peer]
  BY DEF WaitsHaveParsers
<1>1. CASE i \in DOMAIN stack[p] /\ stack'[p][i] = stack[p][i]
  <2>1. stack[p][i].serial \in DOMAIN requests[p][stack[p][i].peer]
    BY <1>1 DEF TypeInv, WaitsHaveParsers
  <2>2. stack[p][i].peer \in Process
    BY <1>1, StackIs, FrameIs
  <2>3. QED  BY <1>1, <2>1, <2>2
<1>2. QED  BY <1>1

LEMMA PushedLoop ==
  ASSUME TypeInv, NEW p \in Process, NEW q \in Process, NEW rest \in Seq(MessageType),
         Push(p, LoopFrame(q, rest, << >>)), requests' = requests
  PROVE  StackType' /\ WaitsHaveParsers'
<1>1. PICK f : f = LoopFrame(q, rest, << >>)
  OBVIOUS
<1>2. f \in FrameType /\ f.kind = "loop"
  <2>1. << >> \in Seq(ServedType)
    BY EmptySeq
  <2>2. f \in FrameType
    BY <1>1, <2>1, FrameTypes
  <2>3. QED  BY <1>1, <2>2 DEF LoopFrame
<1>3. Push(p, f)
  BY <1>1
<1>4. /\ StackType' /\ DOMAIN stack'[p] = 1 .. Len(stack[p]) + 1 /\ Len(stack[p]) \in Nat
      /\ stack'[p][Len(stack[p]) + 1] = f
      /\ \A i \in 1 .. Len(stack[p]) : stack'[p][i] = stack[p][i]
      /\ \A r \in Process \ {p} : stack'[r] = stack[r]
  BY <1>2, <1>3, Pushed
<1>5. ASSUME NEW r \in Process, NEW i \in DOMAIN stack'[r], stack'[r][i].kind = "wait"
      PROVE  i \in DOMAIN stack[r] /\ stack'[r][i] = stack[r][i]
  <2>1. CASE r = p
    <3>1. "loop" # "wait" /\ i # Len(stack[p]) + 1
      BY <1>2, <1>4, <1>5, <2>1
    <3>2. i \in 1 .. Len(stack[p])
      BY <1>4, <1>5, <2>1, <3>1
    <3>3. QED  BY <1>4, <2>1, <3>2, StackIs
  <2>2. CASE r # p
    BY <1>4, <1>5, <2>2
  <2>3. QED  BY <2>1, <2>2
<1>6. WaitsHaveParsers'
  BY <1>5, WaitsKept
<1>7. QED  BY <1>4, <1>6

LEMMA SetLoop ==
  ASSUME TypeInv, NEW p \in Process, Looping(p), NEW q \in Process, NEW rest \in Seq(MessageType),
         NEW serving \in Seq(ServedType), SetTop(p, LoopFrame(q, rest, serving)),
         \A x, y \in Process : DOMAIN requests[x][y] \subseteq DOMAIN requests'[x][y]
  PROVE  StackType' /\ WaitsHaveParsers'
<1>1. PICK f : f = LoopFrame(q, rest, serving)
  OBVIOUS
<1>2. f \in FrameType /\ f.kind = "loop"
  <2>1. f \in FrameType
    BY <1>1, FrameTypes
  <2>2. QED  BY <1>1, <2>1 DEF LoopFrame
<1>3. SetTop(p, f) /\ ~Idle(p)
  BY <1>1 DEF Looping
<1>4. /\ StackType' /\ DOMAIN stack'[p] = 1 .. Len(stack[p]) /\ Len(stack[p]) \in Nat
      /\ stack'[p][Len(stack[p])] = f
      /\ \A i \in 1 .. Len(stack[p]) - 1 : stack'[p][i] = stack[p][i]
      /\ \A r \in Process \ {p} : stack'[r] = stack[r]
  BY <1>2, <1>3, TopSet, StackIs
<1>5. ASSUME NEW r \in Process, NEW i \in DOMAIN stack'[r], stack'[r][i].kind = "wait"
      PROVE  i \in DOMAIN stack[r] /\ stack'[r][i] = stack[r][i]
  <2>1. CASE r = p
    <3>1. "loop" # "wait" /\ i # Len(stack[p])
      BY <1>2, <1>4, <1>5, <2>1
    <3>2. i \in 1 .. Len(stack[p]) /\ i \in 1 .. Len(stack[p]) - 1
      BY <1>4, <1>5, <2>1, <3>1
    <3>3. QED  BY <1>4, <2>1, <3>2, StackIs
  <2>2. CASE r # p
    BY <1>4, <1>5, <2>2
  <2>3. QED  BY <2>1, <2>2
<1>6. WaitsHaveParsers'
  BY <1>5, WaitsKept
<1>7. QED  BY <1>4, <1>6

LEMMA PoppedWaits ==
  ASSUME TypeInv, NEW p \in Process, ~Idle(p), Pop(p), requests' = requests
  PROVE  StackType' /\ WaitsHaveParsers'
<1>1. /\ StackType' /\ DOMAIN stack'[p] = 1 .. Len(stack[p]) - 1 /\ Len(stack[p]) \in Nat
      /\ \A i \in 1 .. Len(stack[p]) - 1 : stack'[p][i] = stack[p][i]
      /\ \A r \in Process \ {p} : stack'[r] = stack[r]
  BY Popped, StackIs
<1>2. ASSUME NEW r \in Process, NEW i \in DOMAIN stack'[r], stack'[r][i].kind = "wait"
      PROVE  i \in DOMAIN stack[r] /\ stack'[r][i] = stack[r][i]
  <2>1. CASE r = p
    BY <1>1, <1>2, <2>1, StackIs
  <2>2. CASE r # p
    BY <1>1, <1>2, <2>2
  <2>3. QED  BY <2>1, <2>2
<1>3. WaitsHaveParsers'
  BY <1>2, WaitsKept
<1>4. QED  BY <1>1, <1>3

\* A call is appended, a parser registered, a wait pushed.
LEMMA InvokeTypes ==
  ASSUME TypeInv, NEW p \in Process, NEW q \in Process, Invoke(p, q)
  PROVE  TypeInv'
<1>1. PICK serial, call : serial = connections[p][q].writeSerial /\ call = Len(calls) + 1
  OBVIOUS
<1>2. /\ SendOn(p, q, connections[p][q], Message("invoke", 0, call))
      /\ requests' = [requests EXCEPT ![p][q] =
           [s \in DOMAIN @ \cup {serial} |-> IF s = serial THEN Unanswered ELSE @[s]]]
      /\ Push(p, WaitFrame(q, serial, call))
      /\ calls' = Append(calls, [from |-> p, to |-> q, runs |-> 0, run |-> "sent",
                                 answer |-> Unanswered])
      /\ UNCHANGED <<broken, releases, crashes>>
  BY <1>1 DEF Invoke
<1>3. calls \in Seq(CallType) /\ Len(calls) \in Nat /\ call \in Nat
  BY <1>1, LenProperties DEF TypeInv, CallsType
<1>4. serial \in Nat /\ connections[p][q] \in ConnectionType
  BY <1>1, ConnectionIs
<1>5. ConnectionsType' /\ sockets' \in Seq(SocketType)
  BY <1>2, <1>3, <1>4, Sent DEF Request
<1>6. CallsType'
  <2>1. [from |-> p, to |-> q, runs |-> 0, run |-> "sent", answer |-> Unanswered] \in CallType
    BY UnansweredType DEF CallType
  <2>2. QED  BY <1>2, <1>3, <2>1, AppendProperties DEF CallsType
<1>7. /\ RequestsType' /\ serial \in DOMAIN requests'[p][q]
      /\ \A x, y \in Process : DOMAIN requests[x][y] \subseteq DOMAIN requests'[x][y]
  <2>1. PICK table : table = requests[p][q]
    OBVIOUS
  <2>2. PICK after : after = [s \in DOMAIN table \cup {serial} |->
                                IF s = serial THEN Unanswered ELSE table[s]]
    OBVIOUS
  <2>3. requests \in [Process -> [Process -> Tables]] /\ table \in Tables
    BY <2>1 DEF TypeInv, RequestsType
  <2>4. after \in Tables
    <3>1. PICK D \in SUBSET Nat : table \in [D -> ParserType]
      BY <2>3 DEF Tables
    <3>2. after \in [D \cup {serial} -> ParserType] /\ D \cup {serial} \in SUBSET Nat
      BY <1>4, <2>2, <3>1, UnansweredType
    <3>3. QED  BY <3>2 DEF Tables
  <2>5. requests' = [requests EXCEPT ![p][q] = after]
    BY <1>2, <2>1, <2>2
  <2>6. DOMAIN after = DOMAIN table \cup {serial}
    BY <2>2
  <2>7. /\ requests' \in [Process -> [Process -> Tables]] /\ requests'[p][q] = after
        /\ \A x, y \in Process : <<x, y>> # <<p, q>> => requests'[x][y] = requests[x][y]
    BY <2>3, <2>4, <2>5
  <2>8. ASSUME NEW x \in Process, NEW y \in Process
        PROVE  DOMAIN requests[x][y] \subseteq DOMAIN requests'[x][y]
    BY <2>1, <2>6, <2>7
  <2>9. QED  BY <2>6, <2>7, <2>8 DEF RequestsType
<1>8. StackType' /\ WaitsHaveParsers'
  <2>1. PICK f : f = WaitFrame(q, serial, call)
    OBVIOUS
  <2>2. f \in FrameType /\ f.peer = q /\ f.serial = serial
    <3>1. << >> \in Seq(MessageType) /\ << >> \in Seq(ServedType)
      BY EmptySeq
    <3>2. f \in FrameType
      BY <1>3, <1>4, <2>1, <3>1, FrameTypes
    <3>3. QED  BY <2>1, <3>2 DEF WaitFrame
  <2>3. Push(p, f)
    BY <1>2, <2>1
  <2>4. /\ StackType' /\ DOMAIN stack'[p] = 1 .. Len(stack[p]) + 1 /\ Len(stack[p]) \in Nat
        /\ stack'[p][Len(stack[p]) + 1] = f
        /\ \A i \in 1 .. Len(stack[p]) : stack'[p][i] = stack[p][i]
        /\ \A r \in Process \ {p} : stack'[r] = stack[r]
    BY <2>2, <2>3, Pushed
  <2>5. ASSUME NEW r \in Process, NEW i \in DOMAIN stack'[r], stack'[r][i].kind = "wait"
        PROVE  \/ i \in DOMAIN stack[r] /\ stack'[r][i] = stack[r][i]
               \/ stack'[r][i].serial \in DOMAIN requests'[r][stack'[r][i].peer]
    <3>1. CASE r = p /\ i = Len(stack[p]) + 1
      BY <1>7, <2>2, <2>4, <3>1
    <3>2. CASE r = p /\ i # Len(stack[p]) + 1
      <4>1. i \in 1 .. Len(stack[p])
        BY <2>4, <2>5, <3>2
      <4>2. QED  BY <2>4, <3>2, <4>1, StackIs
    <3>3. CASE r # p
      BY <2>4, <2>5, <3>3
    <3>4. QED  BY <3>1, <3>2, <3>3
  <2>6. WaitsHaveParsers'
    BY <1>7, <2>5, WaitsKept
  <2>7. QED  BY <2>4, <2>6
<1>9. QED  BY <1>2, <1>5, <1>6, <1>7, <1>8 DEF TypeInv

\* Only p's connection to q and perhaps the sockets change.
LEMMA ReleaseTypes ==
  ASSUME TypeInv, NEW p \in Process, NEW q \in Process, Release(p, q)
  PROVE  TypeInv'
<1>1. /\ SendOn(p, q, connections[p][q], Message("release", 0, 0))
      /\ releases' = releases + 1 /\ releases < MaxReleases
      /\ UNCHANGED <<requests, stack, broken, calls, crashes>>
  BY DEF Release
<1>2. connections[p][q] \in ConnectionType
  BY ConnectionIs
<1>3. ConnectionsType' /\ sockets' \in Seq(SocketType)
  BY <1>1, <1>2, Sent DEF Request
<1>4. releases' \in 0 .. MaxReleases
  BY <1>1, ProcessAssumption DEF TypeInv
<1>5. QED
  BY <1>1, <1>3, <1>4
     DEF TypeInv, RequestsType, StackType, WaitsHaveParsers, CallsType

\* A wait's parser is in the table.
LEMMA AwaitedIs ==
  ASSUME TypeInv, NEW p \in Process, Waiting(p)
  PROVE  /\ Awaited(p) \in ParserType /\ Top(p).call \in Nat /\ Top(p).serial \in Nat
         /\ Top(p).peer \in Process /\ ~Idle(p)
<1>1. /\ ~Idle(p) /\ Top(p).kind = "wait" /\ Top(p).peer \in Process
      /\ Top(p).serial \in Nat /\ Top(p).call \in Nat
  BY TopIs DEF Waiting
<1>2. Len(stack[p]) \in DOMAIN stack[p] /\ Top(p) = stack[p][Len(stack[p])]
  BY <1>1, StackIs DEF Top
<1>3. Top(p).serial \in DOMAIN requests[p][Top(p).peer]
  BY <1>1, <1>2 DEF TypeInv, WaitsHaveParsers
<1>4. PICK table \in Tables : table = requests[p][Top(p).peer]
  BY <1>1 DEF TypeInv, RequestsType
<1>5. table[Top(p).serial] \in ParserType
  BY <1>3, <1>4 DEF Tables
<1>6. QED  BY <1>1, <1>4, <1>5 DEF Awaited

LEMMA WaitReturnsTypes ==
  ASSUME TypeInv, NEW p \in Process, WaitReturns(p)
  PROVE  TypeInv'
<1>1. /\ Waiting(p) /\ calls' = [calls EXCEPT ![Top(p).call].answer = Awaited(p)] /\ Pop(p)
      /\ UNCHANGED <<connections, sockets, requests, broken, releases, crashes>>
  BY DEF WaitReturns
<1>2. Awaited(p) \in ParserType /\ ~Idle(p)
  BY <1>1, AwaitedIs
<1>3. CallsType'
  BY <1>1, <1>2, OneCallChanges
<1>4. StackType' /\ WaitsHaveParsers'
  BY <1>1, <1>2, PoppedWaits
<1>5. QED  BY <1>1, <1>3, <1>4 DEF TypeInv, ConnectionsType, RequestsType

LEMMA WaitTimesOutTypes ==
  ASSUME TypeInv, NEW p \in Process, WaitTimesOut(p)
  PROVE  TypeInv'
<1>1. PICK answer : answer = [outcome |-> "timeout", of |-> Top(p).call]
  OBVIOUS
<1>2. /\ Waiting(p) /\ calls' = [calls EXCEPT ![Top(p).call].answer = answer] /\ Pop(p)
      /\ UNCHANGED <<connections, sockets, requests, broken, releases, crashes>>
  BY <1>1 DEF WaitTimesOut
<1>3. answer \in ParserType /\ ~Idle(p)
  BY <1>1, <1>2, AwaitedIs DEF ParserType
<1>4. CallsType'
  BY <1>2, <1>3, OneCallChanges
<1>5. StackType' /\ WaitsHaveParsers'
  BY <1>2, <1>3, PoppedWaits
<1>6. QED  BY <1>2, <1>4, <1>5 DEF TypeInv, ConnectionsType, RequestsType

\* One wire of one socket changes.
LEMMA WireChanges ==
  ASSUME TypeInv, NEW n \in DOMAIN sockets, NEW x, NEW w \in Seq(MessageType),
         sockets' = [sockets EXCEPT ![n].wire[x] = w]
  PROVE  /\ sockets' \in Seq(SocketType) /\ Len(sockets') = Len(sockets)
         /\ DOMAIN sockets' = DOMAIN sockets
         /\ \A k \in DOMAIN sockets : k # n => sockets'[k] = sockets[k]
         /\ sockets'[n] = [sockets[n] EXCEPT !.wire = [@ EXCEPT ![x] = w]]
<1>1. \A k \in DOMAIN sockets : sockets[k] \in SocketType
  BY SocketIs
<1>2. PICK S : S = sockets'
  OBVIOUS
<1>3. /\ DOMAIN S = DOMAIN sockets /\ S = [s \in DOMAIN S |-> S[s]]
      /\ \A k \in DOMAIN sockets : k # n => S[k] = sockets[k]
      /\ S[n] = [sockets[n] EXCEPT !.wire = [@ EXCEPT ![x] = w]]
  BY <1>2
<1>4. S[n] \in SocketType
  <2>1. PICK s \in SocketType : s = sockets[n]
    BY <1>1
  <2>2. PICK t : t = [s.wire EXCEPT ![x] = w]
    OBVIOUS
  <2>3. t \in [Process -> Seq(MessageType)]
    BY <2>1, <2>2 DEF SocketType
  <2>4. S[n] = [s EXCEPT !.wire = t]
    BY <1>3, <2>1, <2>2
  <2>5. QED  BY <2>1, <2>3, <2>4 DEF SocketType
<1>5. \A k \in DOMAIN sockets : S[k] \in SocketType
  BY <1>1, <1>3, <1>4
<1>6. sockets' \in Seq(SocketType) /\ Len(sockets') = Len(sockets)
  BY <1>2, <1>3, <1>5, SocketsChange
<1>7. QED  BY <1>2, <1>3, <1>6

LEMMA OutputTypes ==
  ASSUME TypeInv, NEW p \in Process, NEW q \in Process, Output(p, q)
  PROVE  TypeInv'
<1>1. PICK n : n = connections[p][q].socket
  OBVIOUS
<1>2. PICK x : x = OtherEnd(p, q)
  OBVIOUS
<1>3. PICK queue : queue = connections[p][q].writeQueue
  OBVIOUS
<1>4. n \in DOMAIN sockets /\ queue \in Seq(MessageType) /\ queue # << >>
  BY <1>1, <1>3, ConnectionIs DEF Output, HasSocket
<1>5. x \in Process
  BY <1>1, <1>2, <1>4, SocketIs DEF OtherEnd, SocketOf
<1>6. PICK w : w = Append(sockets[n].wire[x], Head(queue))
  OBVIOUS
<1>7. /\ sockets' = [sockets EXCEPT ![n].wire[x] = w]
      /\ connections' = [connections EXCEPT ![p][q].writeQueue = Tail(@)]
      /\ UNCHANGED <<requests, stack, broken, calls, releases, crashes>>
  BY <1>1, <1>2, <1>3, <1>6 DEF Output
<1>8. w \in Seq(MessageType)
  <2>1. sockets[n].wire[x] \in Seq(MessageType) /\ Head(queue) \in MessageType
    BY <1>4, <1>5, SocketIs, HeadTailProperties
  <2>2. QED  BY <1>6, <2>1, AppendProperties
<1>9. sockets' \in Seq(SocketType) /\ Len(sockets') = Len(sockets)
  BY <1>4, <1>7, <1>8, WireChanges
<1>10. PICK t : t = Tail(queue)
  OBVIOUS
<1>11. PICK c : c = [connections[p][q] EXCEPT !.writeQueue = t]
  OBVIOUS
<1>12. /\ c \in ConnectionType /\ c.socket = connections[p][q].socket
       /\ connections' = [connections EXCEPT ![p][q] = c]
  <2>1. connections[p][q] \in ConnectionType /\ t \in Seq(MessageType)
    BY <1>4, <1>10, ConnectionIs, HeadTailProperties
  <2>2. c \in ConnectionType /\ c.socket = connections[p][q].socket
    BY <1>11, <2>1 DEF ConnectionType
  <2>3. QED  BY <1>3, <1>7, <1>10, <1>11, <2>2
<1>13. ConnectionsType'
  BY <1>9, <1>12, ConnectionChanges
<1>14. QED
  BY <1>7, <1>9, <1>13 DEF TypeInv, RequestsType, StackType, WaitsHaveParsers, CallsType

LEMMA InputTypes ==
  ASSUME TypeInv, NEW p \in Process, NEW q \in Process, Input(p, q)
  PROVE  TypeInv'
<1>1. PICK n : n = connections[p][q].socket
  OBVIOUS
<1>2. PICK w : w = sockets[n].wire[p]
  OBVIOUS
<1>3. /\ n \in DOMAIN sockets /\ Push(p, LoopFrame(q, w, << >>))
      /\ sockets' = [sockets EXCEPT ![n].wire[p] = << >>]
      /\ UNCHANGED <<connections, requests, broken, calls, releases, crashes>>
  BY <1>1, <1>2, ConnectionIs DEF Input, HasSocket, SocketOf
<1>4. w \in Seq(MessageType) /\ << >> \in Seq(MessageType)
  BY <1>2, <1>3, SocketIs, EmptySeq
<1>5. sockets' \in Seq(SocketType) /\ Len(sockets') = Len(sockets)
  BY <1>3, <1>4, WireChanges
<1>6. StackType' /\ WaitsHaveParsers'
  BY <1>3, <1>4, PushedLoop
<1>7. QED  BY <1>3, <1>5, <1>6 DEF TypeInv, RequestsType, ConnectionsType, CallsType

LEMMA HangupTypes ==
  ASSUME TypeInv, NEW p \in Process, NEW q \in Process, Hangup(p, q)
  PROVE  TypeInv'
<1>1. PICK c : c = [connections[p][q] EXCEPT !.socket = 0]
  OBVIOUS
<1>2. /\ connections' = [connections EXCEPT ![p][q] = c]
      /\ UNCHANGED <<sockets, requests, stack, broken, calls, releases, crashes>>
  BY <1>1 DEF Hangup
<1>3. c \in ConnectionType /\ c.socket = 0
  <2>1. connections[p][q] \in ConnectionType
    BY ConnectionIs
  <2>2. QED  BY <1>1, <2>1 DEF ConnectionType
<1>4. ConnectionsType'
  BY <1>2, <1>3, ConnectionChanges
<1>5. QED
  BY <1>2, <1>4 DEF TypeInv, RequestsType, StackType, WaitsHaveParsers, CallsType

LEMMA AcceptTypes ==
  ASSUME TypeInv, NEW p \in Process, NEW n \in DOMAIN sockets, Accept(p, n)
  PROVE  TypeInv'
<1>1. PICK q : q = Image[sockets[n].from]
  OBVIOUS
<1>2. PICK old : old = connections[p][q].socket
  OBVIOUS
<1>3. /\ sockets' = [s \in DOMAIN sockets |->
            CASE s = n   -> [sockets[s] EXCEPT !.accepted = TRUE]
              [] s = old -> Closed(sockets[s])
              [] OTHER   -> sockets[s]]
      /\ connections' = [connections EXCEPT ![p][q] = [NewConnection EXCEPT !.socket = n]]
      /\ broken' = IF \E i \in DOMAIN stack[p] :
                        stack[p][i].kind = "loop" /\ stack[p][i].peer = q
                     THEN broken \cup {p} ELSE broken
      /\ UNCHANGED <<requests, stack, calls, releases, crashes>>
  BY <1>1, <1>2 DEF Accept
<1>4. q \in Process /\ n \in Nat
  BY <1>1, SocketIs, ProcessAssumption
<1>5. sockets' \in Seq(SocketType) /\ Len(sockets') = Len(sockets)
  <2>1. ASSUME NEW s \in DOMAIN sockets PROVE sockets'[s] \in SocketType
    <3>1. sockets[s] \in SocketType /\ Closed(sockets[s]) \in SocketType
      BY SocketIs, ClosedType
    <3>2. [sockets[s] EXCEPT !.accepted = TRUE] \in SocketType
      BY <3>1 DEF SocketType
    <3>3. QED  BY <1>3, <3>1, <3>2
  <2>2. PICK S : S = sockets'
    OBVIOUS
  <2>3. DOMAIN S = DOMAIN sockets /\ S = [s \in DOMAIN S |-> S[s]]
    BY <1>3, <2>2
  <2>4. QED  BY <2>1, <2>2, <2>3, SocketsChange
<1>6. ConnectionsType'
  <2>1. PICK c : c = [NewConnection EXCEPT !.socket = n]
    OBVIOUS
  <2>2. c \in ConnectionType /\ c.socket = n
    BY <1>4, <2>1, NewConnectionType DEF ConnectionType
  <2>3. /\ connections \in [Process -> [Process -> ConnectionType]]
        /\ \A r, x \in Process : connections[r][x].socket <= Len(sockets)
    BY DEF TypeInv, ConnectionsType
  <2>4. /\ connections'[p][q] = c
        /\ \A r, x \in Process : <<r, x>> # <<p, q>> => connections'[r][x] = connections[r][x]
        /\ connections' \in [Process -> [Process -> ConnectionType]]
    BY <1>3, <1>4, <2>1, <2>2, <2>3
  <2>5. n <= Len(sockets)
    BY SocketIs
  <2>6. ASSUME NEW r \in Process, NEW x \in Process
        PROVE  connections'[r][x].socket <= Len(sockets')
    <3>1. CASE <<r, x>> = <<p, q>>
      BY <1>5, <2>2, <2>4, <2>5, <3>1
    <3>2. CASE <<r, x>> # <<p, q>>
      BY <1>5, <2>3, <2>4, <3>2
    <3>3. QED  BY <3>1, <3>2
  <2>7. QED  BY <2>4, <2>6 DEF ConnectionsType
<1>7. broken' \subseteq Process
  BY <1>3 DEF TypeInv
<1>8. QED
  BY <1>3, <1>5, <1>6, <1>7 DEF TypeInv, RequestsType, StackType, WaitsHaveParsers, CallsType

\* The message in hand and what is left after it.
LEMMA CurrentIs ==
  ASSUME TypeInv, NEW p \in Process, NEW types, Turn(p, types)
  PROVE  /\ Current(p) \in MessageType /\ Rest(p) \in Seq(MessageType)
         /\ Current(p).type \in types
         /\ Current(p).type \in Request \cup Outcome
         /\ Current(p).serial \in Nat /\ Current(p).call \in Nat
         /\ Top(p).peer \in Process /\ Looping(p)
         /\ Conn(p) \in ConnectionType
         /\ Counted(p) \in ConnectionType /\ Counted(p).socket = Conn(p).socket
         /\ Counted(p).readTask = << >> /\ Counted(p).readSerial = Conn(p).readSerial + 1
         /\ Counted(p).writeSerial = Conn(p).writeSerial
         /\ Counted(p).writeQueue = Conn(p).writeQueue
         /\ Conn(p).readSerial \in Nat
<1>1. /\ Looping(p) /\ Top(p).rest # << >> /\ Current(p).type \in types
  BY DEF Turn
<1>2. Top(p).peer \in Process /\ Top(p).rest \in Seq(MessageType)
  BY <1>1, TopIs DEF Looping
<1>3. /\ Conn(p) \in ConnectionType /\ Conn(p).readTask \in Seq(MessageType)
      /\ Conn(p).readSerial \in Nat
  BY <1>2, ConnectionIs DEF Conn
<1>4. Head(Top(p).rest) \in MessageType /\ Tail(Top(p).rest) \in Seq(MessageType)
  BY <1>1, <1>2, HeadTailProperties
<1>5. Conn(p).readTask # << >> => Conn(p).readTask[1] \in MessageType
  BY <1>3, EmptySeq, ElementOfSeq
<1>6. Current(p) \in MessageType /\ Rest(p) \in Seq(MessageType)
  BY <1>2, <1>4, <1>5 DEF Current, Rest, Redispatch
<1>7. /\ Current(p).type \in Request \cup Outcome
      /\ Current(p).serial \in Nat /\ Current(p).call \in Nat
  BY <1>6 DEF MessageType
<1>8. /\ Counted(p) \in ConnectionType /\ Counted(p).socket = Conn(p).socket
      /\ Counted(p).readTask = << >> /\ Counted(p).readSerial = Conn(p).readSerial + 1
      /\ Counted(p).writeSerial = Conn(p).writeSerial
      /\ Counted(p).writeQueue = Conn(p).writeQueue
  <2>1. PICK c \in ConnectionType : c = Conn(p)
    BY <1>3
  <2>2. PICK k \in Nat : k = c.readSerial + 1
    BY <2>1 DEF ConnectionType
  <2>3. Counted(p) = [c EXCEPT !.readSerial = k, !.readTask = << >>]
    BY <2>1, <2>2 DEF Counted
  <2>4. << >> \in Seq(MessageType)
    BY EmptySeq
  <2>5. QED  BY <2>1, <2>2, <2>3, <2>4 DEF ConnectionType
<1>9. QED  BY <1>1, <1>2, <1>3, <1>6, <1>7, <1>8

LEMMA DispatchInvokeTypes ==
  ASSUME TypeInv, NEW p \in Process, DispatchInvoke(p)
  PROVE  TypeInv'
<1>1. PICK m : m = Current(p)
  OBVIOUS
<1>2. PICK q : q = Top(p).peer
  OBVIOUS
<1>3. PICK serving : serving = <<[serial |-> Conn(p).readSerial, call |-> m.call]>>
  OBVIOUS
<1>4. PICK c : c = [Counted(p) EXCEPT !.readTask = <<m>>]
  OBVIOUS
<1>5. /\ Turn(p, {"invoke"})
      /\ connections' = [connections EXCEPT ![p][q] = c]
      /\ SetTop(p, LoopFrame(q, Rest(p), serving))
      /\ calls' = [calls EXCEPT ![m.call].run = "running", ![m.call].runs = @ + 1]
      /\ UNCHANGED <<sockets, requests, broken, releases, crashes>>
  BY <1>1, <1>2, <1>3, <1>4 DEF DispatchInvoke
<1>6. /\ m \in MessageType /\ m.call \in Nat /\ q \in Process /\ Looping(p)
      /\ Rest(p) \in Seq(MessageType) /\ Conn(p).readSerial \in Nat
      /\ Counted(p) \in ConnectionType /\ Counted(p).socket = connections[p][q].socket
  BY <1>1, <1>2, <1>5, CurrentIs DEF Conn
<1>7. serving \in Seq(ServedType)
  BY <1>3, <1>6 DEF ServedType
<1>8. c \in ConnectionType /\ c.socket = connections[p][q].socket
  <2>1. <<m>> \in Seq(MessageType)
    BY <1>6
  <2>2. QED  BY <1>4, <1>6, <2>1 DEF ConnectionType
<1>9. ConnectionsType'
  BY <1>5, <1>6, <1>8, ConnectionChanges
<1>10. StackType' /\ WaitsHaveParsers'
  BY <1>5, <1>6, <1>7, SetLoop
<1>11. CallsType'
  <2>1. PICK d \in Nat : d = m.call
    BY <1>6
  <2>2. calls' = [calls EXCEPT ![d].run = "running", ![d].runs = @ + 1]
    BY <1>5, <2>1
  <2>3. QED  BY <2>2, OneCallChanges, UnansweredType
<1>12. QED  BY <1>5, <1>9, <1>10, <1>11 DEF TypeInv, RequestsType

LEMMA DispatchRefusedTypes ==
  ASSUME TypeInv, NEW p \in Process, DispatchRefused(p)
  PROVE  TypeInv'
<1>1. PICK m : m = Current(p)
  OBVIOUS
<1>2. PICK q : q = Top(p).peer
  OBVIOUS
<1>3. /\ Turn(p, Request)
      /\ SendOn(p, q, Counted(p), Message("exception", Conn(p).readSerial, m.call))
      /\ calls' = IF m.type = "invoke" THEN [calls EXCEPT ![m.call].run = "exception"] ELSE calls
      /\ SetTop(p, LoopFrame(q, Rest(p), << >>))
      /\ UNCHANGED <<requests, broken, releases, crashes>>
  BY <1>1, <1>2 DEF DispatchRefused
<1>4. /\ m \in MessageType /\ m.call \in Nat /\ q \in Process /\ Looping(p)
      /\ Rest(p) \in Seq(MessageType) /\ Conn(p).readSerial \in Nat
      /\ Counted(p) \in ConnectionType /\ Counted(p).socket = connections[p][q].socket
  BY <1>1, <1>2, <1>3, CurrentIs DEF Conn
<1>5. ConnectionsType' /\ sockets' \in Seq(SocketType)
  BY <1>3, <1>4, Sent DEF Outcome
<1>6. StackType' /\ WaitsHaveParsers'
  <2>1. << >> \in Seq(ServedType)
    BY EmptySeq
  <2>2. QED  BY <1>3, <1>4, <2>1, SetLoop
<1>7. CallsType'
  <2>1. CASE m.type = "invoke"
    <3>1. calls' = [calls EXCEPT ![m.call].run = "exception"]
      BY <1>3, <2>1
    <3>2. QED  BY <3>1, OneCallChanges, UnansweredType DEF Outcome
  <2>2. CASE m.type # "invoke"
    BY <1>3, <2>2 DEF TypeInv, CallsType
  <2>3. QED  BY <2>1, <2>2
<1>8. QED  BY <1>3, <1>5, <1>6, <1>7 DEF TypeInv, RequestsType

LEMMA DispatchAnswerTypes ==
  ASSUME TypeInv, NEW p \in Process, DispatchAnswer(p)
  PROVE  TypeInv'
<1>1. PICK m : m = Current(p)
  OBVIOUS
<1>2. PICK q : q = Top(p).peer
  OBVIOUS
<1>3. PICK table : table = requests[p][q]
  OBVIOUS
<1>4. PICK told : told = [s \in DOMAIN table |->
                            IF s = m.serial THEN Told(table[s], m) ELSE table[s]]
  OBVIOUS
<1>5. /\ Turn(p, Outcome)
      /\ requests' = [requests EXCEPT ![p][q] = told]
      /\ connections' = [connections EXCEPT ![p][q] = Counted(p)]
      /\ SetTop(p, LoopFrame(q, Rest(p), << >>))
      /\ UNCHANGED <<sockets, broken, calls, releases, crashes>>
  BY <1>1, <1>2, <1>3, <1>4 DEF DispatchAnswer
<1>6. /\ m \in MessageType /\ m.type \in Outcome /\ m.call \in Nat
      /\ q \in Process /\ Looping(p) /\ Rest(p) \in Seq(MessageType)
      /\ Counted(p) \in ConnectionType /\ Counted(p).socket = connections[p][q].socket
  BY <1>1, <1>2, <1>5, CurrentIs DEF Conn
<1>7. requests \in [Process -> [Process -> Tables]]
  BY DEF TypeInv, RequestsType
<1>8. told \in Tables /\ DOMAIN told = DOMAIN table
  <2> table \in Tables
    BY <1>3, <1>6, <1>7
  <2>1. PICK D \in SUBSET Nat : table \in [D -> ParserType]
    BY DEF Tables
  <2>2. ASSUME NEW s \in D PROVE Told(table[s], m) \in ParserType
    BY <1>6, <2>1 DEF Told, ParserType
  <2>3. told \in [D -> ParserType]
    BY <1>4, <2>1, <2>2
  <2>4. QED  BY <1>4, <2>3 DEF Tables
<1>9. /\ requests' \in [Process -> [Process -> Tables]] /\ requests'[p][q] = told
      /\ \A x, y \in Process : <<x, y>> # <<p, q>> => requests'[x][y] = requests[x][y]
  BY <1>5, <1>6, <1>7, <1>8
<1>10. ASSUME NEW x \in Process, NEW y \in Process
       PROVE  DOMAIN requests[x][y] \subseteq DOMAIN requests'[x][y]
  BY <1>3, <1>8, <1>9
<1>11. ConnectionsType'
  BY <1>5, <1>6, ConnectionChanges
<1>12. StackType' /\ WaitsHaveParsers'
  <2>1. << >> \in Seq(ServedType)
    BY EmptySeq
  <2>2. QED  BY <1>5, <1>6, <1>10, <2>1, SetLoop
<1>13. QED  BY <1>5, <1>9, <1>11, <1>12 DEF TypeInv, RequestsType, CallsType

LEMMA MethodReturnsTypes ==
  ASSUME TypeInv, NEW p \in Process, NEW outcome \in Outcome, MethodReturns(p, outcome)
  PROVE  TypeInv'
<1>1. PICK served : served = Top(p).serving[1]
  OBVIOUS
<1>2. PICK q : q = Top(p).peer
  OBVIOUS
<1>3. PICK c : c = [Conn(p) EXCEPT !.readTask = << >>]
  OBVIOUS
<1>4. /\ Serving(p)
      /\ SendOn(p, q, c, Message(outcome, served.serial, served.call))
      /\ calls' = [calls EXCEPT ![served.call].run = outcome]
      /\ SetTop(p, LoopFrame(q, Top(p).rest, << >>))
      /\ UNCHANGED <<requests, broken, releases, crashes>>
  BY <1>1, <1>2, <1>3 DEF MethodReturns
<1>5. /\ Looping(p) /\ q \in Process /\ Top(p).rest \in Seq(MessageType)
      /\ Top(p).serving \in Seq(ServedType) /\ Top(p).serving # << >>
  BY <1>2, <1>4, TopIs DEF Serving, Looping
<1>6. served.serial \in Nat /\ served.call \in Nat
  <2>1. served \in ServedType
    BY <1>1, <1>5, EmptySeq, ElementOfSeq
  <2>2. QED  BY <2>1 DEF ServedType
<1>7. c \in ConnectionType /\ c.socket = connections[p][q].socket
  <2>1. << >> \in Seq(MessageType) /\ Conn(p) \in ConnectionType
    BY <1>2, <1>5, EmptySeq, ConnectionIs DEF Conn
  <2>2. QED  BY <1>2, <1>3, <2>1 DEF ConnectionType, Conn
<1>8. ConnectionsType' /\ sockets' \in Seq(SocketType)
  BY <1>4, <1>5, <1>6, <1>7, Sent
<1>9. StackType' /\ WaitsHaveParsers'
  <2>1. << >> \in Seq(ServedType)
    BY EmptySeq
  <2>2. QED  BY <1>4, <1>5, <2>1, SetLoop
<1>10. CallsType'
  BY <1>4, OneCallChanges, UnansweredType
<1>11. QED  BY <1>4, <1>8, <1>9, <1>10 DEF TypeInv, RequestsType

LEMMA LoopEndsTypes ==
  ASSUME TypeInv, NEW p \in Process, LoopEnds(p)
  PROVE  TypeInv'
<1>1. /\ ~Idle(p) /\ Pop(p)
      /\ UNCHANGED <<connections, sockets, requests, broken, calls, releases, crashes>>
  BY DEF LoopEnds, Looping
<1>2. StackType' /\ WaitsHaveParsers'
  BY <1>1, PoppedWaits
<1>3. QED  BY <1>1, <1>2 DEF TypeInv, ConnectionsType, RequestsType, CallsType

\* p's sockets close, its objects and frames go.
LEMMA EndsTypes ==
  ASSUME TypeInv, NEW p \in Process, Ends(p), crashes' \in 0 .. MaxCrashes
  PROVE  TypeInv'
<1>1. /\ connections' = [connections EXCEPT ![p] = [q \in Process |-> NewConnection]]
      /\ sockets' = [s \in DOMAIN sockets |->
           IF p \in {sockets[s].from, sockets[s].to}
             THEN [Closed(sockets[s]) EXCEPT
                     !.orphan = @ \/ (~sockets[s].accepted /\ sockets[s].from = p),
                     !.accepted = @ \/ sockets[s].to = p]
             ELSE sockets[s]]
      /\ requests' = [requests EXCEPT ![p] = [q \in Process |-> << >>]]
      /\ stack' = [stack EXCEPT ![p] = << >>]
      /\ broken' = broken \ {p}
      /\ calls' = [c \in DOMAIN calls |->
           IF c \in Served(p) THEN [calls[c] EXCEPT !.run = "lost"] ELSE calls[c]]
      /\ UNCHANGED releases
  BY DEF Ends
<1>2. sockets' \in Seq(SocketType) /\ Len(sockets') = Len(sockets)
  <2>1. ASSUME NEW s \in DOMAIN sockets PROVE sockets'[s] \in SocketType
    <3>1. PICK t \in SocketType : t = Closed(sockets[s])
      BY SocketIs, ClosedType
    <3>2. PICK o \in BOOLEAN : o = (t.orphan \/ (~sockets[s].accepted /\ sockets[s].from = p))
      OBVIOUS
    <3>3. PICK a \in BOOLEAN : a = (t.accepted \/ sockets[s].to = p)
      OBVIOUS
    <3>4. [t EXCEPT !.orphan = o, !.accepted = a] \in SocketType
      BY DEF SocketType
    <3>5. sockets'[s] \in {sockets[s], [t EXCEPT !.orphan = o, !.accepted = a]}
      BY <1>1, <3>1, <3>2, <3>3
    <3>6. QED  BY <3>4, <3>5, SocketIs
  <2>2. PICK S : S = sockets'
    OBVIOUS
  <2>3. DOMAIN S = DOMAIN sockets /\ S = [s \in DOMAIN S |-> S[s]]
    BY <1>1, <2>2
  <2>4. QED  BY <2>1, <2>2, <2>3, SocketsChange
<1>3. ConnectionsType'
  <2>1. /\ connections \in [Process -> [Process -> ConnectionType]] /\ Len(sockets) \in Nat
        /\ \A r, x \in Process : connections[r][x].socket <= Len(sockets)
    BY LenProperties DEF TypeInv, ConnectionsType
  <2>2. NewConnection \in ConnectionType /\ NewConnection.socket = 0
    BY NewConnectionType DEF NewConnection
  <2>3. /\ connections' \in [Process -> [Process -> ConnectionType]]
        /\ \A x \in Process : connections'[p][x] = NewConnection
        /\ \A r \in Process \ {p} : connections'[r] = connections[r]
    BY <1>1, <2>1, <2>2
  <2>4. ASSUME NEW r \in Process, NEW x \in Process
        PROVE  connections'[r][x].socket <= Len(sockets')
    BY <1>2, <2>1, <2>2, <2>3
  <2>5. QED  BY <2>3, <2>4 DEF ConnectionsType
<1>4. RequestsType'
  <2>1. requests \in [Process -> [Process -> Tables]]
    BY DEF TypeInv, RequestsType
  <2>2. [q \in Process |-> << >>] \in [Process -> Tables]
    BY EmptyTable
  <2>3. QED  BY <1>1, <2>1, <2>2 DEF RequestsType
<1>5. /\ StackType' /\ stack'[p] = << >>
      /\ \A r \in Process \ {p} : stack'[r] = stack[r] /\ requests'[r] = requests[r]
  <2>1. stack \in [Process -> Seq(FrameType)] /\ << >> \in Seq(FrameType)
    BY EmptySeq DEF TypeInv, StackType
  <2>2. requests \in [Process -> [Process -> Tables]]
    BY DEF TypeInv, RequestsType
  <2>3. QED  BY <1>1, <2>1, <2>2 DEF StackType
<1>6. WaitsHaveParsers'
  <2> SUFFICES ASSUME NEW r \in Process, NEW i \in DOMAIN stack'[r], stack'[r][i].kind = "wait"
               PROVE  stack'[r][i].serial \in DOMAIN requests'[r][stack'[r][i].peer]
    BY DEF WaitsHaveParsers
  <2>1. r # p
    <3>1. Len(<< >>) = 0 /\ DOMAIN << >> = {}
      OBVIOUS
    <3>2. QED  BY <1>5, <3>1
  <2>2. QED  BY <1>5, <2>1 DEF TypeInv, WaitsHaveParsers
<1>7. CallsType'
  <2>1. ASSUME NEW c \in DOMAIN calls PROVE calls'[c] \in CallType
    <3>1. calls[c] \in CallType
      BY CallIs
    <3>2. [calls[c] EXCEPT !.run = "lost"] \in CallType
      BY <3>1 DEF CallType
    <3>3. QED  BY <1>1, <3>1, <3>2
  <2>2. PICK S : S = calls'
    OBVIOUS
  <2>3. DOMAIN S = DOMAIN calls /\ S = [c \in DOMAIN S |-> S[c]]
    BY <1>1, <2>2
  <2>4. QED  BY <2>1, <2>2, <2>3, CallsChange
<1>8. broken' \subseteq Process /\ releases' \in 0 .. MaxReleases
  BY <1>1 DEF TypeInv
<1>9. QED  BY <1>2, <1>3, <1>4, <1>5, <1>6, <1>7, <1>8 DEF TypeInv

LEMMA AcceptOrphanTypes ==
  ASSUME TypeInv, NEW p \in Process, NEW n \in DOMAIN sockets, AcceptOrphan(p, n)
  PROVE  TypeInv'
<1>1. CASE Len(stack[p]) > 1
  <2>1. PICK answer : answer = [outcome |-> "timeout", of |-> Top(p).call]
    OBVIOUS
  <2>2. /\ sockets' = [sockets EXCEPT ![n].accepted = TRUE]
        /\ calls' = [calls EXCEPT ![Top(p).call].answer = answer] /\ Pop(p)
        /\ UNCHANGED <<connections, requests, broken, releases, crashes>>
    BY <1>1, <2>1 DEF AcceptOrphan
  <2>3. Waiting(p)
    BY <1>1, StackIs DEF AcceptOrphan, Polling
  <2>4. answer \in ParserType /\ ~Idle(p)
    BY <2>1, <2>3, AwaitedIs DEF ParserType
  <2>5. CallsType'
    BY <2>2, <2>4, OneCallChanges
  <2>6. StackType' /\ WaitsHaveParsers'
    BY <2>2, <2>4, PoppedWaits
  <2>7. sockets' \in Seq(SocketType) /\ Len(sockets') = Len(sockets)
    <3>1. ASSUME NEW s \in DOMAIN sockets PROVE sockets'[s] \in SocketType
      <4>1. sockets[s] \in SocketType
        BY SocketIs
      <4>2. [sockets[s] EXCEPT !.accepted = TRUE] \in SocketType
        BY <4>1 DEF SocketType
      <4>3. QED  BY <2>2, <4>1, <4>2
    <3>2. PICK S : S = sockets'
      OBVIOUS
    <3>3. DOMAIN S = DOMAIN sockets /\ S = [s \in DOMAIN S |-> S[s]]
      BY <2>2, <3>2
    <3>4. QED  BY <3>1, <3>2, <3>3, SocketsChange
  <2>8. QED  BY <2>2, <2>5, <2>6, <2>7 DEF TypeInv, ConnectionsType, RequestsType
<1>2. CASE ~(Len(stack[p]) > 1)
  BY <1>2, EndsTypes DEF AcceptOrphan, TypeInv
<1>3. QED  BY <1>1, <1>2

LEMMA CrashTypes ==
  ASSUME TypeInv, NEW p \in Process, Crash(p)
  PROVE  TypeInv'
<1>1. crashes' \in 0 .. MaxCrashes
  BY ProcessAssumption DEF Crash, TypeInv
<1>2. QED  BY <1>1, EndsTypes DEF Crash

LEMMA TypeInvInit == Init => TypeInv
<1> SUFFICES ASSUME Init PROVE TypeInv
  OBVIOUS
<1>1. << >> \in Seq(SocketType) /\ Len(<< >>) = 0 /\ << >> \in Seq(CallType)
      /\ << >> \in Seq(FrameType) /\ DOMAIN << >> = {}
  BY EmptySeq
<1>2. ConnectionsType
  <2>1. NewConnection.socket = 0
    BY DEF NewConnection
  <2>2. QED  BY <1>1, <2>1, NewConnectionType DEF Init, ConnectionsType
<1>3. RequestsType
  BY EmptyTable DEF Init, RequestsType
<1>4. StackType /\ WaitsHaveParsers
  BY <1>1 DEF Init, StackType, WaitsHaveParsers
<1>5. QED  BY <1>1, <1>2, <1>3, <1>4, ProcessAssumption DEF Init, TypeInv, CallsType

LEMMA TypeInvStep == ASSUME TypeInv, [Next]_vars PROVE TypeInv'
<1>1. ASSUME NEW p \in Process, NEW q \in Process,
             Invoke(p, q) \/ Release(p, q) \/ Output(p, q) \/ Input(p, q) \/ Hangup(p, q)
      PROVE  TypeInv'
  BY <1>1, InvokeTypes, ReleaseTypes, OutputTypes, InputTypes, HangupTypes
<1>2. ASSUME NEW p \in Process, NEW n \in DOMAIN sockets, Accept(p, n) \/ AcceptOrphan(p, n)
      PROVE  TypeInv'
  BY <1>2, AcceptTypes, AcceptOrphanTypes
<1>3. ASSUME NEW p \in Process,
             \/ WaitReturns(p) \/ WaitTimesOut(p)
             \/ DispatchInvoke(p) \/ DispatchRefused(p) \/ DispatchAnswer(p)
             \/ LoopEnds(p) \/ Crash(p)
      PROVE  TypeInv'
  BY <1>3, WaitReturnsTypes, WaitTimesOutTypes, DispatchInvokeTypes, DispatchRefusedTypes,
     DispatchAnswerTypes, LoopEndsTypes, CrashTypes
<1>4. ASSUME NEW p \in Process, NEW outcome \in Outcome, MethodReturns(p, outcome)
      PROVE  TypeInv'
  BY <1>4, MethodReturnsTypes
<1>5. CASE UNCHANGED vars
  BY <1>5 DEF vars, TypeInv, ConnectionsType, RequestsType, StackType, WaitsHaveParsers, CallsType
<1>6. QED  BY <1>1, <1>2, <1>3, <1>4, <1>5 DEF Next

LEMMA TypeInvImplies == TypeInv => TypeOK
<1> SUFFICES ASSUME TypeInv PROVE TypeOK
  OBVIOUS
<1>1. ASSUME NEW p \in Process, NEW q \in Process, NEW s \in DOMAIN requests[p][q]
      PROVE  s \in Nat /\ requests[p][q][s] \in ParserType
  <2>1. PICK table \in Tables : table = requests[p][q]
    BY DEF TypeInv, RequestsType
  <2>2. QED  BY <1>1, <2>1 DEF Tables
<1>2. QED
  BY <1>1 DEF TypeInv, TypeOK, ConnectionsType, StackType, WaitsHaveParsers, CallsType

\* Every variable keeps its type and every wait has a parser to wait for, in any
\* network: the table, the stack, the sockets and the history agree however handlers
\* nest and processes end (Session::Send, WaitResponse, AddConnection).
THEOREM SessionTypeCorrect == Spec => []TypeOK
<1>1. Init => TypeInv
  BY TypeInvInit
<1>2. TypeInv /\ [Next]_vars => TypeInv'
  BY TypeInvStep
<1>3. QED  BY <1>1, <1>2, TypeInvImplies, PTL DEF Spec

------------------------------------------------------------------------------
\* Methods run once.  A message is dispatched a second time only from a read task
\* that a loop further out left there (Redispatch); as long as none is, each
\* invocation is taken out of wherever it is, once.

TakenAnew == \A p \in Process : Looping(p) /\ ~Serving(p) => ~Redispatch(p)

\* Messages of a queue, a wire or a loop, and the places an invocation can be in.
Invokes(messages, k, c) ==
  k \in DOMAIN messages /\ messages[k].type = "invoke" /\ messages[k].call = c
InQueue(p, q, k, c) ==
  p \in Process /\ q \in Process /\ Invokes(connections[p][q].writeQueue, k, c)
InWire(n, q, k, c) ==
  n \in DOMAIN sockets /\ q \in Process /\ Invokes(sockets[n].wire[q], k, c)
ReadIn(p, i, k, c) ==
  p \in Process /\ i \in DOMAIN stack[p] /\ stack[p][i].kind = "loop"
                /\ Invokes(stack[p][i].rest, k, c)
UnderWay(at, a, b, k, c) ==
  \/ at = "queue" /\ InQueue(a, b, k, c)
  \/ at = "wire" /\ InWire(a, b, k, c)
  \/ at = "loop" /\ ReadIn(a, b, k, c)

\* No two invocations under way are of one call, and none is of a call that was
\* begun; the methods on the stacks were begun; a call begins once.
OnePlace ==
  \A c : \A at, a, b, k, at2, a2, b2, k2 :
    UnderWay(at, a, b, k, c) /\ UnderWay(at2, a2, b2, k2, c)
      => at = at2 /\ a = a2 /\ b = b2 /\ k = k2
NoneBegun ==
  \A at, a, b, k, c : UnderWay(at, a, b, k, c) => c \in DOMAIN calls /\ calls[c].run = "sent"
MethodsBegun ==
  \A p \in Process : \A i \in DOMAIN stack[p] :
    stack[p][i].kind = "loop" /\ stack[p][i].serving # << >> =>
      /\ stack[p][i].serving[1].call \in DOMAIN calls
      /\ calls[stack[p][i].serving[1].call].run # "sent"
BegunOnce ==
  \A c \in DOMAIN calls :
    calls[c].runs \in {0, 1} /\ (calls[c].run = "sent" => calls[c].runs = 0)

OnceInv == OnePlace /\ NoneBegun /\ MethodsBegun /\ BegunOnce

\* What most steps do: messages stay or go, loops keep theirs, and no call is begun.
QueuesKeep ==
  \A p, q \in Process : \A k, c :
    Invokes(connections'[p][q].writeQueue, k, c) => Invokes(connections[p][q].writeQueue, k, c)
WiresKeep ==
  \A n \in DOMAIN sockets' : \A q \in Process : \A k, c :
    Invokes(sockets'[n].wire[q], k, c) => n \in DOMAIN sockets /\ Invokes(sockets[n].wire[q], k, c)
FramesKeep ==
  \A p \in Process : \A i \in DOMAIN stack'[p] : stack'[p][i].kind = "loop" =>
    /\ i \in DOMAIN stack[p] /\ stack[p][i].kind = "loop"
    /\ stack'[p][i].rest = stack[p][i].rest
    /\ stack'[p][i].serving \in {stack[p][i].serving, << >>}
CallsKeep ==
  /\ DOMAIN calls' = DOMAIN calls
  /\ \A c \in DOMAIN calls :
       /\ calls'[c].runs = calls[c].runs
       /\ calls'[c].run = calls[c].run \/ "sent" \notin {calls[c].run, calls'[c].run}

LEMMA QuietStep ==
  ASSUME OnceInv, QueuesKeep, WiresKeep, FramesKeep, CallsKeep
  PROVE  OnceInv'
<1>1. ASSUME NEW at, NEW a, NEW b, NEW k, NEW c, UnderWay(at, a, b, k, c)'
      PROVE  UnderWay(at, a, b, k, c)
  <2>1. InQueue(a, b, k, c)' => InQueue(a, b, k, c)
    BY DEF QueuesKeep, InQueue
  <2>2. InWire(a, b, k, c)' => InWire(a, b, k, c)
    BY DEF WiresKeep, InWire
  <2>3. ReadIn(a, b, k, c)' => ReadIn(a, b, k, c)
    BY DEF FramesKeep, ReadIn
  <2>4. QED  BY <1>1, <2>1, <2>2, <2>3 DEF UnderWay
<1>2. OnePlace'
  BY <1>1 DEF OnceInv, OnePlace
<1>3. NoneBegun'
  BY <1>1 DEF OnceInv, NoneBegun, CallsKeep
<1>4. MethodsBegun'
  BY DEF OnceInv, MethodsBegun, FramesKeep, CallsKeep
<1>5. BegunOnce'
  BY DEF OnceInv, BegunOnce, CallsKeep
<1>6. QED  BY <1>2, <1>3, <1>4, <1>5 DEF OnceInv

\* Frames after a push, a pop and a new top.
LEMMA FramesPushed ==
  ASSUME TypeInv, NEW p \in Process, NEW f \in FrameType, Push(p, f)
  PROVE  \A r \in Process : \A i \in DOMAIN stack'[r] :
           \/ i \in DOMAIN stack[r] /\ stack'[r][i] = stack[r][i]
           \/ r = p /\ i = Len(stack[p]) + 1 /\ stack'[r][i] = f
<1>1. /\ Len(stack[p]) \in Nat /\ DOMAIN stack'[p] = 1 .. Len(stack[p]) + 1
      /\ stack'[p][Len(stack[p]) + 1] = f
      /\ \A i \in 1 .. Len(stack[p]) : stack'[p][i] = stack[p][i]
      /\ \A r \in Process \ {p} : stack'[r] = stack[r]
  BY Pushed
<1>2. DOMAIN stack[p] = 1 .. Len(stack[p])
  BY StackIs
<1>3. QED  BY <1>1, <1>2

LEMMA FramesPopped ==
  ASSUME TypeInv, NEW p \in Process, ~Idle(p), Pop(p)
  PROVE  \A r \in Process : \A i \in DOMAIN stack'[r] :
           i \in DOMAIN stack[r] /\ stack'[r][i] = stack[r][i]
<1>1. /\ DOMAIN stack'[p] = 1 .. Len(stack[p]) - 1
      /\ \A i \in 1 .. Len(stack[p]) - 1 : stack'[p][i] = stack[p][i]
      /\ \A r \in Process \ {p} : stack'[r] = stack[r]
  BY Popped
<1>2. DOMAIN stack[p] = 1 .. Len(stack[p]) /\ Len(stack[p]) \in Nat
  BY StackIs
<1>3. QED  BY <1>1, <1>2

LEMMA FramesSet ==
  ASSUME TypeInv, NEW p \in Process, ~Idle(p), NEW f \in FrameType, SetTop(p, f)
  PROVE  /\ \A r \in Process : DOMAIN stack'[r] = DOMAIN stack[r]
         /\ Len(stack[p]) \in DOMAIN stack[p] /\ Top(p) = stack[p][Len(stack[p])]
         /\ stack'[p][Len(stack[p])] = f
         /\ \A r \in Process : \A i \in DOMAIN stack'[r] :
              r # p \/ i # Len(stack[p]) => stack'[r][i] = stack[r][i]
<1>1. /\ DOMAIN stack'[p] = 1 .. Len(stack[p])
      /\ stack'[p][Len(stack[p])] = f
      /\ \A i \in 1 .. Len(stack[p]) - 1 : stack'[p][i] = stack[p][i]
      /\ \A r \in Process \ {p} : stack'[r] = stack[r]
  BY TopSet
<1>2. DOMAIN stack[p] = 1 .. Len(stack[p]) /\ Len(stack[p]) \in Nat \ {0}
  BY StackIs
<1>3. QED  BY <1>1, <1>2 DEF Top

LEMMA PoppedKeeps ==
  ASSUME TypeInv, NEW p \in Process, ~Idle(p), Pop(p)
  PROVE  FramesKeep
  BY FramesPopped DEF FramesKeep

LEMMA AnsweredKeeps ==
  ASSUME NEW c, NEW answer, calls' = [calls EXCEPT ![c].answer = answer], TypeInv
  PROVE  CallsKeep
<1>1. \A d \in DOMAIN calls : calls[d] \in CallType
  BY CallIs
<1>2. QED  BY <1>1 DEF CallsKeep, CallType

\* A message more that is no invocation.
LEMMA AppendedKeeps ==
  ASSUME NEW queue \in Seq(MessageType), NEW m \in MessageType, NEW k, NEW c,
         Invokes(Append(queue, m), k, c)
  PROVE  \/ Invokes(queue, k, c)
         \/ k = Len(queue) + 1 /\ m.type = "invoke" /\ m.call = c
<1>1. /\ Len(Append(queue, m)) = Len(queue) + 1 /\ Append(queue, m) \in Seq(MessageType)
      /\ \A i \in 1 .. Len(queue) : Append(queue, m)[i] = queue[i]
      /\ Append(queue, m)[Len(queue) + 1] = m
  BY AppendProperties
<1>2. /\ DOMAIN Append(queue, m) = 1 .. Len(queue) + 1 /\ DOMAIN queue = 1 .. Len(queue)
      /\ Len(queue) \in Nat
  BY <1>1, LenProperties
<1>3. QED  BY <1>1, <1>2 DEF Invokes

LEMMA NoneInvoked == \A k, c : ~Invokes(<< >>, k, c)
<1>1. DOMAIN << >> = {}
  OBVIOUS
<1>2. QED  BY <1>1 DEF Invokes

\* Sending leaves the wires there are as they are; a new one is empty.
LEMMA SentWires ==
  ASSUME TypeInv, NEW p \in Process, NEW q \in Process, NEW c \in ConnectionType,
         c.socket = connections[p][q].socket,
         NEW type \in Request \cup Outcome, NEW serial \in Nat, NEW call \in Nat,
         SendOn(p, q, c, Message(type, serial, call))
  PROVE  WiresKeep
<1>1. /\ sockets' \in Seq(SocketType) /\ Len(sockets') \in Nat
      /\ c.socket # 0 => sockets' = sockets
      /\ c.socket = 0 => /\ Len(sockets') = Len(sockets) + 1
                         /\ sockets'[Len(sockets) + 1] = NewSocket(p, q)
      /\ \A n \in DOMAIN sockets : sockets'[n] = sockets[n]
  BY Sent
<1>2. /\ DOMAIN sockets' = 1 .. Len(sockets')
      /\ DOMAIN sockets = 1 .. Len(sockets) /\ Len(sockets) \in Nat
  BY <1>1, LenProperties, ConnectionIs
<1>3. ASSUME NEW n \in DOMAIN sockets', NEW x \in Process, NEW k, NEW d,
             Invokes(sockets'[n].wire[x], k, d)
      PROVE  n \in DOMAIN sockets /\ Invokes(sockets[n].wire[x], k, d)
  <2>1. CASE n \in DOMAIN sockets
    BY <1>1, <1>3, <2>1
  <2>2. CASE n \notin DOMAIN sockets
    <3>1. c.socket = 0
      BY <1>1, <2>2
    <3>2. n = Len(sockets) + 1
      BY <1>1, <1>2, <2>2, <3>1
    <3>3. sockets'[n].wire[x] = << >>
      BY <1>1, <3>1, <3>2 DEF NewSocket
    <3>4. QED  BY <1>3, <3>3, NoneInvoked
  <2>3. QED  BY <2>1, <2>2
<1>4. QED  BY <1>3 DEF WiresKeep

\* It puts one message behind those of the queue.
LEMMA SentLast ==
  ASSUME TypeInv, NEW p \in Process, NEW q \in Process, NEW c \in ConnectionType,
         c.socket = connections[p][q].socket,
         NEW type \in Request \cup Outcome, NEW serial \in Nat, NEW call \in Nat,
         SendOn(p, q, c, Message(type, serial, call))
  PROVE  /\ \E m \in MessageType :
              /\ m.type = type /\ m.call = call
              /\ connections'[p][q].writeQueue = Append(c.writeQueue, m)
         /\ \A r, x \in Process : <<r, x>> # <<p, q>> => connections'[r][x] = connections[r][x]
<1>1. connections'[p][q].writeQueue =
        Append(c.writeQueue, Numbered(Message(type, serial, call), c.writeSerial))
  <2>1. /\ c \in [socket : Nat, writeQueue : Seq(MessageType), writeSerial : Nat,
                  readSerial : Nat, readTask : Seq(MessageType)]
        /\ connections \in [Process -> [Process -> ConnectionType]]
    BY DEF ConnectionType, TypeInv, ConnectionsType
  <2>2. QED  BY <2>1 DEF SendOn
<1>2. Numbered(Message(type, serial, call), c.writeSerial) \in MessageType
  BY Sent
<1>3. \A r, x \in Process : <<r, x>> # <<p, q>> => connections'[r][x] = connections[r][x]
  BY Sent
<1>4. /\ Numbered(Message(type, serial, call), c.writeSerial).type = type
      /\ Numbered(Message(type, serial, call), c.writeSerial).call = call
  BY DEF Numbered, Message
<1>5. QED  BY <1>1, <1>2, <1>3, <1>4

LEMMA SentKeeps ==
  ASSUME TypeInv, NEW p \in Process, NEW q \in Process, NEW c \in ConnectionType,
         c.socket = connections[p][q].socket, c.writeQueue = connections[p][q].writeQueue,
         NEW type \in {"release"} \cup Outcome, NEW serial \in Nat, NEW call \in Nat,
         SendOn(p, q, c, Message(type, serial, call))
  PROVE  QueuesKeep /\ WiresKeep
<1>1. type \in Request \cup Outcome /\ type # "invoke"
  BY DEF Request, Outcome
<1>2. /\ \E m \in MessageType :
           /\ m.type = type /\ m.call = call
           /\ connections'[p][q].writeQueue = Append(c.writeQueue, m)
      /\ \A r, x \in Process : <<r, x>> # <<p, q>> => connections'[r][x] = connections[r][x]
  BY <1>1, SentLast
<1>3. PICK m \in MessageType : /\ m.type = type
                              /\ connections'[p][q].writeQueue = Append(c.writeQueue, m)
  BY <1>2
<1>4. QueuesKeep
  <2> SUFFICES ASSUME NEW r \in Process, NEW x \in Process, NEW k, NEW d,
                      Invokes(connections'[r][x].writeQueue, k, d)
               PROVE  Invokes(connections[r][x].writeQueue, k, d)
    BY DEF QueuesKeep
  <2>1. CASE <<r, x>> # <<p, q>>
    BY <1>2, <2>1
  <2>2. CASE r = p /\ x = q
    <3>1. connections[p][q].writeQueue \in Seq(MessageType)
      BY ConnectionIs
    <3>2. Invokes(Append(connections[p][q].writeQueue, m), k, d)
      BY <1>3, <2>2
    <3>3. QED  BY <1>1, <1>3, <2>2, <3>1, <3>2, AppendedKeeps
  <2>3. QED  BY <2>1, <2>2
<1>5. WiresKeep
  BY <1>1, SentWires
<1>6. QED  BY <1>4, <1>5

\* One turn of p's innermost loop, before its effect on the calls: the message in
\* hand is the loop's first, and is no longer under way.
LEMMA TurnTakes ==
  ASSUME TypeInv, OnceInv, TakenAnew, NEW p \in Process, NEW types, Turn(p, types),
         NEW serving \in Seq(ServedType),
         SetTop(p, LoopFrame(Top(p).peer, Rest(p), serving)), QueuesKeep, WiresKeep
  PROVE  /\ OnePlace'
         /\ Current(p).type = "invoke" =>
              Current(p).call \in DOMAIN calls /\ calls[Current(p).call].run = "sent"
         /\ \A at, a, b, k, c : UnderWay(at, a, b, k, c)' =>
              /\ c \in DOMAIN calls /\ calls[c].run = "sent"
              /\ ~(Current(p).type = "invoke" /\ Current(p).call = c)
<1> PICK n : n = Len(stack[p])
  OBVIOUS
<1> PICK f : f = LoopFrame(Top(p).peer, Rest(p), serving)
  OBVIOUS
<1> PICK rest : rest = Top(p).rest
  OBVIOUS
<1>1. /\ ~Idle(p) /\ Looping(p) /\ ~Serving(p) /\ rest # << >> /\ Top(p).kind = "loop"
  BY DEF Turn, Looping
<1>2. ~Redispatch(p)
  BY <1>1 DEF TakenAnew
<1>3. rest \in Seq(MessageType) /\ Top(p).peer \in Process
  BY <1>1, TopIs
<1>4. Current(p) = rest[1] /\ Rest(p) = Tail(rest)
  BY <1>2, <1>3, <1>1 DEF Current, Rest
<1>5. /\ Len(rest) \in Nat /\ DOMAIN rest = 1 .. Len(rest) /\ 1 \in DOMAIN rest
      /\ DOMAIN Tail(rest) = 1 .. Len(rest) - 1
      /\ \A k \in 1 .. Len(rest) - 1 : Tail(rest)[k] = rest[k + 1]
  <2>1. Len(rest) \in Nat /\ DOMAIN rest = 1 .. Len(rest)
    BY <1>3, LenProperties
  <2>2. Len(rest) # 0
    BY <1>1, <1>3, EmptySeq
  <2>3. /\ Tail(rest) \in Seq(MessageType) /\ Len(Tail(rest)) = Len(rest) - 1
        /\ \A k \in 1 .. Len(Tail(rest)) : Tail(rest)[k] = rest[k + 1]
    BY <1>1, <1>3, HeadTailProperties
  <2>4. DOMAIN Tail(rest) = 1 .. Len(Tail(rest))
    BY <2>3, LenProperties
  <2>5. 1 \in DOMAIN rest
    BY <2>1, <2>2
  <2>6. QED  BY <2>1, <2>3, <2>4, <2>5
<1>6. f \in FrameType /\ f.kind = "loop" /\ f.rest = Tail(rest)
  <2>1. Rest(p) \in Seq(MessageType)
    BY CurrentIs
  <2>2. f \in FrameType
    BY <1>3, <2>1, FrameTypes
  <2>3. QED  BY <1>4, <2>2 DEF LoopFrame
<1>7. /\ \A r \in Process : DOMAIN stack'[r] = DOMAIN stack[r]
      /\ n \in DOMAIN stack[p] /\ Top(p) = stack[p][n] /\ stack'[p][n] = f
      /\ \A r \in Process : \A i \in DOMAIN stack'[r] :
           r # p \/ i # n => stack'[r][i] = stack[r][i]
  BY <1>1, <1>6, FramesSet
<1>8. ASSUME NEW at, NEW a, NEW b, NEW k, NEW c, UnderWay(at, a, b, k, c)'
      PROVE  \/ /\ at = "loop" /\ a = p /\ b = n /\ k \in Nat \ {0}
                /\ UnderWay(at, a, b, k + 1, c)
             \/ ~(at = "loop" /\ a = p /\ b = n) /\ UnderWay(at, a, b, k, c)
  <2>1. InQueue(a, b, k, c)' => InQueue(a, b, k, c)
    BY DEF QueuesKeep, InQueue
  <2>2. InWire(a, b, k, c)' => InWire(a, b, k, c)
    BY DEF WiresKeep, InWire
  <2>3. ASSUME ReadIn(a, b, k, c)', ~(a = p /\ b = n) PROVE ReadIn(a, b, k, c)
    BY <1>7, <2>3 DEF ReadIn
  <2>4. ASSUME ReadIn(a, b, k, c)', a = p, b = n
        PROVE  k \in Nat \ {0} /\ ReadIn(a, b, k + 1, c)
    <3>1. Invokes(Tail(rest), k, c)
      BY <1>6, <1>7, <2>4 DEF ReadIn
    <3>2. k \in 1 .. Len(rest) - 1
      BY <1>5, <3>1 DEF Invokes
    <3>3. k \in Nat \ {0} /\ k + 1 \in DOMAIN rest /\ Tail(rest)[k] = rest[k + 1]
      BY <1>5, <3>2
    <3>4. Invokes(rest, k + 1, c)
      BY <3>1, <3>3 DEF Invokes
    <3>5. QED  BY <1>1, <1>7, <2>4, <3>3, <3>4 DEF ReadIn
  <2>5. CASE at = "loop"
    BY <1>8, <2>3, <2>4, <2>5 DEF UnderWay
  <2>6. CASE at # "loop"
    BY <1>8, <2>1, <2>2, <2>6 DEF UnderWay
  <2>7. QED  BY <2>5, <2>6
<1>9. ASSUME Current(p).type = "invoke" PROVE UnderWay("loop", p, n, 1, Current(p).call)
  <2>1. Invokes(rest, 1, Current(p).call)
    BY <1>4, <1>5, <1>9 DEF Invokes
  <2>2. QED  BY <1>1, <1>7, <2>1 DEF UnderWay, ReadIn
<1>10. OnePlace'
  <2> SUFFICES ASSUME NEW c, NEW at, NEW a, NEW b, NEW k, NEW at2, NEW a2, NEW b2, NEW k2,
                      UnderWay(at, a, b, k, c)', UnderWay(at2, a2, b2, k2, c)'
               PROVE  at = at2 /\ a = a2 /\ b = b2 /\ k = k2
    BY DEF OnePlace
  <2>1. PICK j : /\ UnderWay(at, a, b, j, c)
                 /\ \/ at = "loop" /\ a = p /\ b = n /\ k \in Nat \ {0} /\ j = k + 1
                    \/ ~(at = "loop" /\ a = p /\ b = n) /\ j = k
    BY <1>8
  <2>2. PICK j2 : /\ UnderWay(at2, a2, b2, j2, c)
                  /\ \/ at2 = "loop" /\ a2 = p /\ b2 = n /\ k2 \in Nat \ {0} /\ j2 = k2 + 1
                     \/ ~(at2 = "loop" /\ a2 = p /\ b2 = n) /\ j2 = k2
    BY <1>8
  <2>3. at = at2 /\ a = a2 /\ b = b2 /\ j = j2
    BY <2>1, <2>2 DEF OnceInv, OnePlace
  <2>4. QED  BY <2>1, <2>2, <2>3
<1>11. ASSUME NEW at, NEW a, NEW b, NEW k, NEW c, UnderWay(at, a, b, k, c)'
       PROVE  /\ c \in DOMAIN calls /\ calls[c].run = "sent"
              /\ ~(Current(p).type = "invoke" /\ Current(p).call = c)
  <2>1. PICK j : /\ UnderWay(at, a, b, j, c)
                 /\ at = "loop" /\ a = p /\ b = n => j # 1
    <3>1. \A i \in Nat \ {0} : i + 1 # 1
      OBVIOUS
    <3>2. QED  BY <1>8, <1>11, <3>1
  <2>2. c \in DOMAIN calls /\ calls[c].run = "sent"
    BY <2>1 DEF OnceInv, NoneBegun
  <2>3. ASSUME Current(p).type = "invoke", Current(p).call = c PROVE FALSE
    <3>1. UnderWay("loop", p, n, 1, c)
      BY <1>9, <2>3
    <3>2. QED  BY <2>1, <3>1 DEF OnceInv, OnePlace
  <2>4. QED  BY <2>2, <2>3
<1>12. Current(p).type = "invoke" =>
         Current(p).call \in DOMAIN calls /\ calls[Current(p).call].run = "sent"
  BY <1>9 DEF OnceInv, NoneBegun
<1>13. QED  BY <1>10, <1>11, <1>12

\* The frames of such a turn: only the new top may be serving.
LEMMA TurnServes ==
  ASSUME TypeInv, OnceInv, NEW p \in Process, NEW types, Turn(p, types),
         NEW serving \in Seq(ServedType),
         SetTop(p, LoopFrame(Top(p).peer, Rest(p), serving)),
         serving # << >> =>
           serving[1].call \in DOMAIN calls' /\ calls'[serving[1].call].run # "sent",
         \A c \in DOMAIN calls : /\ c \in DOMAIN calls'
                                 /\ calls[c].run # "sent" => calls'[c].run # "sent"
  PROVE  MethodsBegun'
<1>1. ~Idle(p)
  BY DEF Turn, Looping
<1>2. PICK f : f = LoopFrame(Top(p).peer, Rest(p), serving)
  OBVIOUS
<1>3. f \in FrameType /\ f.serving = serving
  <2>1. Rest(p) \in Seq(MessageType) /\ Top(p).peer \in Process
    BY CurrentIs
  <2>2. f \in FrameType
    BY <1>2, <2>1, FrameTypes
  <2>3. QED  BY <1>2, <2>2 DEF LoopFrame
<1>4. /\ stack'[p][Len(stack[p])] = f
      /\ \A r \in Process : DOMAIN stack'[r] = DOMAIN stack[r]
      /\ \A r \in Process : \A i \in DOMAIN stack'[r] :
           r # p \/ i # Len(stack[p]) => stack'[r][i] = stack[r][i]
  BY <1>1, <1>2, <1>3, FramesSet
<1>5. ASSUME NEW r \in Process, NEW i \in DOMAIN stack'[r],
             stack'[r][i].kind = "loop", stack'[r][i].serving # << >>
      PROVE  /\ stack'[r][i].serving[1].call \in DOMAIN calls'
             /\ calls'[stack'[r][i].serving[1].call].run # "sent"
  <2>1. CASE r = p /\ i = Len(stack[p])
    BY <1>3, <1>4, <1>5, <2>1
  <2>2. CASE r # p \/ i # Len(stack[p])
    <3>1. i \in DOMAIN stack[r] /\ stack'[r][i] = stack[r][i]
      BY <1>4, <2>2
    <3>2. QED  BY <1>5, <3>1 DEF OnceInv, MethodsBegun
  <2>3. QED  BY <2>1, <2>2
<1>6. QED  BY <1>5 DEF MethodsBegun

LEMMA ConnectionKeeps ==
  ASSUME TypeInv, NEW p \in Process, NEW q \in Process, NEW c,
         c.writeQueue = connections[p][q].writeQueue \/ c.writeQueue = << >>,
         connections' = [connections EXCEPT ![p][q] = c]
  PROVE  QueuesKeep
<1>1. /\ connections'[p][q] = c
      /\ \A r, x \in Process : <<r, x>> # <<p, q>> => connections'[r][x] = connections[r][x]
  BY DEF TypeInv, ConnectionsType
<1>2. ASSUME NEW r \in Process, NEW x \in Process, NEW k, NEW d,
             Invokes(connections'[r][x].writeQueue, k, d)
      PROVE  Invokes(connections[r][x].writeQueue, k, d)
  <2>1. CASE <<r, x>> # <<p, q>>
    BY <1>1, <1>2, <2>1
  <2>2. CASE r = p /\ x = q
    BY <1>1, <1>2, <2>2, NoneInvoked
  <2>3. QED  BY <2>1, <2>2
<1>3. QED  BY <1>2 DEF QueuesKeep

LEMMA DispatchInvokeOnce ==
  ASSUME TypeInv, OnceInv, TakenAnew, NEW p \in Process, DispatchInvoke(p)
  PROVE  OnceInv'
<1> PICK m : m = Current(p)
  OBVIOUS
<1> PICK q : q = Top(p).peer
  OBVIOUS
<1> PICK serving : serving = <<[serial |-> Conn(p).readSerial, call |-> m.call]>>
  OBVIOUS
<1> PICK e : e = [Counted(p) EXCEPT !.readTask = <<m>>]
  OBVIOUS
<1>1. /\ Turn(p, {"invoke"})
      /\ connections' = [connections EXCEPT ![p][q] = e]
      /\ SetTop(p, LoopFrame(q, Rest(p), serving))
      /\ calls' = [calls EXCEPT ![m.call].run = "running", ![m.call].runs = @ + 1]
      /\ sockets' = sockets
  BY DEF DispatchInvoke
<1>2. /\ m.type = "invoke" /\ m.call \in Nat /\ q \in Process
      /\ Counted(p) \in ConnectionType /\ Conn(p).readSerial \in Nat
      /\ Counted(p).writeQueue = connections[p][q].writeQueue
  BY <1>1, CurrentIs DEF Conn
<1>3. serving \in Seq(ServedType) /\ serving # << >> /\ serving[1].call = m.call
  BY <1>2 DEF ServedType
<1>4. e.writeQueue = connections[p][q].writeQueue
  BY <1>2 DEF ConnectionType
<1>5. QueuesKeep /\ WiresKeep
  BY <1>1, <1>2, <1>4, ConnectionKeeps DEF WiresKeep
<1>6. SetTop(p, LoopFrame(Top(p).peer, Rest(p), serving))
  BY <1>1
<1>7. /\ OnePlace'
      /\ Current(p).type = "invoke" =>
           Current(p).call \in DOMAIN calls /\ calls[Current(p).call].run = "sent"
      /\ \A at, a, b, k, c : UnderWay(at, a, b, k, c)' =>
           /\ c \in DOMAIN calls /\ calls[c].run = "sent"
           /\ ~(Current(p).type = "invoke" /\ Current(p).call = c)
  BY <1>1, <1>3, <1>5, <1>6, TurnTakes
<1>8. m.call \in DOMAIN calls /\ calls[m.call].run = "sent"
  BY <1>2, <1>7
<1>9. \A at, a, b, k, d : UnderWay(at, a, b, k, d)' =>
        d \in DOMAIN calls /\ calls[d].run = "sent" /\ d # m.call
  BY <1>2, <1>7
<1>10. /\ DOMAIN calls' = DOMAIN calls
       /\ \A d \in DOMAIN calls : d # m.call => calls'[d] = calls[d]
       /\ calls'[m.call].run = "running" /\ calls'[m.call].runs = calls[m.call].runs + 1
  <2>1. calls[m.call] \in CallType
    BY <1>8, CallIs
  <2>2. QED  BY <1>1, <1>8, <2>1 DEF CallType
<1>11. NoneBegun'
  BY <1>9, <1>10 DEF NoneBegun
<1>12. MethodsBegun'
  <2>1. \A d \in DOMAIN calls : /\ d \in DOMAIN calls'
                                /\ calls[d].run # "sent" => calls'[d].run # "sent"
    BY <1>10
  <2>2. serving[1].call \in DOMAIN calls' /\ calls'[serving[1].call].run # "sent"
    BY <1>3, <1>8, <1>10
  <2>3. QED  BY <1>1, <1>3, <1>6, <2>1, <2>2, TurnServes
<1>13. BegunOnce'
  <2>1. calls[m.call].runs = 0
    BY <1>8 DEF OnceInv, BegunOnce
  <2>2. calls'[m.call].runs = 1
    BY <1>10, <2>1
  <2>3. QED  BY <1>10, <2>2 DEF OnceInv, BegunOnce
<1>14. QED  BY <1>7, <1>11, <1>12, <1>13 DEF OnceInv

LEMMA DispatchRefusedOnce ==
  ASSUME TypeInv, OnceInv, TakenAnew, NEW p \in Process, DispatchRefused(p)
  PROVE  OnceInv'
<1> PICK m : m = Current(p)
  OBVIOUS
<1> PICK q : q = Top(p).peer
  OBVIOUS
<1>1. /\ Turn(p, Request)
      /\ SendOn(p, q, Counted(p), Message("exception", Conn(p).readSerial, m.call))
      /\ calls' = IF m.type = "invoke" THEN [calls EXCEPT ![m.call].run = "exception"] ELSE calls
      /\ SetTop(p, LoopFrame(Top(p).peer, Rest(p), << >>))
  BY DEF DispatchRefused
<1>2. /\ q \in Process /\ Conn(p).readSerial \in Nat /\ m.call \in Nat
      /\ Counted(p) \in ConnectionType /\ Counted(p).socket = connections[p][q].socket
      /\ Counted(p).writeQueue = connections[p][q].writeQueue
  BY <1>1, CurrentIs DEF Conn
<1>3. << >> \in Seq(ServedType)
  BY EmptySeq
<1>4. QueuesKeep /\ WiresKeep
  BY <1>1, <1>2, SentKeeps DEF Outcome
<1>5. /\ OnePlace'
      /\ Current(p).type = "invoke" =>
           Current(p).call \in DOMAIN calls /\ calls[Current(p).call].run = "sent"
      /\ \A at, a, b, k, c : UnderWay(at, a, b, k, c)' =>
           /\ c \in DOMAIN calls /\ calls[c].run = "sent"
           /\ ~(Current(p).type = "invoke" /\ Current(p).call = c)
  BY <1>1, <1>3, <1>4, TurnTakes
<1>6. m.type = "invoke" => m.call \in DOMAIN calls /\ calls[m.call].run = "sent"
  BY <1>5
<1>7. \A at, a, b, k, d : UnderWay(at, a, b, k, d)' =>
        /\ d \in DOMAIN calls /\ calls[d].run = "sent"
        /\ ~(m.type = "invoke" /\ m.call = d)
  BY <1>5
<1>8. /\ DOMAIN calls' = DOMAIN calls
      /\ \A d \in DOMAIN calls :
           /\ calls'[d].runs = calls[d].runs
           /\ calls'[d].run = calls[d].run \/ calls'[d].run = "exception"
           /\ ~(m.type = "invoke" /\ m.call = d) => calls'[d] = calls[d]
  <2>1. \A d \in DOMAIN calls : calls[d] \in CallType
    BY CallIs
  <2>2. CASE m.type = "invoke"
    BY <1>1, <2>1, <2>2 DEF CallType
  <2>3. CASE m.type # "invoke"
    BY <1>1, <2>3
  <2>4. QED  BY <2>2, <2>3
<1>9. NoneBegun'
  BY <1>7, <1>8 DEF NoneBegun
<1>10. MethodsBegun'
  BY <1>1, <1>3, <1>8, TurnServes
<1>11. BegunOnce'
  BY <1>8 DEF OnceInv, BegunOnce
<1>12. QED  BY <1>5, <1>9, <1>10, <1>11 DEF OnceInv

LEMMA DispatchAnswerOnce ==
  ASSUME TypeInv, OnceInv, TakenAnew, NEW p \in Process, DispatchAnswer(p)
  PROVE  OnceInv'
<1> PICK q : q = Top(p).peer
  OBVIOUS
<1> PICK e : e = Counted(p)
  OBVIOUS
<1>1. /\ Turn(p, Outcome)
      /\ connections' = [connections EXCEPT ![p][q] = e]
      /\ SetTop(p, LoopFrame(Top(p).peer, Rest(p), << >>))
      /\ sockets' = sockets /\ calls' = calls
  BY DEF DispatchAnswer
<1>2. q \in Process /\ e.writeQueue = connections[p][q].writeQueue
  BY <1>1, CurrentIs DEF Conn
<1>3. << >> \in Seq(ServedType)
  BY EmptySeq
<1>4. QueuesKeep /\ WiresKeep
  BY <1>1, <1>2, ConnectionKeeps DEF WiresKeep
<1>5. /\ OnePlace'
      /\ Current(p).type = "invoke" =>
           Current(p).call \in DOMAIN calls /\ calls[Current(p).call].run = "sent"
      /\ \A at, a, b, k, c : UnderWay(at, a, b, k, c)' =>
           /\ c \in DOMAIN calls /\ calls[c].run = "sent"
           /\ ~(Current(p).type = "invoke" /\ Current(p).call = c)
  BY <1>1, <1>3, <1>4, TurnTakes
<1>6. \A at, a, b, k, d : UnderWay(at, a, b, k, d)' => d \in DOMAIN calls /\ calls[d].run = "sent"
  BY <1>5
<1>7. MethodsBegun'
  BY <1>1, <1>3, TurnServes
<1>8. QED  BY <1>1, <1>5, <1>6, <1>7 DEF OnceInv, NoneBegun, BegunOnce

\* The answer of a method tells of a call that was begun.
LEMMA MethodReturnsOnce ==
  ASSUME TypeInv, OnceInv, NEW p \in Process, NEW outcome \in Outcome, MethodReturns(p, outcome)
  PROVE  OnceInv'
<1> PICK served : served = Top(p).serving[1]
  OBVIOUS
<1> PICK q : q = Top(p).peer
  OBVIOUS
<1> PICK c : c = [Conn(p) EXCEPT !.readTask = << >>]
  OBVIOUS
<1> PICK f : f = LoopFrame(q, Top(p).rest, << >>)
  OBVIOUS
<1>1. /\ Serving(p)
      /\ SendOn(p, q, c, Message(outcome, served.serial, served.call))
      /\ calls' = [calls EXCEPT ![served.call].run = outcome]
      /\ SetTop(p, f)
  BY DEF MethodReturns
<1>2. /\ ~Idle(p) /\ Top(p).kind = "loop" /\ q \in Process /\ Top(p).rest \in Seq(MessageType)
      /\ Top(p).serving \in Seq(ServedType) /\ Top(p).serving # << >>
  BY <1>1, TopIs DEF Serving, Looping
<1>3. served.serial \in Nat /\ served.call \in Nat
  <2>1. served \in ServedType
    BY <1>2, EmptySeq, ElementOfSeq
  <2>2. QED  BY <2>1 DEF ServedType
<1>4. /\ c \in ConnectionType /\ c.socket = connections[p][q].socket
      /\ c.writeQueue = connections[p][q].writeQueue
  <2>1. << >> \in Seq(MessageType) /\ Conn(p) \in ConnectionType /\ Conn(p) = connections[p][q]
    BY <1>2, EmptySeq, ConnectionIs DEF Conn
  <2>2. QED  BY <2>1 DEF ConnectionType
<1>5. QueuesKeep /\ WiresKeep
  BY <1>1, <1>2, <1>3, <1>4, SentKeeps
<1>6. f \in FrameType /\ f.rest = Top(p).rest /\ f.serving = << >>
  <2>1. << >> \in Seq(ServedType)
    BY EmptySeq
  <2>2. f \in FrameType
    BY <1>2, <2>1, FrameTypes
  <2>3. QED  BY <2>2 DEF LoopFrame
<1>7. /\ stack'[p][Len(stack[p])] = f
      /\ Len(stack[p]) \in DOMAIN stack[p] /\ Top(p) = stack[p][Len(stack[p])]
      /\ \A r \in Process : DOMAIN stack'[r] = DOMAIN stack[r]
      /\ \A r \in Process : \A i \in DOMAIN stack'[r] :
           r # p \/ i # Len(stack[p]) => stack'[r][i] = stack[r][i]
  BY <1>1, <1>2, <1>6, FramesSet
<1>8. FramesKeep
  <2> SUFFICES ASSUME NEW r \in Process, NEW i \in DOMAIN stack'[r], stack'[r][i].kind = "loop"
               PROVE  /\ i \in DOMAIN stack[r] /\ stack[r][i].kind = "loop"
                      /\ stack'[r][i].rest = stack[r][i].rest
                      /\ stack'[r][i].serving \in {stack[r][i].serving, << >>}
    BY DEF FramesKeep
  <2>1. CASE r = p /\ i = Len(stack[p])
    BY <1>2, <1>6, <1>7, <2>1
  <2>2. CASE r # p \/ i # Len(stack[p])
    BY <1>7, <2>2
  <2>3. QED  BY <2>1, <2>2
<1>9. served.call \in DOMAIN calls /\ calls[served.call].run # "sent"
  <2>1. PICK i \in DOMAIN stack[p] : i = Len(stack[p]) /\ Top(p) = stack[p][i]
    BY <1>7
  <2>2. stack[p][i].kind = "loop" /\ stack[p][i].serving # << >>
    BY <1>2, <2>1
  <2>3. /\ stack[p][i].serving[1].call \in DOMAIN calls
        /\ calls[stack[p][i].serving[1].call].run # "sent"
    BY <2>2 DEF OnceInv, MethodsBegun
  <2>4. QED  BY <2>1, <2>3
<1>10. CallsKeep
  <2>1. \A d \in DOMAIN calls : calls[d] \in CallType
    BY CallIs
  <2>2. outcome # "sent"
    BY DEF Outcome
  <2>3. QED  BY <1>1, <1>9, <2>1, <2>2 DEF CallsKeep, CallType
<1>11. QED  BY <1>5, <1>8, <1>10, QuietStep

\* The request of a new call is the only message about it.
LEMMA InvokeOnce ==
  ASSUME TypeInv, OnceInv, NEW p \in Process, NEW q \in Process, Invoke(p, q)
  PROVE  OnceInv'
<1>1. PICK c, call, f, new :
        /\ c = connections[p][q] /\ call = Len(calls) + 1
        /\ f = WaitFrame(q, c.writeSerial, call)
        /\ new = [from |-> p, to |-> q, runs |-> 0, run |-> "sent", answer |-> Unanswered]
        /\ SendOn(p, q, c, Message("invoke", 0, call)) /\ Push(p, f)
        /\ calls' = Append(calls, new)
  BY DEF Invoke
<1>2. /\ c \in ConnectionType /\ c.writeQueue \in Seq(MessageType)
      /\ c.writeSerial \in Nat /\ Len(c.writeQueue) \in Nat
  BY <1>1, ConnectionIs, LenProperties
<1>3. /\ calls \in Seq(CallType) /\ Len(calls) \in Nat /\ DOMAIN calls = 1 .. Len(calls)
      /\ call \in Nat /\ call \notin DOMAIN calls
  BY <1>1, LenProperties DEF TypeInv, CallsType
<1>4. new \in CallType /\ new.runs = 0 /\ new.run = "sent"
  BY <1>1, UnansweredType DEF CallType
<1>5. /\ DOMAIN calls' = DOMAIN calls \cup {call} /\ calls'[call] = new
      /\ \A d \in DOMAIN calls : calls'[d] = calls[d]
  <2>1. /\ calls' \in Seq(CallType) /\ Len(calls') = Len(calls) + 1
        /\ \A d \in 1 .. Len(calls) : calls'[d] = calls[d]
        /\ calls'[Len(calls) + 1] = new
    BY <1>1, <1>3, <1>4, AppendProperties
  <2>2. DOMAIN calls' = 1 .. Len(calls')
    BY <2>1, LenProperties
  <2>3. QED  BY <1>1, <1>3, <2>1, <2>2
<1>6. f \in FrameType /\ f.kind = "wait"
  BY <1>1, <1>2, <1>3 DEF WaitFrame, FrameType
<1>7. \A r \in Process : \A i \in DOMAIN stack'[r] :
        \/ i \in DOMAIN stack[r] /\ stack'[r][i] = stack[r][i]
        \/ r = p /\ i = Len(stack[p]) + 1 /\ stack'[r][i] = f
  BY <1>1, <1>6, FramesPushed
<1>8. "invoke" \in Request \cup Outcome
  BY DEF Request
<1>9. PICK m \in MessageType : /\ m.type = "invoke" /\ m.call = call
                               /\ connections'[p][q].writeQueue = Append(c.writeQueue, m)
  <2>1. PICK type : type = "invoke"
    OBVIOUS
  <2>2. type \in Request \cup Outcome /\ c.socket = connections[p][q].socket /\ 0 \in Nat
    BY <1>1, <1>8, <2>1
  <2>3. SendOn(p, q, c, Message(type, 0, call))
    BY <1>1, <2>1
  <2>4. \E m \in MessageType :
          /\ m.type = type /\ m.call = call
          /\ connections'[p][q].writeQueue = Append(c.writeQueue, m)
    BY <1>2, <1>3, <2>2, <2>3, SentLast
  <2>5. QED  BY <2>1, <2>4
<1>10. \A r, x \in Process : <<r, x>> # <<p, q>> => connections'[r][x] = connections[r][x]
  BY <1>1, <1>2, <1>3, <1>8, SentLast
<1>11. WiresKeep
  BY <1>1, <1>2, <1>3, <1>8, SentWires
<1>12. ASSUME NEW at, NEW a, NEW b, NEW k, NEW d, UnderWay(at, a, b, k, d)'
       PROVE  \/ UnderWay(at, a, b, k, d)
              \/ (at = "queue" /\ a = p /\ b = q /\ k = Len(c.writeQueue) + 1 /\ d = call)
  <2>1. InWire(a, b, k, d)' => InWire(a, b, k, d)
    BY <1>11 DEF WiresKeep, InWire
  <2>2. ReadIn(a, b, k, d)' => ReadIn(a, b, k, d)
    BY <1>6, <1>7 DEF ReadIn
  <2>3. ASSUME InQueue(a, b, k, d)', <<a, b>> # <<p, q>> PROVE InQueue(a, b, k, d)
    BY <1>10, <2>3 DEF InQueue
  <2>4. ASSUME InQueue(a, b, k, d)', a = p, b = q
        PROVE  InQueue(a, b, k, d) \/ (k = Len(c.writeQueue) + 1 /\ d = call)
    <3>1. Invokes(Append(c.writeQueue, m), k, d)
      BY <1>9, <2>4 DEF InQueue
    <3>2. Invokes(c.writeQueue, k, d) \/ (k = Len(c.writeQueue) + 1 /\ d = call)
      BY <1>2, <1>9, <3>1, AppendedKeeps
    <3>3. QED  BY <1>1, <2>4, <3>2 DEF InQueue
  <2>5. QED  BY <1>12, <2>1, <2>2, <2>3, <2>4 DEF UnderWay
<1>13. ASSUME NEW at, NEW a, NEW b, NEW k, UnderWay(at, a, b, k, call) PROVE FALSE
  BY <1>3, <1>13 DEF OnceInv, NoneBegun
<1>14. OnePlace'
  <2> SUFFICES ASSUME NEW d, NEW at, NEW a, NEW b, NEW k, NEW at2, NEW a2, NEW b2, NEW k2,
                      UnderWay(at, a, b, k, d)', UnderWay(at2, a2, b2, k2, d)'
               PROVE  at = at2 /\ a = a2 /\ b = b2 /\ k = k2
    BY DEF OnePlace
  <2>1. CASE d = call
    BY <1>12, <1>13, <2>1
  <2>2. CASE d # call
    BY <1>12, <2>2 DEF OnceInv, OnePlace
  <2>3. QED  BY <2>1, <2>2
<1>15. NoneBegun'
  <2> SUFFICES ASSUME NEW at, NEW a, NEW b, NEW k, NEW d, UnderWay(at, a, b, k, d)'
               PROVE  d \in DOMAIN calls' /\ calls'[d].run = "sent"
    BY DEF NoneBegun
  <2>1. CASE UnderWay(at, a, b, k, d)
    BY <1>5, <2>1 DEF OnceInv, NoneBegun
  <2>2. CASE d = call
    BY <1>4, <1>5, <2>2
  <2>3. QED  BY <1>12, <2>1, <2>2
<1>16. MethodsBegun'
  <2> SUFFICES ASSUME NEW r \in Process, NEW i \in DOMAIN stack'[r],
                      stack'[r][i].kind = "loop", stack'[r][i].serving # << >>
               PROVE  /\ stack'[r][i].serving[1].call \in DOMAIN calls'
                      /\ calls'[stack'[r][i].serving[1].call].run # "sent"
    BY DEF MethodsBegun
  <2>1. i \in DOMAIN stack[r] /\ stack'[r][i] = stack[r][i]
    BY <1>6, <1>7
  <2>2. PICK d : d = stack[r][i].serving[1].call
    OBVIOUS
  <2>3. d \in DOMAIN calls /\ calls[d].run # "sent"
    BY <2>1, <2>2 DEF OnceInv, MethodsBegun
  <2>4. d \in DOMAIN calls' /\ calls'[d].run # "sent"
    BY <1>5, <2>3
  <2>5. QED  BY <2>1, <2>2, <2>4
<1>17. BegunOnce'
  BY <1>3, <1>4, <1>5 DEF OnceInv, BegunOnce
<1>18. QED  BY <1>14, <1>15, <1>16, <1>17 DEF OnceInv

\* A message written goes from the front of the queue to the end of the wire.
LEMMA OutputOnce ==
  ASSUME TypeInv, OnceInv, NEW p \in Process, NEW q \in Process, Output(p, q)
  PROVE  OnceInv'
<1>1. PICK n, x, queue : /\ n = connections[p][q].socket /\ x = OtherEnd(p, q)
                         /\ queue = connections[p][q].writeQueue
  OBVIOUS
<1>2. /\ n \in DOMAIN sockets /\ queue \in Seq(MessageType) /\ queue # << >>
      /\ connections[p][q] \in ConnectionType
  BY <1>1, ConnectionIs DEF Output, HasSocket
<1>3. x \in Process
  BY <1>1, <1>2, SocketIs DEF OtherEnd, SocketOf
<1>4. PICK wire, m, w, t : /\ wire = sockets[n].wire[x] /\ m = Head(queue)
                           /\ w = Append(wire, m) /\ t = Tail(queue)
  OBVIOUS
<1>5. /\ wire \in Seq(MessageType) /\ m \in MessageType /\ m = queue[1] /\ w \in Seq(MessageType)
      /\ w = Append(wire, m)
  <2>1. wire \in Seq(MessageType)
    BY <1>2, <1>3, <1>4, SocketIs
  <2>2. m \in MessageType /\ m = queue[1]
    BY <1>2, <1>4, HeadTailProperties
  <2>3. QED  BY <1>4, <2>1, <2>2, AppendProperties
<1>6. /\ DOMAIN queue = 1 .. Len(queue) /\ Len(queue) \in Nat /\ 1 \in DOMAIN queue
      /\ DOMAIN t = 1 .. Len(queue) - 1
      /\ \A k \in 1 .. Len(queue) - 1 : t[k] = queue[k + 1]
  <2>1. DOMAIN queue = 1 .. Len(queue) /\ Len(queue) \in Nat
    BY <1>2, LenProperties
  <2>2. Len(queue) # 0
    BY <1>2, EmptySeq
  <2>3. /\ t \in Seq(MessageType) /\ Len(t) = Len(queue) - 1
        /\ \A k \in 1 .. Len(t) : t[k] = queue[k + 1]
    BY <1>2, <1>4, HeadTailProperties
  <2>4. DOMAIN t = 1 .. Len(t)
    BY <2>3, LenProperties
  <2>5. QED  BY <2>1, <2>2, <2>3, <2>4
<1>7. PICK c : c = [connections[p][q] EXCEPT !.writeQueue = t]
  OBVIOUS
<1>8. /\ sockets' = [sockets EXCEPT ![n].wire[x] = w]
      /\ connections' = [connections EXCEPT ![p][q] = c]
      /\ stack' = stack /\ calls' = calls
  BY <1>1, <1>4, <1>7 DEF Output, TypeInv, ConnectionsType
<1>9. /\ connections'[p][q].writeQueue = t
      /\ \A r, y \in Process : <<r, y>> # <<p, q>> => connections'[r][y] = connections[r][y]
  BY <1>2, <1>7, <1>8 DEF TypeInv, ConnectionsType, ConnectionType
<1>10. /\ DOMAIN sockets' = DOMAIN sockets
       /\ \A s \in DOMAIN sockets : \A y \in Process :
            <<s, y>> # <<n, x>> => sockets'[s].wire[y] = sockets[s].wire[y]
       /\ sockets'[n].wire[x] = w
  <2>1. /\ DOMAIN sockets' = DOMAIN sockets
        /\ \A s \in DOMAIN sockets : s # n => sockets'[s] = sockets[s]
        /\ sockets'[n] = [sockets[n] EXCEPT !.wire = [@ EXCEPT ![x] = w]]
    BY <1>2, <1>5, <1>8, WireChanges
  <2>2. sockets[n] \in SocketType /\ sockets[n].wire \in [Process -> Seq(MessageType)]
    BY <1>2, SocketIs
  <2>3. sockets'[n].wire = [sockets[n].wire EXCEPT ![x] = w]
    BY <2>1, <2>2 DEF SocketType
  <2>4. QED  BY <1>3, <2>1, <2>2, <2>3
<1>11. ASSUME NEW at, NEW a, NEW b, NEW k, NEW d, UnderWay(at, a, b, k, d)'
       PROVE  \/ /\ at = "queue" /\ a = p /\ b = q /\ k \in Nat \ {0}
                 /\ UnderWay("queue", p, q, k + 1, d)
              \/ /\ at = "wire" /\ a = n /\ b = x /\ k = Len(wire) + 1
                 /\ UnderWay("queue", p, q, 1, d)
              \/ ~(at = "queue" /\ a = p /\ b = q) /\ UnderWay(at, a, b, k, d)
  <2>1. CASE at = "loop"
    BY <1>8, <1>11, <2>1 DEF UnderWay, ReadIn
  <2>2. CASE at = "queue"
    <3>1. InQueue(a, b, k, d)'
      BY <1>11, <2>2 DEF UnderWay
    <3>2. CASE <<a, b>> # <<p, q>>
      <4>1. InQueue(a, b, k, d)
        BY <1>9, <3>1, <3>2 DEF InQueue
      <4>2. QED  BY <2>2, <3>2, <4>1 DEF UnderWay
    <3>3. CASE a = p /\ b = q
      <4>1. Invokes(t, k, d)
        BY <1>9, <3>1, <3>3 DEF InQueue
      <4>2. k \in 1 .. Len(queue) - 1
        BY <1>6, <4>1 DEF Invokes
      <4>3. k \in Nat \ {0} /\ k + 1 \in DOMAIN queue /\ t[k] = queue[k + 1]
        BY <1>6, <4>2
      <4>4. Invokes(queue, k + 1, d)
        BY <4>1, <4>3 DEF Invokes
      <4>5. QED  BY <1>1, <2>2, <3>3, <4>3, <4>4 DEF UnderWay, InQueue
    <3>4. QED  BY <3>2, <3>3
  <2>3. CASE at = "wire"
    <3>1. InWire(a, b, k, d)'
      BY <1>11, <2>3 DEF UnderWay
    <3>2. CASE <<a, b>> # <<n, x>>
      <4>1. InWire(a, b, k, d)
        BY <1>10, <3>1, <3>2 DEF InWire
      <4>2. QED  BY <2>3, <4>1 DEF UnderWay
    <3>3. CASE a = n /\ b = x
      <4>1. Invokes(Append(wire, m), k, d)
        BY <1>5, <1>10, <3>1, <3>3 DEF InWire
      <4>2. CASE Invokes(wire, k, d)
        <5>1. InWire(a, b, k, d)
          BY <1>2, <1>3, <1>4, <3>3, <4>2 DEF InWire
        <5>2. QED  BY <2>3, <5>1 DEF UnderWay
      <4>3. CASE k = Len(wire) + 1 /\ m.type = "invoke" /\ m.call = d
        <5>1. Invokes(queue, 1, d)
          BY <1>5, <1>6, <4>3 DEF Invokes
        <5>2. QED  BY <1>1, <2>3, <3>3, <4>3, <5>1 DEF UnderWay, InQueue
      <4>4. QED  BY <1>5, <4>1, <4>2, <4>3, AppendedKeeps
    <3>4. QED  BY <3>2, <3>3
  <2>4. QED  BY <1>11, <2>1, <2>2, <2>3 DEF UnderWay
<1>12. OnePlace'
  <2> SUFFICES ASSUME NEW d, NEW at, NEW a, NEW b, NEW k, NEW at2, NEW a2, NEW b2, NEW k2,
                      UnderWay(at, a, b, k, d)', UnderWay(at2, a2, b2, k2, d)'
               PROVE  at = at2 /\ a = a2 /\ b = b2 /\ k = k2
    BY DEF OnePlace
  <2>1. \A i, j \in Nat \ {0} : i + 1 # 1 /\ (i + 1 = j + 1 => i = j)
    OBVIOUS
  <2>2. CASE at = "queue" /\ a = p /\ b = q
    <3>1. k \in Nat \ {0} /\ UnderWay("queue", p, q, k + 1, d)
      BY <1>11, <2>2
    <3>2. CASE at2 = "queue" /\ a2 = p /\ b2 = q
      <4>1. k2 \in Nat \ {0} /\ UnderWay("queue", p, q, k2 + 1, d)
        BY <1>11, <3>2
      <4>2. k + 1 = k2 + 1
        BY <3>1, <4>1 DEF OnceInv, OnePlace
      <4>3. QED  BY <2>1, <2>2, <3>1, <3>2, <4>1, <4>2
    <3>3. CASE ~(at2 = "queue" /\ a2 = p /\ b2 = q)
      <4>1. UnderWay("queue", p, q, 1, d) \/ UnderWay(at2, a2, b2, k2, d)
        BY <1>11, <3>3
      <4>2. k + 1 = 1 \/ (at2 = "queue" /\ a2 = p /\ b2 = q)
        BY <3>1, <4>1 DEF OnceInv, OnePlace
      <4>3. QED  BY <2>1, <3>1, <3>3, <4>2
    <3>4. QED  BY <3>2, <3>3
  <2>3. CASE ~(at = "queue" /\ a = p /\ b = q)
    <3>1. \/ at = "wire" /\ a = n /\ b = x /\ k = Len(wire) + 1 /\ UnderWay("queue", p, q, 1, d)
          \/ UnderWay(at, a, b, k, d)
      BY <1>11, <2>3
    <3>2. CASE at2 = "queue" /\ a2 = p /\ b2 = q
      <4>1. k2 \in Nat \ {0} /\ UnderWay("queue", p, q, k2 + 1, d)
        BY <1>11, <3>2
      <4>2. k2 + 1 = 1 \/ (at = "queue" /\ a = p /\ b = q)
        BY <3>1, <4>1 DEF OnceInv, OnePlace
      <4>3. QED  BY <2>1, <2>3, <4>1, <4>2
    <3>3. CASE ~(at2 = "queue" /\ a2 = p /\ b2 = q)
      <4>1. \/ /\ at2 = "wire" /\ a2 = n /\ b2 = x /\ k2 = Len(wire) + 1
               /\ UnderWay("queue", p, q, 1, d)
            \/ UnderWay(at2, a2, b2, k2, d)
        BY <1>11, <3>3
      <4>2. QED  BY <2>3, <3>1, <3>3, <4>1 DEF OnceInv, OnePlace
    <3>4. QED  BY <3>2, <3>3
  <2>4. QED  BY <2>2, <2>3
<1>13. NoneBegun'
  <2> SUFFICES ASSUME NEW at, NEW a, NEW b, NEW k, NEW d, UnderWay(at, a, b, k, d)'
               PROVE  d \in DOMAIN calls' /\ calls'[d].run = "sent"
    BY DEF NoneBegun
  <2>1. \E at2, a2, b2, k2 : UnderWay(at2, a2, b2, k2, d)
    BY <1>11
  <2>2. QED  BY <1>8, <2>1 DEF OnceInv, NoneBegun
<1>14. QED  BY <1>8, <1>12, <1>13 DEF OnceInv, MethodsBegun, BegunOnce

\* What was on the wire is what the new loop has to go through.
LEMMA InputOnce ==
  ASSUME TypeInv, OnceInv, NEW p \in Process, NEW q \in Process, Input(p, q)
  PROVE  OnceInv'
<1>1. PICK n, w, f, h : /\ n = connections[p][q].socket /\ w = sockets[n].wire[p]
                        /\ f = LoopFrame(q, w, << >>) /\ h = Len(stack[p]) + 1
  OBVIOUS
<1>2. /\ n \in DOMAIN sockets /\ Push(p, f)
      /\ sockets' = [sockets EXCEPT ![n].wire[p] = << >>]
      /\ connections' = connections /\ calls' = calls
  BY <1>1, ConnectionIs DEF Input, HasSocket, SocketOf
<1>3. w \in Seq(MessageType) /\ << >> \in Seq(MessageType)
  BY <1>1, <1>2, SocketIs, EmptySeq
<1>4. f \in FrameType /\ f.rest = w /\ f.serving = << >>
  <2>1. << >> \in Seq(ServedType)
    BY EmptySeq
  <2>2. f \in FrameType
    BY <1>1, <1>3, <2>1, FrameTypes
  <2>3. QED  BY <1>1, <2>2 DEF LoopFrame
<1>5. \A r \in Process : \A i \in DOMAIN stack'[r] :
        \/ i \in DOMAIN stack[r] /\ stack'[r][i] = stack[r][i]
        \/ r = p /\ i = h /\ stack'[r][i] = f
  <2>1. \A r \in Process : \A i \in DOMAIN stack'[r] :
          \/ i \in DOMAIN stack[r] /\ stack'[r][i] = stack[r][i]
          \/ r = p /\ i = Len(stack[p]) + 1 /\ stack'[r][i] = f
    BY <1>2, <1>4, FramesPushed
  <2>2. QED  BY <1>1, <2>1
<1>6. /\ DOMAIN sockets' = DOMAIN sockets
      /\ \A s \in DOMAIN sockets : \A y \in Process :
           <<s, y>> # <<n, p>> => sockets'[s].wire[y] = sockets[s].wire[y]
      /\ sockets'[n].wire[p] = << >>
  <2>1. /\ DOMAIN sockets' = DOMAIN sockets
        /\ \A s \in DOMAIN sockets : s # n => sockets'[s] = sockets[s]
        /\ sockets'[n] = [sockets[n] EXCEPT !.wire = [@ EXCEPT ![p] = << >>]]
    BY <1>2, <1>3, WireChanges
  <2>2. sockets[n] \in SocketType /\ sockets[n].wire \in [Process -> Seq(MessageType)]
    BY <1>2, SocketIs
  <2>3. sockets'[n].wire = [sockets[n].wire EXCEPT ![p] = << >>]
    BY <2>1, <2>2 DEF SocketType
  <2>4. QED  BY <2>1, <2>2, <2>3
<1>7. h \notin DOMAIN stack[p]
  <2>1. DOMAIN stack[p] = 1 .. Len(stack[p]) /\ Len(stack[p]) \in Nat
    BY StackIs
  <2>2. QED  BY <1>1, <2>1
<1>8. ASSUME NEW at, NEW a, NEW b, NEW k, NEW d, UnderWay(at, a, b, k, d)'
      PROVE  \/ at = "loop" /\ a = p /\ b = h /\ UnderWay("wire", n, p, k, d)
             \/ /\ UnderWay(at, a, b, k, d)
                /\ ~(at = "wire" /\ a = n /\ b = p) /\ ~(at = "loop" /\ a = p /\ b = h)
  <2>1. CASE at = "queue"
    BY <1>2, <1>8, <2>1 DEF UnderWay, InQueue
  <2>2. CASE at = "wire"
    <3>1. InWire(a, b, k, d)'
      BY <1>8, <2>2 DEF UnderWay
    <3>2. <<a, b>> # <<n, p>>
      BY <1>6, <3>1, NoneInvoked DEF InWire
    <3>3. InWire(a, b, k, d)
      BY <1>6, <3>1, <3>2 DEF InWire
    <3>4. QED  BY <2>2, <3>2, <3>3 DEF UnderWay
  <2>3. CASE at = "loop"
    <3>1. ReadIn(a, b, k, d)'
      BY <1>8, <2>3 DEF UnderWay
    <3>2. CASE b \in DOMAIN stack[a] /\ stack'[a][b] = stack[a][b]
      <4>1. ReadIn(a, b, k, d)
        BY <3>1, <3>2 DEF ReadIn
      <4>2. QED  BY <1>7, <2>3, <3>2, <4>1 DEF UnderWay
    <3>3. CASE a = p /\ b = h /\ stack'[a][b] = f
      <4>1. Invokes(w, k, d)
        BY <1>4, <3>1, <3>3 DEF ReadIn
      <4>2. InWire(n, p, k, d)
        BY <1>1, <1>2, <4>1 DEF InWire
      <4>3. QED  BY <2>3, <3>3, <4>2 DEF UnderWay
    <3>4. QED  BY <1>5, <3>1, <3>2, <3>3 DEF ReadIn
  <2>4. QED  BY <1>8, <2>1, <2>2, <2>3 DEF UnderWay
<1>9. OnePlace'
  <2> SUFFICES ASSUME NEW d, NEW at, NEW a, NEW b, NEW k, NEW at2, NEW a2, NEW b2, NEW k2,
                      UnderWay(at, a, b, k, d)', UnderWay(at2, a2, b2, k2, d)'
               PROVE  at = at2 /\ a = a2 /\ b = b2 /\ k = k2
    BY DEF OnePlace
  <2>1. PICK y, g, e : /\ UnderWay(y, g, e, k, d)
                       /\ \/ /\ at = "loop" /\ a = p /\ b = h
                             /\ y = "wire" /\ g = n /\ e = p
                          \/ /\ y = at /\ g = a /\ e = b
                             /\ ~(y = "wire" /\ g = n /\ e = p)
    BY <1>8
  <2>2. PICK y2, g2, e2 : /\ UnderWay(y2, g2, e2, k2, d)
                          /\ \/ /\ at2 = "loop" /\ a2 = p /\ b2 = h
                                /\ y2 = "wire" /\ g2 = n /\ e2 = p
                             \/ /\ y2 = at2 /\ g2 = a2 /\ e2 = b2
                                /\ ~(y2 = "wire" /\ g2 = n /\ e2 = p)
    BY <1>8
  <2>3. y = y2 /\ g = g2 /\ e = e2 /\ k = k2
    BY <2>1, <2>2 DEF OnceInv, OnePlace
  <2>4. QED  BY <2>1, <2>2, <2>3
<1>10. NoneBegun'
  <2> SUFFICES ASSUME NEW at, NEW a, NEW b, NEW k, NEW d, UnderWay(at, a, b, k, d)'
               PROVE  d \in DOMAIN calls' /\ calls'[d].run = "sent"
    BY DEF NoneBegun
  <2>1. \E at2, a2, b2, k2 : UnderWay(at2, a2, b2, k2, d)
    BY <1>8
  <2>2. QED  BY <1>2, <2>1 DEF OnceInv, NoneBegun
<1>11. MethodsBegun'
  BY <1>2, <1>4, <1>5 DEF OnceInv, MethodsBegun
<1>12. QED  BY <1>2, <1>9, <1>10, <1>11 DEF OnceInv, BegunOnce

\* What closes is empty; the object that takes the place of another has sent nothing.
LEMMA AcceptOnce ==
  ASSUME TypeInv, OnceInv, NEW p \in Process, NEW n \in DOMAIN sockets, Accept(p, n)
  PROVE  OnceInv'
<1>1. PICK q, c : q = Image[sockets[n].from] /\ c = [NewConnection EXCEPT !.socket = n]
  OBVIOUS
<1>2. /\ connections' = [connections EXCEPT ![p][q] = c]
      /\ sockets' = [s \in DOMAIN sockets |->
           CASE s = n -> [sockets[s] EXCEPT !.accepted = TRUE]
             [] s = connections[p][q].socket -> Closed(sockets[s])
             [] OTHER -> sockets[s]]
      /\ stack' = stack /\ calls' = calls
  BY <1>1 DEF Accept
<1>3. q \in Process
  <2>1. sockets[n].from \in Process
    BY SocketIs
  <2>2. QED  BY <1>1, <2>1, ProcessAssumption
<1>4. c.writeQueue = << >>
  BY <1>1 DEF NewConnection
<1>5. QueuesKeep
  BY <1>2, <1>3, <1>4, ConnectionKeeps
<1>6. WiresKeep
  <2> SUFFICES ASSUME NEW s \in DOMAIN sockets', NEW x \in Process, NEW k, NEW d,
                      Invokes(sockets'[s].wire[x], k, d)
               PROVE  s \in DOMAIN sockets /\ Invokes(sockets[s].wire[x], k, d)
    BY DEF WiresKeep
  <2>1. s \in DOMAIN sockets /\ sockets[s] \in SocketType
    BY <1>2, SocketIs
  <2>2. \/ sockets'[s] = [sockets[s] EXCEPT !.accepted = TRUE]
        \/ sockets'[s] = Closed(sockets[s])
        \/ sockets'[s] = sockets[s]
    BY <1>2, <2>1
  <2>3. sockets'[s].wire[x] = sockets[s].wire[x] \/ sockets'[s].wire[x] = << >>
    BY <2>1, <2>2, ClosedType DEF SocketType
  <2>4. QED  BY <2>1, <2>3, NoneInvoked
<1>7. FramesKeep /\ CallsKeep
  BY <1>2 DEF FramesKeep, CallsKeep
<1>8. QED  BY <1>5, <1>6, <1>7, QuietStep

\* A process that ends takes its messages with it, and loses methods that were begun.
LEMMA EndsOnce ==
  ASSUME TypeInv, OnceInv, NEW p \in Process, Ends(p)
  PROVE  OnceInv'
<1>1. /\ connections' = [connections EXCEPT ![p] = [q \in Process |-> NewConnection]]
      /\ sockets' = [s \in DOMAIN sockets |->
           IF p \in {sockets[s].from, sockets[s].to}
             THEN [Closed(sockets[s]) EXCEPT
                     !.orphan = @ \/ (~sockets[s].accepted /\ sockets[s].from = p),
                     !.accepted = @ \/ sockets[s].to = p]
             ELSE sockets[s]]
      /\ stack' = [stack EXCEPT ![p] = << >>]
      /\ calls' = [c \in DOMAIN calls |->
           IF c \in Served(p) THEN [calls[c] EXCEPT !.run = "lost"] ELSE calls[c]]
  BY DEF Ends
<1>2. QueuesKeep
  <2>1. /\ \A q \in Process : connections'[p][q].writeQueue = << >>
        /\ \A r \in Process \ {p} : connections'[r] = connections[r]
    BY <1>1 DEF TypeInv, ConnectionsType, NewConnection
  <2>2. QED  BY <2>1, NoneInvoked DEF QueuesKeep
<1>3. WiresKeep
  <2> SUFFICES ASSUME NEW s \in DOMAIN sockets', NEW x \in Process, NEW k, NEW d,
                      Invokes(sockets'[s].wire[x], k, d)
               PROVE  s \in DOMAIN sockets /\ Invokes(sockets[s].wire[x], k, d)
    BY DEF WiresKeep
  <2>1. PICK t : t = Closed(sockets[s])
    OBVIOUS
  <2>2. s \in DOMAIN sockets /\ t \in SocketType /\ t.wire[x] = << >>
    BY <1>1, <2>1, SocketIs, ClosedType
  <2>3. \/ sockets'[s] = sockets[s]
        \/ sockets'[s] = [t EXCEPT
             !.orphan = @ \/ (~sockets[s].accepted /\ sockets[s].from = p),
             !.accepted = @ \/ sockets[s].to = p]
    BY <1>1, <2>1, <2>2
  <2>4. sockets'[s].wire[x] = sockets[s].wire[x] \/ sockets'[s].wire[x] = << >>
    BY <2>2, <2>3 DEF SocketType
  <2>5. QED  BY <2>2, <2>4, NoneInvoked
<1>4. FramesKeep
  <2>1. stack'[p] = << >> /\ \A r \in Process \ {p} : stack'[r] = stack[r]
    BY <1>1 DEF TypeInv, StackType
  <2>2. DOMAIN << >> = {}
    OBVIOUS
  <2>3. QED  BY <2>1, <2>2 DEF FramesKeep
<1>5. CallsKeep
  <2>1. ASSUME NEW c \in Served(p) PROVE c \in DOMAIN calls /\ calls[c].run # "sent"
    BY <2>1 DEF Served, OnceInv, MethodsBegun
  <2>2. DOMAIN calls' = DOMAIN calls
    BY <1>1
  <2>3. ASSUME NEW c \in DOMAIN calls
        PROVE  /\ calls'[c].runs = calls[c].runs
               /\ calls'[c].run = calls[c].run \/ "sent" \notin {calls[c].run, calls'[c].run}
    <3>1. CASE c \in Served(p)
      <4>1. calls'[c] = [calls[c] EXCEPT !.run = "lost"] /\ calls[c] \in CallType
        BY <1>1, <3>1, CallIs
      <4>2. calls'[c].runs = calls[c].runs /\ calls'[c].run = "lost"
        BY <4>1 DEF CallType
      <4>3. QED  BY <2>1, <3>1, <4>2
    <3>2. CASE c \notin Served(p)
      BY <1>1, <3>2
    <3>3. QED  BY <3>1, <3>2
  <2>4. QED  BY <2>2, <2>3 DEF CallsKeep
<1>6. QED  BY <1>2, <1>3, <1>4, <1>5, QuietStep

LEMMA AcceptOrphanOnce ==
  ASSUME TypeInv, OnceInv, NEW p \in Process, NEW n \in DOMAIN sockets, AcceptOrphan(p, n)
  PROVE  OnceInv'
<1>1. CASE Len(stack[p]) > 1
  <2>1. /\ sockets' = [sockets EXCEPT ![n].accepted = TRUE]
        /\ \E answer : calls' = [calls EXCEPT ![Top(p).call].answer = answer]
        /\ Pop(p) /\ connections' = connections
    BY <1>1 DEF AcceptOrphan
  <2>2. ~Idle(p)
    BY <1>1, StackIs
  <2>3. WiresKeep
    <3>1. \A s \in DOMAIN sockets : sockets[s] \in SocketType
      BY SocketIs
    <3>2. /\ DOMAIN sockets' = DOMAIN sockets
          /\ \A s \in DOMAIN sockets : sockets'[s].wire = sockets[s].wire
      BY <2>1, <3>1 DEF SocketType
    <3>3. QED  BY <3>2 DEF WiresKeep
  <2>4. QueuesKeep /\ FramesKeep /\ CallsKeep
    BY <2>1, <2>2, PoppedKeeps, AnsweredKeeps DEF QueuesKeep
  <2>5. QED  BY <2>3, <2>4, QuietStep
<1>2. CASE ~(Len(stack[p]) > 1)
  BY <1>2, EndsOnce DEF AcceptOrphan
<1>3. QED  BY <1>1, <1>2

LEMMA ReleaseOnce ==
  ASSUME TypeInv, OnceInv, NEW p \in Process, NEW q \in Process, Release(p, q)
  PROVE  OnceInv'
<1>1. PICK c \in ConnectionType : c = connections[p][q]
  BY ConnectionIs
<1>2. /\ c.socket = connections[p][q].socket /\ c.writeQueue = connections[p][q].writeQueue
      /\ SendOn(p, q, c, Message("release", 0, 0)) /\ stack' = stack /\ calls' = calls
  BY <1>1 DEF Release
<1>3. QueuesKeep /\ WiresKeep
  BY <1>2, SentKeeps
<1>4. QED  BY <1>2, <1>3, QuietStep DEF FramesKeep, CallsKeep

LEMMA HangupOnce ==
  ASSUME TypeInv, OnceInv, NEW p \in Process, NEW q \in Process, Hangup(p, q)
  PROVE  OnceInv'
<1>1. PICK c : c = [connections[p][q] EXCEPT !.socket = 0]
  OBVIOUS
<1>2. /\ connections' = [connections EXCEPT ![p][q] = c]
      /\ sockets' = sockets /\ stack' = stack /\ calls' = calls
  BY <1>1 DEF Hangup, TypeInv, ConnectionsType
<1>3. c.writeQueue = connections[p][q].writeQueue
  BY <1>1, ConnectionIs DEF ConnectionType
<1>4. QueuesKeep
  BY <1>2, <1>3, ConnectionKeeps
<1>5. QED  BY <1>2, <1>4, QuietStep DEF WiresKeep, FramesKeep, CallsKeep

\* A wait or a loop ends.
LEMMA PopOnce ==
  ASSUME TypeInv, OnceInv, NEW p \in Process,
         WaitReturns(p) \/ WaitTimesOut(p) \/ LoopEnds(p)
  PROVE  OnceInv'
<1>1. ~Idle(p) /\ Pop(p) /\ connections' = connections /\ sockets' = sockets
  BY DEF WaitReturns, WaitTimesOut, LoopEnds, Waiting, Looping
<1>2. \/ calls' = calls
      \/ \E c, answer : calls' = [calls EXCEPT ![c].answer = answer]
  BY DEF WaitReturns, WaitTimesOut, LoopEnds
<1>3. CallsKeep
  BY <1>2, AnsweredKeeps DEF CallsKeep
<1>4. FramesKeep
  BY <1>1, PoppedKeeps
<1>5. QED  BY <1>1, <1>3, <1>4, QuietStep DEF QueuesKeep, WiresKeep

LEMMA OnceInit == Init => OnceInv
<1> SUFFICES ASSUME Init PROVE OnceInv
  OBVIOUS
<1>1. DOMAIN << >> = {}
  OBVIOUS
<1>2. ASSUME NEW at, NEW a, NEW b, NEW k, NEW c, UnderWay(at, a, b, k, c) PROVE FALSE
  <2>1. ~InQueue(a, b, k, c)
    BY NoneInvoked DEF Init, InQueue, NewConnection
  <2>2. ~InWire(a, b, k, c) /\ ~ReadIn(a, b, k, c)
    BY <1>1 DEF Init, InWire, ReadIn
  <2>3. QED  BY <1>2, <2>1, <2>2 DEF UnderWay
<1>3. OnePlace /\ NoneBegun
  BY <1>2 DEF OnePlace, NoneBegun
<1>4. MethodsBegun /\ BegunOnce
  BY <1>1 DEF Init, MethodsBegun, BegunOnce
<1>5. QED  BY <1>3, <1>4 DEF OnceInv

LEMMA OnceStep == ASSUME TypeInv, OnceInv, TakenAnew, [Next]_vars PROVE OnceInv'
<1>1. ASSUME NEW p \in Process, NEW q \in Process,
             Invoke(p, q) \/ Release(p, q) \/ Output(p, q) \/ Input(p, q) \/ Hangup(p, q)
      PROVE  OnceInv'
  BY <1>1, InvokeOnce, ReleaseOnce, OutputOnce, InputOnce, HangupOnce
<1>2. ASSUME NEW p \in Process, NEW n \in DOMAIN sockets, Accept(p, n) \/ AcceptOrphan(p, n)
      PROVE  OnceInv'
  BY <1>2, AcceptOnce, AcceptOrphanOnce
<1>3. ASSUME NEW p \in Process,
             \/ WaitReturns(p) \/ WaitTimesOut(p)
             \/ DispatchInvoke(p) \/ DispatchRefused(p) \/ DispatchAnswer(p)
             \/ LoopEnds(p) \/ Crash(p)
      PROVE  OnceInv'
  BY <1>3, PopOnce, DispatchInvokeOnce, DispatchRefusedOnce, DispatchAnswerOnce, EndsOnce DEF Crash
<1>4. ASSUME NEW p \in Process, NEW outcome \in Outcome, MethodReturns(p, outcome)
      PROVE  OnceInv'
  BY <1>4, MethodReturnsOnce
<1>5. CASE UNCHANGED vars
  BY <1>5, QuietStep DEF vars, QueuesKeep, WiresKeep, FramesKeep, CallsKeep
<1>6. QED  BY <1>1, <1>2, <1>3, <1>4, <1>5 DEF Next

\* In any network, services that call services, crashes and time-outs included, a
\* method runs twice for one call only after a message left in _readTask was
\* dispatched again (LocalBusConnection's input loop, Session::OnIncomingInvoke).
THEOREM MethodsRunOnceTakenAnew == Spec /\ []TakenAnew => []RunsOnce
<1>1. Init => TypeInv /\ OnceInv
  BY TypeInvInit, OnceInit
<1>2. TypeInv /\ OnceInv /\ TakenAnew /\ [Next]_vars => TypeInv' /\ OnceInv'
  BY TypeInvStep, OnceStep
<1>3. OnceInv => RunsOnce
  <2>1. 0 <= 1 /\ 1 <= 1
    OBVIOUS
  <2>2. QED  BY <2>1 DEF OnceInv, BegunOnce, RunsOnce
<1>4. QED  BY <1>1, <1>2, <1>3, PTL DEF Spec

==============================================================================
