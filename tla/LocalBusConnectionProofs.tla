----------------------- MODULE LocalBusConnectionProofs -----------------------
(***************************************************************************)
(* Proofs about LocalBusConnection for every frame and buffer size and every *)
(* bound: type correctness, the poll's interest in output, the discipline of *)
(* the reader's lock.                                                       *)
(***************************************************************************)
EXTENDS LocalBusConnection, SequenceTheorems, TLAPS

------------------------------------------------------------------------------
\* Lemmas about the helpers

LEMMA LeastIsNat ==
  ASSUME NEW a \in Nat, NEW b \in Nat
  PROVE  Least(a, b) \in Nat /\ Least(a, b) <= a /\ Least(a, b) <= b
BY DEF Least

LEMMA SliceType ==
  ASSUME NEW f \in Nat \ {0}, NEW from \in Nat, NEW n \in Nat
  PROVE  Slice(f, from, n) \in Seq(Byte) /\ Len(Slice(f, from, n)) = n
<1>1. Slice(f, from, n) \in [1 .. n -> Byte]
  BY DEF Slice, Byte
<1>2. QED  BY <1>1, SeqDef

LEMMA PrefixType ==
  ASSUME NEW S, NEW s \in Seq(S), NEW m \in Nat \ {0}, NEW n \in Nat, n <= Len(s)
  PROVE  SubSeq(s, m, n) \in Seq(S)
<1>1. \A i \in m .. n : s[i] \in S
  BY ElementOfSeq
<1>2. QED  BY <1>1, SubSeqProperties

LEMMA NewReadTaskType == NewReadTask \in ReadTask
BY EmptySeq DEF NewReadTask, ReadTask

\* What every read task satisfies: nothing of the body before the whole prefix,
\* and never more than the prefix announced.
TaskOK(task) ==
  /\ task \in ReadTask
  /\ Len(task.size) <= HeaderSize
  /\ Len(task.size) < HeaderSize => task.data = << >>
  /\ Len(task.data) <= task.length

LEMMA NewReadTaskOK == TaskOK(NewReadTask)
BY NewReadTaskType, EmptySeq, SizesAssumption DEF NewReadTask, TaskOK

\* Read keeps a task well-formed and takes no more bytes than there are.
LEMMA ReadTaskReadOK ==
  ASSUME NEW task, TaskOK(task), NEW buffer \in Seq(Byte), NEW length \in Nat
  PROVE  /\ TaskOK(ReadTaskRead(task, buffer, length).task)
         /\ ReadTaskRead(task, buffer, length).used \in 0 .. Len(buffer)
<1> DEFINE k == Least(HeaderSize - Len(task.size), Len(buffer))
           size == task.size \o SubSeq(buffer, 1, k)
           len == IF k # 0 THEN length ELSE task.length
           d == Least(len - Len(task.data), Len(buffer) - k)
           data == task.data \o SubSeq(buffer, k + 1, k + d)
<1>1. /\ task.size \in Seq(Byte) /\ task.data \in Seq(Byte) /\ task.length \in Nat
      /\ Len(task.size) \in Nat /\ Len(task.data) \in Nat /\ Len(buffer) \in Nat
      /\ HeaderSize \in Nat \ {0}
  BY LenProperties, SizesAssumption DEF TaskOK, ReadTask
<1>2. /\ k \in Nat /\ k <= Len(buffer) /\ k <= HeaderSize - Len(task.size)
  <2>1. HeaderSize - Len(task.size) \in Nat
    BY <1>1 DEF TaskOK
  <2>2. QED  BY <1>1, <2>1, LeastIsNat
<1>3. /\ SubSeq(buffer, 1, k) \in Seq(Byte) /\ Len(SubSeq(buffer, 1, k)) = k
  <2>1. \A i \in 1 .. k : buffer[i] \in Byte
    BY <1>1, <1>2, ElementOfSeq
  <2>2. QED  BY <2>1, <1>2, SubSeqProperties
<1>4. size \in Seq(Byte) /\ Len(size) = Len(task.size) + k
  BY <1>1, <1>3, ConcatProperties
<1> HIDE DEF k, size
<1>5. CASE Len(size) < HeaderSize
  <2>1. ReadTaskRead(task, buffer, length) =
          [task |-> [task EXCEPT !.size = size], used |-> k]
    BY <1>5 DEF ReadTaskRead, k, size
  <2>2. Len(task.size) < HeaderSize
    BY <1>1, <1>2, <1>4, <1>5
  <2>3. TaskOK([task EXCEPT !.size = size])
    <3>1. task = [size |-> task.size, length |-> task.length, data |-> task.data]
      BY DEF TaskOK, ReadTask
    <3>2. [task EXCEPT !.size = size] =
            [size |-> size, length |-> task.length, data |-> task.data]
      BY <3>1
    <3>3. TaskOK([size |-> size, length |-> task.length, data |-> task.data])
      BY <2>2, <1>1, <1>4, <1>5 DEF TaskOK, ReadTask
    <3>4. QED  BY <3>2, <3>3
  <2>4. QED  BY <2>1, <2>3, <1>1, <1>2
<1>6. CASE ~(Len(size) < HeaderSize)
  <2>1. ReadTaskRead(task, buffer, length) =
          [task |-> [size |-> size, length |-> len, data |-> data], used |-> k + d]
    BY <1>6 DEF ReadTaskRead, k, size
  <2>2. Len(size) = HeaderSize
    BY <1>1, <1>2, <1>4, <1>6
  <2>3. len \in Nat /\ Len(task.data) <= len
    <3>1. CASE k = 0
      BY <3>1, <1>1 DEF TaskOK
    <3>2. CASE k # 0
      <4>1. Len(task.data) = 0
        BY <3>2, <2>2, <1>1, <1>2, <1>4, EmptySeq DEF TaskOK
      <4>2. QED  BY <4>1, <3>2
    <3>3. QED  BY <3>1, <3>2
  <2> HIDE DEF len
  <2>4. d \in Nat /\ d <= len - Len(task.data) /\ d <= Len(buffer) - k
    <3>1. len - Len(task.data) \in Nat /\ Len(buffer) - k \in Nat
      BY <2>3, <1>1, <1>2
    <3>2. QED  BY <3>1, LeastIsNat DEF d
  <2> HIDE DEF d
  <2>5. /\ SubSeq(buffer, k + 1, k + d) \in Seq(Byte)
        /\ Len(SubSeq(buffer, k + 1, k + d)) = d
    <3>1. \A i \in k + 1 .. k + d : buffer[i] \in Byte
      BY <1>1, <1>2, <2>4, ElementOfSeq
    <3>2. /\ SubSeq(buffer, k + 1, k + d) \in Seq(Byte)
          /\ Len(SubSeq(buffer, k + 1, k + d)) =
               IF k + 1 <= k + d THEN (k + d) - (k + 1) + 1 ELSE 0
      BY <3>1, <1>2, <2>4, SubSeqProperties
    <3>3. QED  BY <3>2, <1>2, <2>4
  <2>6. data \in Seq(Byte) /\ Len(data) = Len(task.data) + d
    BY <1>1, <2>5, ConcatProperties
  <2> HIDE DEF data
  <2>7. TaskOK([size |-> size, length |-> len, data |-> data])
    BY <2>2, <2>3, <2>4, <2>6, <1>1, <1>4 DEF TaskOK, ReadTask
  <2>8. QED  BY <2>1, <2>7, <2>4, <1>1, <1>2
<1>7. QED  BY <1>5, <1>6

------------------------------------------------------------------------------
\* Type correctness.  The type invariant alone is not inductive: the size of a
\* queued frame is a number only if the frame was sent, and Read needs to know
\* the shape of the read task.

QueuedWereSent == \A i \in 1 .. Len(writeQueue) : writeQueue[i].frame \in 1 .. Len(sent)

TypeInv == TypeOK /\ QueuedWereSent /\ TaskOK(readTask)

LEMMA SentTypes ==
  ASSUME TypeOK
  PROVE  /\ Len(sent) \in Nat /\ DOMAIN sent = 1 .. Len(sent)
         /\ \A f \in 1 .. Len(sent) : sent[f] \in Nat \ {0}
         /\ \A f \in 1 .. Len(sent) : FrameSize(f) \in Nat
<1>1. sent \in Seq(Nat \ {0})
  BY DEF TypeOK
<1>2. Len(sent) \in Nat /\ DOMAIN sent = 1 .. Len(sent)
  BY <1>1, LenProperties
<1>3. \A f \in 1 .. Len(sent) : sent[f] \in Nat \ {0}
  BY <1>1, ElementOfSeq
<1>4. QED  BY <1>2, <1>3, SizesAssumption DEF FrameSize

LEMMA LengthsAreNats ==
  ASSUME TypeOK, NEW task, NEW buffer
  PROVE  LengthsRead(task, buffer) \subseteq Nat
<1>1. \A prefix : SizesSpelled(prefix) \subseteq Nat
  BY SentTypes, SizesAssumption DEF SizesSpelled
<1>2. QED  BY <1>1 DEF LengthsRead

LEMMA EnqueueTypes ==
  ASSUME TypeInv, NEW n \in BodySizes, Enqueue(n)
  PROVE  /\ outputEnabled' \in BOOLEAN
         /\ writeQueue' \in Seq(WriteTask) /\ writeQueue' # << >>
         /\ writeSerial' \in Nat
         /\ sent' \in Seq(Nat \ {0})
         /\ QueuedWereSent'
<1> DEFINE task == [frame |-> Len(sent) + 1, offset |-> 0]
<1>1. /\ writeQueue \in Seq(WriteTask) /\ sent \in Seq(Nat \ {0}) /\ writeSerial \in Nat
      /\ n \in Nat \ {0}
  BY SizesAssumption DEF TypeInv, TypeOK
<1>2. Len(sent) \in Nat /\ Len(writeQueue) \in Nat
  BY <1>1, LenProperties
<1>3. task \in WriteTask
  BY <1>2 DEF WriteTask
<1>4. writeQueue' = Append(writeQueue, task) /\ sent' = Append(sent, n)
  BY DEF Enqueue
<1> HIDE DEF task
<1>5. /\ writeQueue' \in Seq(WriteTask) /\ writeQueue' # << >>
      /\ Len(writeQueue') = Len(writeQueue) + 1
      /\ \A i \in 1 .. Len(writeQueue) : writeQueue'[i] = writeQueue[i]
      /\ writeQueue'[Len(writeQueue) + 1] = task
  BY <1>1, <1>3, <1>4, AppendProperties
<1>6. sent' \in Seq(Nat \ {0}) /\ Len(sent') = Len(sent) + 1
  BY <1>1, <1>4, AppendProperties
<1>7. QueuedWereSent'
  <2> SUFFICES ASSUME NEW i \in 1 .. Len(writeQueue')
               PROVE  writeQueue'[i].frame \in 1 .. Len(sent')
    BY DEF QueuedWereSent
  <2>1. CASE i \in 1 .. Len(writeQueue)
    <3>1. writeQueue[i].frame \in 1 .. Len(sent)
      BY <2>1 DEF TypeInv, QueuedWereSent
    <3>2. writeQueue'[i].frame = writeQueue[i].frame
      BY <2>1, <1>5
    <3>3. QED  BY <3>1, <3>2, <1>2, <1>6
  <2>2. CASE i = Len(writeQueue) + 1
    <3>1. writeQueue'[i].frame = Len(sent) + 1
      BY <2>2, <1>5 DEF task
    <3>2. QED  BY <3>1, <1>2, <1>6
  <2>3. QED  BY <2>1, <2>2, <1>2, <1>5
<1>8. QED  BY <1>1, <1>5, <1>6, <1>7 DEF Enqueue

LEMMA OutputTypes ==
  ASSUME TypeInv, OutputEvent
  PROVE  /\ outputEnabled' = (writeQueue' # << >>)
         /\ writeQueue' \in Seq(WriteTask)
         /\ wire' \in Seq(Byte)
         /\ QueuedWereSent'
<1> DEFINE task == Head(writeQueue)
           left == FrameSize(task.frame) - task.offset
           room == SocketBuffer - Len(wire)
<1>1. PICK r \in 1 .. Least(left, room) :
        /\ wire' = wire \o Slice(task.frame, task.offset, r)
        /\ writeQueue' = IF r = left THEN Tail(writeQueue)
                         ELSE [writeQueue EXCEPT ![1].offset = @ + r]
        /\ outputEnabled' = (writeQueue' # << >>)
  BY DEF OutputEvent
<1>2. /\ writeQueue \in Seq(WriteTask) /\ writeQueue # << >>
      /\ wire \in Seq(Byte) /\ sent' = sent
  BY DEF TypeInv, TypeOK, OutputEvent
<1>3. /\ Len(writeQueue) \in Nat \ {0} /\ task = writeQueue[1] /\ task \in WriteTask
  BY <1>2, EmptySeq, ElementOfSeq
<1>4. task.frame \in Nat \ {0} /\ task.offset \in Nat /\ task.frame \in 1 .. Len(sent)
  BY <1>3 DEF WriteTask, TypeInv, QueuedWereSent
<1>5. r \in Nat
  OBVIOUS
<1>6. wire' \in Seq(Byte)
  BY <1>1, <1>2, <1>4, <1>5, SliceType, ConcatProperties
<1>7. CASE r = left
  <2>1. /\ writeQueue' \in Seq(WriteTask) /\ Len(writeQueue') = Len(writeQueue) - 1
        /\ \A i \in 1 .. Len(writeQueue') : writeQueue'[i] = writeQueue[i + 1]
    BY <1>7, <1>1, <1>2, HeadTailProperties
  <2>2. QueuedWereSent'
    <3> SUFFICES ASSUME NEW i \in 1 .. Len(writeQueue')
                 PROVE  writeQueue'[i].frame \in 1 .. Len(sent')
      BY DEF QueuedWereSent
    <3>1. i + 1 \in 1 .. Len(writeQueue)
      BY <2>1, <1>3
    <3>2. writeQueue[i + 1].frame \in 1 .. Len(sent)
      BY <3>1 DEF TypeInv, QueuedWereSent
    <3>3. QED  BY <3>2, <2>1, <1>2
  <2>3. QED  BY <2>1, <2>2, <1>1, <1>6
<1>8. CASE r # left
  <2> DEFINE rest == [task EXCEPT !.offset = @ + r]
  <2>1. rest \in WriteTask /\ rest.frame = task.frame
    BY <1>3, <1>4, <1>5 DEF WriteTask
  <2>2. writeQueue' = [writeQueue EXCEPT ![1] = rest]
    BY <1>8, <1>1, <1>3
  <2> HIDE DEF rest
  <2>3. /\ writeQueue' \in Seq(WriteTask) /\ Len(writeQueue') = Len(writeQueue)
        /\ \A i \in 1 .. Len(writeQueue) :
             writeQueue'[i] = IF i = 1 THEN rest ELSE writeQueue[i]
    BY <2>1, <2>2, <1>2, <1>3, ExceptSeq
  <2>4. QueuedWereSent'
    BY <2>1, <2>3, <1>2, <1>3, <1>4 DEF TypeInv, QueuedWereSent
  <2>5. QED  BY <2>3, <2>4, <1>1, <1>6
<1>9. QED  BY <1>7, <1>8

\* Taking the innermost loop, replacing it, and leaving it.
LEMMA LoopTypes ==
  ASSUME TypeOK, loops # << >>
  PROVE  /\ Len(loops) \in Nat \ {0}
         /\ Top \in InputLoop
         /\ Popped \in Seq(InputLoop) /\ Len(Popped) = Len(loops) - 1
         /\ \A i \in 1 .. Len(loops) - 1 : Popped[i] = loops[i]
         /\ \A loop \in InputLoop :
              /\ SetTop(loop) \in Seq(InputLoop) /\ Len(SetTop(loop)) = Len(loops)
              /\ SetTop(loop)[Len(loops)] = loop
              /\ \A i \in 1 .. Len(loops) - 1 : SetTop(loop)[i] = loops[i]
<1>1. loops \in Seq(InputLoop) /\ Len(loops) \in Nat \ {0}
  BY EmptySeq DEF TypeOK
<1>2. Top \in InputLoop
  BY <1>1, ElementOfSeq DEF Top
<1>3. /\ Popped \in Seq(InputLoop) /\ Len(Popped) = Len(loops) - 1
      /\ \A i \in 1 .. Len(loops) - 1 : Popped[i] = loops[i]
  <2> DEFINE n == Len(loops) - 1
  <2>1. n \in Nat /\ \A i \in 1 .. n : loops[i] \in InputLoop
    BY <1>1, ElementOfSeq
  <2> HIDE DEF n
  <2>2. /\ SubSeq(loops, 1, n) \in Seq(InputLoop)
        /\ Len(SubSeq(loops, 1, n)) = n
        /\ \A i \in 1 .. n : SubSeq(loops, 1, n)[i] = loops[i]
    <3>1. /\ SubSeq(loops, 1, n) \in Seq(InputLoop)
          /\ Len(SubSeq(loops, 1, n)) = IF 1 <= n THEN n - 1 + 1 ELSE 0
          /\ \A i \in 1 .. n - 1 + 1 : SubSeq(loops, 1, n)[i] = loops[1 + i - 1]
      BY <2>1, SubSeqProperties
    <3>2. ASSUME NEW i \in 1 .. n
          PROVE  SubSeq(loops, 1, n)[i] = loops[i]
      <4>1. i \in 1 .. n - 1 + 1 /\ 1 + i - 1 = i
        BY <2>1
      <4>2. QED  BY <4>1, <3>1
    <3>3. Len(SubSeq(loops, 1, n)) = n
      BY <3>1, <2>1
    <3>4. QED  BY <3>1, <3>2, <3>3
  <2>3. Popped = SubSeq(loops, 1, n)
    BY DEF Popped, n
  <2>4. QED  BY <2>2, <2>3 DEF n
<1>4. ASSUME NEW loop \in InputLoop
      PROVE  /\ SetTop(loop) \in Seq(InputLoop) /\ Len(SetTop(loop)) = Len(loops)
             /\ SetTop(loop)[Len(loops)] = loop
             /\ \A i \in 1 .. Len(loops) - 1 : SetTop(loop)[i] = loops[i]
  <2>1. Len(loops) \in 1 .. Len(loops)
    BY <1>1
  <2>2. /\ SetTop(loop) \in Seq(InputLoop) /\ Len(SetTop(loop)) = Len(loops)
        /\ \A j \in 1 .. Len(loops) :
             SetTop(loop)[j] = IF j = Len(loops) THEN loop ELSE loops[j]
    BY <2>1, <1>1, ExceptSeq DEF SetTop
  <2>3. QED  BY <2>1, <2>2, <1>1
<1>5. QED  BY <1>1, <1>2, <1>3, <1>4

LEMMA InputTypes ==
  ASSUME TypeOK, InputEvent
  PROVE  loops' \in Seq(InputLoop) /\ wire' \in Seq(Byte)
<1> DEFINE n == Least(ReadBufferSize, Len(wire))
           loop == [rest |-> SubSeq(wire, 1, n), dispatching |-> FALSE]
<1>1. /\ loops' = Append(loops, loop)
      /\ wire' = SubSeq(wire, n + 1, Len(wire))
  BY DEF InputEvent
<1>2. wire \in Seq(Byte) /\ Len(wire) \in Nat /\ loops \in Seq(InputLoop)
  BY LenProperties DEF TypeOK
<1>3. n \in Nat /\ n <= Len(wire)
  BY <1>2, LeastIsNat, SizesAssumption
<1> HIDE DEF n
<1>4. SubSeq(wire, 1, n) \in Seq(Byte) /\ SubSeq(wire, n + 1, Len(wire)) \in Seq(Byte)
  BY <1>2, <1>3, PrefixType
<1>5. loop \in InputLoop
  BY <1>4 DEF InputLoop
<1> HIDE DEF loop
<1>6. QED  BY <1>1, <1>2, <1>4, <1>5, AppendProperties

LEMMA LoopReadTypes ==
  ASSUME TypeInv, LoopRead
  PROVE  /\ TaskOK(readTask')
         /\ loops' \in Seq(InputLoop) /\ Len(loops') = Len(loops)
         /\ loops'[Len(loops)].dispatching = Finished(readTask')
         /\ \A i \in 1 .. Len(loops) - 1 : loops'[i] = loops[i]
         /\ locked' = ~Finished(readTask')
         /\ readSerial' \in Nat
         /\ dispatched' \in Seq([serial : Nat, data : Seq(Byte)])
<1>1. PICK length \in LengthsRead(readTask, Top.rest) :
        LET r == ReadTaskRead(readTask, Top.rest, length)
        IN  /\ readTask' = r.task
            /\ loops' = SetTop([rest |-> SubSeq(Top.rest, r.used + 1, Len(Top.rest)),
                                dispatching |-> Finished(r.task)])
            /\ locked' = ~Finished(r.task)
            /\ IF Finished(r.task)
                 THEN /\ dispatched' = Append(dispatched, [serial |-> readSerial,
                                                           data   |-> r.task.data])
                      /\ readSerial' = readSerial + 1
                 ELSE UNCHANGED <<dispatched, readSerial>>
  BY DEF LoopRead
<1> DEFINE r == ReadTaskRead(readTask, Top.rest, length)
           loop == [rest |-> SubSeq(Top.rest, r.used + 1, Len(Top.rest)),
                    dispatching |-> Finished(r.task)]
<1>2. /\ loops # << >> /\ TypeOK /\ TaskOK(readTask)
      /\ readSerial \in Nat /\ dispatched \in Seq([serial : Nat, data : Seq(Byte)])
  BY DEF LoopRead, TypeInv, TypeOK
<1>3. length \in Nat
  BY <1>2, LengthsAreNats
<1>4. Top.rest \in Seq(Byte) /\ Len(Top.rest) \in Nat
  BY <1>2, LoopTypes, LenProperties DEF InputLoop
<1>5. TaskOK(r.task) /\ r.used \in 0 .. Len(Top.rest)
  BY <1>2, <1>3, <1>4, ReadTaskReadOK
<1>6. /\ readTask' = r.task
      /\ loops' = SetTop(loop)
      /\ locked' = ~Finished(r.task)
      /\ Finished(r.task) =>
           /\ dispatched' = Append(dispatched, [serial |-> readSerial, data |-> r.task.data])
           /\ readSerial' = readSerial + 1
      /\ ~Finished(r.task) => UNCHANGED <<dispatched, readSerial>>
  BY <1>1
<1> HIDE DEF r
<1>7. loop \in InputLoop
  <2>1. SubSeq(Top.rest, r.used + 1, Len(Top.rest)) \in Seq(Byte)
    BY <1>4, <1>5, PrefixType
  <2>2. Finished(r.task) \in BOOLEAN
    BY DEF Finished
  <2>3. QED  BY <2>1, <2>2 DEF InputLoop
<1>8. loop.dispatching = Finished(r.task)
  OBVIOUS
<1> HIDE DEF loop
<1>9. /\ loops' \in Seq(InputLoop) /\ Len(loops') = Len(loops)
      /\ loops'[Len(loops)] = loop
      /\ \A i \in 1 .. Len(loops) - 1 : loops'[i] = loops[i]
  BY <1>2, <1>6, <1>7, LoopTypes
<1>10. readSerial' \in Nat /\ dispatched' \in Seq([serial : Nat, data : Seq(Byte)])
  <2>1. CASE Finished(r.task)
    <3> DEFINE message == [serial |-> readSerial, data |-> r.task.data]
               Message == [serial : Nat, data : Seq(Byte)]
    <3>1. message \in Message
      BY <1>2, <1>5 DEF TaskOK, ReadTask
    <3>2. dispatched' = Append(dispatched, message) /\ dispatched \in Seq(Message)
      BY <2>1, <1>2, <1>6
    <3>3. dispatched' \in Seq(Message)
      <4> HIDE DEF message, Message
      <4>1. QED  BY <3>1, <3>2, AppendProperties
    <3>4. QED  BY <3>3, <2>1, <1>2, <1>6
  <2>2. CASE ~Finished(r.task)
    BY <2>2, <1>2, <1>6
  <2>3. QED  BY <2>1, <2>2
<1>11. QED  BY <1>5, <1>6, <1>8, <1>9, <1>10

THEOREM TypeInvInit == Init => TypeInv
<1> SUFFICES ASSUME Init PROVE TypeInv
  OBVIOUS
<1>1. /\ writeQueue \in Seq(WriteTask) /\ wire \in Seq(Byte) /\ loops \in Seq(InputLoop)
      /\ sent \in Seq(Nat \ {0}) /\ dispatched \in Seq([serial : Nat, data : Seq(Byte)])
  BY EmptySeq DEF Init
<1>2. TaskOK(readTask) /\ readTask \in ReadTask
  BY NewReadTaskOK DEF Init, TaskOK
<1>3. QueuedWereSent
  BY EmptySeq DEF Init, QueuedWereSent
<1>4. QED  BY <1>1, <1>2, <1>3 DEF Init, TypeInv, TypeOK

LEMMA EmptyQueues ==
  /\ << >> \in Seq(WriteTask) /\ << >> \in Seq(Byte) /\ << >> \in Seq(InputLoop)
  /\ writeQueue' = << >> => QueuedWereSent'
BY EmptySeq DEF QueuedWereSent

LEMMA BrokenTypes ==
  ASSUME TypeOK, Broken
  PROVE  linkUp' \in BOOLEAN /\ wire' \in Seq(Byte) /\ breaks' \in Nat
<1>1. linkUp' = FALSE /\ wire' = << >> /\ breaks' = breaks + 1 /\ breaks \in Nat
  BY DEF Broken, TypeOK
<1>2. wire' \in Seq(Byte)
  BY <1>1, EmptySeq
<1>3. breaks' \in Nat
  BY <1>1
<1>4. QED  BY <1>1, <1>2, <1>3

\* One step per action; what an action leaves alone keeps its type.
LEMMA TypeInvStep ==
  ASSUME TypeInv, [Next]_vars
  PROVE  TypeInv'
<1> USE DEF TypeInv
<1>1. ASSUME NEW n \in BodySizes, SendConnected(n)
      PROVE  TypeInv'
  BY <1>1, EnqueueTypes DEF SendConnected, TypeOK, TaskOK, readerVars
<1>2. ASSUME NEW n \in BodySizes, SendConnecting(n)
      PROVE  TypeInv'
  BY <1>2, EnqueueTypes, NewReadTaskOK, EmptySeq DEF SendConnecting, TypeOK, TaskOK
<1>3. ASSUME OutputEvent PROVE TypeInv'
  BY <1>3, OutputTypes DEF OutputEvent, TypeOK, TaskOK, readerVars
<1>4. ASSUME WriterHangup PROVE TypeInv'
  BY <1>4 DEF WriterHangup, TypeOK, TaskOK, QueuedWereSent, readerVars
<1>5. ASSUME InputEvent PROVE TypeInv'
  BY <1>5, InputTypes DEF InputEvent, TypeOK, TaskOK, QueuedWereSent, writerVars
<1>6. ASSUME LoopRead PROVE TypeInv'
  BY <1>6, LoopReadTypes DEF LoopRead, TypeOK, TaskOK, QueuedWereSent, writerVars
<1>7. ASSUME DispatchReturns PROVE TypeInv'
  <2>1. [Top EXCEPT !.dispatching = FALSE] \in InputLoop
    BY <1>7, LoopTypes DEF DispatchReturns, InputLoop
  <2>2. loops' \in Seq(InputLoop)
    BY <2>1, <1>7, LoopTypes DEF DispatchReturns
  <2>3. QED
    BY <2>2, <1>7, NewReadTaskOK
    DEF DispatchReturns, TypeOK, TaskOK, QueuedWereSent, writerVars
<1>8. ASSUME LoopEnds PROVE TypeInv'
  BY <1>8, LoopTypes DEF LoopEnds, TypeOK, TaskOK, QueuedWereSent, writerVars
<1>9. ASSUME ReaderHangup PROVE TypeInv'
  BY <1>9 DEF ReaderHangup, TypeOK, TaskOK, QueuedWereSent, writerVars
<1>10. ASSUME ReaderConnects PROVE TypeInv'
  <2>1. torn' \in BOOLEAN
    <3>1. InsideFrame \in BOOLEAN
      BY DEF InsideFrame, Finished
    <3>2. QED  BY <3>1, <1>10 DEF ReaderConnects, TypeOK
  <2>2. TypeOK'
    BY <2>1, <1>10, EmptyQueues DEF ReaderConnects, TypeOK
  <2>3. QED  BY <2>2, <1>10, EmptyQueues DEF ReaderConnects
<1>11. ASSUME WriterGone PROVE TypeInv'
  <2>1. TypeOK'
    BY <1>11, EmptyQueues, BrokenTypes DEF WriterGone, TypeOK, readerVars
  <2>2. QED  BY <2>1, <1>11, EmptyQueues DEF WriterGone, readerVars
<1>12. ASSUME ReaderGone PROVE TypeInv'
  <2>1. TaskOK(readTask')
    BY <1>12, NewReadTaskOK DEF ReaderGone
  <2>2. TypeOK'
    BY <2>1, <1>12, EmptyQueues, BrokenTypes DEF ReaderGone, TypeOK, TaskOK, writerVars
  <2>3. QED  BY <2>1, <2>2, <1>12 DEF ReaderGone, QueuedWereSent, writerVars
<1>13. ASSUME UNCHANGED vars PROVE TypeInv'
  BY <1>13 DEF vars, TypeOK, TaskOK, QueuedWereSent
<1>14. QED
  BY <1>1, <1>2, <1>3, <1>4, <1>5, <1>6, <1>7, <1>8, <1>9, <1>10, <1>11, <1>12, <1>13
  DEF Next

\* Every variable keeps its type, whatever the sizes and bounds are.
THEOREM TypeCorrect == Spec => []TypeOK
<1>1. TypeInv /\ [Next]_vars => TypeInv'
  BY TypeInvStep
<1>2. TypeInv => TypeOK
  BY DEF TypeInv
<1>3. QED  BY <1>1, <1>2, TypeInvInit, PTL DEF Spec

------------------------------------------------------------------------------
\* The poll's interest in output.  WriteInterest is preserved by every step, given
\* the types.

LEMMA WriteInterestStep ==
  ASSUME TypeInv, WriteInterest, [Next]_vars
  PROVE  WriteInterest'
<1> USE DEF WriteInterest
<1>1. ASSUME NEW n \in BodySizes, SendConnected(n) \/ SendConnecting(n)
      PROVE  WriteInterest'
  <2>1. Enqueue(n)
    BY <1>1 DEF SendConnected, SendConnecting
  <2>2. outputEnabled' = TRUE /\ writeQueue' # << >>
    BY <2>1, EnqueueTypes DEF Enqueue
  <2>3. QED  BY <2>2
<1>2. ASSUME OutputEvent PROVE WriteInterest'
  BY <1>2, OutputTypes
<1>3. ASSUME WriterHangup \/ WriterGone PROVE WriteInterest'
  BY <1>3 DEF WriterHangup, WriterGone
<1>4. ASSUME ReaderConnects PROVE WriteInterest'
  BY <1>4 DEF ReaderConnects
<1>5. ASSUME UNCHANGED <<writerUp, outputEnabled, writeQueue>> PROVE WriteInterest'
  BY <1>5
<1>6. ASSUME InputEvent \/ LoopRead \/ DispatchReturns \/ LoopEnds \/ ReaderHangup \/ ReaderGone
      PROVE  UNCHANGED <<writerUp, outputEnabled, writeQueue>>
  BY <1>6 DEF InputEvent, LoopRead, DispatchReturns, LoopEnds, ReaderHangup, ReaderGone,
              writerVars
<1>7. QED
  BY <1>1, <1>2, <1>3, <1>4, <1>5, <1>6 DEF Next, vars

\* While the writing end has a socket, the poll watches it for output exactly when
\* something is queued: for every size of frames, buffers and sockets.
THEOREM WriteInterestInvariant == Spec => []WriteInterest
<1>1. Init => TypeInv /\ WriteInterest
  BY TypeInvInit DEF Init, WriteInterest
<1>2. TypeInv /\ WriteInterest /\ [Next]_vars => (TypeInv /\ WriteInterest)'
  BY TypeInvStep, WriteInterestStep
<1>3. QED  BY <1>1, <1>2, PTL DEF Spec

------------------------------------------------------------------------------
\* The reader's lock.  When a loop ends, the one below it becomes innermost; the
\* strengthening says that it is dispatching, so that no lock is what it expects.

OuterLoopsDispatch == \A i \in 1 .. Len(loops) - 1 : loops[i].dispatching

LockInv == LockDiscipline /\ OuterLoopsDispatch

LEMMA NoLoops == ASSUME loops = << >>, locked = FALSE PROVE LockInv
BY EmptySeq DEF LockInv, LockDiscipline, OuterLoopsDispatch

\* The innermost loop becomes one that is dispatching exactly when the lock is free.
LEMMA InnermostReplaced ==
  ASSUME TypeOK, OuterLoopsDispatch, loops # << >>,
         loops' \in Seq(InputLoop), Len(loops') = Len(loops),
         \A i \in 1 .. Len(loops) - 1 : loops'[i] = loops[i],
         locked' <=> ~loops'[Len(loops)].dispatching
  PROVE  LockInv'
<1>1. Len(loops) \in Nat \ {0}
  BY LoopTypes
<1>2. loops' # << >> /\ Top' = loops'[Len(loops)]
  BY <1>1, EmptySeq DEF Top
<1>3. LockDiscipline'
  BY <1>2 DEF LockDiscipline
<1>4. OuterLoopsDispatch'
  BY <1>1 DEF OuterLoopsDispatch
<1>5. QED  BY <1>3, <1>4 DEF LockInv

LEMMA LockInvStep ==
  ASSUME TypeInv, LockInv, [Next]_vars
  PROVE  LockInv'
<1>1. TypeOK /\ OuterLoopsDispatch
  BY DEF TypeInv, LockInv
<1>2. ASSUME InputEvent PROVE LockInv'
  <2> DEFINE n == Least(ReadBufferSize, Len(wire))
             loop == [rest |-> SubSeq(wire, 1, n), dispatching |-> FALSE]
  <2>1. loops' = Append(loops, loop) /\ locked' = TRUE /\ loop.dispatching = FALSE
    BY <1>2 DEF InputEvent
  <2>2. loops \in Seq(InputLoop) /\ Len(loops) \in Nat
    BY <1>1, LenProperties DEF TypeOK
  <2> HIDE DEF loop
  <2>3. /\ Len(loops') = Len(loops) + 1 /\ loops' # << >>
        /\ loops'[Len(loops) + 1] = loop
        /\ \A i \in 1 .. Len(loops) : loops'[i] = loops[i]
    <3>1. loops \in Seq(InputLoop \cup {loop}) /\ loop \in InputLoop \cup {loop}
      BY <2>2, SeqMonotonic
    <3>2. QED  BY <2>1, <3>1, AppendProperties
  <2>4. LockDiscipline'
    BY <2>1, <2>3 DEF LockDiscipline, Top
  <2>5. OuterLoopsDispatch'
    <3> SUFFICES ASSUME NEW i \in 1 .. Len(loops)
                 PROVE  loops[i].dispatching
      BY <2>2, <2>3 DEF OuterLoopsDispatch
    <3>1. CASE i = Len(loops)
      <4>1. loops # << >>
        BY <2>2, EmptySeq
      <4>2. QED  BY <4>1, <3>1, <1>2 DEF InputEvent, Polling, Top
    <3>2. CASE i # Len(loops)
      BY <3>2, <2>2, <1>1 DEF OuterLoopsDispatch
    <3>3. QED  BY <3>1, <3>2
  <2>6. QED  BY <2>4, <2>5 DEF LockInv
<1>3. ASSUME LoopRead PROVE LockInv'
  <2>1. loops # << >>
    BY <1>3 DEF LoopRead
  <2>2. QED  BY <2>1, <1>1, <1>3, LoopReadTypes, InnermostReplaced
<1>4. ASSUME DispatchReturns PROVE LockInv'
  <2> DEFINE loop == [Top EXCEPT !.dispatching = FALSE]
  <2>1. loops # << >> /\ loops' = SetTop(loop) /\ locked' = TRUE
    BY <1>4 DEF DispatchReturns
  <2>2. loop \in InputLoop /\ loop.dispatching = FALSE
    BY <2>1, <1>1, LoopTypes DEF InputLoop
  <2> HIDE DEF loop
  <2>3. QED  BY <2>1, <2>2, <1>1, LoopTypes, InnermostReplaced
<1>5. ASSUME LoopEnds PROVE LockInv'
  <2>1. loops # << >> /\ loops' = Popped /\ locked' = FALSE
    BY <1>5 DEF LoopEnds
  <2>2. /\ Len(loops) \in Nat \ {0} /\ Len(loops') = Len(loops) - 1
        /\ \A i \in 1 .. Len(loops) - 1 : loops'[i] = loops[i]
    BY <2>1, <1>1, LoopTypes
  <2>3. OuterLoopsDispatch'
    BY <2>2, <1>1 DEF OuterLoopsDispatch
  <2>4. LockDiscipline'
    <3>1. CASE loops' = << >>
      BY <3>1, <2>1 DEF LockDiscipline
    <3>2. CASE loops' # << >>
      <4>1. Len(loops') \in 1 .. Len(loops) - 1
        BY <3>2, <2>1, <2>2, <1>1, LoopTypes, EmptySeq
      <4>2. Top'.dispatching
        BY <4>1, <2>2, <1>1 DEF Top, OuterLoopsDispatch
      <4>3. QED  BY <4>2, <2>1 DEF LockDiscipline
    <3>3. QED  BY <3>1, <3>2
  <2>5. QED  BY <2>3, <2>4 DEF LockInv
<1>6. ASSUME ReaderGone PROVE LockInv'
  <2>1. loops' = << >> /\ locked' = FALSE
    BY <1>6 DEF ReaderGone
  <2>2. QED  BY <2>1, EmptySeq DEF LockInv, LockDiscipline, OuterLoopsDispatch
<1>7. ASSUME UNCHANGED <<loops, locked>> PROVE LockInv'
  BY <1>7 DEF LockInv, LockDiscipline, OuterLoopsDispatch, Top
<1>8. ASSUME NEW n \in BodySizes, SendConnected(n) \/ SendConnecting(n)
      PROVE  UNCHANGED <<loops, locked>>
  BY <1>8 DEF SendConnected, SendConnecting, readerVars
<1>9. ASSUME OutputEvent \/ WriterHangup \/ ReaderHangup \/ ReaderConnects \/ WriterGone
      PROVE  UNCHANGED <<loops, locked>>
  BY <1>9 DEF OutputEvent, WriterHangup, ReaderHangup, ReaderConnects, WriterGone, readerVars
<1>10. QED
  BY <1>2, <1>3, <1>4, <1>5, <1>6, <1>7, <1>8, <1>9 DEF Next, vars

\* However deep input loops of one connection nest, the lock is held exactly while
\* the innermost one is between dispatches: no handler finds its own thread
\* holding the mutex.
THEOREM LockDisciplineInvariant == Spec => []LockDiscipline
<1>1. Init => TypeInv /\ LockInv
  BY TypeInvInit, NoLoops DEF Init
<1>2. TypeInv /\ LockInv /\ [Next]_vars => (TypeInv /\ LockInv)'
  BY TypeInvStep, LockInvStep
<1>3. LockInv => LockDiscipline
  BY DEF LockInv
<1>4. QED  BY <1>1, <1>2, <1>3, PTL DEF Spec
==============================================================================
