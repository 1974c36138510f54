-------------------------- MODULE LocalBusConnection --------------------------
(***************************************************************************)
(* One direction of traffic between two pbus::LocalBusConnection objects:   *)
(* the writing end (its _writeQueue, _writeSerial and poll interest), the   *)
(* stream socket as a sequence of bytes, and the reading end (its           *)
(* _readTask, _readSerial and the input loops on its call stack).           *)
(*                                                                          *)
(* A frame is the length prefix of HeaderSize bytes followed by a body.  A  *)
(* byte is modelled by where it came from: the frame it belongs to and its  *)
(* position in it.  Everything happens in one thread per end, the one that  *)
(* runs Poll.Wait; an input loop is interrupted only while it dispatches a  *)
(* message, when the handler itself waits for an answer and polls.          *)
(***************************************************************************)
EXTENDS Naturals, Sequences

CONSTANTS
  HeaderSize,      \* Session::HeaderSize and the size of SizeBuffer
  BodySizes,       \* lengths a serialized body may have
  ReadBufferSize,  \* the most one socket Read returns
  SocketBuffer,    \* bytes the socket holds before it stops being writable
  MaxSends,        \* bound: frames sent in a behaviour
  MaxBreaks,       \* bound: times the socket breaks
  MaxDepth         \* bound: input loops of this connection on the stack

ASSUME SizesAssumption ==
  /\ HeaderSize \in Nat \ {0}
  /\ BodySizes \subseteq Nat \ {0}   \* a body holds at least the request type
  /\ ReadBufferSize \in Nat \ {0}
  /\ SocketBuffer \in Nat

ASSUME BoundsAssumption == MaxSends \in Nat /\ MaxBreaks \in Nat /\ MaxDepth \in Nat

VARIABLES
  writerUp,       \* the writing end has a _socket registered with the poll
  outputEnabled,  \* it asked the poll for EventOutput
  writeQueue,     \* _writeQueue: [frame, offset] tasks
  writeSerial,    \* _writeSerial
  linkUp,         \* the socket pair is intact
  wire,           \* bytes written and not yet read
  readerUp,       \* the reading end has a _socket registered with the poll
  readTask,       \* _readTask: [size, length, data]
  readSerial,     \* _readSerial
  loops,          \* input loops on the stack: [rest, dispatching], innermost last
  locked,         \* the reading end's _lock is held
  sent,           \* history: the body length of every frame sent
  dispatched,     \* history: [serial, data] of every call of OnIncomingData
  breaks,         \* history: how often the socket broke
  torn            \* history: a surviving end was inside a frame at a reconnect,
                  \* or two input loops shared the read task

writerVars == <<writerUp, outputEnabled, writeQueue, writeSerial, sent>>
readerVars == <<readerUp, readTask, readSerial, loops, locked, dispatched>>
vars == <<writerUp, outputEnabled, writeQueue, writeSerial, linkUp, wire, readerUp,
          readTask, readSerial, loops, locked, sent, dispatched, breaks, torn>>

------------------------------------------------------------------------------
\* Frames and bytes

Byte == [frame : Nat \ {0}, at : Nat \ {0}]
Least(a, b) == IF a <= b THEN a ELSE b

FrameSize(f) == HeaderSize + sent[f]

\* Mutant: the offset into a frame is one short.
SliceOneShort(f, from, n) == [i \in 1 .. n |-> [frame |-> f, at |-> from + i - 1]]

\* Bytes from+1 .. from+n of frame f.
Slice(f, from, n) == [i \in 1 .. n |-> [frame |-> f, at |-> from + i]]

Body(f) == Slice(f, HeaderSize, sent[f])

\* ReadU32 on the collected SizeBuffer: the body length that was written there,
\* or, when the bytes are not a length prefix, whatever number they spell.
SizesSpelled(prefix) ==
  LET f == prefix[1].frame
  IN  IF f \in DOMAIN sent /\ prefix = Slice(f, 0, HeaderSize)
        THEN {sent[f]} ELSE BodySizes

------------------------------------------------------------------------------
\* ReadTask

NewReadTask == [size |-> << >>, length |-> 0, data |-> << >>]

\* Mutant: a task is finished as soon as its size is known.
FinishedBySize(task) == Len(task.size) >= HeaderSize

Finished(task) ==
  Len(task.size) >= HeaderSize /\ Len(task.data) >= task.length

\* Mutant: after the prefix the body is copied from the buffer's start again.
ReadTaskReadUnskipped(task, buffer, length) ==
  LET k    == Least(HeaderSize - Len(task.size), Len(buffer))
      size == task.size \o SubSeq(buffer, 1, k)
      len  == IF k # 0 THEN length ELSE task.length
      d    == Least(len - Len(task.data), Len(buffer) - k)
  IN  IF Len(size) < HeaderSize
        THEN [task |-> [task EXCEPT !.size = size], used |-> k]
        ELSE [task |-> [size |-> size, length |-> len,
                        data |-> task.data \o SubSeq(buffer, 1, d)],
              used |-> k + d]

\* ReadTask::Read: bytes it takes from a buffer, first for the prefix, then for
\* the body.  A task that is already finished takes nothing.
ReadTaskRead(task, buffer, length) ==
  LET k    == Least(HeaderSize - Len(task.size), Len(buffer))
      size == task.size \o SubSeq(buffer, 1, k)
      len  == IF k # 0 THEN length ELSE task.length
      d    == Least(len - Len(task.data), Len(buffer) - k)
  IN  IF Len(size) < HeaderSize
        THEN [task |-> [task EXCEPT !.size = size], used |-> k]
        ELSE [task |-> [size |-> size, length |-> len,
                        data |-> task.data \o SubSeq(buffer, k + 1, k + d)],
              used |-> k + d]

\* The lengths that Read may see: only a prefix completed by this buffer counts.
LengthsRead(task, buffer) ==
  LET k == Least(HeaderSize - Len(task.size), Len(buffer))
      size == task.size \o SubSeq(buffer, 1, k)
  IN  IF k # 0 /\ Len(size) = HeaderSize THEN SizesSpelled(size) ELSE {0}

------------------------------------------------------------------------------
Init ==
  /\ writerUp = FALSE /\ outputEnabled = FALSE
  /\ writeQueue = << >> /\ writeSerial = 0
  /\ linkUp = FALSE /\ wire = << >>
  /\ readerUp = FALSE /\ readTask = NewReadTask /\ readSerial = 0
  /\ loops = << >> /\ locked = FALSE
  /\ sent = << >> /\ dispatched = << >>
  /\ breaks = 0 /\ torn = FALSE

Top == loops[Len(loops)]
SetTop(loop) == [loops EXCEPT ![Len(loops)] = loop]
Popped == SubSeq(loops, 1, Len(loops) - 1)

------------------------------------------------------------------------------
\* The writing end

\* Mutant: Send does not ask for output events.
EnqueueUnwatched(n) ==
  /\ outputEnabled' = outputEnabled
  /\ writeQueue' = Append(writeQueue, [frame |-> Len(sent) + 1, offset |-> 0])
  /\ writeSerial' = writeSerial + 1
  /\ sent' = Append(sent, n)

\* EnableWrite(true), then the queue and the serial under the lock.
Enqueue(n) ==
  /\ outputEnabled' = TRUE
  /\ writeQueue' = Append(writeQueue, [frame |-> Len(sent) + 1, offset |-> 0])
  /\ writeSerial' = writeSerial + 1
  /\ sent' = Append(sent, n)

\* Send on a connection that has its socket.
SendConnected(n) ==
  /\ Len(sent) < MaxSends
  /\ writerUp
  /\ Enqueue(n)
  /\ UNCHANGED <<writerUp, linkUp, wire, readerVars, breaks, torn>>

\* Send on a connection without a socket: Connect first.  This object keeps its
\* queue, its offset into the first task and its serial; the other end accepts
\* the socket with a new LocalBusConnection, once it is back in its event loop.
SendConnecting(n) ==
  /\ Len(sent) < MaxSends
  /\ ~writerUp
  /\ loops = << >>
  /\ writerUp' = TRUE
  /\ linkUp' = TRUE /\ wire' = << >>
  /\ readerUp' = TRUE /\ readTask' = NewReadTask /\ readSerial' = 0
  /\ torn' = (torn \/ (writeQueue # << >> /\ Head(writeQueue).offset > 0))
  /\ Enqueue(n)
  /\ UNCHANGED <<loops, locked, dispatched, breaks>>

\* The output branch of HandleSocketEvent: one Write of part of the first task.
OutputEvent ==
  /\ writerUp /\ linkUp /\ outputEnabled /\ writeQueue # << >>
  /\ LET task  == Head(writeQueue)
         left  == FrameSize(task.frame) - task.offset
         room  == SocketBuffer - Len(wire)
     IN  \E r \in 1 .. Least(left, room) :
           /\ wire' = wire \o Slice(task.frame, task.offset, r)
           /\ writeQueue' = IF r = left THEN Tail(writeQueue)
                            ELSE [writeQueue EXCEPT ![1].offset = @ + r]
           /\ outputEnabled' = (writeQueue' # << >>)
  /\ UNCHANGED <<writerUp, writeSerial, sent, linkUp, readerVars, breaks, torn>>

\* The hangup branch at the writing end: the socket goes, the queue stays.
WriterHangup ==
  /\ writerUp /\ ~linkUp
  /\ writerUp' = FALSE
  /\ outputEnabled' = FALSE
  /\ UNCHANGED <<writeQueue, writeSerial, sent, linkUp, wire, readerVars, breaks, torn>>

------------------------------------------------------------------------------
\* The reading end

\* The handler is polling: outside every input loop, or inside a dispatch.
Polling == loops # << >> => Top.dispatching

\* The input branch begins: it locks and reads what the socket has.  It can
\* start inside another input loop of the same connection when the handler that
\* loop called is polling.
InputEvent ==
  /\ readerUp /\ linkUp /\ wire # << >>
  /\ Len(loops) < MaxDepth
  /\ ~locked
  /\ Polling
  /\ LET n == Least(ReadBufferSize, Len(wire))
     IN  /\ loops' = Append(loops, [rest |-> SubSeq(wire, 1, n), dispatching |-> FALSE])
         /\ wire' = SubSeq(wire, n + 1, Len(wire))
  /\ locked' = TRUE
  /\ torn' = (torn \/ loops # << >>)
  /\ UNCHANGED <<readerUp, readTask, readSerial, dispatched, writerVars, linkUp, breaks>>

\* One turn of the while loop: Read from the rest of the buffer, and when the
\* task is finished take a serial, unlock and call OnIncomingData.
LoopRead ==
  /\ loops # << >>
  /\ ~Top.dispatching
  /\ Top.rest # << >>
  /\ \E length \in LengthsRead(readTask, Top.rest) :
       LET r == ReadTaskRead(readTask, Top.rest, length)
       IN  /\ readTask' = r.task
           /\ loops' = SetTop([rest |-> SubSeq(Top.rest, r.used + 1, Len(Top.rest)),
                               dispatching |-> Finished(r.task)])
           /\ locked' = ~Finished(r.task)
           /\ IF Finished(r.task)
                THEN /\ dispatched' = Append(dispatched, [serial |-> readSerial,
                                                          data   |-> r.task.data])
                     /\ readSerial' = readSerial + 1
                ELSE UNCHANGED <<dispatched, readSerial>>
  /\ UNCHANGED <<readerUp, writerVars, linkUp, wire, breaks, torn>>

\* Mutant: the lock is not taken again after OnIncomingData.
DispatchReturnsUnlocked ==
  /\ loops # << >>
  /\ Top.dispatching
  /\ readTask' = NewReadTask
  /\ loops' = SetTop([Top EXCEPT !.dispatching = FALSE])
  /\ UNCHANGED <<readerUp, locked, readSerial, dispatched, writerVars, linkUp, wire, breaks, torn>>

\* OnIncomingData returns: lock again and start a new read task.
DispatchReturns ==
  /\ loops # << >>
  /\ Top.dispatching
  /\ readTask' = NewReadTask
  /\ loops' = SetTop([Top EXCEPT !.dispatching = FALSE])
  /\ locked' = TRUE
  /\ UNCHANGED <<readerUp, readSerial, dispatched, writerVars, linkUp, wire, breaks, torn>>

\* The buffer is used up: the event handler returns and the lock is released.
LoopEnds ==
  /\ loops # << >>
  /\ ~Top.dispatching
  /\ Top.rest = << >>
  /\ loops' = Popped
  /\ locked' = FALSE
  /\ UNCHANGED <<readerUp, readTask, readSerial, dispatched, writerVars, linkUp, wire, breaks, torn>>

\* The hangup branch at the reading end: bytes still in the socket are lost with
\* it, the half-read task and the serial stay.
ReaderHangup ==
  /\ readerUp /\ ~linkUp
  /\ Polling
  /\ readerUp' = FALSE
  /\ UNCHANGED <<readTask, readSerial, loops, locked, dispatched, writerVars, linkUp, wire, breaks, torn>>

\* The bytes this end has read stop inside a frame.
InsideFrame ==
  IF loops # << >> /\ Top.rest # << >>
    THEN LET b == Top.rest[Len(Top.rest)] IN b.at # FrameSize(b.frame)
    ELSE readTask # NewReadTask /\ ~Finished(readTask)

\* The reading end is the one to reconnect, because it has something to send
\* the other way: its object survives, and the writing end is the new one.
ReaderConnects ==
  /\ ~readerUp
  /\ Polling
  /\ readerUp' = TRUE
  /\ linkUp' = TRUE /\ wire' = << >>
  /\ writerUp' = TRUE /\ outputEnabled' = FALSE
  /\ writeQueue' = << >> /\ writeSerial' = 0
  /\ torn' = (torn \/ InsideFrame)
  /\ UNCHANGED <<readTask, readSerial, loops, locked, dispatched, sent, breaks>>

\* One end goes away with the socket: its process ended, or Session replaced the
\* object by a newly accepted one.  What is in the socket is lost.
Broken ==
  /\ linkUp
  /\ breaks < MaxBreaks
  /\ breaks' = breaks + 1
  /\ linkUp' = FALSE
  /\ wire' = << >>

WriterGone ==
  /\ Broken
  /\ writerUp' = FALSE /\ outputEnabled' = FALSE
  /\ writeQueue' = << >> /\ writeSerial' = 0
  /\ UNCHANGED <<sent, readerVars, torn>>

ReaderGone ==
  /\ Broken
  /\ readerUp' = FALSE /\ readTask' = NewReadTask /\ readSerial' = 0
  /\ loops' = << >> /\ locked' = FALSE
  /\ UNCHANGED <<writerVars, dispatched, torn>>

------------------------------------------------------------------------------
Next ==
  \/ \E n \in BodySizes : SendConnected(n) \/ SendConnecting(n)
  \/ OutputEvent
  \/ WriterHangup
  \/ InputEvent
  \/ LoopRead
  \/ DispatchReturns
  \/ LoopEnds
  \/ ReaderHangup
  \/ ReaderConnects
  \/ WriterGone
  \/ ReaderGone

\* The event loop handles every ready descriptor, a handler returns, and a loop
\* over a buffer runs on.  Nobody has to send, and sockets need not break.
Fairness ==
  /\ WF_vars(OutputEvent)
  /\ WF_vars(WriterHangup)
  /\ WF_vars(InputEvent)
  /\ WF_vars(LoopRead)
  /\ WF_vars(DispatchReturns)
  /\ WF_vars(LoopEnds)
  /\ WF_vars(ReaderHangup)

Spec == Init /\ [][Next]_vars /\ Fairness

------------------------------------------------------------------------------
\* Properties

WriteTask == [frame : Nat \ {0}, offset : Nat]
ReadTask == [size : Seq(Byte), length : Nat, data : Seq(Byte)]
InputLoop == [rest : Seq(Byte), dispatching : BOOLEAN]

\* Every variable has its type; queued tasks name frames that were sent.
TypeOK ==
  /\ writerUp \in BOOLEAN /\ outputEnabled \in BOOLEAN
  /\ writeQueue \in Seq(WriteTask) /\ writeSerial \in Nat
  /\ linkUp \in BOOLEAN /\ wire \in Seq(Byte)
  /\ readerUp \in BOOLEAN /\ readTask \in ReadTask /\ readSerial \in Nat
  /\ loops \in Seq(InputLoop) /\ locked \in BOOLEAN
  /\ sent \in Seq(Nat \ {0})
  /\ dispatched \in Seq([serial : Nat, data : Seq(Byte)])
  /\ breaks \in Nat /\ torn \in BOOLEAN

\* No lost wake-up: while the writing end has a socket, the poll watches it for
\* output exactly when something is queued.  EnableWrite is called from Send,
\* from the output branch and, through a fresh Add, by a reconnect; a queue that
\* survived a hangup must be watched again.
WriteInterest == writerUp => (outputEnabled <=> writeQueue # << >>)

\* The reading end's mutex is not recursive.  It is held exactly while a loop is
\* between dispatches, so a handler that sends on, or polls, the very connection
\* that called it never finds its own thread holding the lock, however the
\* loops nest.
LockDiscipline == locked <=> (loops # << >> /\ ~Top.dispatching)

\* The frame a dispatched body came from, 0 when it is not one frame's body.
FrameOf(data) ==
  IF data # << >> /\ data[1].frame \in DOMAIN sent /\ data = Body(data[1].frame)
    THEN data[1].frame ELSE 0

\* Hangups may lose frames, but as long as none caught a surviving end inside a
\* frame, and no handler polled its own connection, whatever HandleSocketEvent
\* dispatches is one whole body, never twice and never overtaking an earlier one.
IntactUnlessTorn ==
  ~torn => /\ \A k \in DOMAIN dispatched : FrameOf(dispatched[k].data) # 0
           /\ \A j, k \in DOMAIN dispatched :
                j < k => FrameOf(dispatched[j].data) < FrameOf(dispatched[k].data)

\* Without breaks and nested loops one direction implements the channel that
\* Session relies on.
ToChannel == INSTANCE Channel WITH
  sent      <- Len(sent),
  delivered <- [k \in DOMAIN dispatched |->
                  [serial  |-> dispatched[k].serial,
                   message |-> FrameOf(dispatched[k].data)]]

ImplementsChannel == ToChannel!Spec

\* "error or hangup, reconnect" (LocalBusConnection.cpp:78): an end that lost its
\* socket with frames still queued gets a socket again.
HangupReconnects == (~writerUp /\ writeQueue # << >>) ~> writerUp

==============================================================================
