------------------------- MODULE ServiceManagerProofs -------------------------
(***************************************************************************)
(* Proofs about ServiceManager for any number of starts and deaths.  When    *)
(* every signal is handled before the next one is raised (Prompt), a start   *)
(* throws only if its child is gone.                                        *)
(***************************************************************************)
EXTENDS ServiceManager, SequenceTheorems, TLAPS

PidOf == 1 .. Len(child)
ChildState == {"forked", "listening", "ready", "dead"}
StartOutcome == {"none", "started"} \cup Failures
EventType == [type : {"Started", "Stopped"}, pid : PidOf]

------------------------------------------------------------------------------
\* The invariant

\* Only the child that start waits for may still be booting.
BootingIsAwaited ==
  \A pid \in PidOf : child[pid] \in {"forked", "listening"} => pid = starting

\* A start that returned normally left a child that is up, or was.
StartedIsUp ==
  \A pid \in PidOf : outcome[pid] = "started" => child[pid] \in {"ready", "dead"}

\* The pending signals tell the truth, and there is one of them at most.
SignalsAreTrue ==
  /\ pendingUsr2 # 0 => /\ pendingChld = 0
                        /\ pendingUsr2 = starting /\ child[starting] = "ready"
                        /\ \A k \in 1 .. Len(pipe) : pipe[k].type = "Stopped"
  /\ pendingChld # 0 => child[pendingChld] = "dead"

\* So do the events in the pipe; a start-up event is about the awaited child.
EventsAreTrue ==
  \A k \in 1 .. Len(pipe) :
    IF pipe[k].type = "Stopped"
      THEN child[pipe[k].pid] = "dead"
      ELSE pipe[k].pid = starting /\ child[starting] \in {"ready", "dead"}

\* There is one start-up event at most, and the end of its child comes after it.
StartupComesFirst ==
  \A j, k \in 1 .. Len(pipe) :
    j < k /\ pipe[k].type = "Started" =>
      pipe[j].type = "Stopped" /\ pipe[j].pid # pipe[k].pid

PromptInv ==
  /\ TypeOK
  /\ BootingIsAwaited
  /\ StartedIsUp
  /\ SignalsAreTrue
  /\ EventsAreTrue
  /\ StartupComesFirst

------------------------------------------------------------------------------
LEMMA Types ==
  ASSUME TypeOK
  PROVE  /\ Pid = PidOf /\ Len(child) \in Nat
         /\ child \in Seq(ChildState) /\ child \in [PidOf -> ChildState]
         /\ outcome \in Seq(StartOutcome) /\ outcome \in [PidOf -> StartOutcome]
         /\ pipe \in Seq(EventType) /\ Len(pipe) \in Nat /\ DOMAIN pipe = 1 .. Len(pipe)
         /\ \A k \in 1 .. Len(pipe) : pipe[k] \in EventType
         /\ starting \in {0} \cup PidOf
<1>1. child \in Seq(ChildState) /\ outcome \in Seq(StartOutcome) /\ Len(outcome) = Len(child)
  BY DEF TypeOK, ChildState, StartOutcome
<1>2. Pid = PidOf /\ Len(child) \in Nat
  BY <1>1, LenProperties DEF Pid, PidOf
<1>3. child \in [PidOf -> ChildState] /\ outcome \in [PidOf -> StartOutcome]
  BY <1>1, LenProperties DEF PidOf
<1>4. pipe \in Seq(EventType) /\ starting \in {0} \cup PidOf
  BY <1>2 DEF TypeOK, EventType
<1>5. /\ Len(pipe) \in Nat /\ DOMAIN pipe = 1 .. Len(pipe)
      /\ \A k \in 1 .. Len(pipe) : pipe[k] \in EventType
  BY <1>4, LenProperties, ElementOfSeq
<1>6. QED  BY <1>1, <1>2, <1>3, <1>4, <1>5

LEMMA PromptInvInit == Init => PromptInv
<1> SUFFICES ASSUME Init PROVE PromptInv
  OBVIOUS
<1>1. /\ child = << >> /\ outcome = << >> /\ pipe = << >>
      /\ Len(child) = 0 /\ Len(outcome) = 0 /\ Len(pipe) = 0 /\ PidOf = {}
  BY EmptySeq DEF Init, PidOf
<1>2. TypeOK
  <2>1. /\ child \in Seq({"forked", "listening", "ready", "dead"})
        /\ outcome \in Seq({"none", "started"} \cup Failures)
        /\ pipe \in Seq([type : {"Started", "Stopped"}, pid : Pid])
    BY <1>1, EmptySeq
  <2>2. QED  BY <2>1, <1>1 DEF TypeOK, Init
<1>3. QED
  BY <1>1, <1>2
  DEF PromptInv, BootingIsAwaited, StartedIsUp, SignalsAreTrue, EventsAreTrue,
      StartupComesFirst, Init

------------------------------------------------------------------------------
\* A step that changes one child's state and nothing about pids.
LEMMA ChildChanges ==
  ASSUME TypeOK, NEW pid \in PidOf, NEW state \in ChildState,
         child' = [child EXCEPT ![pid] = state]
  PROVE  /\ child' \in Seq(ChildState) /\ Len(child') = Len(child)
         /\ PidOf' = PidOf /\ Pid' = Pid
         /\ child'[pid] = state
         /\ \A p \in PidOf \ {pid} : child'[p] = child[p]
<1>1. /\ child' \in Seq(ChildState) /\ Len(child') = Len(child)
      /\ \A p \in 1 .. Len(child) : child'[p] = IF p = pid THEN state ELSE child[p]
  BY Types, ExceptSeq DEF PidOf
<1>2. DOMAIN child' = 1 .. Len(child')
  BY <1>1, LenProperties
<1>3. QED  BY <1>1, <1>2, Types DEF PidOf, Pid

\* A step that writes one event.
LEMMA EventWritten ==
  ASSUME TypeOK, NEW e \in EventType, pipe' = Append(pipe, e)
  PROVE  /\ pipe' \in Seq(EventType) /\ Len(pipe') = Len(pipe) + 1
         /\ pipe'[Len(pipe) + 1] = e
         /\ \A k \in 1 .. Len(pipe) : pipe'[k] = pipe[k]
BY Types, AppendProperties

\* A step that reads one.
LEMMA EventRead ==
  ASSUME TypeOK, pipe # << >>, pipe' = Tail(pipe)
  PROVE  /\ pipe' \in Seq(EventType) /\ Len(pipe') = Len(pipe) - 1 /\ Len(pipe) \in Nat \ {0}
         /\ Head(pipe) = pipe[1]
         /\ \A k \in 1 .. Len(pipe) - 1 : pipe'[k] = pipe[k + 1]
<1>1. Len(pipe) \in Nat \ {0}
  BY Types, EmptySeq
<1>2. QED  BY <1>1, Types, HeadTailProperties

------------------------------------------------------------------------------
\* One lemma per action.

LEMMA StartStep == ASSUME PromptInv, Start PROVE PromptInv'
<1>1. TypeOK /\ starting = 0 /\ starting' = Len(child) + 1
      /\ child' = Append(child, "forked") /\ outcome' = Append(outcome, "none")
      /\ UNCHANGED <<pendingUsr2, pendingChld, pipe, deaths>>
  BY DEF PromptInv, Start, signals
<1>2. /\ child' \in Seq(ChildState) /\ Len(child') = Len(child) + 1
      /\ child'[Len(child) + 1] = "forked"
      /\ \A p \in 1 .. Len(child) : child'[p] = child[p]
  <2>1. "forked" \in ChildState
    BY DEF ChildState
  <2>2. QED  BY <1>1, <2>1, Types, AppendProperties
<1>3. /\ outcome' \in Seq(StartOutcome) /\ Len(outcome') = Len(child) + 1
      /\ outcome'[Len(child) + 1] = "none"
      /\ \A p \in 1 .. Len(child) : outcome'[p] = outcome[p]
  <2>1. "none" \in StartOutcome /\ Len(outcome) = Len(child)
    BY <1>1 DEF StartOutcome, TypeOK
  <2>2. QED  BY <1>1, <2>1, Types, AppendProperties
<1>4. /\ PidOf' = 1 .. Len(child) + 1 /\ Pid' = PidOf' /\ PidOf \subseteq PidOf'
      /\ Len(child) \in Nat
  BY <1>1, <1>2, Types, LenProperties DEF PidOf, Pid
<1>5. pipe' \in Seq(EventType')
  <2>1. EventType \subseteq EventType'
    BY <1>4 DEF EventType
  <2>2. QED  BY <2>1, <1>1, Types, SeqMonotonic
<1>6. TypeOK'
  <2>1. pipe' \in Seq([type : {"Started", "Stopped"}, pid : Pid'])
    BY <1>4, <1>5 DEF EventType
  <2>2. starting' \in Pid' /\ pendingUsr2' \in {0} \cup Pid' /\ pendingChld' \in {0} \cup Pid'
    BY <1>1, <1>4, Types DEF TypeOK
  <2>3. deaths' \in Nat
    BY <1>1 DEF TypeOK
  <2>4. /\ child' \in Seq({"forked", "listening", "ready", "dead"})
        /\ outcome' \in Seq({"none", "started"} \cup Failures) /\ Len(outcome') = Len(child')
    BY <1>2, <1>3 DEF ChildState, StartOutcome
  <2>5. QED  BY <2>1, <2>2, <2>3, <2>4 DEF TypeOK
<1>7. BootingIsAwaited' /\ StartedIsUp'
  BY <1>1, <1>2, <1>3, <1>4 DEF PromptInv, BootingIsAwaited, StartedIsUp, PidOf
<1>8. pendingUsr2 = 0 /\ SignalsAreTrue'
  <2>1. pendingUsr2 \in {0} \cup PidOf /\ pendingChld \in {0} \cup PidOf
    BY <1>1, Types DEF TypeOK
  <2>2. pendingUsr2 = 0
    BY <2>1, <1>1, <1>4 DEF PromptInv, SignalsAreTrue, PidOf
  <2>3. QED  BY <2>1, <2>2, <1>1, <1>2, <1>4 DEF PromptInv, SignalsAreTrue, PidOf
<1>9. \A k \in 1 .. Len(pipe) : pipe[k].type = "Stopped" /\ pipe[k].pid \in 1 .. Len(child)
  BY <1>1, <1>4, Types DEF PromptInv, EventsAreTrue, EventType, PidOf
<1>10. EventsAreTrue' /\ StartupComesFirst'
  BY <1>1, <1>2, <1>9 DEF PromptInv, EventsAreTrue, StartupComesFirst
<1>11. QED  BY <1>6, <1>7, <1>8, <1>10 DEF PromptInv

LEMMA ListenStep ==
  ASSUME PromptInv, NEW pid \in PidOf, Listen(pid)
  PROVE  PromptInv'
<1>1. /\ TypeOK /\ child[pid] = "forked" /\ "listening" \in ChildState
      /\ child' = [child EXCEPT ![pid] = "listening"]
      /\ UNCHANGED <<starting, outcome, pendingUsr2, pendingChld, pipe, deaths>>
  BY DEF PromptInv, Listen, signals, ChildState
<1>2. /\ child' \in Seq(ChildState) /\ Len(child') = Len(child)
      /\ PidOf' = PidOf /\ Pid' = Pid /\ child'[pid] = "listening"
      /\ \A p \in PidOf \ {pid} : child'[p] = child[p]
  BY <1>1, ChildChanges
<1>3. TypeOK'
  BY <1>1, <1>2 DEF TypeOK, ChildState
<1>4. BootingIsAwaited' /\ StartedIsUp'
  BY <1>1, <1>2 DEF PromptInv, BootingIsAwaited, StartedIsUp
<1>5. pendingChld # 0 => pendingChld \in PidOf \ {pid}
  BY <1>1, Types DEF PromptInv, SignalsAreTrue, TypeOK
<1>6. pendingUsr2 # 0 => starting \in PidOf \ {pid}
  BY <1>1, Types DEF PromptInv, SignalsAreTrue, TypeOK
<1>7. SignalsAreTrue'
  BY <1>1, <1>2, <1>5, <1>6 DEF PromptInv, SignalsAreTrue
<1>8. EventsAreTrue'
  BY <1>1, <1>2, Types DEF PromptInv, EventsAreTrue, EventType
<1>9. StartupComesFirst'
  BY <1>1 DEF PromptInv, StartupComesFirst
<1>10. QED  BY <1>3, <1>4, <1>7, <1>8, <1>9 DEF PromptInv

LEMMA NotifyParentStep ==
  ASSUME Prompt, PromptInv, NEW pid \in PidOf, NotifyParent(pid)
  PROVE  PromptInv'
<1>1. /\ TypeOK /\ child[pid] = "listening" /\ "ready" \in ChildState
      /\ child' = [child EXCEPT ![pid] = "ready"]
      /\ pendingUsr2 = 0 /\ pendingUsr2' = pid /\ pendingChld = 0
      /\ UNCHANGED <<starting, outcome, pendingChld, pipe, deaths>>
  BY DEF PromptInv, NotifyParent, MayRaise, Raised, ChildState
<1>2. /\ child' \in Seq(ChildState) /\ Len(child') = Len(child)
      /\ PidOf' = PidOf /\ Pid' = Pid /\ child'[pid] = "ready"
      /\ \A p \in PidOf \ {pid} : child'[p] = child[p]
  BY <1>1, ChildChanges
<1>3. TypeOK'
  BY <1>1, <1>2, Types DEF TypeOK, ChildState
<1>4. BootingIsAwaited' /\ StartedIsUp' /\ pid = starting
  BY <1>1, <1>2 DEF PromptInv, BootingIsAwaited, StartedIsUp
<1>5. \A k \in 1 .. Len(pipe) :
        pipe[k].type = "Stopped" /\ pipe[k].pid \in PidOf \ {pid} /\ child[pipe[k].pid] = "dead"
  BY <1>1, <1>4, Types DEF PromptInv, EventsAreTrue, EventType
<1>6. SignalsAreTrue'
  BY <1>1, <1>2, <1>4, <1>5 DEF SignalsAreTrue
<1>7. EventsAreTrue'
  BY <1>1, <1>2, <1>5 DEF EventsAreTrue
<1>8. StartupComesFirst'
  BY <1>1, <1>5 DEF StartupComesFirst
<1>9. QED  BY <1>3, <1>4, <1>6, <1>7, <1>8 DEF PromptInv

LEMMA DieStep ==
  ASSUME Prompt, PromptInv, NEW pid \in PidOf, Die(pid)
  PROVE  PromptInv'
<1>1. /\ TypeOK /\ "dead" \in ChildState
      /\ child' = [child EXCEPT ![pid] = "dead"]
      /\ pendingUsr2 = 0 /\ pendingChld = 0 /\ pendingChld' = pid
      /\ UNCHANGED <<starting, outcome, pendingUsr2, pipe>>
  BY DEF PromptInv, Die, MayRaise, Raised, ChildState
<1>2. /\ child' \in Seq(ChildState) /\ Len(child') = Len(child)
      /\ PidOf' = PidOf /\ Pid' = Pid /\ child'[pid] = "dead"
      /\ \A p \in PidOf \ {pid} : child'[p] = child[p]
  BY <1>1, ChildChanges
<1>3. deaths' \in Nat
  <2>1. deaths \in Nat /\ deaths' = deaths + 1
    BY <1>1 DEF Die, TypeOK
  <2>2. QED  BY <2>1
<1>4. TypeOK'
  BY <1>1, <1>2, <1>3, Types DEF TypeOK, ChildState
<1>5. BootingIsAwaited' /\ StartedIsUp'
  BY <1>1, <1>2 DEF PromptInv, BootingIsAwaited, StartedIsUp
<1>6. SignalsAreTrue'
  BY <1>1, <1>2 DEF SignalsAreTrue
<1>7. EventsAreTrue'
  BY <1>1, <1>2, Types DEF PromptInv, EventsAreTrue, EventType
<1>8. StartupComesFirst'
  BY <1>1 DEF PromptInv, StartupComesFirst
<1>9. QED  BY <1>4, <1>5, <1>6, <1>7, <1>8 DEF PromptInv

LEMMA OnSigUSR2Step == ASSUME PromptInv, OnSigUSR2 PROVE PromptInv'
<1> DEFINE e == Event("Started", pendingUsr2)
<1>1. /\ TypeOK /\ pendingUsr2 # 0 /\ pendingUsr2' = 0
      /\ pipe' = Append(pipe, e)
      /\ UNCHANGED <<child, starting, outcome, pendingChld, deaths>>
  BY DEF PromptInv, OnSigUSR2
<1>2. /\ pendingChld = 0 /\ pendingUsr2 = starting /\ child[starting] = "ready"
      /\ \A k \in 1 .. Len(pipe) : pipe[k].type = "Stopped" /\ child[pipe[k].pid] = "dead"
  BY <1>1 DEF PromptInv, SignalsAreTrue, EventsAreTrue
<1>3. e \in EventType /\ e.type = "Started" /\ e.pid = starting
  BY <1>1, <1>2, Types DEF Event, EventType, TypeOK
<1> HIDE DEF e
<1>4. /\ pipe' \in Seq(EventType) /\ Len(pipe') = Len(pipe) + 1 /\ Len(pipe) \in Nat
      /\ pipe'[Len(pipe) + 1] = e
      /\ \A k \in 1 .. Len(pipe) : pipe'[k] = pipe[k]
  BY <1>1, <1>3, EventWritten, Types
<1>5. TypeOK'
  BY <1>1, <1>4, Types DEF TypeOK, EventType, Pid
<1>6. BootingIsAwaited' /\ StartedIsUp' /\ SignalsAreTrue'
  BY <1>1, <1>2 DEF PromptInv, BootingIsAwaited, StartedIsUp, SignalsAreTrue, PidOf
<1>7. EventsAreTrue'
  <2> SUFFICES ASSUME NEW k \in 1 .. Len(pipe')
               PROVE  IF pipe'[k].type = "Stopped"
                        THEN child[pipe'[k].pid] = "dead"
                        ELSE pipe'[k].pid = starting /\ child[starting] \in {"ready", "dead"}
    BY <1>1 DEF EventsAreTrue
  <2>1. CASE k = Len(pipe) + 1
    BY <2>1, <1>2, <1>3, <1>4
  <2>2. CASE k # Len(pipe) + 1
    BY <2>2, <1>2, <1>4
  <2>3. QED  BY <2>1, <2>2
<1>8. StartupComesFirst'
  <2> SUFFICES ASSUME NEW j \in 1 .. Len(pipe'), NEW k \in 1 .. Len(pipe'),
                      j < k, pipe'[k].type = "Started"
               PROVE  pipe'[j].type = "Stopped" /\ pipe'[j].pid # pipe'[k].pid
    BY DEF StartupComesFirst
  <2>1. k = Len(pipe) + 1
    BY <1>2, <1>4
  <2>2. j \in 1 .. Len(pipe)
    BY <2>1, <1>4
  <2>3. QED  BY <2>1, <2>2, <1>2, <1>3, <1>4
<1>9. QED  BY <1>5, <1>6, <1>7, <1>8 DEF PromptInv

LEMMA OnSigChldStep == ASSUME PromptInv, OnSigChld PROVE PromptInv'
<1> DEFINE e == Event("Stopped", pendingChld)
<1>1. /\ TypeOK /\ pendingChld # 0 /\ pendingChld' = 0
      /\ pipe' = Append(pipe, e)
      /\ UNCHANGED <<child, starting, outcome, pendingUsr2, deaths>>
  BY DEF PromptInv, OnSigChld
<1>2. pendingUsr2 = 0 /\ child[pendingChld] = "dead"
  BY <1>1 DEF PromptInv, SignalsAreTrue
<1>3. e \in EventType /\ e.type = "Stopped" /\ child[e.pid] = "dead"
  BY <1>1, <1>2, Types DEF Event, EventType, TypeOK
<1> HIDE DEF e
<1>4. /\ pipe' \in Seq(EventType) /\ Len(pipe') = Len(pipe) + 1 /\ Len(pipe) \in Nat
      /\ pipe'[Len(pipe) + 1] = e
      /\ \A k \in 1 .. Len(pipe) : pipe'[k] = pipe[k]
  BY <1>1, <1>3, EventWritten, Types
<1>5. TypeOK'
  BY <1>1, <1>4, Types DEF TypeOK, EventType, Pid
<1>6. BootingIsAwaited' /\ StartedIsUp' /\ SignalsAreTrue'
  BY <1>1, <1>2 DEF PromptInv, BootingIsAwaited, StartedIsUp, SignalsAreTrue, PidOf
<1>7. EventsAreTrue'
  BY <1>1, <1>3, <1>4 DEF PromptInv, EventsAreTrue
<1>8. StartupComesFirst'
  BY <1>1, <1>3, <1>4 DEF PromptInv, StartupComesFirst
<1>9. QED  BY <1>5, <1>6, <1>7, <1>8 DEF PromptInv

\* What reading any event does to the pipe.
LEMMA ReadLeavesTruth ==
  ASSUME PromptInv, pipe # << >>, pipe' = Tail(pipe), UNCHANGED <<child, signals>>
  PROVE  /\ pipe[1] \in EventType /\ Head(pipe) = pipe[1]
         /\ 1 \in 1 .. Len(pipe) /\ Len(pipe) \in Nat \ {0} /\ Len(pipe') = Len(pipe) - 1
         /\ \A k \in 1 .. Len(pipe) - 1 : pipe'[k] = pipe[k + 1]
         /\ pipe' \in Seq(EventType') /\ PidOf' = PidOf /\ Pid' = Pid
         /\ StartupComesFirst'
         /\ starting' = starting => EventsAreTrue'
         /\ pipe[1].type = "Started" =>
              \A k \in 1 .. Len(pipe') : pipe'[k].type = "Stopped"
<1>1. TypeOK /\ child' = child
  BY DEF PromptInv
<1>2. /\ pipe' \in Seq(EventType) /\ Len(pipe') = Len(pipe) - 1 /\ Len(pipe) \in Nat \ {0}
      /\ Head(pipe) = pipe[1]
      /\ \A k \in 1 .. Len(pipe) - 1 : pipe'[k] = pipe[k + 1]
  BY <1>1, EventRead
<1>3. PidOf' = PidOf /\ Pid' = Pid /\ EventType' = EventType
  BY <1>1 DEF PidOf, Pid, EventType
<1>4. pipe[1] \in EventType
  BY <1>1, <1>2, Types
<1>5. StartupComesFirst'
  <2> SUFFICES ASSUME NEW j \in 1 .. Len(pipe'), NEW k \in 1 .. Len(pipe'),
                      j < k, pipe'[k].type = "Started"
               PROVE  pipe'[j].type = "Stopped" /\ pipe'[j].pid # pipe'[k].pid
    BY DEF StartupComesFirst
  <2>1. j + 1 \in 1 .. Len(pipe) /\ k + 1 \in 1 .. Len(pipe) /\ j + 1 < k + 1
    BY <1>2
  <2>2. pipe'[j] = pipe[j + 1] /\ pipe'[k] = pipe[k + 1]
    BY <1>2
  <2>3. QED  BY <2>1, <2>2 DEF PromptInv, StartupComesFirst
<1>6. starting' = starting => EventsAreTrue'
  <2> SUFFICES ASSUME starting' = starting, NEW k \in 1 .. Len(pipe')
               PROVE  IF pipe'[k].type = "Stopped"
                        THEN child[pipe'[k].pid] = "dead"
                        ELSE pipe'[k].pid = starting /\ child[starting] \in {"ready", "dead"}
    BY <1>1 DEF EventsAreTrue
  <2>1. k + 1 \in 1 .. Len(pipe) /\ pipe'[k] = pipe[k + 1]
    BY <1>2
  <2>2. QED  BY <2>1 DEF PromptInv, EventsAreTrue
<1>7. ASSUME pipe[1].type = "Started", NEW k \in 1 .. Len(pipe')
      PROVE  pipe'[k].type = "Stopped"
  <2>1. k + 1 \in 1 .. Len(pipe) /\ 1 \in 1 .. Len(pipe) /\ 1 < k + 1
    BY <1>2
  <2>2. pipe[k + 1].type # "Started"
    BY <2>1, <1>7 DEF PromptInv, StartupComesFirst
  <2>3. pipe[k + 1].type \in {"Started", "Stopped"}
    BY <2>1, <1>1, Types DEF EventType
  <2>4. QED  BY <2>2, <2>3, <1>2
<1>8. 1 \in 1 .. Len(pipe)
  BY <1>2
<1>9. pipe' \in Seq(EventType')
  BY <1>2, <1>3
<1>10. QED  BY <1>2, <1>3, <1>4, <1>5, <1>6, <1>7, <1>8, <1>9

\* What reading leaves of the types.
LEMMA ReadKeepsTypes ==
  ASSUME TypeOK, pipe' \in Seq(EventType'), PidOf' = PidOf, Pid' = Pid,
         UNCHANGED <<child, signals, deaths>>,
         outcome' \in Seq(StartOutcome), Len(outcome') = Len(outcome),
         starting' \in {0, starting}
  PROVE  TypeOK'
<1>1. pipe' \in Seq([type : {"Started", "Stopped"}, pid : Pid'])
  BY Types DEF EventType
<1>2. /\ child' \in Seq({"forked", "listening", "ready", "dead"})
      /\ outcome' \in Seq({"none", "started"} \cup Failures) /\ Len(outcome') = Len(child')
  BY DEF TypeOK, StartOutcome
<1>3. /\ starting' \in {0} \cup Pid' /\ deaths' \in Nat
      /\ pendingUsr2' \in {0} \cup Pid' /\ pendingChld' \in {0} \cup Pid'
  BY DEF TypeOK, signals
<1>4. QED  BY <1>1, <1>2, <1>3 DEF TypeOK

\* start returns: only the awaited child's outcome is written.
LEMMA OutcomeWritten ==
  ASSUME TypeOK, starting # 0, NEW how \in StartOutcome, Returns(how)
  PROVE  /\ starting' = 0 /\ starting \in PidOf
         /\ outcome' \in Seq(StartOutcome) /\ Len(outcome') = Len(outcome)
         /\ \A p \in PidOf : outcome'[p] = IF p = starting THEN how ELSE outcome[p]
<1>1. starting \in PidOf /\ Len(outcome) = Len(child) /\ outcome \in Seq(StartOutcome)
  BY Types DEF TypeOK
<1>2. starting' = 0 /\ outcome' = [outcome EXCEPT ![starting] = how]
  BY DEF Returns
<1>3. QED  BY <1>1, <1>2, ExceptSeq DEF PidOf

\* The start-up event read is the awaited child's, and nothing is left of it.
LEMMA ReadStartedStep ==
  ASSUME PromptInv, ReadStarted
  PROVE  /\ PromptInv' /\ starting \in PidOf
         /\ \A p \in PidOf : outcome'[p] = IF p = starting THEN "started" ELSE outcome[p]
<1>1. /\ TypeOK /\ starting # 0 /\ pipe # << >> /\ Head(pipe).type = "Started"
      /\ pipe' = Tail(pipe) /\ UNCHANGED <<child, signals, deaths>>
      /\ Returns(IF Head(pipe).pid = starting THEN "started" ELSE "spurious startup signal")
  BY DEF PromptInv, ReadStarted, Reads
<1>2. /\ pipe[1] \in EventType /\ Head(pipe) = pipe[1]
      /\ pipe' \in Seq(EventType') /\ PidOf' = PidOf /\ Pid' = Pid
      /\ StartupComesFirst'
      /\ \A k \in 1 .. Len(pipe') : pipe'[k].type = "Stopped"
  BY <1>1, ReadLeavesTruth
<1>3. /\ 1 \in 1 .. Len(pipe) /\ Len(pipe) \in Nat \ {0}
      /\ Len(pipe') = Len(pipe) - 1
      /\ \A k \in 1 .. Len(pipe) - 1 : pipe'[k] = pipe[k + 1]
  BY <1>1, ReadLeavesTruth
<1>4. pipe[1].pid = starting /\ child[starting] \in {"ready", "dead"} /\ pendingUsr2 = 0
  BY <1>1, <1>2, <1>3 DEF PromptInv, EventsAreTrue, SignalsAreTrue
<1>5. "started" \in StartOutcome /\ Returns("started")
  BY <1>1, <1>2, <1>4 DEF StartOutcome
<1>6. /\ starting' = 0 /\ starting \in PidOf
      /\ outcome' \in Seq(StartOutcome) /\ Len(outcome') = Len(outcome)
      /\ \A p \in PidOf : outcome'[p] = IF p = starting THEN "started" ELSE outcome[p]
  BY <1>1, <1>5, OutcomeWritten
<1>7. TypeOK'
  BY <1>1, <1>2, <1>6, ReadKeepsTypes
<1>8. BootingIsAwaited' /\ StartedIsUp'
  BY <1>1, <1>2, <1>4, <1>6 DEF PromptInv, BootingIsAwaited, StartedIsUp
<1>9. SignalsAreTrue'
  BY <1>1, <1>4 DEF PromptInv, SignalsAreTrue, signals
<1>10. EventsAreTrue'
  <2> SUFFICES ASSUME NEW k \in 1 .. Len(pipe') PROVE child[pipe'[k].pid] = "dead"
    BY <1>1, <1>2 DEF EventsAreTrue
  <2>1. k + 1 \in 1 .. Len(pipe) /\ pipe'[k] = pipe[k + 1]
    BY <1>3
  <2>2. QED  BY <2>1, <1>2 DEF PromptInv, EventsAreTrue
<1>11. QED  BY <1>2, <1>6, <1>7, <1>8, <1>9, <1>10 DEF PromptInv

\* A death that ends the start is the awaited child's.
LEMMA ReadStoppedStep ==
  ASSUME PromptInv, ReadStopped
  PROVE  /\ PromptInv'
         /\ \A p \in PidOf : outcome'[p] # outcome[p] => child[p] = "dead"
<1>1. /\ TypeOK /\ starting # 0 /\ pipe # << >> /\ Head(pipe).type = "Stopped"
      /\ pipe' = Tail(pipe) /\ UNCHANGED <<child, signals, deaths>>
      /\ IF Head(pipe).pid = starting
           THEN Returns("failed to start") ELSE UNCHANGED <<starting, outcome>>
  BY DEF PromptInv, ReadStopped, Reads
<1>2. /\ pipe[1] \in EventType /\ Head(pipe) = pipe[1]
      /\ pipe' \in Seq(EventType') /\ PidOf' = PidOf /\ Pid' = Pid
      /\ StartupComesFirst'
      /\ starting' = starting => EventsAreTrue'
  BY <1>1, ReadLeavesTruth
<1>3. /\ 1 \in 1 .. Len(pipe) /\ Len(pipe) \in Nat \ {0}
      /\ Len(pipe') = Len(pipe) - 1
      /\ \A k \in 1 .. Len(pipe) - 1 : pipe'[k] = pipe[k + 1]
  BY <1>1, ReadLeavesTruth
<1>4. child[pipe[1].pid] = "dead"
  BY <1>1, <1>2, <1>3 DEF PromptInv, EventsAreTrue
<1>5. CASE pipe[1].pid # starting
  <2>1. UNCHANGED <<starting, outcome>>
    BY <1>1, <1>2, <1>5
  <2>2. TypeOK'
    BY <2>1, <1>1, <1>2, Types, ReadKeepsTypes
  <2>3. BootingIsAwaited' /\ StartedIsUp'
    BY <2>1, <1>1, <1>2 DEF PromptInv, BootingIsAwaited, StartedIsUp
  <2>4. SignalsAreTrue'
    <3>1. ASSUME pendingUsr2 # 0, NEW k \in 1 .. Len(pipe')
          PROVE  pipe'[k].type = "Stopped"
      <4>1. k + 1 \in 1 .. Len(pipe) /\ pipe'[k] = pipe[k + 1]
        BY <1>3
      <4>2. QED  BY <4>1, <3>1 DEF PromptInv, SignalsAreTrue
    <3>2. QED  BY <3>1, <2>1, <1>1 DEF PromptInv, SignalsAreTrue, signals
  <2>5. QED  BY <2>1, <2>2, <2>3, <2>4, <1>2 DEF PromptInv
<1>6. CASE pipe[1].pid = starting
  <2>1. "failed to start" \in StartOutcome /\ Returns("failed to start")
    BY <1>1, <1>2, <1>6 DEF StartOutcome, Failures
  <2>2. /\ starting' = 0 /\ starting \in PidOf
        /\ outcome' \in Seq(StartOutcome) /\ Len(outcome') = Len(outcome)
        /\ \A p \in PidOf : outcome'[p] = IF p = starting THEN "failed to start" ELSE outcome[p]
    BY <1>1, <2>1, OutcomeWritten
  <2>3. child[starting] = "dead"
    BY <1>4, <1>6
  <2>4. pendingUsr2 = 0
    BY <2>3 DEF PromptInv, SignalsAreTrue
  <2>5. ASSUME NEW k \in 1 .. Len(pipe')
        PROVE  pipe'[k].type = "Stopped" /\ child[pipe'[k].pid] = "dead"
    <3>1. k + 1 \in 1 .. Len(pipe) /\ pipe'[k] = pipe[k + 1] /\ 1 < k + 1
      BY <1>3
    <3>2. pipe[k + 1].type \in {"Started", "Stopped"}
      BY <3>1, <1>1, Types DEF EventType
    <3>3. CASE pipe[k + 1].type = "Started"
      <4>1. pipe[k + 1].pid = starting
        BY <3>1, <3>3 DEF PromptInv, EventsAreTrue
      <4>2. pipe[1].pid # pipe[k + 1].pid
        BY <3>1, <3>3, <1>3 DEF PromptInv, StartupComesFirst
      <4>3. QED  BY <4>1, <4>2, <1>6
    <3>4. CASE pipe[k + 1].type = "Stopped"
      BY <3>1, <3>4 DEF PromptInv, EventsAreTrue
    <3>5. QED  BY <3>2, <3>3, <3>4
  <2>6. TypeOK'
    BY <2>2, <1>1, <1>2, ReadKeepsTypes
  <2>7. BootingIsAwaited' /\ StartedIsUp'
    BY <2>2, <2>3, <1>1, <1>2 DEF PromptInv, BootingIsAwaited, StartedIsUp
  <2>8. SignalsAreTrue'
    BY <2>4, <1>1 DEF PromptInv, SignalsAreTrue, signals
  <2>9. EventsAreTrue'
    BY <2>5, <1>1 DEF EventsAreTrue
  <2>10. QED  BY <2>2, <2>3, <2>6, <2>7, <2>8, <2>9, <1>2 DEF PromptInv
<1>7. QED  BY <1>5, <1>6

LEMMA PromptInvStep ==
  ASSUME Prompt, PromptInv, [Next]_vars
  PROVE  PromptInv'
<1>1. Pid = PidOf
  BY Types DEF PromptInv
<1>2. CASE UNCHANGED vars
  BY <1>2 DEF vars, PromptInv, TypeOK, BootingIsAwaited, StartedIsUp, SignalsAreTrue,
              EventsAreTrue, StartupComesFirst, PidOf, Pid
<1>3. QED
  BY <1>1, <1>2, StartStep, ListenStep, NotifyParentStep, DieStep, OnSigUSR2Step,
     OnSigChldStep, ReadStartedStep, ReadStoppedStep DEF Next, Pid

------------------------------------------------------------------------------
\* With prompt signals every variable keeps its type: every signal and event names
\* a child there was.
THEOREM TypeCorrect == ASSUME Prompt PROVE Spec => []TypeOK
<1>1. PromptInv /\ [Next]_vars => PromptInv'
  BY PromptInvStep
<1>2. PromptInv => TypeOK
  BY DEF PromptInv
<1>3. QED  BY <1>1, <1>2, PromptInvInit, PTL DEF Spec

\* With prompt signals a start that returned normally has a child that notified it:
\* it was never still booting.
THEOREM StartedWasUpInvariant == ASSUME Prompt PROVE Spec => []StartedWasUp
<1>1. PromptInv /\ [Next]_vars => PromptInv'
  BY PromptInvStep
<1>2. PromptInv => StartedWasUp
  BY Types DEF PromptInv, StartedIsUp, StartedWasUp
<1>3. QED  BY <1>1, <1>2, PromptInvInit, PTL DEF Spec

\* With prompt signals no start leaves a start-up signal for the next one to
\* stumble over, for any number of children.
THEOREM NoStaleStartupInvariant == ASSUME Prompt PROVE Spec => []NoStaleStartup
<1>1. PromptInv /\ [Next]_vars => PromptInv'
  BY PromptInvStep
<1>2. PromptInv => NoStaleStartup
  <2> SUFFICES ASSUME PromptInv, starting = 0
               PROVE  /\ pendingUsr2 = 0
                      /\ \A k \in 1 .. Len(pipe) : pipe[k].type # "Started"
    BY Types DEF NoStaleStartup, PromptInv
  <2>1. 0 \notin PidOf
    BY Types DEF PromptInv, PidOf
  <2>2. pendingUsr2 = 0
    BY DEF PromptInv, SignalsAreTrue
  <2>3. \A k \in 1 .. Len(pipe) : pipe[k].pid \in PidOf
    BY Types DEF PromptInv, EventType
  <2>4. QED  BY <2>1, <2>2, <2>3 DEF PromptInv, EventsAreTrue
<1>3. QED  BY <1>1, <1>2, PromptInvInit, PTL DEF Spec

\* With prompt signals a start that throws does so because its child is gone.
THEOREM HealthyNotBlamedHolds == ASSUME Prompt PROVE Spec => HealthyNotBlamed
<1> DEFINE Blame == \A pid \in Pid : outcome[pid] = "none" /\ outcome'[pid] \in Failures
                      => child[pid] = "dead"
<1>1. PromptInv /\ [Next]_vars => PromptInv'
  BY PromptInvStep
<1>2. ASSUME PromptInv, Next PROVE Blame
  <2> SUFFICES ASSUME NEW pid \in PidOf, outcome[pid] = "none", outcome'[pid] \in Failures
               PROVE  child[pid] = "dead"
    BY <1>2, Types DEF PromptInv
  <2>1. outcome'[pid] # outcome[pid] /\ outcome'[pid] # "started"
    BY DEF Failures
  <2>2. CASE Start
    <3>1. outcome \in Seq(StartOutcome) /\ pid \in 1 .. Len(outcome) /\ "none" \in StartOutcome
      BY <1>2, Types DEF PromptInv, TypeOK, PidOf, StartOutcome
    <3>2. outcome'[pid] = outcome[pid]
      BY <3>1, <2>2, AppendProperties DEF Start
    <3>3. QED  BY <3>2, <2>1
  <2>3. CASE ReadStarted
    BY <2>3, <2>1, <1>2, ReadStartedStep
  <2>4. CASE ReadStopped
    BY <2>4, <2>1, <1>2, ReadStoppedStep
  <2>5. CASE outcome' = outcome
    BY <2>5, <2>1
  <2>6. QED
    BY <1>2, <2>2, <2>3, <2>4, <2>5 DEF Next, Listen, NotifyParent, Die, OnSigUSR2, OnSigChld
<1>3. PromptInv /\ [Next]_vars => [Blame]_vars
  BY <1>2
<1>4. Spec => [][Blame]_vars
  BY <1>1, <1>3, PromptInvInit, PTL DEF Spec
<1>5. QED  BY <1>4 DEF HealthyNotBlamed
==============================================================================
