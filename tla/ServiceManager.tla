---------------------------- MODULE ServiceManager ----------------------------
(***************************************************************************)
(* servicemanager::Manager::start and the children it waits for.            *)
(*                                                                          *)
(* A child tells its parent that it is up with SIGUSR2 (Application::Run);  *)
(* its end raises SIGCHLD.  The two handlers turn signals into events in a  *)
(* pipe, and start reads events until it finds one about its own child.     *)
(* Nothing but start reads the pipe, and a start is a method the manager's  *)
(* one thread runs, so the next one begins when the last has returned.      *)
(*                                                                          *)
(* A standard signal is pending at most once: raised again before it was    *)
(* handled, it is dropped, together with the pid it was about.  Children    *)
(* are never reaped, so a pid is never used twice: the n-th child is n.     *)
(***************************************************************************)
EXTENDS Naturals, Sequences

CONSTANTS
  Prompt,     \* are signals handled before the next one is raised
  MaxStarts,  \* bound: calls of start that get a child
  MaxDeaths   \* bound: children that end

ASSUME BoundsAssumption == Prompt \in BOOLEAN /\ MaxStarts \in Nat /\ MaxDeaths \in Nat

VARIABLES
  child,        \* child[pid]: "forked", "listening", "ready" or "dead"
  starting,     \* the pid start is waiting for, 0 outside start
  outcome,      \* outcome[pid]: how the start that made pid returned
  pendingUsr2,  \* the sender of the pending SIGUSR2, 0 for none
  pendingChld,  \* the child the pending SIGCHLD is about, 0 for none
  pipe,         \* g_pipeRead: events written and not yet read
  deaths        \* history: children that ended

signals == <<pendingUsr2, pendingChld>>
vars == <<child, starting, outcome, pendingUsr2, pendingChld, pipe, deaths>>

\* Mutant: the handlers are installed without SA_SIGINFO and know no sender.
EventWithoutSender(type, pid) == [type |-> type, pid |-> 0]

Event(type, pid) == [type |-> type, pid |-> pid]
Failures == {"failed to start", "spurious startup signal"}

Init ==
  /\ child = << >> /\ starting = 0 /\ outcome = << >>
  /\ pendingUsr2 = 0 /\ pendingChld = 0
  /\ pipe = << >>
  /\ deaths = 0

------------------------------------------------------------------------------
\* The children

\* start clones a child; from here on it only reads the pipe.
Start ==
  /\ starting = 0
  /\ Len(child) < MaxStarts
  /\ child' = Append(child, "forked")
  /\ outcome' = Append(outcome, "none")
  /\ starting' = Len(child) + 1
  /\ UNCHANGED <<signals, pipe, deaths>>

\* RunProcess made the sandbox and executed the binary, and the Application's
\* LocalBus listens at the socket path.
Listen(pid) ==
  /\ child[pid] = "forked"
  /\ child' = [child EXCEPT ![pid] = "listening"]
  /\ UNCHANGED <<starting, outcome, signals, pipe, deaths>>

Raised(pending, pid) == IF pending = 0 THEN pid ELSE pending
MayRaise == Prompt => pendingUsr2 = 0 /\ pendingChld = 0

\* Application::Run with --notify-parent.
NotifyParent(pid) ==
  /\ child[pid] = "listening"
  /\ MayRaise
  /\ child' = [child EXCEPT ![pid] = "ready"]
  /\ pendingUsr2' = Raised(pendingUsr2, pid)
  /\ UNCHANGED <<starting, outcome, pendingChld, pipe, deaths>>

\* A child ends: setting up the sandbox or exec failed, or the service died.
Die(pid) ==
  /\ child[pid] # "dead"
  /\ deaths < MaxDeaths
  /\ MayRaise
  /\ child' = [child EXCEPT ![pid] = "dead"]
  /\ deaths' = deaths + 1
  /\ pendingChld' = Raised(pendingChld, pid)
  /\ UNCHANGED <<starting, outcome, pendingUsr2, pipe>>

------------------------------------------------------------------------------
\* The manager

OnSigUSR2 ==
  /\ pendingUsr2 # 0
  /\ pipe' = Append(pipe, Event("Started", pendingUsr2))
  /\ pendingUsr2' = 0
  /\ UNCHANGED <<child, starting, outcome, pendingChld, deaths>>

OnSigChld ==
  /\ pendingChld # 0
  /\ pipe' = Append(pipe, Event("Stopped", pendingChld))
  /\ pendingChld' = 0
  /\ UNCHANGED <<child, starting, outcome, pendingUsr2, deaths>>

\* start reads one event from the pipe.
Reads(type) ==
  /\ starting # 0
  /\ pipe # << >>
  /\ Head(pipe).type = type
  /\ pipe' = Tail(pipe)
  /\ UNCHANGED <<child, signals, deaths>>

Returns(how) ==
  /\ outcome' = [outcome EXCEPT ![starting] = how]
  /\ starting' = 0

\* Its own child is up; the signal of any other one is an error.
ReadStarted ==
  /\ Reads("Started")
  /\ Returns(IF Head(pipe).pid = starting THEN "started" ELSE "spurious startup signal")

\* Mutant: the end of any child makes start throw.
ReadStoppedOfAnyone ==
  /\ Reads("Stopped")
  /\ Returns("failed to start")

\* Mutant: any event ends the loop, also the end of another child.
ReadStoppedEndsLoop ==
  /\ Reads("Stopped")
  /\ Returns(IF Head(pipe).pid = starting THEN "failed to start" ELSE "started")

\* Mutant: the end of start's own child is only logged.
ReadStoppedLogged ==
  /\ Reads("Stopped")
  /\ UNCHANGED <<starting, outcome>>

\* Its own child is gone; the end of any other one is only logged.
ReadStopped ==
  /\ Reads("Stopped")
  /\ IF Head(pipe).pid = starting
       THEN Returns("failed to start")
       ELSE UNCHANGED <<starting, outcome>>

------------------------------------------------------------------------------
Next ==
  \/ Start
  \/ \E pid \in DOMAIN child : Listen(pid) \/ NotifyParent(pid) \/ Die(pid)
  \/ OnSigUSR2
  \/ OnSigChld
  \/ ReadStarted
  \/ ReadStopped

\* Signals get handled, start keeps reading, and a child that does not end comes
\* to notify its parent: without that last one start may wait for ever, because
\* it has no time-out.
Fairness ==
  /\ \A pid \in 1 .. MaxStarts :
       WF_vars(pid \in DOMAIN child /\ (Listen(pid) \/ NotifyParent(pid)))
  /\ WF_vars(OnSigUSR2)
  /\ WF_vars(OnSigChld)
  /\ WF_vars(ReadStarted \/ ReadStopped)

Spec == Init /\ [][Next]_vars /\ Fairness

------------------------------------------------------------------------------
\* Properties

Pid == DOMAIN child

\* Every variable has its type; a signal or event is about a child there was.
TypeOK ==
  /\ child \in Seq({"forked", "listening", "ready", "dead"})
  /\ outcome \in Seq({"none", "started"} \cup Failures)
  /\ Len(outcome) = Len(child)
  /\ starting \in {0} \cup Pid
  /\ pendingUsr2 \in {0} \cup Pid /\ pendingChld \in {0} \cup Pid
  /\ pipe \in Seq([type : {"Started", "Stopped"}, pid : Pid])
  /\ deaths \in Nat

\* start returns normally only when its child notified it; the child may have
\* died since, but it was never still booting.
StartedWasUp ==
  \A pid \in Pid : outcome[pid] = "started" => child[pid] \in {"ready", "dead"}

\* No start-up signal outlives the start that waits for it: the next start would
\* take it for its own child's and throw.
NoStaleStartup ==
  starting = 0 => /\ pendingUsr2 = 0
                  /\ \A k \in DOMAIN pipe : pipe[k].type # "Started"

\* start throws only when its child is gone ("failed to start", and "spurious
\* startup signal" for a signal that is not its child's): no caller is told that
\* a service failed while it is coming up.
HealthyNotBlamed ==
  [][\A pid \in Pid : outcome[pid] = "none" /\ outcome'[pid] \in Failures
       => child[pid] = "dead"]_vars

\* start returns, with a result or an exception, so that the manager serves the
\* next request.
StartReturns == \A pid \in 1 .. MaxStarts : starting = pid ~> starting # pid
==============================================================================
