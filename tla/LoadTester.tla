------------------------------ MODULE LoadTester ------------------------------
(***************************************************************************)
(* The load tester (pkg/loadtester): the runner of background tasks, whose *)
(* goroutines share two maps, the gates Flagger asks, and a request that   *)
(* is blocked on a Concord process.  The goroutines of a task are counted  *)
(* by the step they are at.                                                *)
(***************************************************************************)
EXTENDS Integers, Sequences, FiniteSets

CONSTANTS
  Tasks,        \* the hashes of the background tasks
  Labels,       \* the labels of the names and namespaces of canaries
  Canaries,     \* the canaries with gates: name and namespace, by their labels
  Concords,     \* the poll interval and timeout of the Concord tasks, seconds
  Timeout,      \* of every task: the flag -timeout, in seconds
  CallTimeout,  \* of a call of Concord: the timeout of its client
  MaxThreads,   \* bound: goroutines of a task at a time
  MaxRestarts   \* bound: restarts of the load tester

ASSUME ConstantsAssumption ==
  /\ "rollback" \in Labels
  /\ Canaries \subseteq [name : Seq(Labels), namespace : Seq(Labels)]
  /\ \A c \in Canaries : Len(c.name) > 0 /\ Len(c.namespace) = 1
  /\ \A t \in Concords : t.interval \in Nat \ {0} /\ t.timeout \in Nat \ {0}
  /\ Timeout \in Nat /\ CallTimeout \in Nat
  /\ MaxThreads \in Nat /\ MaxRestarts \in Nat

VARIABLES
  todo,      \* the tasks to start at the next tick: todoTasks
  running,   \* the tasks taken for running: runningTasks
  threads,   \* how many goroutines of each task are at each step
  gates,     \* the keys that are open: GateStorage
  told,      \* the last command for each gate, since the last restart
  concord,   \* the request that waits for a Concord process
  process,   \* that process, on the Concord server
  restarts

vars == <<todo, running, threads, gates, told, concord, process, restarts>>
runner == <<todo, running, threads>>

-----------------------------------------------------------------------------
(* The task runner.                                                        *)

\* Started by a tick; out of todoTasks; not found among runningTasks; running
\* its command; the command has returned.
Steps == {"started", "taken", "absent", "running", "returned"}

NoThreads == [step \in Steps |-> 0]

ThreadsOf(t) ==
  LET n == threads[t]
  IN  n["started"] + n["taken"] + n["absent"] + n["running"] + n["returned"]

\* A goroutine of t goes from one step to another, or ends.
Moves(t, from, to) ==
  /\ threads[t][from] > 0
  /\ threads' = [threads EXCEPT ![t][from] = @ - 1, ![t][to] = @ + 1]

Ends(t, from) ==
  /\ threads[t][from] > 0
  /\ threads' = [threads EXCEPT ![t][from] = @ - 1]

\* HandleNewTask, Add: a request for a task that waits already is the same task.
Add(t) ==
  /\ todo' = todo \cup {t}
  /\ UNCHANGED <<running, threads, gates, told, concord, process, restarts>>

\* runAll: a tick starts a goroutine for a task to do, and leaves the task there.
Tick(t) ==
  /\ t \in todo
  /\ ThreadsOf(t) < MaxThreads
  /\ threads' = [threads EXCEPT ![t]["started"] = @ + 1]
  /\ UNCHANGED <<todo, running, gates, told, concord, process, restarts>>

Take(t) ==
  /\ Moves(t, "started", "taken")
  /\ todo' = todo \ {t}
  /\ UNCHANGED <<running, gates, told, concord, process, restarts>>

\* A task that is running is skipped.
Look(t) ==
  /\ IF t \in running THEN Ends(t, "taken") ELSE Moves(t, "taken", "absent")
  /\ UNCHANGED <<todo, running, gates, told, concord, process, restarts>>

\* Mutant: the goroutine saves the task and does not run it.
Run_Saved(t) ==
  /\ Ends(t, "absent")
  /\ running' = running \cup {t}
  /\ UNCHANGED <<todo, gates, told, concord, process, restarts>>

Run(t) ==
  /\ Moves(t, "absent", "running")
  /\ running' = running \cup {t}
  /\ UNCHANGED <<todo, gates, told, concord, process, restarts>>

\* The command returns, or the context ends it at the timeout.
Returns(t) ==
  /\ Moves(t, "running", "returned")
  /\ UNCHANGED <<todo, running, gates, told, concord, process, restarts>>

\* Mutant: the task stays among the running ones.
Remove_Keeps(t) ==
  /\ Ends(t, "returned")
  /\ UNCHANGED <<todo, running, gates, told, concord, process, restarts>>

Remove(t) ==
  /\ Ends(t, "returned")
  /\ running' = running \ {t}
  /\ UNCHANGED <<todo, gates, told, concord, process, restarts>>

-----------------------------------------------------------------------------
(* The gates.                                                              *)

\* Mutant: a rollback gate has the key of the other gate of its canary.
GateKey_NoPrefix(kind, c) == c.name \o c.namespace

\* The labels of "<name>.<namespace>" and of "rollback.<name>.<namespace>".
GateKey(kind, c) ==
  IF kind = "gate" THEN c.name \o c.namespace
  ELSE <<"rollback">> \o c.name \o c.namespace

Kinds == {"gate", "rollback"}

OpenGate(kind, c) ==
  /\ gates' = gates \cup {GateKey(kind, c)}
  /\ told' = told \cup {<<kind, c>>}
  /\ UNCHANGED <<runner, concord, process, restarts>>

CloseGate(kind, c) ==
  /\ gates' = gates \ {GateKey(kind, c)}
  /\ told' = told \ {<<kind, c>>}
  /\ UNCHANGED <<runner, concord, process, restarts>>

\* gate/check and rollback/check: 200 or 403.  A gate nobody has opened is closed.
Approved(kind, c) == GateKey(kind, c) \in gates

-----------------------------------------------------------------------------
(* The Concord task.                                                       *)

NoRequest == [at |-> "none", interval |-> 0, timeout |-> 0,
              age |-> 0, waited |-> 0, next |-> 0, tick |-> FALSE]

\* concord.Run: the context of the request is there before startProcess, which
\* has no part in it.
StartProcess ==
  /\ concord.at = "none"
  /\ \E t \in Concords :
       concord' = [NoRequest EXCEPT !.at = "start", !.interval = t.interval,
                                    !.timeout = t.timeout]
  /\ process' = "running"
  /\ UNCHANGED <<runner, gates, told, restarts>>

Answer ==
  /\ concord' = NoRequest
  /\ UNCHANGED <<runner, gates, told, process, restarts>>

\* checkStatus begins, with a ticker of its own.
CheckStatus ==
  /\ concord.at = "start"
  /\ concord' = [concord EXCEPT !.at = "select", !.waited = 0, !.next = concord.interval]
  /\ UNCHANGED <<runner, gates, told, process, restarts>>

\* The three cases of the select, of which any that is due is taken: the ticker,
\* time.After and the context.
PollDue == concord.tick
WaitDue == concord.waited >= concord.timeout
Overdue == concord.age >= Timeout

Poll ==
  /\ concord.at = "select" /\ PollDue
  /\ concord' = [concord EXCEPT !.at = "poll", !.waited = 0, !.tick = FALSE]
  /\ UNCHANGED <<runner, gates, told, process, restarts>>

\* A process that is not final is polled again.  The loop comes to a new
\* time.After then.
PollAgain ==
  /\ concord.at = "poll"
  /\ process = "running"
  /\ concord' = [concord EXCEPT !.at = "select", !.waited = 0]
  /\ UNCHANGED <<runner, gates, told, process, restarts>>

\* The process has finished or failed, or the call of Concord fails.
CallAnswers == concord.at \in {"start", "poll"} /\ Answer

WaitTimesOut == concord.at = "select" /\ WaitDue /\ Answer

\* Mutant: the context is forgotten.
ContextTimesOut_Never == FALSE /\ Answer

ContextTimesOut == concord.at = "select" /\ Overdue /\ Answer

\* Mutant: the ticker is not reset.
Tock_Once(c) ==
  [c EXCEPT !.next = @ - 1, !.tick = @ \/ c.next = 1]

\* The ticker counts down to a tick, and keeps one that is not taken.
Tock(c) ==
  IF c.at = "start" THEN c
  ELSE [c EXCEPT !.next = IF @ = 1 THEN c.interval ELSE @ - 1,
                 !.tick = @ \/ c.next = 1]

\* A second goes by, if the select has no case that is due and a call of Concord
\* has not reached the timeout of the client.  The age counts up to Timeout.
Second ==
  /\ concord.at # "none"
  /\ IF concord.at = "select" THEN ~PollDue /\ ~WaitDue /\ ~Overdue
     ELSE concord.waited < CallTimeout
  /\ concord' = [Tock(concord) EXCEPT !.age = IF Overdue THEN @ ELSE @ + 1,
                                      !.waited = @ + 1]
  /\ UNCHANGED <<runner, gates, told, process, restarts>>

ProcessEnds ==
  /\ process = "running"
  /\ process' = "ended"
  /\ UNCHANGED <<runner, gates, told, concord, restarts>>

-----------------------------------------------------------------------------

\* Everything is kept in memory.
Restart ==
  /\ restarts < MaxRestarts
  /\ todo' = {} /\ running' = {}
  /\ threads' = [t \in Tasks |-> NoThreads]
  /\ gates' = {} /\ told' = {}
  /\ concord' = NoRequest
  /\ restarts' = restarts + 1
  /\ UNCHANGED process

Init ==
  /\ todo = {} /\ running = {}
  /\ threads = [t \in Tasks |-> NoThreads]
  /\ gates = {} /\ told = {}
  /\ concord = NoRequest
  /\ process = "ended"
  /\ restarts = 0

RunTask(t) == Take(t) \/ Look(t) \/ Run(t) \/ Returns(t) \/ Remove(t)

Next ==
  \/ \E t \in Tasks : Add(t) \/ Tick(t) \/ RunTask(t)
  \/ \E kind \in Kinds, c \in Canaries : OpenGate(kind, c) \/ CloseGate(kind, c)
  \/ StartProcess \/ CheckStatus \/ Poll \/ PollAgain
  \/ CallAnswers \/ WaitTimesOut \/ ContextTimesOut \/ Second \/ ProcessEnds
  \/ Restart

Spec == Init /\ [][Next]_vars

CallReturns == CheckStatus \/ PollAgain \/ CallAnswers

\* The tickers go on, goroutines are scheduled, and the context ends every
\* command.  A select takes one of the cases that are due at random, so that one
\* that is due again and again is taken.
FairSpec ==
  /\ Spec
  /\ \A t \in Tasks : WF_vars(Tick(t)) /\ WF_vars(RunTask(t))
  /\ WF_vars(CallReturns) /\ WF_vars(Poll) /\ WF_vars(WaitTimesOut) /\ WF_vars(Second)
  /\ SF_vars(ContextTimesOut)

-----------------------------------------------------------------------------
(* Properties.                                                             *)

TypeOK ==
  /\ todo \subseteq Tasks /\ running \subseteq Tasks
  /\ threads \in [Tasks -> [Steps -> Nat]]
  /\ told \subseteq Kinds \X Canaries
  /\ gates \subseteq {GateKey(k, c) : k \in Kinds, c \in Canaries}
  /\ concord \in [at : {"none", "start", "select", "poll"},
                  interval : Nat, timeout : Nat,
                  age : 0..Timeout, waited : Nat, next : Nat, tick : BOOLEAN]
  /\ process \in {"running", "ended"}
  /\ restarts \in 0..MaxRestarts

\* A task is taken for running only while a goroutine is there that will take it
\* off: no interleaving of the goroutines makes the runner skip it for ever.
RunningIsOwned ==
  \A t \in running : threads[t]["running"] + threads[t]["returned"] > 0

\* A check of either gate of a canary answers what was last commanded for that
\* gate of that canary, and "closed" after a restart.
ChecksAnswerTheCommand ==
  \A kind \in Kinds, c \in Canaries : Approved(kind, c) <=> <<kind, c>> \in told

\* A task that is accepted while it is not running is run, unless the load tester
\* is restarted before; whichever requests, ticks and goroutines come in between.
AcceptedIsRun ==
  \A t \in Tasks, n \in 0..MaxRestarts :
    (t \in todo \ running /\ restarts = n)
      ~> (threads[t]["running"] > 0 \/ restarts # n)

\* "if they are not already running": a task runs once at a time.
RunsOnceAtATime == \A t \in Tasks : threads[t]["running"] <= 1

\* A request that waits for a Concord process is answered, also when the process
\* never ends and every call of Concord takes longer than the poll interval.
ConcordIsAnswered == concord.at # "none" ~> concord.at = "none"

\* pollTimeout is the time the web-hook calls Concord before it times out, give
\* or take the call that starts the process and the last poll.
PollTimeoutHolds ==
  concord.at = "select" => concord.age <= concord.timeout + 2 * CallTimeout
=============================================================================
