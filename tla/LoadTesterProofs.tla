--------------------------- MODULE LoadTesterProofs ---------------------------
(***************************************************************************)
(* Proofs about LoadTester, for every set of tasks, canaries and Concord   *)
(* tasks and any number of goroutines: the type invariant, that a task     *)
(* taken for running has a goroutine, and that a gate answers the last     *)
(* command it was given.                                                   *)
(***************************************************************************)
EXTENDS LoadTester, SequenceTheorems, TLAPS

-----------------------------------------------------------------------------
(* Types. *)

ThreadCounts == [Tasks -> [Steps -> Nat]]

\* A goroutine that moves or ends leaves the counts natural numbers, because one
\* was at the step that it leaves.
LEMMA CountsType ==
  ASSUME threads \in ThreadCounts, NEW t \in Tasks, NEW from \in Steps, NEW to \in Steps
  PROVE  Moves(t, from, to) \/ Ends(t, from) => threads' \in ThreadCounts
<1>1. threads[t][from] \in Nat /\ threads[t] \in [Steps -> Nat]
  BY DEF ThreadCounts
<1>2. ASSUME Ends(t, from)
      PROVE  threads' \in ThreadCounts
  <2>1. threads[t][from] - 1 \in Nat
    BY <1>1, <1>2 DEF Ends
  <2>2. threads' = [threads EXCEPT ![t] = [threads[t] EXCEPT ![from] = threads[t][from] - 1]]
    BY <1>2 DEF Ends
  <2>3. [threads[t] EXCEPT ![from] = threads[t][from] - 1] \in [Steps -> Nat]
    BY <1>1, <2>1
  <2>4. QED
    BY <2>2, <2>3 DEF ThreadCounts
<1>3. ASSUME Moves(t, from, to)
      PROVE  threads' \in ThreadCounts
  <2> DEFINE left == [threads EXCEPT ![t] =
                        [threads[t] EXCEPT ![from] = threads[t][from] - 1]]
  <2>1. threads[t][from] - 1 \in Nat
    BY <1>1, <1>3 DEF Moves
  <2>2. left \in ThreadCounts
    BY <1>1, <2>1 DEF ThreadCounts
  <2>3. threads' = [left EXCEPT ![t] = [left[t] EXCEPT ![to] = left[t][to] + 1]]
    BY <1>1, <1>3, <2>2 DEF Moves, ThreadCounts
  <2>4. [left[t] EXCEPT ![to] = left[t][to] + 1] \in [Steps -> Nat]
    BY <2>2 DEF ThreadCounts
  <2>5. QED
    BY <2>2, <2>3, <2>4 DEF ThreadCounts
<1>4. QED
  BY <1>2, <1>3

\* The steps of a goroutine.
LEMMA StepNames ==
  Steps = {"started", "taken", "absent", "running", "returned"}
BY DEF Steps

\* Every goroutine is gone in the beginning and after a restart.
LEMMA NoThreadsType == [t \in Tasks |-> NoThreads] \in ThreadCounts
BY DEF NoThreads, ThreadCounts

ConcordType ==
  concord \in [at : {"none", "start", "select", "poll"}, interval : Nat, timeout : Nat,
               age : 0..Timeout, waited : Nat, next : Nat, tick : BOOLEAN]

\* The ticker counts down to zero only through one, where it starts over; so it
\* is never zero in a poll.
TickerRuns == concord.at \in {"select", "poll"} => concord.interval > 0 /\ concord.next > 0

StartHasInterval == concord.at = "start" => concord.interval > 0

TypeInv == TypeOK /\ TickerRuns /\ StartHasInterval

\* No request waits in the beginning.
LEMMA NoRequestType == NoRequest \in [at : {"none", "start", "select", "poll"},
                interval : Nat, timeout : Nat, age : 0..Timeout, waited : Nat,
                next : Nat, tick : BOOLEAN]
BY ConstantsAssumption DEF NoRequest

\* The types hold in the beginning.
LEMMA TypeInvInit == Init => TypeInv
<1> SUFFICES ASSUME Init PROVE TypeInv
  OBVIOUS
<1>1. concord.at = "none"
  BY DEF Init, NoRequest
<1>2. QED
  BY <1>1, NoThreadsType, NoRequestType, ConstantsAssumption
     DEF Init, TypeInv, TypeOK, TickerRuns, StartHasInterval, ThreadCounts

\* The runner keeps the types.
LEMMA RunnerType ==
  ASSUME TypeInv, NEW t \in Tasks, Add(t) \/ Tick(t) \/ RunTask(t)
  PROVE  TypeInv'
<1>0. threads \in ThreadCounts
  BY DEF TypeInv, TypeOK, ThreadCounts
<1>1. UNCHANGED <<gates, told, concord, process, restarts>>
  BY DEF Add, Tick, RunTask, Take, Look, Run, Returns, Remove
<1>2. todo' \subseteq Tasks /\ running' \subseteq Tasks
  BY DEF TypeInv, TypeOK, Add, Tick, RunTask, Take, Look, Run, Returns, Remove
<1>3. threads' \in ThreadCounts
  <2>1. CASE Add(t)
    BY <1>0, <2>1 DEF Add
  <2>2. CASE Tick(t)
    <3>1. threads[t] \in [Steps -> Nat] /\ "started" \in Steps
      BY <1>0, StepNames DEF ThreadCounts
    <3>2. [threads[t] EXCEPT !["started"] = threads[t]["started"] + 1] \in [Steps -> Nat]
      BY <3>1
    <3>3. threads' = [threads EXCEPT ![t] =
                        [threads[t] EXCEPT !["started"] = threads[t]["started"] + 1]]
      BY <2>2 DEF Tick
    <3>4. QED
      BY <1>0, <3>2, <3>3 DEF ThreadCounts
  <2>3. CASE RunTask(t)
    <3>1. \E from, to \in Steps : Moves(t, from, to) \/ Ends(t, from)
      BY <2>3, StepNames DEF RunTask, Take, Look, Run, Returns, Remove
    <3>2. QED
      BY <1>0, <3>1, CountsType
  <2>4. QED
    BY <2>1, <2>2, <2>3
<1>4. QED
  BY <1>1, <1>2, <1>3 DEF TypeInv, TypeOK, TickerRuns, StartHasInterval, ThreadCounts

\* The gates keep the types.
LEMMA GatesType ==
  ASSUME TypeInv, NEW kind \in Kinds, NEW c \in Canaries,
         OpenGate(kind, c) \/ CloseGate(kind, c)
  PROVE  TypeInv'
<1>1. UNCHANGED <<todo, running, threads, concord, process, restarts>>
  BY DEF OpenGate, CloseGate, runner
<1>2. told' \subseteq Kinds \X Canaries
  BY DEF TypeInv, TypeOK, OpenGate, CloseGate
<1>3. gates' \subseteq {GateKey(k, d) : k \in Kinds, d \in Canaries}
  <2>1. GateKey(kind, c) \in {GateKey(k, d) : k \in Kinds, d \in Canaries}
    OBVIOUS
  <2>2. gates' \subseteq gates \cup {GateKey(kind, c)}
    BY DEF OpenGate, CloseGate
  <2>3. QED
    BY <2>1, <2>2 DEF TypeInv, TypeOK
<1>4. QED
  BY <1>1, <1>2, <1>3 DEF TypeInv, TypeOK, TickerRuns, StartHasInterval

\* The request for Concord with other values of the fields a step may change.
Request(at, age, waited, next, tick) ==
  [concord EXCEPT !.at = at, !.age = age, !.waited = waited, !.next = next, !.tick = tick]

\* A request that waits for Concord, with other values of its fields.
LEMMA ConcordWith ==
  ASSUME ConcordType, NEW at \in {"start", "select", "poll"}, NEW age \in 0..Timeout,
         NEW waited \in Nat, NEW next \in Nat, NEW tick \in BOOLEAN,
         concord' = Request(at, age, waited, next, tick)
  PROVE  /\ ConcordType'
         /\ concord'.at = at /\ concord'.next = next
         /\ concord'.interval = concord.interval
BY DEF ConcordType, Request

\* A poll, and the return to the select after it, leave the ticker alone.
LEMMA PollsKeepTicker ==
  ASSUME ConcordType, Poll \/ PollAgain
  PROVE  \E at \in {"select", "poll"}, tick \in BOOLEAN :
           concord' = Request(at, concord.age, 0, concord.next, tick)
<1>1. CASE Poll
  <2>1. concord' = Request("poll", concord.age, 0, concord.next, FALSE)
    BY <1>1 DEF Poll, ConcordType, Request
  <2>2. QED
    BY <2>1
<1>2. CASE PollAgain
  <2>1. concord' = Request("select", concord.age, 0, concord.next, concord.tick)
    BY <1>2 DEF PollAgain, ConcordType, Request
  <2>2. concord.tick \in BOOLEAN
    BY DEF ConcordType
  <2>3. QED
    BY <2>1, <2>2
<1>3. QED
  BY <1>1, <1>2

\* The Concord request keeps the types.
LEMMA ConcordKeepsType ==
  ASSUME TypeInv,
         \/ StartProcess \/ CheckStatus \/ Poll \/ PollAgain \/ CallAnswers
         \/ WaitTimesOut \/ ContextTimesOut \/ Second \/ ProcessEnds
  PROVE  TypeInv'
<1> USE DEF TickerRuns, StartHasInterval
<1>a. UNCHANGED <<todo, running, threads, gates, told, restarts>>
  BY DEF StartProcess, CheckStatus, Poll, PollAgain, CallAnswers, WaitTimesOut,
     ContextTimesOut, Second, ProcessEnds, Answer, runner
<1>b. process' \in {process, "running", "ended"}
  BY DEF StartProcess, CheckStatus, Poll, PollAgain, CallAnswers, WaitTimesOut,
     ContextTimesOut, Second, ProcessEnds, Answer
<1>0. /\ UNCHANGED <<todo, running, threads, gates, told, restarts>>
      /\ process' \in {"running", "ended"}
  BY <1>a, <1>b DEF TypeInv, TypeOK
<1>t. ConcordType /\ TickerRuns /\ StartHasInterval
  BY DEF TypeInv, TypeOK, ConcordType
<1>1. CASE StartProcess
  <2>1. PICK t \in Concords :
          concord' = [NoRequest EXCEPT !.at = "start", !.interval = t.interval,
                                       !.timeout = t.timeout]
    BY <1>1 DEF StartProcess
  <2>2. t.interval \in Nat \ {0} /\ t.timeout \in Nat \ {0}
    BY ConstantsAssumption
  <2>3. concord' = [at |-> "start", interval |-> t.interval, timeout |-> t.timeout,
                    age |-> 0, waited |-> 0, next |-> 0, tick |-> FALSE]
    BY <2>1 DEF NoRequest
  <2>5. ConcordType' /\ TickerRuns' /\ StartHasInterval'
    BY <2>2, <2>3, ConstantsAssumption DEF ConcordType
  <2>4. QED
    BY <1>0, <2>5 DEF TypeInv, TypeOK, ConcordType
<1>2. CASE CheckStatus \/ Poll \/ PollAgain
  <2>1. CASE CheckStatus
    <3>1. ConcordType'
      BY <2>1, <1>t DEF CheckStatus, ConcordType
    <3>2. TickerRuns' /\ StartHasInterval'
      BY <2>1, <1>t DEF CheckStatus, ConcordType
    <3>3. QED
      BY <1>0, <3>1, <3>2 DEF TypeInv, TypeOK, ConcordType
  <2>2. CASE Poll \/ PollAgain
    <3>0. PICK at \in {"select", "poll"}, tick \in BOOLEAN :
            concord' = Request(at, concord.age, 0, concord.next, tick)
      BY <1>t, <2>2, PollsKeepTicker
    <3>a. concord.age \in 0..Timeout /\ concord.next \in Nat /\ 0 \in Nat
      BY <1>t DEF ConcordType
    <3>1. /\ ConcordType'
          /\ concord'.next = concord.next /\ concord'.interval = concord.interval
          /\ concord'.at = at
      BY <1>t, <3>0, <3>a, ConcordWith
    <3>b. concord.at \in {"select", "poll"}
      BY <2>2 DEF Poll, PollAgain
    <3>2. TickerRuns' /\ StartHasInterval'
      BY <1>t, <3>1, <3>b
    <3>3. QED
      BY <1>0, <3>1, <3>2 DEF TypeInv, TypeOK, ConcordType
  <2>3. QED
    BY <1>2, <2>1, <2>2
<1>3. CASE CallAnswers \/ WaitTimesOut \/ ContextTimesOut
  <2>1. concord' = NoRequest
    BY <1>3 DEF CallAnswers, WaitTimesOut, ContextTimesOut, Answer
  <2>2. ConcordType' /\ TickerRuns' /\ StartHasInterval'
    BY <2>1, NoRequestType DEF ConcordType, NoRequest
  <2>3. QED
    BY <1>0, <2>2 DEF TypeInv, TypeOK, ConcordType
<1>4. CASE Second
  <2>1. concord.at # "none" /\ (concord.at = "select" => ~Overdue)
    BY <1>4 DEF Second
  <2> DEFINE age == IF Overdue THEN concord.age ELSE concord.age + 1
             waited == concord.waited + 1
             next == IF concord.next = 1 THEN concord.interval ELSE concord.next - 1
  <2>a. age \in 0..Timeout /\ waited \in Nat
    BY <1>t, ConstantsAssumption DEF ConcordType, Overdue
  <2>b. concord.at \in {"start", "select", "poll"} /\ concord.tick \in BOOLEAN
    BY <1>t, <2>1 DEF ConcordType
  <2>3. ConcordType' /\ TickerRuns' /\ StartHasInterval'
    <3>1. CASE concord.at = "start"
      <4>1. concord' = Request(concord.at, age, waited, concord.next, concord.tick)
        BY <1>4, <1>t, <3>1 DEF Second, ConcordType, Tock, Request
      <4>2. concord.next \in Nat
        BY <1>t DEF ConcordType
      <4> HIDE DEF age, waited
      <4>3. /\ ConcordType'
            /\ concord'.at = concord.at /\ concord'.interval = concord.interval
        BY <1>t, <2>a, <2>b, <4>1, <4>2, ConcordWith
      <4>4. QED
        BY <1>t, <3>1, <4>3
    <3>2. CASE concord.at # "start"
      <4> DEFINE tick == concord.tick \/ concord.next = 1
      <4>1. concord' = Request(concord.at, age, waited, next, tick)
        BY <1>4, <1>t, <3>2 DEF Second, ConcordType, Tock, Request
      <4>2. concord.at \in {"select", "poll"} /\ concord.next > 0 /\ concord.interval > 0
        BY <1>t, <2>b, <3>2
      <4>3. next \in Nat /\ next > 0
        BY <1>t, <4>2 DEF ConcordType
      <4>4. tick \in BOOLEAN
        OBVIOUS
      <4> HIDE DEF age, waited, next, tick
      <4>5. /\ ConcordType' /\ concord'.next = next
            /\ concord'.at = concord.at /\ concord'.interval = concord.interval
        BY <1>t, <2>a, <2>b, <4>1, <4>3, <4>4, ConcordWith
      <4>6. concord'.next > 0 /\ concord'.interval > 0 /\ concord'.at # "start"
        BY <4>2, <4>3, <4>5
      <4>7. QED
        BY <4>5, <4>6
    <3>3. QED
      BY <3>1, <3>2
  <2>4. QED
    BY <1>0, <2>3 DEF TypeInv, TypeOK, ConcordType
<1>5. CASE ProcessEnds
  BY <1>0, <1>5, <1>t DEF ProcessEnds, TypeInv, TypeOK
<1>6. QED
  BY <1>1, <1>2, <1>3, <1>4, <1>5

\* Every step keeps the types.
LEMMA TypeInvNext == TypeInv /\ [Next]_vars => TypeInv'
<1> SUFFICES ASSUME TypeInv, [Next]_vars PROVE TypeInv'
  OBVIOUS
<1>1. CASE \E t \in Tasks : Add(t) \/ Tick(t) \/ RunTask(t)
  BY <1>1, RunnerType
<1>2. CASE \E kind \in Kinds, c \in Canaries : OpenGate(kind, c) \/ CloseGate(kind, c)
  BY <1>2, GatesType
<1>3. CASE \/ StartProcess \/ CheckStatus \/ Poll \/ PollAgain \/ CallAnswers
           \/ WaitTimesOut \/ ContextTimesOut \/ Second \/ ProcessEnds
  BY <1>3, ConcordKeepsType
<1>4. CASE Restart
  <2>1. concord'.at = "none" /\ threads' \in ThreadCounts
    BY <1>4, NoThreadsType DEF Restart, NoRequest
  <2>2. restarts' \in 0..MaxRestarts
    BY <1>4, ConstantsAssumption DEF Restart, TypeInv, TypeOK
  <2>3. QED
    BY <1>4, <2>1, <2>2, NoRequestType
       DEF Restart, TypeInv, TypeOK, TickerRuns, StartHasInterval, ThreadCounts
<1>5. CASE UNCHANGED vars
  BY <1>5 DEF vars, TypeInv, TypeOK, TickerRuns, StartHasInterval
<1>6. QED
  BY <1>1, <1>2, <1>3, <1>4, <1>5 DEF Next

\* Every variable keeps its type: no count of goroutines and no ticker falls
\* below zero.
THEOREM TypeCorrect == Spec => []TypeOK
<1>1. TypeInv => TypeOK
  BY DEF TypeInv
<1>2. QED
  BY TypeInvInit, TypeInvNext, <1>1, PTL DEF Spec

-----------------------------------------------------------------------------
(* Running tasks. *)

\* What a goroutine that goes on or ends does to the counts.
LEMMA CountsMoved ==
  ASSUME threads \in ThreadCounts, NEW t \in Tasks,
         NEW from \in Steps, NEW to \in Steps, from # to
  PROVE  /\ Moves(t, from, to) =>
              /\ \A u \in Tasks \ {t} : threads'[u] = threads[u]
              /\ threads'[t][to] = threads[t][to] + 1
              /\ threads'[t][from] = threads[t][from] - 1
              /\ \A s \in Steps \ {from, to} : threads'[t][s] = threads[t][s]
         /\ Ends(t, from) =>
              /\ \A u \in Tasks \ {t} : threads'[u] = threads[u]
              /\ \A s \in Steps \ {from} : threads'[t][s] = threads[t][s]
BY DEF Moves, Ends, ThreadCounts

\* A goroutine that has to take the task off is at one of these steps.
Owners(t) == threads[t]["running"] + threads[t]["returned"]

\* Every step leaves a goroutine to each task taken for running.
LEMMA OwnedNext ==
  ASSUME TypeInv, RunningIsOwned, [Next]_vars
  PROVE  RunningIsOwned'
<1>0. threads \in ThreadCounts /\ running \subseteq Tasks
  BY DEF TypeInv, TypeOK, ThreadCounts
<1>n. \A u \in Tasks : /\ threads[u]["running"] \in Nat
                       /\ threads[u]["returned"] \in Nat
  BY <1>0, StepNames DEF ThreadCounts
<1>1. CASE UNCHANGED <<running, threads>>
  BY <1>1 DEF RunningIsOwned
<1>2. ASSUME NEW t \in Tasks, Tick(t) \/ RunTask(t)
      PROVE  RunningIsOwned'
  <2>1. CASE Tick(t)
    <3>1. running' = running /\ threads' = [threads EXCEPT ![t]["started"] = @ + 1]
      BY <2>1 DEF Tick
    <3>2. \A u \in Tasks : /\ threads'[u]["running"] = threads[u]["running"]
                           /\ threads'[u]["returned"] = threads[u]["returned"]
      BY <1>0, <3>1, StepNames DEF ThreadCounts
    <3>3. QED
      BY <1>0, <3>1, <3>2 DEF RunningIsOwned
  <2>2. CASE Take(t) \/ Look(t)
    <3>1. running' = running
      BY <2>2 DEF Take, Look
    <3>2. \/ Moves(t, "started", "taken") \/ Moves(t, "taken", "absent")
          \/ Ends(t, "taken")
      BY <2>2 DEF Take, Look
    <3>3. \A u \in Tasks : /\ threads'[u]["running"] = threads[u]["running"]
                           /\ threads'[u]["returned"] = threads[u]["returned"]
      BY <1>0, <3>2, CountsMoved, StepNames
    <3>4. QED
      BY <1>0, <3>1, <3>3 DEF RunningIsOwned
  <2>3. CASE Run(t)
    <3>1. running' = running \cup {t} /\ Moves(t, "absent", "running")
      BY <2>3 DEF Run
    <3>2. /\ \A u \in Tasks \ {t} : threads'[u] = threads[u]
          /\ threads'[t]["running"] = threads[t]["running"] + 1
          /\ threads'[t]["returned"] = threads[t]["returned"]
      BY <1>0, <3>1, CountsMoved, StepNames
    <3>3. QED
      BY <1>0, <1>n, <3>1, <3>2 DEF RunningIsOwned
  <2>4. CASE Returns(t)
    <3>1. running' = running /\ Moves(t, "running", "returned")
      BY <2>4 DEF Returns
    <3>2. /\ \A u \in Tasks \ {t} : threads'[u] = threads[u]
          /\ threads'[t]["returned"] = threads[t]["returned"] + 1
          /\ threads'[t]["running"] = threads[t]["running"] - 1
      BY <1>0, <3>1, CountsMoved, StepNames
    <3>3. QED
      BY <1>0, <1>n, <3>1, <3>2 DEF RunningIsOwned
  <2>5. CASE Remove(t)
    <3>1. running' = running \ {t} /\ Ends(t, "returned")
      BY <2>5 DEF Remove
    <3>2. \A u \in Tasks \ {t} : threads'[u] = threads[u]
      BY <1>0, <3>1, CountsMoved, StepNames
    <3>3. QED
      BY <1>0, <3>1, <3>2 DEF RunningIsOwned
  <2>6. QED
    BY <1>2, <2>1, <2>2, <2>3, <2>4, <2>5 DEF RunTask
<1>3. CASE Restart
  BY <1>3 DEF Restart, RunningIsOwned
<1>4. CASE \/ \E t \in Tasks : Add(t)
           \/ \E kind \in Kinds, c \in Canaries : OpenGate(kind, c) \/ CloseGate(kind, c)
           \/ StartProcess \/ CheckStatus \/ Poll \/ PollAgain \/ CallAnswers
           \/ WaitTimesOut \/ ContextTimesOut \/ Second \/ ProcessEnds
           \/ UNCHANGED vars
  <2>1. UNCHANGED <<running, threads>>
    BY <1>4 DEF Add, OpenGate, CloseGate, StartProcess, CheckStatus, Poll, PollAgain,
       CallAnswers, WaitTimesOut, ContextTimesOut, Second, ProcessEnds, Answer,
       runner, vars
  <2>2. QED
    BY <1>1, <2>1
<1>5. QED
  BY <1>2, <1>3, <1>4 DEF Next

\* A task is taken for running only while a goroutine is there that will take it
\* off, however many goroutines of how many tasks interleave.
THEOREM RunningHasOwner == Spec => []RunningIsOwned
<1>1. Init => RunningIsOwned
  BY DEF Init, RunningIsOwned
<1>2. QED
  BY TypeInvInit, TypeInvNext, OwnedNext, <1>1, PTL DEF Spec

-----------------------------------------------------------------------------
(* Gates. *)

\* Labels are put together in any order.
LEMMA Associate ==
  ASSUME NEW r \in Seq(Labels), NEW s \in Seq(Labels), NEW t \in Seq(Labels)
  PROVE  (r \o s) \o t = r \o (s \o t)
BY ConcatAssociative

\* The prefix of a rollback gate is its first label, and the name gives the first
\* label of the other gates.
LEMMA FirstLabel ==
  ASSUME NEW s \in Seq(Labels), NEW m \in Seq(Labels)
  PROVE  /\ (<<"rollback">> \o s) \o m = <<"rollback">> \o (s \o m)
         /\ (<<"rollback">> \o (s \o m))[1] = "rollback"
         /\ s \o m \in Seq(Labels)
         /\ Len(s) > 0 => (s \o m)[1] = s[1]
<1> DEFINE r == <<"rollback">>
<1>1. r \in Seq(Labels) /\ Len(r) = 1 /\ r[1] = "rollback"
  BY ConstantsAssumption
<1> HIDE DEF r
<1>a. Len(s) \in Nat /\ Len(m) \in Nat
  OBVIOUS
<1>b. s \o m \in Seq(Labels)
  BY ConcatProperties
<1>2. s \o m \in Seq(Labels) /\ Len(s) \in Nat /\ Len(m) \in Nat
  BY <1>a, <1>b
<1>4. (r \o s) \o m = r \o (s \o m)
  BY <1>1, Associate
<1> DEFINE u == s \o m
<1>3. u \in Seq(Labels)
  BY <1>2
<1> HIDE DEF u
<1>5. (r \o u)[1] = "rollback"
  <2>1. Len(u) \in Nat
    BY <1>3
  <2>2. QED
    BY <1>1, <1>3, <2>1, ConcatProperties
<1>6. ASSUME Len(s) > 0
      PROVE  (s \o m)[1] = s[1]
  <2>1. 1 \in 1 .. Len(s) + Len(m) /\ 1 <= Len(s)
    BY <1>2, <1>6
  <2>2. QED
    BY <2>1, ConcatProperties
<1>7. QED
  BY <1>2, <1>4, <1>5, <1>6 DEF r, u

\* The prefix of the rollback gates can be taken off.
LEMMA Cancel ==
  ASSUME NEW s \in Seq(Labels), NEW t \in Seq(Labels), <<"rollback">> \o s = <<"rollback">> \o t
  PROVE s = t
<1> DEFINE r == <<"rollback">>
<1>1. r \in Seq(Labels)
  BY ConstantsAssumption
<1>3. r \o s = r \o t
  OBVIOUS
<1> HIDE DEF r
<1>2. QED
  BY <1>1, <1>3, ConcatSimplifications

\* Two gates have two keys.  A canary named "rollback.<name>" would share the key
\* of its gate with the rollback gate of <name>.
LEMMA KeysDiffer ==
  ASSUME NEW k \in Kinds, NEW l \in Kinds, NEW c \in Canaries, NEW d \in Canaries,
         \A e \in Canaries : e.name[1] # "rollback",
         GateKey(k, c) = GateKey(l, d)
  PROVE  k = l /\ c = d
<1>0. /\ c.name \in Seq(Labels) /\ d.name \in Seq(Labels)
      /\ c.namespace \in Seq(Labels) /\ d.namespace \in Seq(Labels)
      /\ Len(c.name) > 0 /\ Len(d.name) > 0
      /\ Len(c.namespace) = 1 /\ Len(d.namespace) = 1
  BY ConstantsAssumption
<1> DEFINE x == c.name \o c.namespace
           y == d.name \o d.namespace
<1>1. /\ GateKey("rollback", c) = <<"rollback">> \o x
      /\ (<<"rollback">> \o x)[1] = "rollback"
      /\ x \in Seq(Labels) /\ x[1] = c.name[1]
  BY <1>0, FirstLabel DEF GateKey
<1>2. /\ GateKey("rollback", d) = <<"rollback">> \o y
      /\ (<<"rollback">> \o y)[1] = "rollback"
      /\ y \in Seq(Labels) /\ y[1] = d.name[1]
  BY <1>0, FirstLabel DEF GateKey
<1>3. GateKey("gate", c) = x /\ GateKey("gate", d) = y
  BY DEF GateKey
<1>k. k = l
  <2> HIDE DEF x, y
  <2>1. x[1] # "rollback" /\ y[1] # "rollback"
    BY <1>1, <1>2
  <2>2. QED
    BY <1>1, <1>2, <1>3, <2>1 DEF Kinds
<1>4. x = y
  <2>1. CASE k = "gate"
    BY <1>3, <1>k, <2>1
  <2>2. CASE k = "rollback"
    <3>1. <<"rollback">> \o x = <<"rollback">> \o y
      BY <1>1, <1>2, <1>k, <2>2
    <3> HIDE DEF x, y
    <3>2. QED
      BY <1>1, <1>2, <3>1, Cancel
  <2>3. QED
    BY <2>1, <2>2 DEF Kinds
<1>5. c.name = d.name /\ c.namespace = d.namespace
  <2> DEFINE s == c.name   m == c.namespace
             t == d.name   n == d.namespace
  <2>1. /\ s \in Seq(Labels) /\ t \in Seq(Labels) /\ m \in Seq(Labels) /\ n \in Seq(Labels)
        /\ Len(m) = 1 /\ Len(n) = 1
    BY <1>0
  <2>2. s \o m = t \o n
    BY <1>4
  <2> HIDE DEF s, t, m, n
  <2>3. Len(s) \in Nat /\ Len(t) \in Nat
    BY <2>1
  <2>4. Len(s \o m) = Len(s) + Len(m) /\ Len(t \o n) = Len(t) + Len(n)
    BY <2>1, ConcatProperties
  <2>5. Len(s \o m) = Len(s) + 1 /\ Len(t \o n) = Len(t) + 1
    BY <2>1, <2>4
  <2>6. Len(s) = Len(t)
    BY <2>3, <2>5, <2>2
  <2>7. \A i \in 1..Len(s) : (s \o m)[i] = s[i] /\ (t \o n)[i] = t[i]
    BY <2>1, <2>3, <2>6, ConcatProperties
  <2>8. s = t
    BY <2>1, <2>2, <2>6, <2>7, SeqEqual
  <2>9. s \o m = s \o n
    BY <2>2, <2>8
  <2>10. m = n
    BY <2>1, <2>9, ConcatSimplifications
  <2>11. s = t /\ m = n
    BY <2>8, <2>10
  <2>12. QED
    BY <2>11 DEF s, t, m, n
<1>6. c = d
  BY <1>5, ConstantsAssumption
<1>7. QED
  BY <1>k, <1>6

\* Unless a canary has a name that starts with the label "rollback", a check of
\* either gate answers what was last commanded for that gate.
THEOREM GatesAnswer ==
  ASSUME \A c \in Canaries : c.name[1] # "rollback"
  PROVE  Spec => []ChecksAnswerTheCommand
<1>1. Init => ChecksAnswerTheCommand
  BY DEF Init, ChecksAnswerTheCommand, Approved
<1>2. ChecksAnswerTheCommand /\ [Next]_vars => ChecksAnswerTheCommand'
  <2> SUFFICES ASSUME ChecksAnswerTheCommand, [Next]_vars
               PROVE  ChecksAnswerTheCommand'
    OBVIOUS
  <2>1. ASSUME NEW kind \in Kinds, NEW c \in Canaries,
               OpenGate(kind, c) \/ CloseGate(kind, c)
        PROVE  ChecksAnswerTheCommand'
    <3> SUFFICES ASSUME NEW k \in Kinds, NEW d \in Canaries
                 PROVE  Approved(k, d)' <=> <<k, d>> \in told'
      BY DEF ChecksAnswerTheCommand
    <3>1. Approved(k, d) <=> <<k, d>> \in told
      BY DEF ChecksAnswerTheCommand
    <3>2. GateKey(k, d) = GateKey(kind, c) <=> <<k, d>> = <<kind, c>>
      BY KeysDiffer
    <3>3. QED
      BY <2>1, <3>1, <3>2 DEF OpenGate, CloseGate, Approved
  <2>2. CASE \/ \E t \in Tasks : Add(t) \/ Tick(t) \/ RunTask(t)
             \/ StartProcess \/ CheckStatus \/ Poll \/ PollAgain \/ CallAnswers
             \/ WaitTimesOut \/ ContextTimesOut \/ Second \/ ProcessEnds
             \/ UNCHANGED vars
    <3>1. UNCHANGED <<gates, told>>
      BY <2>2 DEF Add, Tick, RunTask, Take, Look, Run, Returns, Remove,
         StartProcess, CheckStatus, Poll, PollAgain, CallAnswers, WaitTimesOut,
         ContextTimesOut, Second, ProcessEnds, Answer, vars
    <3>2. QED
      BY <3>1 DEF ChecksAnswerTheCommand, Approved
  <2>3. CASE Restart
    BY <2>3 DEF Restart, ChecksAnswerTheCommand, Approved
  <2>4. QED
    BY <2>1, <2>2, <2>3 DEF Next
<1>3. QED
  BY <1>1, <1>2, PTL DEF Spec
=============================================================================
