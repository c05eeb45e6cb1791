--------------------------- MODULE TaskQueueProofs ---------------------------
(***************************************************************************)
(* What is proved of TaskQueue, and of LiveReport over it, for any         *)
(* servers, any number of tasks and any history limit.                     *)
(***************************************************************************)
EXTENDS LiveReport, SequenceTheorems, TLAPS

-----------------------------------------------------------------------------
(* RemoveAt, which the library states no theorem about.                     *)

\* Taking an element out: the type stays, what follows moves up by one.
LEMMA RemoveAtPositions ==
    ASSUME NEW S, NEW q \in Seq(S), NEW i \in 1..Len(q)
    PROVE  /\ RemoveAt(q, i) \in Seq(S)
           /\ Len(RemoveAt(q, i)) = Len(q) - 1
           /\ \A j \in 1..(Len(q) - 1) :
                 RemoveAt(q, i)[j] = IF j < i THEN q[j] ELSE q[j + 1]
<1> DEFINE a == SubSeq(q, 1, i - 1)
           b == SubSeq(q, i + 1, Len(q))
<1>1. /\ a \in Seq(S) /\ Len(a) = i - 1
      /\ \A j \in 1..(i - 1) : a[j] = q[j]
      OBVIOUS
<1>2. /\ b \in Seq(S) /\ Len(b) = Len(q) - i
      /\ \A j \in 1..(Len(q) - i) : b[j] = q[i + j]
      OBVIOUS
<1>3. RemoveAt(q, i) = a \o b
      BY DEF RemoveAt
<1> HIDE DEF a, b
<1>4. Len(q) \in Nat /\ Len(a) + Len(b) = Len(q) - 1
      BY <1>1, <1>2
<1>5. /\ a \o b \in Seq(S) /\ Len(a \o b) = Len(q) - 1
      /\ \A j \in 1..(Len(q) - 1) : (a \o b)[j] = IF j <= Len(a) THEN a[j] ELSE b[j - Len(a)]
  <2>1. /\ a \o b \in Seq(S) /\ Len(a \o b) = Len(a) + Len(b)
        /\ \A j \in 1..(Len(a) + Len(b)) :
              (a \o b)[j] = IF j <= Len(a) THEN a[j] ELSE b[j - Len(a)]
        BY <1>1, <1>2, ConcatProperties
  <2> QED BY <1>4, <2>1
<1>6. ASSUME NEW j \in 1..(Len(q) - 1)
      PROVE  (a \o b)[j] = IF j < i THEN q[j] ELSE q[j + 1]
  <2>1. CASE j < i
        BY <1>1, <1>5, <2>1
  <2>2. CASE j >= i
    <3>1. PICK k \in 1..(Len(q) - i) : k = j - (i - 1)
          BY <1>4, <2>2
    <3>2. i + k = j + 1 /\ j - Len(a) = k /\ ~(j <= Len(a))
          BY <1>1, <2>2, <3>1
    <3>3. (a \o b)[j] = b[k]
          BY <1>5, <3>2
    <3>4. b[k] = q[i + k]
          BY <1>2
    <3>5. ~(j < i)
          BY <1>4, <2>2
    <3>6. q[i + k] = q[j + 1]
          BY <3>2
    <3>7. (a \o b)[j] = q[j + 1]
          BY <3>3, <3>4, <3>6
    <3> QED BY <3>5, <3>7
  <2> QED BY <1>4, <2>1, <2>2
<1> QED BY <1>3, <1>5, <1>6

-----------------------------------------------------------------------------
(* Type correctness.                                                       *)

LEMMA StoredType ==
    ASSUME NEW files \in Seq(Tasks), NEW more \in Seq(Tasks)
    PROVE  Stored(files, more) \in Seq(Tasks)
BY HistoryLimitAssumption DEF Stored

LEMMA PushHistoryType ==
    ASSUME TypeOK, NEW t \in Tasks, PushHistory(t)
    PROVE  disk' \in Seq(Tasks)
<1>1. disk \in Seq(Tasks) /\ <<t>> \in Seq(Tasks)
      BY DEF TypeOK
<1> QED BY <1>1, StoredType DEF PushHistory

LEMMA EmitType ==
    ASSUME TypeOK, NEW t \in Tasks, NEW k \in Kinds, NEW obs
    PROVE  Emit(t, k, obs) \in [Tasks -> Seq(Entries)]
<1>1. [kind |-> k, push |-> t \notin obs] \in Entries
      BY DEF Entries
<1>2. journal \in [Tasks -> Seq(Entries)]
      BY DEF TypeOK
<1> QED BY <1>1, <1>2 DEF Emit

LEMMA FinalKindType ==
    ASSUME NEW o PROVE FinalKind(o) \in Kinds
BY DEF FinalKind, Kinds

LEMMA InitType == Init => TypeOK
BY DEF Init, TypeOK, Stages

\* The calls of TaskQueue whatever is passed for live_reported: the observers of
\* LiveReport pass either.
Asks ==
    \/ \E s \in Servers, t \in Tasks, observed \in BOOLEAN : Enqueue(s, t, observed)
    \/ \E s \in Servers : \E i \in 1..Len(queue[s]) : CancelQueued(s, i)
    \/ \E s \in Servers : CancelRunning(s)
    \/ \E s \in Servers, t \in Tasks : RetryLastFailed(s, t)
    \/ \E s \in Servers : ClearQueue(s)
    \/ \E i \in 1..Len(disk) : DeleteHistory(i)
    \/ ClearHistory

QueueStep == Asks \/ Loop \/ Restart

LEMMA NextIsQueueStep == [Next]_vars => [QueueStep]_vars
<1>1. Callers => Asks
      BY ObservedAssumption DEF Callers, Asks
<1> QED BY <1>1 DEF Next, QueueStep

LEMMA AsksType == TypeOK /\ Asks => TypeOK'
<1> SUFFICES ASSUME TypeOK, Asks PROVE TypeOK'
    OBVIOUS
<1> USE DEF Stages, ActiveStages, Outcomes, Successful
<1>1. ASSUME NEW s \in Servers, NEW t \in Tasks, NEW o \in BOOLEAN, Enqueue(s, t, o)
      PROVE  TypeOK'
  <2>1. journal' \in [Tasks -> Seq(Entries)]
        BY <1>1, EmitType DEF Enqueue, TypeOK, Kinds
  <2>2. pumps' \in [Servers -> Nat]
    <3>1. CASE WillWait(s)
          BY <1>1, <3>1 DEF Enqueue, TypeOK
    <3>2. CASE ~WillWait(s)
          BY <1>1, <3>2 DEF Enqueue, TypeOK
    <3> QED BY <3>1, <3>2
  <2>3. queue' \in [Servers -> Seq(Tasks)]
        BY <1>1 DEF Enqueue, TypeOK
  <2>4. stage' \in [Tasks -> Stages] /\ home' \in [Tasks -> Servers \cup {None}]
        BY <1>1 DEF Enqueue, TypeOK
  <2>5. live' \in SUBSET Tasks
        BY <1>1 DEF Enqueue, TypeOK
  <2> QED BY <1>1, <2>1, <2>2, <2>3, <2>4, <2>5 DEF Enqueue, TypeOK
<1>2. ASSUME NEW s \in Servers, NEW i \in 1..Len(queue[s]), CancelQueued(s, i)
      PROVE  TypeOK'
  <2>1. queue[s] \in Seq(Tasks) /\ queue[s][i] \in Tasks
        BY DEF TypeOK
  <2>2. RemoveAt(queue[s], i) \in Seq(Tasks)
        BY <2>1 DEF RemoveAt
  <2>3. disk' \in Seq(Tasks)
        BY <1>2, <2>1, PushHistoryType DEF CancelQueued
  <2>4. journal' \in [Tasks -> Seq(Entries)]
        BY <1>2, <2>1, EmitType DEF CancelQueued, Kinds
  <2> QED BY <1>2, <2>1, <2>2, <2>3, <2>4 DEF CancelQueued, TypeOK
<1>3. ASSUME NEW s \in Servers, CancelRunning(s)
      PROVE  TypeOK'
      BY <1>3 DEF CancelRunning, RequestCancel, TypeOK
<1>4. ASSUME NEW s \in Servers, NEW t \in Tasks, RetryLastFailed(s, t)
      PROVE  TypeOK'
      BY <1>4 DEF RetryLastFailed, RetryPumps, TypeOK
<1>5. ASSUME NEW s \in Servers, ClearQueue(s)
      PROVE  TypeOK'
  <2>1. PICK n \in 0..Len(queue[s]) : disk' = Stored(disk, SubSeq(queue[s], 1, n))
        BY <1>5 DEF ClearQueue
  <2>2. disk \in Seq(Tasks) /\ queue[s] \in Seq(Tasks) /\ SubSeq(queue[s], 1, n) \in Seq(Tasks)
        BY DEF TypeOK
  <2>3. disk' \in Seq(Tasks)
        BY <2>1, <2>2, StoredType
  <2> DEFINE out == {queue[s][i] : i \in 1..Len(queue[s])}
  <2>4. outcome' = [t \in Tasks |-> IF t \in out THEN "cancelled" ELSE outcome[t]]
        /\ stage' = [t \in Tasks |-> IF t \in out THEN "closed" ELSE stage[t]]
        BY <1>5 DEF ClearQueue
  <2> HIDE DEF out
  <2>5. outcome' \in [Tasks -> Outcomes \cup {None}] /\ stage' \in [Tasks -> Stages]
        BY <2>4 DEF TypeOK
  <2>6. queue' \in [Servers -> Seq(Tasks)] /\ failed' \in [Servers -> Tasks \cup {None}]
        BY <1>5 DEF ClearQueue, TypeOK
  <2> QED BY <1>5, <2>3, <2>5, <2>6 DEF ClearQueue, TypeOK
<1>6. ASSUME NEW i \in 1..Len(disk), DeleteHistory(i)
      PROVE  TypeOK'
  <2>1. RemoveAt(disk, i) \in Seq(Tasks)
        BY DEF TypeOK, RemoveAt
  <2> QED BY <1>6, <2>1 DEF DeleteHistory, TypeOK
<1>7. ASSUME ClearHistory PROVE TypeOK'
      BY <1>7 DEF ClearHistory, TypeOK
<1> QED BY <1>1, <1>2, <1>3, <1>4, <1>5, <1>6, <1>7 DEF Asks

LEMMA LoopType == TypeOK /\ Loop => TypeOK'
<1> SUFFICES ASSUME TypeOK, Loop PROVE TypeOK'
    OBVIOUS
<1> USE DEF Stages, ActiveStages, Outcomes, Successful
<1>1. ASSUME NEW s \in Servers, PumpLeaves(s) PROVE TypeOK'
      BY <1>1 DEF PumpLeaves, TypeOK
<1>2. ASSUME NEW s \in Servers, PumpStarts(s) PROVE TypeOK'
  <2>1. Head(queue[s]) \in Tasks /\ Tail(queue[s]) \in Seq(Tasks)
        BY <1>2 DEF PumpStarts, MayStart, TypeOK
  <2> QED BY <1>2, <2>1 DEF PumpStarts, MayStart, TypeOK
<1>3. ASSUME NEW s \in Servers, PumpBooks(s) PROVE TypeOK'
  <2>1. running[s] \in Tasks
        BY <1>3 DEF PumpBooks, TypeOK
  <2>2. disk' \in Seq(Tasks)
        BY <1>3, <2>1, PushHistoryType DEF PumpBooks
  <2>3. RecordedFailure(s, running[s]) \in Tasks \cup {None}
        BY <2>1 DEF RecordedFailure, TypeOK
  <2> QED BY <1>3, <2>1, <2>2, <2>3 DEF PumpBooks, TypeOK
<1>4. ASSUME NEW t \in Tasks, RunnerBegins(t) PROVE TypeOK'
      BY <1>4 DEF RunnerBegins, TypeOK
<1>5. ASSUME NEW t \in Tasks, RunnerRefuses(t) PROVE TypeOK'
  <2>1. journal' \in [Tasks -> Seq(Entries)]
        BY <1>5, EmitType DEF RunnerRefuses, Kinds
  <2> QED BY <1>5, <2>1 DEF RunnerRefuses, TypeOK
<1>6. ASSUME NEW t \in Tasks, RunnerEnds(t) PROVE TypeOK'
  <2>1. journal' \in [Tasks -> Seq(Entries)]
        BY <1>6, EmitType, FinalKindType DEF RunnerEnds, FinalEntry
  <2> QED BY <1>6, <2>1 DEF RunnerEnds, TypeOK
<1>7. ASSUME NEW t \in Tasks, NEW o \in Results, ExecutorReturns(t, o) PROVE TypeOK'
      BY <1>7, ResultsAssumption DEF ExecutorReturns, TypeOK
<1> QED BY <1>1, <1>2, <1>3, <1>4, <1>5, <1>6, <1>7 DEF Loop

LEMMA RestartType == TypeOK /\ Restart => TypeOK'
<1> SUFFICES ASSUME TypeOK, Restart PROVE TypeOK'
    OBVIOUS
<1>1. stage' \in [Tasks -> Stages]
      BY DEF Restart, TypeOK, Stages, ActiveStages
<1> QED BY <1>1 DEF Restart, TypeOK

LEMMA TypesKept == TypeOK /\ [QueueStep]_vars => TypeOK'
<1> SUFFICES ASSUME TypeOK, [QueueStep]_vars PROVE TypeOK'
    OBVIOUS
<1>1. CASE UNCHANGED vars
      BY <1>1 DEF vars, TypeOK
<1> QED BY <1>1, AsksType, LoopType, RestartType DEF QueueStep

\* The types of the queue's state hold for every number of servers and tasks.
THEOREM TypeCorrect == Spec => []TypeOK
<1> QED BY TypesKept, NextIsQueueStep, InitType, PTL DEF Spec

-----------------------------------------------------------------------------
(* No lost wakeup.                                                         *)

LEMMA CallersWake == TypeOK /\ NoLostWakeup /\ Callers => NoLostWakeup'
<1> SUFFICES ASSUME TypeOK, NoLostWakeup, Callers PROVE NoLostWakeup'
    OBVIOUS
<1>1. ASSUME NEW s \in Servers, NEW t \in Tasks, NEW o \in Observed, Enqueue(s, t, o)
      PROVE  NoLostWakeup'
      BY <1>1 DEF Enqueue, WillWait, TypeOK, NoLostWakeup
<1>2. ASSUME NEW s \in Servers, NEW i \in 1..Len(queue[s]), CancelQueued(s, i)
      PROVE  NoLostWakeup'
  <2>1. queue[s] # <<>>
        BY DEF TypeOK
  <2> QED BY <1>2, <2>1 DEF CancelQueued, TypeOK, NoLostWakeup
<1>3. ASSUME NEW s \in Servers, CancelRunning(s) PROVE NoLostWakeup'
      BY <1>3 DEF CancelRunning, RequestCancel, NoLostWakeup
<1>4. ASSUME NEW s \in Servers, NEW t \in Tasks, RetryLastFailed(s, t)
      PROVE  NoLostWakeup'
      BY <1>4 DEF RetryLastFailed, RetryPumps, TypeOK, NoLostWakeup
<1>5. ASSUME NEW s \in Servers, ClearQueue(s) PROVE NoLostWakeup'
      BY <1>5 DEF ClearQueue, TypeOK, NoLostWakeup
<1>6. ASSUME NEW i \in 1..Len(disk), DeleteHistory(i) PROVE NoLostWakeup'
      BY <1>6 DEF DeleteHistory, NoLostWakeup
<1>7. ASSUME ClearHistory PROVE NoLostWakeup'
      BY <1>7 DEF ClearHistory, NoLostWakeup
<1> QED BY <1>1, <1>2, <1>3, <1>4, <1>5, <1>6, <1>7 DEF Callers

LEMMA LoopWakes == TypeOK /\ NoLostWakeup /\ Loop => NoLostWakeup'
<1> SUFFICES ASSUME TypeOK, NoLostWakeup, Loop PROVE NoLostWakeup'
    OBVIOUS
<1>1. ASSUME NEW s \in Servers, PumpLeaves(s) PROVE NoLostWakeup'
      BY <1>1 DEF PumpLeaves, TypeOK, NoLostWakeup
<1>2. ASSUME NEW s \in Servers, PumpStarts(s) PROVE NoLostWakeup'
  <2>1. running'[s] # None
        BY <1>2, NoneAssumption DEF PumpStarts, MayStart, TypeOK
  <2> QED BY <1>2, <2>1 DEF PumpStarts, TypeOK, NoLostWakeup
<1>3. ASSUME NEW s \in Servers, PumpBooks(s) PROVE NoLostWakeup'
      BY <1>3 DEF PumpBooks, ShouldContinue, TypeOK, NoLostWakeup
<1>4. ASSUME NEW t \in Tasks, RunnerBegins(t) PROVE NoLostWakeup'
      BY <1>4 DEF RunnerBegins, NoLostWakeup
<1>5. ASSUME NEW t \in Tasks, RunnerRefuses(t) PROVE NoLostWakeup'
      BY <1>5 DEF RunnerRefuses, NoLostWakeup
<1>6. ASSUME NEW t \in Tasks, RunnerEnds(t) PROVE NoLostWakeup'
      BY <1>6 DEF RunnerEnds, NoLostWakeup
<1>7. ASSUME NEW t \in Tasks, NEW o \in Results, ExecutorReturns(t, o)
      PROVE  NoLostWakeup'
      BY <1>7 DEF ExecutorReturns, NoLostWakeup
<1> QED BY <1>1, <1>2, <1>3, <1>4, <1>5, <1>6, <1>7 DEF Loop

\* A server with waiting tasks is running one or has a pump scheduled: enqueue may
\* rely on somebody else's pump, whatever is cancelled, cleared or retried.
THEOREM NeverStranded == Spec => []NoLostWakeup
<1>1. Init => NoLostWakeup
      BY DEF Init, NoLostWakeup
<1>2. TypeOK /\ NoLostWakeup /\ [Next]_vars => NoLostWakeup'
  <2> SUFFICES ASSUME TypeOK, NoLostWakeup, [Next]_vars PROVE NoLostWakeup'
      OBVIOUS
  <2>1. CASE UNCHANGED vars
        BY <2>1 DEF vars, NoLostWakeup
  <2>2. CASE Restart
        BY <2>2 DEF Restart, NoLostWakeup
  <2> QED BY <2>1, <2>2, CallersWake, LoopWakes DEF Next
<1> QED BY <1>1, <1>2, TypeCorrect, PTL DEF Spec

-----------------------------------------------------------------------------
(* One at a time.                                                          *)

\* What the other two ways of changing a queue do to its positions.
LEMMA HeadPositions ==
    ASSUME NEW S, NEW q \in Seq(S), NEW t \in S
    PROVE  /\ <<t>> \o q \in Seq(S)
           /\ Len(<<t>> \o q) = Len(q) + 1
           /\ (<<t>> \o q)[1] = t
           /\ \A j \in 2..(Len(q) + 1) : (<<t>> \o q)[j] = q[j - 1]
OBVIOUS

LEMMA TailPositions ==
    ASSUME NEW S, NEW q \in Seq(S), q # <<>>
    PROVE  /\ Head(q) = q[1] /\ Head(q) \in S /\ 1 \in 1..Len(q)
           /\ Tail(q) \in Seq(S)
           /\ Len(Tail(q)) = Len(q) - 1
           /\ \A j \in 1..(Len(q) - 1) : Tail(q)[j] = q[j + 1]
OBVIOUS

\* A new task is in no queue, so putting it anywhere keeps every task in one place.
LEMMA InsertOne ==
    ASSUME TypeOK, OneAtATime, NEW s \in Servers, NEW t \in Tasks, stage[t] = "new",
           NEW q \in Seq(Tasks), NEW p \in 1..Len(q),
           Len(q) = Len(queue[s]) + 1, q[p] = t,
           \A j \in 1..Len(q) : j < p => j \in 1..Len(queue[s]) /\ q[j] = queue[s][j],
           \A j \in 1..Len(q) : j > p => j - 1 \in 1..Len(queue[s]) /\ q[j] = queue[s][j - 1],
           \A j \in 1..Len(queue[s]) : \E k \in 1..Len(q) : q[k] = queue[s][j],
           queue' = [queue EXCEPT ![s] = q],
           stage' = [stage EXCEPT ![t] = "queued"],
           home' = [home EXCEPT ![t] = s],
           running' = running
    PROVE  OneAtATime'
<1>1. Len(q) \in Nat /\ Len(queue[s]) \in Nat
      BY DEF TypeOK
<1>2. /\ queue'[s] = q
      /\ \A u \in Servers : u # s => queue'[u] = queue[u]
      /\ stage'[t] = "queued" /\ home'[t] = s
      /\ \A u \in Tasks : u # t => stage'[u] = stage[u] /\ home'[u] = home[u]
      BY DEF TypeOK
<1>3. ASSUME NEW r \in Servers, running'[r] # None
      PROVE  stage'[running'[r]] \in ActiveStages /\ home'[running'[r]] = r
  <2>1. running[r] # None /\ running[r] \in Tasks
        BY <1>3 DEF TypeOK
  <2>2. stage[running[r]] \in ActiveStages /\ home[running[r]] = r
        BY <2>1 DEF OneAtATime
  <2>3. running[r] # t
        BY <2>2 DEF ActiveStages
  <2> QED BY <1>2, <2>1, <2>2, <2>3
<1>4. ASSUME NEW u \in Tasks, stage'[u] \in ActiveStages
      PROVE  home'[u] \in Servers /\ running'[home'[u]] = u
      BY <1>2, <1>4 DEF OneAtATime, ActiveStages
<1>5. ASSUME NEW u \in Tasks, stage'[u] = "queued"
      PROVE  home'[u] \in Servers /\ \E i \in 1..Len(queue'[home'[u]]) : queue'[home'[u]][i] = u
  <2>1. CASE u = t
        BY <1>2, <2>1
  <2>2. CASE u # t
    <3>1. PICK i \in 1..Len(queue[home[u]]) : queue[home[u]][i] = u
          BY <1>2, <1>5, <2>2 DEF OneAtATime
    <3>2. home'[u] = home[u] /\ home[u] \in Servers
          BY <1>2, <1>5, <2>2 DEF OneAtATime
    <3>3. CASE home[u] = s
      <4>1. PICK k \in 1..Len(q) : q[k] = queue[s][i]
            BY <3>1, <3>3
      <4> QED BY <1>2, <3>1, <3>2, <3>3, <4>1
    <3>4. CASE home[u] # s
          BY <1>2, <3>1, <3>2, <3>4
    <3> QED BY <3>3, <3>4
  <2> QED BY <2>1, <2>2
<1>6. ASSUME NEW r \in Servers, NEW i \in 1..Len(queue'[r])
      PROVE  /\ stage'[queue'[r][i]] = "queued" /\ home'[queue'[r][i]] = r
             /\ \A j \in 1..Len(queue'[r]) : queue'[r][i] = queue'[r][j] => i = j
  <2>1. CASE r # s
    <3>1. queue[r] \in Seq(Tasks) /\ queue'[r] = queue[r]
          BY <1>2, <2>1 DEF TypeOK
    <3> QED BY <1>2, <3>1 DEF OneAtATime
  <2>2. CASE r = s
    <3>1. \A j \in 1..Len(queue[s]) : queue[s][j] # t /\ queue[s][j] \in Tasks
          BY DEF OneAtATime, TypeOK
    <3>2. \A j \in 1..Len(queue[s]) :
             /\ stage[queue[s][j]] = "queued" /\ home[queue[s][j]] = s
             /\ \A k \in 1..Len(queue[s]) : queue[s][j] = queue[s][k] => j = k
          BY DEF OneAtATime
    <3>3. ASSUME NEW j \in 1..Len(q), j # p
          PROVE  \E m \in 1..Len(queue[s]) :
                    q[j] = queue[s][m] /\ ((m = j /\ j < p) \/ (m = j - 1 /\ j > p))
      <4>1. j < p \/ j > p
            BY <1>1, <3>3
      <4>2. CASE j < p
        <5>1. j \in 1..Len(queue[s]) /\ q[j] = queue[s][j]
              BY <4>2
        <5> QED BY <4>2, <5>1
      <4>3. CASE j > p
        <5>1. j - 1 \in 1..Len(queue[s]) /\ q[j] = queue[s][j - 1]
              BY <4>3
        <5> QED BY <4>3, <5>1
      <4> QED BY <4>1, <4>2, <4>3
    <3>4. ASSUME NEW j \in 1..Len(q), j # p
          PROVE  q[j] # t /\ stage[q[j]] = "queued" /\ home[q[j]] = s /\ q[j] \in Tasks
      <4>1. PICK m \in 1..Len(queue[s]) : q[j] = queue[s][m]
            BY <3>3, <3>4
      <4> QED BY <3>1, <3>2, <4>1
    <3>5. stage'[q[i]] = "queued" /\ home'[q[i]] = s
          BY <1>2, <2>2, <3>4
    <3>6. ASSUME NEW j \in 1..Len(q), q[i] = q[j] PROVE i = j
      <4>1. CASE i = p
            BY <1>2, <2>2, <3>4, <3>6, <4>1
      <4>2. CASE j = p
            BY <1>2, <2>2, <3>4, <3>6, <4>2
      <4>3. CASE i # p /\ j # p
        <5>1. i \in 1..Len(q)
              BY <1>2, <2>2
        <5>2. PICK m \in 1..Len(queue[s]) :
                 q[i] = queue[s][m] /\ ((m = i /\ i < p) \/ (m = i - 1 /\ i > p))
              BY <3>3, <4>3, <5>1
        <5>3. PICK n \in 1..Len(queue[s]) :
                 q[j] = queue[s][n] /\ ((n = j /\ j < p) \/ (n = j - 1 /\ j > p))
              BY <3>3, <4>3
        <5>4. m = n
              BY <3>2, <3>6, <5>2, <5>3
        <5> QED BY <1>1, <5>1, <5>2, <5>3, <5>4
      <4> QED BY <4>1, <4>2, <4>3
    <3> QED BY <1>2, <2>2, <3>5, <3>6
  <2> QED BY <2>1, <2>2
<1> QED BY <1>3, <1>4, <1>5, <1>6 DEF OneAtATime

LEMMA EnqueueOne ==
    ASSUME TypeOK, OneAtATime, NEW s \in Servers, NEW t \in Tasks, NEW o \in BOOLEAN,
           Enqueue(s, t, o)
    PROVE  OneAtATime'
<1> DEFINE q == Append(queue[s], t)
<1>1. queue[s] \in Seq(Tasks) /\ Len(queue[s]) \in Nat
      BY DEF TypeOK
<1>2. /\ q \in Seq(Tasks) /\ Len(q) = Len(queue[s]) + 1 /\ Len(q) \in 1..Len(q)
      /\ q[Len(q)] = t
      /\ \A j \in 1..Len(queue[s]) : q[j] = queue[s][j]
      BY <1>1
<1>3. /\ stage[t] = "new" /\ running' = running
      /\ queue' = [queue EXCEPT ![s] = q]
      /\ stage' = [stage EXCEPT ![t] = "queued"]
      /\ home' = [home EXCEPT ![t] = s]
      BY DEF Enqueue, Fresh
<1> HIDE DEF q
<1>4. /\ \A j \in 1..Len(q) : j < Len(q) => j \in 1..Len(queue[s]) /\ q[j] = queue[s][j]
      /\ \A j \in 1..Len(q) : ~(j > Len(q))
      /\ \A j \in 1..Len(queue[s]) : \E k \in 1..Len(q) : q[k] = queue[s][j]
      BY <1>1, <1>2
<1> QED BY <1>2, <1>3, <1>4, InsertOne

LEMMA RetryOne ==
    ASSUME TypeOK, OneAtATime, NEW s \in Servers, NEW t \in Tasks, RetryLastFailed(s, t)
    PROVE  OneAtATime'
<1> DEFINE q == <<t>> \o queue[s]
<1>1. queue[s] \in Seq(Tasks) /\ Len(queue[s]) \in Nat
      BY DEF TypeOK
<1>2. /\ q \in Seq(Tasks) /\ Len(q) = Len(queue[s]) + 1 /\ 1 \in 1..Len(q)
      /\ q[1] = t
      /\ \A j \in 2..(Len(queue[s]) + 1) : q[j] = queue[s][j - 1]
      BY <1>1, HeadPositions
<1>3. /\ stage[t] = "new" /\ running' = running
      /\ queue' = [queue EXCEPT ![s] = q]
      /\ stage' = [stage EXCEPT ![t] = "queued"]
      /\ home' = [home EXCEPT ![t] = s]
      BY DEF RetryLastFailed, Fresh
<1> HIDE DEF q
<1>4. /\ \A j \in 1..Len(q) : ~(j < 1)
      /\ \A j \in 1..Len(q) : j > 1 => j - 1 \in 1..Len(queue[s]) /\ q[j] = queue[s][j - 1]
      BY <1>1, <1>2
<1>5. ASSUME NEW j \in 1..Len(queue[s]) PROVE \E k \in 1..Len(q) : q[k] = queue[s][j]
  <2>1. j + 1 \in 2..(Len(queue[s]) + 1) /\ j + 1 \in 1..Len(q) /\ (j + 1) - 1 = j
        BY <1>1, <1>2
  <2>2. q[j + 1] = queue[s][j]
        BY <1>2, <2>1
  <2> QED BY <2>1, <2>2
<1> QED BY <1>2, <1>3, <1>4, <1>5, InsertOne


\* A task leaves its queue for good, or becomes the running task of an idle server.
LEMMA RemoveOne ==
    ASSUME TypeOK, OneAtATime, NEW s \in Servers, NEW p \in 1..Len(queue[s]),
           NEW q \in Seq(Tasks), Len(q) = Len(queue[s]) - 1,
           \A j \in 1..Len(q) : q[j] = IF j < p THEN queue[s][j] ELSE queue[s][j + 1],
           NEW t \in Tasks, t = queue[s][p],
           queue' = [queue EXCEPT ![s] = q], home' = home,
           \/ stage' = [stage EXCEPT ![t] = "closed"] /\ running' = running
           \/ /\ stage' = [stage EXCEPT ![t] = "spawned"]
              /\ running[s] = None /\ running' = [running EXCEPT ![s] = t]
    PROVE  OneAtATime'
<1>1. Len(q) \in Nat /\ Len(queue[s]) \in Nat /\ t # None
      BY NoneAssumption DEF TypeOK
<1>2. /\ queue'[s] = q
      /\ \A u \in Servers : u # s => queue'[u] = queue[u]
      /\ stage'[t] # "queued"
      /\ \A u \in Tasks : u # t => stage'[u] = stage[u]
      BY DEF TypeOK
<1>3. stage[t] = "queued" /\ home[t] = s
      BY DEF OneAtATime
<1>4. \A j \in 1..Len(q) : \E m \in 1..Len(queue[s]) :
          m # p /\ q[j] = queue[s][m] /\ (m = j \/ m = j + 1) /\ (m = j <=> j < p)
  <2> TAKE j \in 1..Len(q)
  <2>1. CASE j < p
        BY <1>1, <2>1
  <2>2. CASE ~(j < p)
    <3>1. j + 1 \in 1..Len(queue[s]) /\ j + 1 # p /\ j + 1 # j
          BY <1>1, <2>2
    <3> QED BY <2>2, <3>1
  <2> QED BY <2>1, <2>2
<1>5. ASSUME NEW r \in Servers, running'[r] # None
      PROVE  stage'[running'[r]] \in ActiveStages /\ home'[running'[r]] = r
  <2>1. CASE running'[r] = running[r]
    <3>1. running[r] \in Tasks /\ stage[running[r]] \in ActiveStages /\ home[running[r]] = r
          BY <1>5, <2>1 DEF OneAtATime, TypeOK
    <3>2. running[r] # t
          BY <1>3, <3>1 DEF ActiveStages
    <3> QED BY <1>2, <2>1, <3>1, <3>2
  <2>2. CASE running'[r] # running[r]
    <3>1. r = s /\ running'[r] = t /\ stage'[t] = "spawned"
          BY <2>2 DEF TypeOK
    <3> QED BY <1>3, <3>1 DEF ActiveStages
  <2> QED BY <2>1, <2>2
<1>6. ASSUME NEW u \in Tasks, stage'[u] \in ActiveStages
      PROVE  home'[u] \in Servers /\ running'[home'[u]] = u
  <2>1. CASE u = t
    <3>1. stage'[t] = "spawned"
          BY <1>6, <2>1 DEF TypeOK, ActiveStages
    <3>2. running'[s] = t
          BY <3>1 DEF TypeOK
    <3> QED BY <1>3, <2>1, <3>2
  <2>2. CASE u # t
    <3>1. home[u] \in Servers /\ running[home[u]] = u
          BY <1>2, <1>6, <2>2 DEF OneAtATime
    <3>2. u # None
          BY NoneAssumption
    <3> QED BY <3>1, <3>2 DEF TypeOK
  <2> QED BY <2>1, <2>2
<1>7. ASSUME NEW u \in Tasks, stage'[u] = "queued"
      PROVE  home'[u] \in Servers /\ \E i \in 1..Len(queue'[home'[u]]) : queue'[home'[u]][i] = u
  <2>1. u # t /\ stage[u] = "queued"
        BY <1>2, <1>7
  <2>2. home[u] \in Servers
        BY <2>1 DEF OneAtATime
  <2>3. PICK i \in 1..Len(queue[home[u]]) : queue[home[u]][i] = u
        BY <2>1 DEF OneAtATime
  <2>4. CASE home[u] # s
        BY <1>2, <2>2, <2>3, <2>4
  <2>5. CASE home[u] = s
    <3>1. i \in 1..Len(queue[s]) /\ i # p /\ queue[s][i] = u
          BY <2>1, <2>3, <2>5
    <3>2. \E k \in 1..Len(q) : q[k] = u
      <4>1. CASE i < p
        <5>1. i \in 1..Len(q)
              BY <1>1, <3>1, <4>1
        <5> QED BY <3>1, <4>1, <5>1
      <4>2. CASE ~(i < p)
        <5>1. i - 1 \in 1..Len(q) /\ ~(i - 1 < p) /\ (i - 1) + 1 = i
              BY <1>1, <3>1, <4>2
        <5>2. q[i - 1] = queue[s][i]
              BY <5>1
        <5> QED BY <3>1, <5>1, <5>2
      <4> QED BY <4>1, <4>2
    <3> QED BY <1>2, <2>2, <2>5, <3>2
  <2> QED BY <2>4, <2>5
<1>8. ASSUME NEW r \in Servers, NEW i \in 1..Len(queue'[r])
      PROVE  /\ stage'[queue'[r][i]] = "queued" /\ home'[queue'[r][i]] = r
             /\ \A j \in 1..Len(queue'[r]) : queue'[r][i] = queue'[r][j] => i = j
  <2>1. CASE r # s
    <3>1. queue[r] \in Seq(Tasks) /\ queue'[r] = queue[r]
          BY <1>2, <2>1 DEF TypeOK
    <3>2. home[queue[r][i]] = r /\ queue[r][i] \in Tasks
          BY <3>1 DEF OneAtATime
    <3>3. queue[r][i] # t
          BY <1>3, <2>1, <3>2
    <3> QED BY <1>2, <3>1, <3>2, <3>3 DEF OneAtATime
  <2>2. CASE r = s
    <3>1. i \in 1..Len(q)
          BY <1>2, <2>2
    <3>2. \A j, k \in 1..Len(queue[s]) : queue[s][j] = queue[s][k] => j = k
          BY DEF OneAtATime
    <3>3. PICK m \in 1..Len(queue[s]) :
             m # p /\ q[i] = queue[s][m] /\ (m = i \/ m = i + 1) /\ (m = i <=> i < p)
          BY <1>4, <3>1
    <3>4. q[i] # t /\ q[i] \in Tasks /\ stage[q[i]] = "queued" /\ home[q[i]] = s
      <4>1. q[i] # t
            BY <3>2, <3>3
      <4>2. queue[s][m] \in Tasks
            BY DEF TypeOK
      <4>3. stage[queue[s][m]] = "queued" /\ home[queue[s][m]] = s
            BY DEF OneAtATime
      <4> QED BY <3>3, <4>1, <4>2, <4>3
    <3>5. ASSUME NEW j \in 1..Len(q), q[i] = q[j] PROVE i = j
      <4>1. PICK n \in 1..Len(queue[s]) :
               n # p /\ q[j] = queue[s][n] /\ (n = j \/ n = j + 1) /\ (n = j <=> j < p)
            BY <1>4
      <4>2. m = n
            BY <3>2, <3>3, <3>5, <4>1
      <4> QED BY <1>1, <3>1, <3>3, <4>1, <4>2
    <3>6. queue'[r] = q /\ queue'[r][i] = q[i]
          BY <1>2, <2>2
    <3>7. stage'[q[i]] = "queued" /\ home'[q[i]] = r
          BY <1>2, <2>2, <3>4
    <3> QED BY <3>5, <3>6, <3>7
  <2> QED BY <2>1, <2>2
<1> QED BY <1>5, <1>6, <1>7, <1>8 DEF OneAtATime


\* A step of a runner keeps its task active and touches no queue.
LEMMA StageMoveOne ==
    ASSUME TypeOK, OneAtATime, NEW t \in Tasks, NEW st \in ActiveStages,
           stage[t] \in ActiveStages, stage' = [stage EXCEPT ![t] = st],
           queue' = queue, running' = running, home' = home
    PROVE  OneAtATime'
<1>1. /\ stage'[t] \in ActiveStages /\ stage'[t] # "queued" /\ stage[t] # "queued"
      /\ \A u \in Tasks : u # t => stage'[u] = stage[u]
      BY DEF TypeOK, ActiveStages
<1>2. \A s \in Servers : running[s] # None => running[s] \in Tasks
      BY DEF TypeOK
<1>3. \A s \in Servers : \A i \in 1..Len(queue[s]) : queue[s][i] \in Tasks
      BY DEF TypeOK
<1>4. \A s \in Servers : running'[s] # None =>
          stage'[running'[s]] \in ActiveStages /\ home'[running'[s]] = s
      BY <1>1, <1>2 DEF OneAtATime
<1>5. \A u \in Tasks : stage'[u] \in ActiveStages =>
          home'[u] \in Servers /\ running'[home'[u]] = u
      BY <1>1 DEF OneAtATime
<1>6. \A u \in Tasks : stage'[u] = "queued" =>
          home'[u] \in Servers /\ \E i \in 1..Len(queue'[home'[u]]) : queue'[home'[u]][i] = u
      BY <1>1 DEF OneAtATime
<1>7. \A s \in Servers : \A i \in 1..Len(queue'[s]) :
          /\ stage'[queue'[s][i]] = "queued" /\ home'[queue'[s][i]] = s
          /\ \A j \in 1..Len(queue'[s]) : queue'[s][i] = queue'[s][j] => i = j
      BY <1>1, <1>3 DEF OneAtATime
<1> QED BY <1>4, <1>5, <1>6, <1>7 DEF OneAtATime

LEMMA PumpBooksOne ==
    ASSUME TypeOK, OneAtATime, NEW s \in Servers, PumpBooks(s)
    PROVE  OneAtATime'
<1> DEFINE t == running[s]
<1>1. /\ t \in Tasks /\ t # None /\ stage[t] = "booking" /\ home[t] = s
      /\ queue' = queue /\ home' = home
      /\ running' = [running EXCEPT ![s] = None]
      /\ stage' = [stage EXCEPT ![t] = "closed"]
      BY DEF PumpBooks, TypeOK, OneAtATime
<1> HIDE DEF t
<1>2. /\ stage'[t] = "closed"
      /\ \A u \in Tasks : u # t => stage'[u] = stage[u]
      BY <1>1 DEF TypeOK
<1>3. ASSUME NEW r \in Servers, running'[r] # None
      PROVE  stage'[running'[r]] \in ActiveStages /\ home'[running'[r]] = r
  <2>1. r # s /\ running'[r] = running[r] /\ running[r] \in Tasks
        BY <1>1, <1>3 DEF TypeOK
  <2>2. stage[running[r]] \in ActiveStages /\ home[running[r]] = r
        BY <1>3, <2>1 DEF OneAtATime
  <2> QED BY <1>1, <1>2, <2>1, <2>2
<1>4. ASSUME NEW u \in Tasks, stage'[u] \in ActiveStages
      PROVE  home'[u] \in Servers /\ running'[home'[u]] = u
  <2>1. u # t /\ stage[u] \in ActiveStages
        BY <1>2, <1>4 DEF ActiveStages
  <2>2. home[u] \in Servers /\ running[home[u]] = u
        BY <2>1 DEF OneAtATime
  <2>3. home[u] # s
        BY <2>1, <2>2 DEF t
  <2> QED BY <1>1, <2>2, <2>3 DEF TypeOK
<1>5. \A u \in Tasks : stage'[u] = "queued" =>
          home'[u] \in Servers /\ \E i \in 1..Len(queue'[home'[u]]) : queue'[home'[u]][i] = u
      BY <1>1, <1>2 DEF OneAtATime
<1>6. \A r \in Servers : \A i \in 1..Len(queue[r]) : queue[r][i] \in Tasks
      BY DEF TypeOK
<1>7. \A r \in Servers : \A i \in 1..Len(queue'[r]) :
          /\ stage'[queue'[r][i]] = "queued" /\ home'[queue'[r][i]] = r
          /\ \A j \in 1..Len(queue'[r]) : queue'[r][i] = queue'[r][j] => i = j
      BY <1>1, <1>2, <1>6 DEF OneAtATime
<1> QED BY <1>3, <1>4, <1>5, <1>7 DEF OneAtATime

LEMMA ClearQueueOne ==
    ASSUME TypeOK, OneAtATime, NEW s \in Servers, ClearQueue(s)
    PROVE  OneAtATime'
<1> DEFINE out == {queue[s][i] : i \in 1..Len(queue[s])}
<1>1. /\ stage' = [t \in Tasks |-> IF t \in out THEN "closed" ELSE stage[t]]
      /\ queue'[s] = <<>> /\ \A r \in Servers : r # s => queue'[r] = queue[r]
      /\ running' = running /\ home' = home
      BY DEF ClearQueue, TypeOK
<1>2. \A t \in Tasks : t \in out <=> stage[t] = "queued" /\ home[t] = s
  <2> TAKE t \in Tasks
  <2>1. ASSUME t \in out PROVE stage[t] = "queued" /\ home[t] = s
        BY <2>1 DEF OneAtATime
  <2>2. ASSUME stage[t] = "queued", home[t] = s PROVE t \in out
    <3>1. PICK i \in 1..Len(queue[s]) : queue[s][i] = t
          BY <2>2 DEF OneAtATime
    <3> QED BY <3>1
  <2> QED BY <2>1, <2>2
<1> HIDE DEF out
<1>3. \A t \in Tasks : stage'[t] = IF t \in out THEN "closed" ELSE stage[t]
      BY <1>1
<1>4. \A r \in Servers : running'[r] # None =>
          stage'[running'[r]] \in ActiveStages /\ home'[running'[r]] = r
  <2>1. \A r \in Servers : running[r] # None =>
            running[r] \in Tasks /\ stage[running[r]] \in ActiveStages /\ home[running[r]] = r
        BY DEF TypeOK, OneAtATime
  <2> QED BY <1>1, <1>2, <1>3, <2>1 DEF ActiveStages
<1>5. \A u \in Tasks : stage'[u] \in ActiveStages =>
          home'[u] \in Servers /\ running'[home'[u]] = u
      BY <1>1, <1>3 DEF OneAtATime, ActiveStages
<1>6. ASSUME NEW u \in Tasks, stage'[u] = "queued"
      PROVE  home'[u] \in Servers /\ \E i \in 1..Len(queue'[home'[u]]) : queue'[home'[u]][i] = u
  <2>1. stage[u] = "queued" /\ home[u] # s
        BY <1>2, <1>3, <1>6
  <2> QED BY <1>1, <2>1 DEF OneAtATime
<1>7. ASSUME NEW r \in Servers, NEW i \in 1..Len(queue'[r])
      PROVE  /\ stage'[queue'[r][i]] = "queued" /\ home'[queue'[r][i]] = r
             /\ \A j \in 1..Len(queue'[r]) : queue'[r][i] = queue'[r][j] => i = j
  <2>1. r # s /\ queue'[r] = queue[r] /\ queue[r] \in Seq(Tasks)
        BY <1>1 DEF TypeOK
  <2>2. queue[r][i] \in Tasks /\ home[queue[r][i]] = r /\ stage[queue[r][i]] = "queued"
        BY <2>1 DEF OneAtATime
  <2>3. stage'[queue[r][i]] = "queued"
        BY <1>2, <1>3, <2>1, <2>2
  <2> QED BY <1>1, <2>1, <2>2, <2>3 DEF OneAtATime
<1> QED BY <1>4, <1>5, <1>6, <1>7 DEF OneAtATime

LEMMA RestartOne ==
    ASSUME TypeOK, OneAtATime, Restart
    PROVE  OneAtATime'
<1>1. \A t \in Tasks : stage'[t] \notin ActiveStages /\ stage'[t] # "queued"
      BY DEF Restart, TypeOK, ActiveStages
<1>2. \A s \in Servers : running'[s] = None /\ queue'[s] = <<>>
      BY DEF Restart
<1> QED BY <1>1, <1>2 DEF OneAtATime


LEMMA AsksOne == TypeOK /\ OneAtATime /\ Asks => OneAtATime'
<1> SUFFICES ASSUME TypeOK, OneAtATime, Asks PROVE OneAtATime'
    OBVIOUS
<1>1. ASSUME NEW s \in Servers, NEW i \in 1..Len(queue[s]), CancelQueued(s, i)
      PROVE  OneAtATime'
  <2>1. queue[s] \in Seq(Tasks) /\ queue[s][i] \in Tasks
        BY DEF TypeOK
  <2> DEFINE q == RemoveAt(queue[s], i)
  <2>2. /\ q \in Seq(Tasks) /\ Len(q) = Len(queue[s]) - 1
        /\ \A j \in 1..(Len(queue[s]) - 1) : q[j] = IF j < i THEN queue[s][j] ELSE queue[s][j + 1]
        BY <2>1, RemoveAtPositions
  <2>3. /\ queue' = [queue EXCEPT ![s] = q]
        /\ stage' = [stage EXCEPT ![queue[s][i]] = "closed"]
        /\ running' = running /\ home' = home
        BY <1>1 DEF CancelQueued
  <2> HIDE DEF q
  <2> QED BY <2>1, <2>2, <2>3, RemoveOne
<1>2. ASSUME NEW s \in Servers, CancelRunning(s) PROVE OneAtATime'
      BY <1>2 DEF CancelRunning, RequestCancel, OneAtATime
<1>3. ASSUME NEW i \in 1..Len(disk), DeleteHistory(i) PROVE OneAtATime'
      BY <1>3 DEF DeleteHistory, OneAtATime
<1>4. ASSUME ClearHistory PROVE OneAtATime'
      BY <1>4 DEF ClearHistory, OneAtATime
<1> QED BY <1>1, <1>2, <1>3, <1>4, EnqueueOne, RetryOne, ClearQueueOne DEF Asks

LEMMA LoopOne == TypeOK /\ OneAtATime /\ Loop => OneAtATime'
<1> SUFFICES ASSUME TypeOK, OneAtATime, Loop PROVE OneAtATime'
    OBVIOUS
<1>1. ASSUME NEW s \in Servers, PumpLeaves(s) PROVE OneAtATime'
      BY <1>1 DEF PumpLeaves, OneAtATime
<1>2. ASSUME NEW s \in Servers, PumpStarts(s) PROVE OneAtATime'
  <2>1. queue[s] \in Seq(Tasks) /\ queue[s] # <<>>
        BY <1>2 DEF TypeOK, PumpStarts, MayStart
  <2> DEFINE q == Tail(queue[s])
             t == Head(queue[s])
  <2>2. /\ q \in Seq(Tasks) /\ Len(q) = Len(queue[s]) - 1 /\ 1 \in 1..Len(queue[s])
        /\ t \in Tasks /\ t = queue[s][1]
        /\ \A j \in 1..(Len(queue[s]) - 1) : q[j] = queue[s][j + 1]
        BY <2>1, TailPositions
  <2>3. /\ queue' = [queue EXCEPT ![s] = q]
        /\ stage' = [stage EXCEPT ![t] = "spawned"]
        /\ running[s] = None /\ running' = [running EXCEPT ![s] = t]
        /\ home' = home
        BY <1>2 DEF PumpStarts, MayStart
  <2> HIDE DEF q, t
  <2>4. \A j \in 1..Len(q) : q[j] = IF j < 1 THEN queue[s][j] ELSE queue[s][j + 1]
        BY <2>2
  <2> QED BY <2>2, <2>3, <2>4, RemoveOne
<1>3. ASSUME NEW t \in Tasks, RunnerBegins(t) PROVE OneAtATime'
      BY <1>3, StageMoveOne DEF RunnerBegins, ActiveStages
<1>4. ASSUME NEW t \in Tasks, RunnerRefuses(t) PROVE OneAtATime'
      BY <1>4, StageMoveOne DEF RunnerRefuses, ActiveStages
<1>5. ASSUME NEW t \in Tasks, RunnerEnds(t) PROVE OneAtATime'
      BY <1>5, StageMoveOne DEF RunnerEnds, ActiveStages
<1>6. ASSUME NEW t \in Tasks, NEW o \in Results, ExecutorReturns(t, o) PROVE OneAtATime'
      BY <1>6, StageMoveOne DEF ExecutorReturns, ActiveStages
<1> QED BY <1>1, <1>2, <1>3, <1>4, <1>5, <1>6, PumpBooksOne DEF Loop

LEMMA OneKept == TypeOK /\ OneAtATime /\ [QueueStep]_vars => OneAtATime'
<1> SUFFICES ASSUME TypeOK, OneAtATime, [QueueStep]_vars PROVE OneAtATime'
    OBVIOUS
<1>1. CASE UNCHANGED vars
      BY <1>1 DEF vars, OneAtATime
<1> QED BY <1>1, AsksOne, LoopOne, RestartOne DEF QueueStep

\* No server ever has two tasks between start and bookkeeping, and no task is in
\* two places, however enqueue, cancel, retry, clear and restarts interleave.
THEOREM MutualExclusion == Spec => []OneAtATime
<1>1. Init => OneAtATime
      BY DEF Init, OneAtATime, ActiveStages
<1> QED BY <1>1, OneKept, NextIsQueueStep, TypeCorrect, PTL DEF Spec

\* Two tasks of one server are never both being run.
COROLLARY NeverTwoAtOnce ==
    Spec => [](\A t, u \in Tasks :
                  stage[t] \in ActiveStages /\ stage[u] \in ActiveStages /\ home[t] = home[u]
                      => t = u)
<1>1. OneAtATime => \A t, u \in Tasks :
          stage[t] \in ActiveStages /\ stage[u] \in ActiveStages /\ home[t] = home[u] => t = u
      BY DEF OneAtATime
<1> QED BY <1>1, MutualExclusion, PTL

-----------------------------------------------------------------------------
(* What ended stays ended.                                                  *)

\* A status is set when a task leaves its queue or its executor.
StatusInv ==
    \A t \in Tasks : outcome[t] # None => stage[t] \in {"settling", "booking", "closed", "lost"}

\* What may become of one task in one step.
Onward(t) ==
    \/ stage'[t] = stage[t] /\ outcome'[t] = outcome[t]
    \/ stage[t] = "new" /\ stage'[t] = "queued" /\ outcome'[t] = outcome[t]
    \/ stage[t] = "queued" /\ stage'[t] = "spawned" /\ outcome'[t] = outcome[t]
    \/ stage[t] = "queued" /\ stage'[t] = "closed" /\ outcome'[t] = "cancelled"
    \/ stage[t] = "spawned" /\ stage'[t] = "working" /\ outcome'[t] = outcome[t]
    \/ stage[t] = "spawned" /\ stage'[t] = "booking" /\ outcome'[t] = "cancelled"
    \/ stage[t] = "working" /\ stage'[t] = "settling" /\ outcome'[t] \in Results
    \/ stage[t] = "settling" /\ stage'[t] = "booking" /\ outcome'[t] = outcome[t]
    \/ stage[t] = "booking" /\ stage'[t] = "closed" /\ outcome'[t] = outcome[t]
    \/ stage[t] \in ActiveStages \cup {"queued"} /\ stage'[t] = "lost" /\ outcome'[t] = outcome[t]

LEMMA AsksOnward ==
    ASSUME TypeOK, OneAtATime, Asks, NEW t \in Tasks
    PROVE  Onward(t)
<1> USE DEF TypeOK, Onward
<1>1. ASSUME NEW s \in Servers, NEW u \in Tasks, NEW o \in BOOLEAN, Enqueue(s, u, o)
      PROVE  Onward(t)
      BY <1>1 DEF Enqueue, Fresh
<1>2. ASSUME NEW s \in Servers, NEW i \in 1..Len(queue[s]), CancelQueued(s, i)
      PROVE  Onward(t)
  <2>1. stage[queue[s][i]] = "queued"
        BY DEF OneAtATime
  <2> QED BY <1>2, <2>1 DEF CancelQueued
<1>3. ASSUME NEW s \in Servers, CancelRunning(s) PROVE Onward(t)
      BY <1>3 DEF CancelRunning, RequestCancel
<1>4. ASSUME NEW s \in Servers, NEW u \in Tasks, RetryLastFailed(s, u) PROVE Onward(t)
      BY <1>4 DEF RetryLastFailed, Fresh
<1>5. ASSUME NEW s \in Servers, ClearQueue(s) PROVE Onward(t)
  <2>1. \A i \in 1..Len(queue[s]) : stage[queue[s][i]] = "queued"
        BY DEF OneAtATime
  <2>2. t \in {queue[s][i] : i \in 1..Len(queue[s])} => stage[t] = "queued"
        BY <2>1
  <2> QED BY <1>5, <2>2 DEF ClearQueue
<1>6. ASSUME NEW i \in 1..Len(disk), DeleteHistory(i) PROVE Onward(t)
      BY <1>6 DEF DeleteHistory
<1>7. CASE ClearHistory
      BY <1>7 DEF ClearHistory
<1> QED BY <1>1, <1>2, <1>3, <1>4, <1>5, <1>6, <1>7 DEF Asks

LEMMA LoopOnward ==
    ASSUME TypeOK, OneAtATime, Loop, NEW t \in Tasks
    PROVE  Onward(t)
<1> USE DEF TypeOK, Onward
<1>1. ASSUME NEW s \in Servers, PumpLeaves(s) PROVE Onward(t)
      BY <1>1 DEF PumpLeaves
<1>2. ASSUME NEW s \in Servers, PumpStarts(s) PROVE Onward(t)
  <2>1. queue[s] \in Seq(Tasks) /\ queue[s] # <<>>
        BY <1>2 DEF PumpStarts, MayStart
  <2>2. 1 \in 1..Len(queue[s]) /\ Head(queue[s]) = queue[s][1]
        BY <2>1, TailPositions
  <2>3. stage[Head(queue[s])] = "queued"
        BY <2>2 DEF OneAtATime
  <2> QED BY <1>2, <2>3 DEF PumpStarts
<1>3. ASSUME NEW s \in Servers, PumpBooks(s) PROVE Onward(t)
      BY <1>3 DEF PumpBooks
<1>4. ASSUME NEW u \in Tasks, RunnerBegins(u) PROVE Onward(t)
      BY <1>4 DEF RunnerBegins
<1>5. ASSUME NEW u \in Tasks, RunnerRefuses(u) PROVE Onward(t)
      BY <1>5 DEF RunnerRefuses
<1>6. ASSUME NEW u \in Tasks, RunnerEnds(u) PROVE Onward(t)
      BY <1>6 DEF RunnerEnds
<1>7. ASSUME NEW u \in Tasks, NEW o \in Results, ExecutorReturns(u, o) PROVE Onward(t)
      BY <1>7 DEF ExecutorReturns
<1> QED BY <1>1, <1>2, <1>3, <1>4, <1>5, <1>6, <1>7 DEF Loop

LEMMA EveryStepOnward ==
    ASSUME TypeOK, OneAtATime, [QueueStep]_vars, NEW t \in Tasks
    PROVE  Onward(t)
<1>1. CASE UNCHANGED vars
      BY <1>1 DEF vars, Onward
<1>2. CASE Restart
      BY <1>2 DEF Restart, Onward, TypeOK
<1> QED BY <1>1, <1>2, AsksOnward, LoopOnward DEF QueueStep

LEMMA StatusKept == TypeOK /\ OneAtATime /\ StatusInv /\ [QueueStep]_vars => StatusInv'
<1> SUFFICES ASSUME TypeOK, OneAtATime, StatusInv, [QueueStep]_vars, NEW t \in Tasks, outcome'[t] # None
             PROVE  stage'[t] \in {"settling", "booking", "closed", "lost"}
    BY DEF StatusInv
<1>1. Onward(t)
      BY EveryStepOnward
<1> QED BY <1>1 DEF Onward, StatusInv, ActiveStages

LEMMA StatusHolds == Spec => []StatusInv
<1>1. Init => StatusInv
      BY DEF Init, StatusInv
<1> QED BY <1>1, StatusKept, NextIsQueueStep, TypeCorrect, MutualExclusion, PTL DEF Spec

\* A terminal status is final and no task goes back to an earlier place: what is
\* cancelled in a queue never runs, a late cancel changes nothing.
THEOREM NeverBack == Spec => NoWayBack
<1>1. /\ Rank("new") = 0 /\ Rank("queued") = 1 /\ Rank("spawned") = 2 /\ Rank("working") = 3
      /\ Rank("settling") = 4 /\ Rank("booking") = 5 /\ Rank("closed") = 6 /\ Rank("lost") = 6
      BY Zenon DEF Rank
<1>2. ASSUME TypeOK, OneAtATime, StatusInv, [Next]_vars, NEW t \in Tasks
      PROVE  /\ outcome[t] # None => outcome'[t] = outcome[t]
             /\ Rank(stage'[t]) >= Rank(stage[t])
  <2>1. Onward(t)
        BY <1>2, EveryStepOnward, NextIsQueueStep
  <2>2. outcome[t] # None => outcome'[t] = outcome[t]
        BY <1>2, <2>1 DEF Onward, StatusInv
  <2>3. stage[t] \in Stages
        BY <1>2 DEF TypeOK
  <2>4. Rank(stage'[t]) >= Rank(stage[t])
        BY <1>1, <2>1, <2>3 DEF Onward, Stages, ActiveStages
  <2> QED BY <2>2, <2>4
<1>3. TypeOK /\ OneAtATime /\ StatusInv /\ [Next]_vars =>
          [\A t \in Tasks :
              /\ outcome[t] # None => outcome'[t] = outcome[t]
              /\ Rank(stage'[t]) >= Rank(stage[t])]_vars
      BY <1>2
<1> QED BY <1>3, TypeCorrect, MutualExclusion, StatusHolds, PTL DEF Spec, NoWayBack

-----------------------------------------------------------------------------
LEMMA OnlyBookingRecords ==
    ASSUME TypeOK, [Next]_vars, NEW s \in Servers, failed'[s] # failed[s], failed'[s] # None
    PROVE  PumpBooks(s)
<1> USE DEF TypeOK
<1>1. CASE Callers
      BY <1>1 DEF Callers, Enqueue, CancelQueued, CancelRunning, RequestCancel,
                  RetryLastFailed, ClearQueue, DeleteHistory, ClearHistory
<1>2. CASE Restart \/ UNCHANGED vars
      BY <1>2 DEF Restart, vars
<1>3. CASE Loop
  <2>1. UNCHANGED failed \/ \E r \in Servers : PumpBooks(r)
        BY <1>3 DEF Loop, PumpLeaves, PumpStarts, RunnerBegins, RunnerRefuses, RunnerEnds,
                    ExecutorReturns
  <2>2. PICK r \in Servers : PumpBooks(r)
        BY <2>1
  <2>3. failed' = [failed EXCEPT ![r] = RecordedFailure(r, running[r])]
        BY <2>2 DEF PumpBooks
  <2> QED BY <2>2, <2>3
<1> QED BY <1>1, <1>2, <1>3 DEF Next

\* The failure a server records for retry is a task of its own that ended FAILED:
\* a retry never repeats what still waits or runs.
THEOREM RecordedFailureIsReal == Spec => []FailureIsReal
<1>1. Init => FailureIsReal
      BY DEF Init, FailureIsReal
<1>2. ASSUME TypeOK, OneAtATime, FailureIsReal, [Next]_vars PROVE FailureIsReal'
  <2> SUFFICES ASSUME NEW s \in Servers, failed'[s] # None
               PROVE  /\ home'[failed'[s]] = s
                      /\ outcome'[failed'[s]] = "failed"
                      /\ stage'[failed'[s]] = "closed"
      BY DEF FailureIsReal
  <2>1. CASE failed'[s] = failed[s]
    <3>1. failed[s] \in Tasks /\ stage[failed[s]] = "closed" /\ outcome[failed[s]] = "failed"
          BY <1>2, <2>1 DEF FailureIsReal, TypeOK
    <3>2. Onward(failed[s])
          BY <1>2, <3>1, EveryStepOnward, NextIsQueueStep
    <3>3. home'[failed[s]] = home[failed[s]]
          BY <1>2, <3>1 DEF Next, vars, Callers, Loop, Restart, Enqueue, Fresh, CancelQueued,
             CancelRunning, RequestCancel, RetryLastFailed, ClearQueue, DeleteHistory,
             ClearHistory, PumpLeaves, PumpStarts, PumpBooks, RunnerBegins, RunnerRefuses,
             RunnerEnds, ExecutorReturns, TypeOK
    <3> QED BY <1>2, <2>1, <3>1, <3>2, <3>3 DEF Onward, FailureIsReal, ActiveStages
  <2>2. CASE failed'[s] # failed[s]
    <3>1. PumpBooks(s)
          BY <1>2, <2>2, OnlyBookingRecords
    <3>2. running[s] \in Tasks /\ home[running[s]] = s
          BY <1>2, <3>1 DEF PumpBooks, TypeOK, OneAtATime
    <3>3. failed'[s] = running[s] /\ outcome[running[s]] = "failed"
          BY <1>2, <2>2, <3>1 DEF PumpBooks, RecordedFailure, TypeOK
    <3> QED BY <1>2, <3>1, <3>2, <3>3 DEF PumpBooks, TypeOK
  <2> QED BY <2>1, <2>2
<1>3. TypeOK /\ OneAtATime /\ FailureIsReal /\ [Next]_vars => FailureIsReal'
      BY <1>2
<1> QED BY <1>1, <1>3, TypeCorrect, MutualExclusion, PTL DEF Spec

-----------------------------------------------------------------------------
(* Every end is reported once.                                              *)

Early == {"new", "queued", "spawned", "working", "settling"}
Reported(t) ==
    /\ \A i \in Finals(t) : i = Len(journal[t]) /\ journal[t][i].kind = FinalKind(outcome[t])
    /\ Len(journal[t]) <= 2
    /\ DoneEvent(t) /\ outcome[t] # "cancelled" => Finals(t) # {}

\* Until a task is over it has been announced at most once, and nothing else.
JournalInv ==
    \A t \in Tasks :
        /\ Reported(t)
        /\ stage[t] = "new" => Len(journal[t]) = 0
        /\ stage[t] \in Early => Len(journal[t]) <= 1 /\ Finals(t) = {}

\* What one step may tell of one task.
TellsNothing(t) ==
    /\ journal'[t] = journal[t]
    /\ stage[t] \in Early => stage'[t] # "booking"
    /\ stage[t] = "queued" /\ stage'[t] = "closed" => outcome'[t] = "cancelled"
Announces(t) ==
    /\ stage[t] = "new" /\ stage'[t] = "queued"
    /\ \E e \in Entries : e.kind = "queued" /\ journal'[t] = Append(journal[t], e)
TellsEnd(t) ==
    /\ stage[t] \in Early \ {"new"} /\ stage'[t] \in {"booking", "closed"}
    /\ \E e \in Entries : e.kind = FinalKind(outcome'[t]) /\ journal'[t] = Append(journal[t], e)
Journals(t) == TellsNothing(t) \/ Announces(t) \/ TellsEnd(t)

\* _emit_task_event adds one entry to one task.
LEMMA EmitAppends ==
    ASSUME TypeOK, NEW t \in Tasks, NEW k \in Kinds, NEW obs, journal' = Emit(t, k, obs)
    PROVE  /\ \E e \in Entries : e.kind = k /\ journal'[t] = Append(journal[t], e)
           /\ \A u \in Tasks : u # t => journal'[u] = journal[u]
<1> DEFINE e == [kind |-> k, push |-> t \notin obs]
<1>1. e \in Entries /\ e.kind = k
      BY DEF Entries
<1>2. journal' = [journal EXCEPT ![t] = Append(journal[t], e)]
      BY DEF Emit
<1> HIDE DEF e
<1>3. journal'[t] = Append(journal[t], e) /\ \A u \in Tasks : u # t => journal'[u] = journal[u]
      BY <1>2 DEF TypeOK
<1> QED BY <1>1, <1>3

LEMMA AsksTell ==
    ASSUME TypeOK, OneAtATime, Asks, NEW t \in Tasks
    PROVE  Journals(t)
<1>0. \A s \in Servers : \A i \in 1..Len(queue[s]) : queue[s][i] \in Tasks /\ stage[queue[s][i]] = "queued"
      BY DEF TypeOK, OneAtATime
<1>1. ASSUME NEW s \in Servers, NEW u \in Tasks, NEW o \in BOOLEAN, Enqueue(s, u, o)
      PROVE  Journals(t)
  <2>1. /\ stage[u] = "new" /\ stage'[u] = "queued"
        /\ \A v \in Tasks : v # u => stage'[v] = stage[v]
        BY <1>1 DEF Enqueue, Fresh, TypeOK
  <2>2. CASE journal' = Emit(u, "queued", live')
    <3>1. /\ \E e \in Entries : e.kind = "queued" /\ journal'[u] = Append(journal[u], e)
          /\ \A v \in Tasks : v # u => journal'[v] = journal[v]
          BY <2>2, EmitAppends DEF Kinds
    <3> QED BY <2>1, <3>1 DEF Journals, Announces, TellsNothing, Early
  <2>3. CASE UNCHANGED journal
        BY <2>1, <2>3 DEF Journals, TellsNothing, Early
  <2> QED BY <1>1, <2>2, <2>3 DEF Enqueue
<1>2. ASSUME NEW s \in Servers, NEW i \in 1..Len(queue[s]), CancelQueued(s, i)
      PROVE  Journals(t)
  <2> DEFINE u == queue[s][i]
  <2>1. /\ u \in Tasks /\ stage[u] = "queued" /\ stage'[u] = "closed" /\ outcome'[u] = "cancelled"
        /\ \A v \in Tasks : v # u => stage'[v] = stage[v]
        BY <1>0, <1>2 DEF CancelQueued, TypeOK
  <2>2. journal' = Emit(u, "cancelled", live)
        BY <1>2 DEF CancelQueued
  <2> HIDE DEF u
  <2>3. /\ \E e \in Entries : e.kind = "cancelled" /\ journal'[u] = Append(journal[u], e)
        /\ \A v \in Tasks : v # u => journal'[v] = journal[v]
        BY <2>1, <2>2, EmitAppends DEF Kinds
  <2>4. FinalKind(outcome'[u]) = "cancelled"
        BY <2>1 DEF FinalKind, Successful
  <2> QED BY <2>1, <2>3, <2>4 DEF Journals, TellsNothing, TellsEnd, Early
<1>3. ASSUME NEW s \in Servers, CancelRunning(s) PROVE Journals(t)
      BY <1>3 DEF CancelRunning, RequestCancel, Journals, TellsNothing, Early
<1>4. ASSUME NEW s \in Servers, NEW u \in Tasks, RetryLastFailed(s, u) PROVE Journals(t)
      BY <1>4 DEF RetryLastFailed, Fresh, Journals, TellsNothing, Early, TypeOK
<1>5. ASSUME NEW s \in Servers, ClearQueue(s) PROVE Journals(t)
  <2> DEFINE out == {queue[s][i] : i \in 1..Len(queue[s])}
  <2>1. /\ journal' = journal
        /\ outcome'[t] = IF t \in out THEN "cancelled" ELSE outcome[t]
        /\ stage'[t] = IF t \in out THEN "closed" ELSE stage[t]
        BY <1>5 DEF ClearQueue
  <2> HIDE DEF out
  <2> QED BY <2>1 DEF Journals, TellsNothing, Early
<1>6. ASSUME NEW i \in 1..Len(disk), DeleteHistory(i) PROVE Journals(t)
      BY <1>6 DEF DeleteHistory, Journals, TellsNothing, Early
<1>7. CASE ClearHistory
      BY <1>7 DEF ClearHistory, Journals, TellsNothing, Early
<1> QED BY <1>1, <1>2, <1>3, <1>4, <1>5, <1>6, <1>7 DEF Asks

LEMMA LoopTells ==
    ASSUME TypeOK, OneAtATime, Loop, NEW t \in Tasks
    PROVE  Journals(t)
<1>1. ASSUME NEW s \in Servers, PumpLeaves(s) PROVE Journals(t)
      BY <1>1 DEF PumpLeaves, Journals, TellsNothing, Early
<1>2. ASSUME NEW s \in Servers, PumpStarts(s) PROVE Journals(t)
      BY <1>2 DEF PumpStarts, Journals, TellsNothing, Early, TypeOK
<1>3. ASSUME NEW s \in Servers, PumpBooks(s) PROVE Journals(t)
  <2>1. journal' = journal /\ (stage'[t] = stage[t] \/ (stage[t] = "booking" /\ stage'[t] = "closed"))
        BY <1>3 DEF PumpBooks, TypeOK
  <2> QED BY <2>1 DEF Journals, TellsNothing, Early
<1>4. ASSUME NEW u \in Tasks, RunnerBegins(u) PROVE Journals(t)
      BY <1>4 DEF RunnerBegins, Journals, TellsNothing, Early, TypeOK
<1>5. ASSUME NEW u \in Tasks, RunnerRefuses(u) PROVE Journals(t)
  <2>1. /\ stage[u] = "spawned" /\ stage'[u] = "booking" /\ outcome'[u] = "cancelled"
        /\ \A v \in Tasks : v # u => stage'[v] = stage[v]
        BY <1>5 DEF RunnerRefuses, TypeOK
  <2>2. /\ \E e \in Entries : e.kind = "cancelled" /\ journal'[u] = Append(journal[u], e)
        /\ \A v \in Tasks : v # u => journal'[v] = journal[v]
        BY <1>5, EmitAppends DEF RunnerRefuses, Kinds
  <2>3. FinalKind(outcome'[u]) = "cancelled"
        BY <2>1 DEF FinalKind, Successful
  <2> QED BY <2>1, <2>2, <2>3 DEF Journals, TellsNothing, TellsEnd, Early
<1>6. ASSUME NEW u \in Tasks, RunnerEnds(u) PROVE Journals(t)
  <2> DEFINE k == FinalKind(outcome[u])
  <2>1. /\ stage[u] = "settling" /\ stage'[u] = "booking" /\ outcome'[u] = outcome[u]
        /\ \A v \in Tasks : v # u => stage'[v] = stage[v]
        BY <1>6 DEF RunnerEnds, TypeOK
  <2>2. k \in Kinds /\ journal' = Emit(u, k, live)
        BY <1>6, FinalKindType DEF RunnerEnds, FinalEntry
  <2>3. /\ \E e \in Entries : e.kind = k /\ journal'[u] = Append(journal[u], e)
        /\ \A v \in Tasks : v # u => journal'[v] = journal[v]
        BY <2>2, EmitAppends
  <2> QED BY <2>1, <2>3 DEF Journals, TellsNothing, TellsEnd, Early
<1>7. ASSUME NEW u \in Tasks, NEW o \in Results, ExecutorReturns(u, o) PROVE Journals(t)
      BY <1>7 DEF ExecutorReturns, Journals, TellsNothing, Early, TypeOK
<1> QED BY <1>1, <1>2, <1>3, <1>4, <1>5, <1>6, <1>7 DEF Loop

LEMMA EveryStepTells ==
    ASSUME TypeOK, OneAtATime, [QueueStep]_vars, NEW t \in Tasks
    PROVE  Journals(t)
<1>1. CASE UNCHANGED vars
      BY <1>1 DEF vars, Journals, TellsNothing, Early
<1>2. CASE Restart
      BY <1>2 DEF Restart, Journals, TellsNothing, Early, TypeOK, ActiveStages
<1> QED BY <1>1, <1>2, AsksTell, LoopTells DEF QueueStep

LEMMA JournalKept == TypeOK /\ OneAtATime /\ JournalInv /\ [QueueStep]_vars => JournalInv'
<1> SUFFICES ASSUME TypeOK, OneAtATime, JournalInv, [QueueStep]_vars, NEW t \in Tasks
             PROVE  /\ Reported(t)'
                    /\ stage'[t] = "new" => Len(journal'[t]) = 0
                    /\ stage'[t] \in Early => Len(journal'[t]) <= 1 /\ Finals(t)' = {}
    BY DEF JournalInv
<1>1. Onward(t) /\ Journals(t)
      BY EveryStepOnward, EveryStepTells
<1>2. /\ Reported(t) /\ (stage[t] = "new" => Len(journal[t]) = 0)
      /\ stage[t] \in Early => Len(journal[t]) <= 1 /\ Finals(t) = {}
      /\ journal[t] \in Seq(Entries) /\ Len(journal[t]) \in Nat
      BY DEF JournalInv, TypeOK
<1>3. CASE TellsNothing(t)
  <2>1. Finals(t)' = Finals(t) /\ Len(journal'[t]) = Len(journal[t])
        BY <1>3 DEF Finals, TellsNothing
  <2>2. stage'[t] = "new" => stage[t] = "new"
        BY <1>1 DEF Onward
  <2>3. stage'[t] \in Early => stage[t] \in Early
        BY <1>1 DEF Onward, Early
  <2>4. stage[t] \notin Early => outcome'[t] = outcome[t]
        BY <1>1 DEF Onward, Early
  <2>5. DoneEvent(t)' /\ outcome'[t] # "cancelled" => DoneEvent(t) /\ outcome[t] # "cancelled"
        BY <1>1, <1>3 DEF Onward, TellsNothing, DoneEvent, Early
  <2>6. \A i \in Finals(t)' : i = Len(journal'[t]) /\ journal'[t][i].kind = FinalKind(outcome'[t])
        BY <1>2, <1>3, <2>1, <2>4 DEF Reported, TellsNothing
  <2> QED BY <1>2, <2>1, <2>2, <2>3, <2>5, <2>6 DEF Reported
<1>4. CASE Announces(t)
  <2>1. PICK e \in Entries : e.kind = "queued" /\ journal'[t] = Append(journal[t], e)
        BY <1>4 DEF Announces
  <2>2. stage[t] = "new" /\ stage'[t] = "queued" /\ Len(journal[t]) = 0
        BY <1>2, <1>4 DEF Announces
  <2>3. Len(journal'[t]) = 1 /\ journal'[t][1] = e
        BY <1>2, <2>1, <2>2
  <2>4. Finals(t)' = {}
        BY <2>1, <2>3 DEF Finals
  <2> QED BY <2>2, <2>3, <2>4 DEF Reported, DoneEvent
<1>5. CASE TellsEnd(t)
  <2>1. PICK e \in Entries : e.kind = FinalKind(outcome'[t]) /\ journal'[t] = Append(journal[t], e)
        BY <1>5 DEF TellsEnd
  <2>2. /\ stage[t] \in Early /\ stage'[t] \notin Early
        /\ Len(journal[t]) <= 1 /\ Finals(t) = {}
        BY <1>2, <1>5 DEF TellsEnd, Early
  <2> DEFINE n == Len(journal[t]) + 1
  <2>3. /\ Len(journal'[t]) = n /\ journal'[t][n] = e /\ n \in 1..2
        /\ \A i \in 1..(n - 1) : journal'[t][i] = journal[t][i]
        BY <1>2, <2>1, <2>2
  <2>4. \A i \in 1..(n - 1) : journal'[t][i].kind = "queued"
        BY <1>2, <2>2, <2>3 DEF Finals
  <2>5. FinalKind(outcome'[t]) # "queued"
        BY DEF FinalKind
  <2> HIDE DEF n
  <2>6. Finals(t)' = {n}
        BY <2>1, <2>3, <2>4, <2>5 DEF Finals
  <2> QED BY <2>1, <2>2, <2>3, <2>6 DEF Reported, Early
<1> QED BY <1>1, <1>3, <1>4, <1>5 DEF Journals

LEMMA JournalInit == Init => JournalInv
<1> SUFFICES ASSUME Init, NEW t \in Tasks
             PROVE  /\ Reported(t) /\ Len(journal[t]) = 0 /\ Finals(t) = {}
    BY DEF JournalInv
<1>1. journal[t] = <<>> /\ outcome[t] = None /\ stage[t] = "new"
      BY DEF Init
<1>2. Len(journal[t]) = 0 /\ Finals(t) = {}
      BY <1>1 DEF Finals
<1> QED BY <1>1, <1>2 DEF Reported, DoneEvent

\* A task that ended is reported once, with the status it ended with, after its
\* announcement and before _done_event wakes anybody (_emit_task_event).
THEOREM EndIsReportedOnce == Spec => []ReportedOnce
<1>1. JournalInv => ReportedOnce
      BY DEF JournalInv, Reported, ReportedOnce
<1> QED BY <1>1, JournalInit, JournalKept, NextIsQueueStep, TypeCorrect, MutualExclusion, PTL DEF Spec

-----------------------------------------------------------------------------
(* The observers of LiveReport.                                             *)

\* Whoever waits keeps the mark, and what he waits for was not announced before.
WaitInv ==
    \A t \in Tasks : watch[t] = "waiting" => t \in live /\ ~Pushed(t)

\* A task has its status before its runner looks for the final event.
EndedInv ==
    \A t \in Tasks : stage[t] \in {"settling", "booking", "closed"} => outcome[t] # None

LiveInv == LiveTypeOK /\ OneAtATime /\ JournalInv /\ EndedInv /\ WaitInv

LEMMA EndedKept == TypeOK /\ OneAtATime /\ EndedInv /\ [QueueStep]_vars => EndedInv'
<1> SUFFICES ASSUME TypeOK, OneAtATime, EndedInv, [QueueStep]_vars, NEW t \in Tasks,
                    stage'[t] \in {"settling", "booking", "closed"}
             PROVE  outcome'[t] # None
    BY DEF EndedInv
<1>1. Onward(t)
      BY EveryStepOnward
<1>2. None \notin Results /\ None # "cancelled"
      BY ResultsAssumption, OutcomesAssumption DEF Outcomes
<1> QED BY <1>1, <1>2 DEF Onward, EndedInv

\* A step of LiveReport is one of the queue, or an observer that sets or takes
\* back its mark.
Marks ==
    /\ live' \in SUBSET Tasks
    /\ UNCHANGED <<queue, running, pumps, stage, home, outcome, cancelReq, failed,
                   disk, journal>>

LEMMA LiveStepIs == ASSUME TypeOK, [LiveNext]_liveVars PROVE [QueueStep]_vars \/ Marks
<1>1. CASE UNCHANGED liveVars
      BY <1>1 DEF liveVars
<1>2. CASE QueueCallers \/ Loop
  <2>1. QueueCallers => Asks
        BY DEF QueueCallers, Asks
  <2> QED BY <1>2, <2>1 DEF QueueStep
<1>3. CASE RestartAll
      BY <1>3 DEF RestartAll, QueueStep
<1>4. ASSUME NEW s \in Servers, NEW t \in Tasks, EnqueueObserved(s, t) PROVE Asks
      BY <1>4 DEF EnqueueObserved, Asks
<1>5. ASSUME NEW t \in Tasks, Replied(t) \/ ReplyRaises(t) \/ LookupFails(t) \/ Tells(t)
      PROVE  UNCHANGED vars
      BY <1>5 DEF Replied, ReplyRaises, LookupFails, Tells
<1>6. ASSUME NEW t \in Tasks, WatchBegins(t) \/ WatchWakes(t) PROVE Marks
  <2>1. UNCHANGED <<queue, running, pumps, stage, home, outcome, cancelReq, failed, disk, journal>>
        BY <1>6 DEF WatchBegins, WatchWakes
  <2>2. live' = live \ {t} \/ live' = live \cup {t}
        BY <1>6, Zenon DEF WatchBegins, WatchWakes
  <2> QED BY <2>1, <2>2 DEF Marks, TypeOK
<1> QED BY <1>1, <1>2, <1>3, <1>4, <1>5, <1>6 DEF LiveNext, QueueStep

LEMMA MarksKeep ==
    ASSUME TypeOK, OneAtATime, JournalInv, EndedInv, Marks
    PROVE  TypeOK' /\ OneAtATime' /\ JournalInv' /\ EndedInv'
<1>1. TypeOK'
      BY DEF Marks, TypeOK
<1>2. OneAtATime'
      BY DEF Marks, OneAtATime
<1>3. JournalInv'
      BY DEF Marks, JournalInv, Reported, Finals, DoneEvent
<1>4. EndedInv'
      BY DEF Marks, EndedInv
<1> QED BY <1>1, <1>2, <1>3, <1>4

\* What an observer does to watch.
LEMMA WatchType ==
    ASSUME LiveTypeOK, [LiveNext]_liveVars
    PROVE  watch' \in [Tasks -> WatchStates]
<1> USE DEF LiveTypeOK, WatchStates, Moves
<1>1. CASE UNCHANGED liveVars
      BY <1>1 DEF liveVars
<1>2. CASE RestartAll
      BY <1>2 DEF RestartAll
<1>3. ASSUME NEW s \in Servers, NEW t \in Tasks, EnqueueObserved(s, t)
      PROVE  watch' \in [Tasks -> WatchStates]
      BY <1>3 DEF EnqueueObserved
<1>4. ASSUME NEW t \in Tasks, Replied(t) \/ ReplyRaises(t) \/ LookupFails(t) \/ Tells(t) \/ WatchWakes(t)
      PROVE  watch' \in [Tasks -> WatchStates]
      BY <1>4 DEF Replied, ReplyRaises, LookupFails, Tells, WatchWakes
<1>5. ASSUME NEW t \in Tasks, WatchBegins(t) PROVE watch' \in [Tasks -> WatchStates]
  <2>1. \/ watch' = [watch EXCEPT ![t] = "reporting"]
        \/ watch' = [watch EXCEPT ![t] = "waiting"]
        BY <1>5, Zenon DEF WatchBegins
  <2> QED BY <2>1
<1> QED BY <1>1, <1>2, <1>3, <1>4, <1>5 DEF LiveNext

\* An event of a marked task is journalled without being pushed.
LEMMA EmitQuiet ==
    ASSUME TypeOK, NEW u \in Tasks, NEW t \in Tasks, NEW k \in Kinds, NEW obs,
           journal' = Emit(u, k, obs), ~Pushed(t), u = t => t \in obs \/ k = "queued"
    PROVE  ~Pushed(t)'
<1> DEFINE e == [kind |-> k, push |-> u \notin obs]
           n == Len(journal[t]) + 1
<1>1. e.kind = k /\ (e.push <=> u \notin obs) /\ e \in Entries
      BY DEF Entries
<1>2. journal' = [journal EXCEPT ![u] = Append(journal[u], e)]
      BY DEF Emit
<1> HIDE DEF e
<1>3. journal[t] \in Seq(Entries) /\ Len(journal[t]) \in Nat
      BY DEF TypeOK
<1>4. CASE u # t
  <2>1. journal'[t] = journal[t]
        BY <1>2, <1>4 DEF TypeOK
  <2> QED BY <2>1 DEF Pushed, Finals
<1>5. CASE u = t
  <2>1. /\ Len(journal'[t]) = n /\ journal'[t][n] = e
        /\ \A i \in 1..(n - 1) : journal'[t][i] = journal[t][i]
    <3>1. journal'[t] = Append(journal[t], e)
          BY <1>2, <1>5 DEF TypeOK
    <3> QED BY <1>1, <1>3, <3>1
  <2>2. SUFFICES ASSUME NEW i \in 1..n, journal'[t][i].kind # "queued", journal'[t][i].push
                 PROVE  FALSE
        BY <2>1 DEF Pushed, Finals
  <2>3. CASE i = n
        BY <1>1, <1>5, <2>1, <2>2, <2>3
  <2>4. CASE i \in 1..(n - 1)
        BY <1>3, <2>1, <2>2, <2>4 DEF Pushed, Finals
  <2> QED BY <1>3, <2>3, <2>4
<1> QED BY <1>4, <1>5

\* While a task carries the mark, no step of the queue pushes its end.
LEMMA MarkedIsQuiet ==
    ASSUME TypeOK, [QueueStep]_vars, NEW t \in Tasks, t \in live, ~Pushed(t)
    PROVE  ~Pushed(t)'
<1>1. ASSUME journal' = journal PROVE ~Pushed(t)'
      BY <1>1 DEF Pushed, Finals
<1>2. ASSUME NEW s \in Servers, NEW u \in Tasks, NEW o \in BOOLEAN, Enqueue(s, u, o)
      PROVE  ~Pushed(t)'
      BY <1>1, <1>2, EmitQuiet DEF Enqueue, Kinds
<1>3. ASSUME NEW s \in Servers, NEW i \in 1..Len(queue[s]), CancelQueued(s, i)
      PROVE  ~Pushed(t)'
  <2>1. queue[s][i] \in Tasks
        BY DEF TypeOK
  <2>2. journal' = Emit(queue[s][i], "cancelled", live)
        BY <1>3 DEF CancelQueued
  <2> QED BY <2>1, <2>2, EmitQuiet DEF Kinds
<1>4. ASSUME NEW u \in Tasks, RunnerRefuses(u) PROVE ~Pushed(t)'
      BY <1>4, EmitQuiet DEF RunnerRefuses, Kinds
<1>5. ASSUME NEW u \in Tasks, RunnerEnds(u) PROVE ~Pushed(t)'
      BY <1>5, FinalKindType, EmitQuiet DEF RunnerEnds, FinalEntry
<1>6. CASE UNCHANGED vars \/ Restart \/ ClearHistory
      BY <1>1, <1>6 DEF vars, Restart, ClearHistory
<1>7. ASSUME NEW s \in Servers, CancelRunning(s) \/ ClearQueue(s) \/ PumpLeaves(s) \/ PumpStarts(s) \/ PumpBooks(s)
      PROVE  ~Pushed(t)'
      BY <1>1, <1>7 DEF CancelRunning, RequestCancel, ClearQueue, PumpLeaves, PumpStarts, PumpBooks
<1>8. ASSUME NEW s \in Servers, NEW u \in Tasks, RetryLastFailed(s, u) PROVE ~Pushed(t)'
      BY <1>1, <1>8 DEF RetryLastFailed
<1>9. ASSUME NEW i \in 1..Len(disk), DeleteHistory(i) PROVE ~Pushed(t)'
      BY <1>1, <1>9 DEF DeleteHistory
<1>10. ASSUME NEW u \in Tasks, NEW o \in Results, RunnerBegins(u) \/ ExecutorReturns(u, o)
       PROVE  ~Pushed(t)'
       BY <1>1, <1>10 DEF RunnerBegins, ExecutorReturns
<1>11. ASSUME NEW u \in Tasks, RunnerBegins(u) PROVE ~Pushed(t)'
       BY <1>1, <1>11 DEF RunnerBegins
<1>12. Asks => ~Pushed(t)'
       BY <1>2, <1>3, <1>6, <1>7, <1>8, <1>9 DEF Asks
<1>13. Loop => ~Pushed(t)'
       BY <1>4, <1>5, <1>7, <1>10, <1>11 DEF Loop
<1> QED BY <1>6, <1>12, <1>13 DEF QueueStep

\* Only a restart takes marks away from tasks that nobody has begun to report.
LEMMA MarksStay == ASSUME Asks \/ Loop PROVE live \subseteq live'
<1>1. ASSUME NEW s \in Servers, NEW u \in Tasks, NEW o \in BOOLEAN, Enqueue(s, u, o)
      PROVE  live \subseteq live'
      BY <1>1 DEF Enqueue
<1>2. Asks => live \subseteq live'
      BY <1>1 DEF Asks, CancelQueued, CancelRunning, RequestCancel, RetryLastFailed, ClearQueue,
                  DeleteHistory, ClearHistory
<1>3. Loop => live \subseteq live'
      BY DEF Loop, PumpLeaves, PumpStarts, PumpBooks, RunnerBegins, RunnerRefuses, RunnerEnds, ExecutorReturns
<1> QED BY <1>2, <1>3

LEMMA WaitKept == ASSUME LiveInv, [LiveNext]_liveVars PROVE WaitInv'
<1> SUFFICES ASSUME NEW t \in Tasks, watch'[t] = "waiting" PROVE (t \in live)' /\ ~Pushed(t)'
    BY DEF WaitInv
<1>0. /\ TypeOK /\ watch \in [Tasks -> WatchStates] /\ JournalInv /\ EndedInv
      /\ watch[t] = "waiting" => t \in live /\ ~Pushed(t)
      BY DEF LiveInv, LiveTypeOK, WaitInv
<1>1. ASSUME journal' = journal, live' = live, watch[t] = "waiting" PROVE (t \in live)' /\ ~Pushed(t)'
      BY <1>0, <1>1 DEF Pushed, Finals
<1>2. CASE UNCHANGED liveVars
      BY <1>1, <1>2 DEF liveVars, vars
<1>3. ASSUME Asks \/ Loop, watch[t] = "waiting" PROVE (t \in live)' /\ ~Pushed(t)'
      BY <1>0, <1>3, MarksStay, MarkedIsQuiet DEF QueueStep
<1>4. CASE (QueueCallers \/ Loop) /\ UNCHANGED watch
  <2>1. QueueCallers => Asks
        BY DEF QueueCallers, Asks
  <2> QED BY <1>3, <1>4, <2>1
<1>5. CASE RestartAll
      BY <1>0, <1>5 DEF RestartAll
<1>6. ASSUME NEW s \in Servers, NEW u \in Tasks, EnqueueObserved(s, u)
      PROVE  (t \in live)' /\ ~Pushed(t)'
  <2>1. Asks
        BY <1>6 DEF EnqueueObserved, Asks
  <2>2. watch[t] = "waiting"
        BY <1>0, <1>6 DEF EnqueueObserved, Moves
  <2> QED BY <1>3, <2>1, <2>2
<1>7. ASSUME NEW u \in Tasks, Replied(u) \/ ReplyRaises(u) \/ LookupFails(u) \/ Tells(u)
      PROVE  (t \in live)' /\ ~Pushed(t)'
  <2>1. UNCHANGED vars /\ watch[t] = "waiting"
        BY <1>0, <1>7 DEF Replied, ReplyRaises, LookupFails, Tells, Moves
  <2> QED BY <1>1, <2>1 DEF vars
<1>8. ASSUME NEW u \in Tasks, WatchWakes(u) PROVE (t \in live)' /\ ~Pushed(t)'
  <2>1. watch[t] = "waiting" /\ t # u /\ journal' = journal /\ live' = live \ {u}
        BY <1>0, <1>8 DEF WatchWakes, Moves
  <2> QED BY <1>0, <2>1 DEF Pushed, Finals
<1>9. ASSUME NEW u \in Tasks, WatchBegins(u) PROVE (t \in live)' /\ ~Pushed(t)'
  <2>1. CASE IsDone(u)
    <3>1. watch[t] = "waiting" /\ t # u /\ journal' = journal /\ live' = live \ {u}
          BY <1>0, <1>9, <2>1 DEF WatchBegins
    <3> QED BY <1>0, <3>1 DEF Pushed, Finals
  <2>2. CASE ~IsDone(u)
    <3>1. watch' = [watch EXCEPT ![u] = "waiting"] /\ journal' = journal /\ live' = live \cup {u}
          BY <1>9, <2>2 DEF WatchBegins
    <3>2. CASE t # u
      <4>1. watch[t] = "waiting"
            BY <1>0, <3>1, <3>2
      <4> QED BY <1>0, <3>1, <4>1 DEF Pushed, Finals
    <3>3. CASE t = u
      <4>1. stage[t] \in Stages /\ stage[t] # "lost" /\ outcome[t] = None
            BY <1>0, <1>9, <2>2, <3>3 DEF WatchBegins, IsDone, TypeOK
      <4>2. stage[t] \in Early
            BY <1>0, <4>1 DEF Stages, Early, EndedInv
      <4>3. Finals(t) = {}
            BY <1>0, <4>2 DEF JournalInv
      <4> QED BY <3>1, <3>3, <4>3 DEF Pushed, Finals
    <3> QED BY <3>2, <3>3
  <2> QED BY <2>1, <2>2
<1> QED BY <1>2, <1>4, <1>5, <1>6, <1>7, <1>8, <1>9 DEF LiveNext

LEMMA LiveInvInit == LiveInit => LiveInv
<1> SUFFICES ASSUME LiveInit PROVE LiveInv
    OBVIOUS
<1>1. LiveTypeOK
      BY InitType DEF LiveInit, LiveTypeOK, WatchStates
<1>2. OneAtATime
      BY DEF LiveInit, Init, OneAtATime, ActiveStages
<1>3. WaitInv /\ EndedInv
      BY DEF LiveInit, Init, WaitInv, EndedInv
<1> QED BY <1>1, <1>2, <1>3, JournalInit DEF LiveInit, LiveInv

LEMMA LiveInvKept == LiveInv /\ [LiveNext]_liveVars => LiveInv'
<1> SUFFICES ASSUME LiveInv, [LiveNext]_liveVars PROVE LiveInv'
    OBVIOUS
<1>0. TypeOK /\ OneAtATime /\ JournalInv /\ EndedInv /\ LiveTypeOK
      BY DEF LiveInv, LiveTypeOK
<1>1. TypeOK' /\ OneAtATime' /\ JournalInv' /\ EndedInv'
      BY <1>0, LiveStepIs, MarksKeep, TypesKept, OneKept, JournalKept, EndedKept
<1> QED BY <1>0, <1>1, WatchType, WaitKept DEF LiveInv, LiveTypeOK

\* The observers too keep their types, whatever callers, queue and Telegram do.
THEOREM LiveTypes == LiveSpec => []LiveTypeOK
<1>1. LiveInv => LiveTypeOK
      BY DEF LiveInv
<1> QED BY <1>1, LiveInvInit, LiveInvKept, PTL DEF LiveSpec

\* Who waits for a task is woken after its final event, and that event was
\* journalled without being pushed to the users, since the waiter will show it
\* (runner's finally, and the mark that watch_task_background sets).
THEOREM WokenAfterTheEvent == LiveSpec => WakesAfterTheEvent
<1>1. ASSUME LiveInv, [LiveNext]_liveVars, NEW t \in Tasks, watch[t] = "waiting", watch'[t] = "reporting"
      PROVE  ~Pushed(t)' /\ (outcome[t] # "cancelled" => Quiet(t)')
  <2>0. watch \in [Tasks -> WatchStates]
        BY <1>1 DEF LiveInv, LiveTypeOK
  <2>1. WatchWakes(t)
    <3>1. ~(UNCHANGED liveVars) /\ ~(UNCHANGED watch) /\ ~RestartAll
          BY <1>1 DEF liveVars, RestartAll
    <3>2. \A s \in Servers, u \in Tasks : ~EnqueueObserved(s, u)
          BY <1>1, <2>0 DEF EnqueueObserved, Moves
    <3>3. \A u \in Tasks : ~Replied(u) /\ ~ReplyRaises(u) /\ ~LookupFails(u) /\ ~Tells(u)
          BY <1>1, <2>0 DEF Replied, ReplyRaises, LookupFails, Tells, Moves
    <3>4. \A u \in Tasks : ~WatchBegins(u)
          BY <1>1, <2>0 DEF WatchBegins
    <3>5. \A u \in Tasks : WatchWakes(u) => u = t
          BY <1>1, <2>0 DEF WatchWakes, Moves
    <3> QED BY <1>1, <3>1, <3>2, <3>3, <3>4, <3>5 DEF LiveNext
  <2>2. DoneEvent(t) /\ journal' = journal
        BY <2>1 DEF WatchWakes, MayWake
  <2>3. ~Pushed(t) /\ (outcome[t] # "cancelled" => Finals(t) # {})
        BY <1>1, <2>2 DEF LiveInv, WaitInv, JournalInv, Reported
  <2> QED BY <2>2, <2>3 DEF Pushed, Quiet, Finals
<1>2. LiveInv /\ [LiveNext]_liveVars =>
        [\A t \in Tasks :
           watch[t] = "waiting" /\ watch'[t] = "reporting" =>
               ~Pushed(t)' /\ (outcome[t] # "cancelled" => Quiet(t)')]_liveVars
      BY <1>1
<1> QED BY <1>2, LiveInvInit, LiveInvKept, PTL DEF LiveSpec, WakesAfterTheEvent

-----------------------------------------------------------------------------
(* The queue is a serial executor.                                          *)

Over == {t \in Tasks : stage[t] \in {"closed", "lost"}}

\* A task that is new is not known to the executor.
LEMMA NewIsUnknown ==
    ASSUME TypeOK, OneAtATime, NEW t \in Tasks, stage[t] = "new"
    PROVE  ~Executor!Known(t)
<1>1. t \notin Over
      BY DEF Over
<1>2. t \notin Executor!Waiting
  <2> SUFFICES ASSUME NEW s \in Servers, t \in Executor!Range(queue[s]) PROVE FALSE
      BY DEF Executor!Waiting
  <2>1. PICK i \in 1..Len(queue[s]) : queue[s][i] = t
        BY DEF Executor!Range, TypeOK
  <2> QED BY <2>1 DEF OneAtATime
<1>3. \A s \in Servers : running[s] # t
      BY NoneAssumption DEF OneAtATime, ActiveStages
<1> QED BY <1>1, <1>2, <1>3 DEF Executor!Known, Over

\* Whatever leaves what is over, the lines and the busy tasks alone is a stutter.
LEMMA Stutters ==
    ASSUME queue' = queue, running' = running,
           \A t \in Tasks : stage'[t] \in {"closed", "lost"} <=> stage[t] \in {"closed", "lost"}
    PROVE  UNCHANGED Executor!vars
BY DEF Executor!vars

LEMMA Accepts ==
    ASSUME TypeOK, OneAtATime, NEW s \in Servers, NEW t \in Tasks, Fresh(t),
           queue' \in {[queue EXCEPT ![s] = Append(@, t)], [queue EXCEPT ![s] = <<t>> \o @]},
           stage' = [stage EXCEPT ![t] = "queued"], running' = running
    PROVE  Executor!Accept(s)
<1>1. ~Executor!Known(t)
      BY NewIsUnknown DEF Fresh
<1>2. Over' = Over
      BY DEF Over, Fresh, TypeOK
<1> QED BY <1>1, <1>2 DEF Executor!Accept, Over

LEMMA Withdraws ==
    ASSUME TypeOK, OneAtATime, NEW s \in Servers, NEW i \in 1..Len(queue[s]), CancelQueued(s, i)
    PROVE  Executor!Withdraw(s)
<1>1. queue' = [queue EXCEPT ![s] = RemoveAt(@, i)] /\ running' = running
      BY DEF CancelQueued
<1>2. queue[s][i] \in Tasks /\ stage' = [stage EXCEPT ![queue[s][i]] = "closed"]
      BY DEF CancelQueued, TypeOK
<1>3. Over' = Over \cup {queue[s][i]}
      BY <1>2 DEF Over, TypeOK
<1>4. queue' = [queue EXCEPT ![s] = Executor!RemoveAt(@, i)]
      BY <1>1 DEF RemoveAt, Executor!RemoveAt
<1> QED BY <1>1, <1>3, <1>4 DEF Executor!Withdraw, Over

LEMMA WithdrawsAll ==
    ASSUME TypeOK, NEW s \in Servers, ClearQueue(s)
    PROVE  Executor!WithdrawAll(s)
<1> DEFINE out == {queue[s][i] : i \in 1..Len(queue[s])}
<1>1. /\ queue' = [queue EXCEPT ![s] = <<>>] /\ running' = running
      /\ stage' = [t \in Tasks |-> IF t \in out THEN "closed" ELSE stage[t]]
      BY DEF ClearQueue
<1>2. queue[s] \in Seq(Tasks) /\ out \subseteq Tasks
      BY DEF TypeOK
<1>3. Executor!Range(queue[s]) = out
      BY <1>2 DEF Executor!Range
<1> HIDE DEF out
<1>4. Over' = Over \cup out
      BY <1>1, <1>2 DEF Over
<1> QED BY <1>1, <1>3, <1>4 DEF Executor!WithdrawAll, Over

LEMMA Begins ==
    ASSUME TypeOK, OneAtATime, NEW s \in Servers, PumpStarts(s)
    PROVE  Executor!Begin(s)
<1>1. Head(queue[s]) \in Tasks /\ stage[Head(queue[s])] = "queued"
      BY TailPositions DEF PumpStarts, MayStart, TypeOK, OneAtATime
<1>2. Over' = Over
      BY <1>1 DEF PumpStarts, Over, TypeOK
<1> QED BY <1>2 DEF PumpStarts, MayStart, Executor!Begin, Over

LEMMA Finishes ==
    ASSUME TypeOK, NEW s \in Servers, PumpBooks(s)
    PROVE  Executor!Finish(s)
<1>1. running[s] \in Tasks /\ running[s] # None
      BY DEF PumpBooks, TypeOK
<1>2. Over' = Over \cup {running[s]}
      BY <1>1 DEF PumpBooks, Over, TypeOK
<1> QED BY <1>1, <1>2 DEF PumpBooks, Executor!Finish, Over

LEMMA Stops ==
    ASSUME TypeOK, OneAtATime, Restart
    PROVE  Executor!Stop
<1> DEFINE busyTasks == {running[s] : s \in {u \in Servers : running[u] # None}}
<1>1. \A t \in Tasks : stage[t] = "queued" <=> t \in Executor!Waiting
  <2> TAKE t \in Tasks
  <2>1. ASSUME stage[t] = "queued" PROVE t \in Executor!Waiting
    <3>1. PICK i \in 1..Len(queue[home[t]]) : home[t] \in Servers /\ queue[home[t]][i] = t
          BY <2>1 DEF OneAtATime
    <3> QED BY <3>1 DEF Executor!Waiting, Executor!Range, TypeOK
  <2>2. ASSUME t \in Executor!Waiting PROVE stage[t] = "queued"
    <3>1. PICK s \in Servers : t \in Executor!Range(queue[s])
          BY <2>2 DEF Executor!Waiting
    <3>2. PICK i \in 1..Len(queue[s]) : queue[s][i] = t
          BY <3>1 DEF Executor!Range, TypeOK
    <3> QED BY <3>2 DEF OneAtATime
  <2> QED BY <2>1, <2>2
<1>2. \A t \in Tasks : stage[t] \in ActiveStages <=> t \in busyTasks
      BY NoneAssumption DEF OneAtATime, TypeOK
<1>3. Executor!Waiting \subseteq Tasks
  <2> SUFFICES ASSUME NEW s \in Servers PROVE Executor!Range(queue[s]) \subseteq Tasks
      BY DEF Executor!Waiting
  <2> QED BY DEF Executor!Range, TypeOK
<1>4. busyTasks \subseteq Tasks
      BY DEF TypeOK
<1> HIDE DEF busyTasks
<1>5. \A t \in Tasks : stage'[t] = IF stage[t] \in ActiveStages \cup {"queued"}
                                   THEN "lost" ELSE stage[t]
      BY DEF Restart
<1>6. Over' = Over \cup Executor!Waiting \cup busyTasks
      BY <1>1, <1>2, <1>3, <1>4, <1>5 DEF Over
<1> QED BY <1>6 DEF Restart, Executor!Stop, Over, busyTasks

LEMMA CallersServe ==
    TypeOK /\ OneAtATime /\ Callers => [Executor!Next]_(Executor!vars)
<1> SUFFICES ASSUME TypeOK, OneAtATime, Callers
             PROVE  Executor!Next \/ UNCHANGED Executor!vars
    OBVIOUS
<1>1. ASSUME NEW s \in Servers, NEW t \in Tasks, NEW o \in Observed, Enqueue(s, t, o)
      PROVE  Executor!Accept(s)
      BY <1>1, Accepts DEF Enqueue
<1>2. ASSUME NEW s \in Servers, NEW t \in Tasks, RetryLastFailed(s, t)
      PROVE  Executor!Accept(s)
      BY <1>2, Accepts DEF RetryLastFailed
<1>3. ASSUME NEW s \in Servers, CancelRunning(s) PROVE UNCHANGED Executor!vars
      BY <1>3, Stutters DEF CancelRunning, RequestCancel
<1>4. ASSUME NEW i \in 1..Len(disk), DeleteHistory(i) PROVE UNCHANGED Executor!vars
      BY <1>4, Stutters DEF DeleteHistory
<1>5. ASSUME ClearHistory PROVE UNCHANGED Executor!vars
      BY <1>5, Stutters DEF ClearHistory
<1> QED BY <1>1, <1>2, <1>3, <1>4, <1>5, Withdraws, WithdrawsAll DEF Callers, Executor!Next

LEMMA LoopServes ==
    TypeOK /\ OneAtATime /\ Loop => [Executor!Next]_(Executor!vars)
<1> SUFFICES ASSUME TypeOK, OneAtATime, Loop
             PROVE  Executor!Next \/ UNCHANGED Executor!vars
    OBVIOUS
<1>1. ASSUME NEW s \in Servers, PumpLeaves(s) PROVE UNCHANGED Executor!vars
      BY <1>1, Stutters DEF PumpLeaves
<1>2. ASSUME NEW t \in Tasks, RunnerBegins(t) PROVE UNCHANGED Executor!vars
      BY <1>2, Stutters DEF RunnerBegins, TypeOK
<1>3. ASSUME NEW t \in Tasks, RunnerRefuses(t) PROVE UNCHANGED Executor!vars
      BY <1>3, Stutters DEF RunnerRefuses, TypeOK
<1>4. ASSUME NEW t \in Tasks, RunnerEnds(t) PROVE UNCHANGED Executor!vars
      BY <1>4, Stutters DEF RunnerEnds, TypeOK
<1>5. ASSUME NEW t \in Tasks, NEW o \in Results, ExecutorReturns(t, o)
      PROVE  UNCHANGED Executor!vars
      BY <1>5, Stutters DEF ExecutorReturns, TypeOK
<1> QED BY <1>1, <1>2, <1>3, <1>4, <1>5, Begins, Finishes DEF Loop, Executor!Next

\* The coroutines of the queue implement the serial executor step by step: a task
\* is accepted once, begun from the head of its server's line when the server is
\* idle, and ends once.  (That the next one is always begun is fairness: a run.)
THEOREM Serializes == Spec => Executor!Init /\ [][Executor!Next]_(Executor!vars)
<1>1. Init => Executor!Init
      BY DEF Init, Executor!Init
<1>2. TypeOK /\ OneAtATime /\ [Next]_vars => [Executor!Next]_(Executor!vars)
  <2> SUFFICES ASSUME TypeOK, OneAtATime, [Next]_vars
               PROVE  Executor!Next \/ UNCHANGED Executor!vars
      OBVIOUS
  <2>1. CASE UNCHANGED vars
        BY <2>1, Stutters DEF vars
  <2>2. CASE Restart
        BY <2>2, Stops DEF Executor!Next
  <2> QED BY <2>1, <2>2, CallersServe, LoopServes DEF Next
<1> QED BY <1>1, <1>2, TypeCorrect, MutualExclusion, PTL DEF Spec

=============================================================================
