------------------------- MODULE AvailabilityProofs -------------------------
(***************************************************************************)
(* What is proved of Availability for any set of probers and any bounds     *)
(* (types, the exclusion of the probes, and that each change is found once) *)
(* and of Delivery.                                                         *)
(***************************************************************************)
EXTENDS Availability, Delivery, SequenceTheorems, TLAPS

-----------------------------------------------------------------------------
(* RemoveAt, which the library states no theorem about.                     *)

\* Taking an element out: the type stays, what follows moves up by one.
LEMMA RemoveAtPositions ==
    ASSUME NEW S, NEW q \in Seq(S), NEW i \in 1..Len(q)
    PROVE  /\ RemoveAt(q, i) \in Seq(S)
           /\ Len(RemoveAt(q, i)) = Len(q) - 1
           /\ \A j \in 1..(Len(q) - 1) :
                 RemoveAt(q, i)[j] = IF j < i THEN q[j] ELSE q[j + 1]
<1> DEFINE a == SubSeq(q, 1, i - 1)
           b == SubSeq(q, i + 1, Len(q))
<1>1. /\ a \in Seq(S) /\ Len(a) = i - 1
      /\ \A j \in 1..(i - 1) : a[j] = q[j]
      OBVIOUS
<1>2. /\ b \in Seq(S) /\ Len(b) = Len(q) - i
      /\ \A j \in 1..(Len(q) - i) : b[j] = q[i + j]
      OBVIOUS
<1>3. RemoveAt(q, i) = a \o b
      BY DEF RemoveAt
<1> HIDE DEF a, b
<1>4. Len(q) \in Nat /\ Len(a) + Len(b) = Len(q) - 1
      BY <1>1, <1>2
<1>5. /\ a \o b \in Seq(S) /\ Len(a \o b) = Len(q) - 1
      /\ \A j \in 1..(Len(q) - 1) : (a \o b)[j] = IF j <= Len(a) THEN a[j] ELSE b[j - Len(a)]
  <2>1. /\ a \o b \in Seq(S) /\ Len(a \o b) = Len(a) + Len(b)
        /\ \A j \in 1..(Len(a) + Len(b)) :
              (a \o b)[j] = IF j <= Len(a) THEN a[j] ELSE b[j - Len(a)]
        BY <1>1, <1>2, ConcatProperties
  <2> QED BY <1>4, <2>1
<1>6. ASSUME NEW j \in 1..(Len(q) - 1)
      PROVE  (a \o b)[j] = IF j < i THEN q[j] ELSE q[j + 1]
  <2>1. CASE j < i
        BY <1>1, <1>5, <2>1
  <2>2. CASE j >= i
    <3>1. PICK k \in 1..(Len(q) - i) : k = j - (i - 1)
          BY <1>4, <2>2
    <3>2. i + k = j + 1 /\ j - Len(a) = k /\ ~(j <= Len(a))
          BY <1>1, <2>2, <3>1
    <3>3. (a \o b)[j] = b[k]
          BY <1>5, <3>2
    <3>4. b[k] = q[i + k]
          BY <1>2
    <3>5. ~(j < i)
          BY <1>4, <2>2
    <3>6. q[i + k] = q[j + 1]
          BY <3>2
    <3>7. (a \o b)[j] = q[j + 1]
          BY <3>3, <3>4, <3>6
    <3> QED BY <3>5, <3>7
  <2> QED BY <1>4, <2>1, <2>2
<1> QED BY <1>3, <1>5, <1>6

-----------------------------------------------------------------------------
(* The probes.                                                             *)

Writing(p) == probe[p].pc \in {"judged", "saving"}

\* Whoever judges or writes holds the lock.
LockInv == \A p \in Probers : Writing(p) => lock = p

\* What a writer found is no longer in the file; what it did not find is.
WriterInv ==
    \A p \in Probers : Writing(p) =>
        /\ probe[p].sees \in States
        /\ probe[p].found \in {None, probe[p].sees}
        /\ probe[p].found # None => file \in States /\ file # probe[p].found
        /\ probe[p].found = None => file \in {"unknown", probe[p].sees}

\* state.db is ahead of the file by what a writer is about to write.
RecordInv ==
    /\ recorded # None => file \in States
    /\ upsets = 0 =>
          /\ recorded \in {None, file} \/ \E p \in Probers : Writing(p) /\ probe[p].found = recorded
          /\ \A p \in Probers : Writing(p) /\ probe[p].found # None => recorded = probe[p].found

Measured == \A p \in Probers : At(p, "measured") => probe[p].sees \in States

MonitorInv == MonitoringOK /\ upsets \in Nat /\ Measured /\ LockInv /\ WriterInv /\ RecordInv

LEMMA InitMonitor == Init => MonitorInv
<1> SUFFICES ASSUME Init PROVE MonitorInv
    OBVIOUS
<1>1. MonitoringOK /\ upsets \in Nat /\ Measured
      BY DEF Init, MonitoringOK, Idle, Places, Measured, At, States
<1>2. LockInv /\ WriterInv /\ RecordInv
      BY DEF Init, Idle, LockInv, WriterInv, RecordInv, Writing
<1> QED BY <1>1, <1>2 DEF MonitorInv

\* A probe that leaves the lock alone, or gives it back, writes no more.
LEMMA LeavesMonitor ==
    ASSUME MonitorInv, NEW p \in Probers, NEW rec \in [pc : Places, sees : States \cup {None},
                              found : States \cup {None}, owes : States \cup {None}],
           probe' = [probe EXCEPT ![p] = rec], rec.pc \notin {"judged", "saving"},
           rec.pc = "measured" => rec.sees \in States,
           Writing(p) => lock' = None,
           ~Writing(p) => lock' = lock,
           torn' \in BOOLEAN,
           UNCHANGED <<link, file, recorded>>, upsets' \in {upsets, upsets + 1},
           Writing(p) => probe[p].found = None \/ upsets' > 0
    PROVE  MonitorInv'
<1>1. MonitoringOK' /\ upsets' \in Nat /\ Measured'
      BY DEF MonitorInv, MonitoringOK, Measured, At
<1>2. ASSUME NEW q \in Probers PROVE Writing(q)' <=> Writing(q) /\ q # p
      BY DEF MonitorInv, MonitoringOK, Writing
<1>3. ASSUME NEW q \in Probers, q # p PROVE probe'[q] = probe[q]
      BY <1>3 DEF MonitorInv, MonitoringOK
<1>4. LockInv'
      BY <1>2 DEF MonitorInv, LockInv
<1>5. WriterInv'
      BY <1>2, <1>3 DEF MonitorInv, WriterInv
<1>6. RecordInv'
  <2>1. recorded # None => file \in States
        BY DEF RecordInv, MonitorInv
  <2>2. ASSUME upsets' = 0, recorded \notin {None, file}
        PROVE  \E q \in Probers : Writing(q)' /\ probe'[q].found = recorded
    <3>1. PICK q \in Probers : Writing(q) /\ probe[q].found = recorded
          BY <2>2 DEF RecordInv, MonitorInv
    <3>2. q # p
          BY <3>1, <2>2
    <3> QED BY <1>2, <1>3, <3>1, <3>2
  <2>3. ASSUME upsets' = 0, NEW q \in Probers, Writing(q)', probe'[q].found # None
        PROVE  recorded = probe'[q].found
        BY <1>2, <1>3, <2>3 DEF RecordInv, MonitorInv
  <2> QED BY <2>1, <2>2, <2>3 DEF RecordInv
<1> QED BY <1>1, <1>4, <1>5, <1>6 DEF MonitorInv

\* What a prober keeps when its measurement is over.
LEMMA RestType ==
    ASSUME MonitoringOK, NEW p \in Probers
    PROVE  /\ Rest(p) \in [pc : Places, sees : States \cup {None},
                            found : States \cup {None}, owes : States \cup {None}]
           /\ Rest(p).pc \in {"idle", "announcing"}
BY DEF MonitoringOK, Rest, Idle, Places

LEMMA ProbeMonitor ==
    ASSUME MonitorInv, NEW p \in Probers, Probes(p) \/ Measure(p)
    PROVE  MonitorInv'
<1> USE DEF At
<1>1. CASE Measure(p)
  <2>1. link \in States
        BY DEF MonitorInv, MonitoringOK
  <2> DEFINE rec == [probe[p] EXCEPT !.pc = "measured", !.sees = link]
  <2>2. /\ rec \in [pc : Places, sees : States \cup {None}, found : States \cup {None}, owes : States \cup {None}]
        /\ rec.pc = "measured" /\ rec.sees \in States
        BY <2>1 DEF MonitorInv, MonitoringOK, Places
  <2>3. probe' = [probe EXCEPT ![p] = rec]
        BY <1>1 DEF Measure, MonitorInv, MonitoringOK
  <2>4. ~Writing(p) /\ UNCHANGED <<link, file, torn, lock, recorded, upsets>>
        BY <1>1 DEF Measure, Writing, bounds
  <2>5. torn' \in BOOLEAN
        BY <2>4 DEF MonitorInv, MonitoringOK
  <2> HIDE DEF rec
  <2> QED BY <2>2, <2>3, <2>4, <2>5, LeavesMonitor
<1>2. CASE ProbeFails(p)
  <2>1. ~Writing(p) /\ UNCHANGED <<link, file, torn, lock, recorded, upsets>>
        BY <1>2 DEF ProbeFails, Writing, bounds
  <2>2. torn' \in BOOLEAN /\ MonitoringOK
        BY <2>1 DEF MonitorInv, MonitoringOK
  <2> QED BY <1>2, <2>1, <2>2, RestType, LeavesMonitor DEF ProbeFails
<1>3. CASE Skip(p)
  <2>1. Writing(p) /\ lock' = None /\ UNCHANGED <<link, file, torn, recorded, upsets>>
        BY <1>3 DEF Skip, Writing, bounds
  <2>2. probe[p].found = None
        BY <1>3, <2>1 DEF MonitorInv, WriterInv, Skip
  <2>3. torn' \in BOOLEAN /\ MonitoringOK
        BY <2>1 DEF MonitorInv, MonitoringOK
  <2> QED BY <1>3, <2>1, <2>2, <2>3, RestType, LeavesMonitor DEF Skip
<1>4. CASE SaveFails(p)
  <2>1. Writing(p) /\ lock' = None /\ upsets' = upsets + 1 /\ upsets' > 0
        /\ UNCHANGED <<link, file, torn, recorded>>
        BY <1>4 DEF SaveFails, Writing, MonitorInv
  <2>2. torn' \in BOOLEAN /\ MonitoringOK
        BY <2>1 DEF MonitorInv, MonitoringOK
  <2> QED BY <1>4, <2>1, <2>2, RestType, LeavesMonitor DEF SaveFails
<1>5. CASE Announce(p)
  <2>1. ~Writing(p) /\ UNCHANGED <<link, file, torn, lock, recorded, upsets>>
        BY <1>5 DEF Announce, Writing, bounds
  <2>2. torn' \in BOOLEAN
        BY <2>1 DEF MonitorInv, MonitoringOK
  <2>3. /\ Idle \in [pc : Places, sees : States \cup {None}, found : States \cup {None}, owes : States \cup {None}]
        /\ Idle.pc = "idle"
        BY DEF Idle, Places
  <2> QED BY <1>5, <2>1, <2>2, <2>3, LeavesMonitor DEF Announce
<1>6. CASE Judge(p)
  <2>1. /\ lock = None /\ lock' = p /\ UNCHANGED <<link, file, torn, upsets>>
        /\ probe' = [probe EXCEPT ![p].pc = "judged", ![p].found = Found(p)]
        /\ recorded' = IF Found(p) = None THEN recorded ELSE Found(p)
        /\ probe[p].sees \in States
        BY <1>6 DEF Judge, LockFree, bounds, MonitorInv, Measured
  <2>2. \A q \in Probers : ~Writing(q)
        BY <2>1, NoneAssumption DEF MonitorInv, LockInv
  <2>3. /\ Found(p) \in {None, probe[p].sees}
        /\ Found(p) # None => file \in States /\ file # Found(p)
        /\ Found(p) = None => file \in {"unknown", probe[p].sees}
        BY <2>1, NoneAssumption DEF Found, MonitorInv, MonitoringOK
  <2>4. MonitoringOK' /\ upsets' \in Nat /\ Measured'
        BY <2>1, <2>3 DEF MonitorInv, MonitoringOK, Places, Measured
  <2>5. /\ Writing(p)' /\ probe'[p].found = Found(p) /\ probe'[p].sees = probe[p].sees
        /\ \A q \in Probers \ {p} : ~Writing(q)'
        BY <2>1, <2>2 DEF Writing, MonitorInv, MonitoringOK
  <2>6. LockInv' /\ WriterInv'
        BY <2>1, <2>3, <2>5 DEF LockInv, WriterInv
  <2>7. RecordInv'
    <3>1. recorded # None => file \in States
          BY DEF MonitorInv, RecordInv
    <3>2. upsets = 0 => recorded \in {None, file}
          BY <2>2 DEF MonitorInv, RecordInv
    <3> QED BY <2>1, <2>3, <2>5, <3>1, <3>2 DEF RecordInv
  <2> QED BY <2>4, <2>6, <2>7 DEF MonitorInv
<1>7. CASE Truncate(p)
  <2>1. /\ UNCHANGED <<link, file, lock, recorded, upsets>> /\ torn' = TRUE
        /\ probe' = [probe EXCEPT ![p].pc = "saving"] /\ Writing(p)
        BY <1>7 DEF Truncate, Writing
  <2>2. \A q \in Probers : /\ Writing(q)' <=> Writing(q)
                           /\ probe'[q].found = probe[q].found /\ probe'[q].sees = probe[q].sees
        BY <2>1 DEF Writing, MonitorInv, MonitoringOK
  <2>3. MonitoringOK' /\ upsets' \in Nat /\ Measured'
        BY <2>1 DEF MonitorInv, MonitoringOK, Places, Measured
  <2> QED BY <2>1, <2>2, <2>3 DEF MonitorInv, LockInv, WriterInv, RecordInv
<1>8. CASE Saved(p)
  <2>1. /\ Writing(p) /\ file' = probe[p].sees /\ lock' = None /\ torn' = FALSE
        /\ UNCHANGED <<link, recorded, upsets>>
        BY <1>8 DEF Saved, Writing, bounds
  <2>2. PICK rec : /\ probe' = [probe EXCEPT ![p] = rec]
                   /\ rec \in [pc : Places, sees : States \cup {None},
                               found : States \cup {None}, owes : States \cup {None}]
                   /\ rec.pc \in {"idle", "anchor", "announcing"}
    <3>1. MonitoringOK
          BY DEF MonitorInv
    <3>2. CASE probe[p].found = None \/ Dropped(p)
          BY <1>8, <3>1, <3>2, RestType DEF Saved
    <3>3. CASE ~(probe[p].found = None \/ Dropped(p))
      <4> DEFINE rec == [Idle EXCEPT !.pc = IF probe[p].found = "online" THEN "anchor" ELSE "announcing",
                                     !.owes = probe[p].found]
      <4>1. probe' = [probe EXCEPT ![p] = rec]
            BY <1>8, <3>3 DEF Saved
      <4>2. /\ rec \in [pc : Places, sees : States \cup {None},
                         found : States \cup {None}, owes : States \cup {None}]
            /\ rec.pc \in {"idle", "anchor", "announcing"}
            BY <3>1 DEF Idle, Places, MonitoringOK
      <4> QED BY <4>1, <4>2
    <3> QED BY <3>2, <3>3
  <2>3. \A q \in Probers : ~Writing(q)'
    <3> SUFFICES ASSUME NEW q \in Probers, Writing(q)' PROVE FALSE
        OBVIOUS
    <3>1. q # p
          BY <2>2 DEF Writing, MonitorInv, MonitoringOK
    <3>2. Writing(q)
          BY <2>2, <3>1 DEF Writing, MonitorInv, MonitoringOK
    <3> QED BY <2>1, <3>1, <3>2 DEF MonitorInv, LockInv
  <2>4. probe[p].sees \in States /\ probe[p].found \in {None, probe[p].sees}
        /\ (probe[p].found = None => file \in {"unknown", probe[p].sees})
        BY <2>1 DEF MonitorInv, WriterInv
  <2>5. MonitoringOK' /\ upsets' \in Nat /\ Measured'
        BY <2>1, <2>2, <2>4 DEF MonitorInv, MonitoringOK, Places, Measured
  <2>6. upsets = 0 => recorded \in {None, probe[p].sees}
    <3> SUFFICES ASSUME upsets = 0, recorded # None PROVE recorded = probe[p].sees
        OBVIOUS
    <3>1. file \in States
          BY DEF MonitorInv, RecordInv
    <3>2. CASE recorded = file
      <4>1. CASE probe[p].found = None
            BY <2>4, <3>1, <3>2, <4>1 DEF States
      <4>2. CASE probe[p].found # None
            BY <2>1, <2>4, <4>2 DEF MonitorInv, RecordInv
      <4> QED BY <4>1, <4>2
    <3>3. CASE \E q \in Probers : Writing(q) /\ probe[q].found = recorded
      <4>1. PICK q \in Probers : Writing(q) /\ probe[q].found = recorded
            BY <3>3
      <4>2. q = p
            BY <2>1, <4>1 DEF MonitorInv, LockInv
      <4> QED BY <2>4, <4>1, <4>2
    <3> QED BY <3>2, <3>3 DEF MonitorInv, RecordInv
  <2> QED BY <2>1, <2>3, <2>4, <2>5, <2>6 DEF MonitorInv, LockInv, WriterInv, RecordInv
<1> QED BY <1>1, <1>2, <1>3, <1>4, <1>5, <1>6, <1>7, <1>8 DEF Probes

LEMMA StepMonitor ==
    ASSUME MonitorInv, [Next]_vars
    PROVE  MonitorInv'
<1>1. ASSUME UNCHANGED <<monitoring, upsets>>, link' \in States
      PROVE  MonitorInv'
      BY <1>1 DEF monitoring, MonitorInv, MonitoringOK, Measured, At, LockInv, WriterInv, RecordInv, Writing
<1>2. CASE UNCHANGED vars
      BY <1>1, <1>2 DEF vars, bounds, MonitorInv, MonitoringOK
<1>3. CASE Flip
      BY <1>1, <1>3 DEF Flip
<1>4. CASE Restart
  <2>1. MonitoringOK' /\ upsets' \in Nat /\ upsets' # 0 /\ Measured'
        BY <1>4 DEF Restart, MonitorInv, MonitoringOK, Idle, Places, Measured, At
  <2>2. \A p \in Probers : ~Writing(p)'
        BY <1>4 DEF Restart, Idle, Writing
  <2>3. recorded' # None => file' \in States
        BY <1>4 DEF Restart, MonitorInv, RecordInv
  <2> QED BY <2>1, <2>2, <2>3 DEF MonitorInv, LockInv, WriterInv, RecordInv
<1>5. ASSUME NEW p \in Probers, Probes(p) \/ Measure(p)
      PROVE  MonitorInv'
      BY <1>5, ProbeMonitor
<1>6. CASE DrainTakes
      BY <1>1, <1>6 DEF DrainTakes, bounds, MonitorInv, MonitoringOK
<1>7. ASSUME NEW i \in 1 .. Len(queue), Tells(i)
      PROVE  MonitorInv'
      BY <1>1, <1>7 DEF Tells, FlushResolves, Ages, DrainResolves, DrainDelivers, DrainFails,
                        bounds, MonitorInv, MonitoringOK
<1> QED BY <1>2, <1>3, <1>4, <1>5, <1>6, <1>7 DEF Next

THEOREM MonitorHolds == Spec => []MonitorInv
<1>1. MonitorInv /\ [Next]_vars => MonitorInv'
      BY StepMonitor
<1> QED BY InitMonitor, <1>1, PTL DEF Spec

\* For any number of jobs, pages and requests that probe one server at once,
\* update_server_availability finds each change once: no two transitions of
\* state.db in a row say the same, unless the panel died or the disk failed.
THEOREM EachChangeFoundOnce == Spec => FoundOnce
<1>1. ASSUME MonitorInv, [Next]_vars, NEW p \in Probers,
             At(p, "measured"), probe'[p].pc = "judged", probe'[p].found # None
      PROVE  recorded # probe'[p].found \/ upsets > 0
  <2>1. ASSUME NEW q \in Probers, Judge(q) PROVE q = p
        BY <1>1, <2>1 DEF Judge, At, MonitorInv, MonitoringOK
  <2>2. Judge(p)
    <3>1. ASSUME NEW q \in Probers, Measure(q) \/ ProbeFails(q) \/ Skip(q) \/ Truncate(q)
                                     \/ Saved(q) \/ SaveFails(q) \/ Announce(q)
          PROVE  FALSE
      <4>1. MonitoringOK
            BY <1>1 DEF MonitorInv
      <4>2. probe[p].pc = "measured"
            BY <1>1 DEF At
      <4>3. CASE Measure(q) \/ Truncate(q)
            BY <1>1, <4>1, <4>2, <4>3 DEF Measure, Truncate, MonitoringOK, At
      <4>4. CASE ProbeFails(q) \/ Skip(q) \/ SaveFails(q)
            BY <1>1, <4>1, <4>2, <4>4, RestType DEF ProbeFails, Skip, SaveFails, MonitoringOK, At
      <4>5. CASE Announce(q)
            BY <1>1, <4>1, <4>2, <4>5 DEF Announce, Idle, MonitoringOK, At
      <4>6. CASE Saved(q)
        <5>1. q # p
              BY <4>2, <4>6 DEF Saved, At
        <5>2. probe'[p] = probe[p]
              BY <4>1, <4>6, <5>1 DEF Saved, MonitoringOK
        <5> QED BY <1>1, <4>2, <5>2
      <4> QED BY <3>1, <4>3, <4>4, <4>5, <4>6
    <3>2. probe' # probe
          BY <1>1 DEF At
    <3>3. ~Restart
          BY <1>1 DEF Restart, Idle
    <3>4. ~Flip /\ ~DrainTakes /\ ~UNCHANGED vars
          BY <3>2 DEF Flip, DrainTakes, vars, monitoring
    <3>5. ASSUME NEW i \in 1 .. Len(queue), Tells(i) PROVE FALSE
          BY <3>2, <3>5 DEF Tells, FlushResolves, Ages, DrainResolves, DrainDelivers, DrainFails, monitoring
    <3>6. PICK q \in Probers : Probes(q) \/ Measure(q)
          BY <1>1, <3>3, <3>4, <3>5 DEF Next
    <3> QED BY <2>1, <3>1, <3>6 DEF Probes
  <2>3. lock = None /\ Found(p) # None /\ probe'[p].found = Found(p)
        BY <1>1, <2>2 DEF Judge, LockFree, MonitorInv, MonitoringOK
  <2>4. \A q \in Probers : ~Writing(q)
        BY <1>1, <2>3, NoneAssumption DEF MonitorInv, LockInv
  <2>5. upsets = 0 => recorded \in {None, file}
        BY <1>1, <2>4 DEF MonitorInv, RecordInv
  <2>6. Found(p) # file
        BY <2>3 DEF Found
  <2> QED BY <1>1, <2>3, <2>5, <2>6 DEF MonitorInv
<1>2. MonitorInv /\ [Next]_vars =>
         [\A p \in Probers :
            At(p, "measured") /\ probe'[p].pc = "judged" /\ probe'[p].found # None
                => recorded # probe'[p].found \/ upsets > 0]_vars
      BY <1>1
<1> QED BY MonitorHolds, <1>2, PTL DEF Spec, FoundOnce

-----------------------------------------------------------------------------
(* What is told.                                                           *)

\* What is announced was measured.
KnownInv ==
    /\ queue # <<>> => file \in States
    /\ \A p \in Probers : probe[p].owes # None => file \in States
    /\ \A p \in Probers : At(p, "announcing") => probe[p].owes # None

Inv == MonitorInv /\ TellingOK /\ KnownInv

LEMMA InitTelling == Init => Inv
<1> SUFFICES ASSUME Init PROVE Inv
    OBVIOUS
<1>1. queue \in Seq(Rows) /\ Len(queue) = 0
      BY DEF Init
<1>2. TellingOK
  <2>1. /\ sending \in States \cup {None} /\ reported \in States
        /\ heard \in States /\ excused \in BOOLEAN
        BY DEF Init, States
  <2>2. flips \in 0 .. MaxFlips /\ upsets \in 0 .. MaxUpsets /\ touches \in 0 .. MaxTouches
        BY BoundsAssumption DEF Init
  <2> QED BY <1>1, <2>1, <2>2 DEF TellingOK
<1>3. KnownInv
      BY DEF Init, KnownInv, Idle, At
<1> QED BY InitMonitor, <1>2, <1>3 DEF Inv

\* At most one row is being sent, and then there is a message.
OneSent(rows, message) ==
    \A i, k \in 1 .. Len(rows) :
        rows[i].at = "sending" => message # None /\ (rows[k].at = "sending" => k = i)

LEMMA FreedRows ==
    ASSUME NEW rows \in Seq(Rows)
    PROVE  Freed(rows) \in Seq(Rows) /\ \A message : OneSent(Freed(rows), message)
<1>1. ASSUME NEW i \in 1 .. Len(rows)
      PROVE  [rows[i] EXCEPT !.at = "free"] \in Rows /\ [rows[i] EXCEPT !.at = "free"].at = "free"
  <2>1. rows[i] \in Rows
        OBVIOUS
  <2> QED BY <2>1 DEF Rows
<1>2. Freed(rows) \in Seq(Rows) /\ Len(Freed(rows)) = Len(rows)
      BY <1>1 DEF Freed
<1>3. \A i \in 1 .. Len(rows) : Freed(rows)[i].at = "free"
      BY <1>1 DEF Freed
<1> QED BY <1>2, <1>3 DEF OneSent

LEMMA TakenRows ==
    ASSUME NEW message, NEW rows \in Seq(Rows), NEW i \in 1 .. Len(rows), OneSent(rows, message)
    PROVE  RemoveAt(rows, i) \in Seq(Rows) /\ OneSent(RemoveAt(rows, i), message)
<1>1. /\ RemoveAt(rows, i) \in Seq(Rows) /\ Len(RemoveAt(rows, i)) = Len(rows) - 1
      /\ \A j \in 1 .. (Len(rows) - 1) :
            RemoveAt(rows, i)[j] = IF j < i THEN rows[j] ELSE rows[j + 1]
      BY RemoveAtPositions
<1> HIDE DEF RemoveAt
<1>2. Len(rows) \in Nat
      OBVIOUS
<1>3. ASSUME NEW j \in 1 .. (Len(rows) - 1), NEW k \in 1 .. (Len(rows) - 1),
             RemoveAt(rows, i)[j].at = "sending"
      PROVE  message # None /\ (RemoveAt(rows, i)[k].at = "sending" => k = j)
  <2> DEFINE J == IF j < i THEN j ELSE j + 1
             K == IF k < i THEN k ELSE k + 1
  <2>1. J \in 1 .. Len(rows) /\ K \in 1 .. Len(rows) /\ (J = K => j = k)
        BY <1>2
  <2>2. RemoveAt(rows, i)[j] = rows[J] /\ RemoveAt(rows, i)[k] = rows[K]
        BY <1>1
  <2> HIDE DEF J, K
  <2> QED BY <1>3, <2>1, <2>2 DEF OneSent
<1> QED BY <1>1, <1>3 DEF OneSent

\* A row that changes its place, or grows old.
LEMMA PutRow ==
    ASSUME NEW rows \in Seq(Rows), NEW i \in 1 .. Len(rows), NEW one \in Rows, NEW next,
           next = [rows EXCEPT ![i] = one]
    PROVE  /\ next \in Seq(Rows) /\ Len(next) = Len(rows)
           /\ \A k \in 1 .. Len(rows) : next[k] = IF k = i THEN one ELSE rows[k]
OBVIOUS

LEMMA TellingStep ==
    ASSUME Inv, [Next]_vars
    PROVE  TellingOK' /\ KnownInv'
<1> DEFINE Same == UNCHANGED <<queue, sending, reported, heard>>
<1>0. /\ queue \in Seq(Rows) /\ OneSent(queue, sending) /\ MonitoringOK
      /\ sending \in States \cup {None} /\ reported \in States /\ heard \in States
      /\ excused \in BOOLEAN
      /\ flips \in 0 .. MaxFlips /\ upsets \in 0 .. MaxUpsets /\ touches \in 0 .. MaxTouches
      /\ {MaxFlips, MaxUpsets, MaxTouches} \subseteq Nat
      BY BoundsAssumption DEF Inv, MonitorInv, TellingOK, OneSent
<1>b. excused' \in BOOLEAN /\ flips' \in 0 .. MaxFlips /\ upsets' \in 0 .. MaxUpsets
      /\ touches' \in 0 .. MaxTouches
  <2>1. CASE UNCHANGED vars
        BY <1>0, <2>1 DEF vars, bounds
  <2>2. CASE Flip
        BY <1>0, <2>2 DEF Flip
  <2>3. CASE Restart
        BY <1>0, <2>3 DEF Restart, Excusing
  <2>4. ASSUME NEW p \in Probers, Measure(p) \/ ProbeFails(p) \/ Judge(p) \/ Skip(p) \/ Announce(p)
        PROVE  UNCHANGED <<excused, flips, upsets, touches>>
        BY <2>4 DEF Measure, ProbeFails, Judge, Skip, Announce, bounds
  <2>5. ASSUME NEW p \in Probers, Truncate(p) \/ SaveFails(p)
        PROVE  /\ excused' = excused /\ flips' = flips
               /\ upsets' \in 0 .. MaxUpsets /\ touches' \in 0 .. MaxTouches
        BY <1>0, <2>5 DEF Truncate, SaveFails
  <2>6. ASSUME NEW p \in Probers, Saved(p)
        PROVE  excused' \in BOOLEAN /\ UNCHANGED <<flips, upsets, touches>>
        BY <2>6 DEF Saved, bounds, Excusing
  <2>7. CASE DrainTakes
        BY <1>0, <2>7 DEF DrainTakes, bounds
  <2>8. ASSUME NEW i \in 1 .. Len(queue), Tells(i)
        PROVE  excused' \in BOOLEAN /\ UNCHANGED <<flips, upsets, touches>>
        BY <1>0, <2>8 DEF Tells, FlushResolves, Ages, DrainResolves, DrainDelivers, DrainFails, bounds, Excusing
  <2> QED BY <1>0, <2>1, <2>2, <2>3, <2>4, <2>5, <2>6, <2>7, <2>8 DEF Next, Probes
<1>q. SUFFICES /\ queue' \in Seq(Rows) /\ OneSent(queue', sending') /\ sending' \in States \cup {None}
               /\ reported' \in States /\ heard' \in States /\ KnownInv'
      BY <1>b DEF TellingOK, OneSent
<1>k. ASSUME UNCHANGED <<file, probe>>, queue' # <<>> => queue # <<>>
      PROVE  KnownInv'
      BY <1>k DEF Inv, KnownInv, At
<1>1. CASE UNCHANGED vars \/ Flip
      BY <1>0, <1>1, <1>k DEF vars, Flip, monitoring, telling, OneSent
<1>2. CASE Restart
  <2>1. Freed(queue) \in Seq(Rows) /\ OneSent(Freed(queue), None)
        BY <1>0, FreedRows
  <2>2. ASSUME NEW i \in 1 .. Len(queue)
        PROVE  Freed(RemoveAt(queue, i)) \in Seq(Rows) /\ OneSent(Freed(RemoveAt(queue, i)), None)
    <3>1. RemoveAt(queue, i) \in Seq(Rows)
          BY <1>0, TakenRows
    <3> QED BY <3>1, FreedRows
  <2>3. sending' = None /\ reported' = reported
        BY <1>2 DEF Restart
  <2>4. CASE queue' = Freed(queue) /\ heard' \in {heard} \cup ({sending} \ {None})
    <3>1. queue' # <<>> => queue # <<>>
          BY <1>0, <2>4 DEF Freed
    <3>2. KnownInv'
          BY <1>2, <3>1 DEF Restart, Inv, KnownInv, At, Idle
    <3> QED BY <1>0, <2>1, <2>3, <2>4, <3>2
  <2>5. ASSUME NEW i \in 1 .. Len(queue), queue[i].at = "sending",
               queue' = Freed(RemoveAt(queue, i)), heard' = sending
        PROVE  /\ queue' \in Seq(Rows) /\ OneSent(queue', sending') /\ heard' \in States /\ KnownInv'
    <3>1. queue # <<>>
          BY <2>5, <1>0
    <3>2. KnownInv'
          BY <1>2, <3>1 DEF Restart, Inv, KnownInv, At, Idle
    <3>3. heard' \in States
          BY <1>0, <2>5 DEF OneSent
    <3> QED BY <2>2, <2>3, <2>5, <3>2, <3>3
  <2> QED BY <1>0, <1>2, <2>3, <2>4, <2>5 DEF Restart
<1>3. ASSUME NEW p \in Probers, Probes(p) \/ Measure(p), ~Announce(p)
      PROVE  UNCHANGED telling /\ KnownInv'
  <2>1. UNCHANGED telling
        BY <1>3 DEF Probes, Measure, ProbeFails, Judge, Skip, Truncate, Saved, SaveFails
  <2>2. CASE Measure(p) \/ ProbeFails(p) \/ Judge(p) \/ Skip(p) \/ Truncate(p) \/ SaveFails(p)
    <3>1. file' = file
          BY <2>2 DEF Measure, ProbeFails, Judge, Skip, Truncate, SaveFails
    <3>2. /\ probe'[p].owes # None => probe[p].owes # None
          /\ probe'[p].pc = "announcing" => probe'[p].owes # None
          /\ \A q \in Probers \ {p} : probe'[q] = probe[q]
          BY <1>0, <2>2 DEF Measure, ProbeFails, Judge, Skip, Truncate, SaveFails, MonitoringOK, Rest, Anchoring, Idle
    <3> QED BY <2>1, <3>1, <3>2 DEF Inv, KnownInv, At, telling
  <2>3. CASE Saved(p)
    <3>1. file' \in States
          BY <2>3 DEF Saved, Inv, MonitorInv, WriterInv, Writing, At
    <3>2. /\ probe'[p].pc = "announcing" => probe'[p].owes # None
          /\ \A q \in Probers \ {p} : probe'[q] = probe[q]
          BY <1>0, <2>3 DEF Saved, Dropped, MonitoringOK, Rest, Anchoring, Idle
    <3> QED BY <2>1, <3>1, <3>2 DEF Inv, KnownInv, At
  <2> QED BY <1>3, <2>1, <2>2, <2>3 DEF Probes
<1>4. ASSUME NEW p \in Probers, Announce(p)
      PROVE  /\ queue' \in Seq(Rows) /\ OneSent(queue', sending') /\ KnownInv'
             /\ UNCHANGED <<sending, reported, heard>>
  <2>1. probe[p].owes \in States /\ file \in States
    <3>1. probe[p].owes # None /\ file \in States
      <4>1. At(p, "announcing")
            BY <1>4 DEF Announce
      <4>2. KnownInv
            BY DEF Inv
      <4> QED BY <4>1, <4>2 DEF KnownInv
    <3> QED BY <1>0, <3>1 DEF MonitoringOK
  <2>2. Row(probe[p].owes) \in Rows /\ Row(probe[p].owes).at = "free"
        BY <2>1 DEF Row, Rows
  <2>3. /\ queue' = Append(queue, Row(probe[p].owes)) /\ UNCHANGED <<file, sending, reported, heard>>
        /\ probe' = [probe EXCEPT ![p] = Idle]
        BY <1>4 DEF Announce
  <2>4. /\ queue' \in Seq(Rows) /\ Len(queue') = Len(queue) + 1
        /\ \A i \in 1 .. Len(queue) : queue'[i] = queue[i]
        /\ queue'[Len(queue) + 1] = Row(probe[p].owes)
        BY <1>0, <2>2, <2>3
  <2>5. OneSent(queue', sending')
        BY <1>0, <2>2, <2>3, <2>4 DEF OneSent
  <2>6. KnownInv'
        BY <1>0, <2>1, <2>3 DEF Inv, KnownInv, At, Idle, MonitoringOK
  <2> QED BY <2>3, <2>4, <2>5, <2>6
<1>5. CASE DrainTakes
  <2>1. /\ queue' = [i \in 1 .. Len(queue) |->
                      IF queue[i].at = "free" THEN [queue[i] EXCEPT !.at = "drain"] ELSE queue[i]]
        /\ UNCHANGED <<file, probe, sending, reported, heard>> /\ queue # <<>>
        BY <1>0, <1>5 DEF DrainTakes, monitoring
  <2>2. ASSUME NEW i \in 1 .. Len(queue)
        PROVE  queue'[i] \in Rows /\ (queue'[i].at = "sending" => queue[i].at = "sending")
    <3>1. queue[i] \in Rows
          BY <1>0
    <3> QED BY <2>1, <3>1 DEF Rows
  <2>3. queue' \in Seq(Rows) /\ Len(queue') = Len(queue)
        BY <1>0, <2>1, <2>2
  <2>4. OneSent(queue', sending')
        BY <1>0, <2>1, <2>2, <2>3 DEF OneSent
  <2> QED BY <1>0, <1>k, <2>1, <2>3, <2>4
<1>6. ASSUME NEW i \in 1 .. Len(queue), Tells(i)
      PROVE  /\ queue' \in Seq(Rows) /\ OneSent(queue', sending') /\ sending' \in States \cup {None}
             /\ reported' \in States /\ heard' \in States /\ KnownInv'
  <2>0. queue[i] \in Rows /\ queue # <<>>
        BY <1>0
  <2>1. UNCHANGED <<file, probe>>
        BY <1>6 DEF Tells, FlushResolves, Ages, DrainResolves, DrainDelivers, DrainFails, monitoring
  <2>2. KnownInv' /\ file \in States
        BY <1>k, <2>0, <2>1 DEF Inv, KnownInv
  <2>3. Text(queue[i]) \in States
        BY <2>0, <2>2 DEF Text, Rows
  <2>4. RemoveAt(queue, i) \in Seq(Rows) /\ OneSent(RemoveAt(queue, i), sending)
        BY <1>0, TakenRows
  <2>5. ASSUME NEW at \in {"free", "drain", "sending"}
        PROVE  /\ Put(i, at) \in Seq(Rows) /\ Len(Put(i, at)) = Len(queue)
               /\ Put(i, at)[i].at = at
               /\ \A k \in 1 .. Len(queue) \ {i} : Put(i, at)[k] = queue[k]
    <3> DEFINE one == [queue[i] EXCEPT !.at = at]
    <3>1. one \in Rows /\ one.at = at
          BY <2>0 DEF Rows
    <3>2. Put(i, at) = [queue EXCEPT ![i] = one]
          BY <1>0 DEF Put
    <3> HIDE DEF one
    <3> QED BY <1>0, <3>1, <3>2, PutRow
  <2>6. CASE FlushResolves(i)
        BY <1>0, <2>2, <2>3, <2>4, <2>6 DEF FlushResolves
  <2>7. CASE Ages(i)
    <3> DEFINE one == [queue[i] EXCEPT !.aged = TRUE]
    <3>1. one \in Rows /\ one.at = queue[i].at /\ queue' = [queue EXCEPT ![i] = one]
          /\ UNCHANGED <<sending, reported, heard>>
          BY <1>0, <2>0, <2>7 DEF Ages, Rows
    <3> HIDE DEF one
    <3>3. /\ queue' \in Seq(Rows) /\ Len(queue') = Len(queue)
          /\ \A k \in 1 .. Len(queue) : queue'[k] = IF k = i THEN one ELSE queue[k]
          BY <1>0, <3>1, PutRow
    <3>4. OneSent(queue', sending)
          BY <1>0, <3>1, <3>3 DEF OneSent
    <3> QED BY <1>0, <2>2, <3>1, <3>3, <3>4
  <2>8. CASE DrainResolves(i)
    <3>1. sending = None /\ UNCHANGED <<reported, heard>>
          BY <2>8 DEF DrainResolves
    <3>2. CASE queue' = RemoveAt(queue, i) /\ UNCHANGED sending
          BY <1>0, <2>2, <2>4, <3>1, <3>2
    <3>3. CASE queue' = Put(i, "free") /\ UNCHANGED sending
      <4>1. queue' \in Seq(Rows) /\ OneSent(queue', sending)
            BY <1>0, <2>5, <3>3 DEF OneSent
      <4> QED BY <1>0, <2>2, <3>1, <3>3, <4>1
    <3>4. CASE queue' = Put(i, "sending") /\ sending' = Text(queue[i])
      <4>1. sending' # None
            BY <2>3, <3>4, NoneAssumption
      <4>2. \A k \in 1 .. Len(queue) : queue[k].at # "sending"
            BY <1>0, <3>1 DEF OneSent
      <4>3. queue' \in Seq(Rows) /\ OneSent(queue', sending')
            BY <1>0, <2>5, <3>4, <4>1, <4>2 DEF OneSent
      <4> QED BY <1>0, <2>2, <2>3, <3>1, <3>4, <4>3
    <3> QED BY <2>8, <3>2, <3>3, <3>4 DEF DrainResolves
  <2>9. CASE DrainDelivers(i) \/ DrainFails(i)
    <3>1. queue[i].at = "sending" /\ sending' = None /\ sending \in States
          BY <1>0, <2>9 DEF DrainDelivers, DrainFails, OneSent
    <3>2. CASE DrainFails(i)
      <4>1. queue' = Put(i, "free") /\ UNCHANGED <<reported, heard>>
            BY <3>2 DEF DrainFails
      <4>2. queue' \in Seq(Rows) /\ OneSent(queue', None)
            BY <1>0, <2>5, <3>1, <4>1 DEF OneSent
      <4> QED BY <1>0, <2>2, <3>1, <4>1, <4>2
    <3>3. CASE DrainDelivers(i)
      <4>1. queue' = RemoveAt(queue, i) /\ reported' = sending /\ heard' = sending
            BY <3>3 DEF DrainDelivers
      <4>2. \A k \in 1 .. Len(queue) \ {i} : queue[k].at # "sending"
            BY <1>0, <3>1 DEF OneSent
      <4>3. OneSent(RemoveAt(queue, i), None)
        <5>1. /\ Len(RemoveAt(queue, i)) = Len(queue) - 1 /\ Len(queue) \in Nat
              /\ \A j \in 1 .. (Len(queue) - 1) :
                    RemoveAt(queue, i)[j] = IF j < i THEN queue[j] ELSE queue[j + 1]
              BY <1>0, RemoveAtPositions
        <5> HIDE DEF RemoveAt
        <5>2. \A j \in 1 .. (Len(queue) - 1) : RemoveAt(queue, i)[j].at # "sending"
              BY <4>2, <5>1
        <5> QED BY <5>1, <5>2 DEF OneSent
      <4> QED BY <2>2, <2>4, <3>1, <4>1, <4>3
    <3> QED BY <2>9, <3>2, <3>3
  <2> QED BY <1>6, <2>6, <2>7, <2>8, <2>9 DEF Tells
<1>7. ASSUME NEW p \in Probers, Probes(p) \/ Measure(p), ~Announce(p)
      PROVE  /\ queue' \in Seq(Rows) /\ OneSent(queue', sending') /\ sending' \in States \cup {None}
             /\ reported' \in States /\ heard' \in States /\ KnownInv'
      BY <1>0, <1>3, <1>7 DEF telling, OneSent
<1> QED BY <1>0, <1>1, <1>2, <1>4, <1>5, <1>6, <1>7 DEF Next

\* Every variable keeps its type, for any probers and bounds: whatever is on its
\* way to the users is a state that was measured, and one message at a time is.
THEOREM TypeCorrect == Spec => []TypeOK
<1>1. Inv /\ [Next]_vars => Inv'
      BY StepMonitor, TellingStep DEF Inv
<1>2. Inv => TypeOK
      BY DEF Inv, MonitorInv, TypeOK
<1> QED BY InitTelling, <1>1, <1>2, PTL DEF Spec

-----------------------------------------------------------------------------
(* Delivery, for any set of events and any bound on the stops: types, one   *)
(* attempt at a time, and nothing forgotten.  Its variables are none of     *)
(* Availability's.  The inductive invariant is DrainInv and PushInv:        *)

\* The flush: what it or the buffer holds was dispatched and its lease runs.
PushInv ==
    /\ buffer \cup batch \subseteq dispatched
    /\ (buffer \cup batch) \cap lapsed = {}
    /\ flush = "idle" => batch = {}

\* The drain: it takes posted events only, and loses a claim only on an event
\* the notifier has already seen.
DrainInv ==
    /\ taken \subseteq posted
    /\ taken \cap lapsed \subseteq dispatched

\* There is no row before its event.
RowInv == \A e \in Events : row[e] # "absent" => e \in posted

QueueInv ==
    /\ DeliveryTypeOK /\ PushInv /\ DrainInv /\ RowInv
    /\ OneAttempt /\ NothingForgotten

LEMMA QueueInit == DeliveryInit => QueueInv
<1> SUFFICES ASSUME DeliveryInit PROVE QueueInv
    OBVIOUS
<1>1. DeliveryTypeOK
  <2>1. stops \in 0..MaxStops
        BY UpsetsAssumption DEF DeliveryInit
  <2>2. row \in [Events -> RowStates]
        BY DEF DeliveryInit, RowStates
  <2>3. bot \in BOOLEAN /\ webOpen \in BOOLEAN /\ muted \in BOOLEAN /\ purging \in BOOLEAN
        BY DEF DeliveryInit
  <2>4. drain = "idle" <=> taken = {}
        BY DEF DeliveryInit
  <2> QED BY <2>1, <2>2, <2>3, <2>4 DEF DeliveryInit, DeliveryTypeOK
<1>2. PushInv /\ DrainInv /\ RowInv
      BY DEF DeliveryInit, PushInv, DrainInv, RowInv
<1>3. OneAttempt /\ NothingForgotten
      BY DEF DeliveryInit, OneAttempt, NothingForgotten
<1> QED BY <1>1, <1>2, <1>3 DEF QueueInv

-----------------------------------------------------------------------------
(* What becomes of the entries of one delivery.                             *)

\* A delivery sends unread entries only, and does not send what it defers.
LEMMA SplitEntries ==
    ASSUME NEW S
    PROVE  /\ Sending(S) \subseteq S /\ Deferred(S) \subseteq S
           /\ Sending(S) \cap Deferred(S) = {}
BY DEF Sending, Deferred, Unread

\* An entry that is neither sent nor deferred was read, or is gone from the journal,
\* or its channel is off.
LEMMA SilentIsSettled ==
    ASSUME NEW S, NEW e \in Silenced(S), ~muted
    PROVE  e \in read \/ e \notin journal
<1>1. CASE Cardinality(Unread(S)) = 1
      BY <1>1 DEF Silenced, Sending, Deferred, Unread, Verdict
<1>2. CASE Cardinality(Unread(S)) # 1
      BY <1>2 DEF Silenced, Sending, Deferred, Unread
<1> QED BY <1>1, <1>2

-----------------------------------------------------------------------------
(* Every step keeps the invariant: one lemma for each part of the system.   *)

LEMMA EventSteps ==
    ASSUME QueueInv, NEW e \in Events,
           Post(e) \/ Dispatch(e) \/ Lapse(e) \/ Read(e) \/ WindowPasses(e)
    PROVE  QueueInv'
<1> USE DEF QueueInv, DeliveryTypeOK, RowStates, PushInv, DrainInv, RowInv, OneAttempt, NothingForgotten
<1>1. CASE Post(e)
      BY <1>1 DEF Post, pushing, draining
<1>2. CASE Dispatch(e)
  <2> USE <1>2 DEF Dispatch, Claimable, PendingRows, claims, draining
  <2>1. DeliveryTypeOK'
        OBVIOUS
  <2>2. PushInv' /\ DrainInv' /\ RowInv'
        OBVIOUS
  <2>3. OneAttempt'
        OBVIOUS
  <2>4. NothingForgotten'
        OBVIOUS
  <2> QED BY <2>1, <2>2, <2>3, <2>4
<1>3. CASE Lapse(e)
      BY <1>3 DEF Lapse, pushing, draining, world
<1>4. CASE Read(e)
      BY <1>4 DEF Read, claims, pushing, draining
<1>5. CASE WindowPasses(e)
      BY <1>5 DEF WindowPasses, claims, pushing, draining
<1> QED BY <1>1, <1>2, <1>3, <1>4, <1>5

LEMMA FlushSteps ==
    ASSUME QueueInv, FlushBegins \/ FlushSettles \/ FlushCancelled
    PROVE  QueueInv'
<1> USE DEF QueueInv, DeliveryTypeOK, RowStates, PushInv, DrainInv, RowInv, OneAttempt, NothingForgotten
<1>1. CASE FlushBegins
      BY <1>1 DEF FlushBegins, claims, draining, world
<1>2. CASE FlushSettles
  <2>1. /\ Sending(batch) \subseteq batch /\ Deferred(batch) \subseteq batch
        /\ Sending(batch) \cap Deferred(batch) = {}
        BY SplitEntries
  <2>2. \A e \in Silenced(batch) : muted \/ e \in read \/ e \notin journal
        BY SilentIsSettled
  <2>3. Silenced(batch) = batch \ (Sending(batch) \cup Deferred(batch))
        BY DEF Silenced
  <2>4. DeliveryTypeOK'
        BY <1>2, <2>1, <2>3 DEF FlushSettles, Owned, draining, world
  <2>5. PushInv' /\ DrainInv' /\ RowInv'
        BY <1>2, <2>1 DEF FlushSettles, Owned, draining, world
  <2>6. OneAttempt'
        BY <1>2, <2>1 DEF FlushSettles, Owned, draining, world
  <2>7. NothingForgotten'
        BY <1>2, <2>1, <2>2, <2>3 DEF FlushSettles, Owned, draining, world
  <2> QED BY <2>4, <2>5, <2>6, <2>7
<1>3. CASE FlushCancelled
      BY <1>3 DEF FlushCancelled, Release, SetRows, Owned, RowsReleased,
                  claims, draining, world
<1> QED BY <1>1, <1>2, <1>3

LEMMA DrainSteps ==
    ASSUME QueueInv, DrainPurges \/ DrainBegins \/ DrainSends \/ DrainGivesUp
    PROVE  QueueInv'
<1> USE DEF QueueInv, DeliveryTypeOK, RowStates, PushInv, DrainInv, RowInv, OneAttempt, NothingForgotten
<1>1. CASE DrainPurges
      BY <1>1 DEF DrainPurges, PurgeRows, pushing, draining, world
<1>2. CASE DrainBegins
  <2> DEFINE S == Claimable
  <2>1. /\ Sending(S) \subseteq S /\ Deferred(S) \subseteq S
        /\ Sending(S) \cap Deferred(S) = {}
        BY SplitEntries
  <2>2. \A e \in S : e \in Sending(S) \cup Deferred(S) \cup read \/ e \notin journal
        BY <1>2, SilentIsSettled DEF DrainBegins, Silenced
  <2>3. S = {e \in Events : row[e] = "free" \/ e \in lapsed}
        BY DEF Claimable, PendingRows
  <2>4. /\ taken = {} /\ taken' = Sending(S)
        /\ drain' = IF Sending(S) = {} THEN "idle" ELSE "sending"
        /\ row' = [e \in Events |->
                     IF e \in Sending(S) THEN "drain" ELSE IF e \in Deferred(S) THEN "free"
                     ELSE IF e \in S THEN "absent" ELSE row[e]]
        /\ lapsed' = lapsed \ S
        /\ UNCHANGED <<pushing, world, told, closed, stops>>
        BY <1>2 DEF DrainBegins
  <2> HIDE DEF S
  <2>5. DeliveryTypeOK' /\ RowInv'
        BY <2>1, <2>3, <2>4 DEF pushing, world
  <2>6. PushInv' /\ DrainInv'
        BY <2>1, <2>3, <2>4 DEF pushing, world
  <2>7. OneAttempt'
        BY <2>1, <2>3, <2>4 DEF pushing, world
  <2>8. NothingForgotten'
        BY <2>1, <2>2, <2>3, <2>4 DEF pushing, world
  <2> QED BY <2>5, <2>6, <2>7, <2>8
<1>3. CASE DrainSends
      BY <1>3 DEF DrainSends, Complete, SetRows, Owned, pushing
<1>4. CASE DrainGivesUp
      BY <1>4 DEF DrainGivesUp, Release, SetRows, Owned, RowsReleased, pushing, world
<1> QED BY <1>1, <1>2, <1>3, <1>4

LEMMA QueueUpsets ==
    ASSUME QueueInv, BotStops \/ BotStarts \/ PanelRestarts
    PROVE  QueueInv'
<1> USE UpsetsAssumption
    DEF QueueInv, DeliveryTypeOK, RowStates, PushInv, DrainInv, RowInv, OneAttempt, NothingForgotten
<1>1. CASE BotStops
  <2> USE <1>1 DEF BotStops, Release, SetRows, Owned, RowsReleased, claims, pushing
  <2>1. PICK sent \in {{}, taken} : told' = told \cup sent
        OBVIOUS
  <2>2. DeliveryTypeOK'
    <3>1. stops' \in 0..MaxStops
          OBVIOUS
    <3>2. row' \in [Events -> RowStates] /\ lapsed' \subseteq {e \in Events : row'[e] \in {"push", "drain"}}
          OBVIOUS
    <3>3. told' \subseteq posted'
          BY <2>1
    <3> QED BY <3>1, <3>2, <3>3
  <2>3. PushInv' /\ DrainInv' /\ RowInv'
        OBVIOUS
  <2>4. OneAttempt'
        OBVIOUS
  <2>5. NothingForgotten'
        BY <2>1
  <2> QED BY <2>2, <2>3, <2>4, <2>5
<1>2. CASE BotStarts
      BY <1>2 DEF BotStarts, claims, pushing, draining
<1>3. CASE PanelRestarts
  <2>1. PICK sent \in SUBSET ({taken} \cup IF flush = "sending" THEN {batch} ELSE {}) :
            told' = told \cup UNION sent
        BY <1>3 DEF PanelRestarts
  <2>2. UNION sent \subseteq taken \cup batch
        BY <2>1
  <2> HIDE DEF QueueInv
  <2>3. DeliveryTypeOK'
    <3>1. stops' \in 0..MaxStops
          BY <1>3 DEF PanelRestarts, QueueInv
    <3>2. told' \subseteq posted'
          BY <1>3, <2>1, <2>2 DEF PanelRestarts, QueueInv
    <3> QED BY <1>3, <3>1, <3>2 DEF PanelRestarts, claims, QueueInv
  <2>4. PushInv' /\ DrainInv' /\ RowInv' /\ OneAttempt' /\ NothingForgotten'
        BY <1>3, <2>1, <2>2 DEF PanelRestarts, claims, QueueInv
  <2> QED BY <2>3, <2>4 DEF QueueInv
<1> QED BY <1>1, <1>2, <1>3

LEMMA UserSteps ==
    ASSUME QueueInv, LeaveJournal \/ ToggleWeb \/ Mute \/ MutePurges \/ Unmute
    PROVE  QueueInv'
<1> USE UpsetsAssumption
    DEF QueueInv, DeliveryTypeOK, RowStates, PushInv, DrainInv, RowInv, OneAttempt, NothingForgotten
<1>1. CASE ToggleWeb
      BY <1>1 DEF ToggleWeb, claims, pushing, draining
<1>2. CASE Mute
      BY <1>2 DEF Mute, claims, pushing, draining
<1>3. CASE MutePurges
      BY <1>3 DEF MutePurges, PurgeRows, pushing, draining
<1>4. CASE Unmute
      BY <1>4 DEF Unmute, claims, pushing, draining
<1>5. CASE LeaveJournal
      BY <1>5 DEF LeaveJournal, claims, pushing, draining
<1> QED BY <1>1, <1>2, <1>3, <1>4, <1>5

LEMMA QueueNext == QueueInv /\ [DeliveryNext]_(deliveryVars) => QueueInv'
<1> SUFFICES ASSUME QueueInv, [DeliveryNext]_(deliveryVars) PROVE QueueInv'
    OBVIOUS
<1>1. CASE UNCHANGED deliveryVars
      BY <1>1 DEF deliveryVars, claims, pushing, draining, world, QueueInv, DeliveryTypeOK, PushInv, DrainInv,
                  RowInv, OneAttempt, NothingForgotten
<1>2. CASE DeliveryNext
      BY <1>2, EventSteps, FlushSteps, DrainSteps, QueueUpsets, UserSteps DEF DeliveryNext
<1> QED BY <1>1, <1>2

LEMMA QueueInvariance == DeliverySpec => []QueueInv
<1> QED BY QueueInit, QueueNext, PTL DEF DeliverySpec

-----------------------------------------------------------------------------
\* Every variable of the queue and of both delivery paths keeps its type.
THEOREM QueueTypes == DeliverySpec => []DeliveryTypeOK
<1>1. QueueInv => DeliveryTypeOK
      BY DEF QueueInv
<1> QED BY <1>1, QueueInvariance, PTL

\* One event is never in two delivery attempts: the claims keep the flush and
\* the drain apart through lost buffer entries, lapsed leases and restarts.
THEOREM NeverTwoAttempts == DeliverySpec => []OneAttempt
<1>1. QueueInv => OneAttempt
      BY DEF QueueInv
<1> QED BY <1>1, QueueInvariance, PTL

\* No event leaves the queue unless it was delivered, read or closed by policy, or
\* is no longer in the journal.
THEOREM NeverForgotten == DeliverySpec => []NothingForgotten
<1>1. QueueInv => NothingForgotten
      BY DEF QueueInv
<1> QED BY <1>1, QueueInvariance, PTL

=============================================================================
