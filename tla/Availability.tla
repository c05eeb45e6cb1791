---------------------------- MODULE Availability ----------------------------
(***************************************************************************)
(* How a change of one server's reachability gets to the Telegram users:    *)
(* the probes of core/monitor.py that measure it and fold it into           *)
(* monitor.json, the events they post, and the rules by which               *)
(* ui/telegram/notifications.py resolves an online/offline row against the  *)
(* file and against what was reported last.                                 *)
(*                                                                          *)
(* Claims and the buffer are Delivery's subject: here a row is free (it may *)
(* be resolved by the flush while it is young) or with the drain.  A probe  *)
(* goes                                                                     *)
(*                                                                          *)
(*   idle -> measured -> judged -> saving -> [anchor -> measured ...] ->    *)
(*   announcing -> idle                                                     *)
(*                                                                          *)
(* holding _MONITOR_LOCK in judged and saving.  The servers of a panel      *)
(* share nothing of this but the lock and the file.                         *)
(***************************************************************************)
EXTENDS Naturals, Sequences, SequencesExt

CONSTANTS
    Probers,    \* the jobs, pages and requests that probe the server
    OnLoop,     \* those whose probe blocks the event loop
    Silent,     \* those that drop the event they are handed
    MaxFlips,   \* bound: changes of the server's reachability
    MaxRows,    \* bound: rows that wait when another probe begins
    MaxUpsets,  \* bound: deaths of the panel and failed writes of monitor.json
    MaxTouches, \* bound: writes of monitor.json that only bring its stamp up to date
    None

ASSUME ProbersAssumption == OnLoop \subseteq Probers /\ Silent \subseteq Probers
ASSUME BoundsAssumption == {MaxFlips, MaxRows, MaxUpsets, MaxTouches} \subseteq Nat

States == {"online", "offline"}
ASSUME NoneAssumption == None \notin States \cup Probers

VARIABLES
    link,      \* whether the server can be reached
    file,      \* its availability in monitor.json, "unknown" before the first probe
    torn,      \* monitor.json is cut: opened for writing, not yet written
    lock,      \* holder of _MONITOR_LOCK
    probe,     \* each prober: where it is, what it saw, the event it found and owes
    recorded,  \* the newest availability transition of state.db
    queue,     \* the server's rows of the notification queue
    sending,   \* the message the drain is sending
    reported,  \* last reported state in notification_state.json, online if none
    heard,     \* history: what the users were told last
    excused,   \* history: the code has dropped what they should be told
    flips, upsets, touches

bounds == <<flips, upsets, touches>>
monitoring == <<file, torn, lock, probe, recorded>>
telling == <<queue, sending, reported, heard>>
vars == <<link, monitoring, telling, excused, bounds>>

Places == {"idle", "measured", "judged", "saving", "anchor", "announcing"}
Idle == [pc |-> "idle", sees |-> None, found |-> None, owes |-> None]
Rows == [word : States, aged : BOOLEAN, at : {"free", "drain", "sending"}]
Row(word) == [word |-> word, aged |-> FALSE, at |-> "free"]

Init ==
    /\ link \in States
    /\ file = "unknown" /\ torn = FALSE /\ lock = None
    /\ probe = [p \in Probers |-> Idle]
    /\ recorded = None
    /\ queue = <<>> /\ sending = None
    /\ reported = "online" /\ heard = "online"
    /\ excused = FALSE
    /\ flips = 0 /\ upsets = 0 /\ touches = 0

\* An excuse lasts until what the users were told is the file's state again.
Excusing(condition) == excused' = ((excused \/ condition) /\ heard' # file')

Flip ==
    /\ flips < MaxFlips
    /\ link' \in States \ {link}
    /\ flips' = flips + 1
    /\ UNCHANGED <<monitoring, telling, excused, upsets, touches>>

-----------------------------------------------------------------------------
(* Probes.                                                                 *)

At(p, place) == probe[p].pc = place

\* The jobs wait for their probes without yielding to the event loop.
LoopFree == \A p \in OnLoop : probe[p].pc \in {"idle", "announcing"}

\* The event is announced by its finder; a return online is first measured once
\* more for the metrics, and what that probe finds is dropped.
Anchoring(p) == probe[p].owes # None
Rest(p) == IF Anchoring(p) THEN [probe[p] EXCEPT !.pc = "announcing"] ELSE Idle

Measure(p) ==
    /\ \/ At(p, "idle") /\ (p \in OnLoop => LoopFree) /\ Len(queue) < MaxRows
       \/ At(p, "anchor")
    /\ probe' = [probe EXCEPT ![p].pc = "measured", ![p].sees = link]
    /\ UNCHANGED <<link, file, torn, lock, recorded, telling, excused, bounds>>

\* The probe or the insert into state.db raises; a file that is cut cannot be parsed.
ProbeFails(p) ==
    /\ At(p, "measured")
    /\ probe' = [probe EXCEPT ![p] = Rest(p)]
    /\ UNCHANGED <<link, file, torn, lock, recorded, telling, excused, bounds>>

\* Mutated: the state is compared without the lock.
NeverLocked == TRUE
LockFree == lock = None

\* The first measurement is no transition.
Found(p) == IF file # "unknown" /\ file # probe[p].sees THEN probe[p].sees ELSE None

\* update_server_availability up to save_monitor.
Judge(p) ==
    /\ At(p, "measured")
    /\ LockFree /\ ~torn
    /\ lock' = p
    /\ probe' = [probe EXCEPT ![p].pc = "judged", ![p].found = Found(p)]
    /\ recorded' = IF Found(p) = None THEN recorded ELSE Found(p)
    /\ UNCHANGED <<link, file, torn, telling, excused, bounds>>

\* Nothing changed within the minute: the file is not written.
Skip(p) ==
    /\ At(p, "judged") /\ probe[p].sees = file
    /\ lock' = None
    /\ probe' = [probe EXCEPT ![p] = Rest(p)]
    /\ UNCHANGED <<link, file, torn, recorded, telling, excused, bounds>>

Truncate(p) ==
    /\ At(p, "judged")
    /\ \/ probe[p].sees # file /\ UNCHANGED touches
       \/ probe[p].sees = file /\ touches < MaxTouches /\ touches' = touches + 1
    /\ torn' = TRUE
    /\ probe' = [probe EXCEPT ![p].pc = "saving"]
    /\ UNCHANGED <<link, file, lock, recorded, telling, excused, flips, upsets>>

Dropped(p) == probe[p].found # None /\ (p \in Silent \/ Anchoring(p))

Saved(p) ==
    /\ At(p, "saving")
    /\ file' = probe[p].sees /\ torn' = FALSE /\ lock' = None
    /\ probe' = [probe EXCEPT ![p] =
                    IF probe[p].found = None \/ Dropped(p) THEN Rest(p)
                    ELSE [Idle EXCEPT !.pc = IF probe[p].found = "online" THEN "anchor" ELSE "announcing",
                                      !.owes = probe[p].found]]
    /\ UNCHANGED <<link, recorded, telling, bounds>>
    /\ Excusing(Dropped(p) \/ file = "unknown")

\* The disk is full: the file stays cut, and no probe can read it any more.
SaveFails(p) ==
    /\ At(p, "saving") /\ upsets < MaxUpsets
    /\ upsets' = upsets + 1
    /\ lock' = None
    /\ probe' = [probe EXCEPT ![p] = Rest(p)]
    /\ UNCHANGED <<link, file, torn, recorded, telling, excused, flips, touches>>

\* notify_event.
Announce(p) ==
    /\ At(p, "announcing")
    /\ queue' = Append(queue, Row(probe[p].owes))
    /\ probe' = [probe EXCEPT ![p] = Idle]
    /\ UNCHANGED <<link, file, torn, lock, recorded, sending, reported, heard, excused, bounds>>

-----------------------------------------------------------------------------
(* The queue and the two ways of delivery.                                 *)

\* _resolve_availability.  Without a readable fact the row is sent as it is, or
\* waits while the panel is open.
\* Mutated: what is younger than N is closed.
VerdictsTooEager(row) ==
    IF torn THEN {"send", "defer"}
    ELSE IF file = reported \/ ~row.aged THEN {"close"} ELSE {"send"}
Verdicts(row) ==
    IF torn THEN {"send", "defer"}
    ELSE IF file = reported THEN {"close"}
    ELSE IF row.aged THEN {"send"} ELSE {"defer"}

\* The text is about the fact, whatever the row says.
Text(row) == IF torn THEN row.word ELSE file

Put(i, place) == [queue EXCEPT ![i].at = place]

\* The flush comes within seconds, when a row can only be closed, or left to the
\* drain.  A message it begins to send may leave, but it is cancelled before it
\* can note so.
FlushResolves(i) ==
    /\ LoopFree /\ queue[i].at = "free" /\ ~queue[i].aged
    /\ \/ /\ "close" \in Verdicts(queue[i])
          /\ queue' = RemoveAt(queue, i) /\ UNCHANGED heard
       \/ /\ "send" \in Verdicts(queue[i])
          /\ heard' = Text(queue[i]) /\ UNCHANGED queue
    /\ UNCHANGED <<link, monitoring, sending, reported, bounds>>
    /\ Excusing(FALSE)

\* N, the interval of the availability job, has passed since the row was created.
Ages(i) ==
    /\ ~queue[i].aged
    /\ queue' = [queue EXCEPT ![i].aged = TRUE]
    /\ UNCHANGED <<link, monitoring, sending, reported, heard, excused, bounds>>

Held == {i \in 1 .. Len(queue) : queue[i].at = "drain"}

\* The drain claims whatever is free, then resolves and delivers row by row.
DrainTakes ==
    /\ LoopFree /\ Held = {} /\ sending = None
    /\ \E i \in 1 .. Len(queue) : queue[i].at = "free"
    /\ queue' = [i \in 1 .. Len(queue) |->
                    IF queue[i].at = "free" THEN [queue[i] EXCEPT !.at = "drain"] ELSE queue[i]]
    /\ UNCHANGED <<link, monitoring, sending, reported, heard, excused, bounds>>

DrainResolves(i) ==
    /\ LoopFree /\ sending = None
    /\ i \in Held /\ \A k \in Held : i <= k
    /\ \/ "close" \in Verdicts(queue[i]) /\ queue' = RemoveAt(queue, i) /\ UNCHANGED sending
       \/ "defer" \in Verdicts(queue[i]) /\ queue' = Put(i, "free") /\ UNCHANGED sending
       \/ "send" \in Verdicts(queue[i]) /\ queue' = Put(i, "sending") /\ sending' = Text(queue[i])
    /\ UNCHANGED <<link, monitoring, reported, heard, excused, bounds>>

\* Nothing is on its way that could correct a message.
Pending == \E p \in Probers : probe[p].owes # None \/ probe[p].found # None
LastWord(i) == Len(queue) = 1 /\ ~Pending

\* The message has reached somebody and is remembered.
DrainDelivers(i) ==
    /\ LoopFree /\ queue[i].at = "sending"
    /\ heard' = sending /\ reported' = sending
    /\ queue' = RemoveAt(queue, i) /\ sending' = None
    /\ UNCHANGED <<link, monitoring, bounds>>
    /\ Excusing(LastWord(i))

DrainFails(i) ==
    /\ LoopFree /\ queue[i].at = "sending"
    /\ queue' = Put(i, "free") /\ sending' = None
    /\ UNCHANGED <<link, monitoring, reported, heard, excused, bounds>>

-----------------------------------------------------------------------------
Freed(rows) == [i \in 1 .. Len(rows) |-> [rows[i] EXCEPT !.at = "free"]]

\* The panel dies and starts again: the files stay, claims run out in time.  A
\* message on its way may have left, and its row with it, unremembered.
Restart ==
    /\ upsets < MaxUpsets
    /\ upsets' = upsets + 1
    /\ lock' = None
    /\ probe' = [p \in Probers |-> Idle]
    /\ \/ queue' = Freed(queue) /\ heard' \in {heard} \cup ({sending} \ {None})
       \/ \E i \in 1 .. Len(queue) :
             /\ queue[i].at = "sending"
             /\ queue' = Freed(RemoveAt(queue, i)) /\ heard' = sending
    /\ sending' = None
    /\ UNCHANGED <<link, file, torn, recorded, reported, flips, touches>>
    /\ Excusing(Pending \/ Len(queue') < Len(queue))

Probes(p) ==
    \/ Judge(p) \/ Skip(p) \/ Truncate(p) \/ Saved(p) \/ SaveFails(p) \/ Announce(p)
    \/ At(p, "anchor") /\ Measure(p)
    \/ ProbeFails(p)

Tells(i) ==
    \/ FlushResolves(i) \/ Ages(i)
    \/ DrainResolves(i) \/ DrainDelivers(i) \/ DrainFails(i)

Next ==
    \/ Flip \/ Restart
    \/ \E p \in Probers : Probes(p) \/ Measure(p)
    \/ DrainTakes
    \/ \E i \in 1 .. Len(queue) : Tells(i)

Spec == Init /\ [][Next]_vars

\* Probes have timeouts, jobs repeat, claims and N run out with the clock, and
\* Telegram does not fail every time.  A probe of a job may block the loop at any
\* time, so what needs the loop is strongly fair; and the drain does not read the
\* file each time in the moment it is cut.  No new probe is forced.
Fairness ==
    /\ \A p \in Probers : WF_vars(Probes(p))
    /\ WF_vars(\E i \in 1 .. Len(queue) : Ages(i))
    /\ SF_vars(DrainTakes)
    /\ SF_vars(~torn /\ \E i \in 1 .. Len(queue) : DrainResolves(i))
    /\ SF_vars(\E i \in 1 .. Len(queue) : DrainDelivers(i))

FairSpec == Spec /\ Fairness

-----------------------------------------------------------------------------
(* What must hold.                                                         *)

\* Types of what the probes share.
MonitoringOK ==
    /\ link \in States /\ file \in States \cup {"unknown"} /\ torn \in BOOLEAN
    /\ lock \in Probers \cup {None}
    /\ probe \in [Probers -> [pc : Places, sees : States \cup {None},
                              found : States \cup {None}, owes : States \cup {None}]]
    /\ recorded \in States \cup {None}

\* Types of what is told, and of the bounds.
TellingOK ==
    /\ queue \in Seq(Rows)
    /\ sending \in States \cup {None}
    /\ \A i, k \in 1 .. Len(queue) :
          queue[i].at = "sending" => sending # None /\ (queue[k].at = "sending" => k = i)
    /\ reported \in States /\ heard \in States /\ excused \in BOOLEAN
    /\ flips \in 0 .. MaxFlips /\ upsets \in 0 .. MaxUpsets /\ touches \in 0 .. MaxTouches

\* Every variable has its type; one row at most is being sent, and as a message.
TypeOK == MonitoringOK /\ TellingOK

\* However many probes measure one server at once, each change is found by one
\* of them: the transitions that state.db counts outages from alternate.  A death
\* between the insert and the file lets the next probe find the change again.
FoundOnce ==
    [][\A p \in Probers :
          At(p, "measured") /\ probe'[p].pc = "judged" /\ probe'[p].found # None
              => recorded # probe'[p].found \/ upsets > 0]_vars

\* The users were told something that is not what the panel knows, and the code
\* has not dropped the message that would have said so.
Unsaid == file \in States /\ heard # file /\ heard = reported /\ ~excused

\* monitor.json was left cut.
Broken == torn /\ lock = None

\* The users learn what the panel knows, or it comes to be so again: through
\* overlapping probes, events posted out of order, rows that wait for N, a fact
\* that changes while a message about it is on its way, and failed deliveries.
EventuallySaid == Unsaid ~> (~Unsaid \/ Broken)
=============================================================================
