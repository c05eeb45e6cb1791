------------------------------ MODULE Delivery ------------------------------
(***************************************************************************)
(* Delivery of events to Telegram: the durable queue with its claims        *)
(* (core/notification_queue.py), the push path that buffers an event and    *)
(* flushes the buffer from a timer, and the drain job that every few        *)
(* seconds takes what is free (ui/telegram/notifications.py).  Sources may  *)
(* be worker threads, so each call on the queue is a step of its own.       *)
(* All events are ordinary ones: online/offline events are resolved by      *)
(* rules of their own.  Events that skip the queue are left out too.        *)
(***************************************************************************)
EXTENDS Integers, FiniteSets

CONSTANTS Events,
          MaxStops \* bound: restarts, stops of Telegram, mutes and losses of the journal together

ASSUME UpsetsAssumption == MaxStops \in Nat

VARIABLES
  row,         \* queue row of each event: absent, free, or claimed by push or drain
  lapsed,      \* claims whose five minutes are over
  posted,      \* events written to the journal
  journal,     \* those still in it
  dispatched,  \* events handed to the notifier
  buffer,      \* _PENDING_DELIVERIES
  timer,       \* _FLUSH_TASK sleeps
  flush,       \* the flush: idle, copied (list copied, not yet cleared), sending
  batch,       \* entries of the flush
  drain,       \* the drain job: idle or sending
  taken,       \* entries of the drain
  bot,         \* Telegram is up
  webOpen,     \* the panel is open in a browser
  due,         \* events whose window N is over: their age, and the last sending
  muted,       \* the Telegram channel is switched off
  purging,     \* whoever switched it off has yet to close the rows
  read, told, closed,
  stops        \* restarts, stops of Telegram, mutes and losses of the journal so far

claims == <<row, lapsed>>
pushing == <<buffer, timer, flush, batch>>
draining == <<drain, taken>>
world == <<posted, journal, dispatched, bot, webOpen, due, muted, purging, read>>
deliveryVars == <<claims, pushing, draining, world, told, closed, stops>>

RowStates == {"absent", "free", "push", "drain"}

DeliveryInit ==
  /\ row = [e \in Events |-> "absent"] /\ lapsed = {}
  /\ posted = {} /\ journal = {} /\ dispatched = {}
  /\ buffer = {} /\ timer = FALSE /\ flush = "idle" /\ batch = {}
  /\ drain = "idle" /\ taken = {}
  /\ bot = TRUE /\ webOpen = FALSE /\ due = {} /\ muted = FALSE /\ purging = FALSE
  /\ read = {} /\ told = {} /\ closed = {}
  /\ stops = 0

-----------------------------------------------------------------------------
(* The queue.                                                               *)

\* Mutated: a lapsed claim is still a claim.
FreeRows == {e \in Events : row[e] = "free"}
PendingRows == {e \in Events : row[e] = "free" \/ e \in lapsed}

Claimable == PendingRows

SetRows(S, value) == row' = [e \in Events |-> IF e \in S THEN value ELSE row[e]]

\* complete_notification and release_notification act on the owner's rows only.
Owned(S, owner) == {e \in S : row[e] = owner}

\* Mutated: a failed attempt removes the row.
RowsAfterFailure == "absent"
RowsReleased == "free"

Release(S, owner) ==
  /\ SetRows(Owned(S, owner), RowsReleased)
  /\ lapsed' = lapsed \ Owned(S, owner)

Complete(S, owner) ==
  /\ SetRows(Owned(S, owner), "absent")
  /\ lapsed' = lapsed \ Owned(S, owner)

\* The lease outlasts the seconds between create_event, the notifier and the
\* flush; it does not outlast a lost entry or a drain with many timeouts.
Lapse(e) ==
  /\ row[e] \in {"push", "drain"} /\ e \notin lapsed
  /\ e \notin buffer \cup batch /\ (e \in taken => e \in dispatched)
  /\ lapsed' = lapsed \cup {e}
  /\ UNCHANGED <<row, pushing, draining, world, told, closed, stops>>

\* The policy closes every row, whoever holds it.
PurgeRows ==
  /\ row' = [e \in Events |-> "absent"] /\ lapsed' = {}
  /\ closed' = closed \cup {e \in Events : row[e] # "absent"}

-----------------------------------------------------------------------------
(* create_event, then the notifier: claim, buffer, (re)arm the timer.       *)

Post(e) ==
  /\ e \notin posted
  /\ posted' = posted \cup {e} /\ journal' = journal \cup {e}
  /\ IF muted THEN closed' = closed \cup {e} /\ UNCHANGED row
              ELSE row' = [row EXCEPT ![e] = "free"] /\ UNCHANGED closed
  /\ UNCHANGED <<lapsed, pushing, draining, dispatched, bot, webOpen, due, muted, purging, read,
                 told, stops>>

Dispatch(e) ==
  /\ e \in posted \ dispatched /\ bot /\ ~muted
  /\ dispatched' = dispatched \cup {e}
  /\ IF e \in Claimable
     THEN /\ row' = [row EXCEPT ![e] = "push"] /\ lapsed' = lapsed \ {e}
          /\ buffer' = buffer \cup {e} /\ timer' = TRUE
     ELSE UNCHANGED <<claims, buffer, timer>>
  /\ UNCHANGED <<flush, batch, draining, posted, journal, bot, webOpen, due, muted, purging, read,
                 told, closed, stops>>

(* _resolve for one entry on its own: closed, deferred or sent.  An event   *)
(* that is no longer in the journal is closed like one that was read.       *)
Verdict(e) ==
  IF muted \/ e \notin journal \/ e \in read THEN "close"
  ELSE IF webOpen /\ e \notin due THEN "defer" ELSE "send"

(* _deliver_digest up to its first suspension: what was read or has left    *)
(* the journal is closed, a single entry is resolved, two or more go out as *)
(* they are.                                                                *)
Unread(S) == (S \cap journal) \ read
Sending(S) ==
  IF Cardinality(Unread(S)) = 1 THEN {e \in Unread(S) : Verdict(e) = "send"} ELSE Unread(S)
Deferred(S) ==
  IF Cardinality(Unread(S)) = 1 THEN {e \in Unread(S) : Verdict(e) = "defer"} ELSE {}
Silenced(S) == S \ (Sending(S) \cup Deferred(S))

\* flush_pending copies the buffer and only then clears it.
FlushBegins ==
  /\ timer /\ flush = "idle"
  /\ timer' = FALSE
  /\ flush' = "copied" /\ batch' = buffer
  /\ UNCHANGED <<claims, buffer, draining, world, told, closed, stops>>

FlushSettles ==
  /\ flush = "copied"
  /\ buffer' = {}
  /\ batch' = Sending(batch)
  /\ flush' = IF Sending(batch) = {} THEN "idle" ELSE "sending"
  /\ row' = [e \in Events |->
               IF e \notin Owned(batch, "push") \/ e \in Sending(batch) THEN row[e]
               ELSE IF e \in Deferred(batch) THEN "free" ELSE "absent"]
  /\ closed' = IF muted THEN closed \cup Owned(Silenced(batch), "push") ELSE closed
  /\ UNCHANGED <<lapsed, timer, draining, world, told, stops>>

(* The flush has cancelled its own task, so it ends at its first suspension *)
(* inside the Telegram call, whether or not a message has left by then.     *)
(* The finally of a single delivery releases the row; a digest has none.    *)
FlushCancelled ==
  /\ flush = "sending"
  /\ \E sent \in {{}, batch} : told' = told \cup sent
  /\ flush' = "idle" /\ batch' = {}
  /\ IF Cardinality(batch) = 1 THEN Release(batch, "push") ELSE UNCHANGED claims
  /\ UNCHANGED <<buffer, timer, draining, world, closed, stops>>

-----------------------------------------------------------------------------
(* The drain job: it claims every pending row, then delivers them together. *)

DrainPurges ==
  /\ drain = "idle" /\ bot /\ muted /\ PendingRows # {}
  /\ PurgeRows
  /\ UNCHANGED <<pushing, draining, world, told, stops>>

DrainBegins ==
  /\ drain = "idle" /\ bot /\ ~muted /\ PendingRows # {}
  /\ LET S == Claimable
         out == Sending(S)
     IN /\ taken' = out
        /\ drain' = IF out = {} THEN "idle" ELSE "sending"
        /\ row' = [e \in Events |->
                     IF e \in out THEN "drain" ELSE IF e \in Deferred(S) THEN "free"
                     ELSE IF e \in S THEN "absent" ELSE row[e]]
        /\ lapsed' = lapsed \ S
  /\ UNCHANGED <<pushing, world, told, closed, stops>>

DrainSends ==
  /\ drain = "sending"
  /\ told' = told \cup taken
  /\ due' = {}
  /\ Complete(taken, "drain")
  /\ drain' = "idle" /\ taken' = {}
  /\ UNCHANGED <<pushing, posted, journal, dispatched, bot, webOpen, muted, purging, read, closed,
                 stops>>

DrainGivesUp ==
  /\ drain = "sending"
  /\ Release(taken, "drain")
  /\ drain' = "idle" /\ taken' = {}
  /\ UNCHANGED <<pushing, world, told, closed, stops>>

(* Telegram is stopped: the job is cancelled where it waits.                *)
BotStops ==
  /\ bot /\ stops < MaxStops
  /\ bot' = FALSE /\ stops' = stops + 1
  /\ \E sent \in {{}, taken} : told' = told \cup sent
  /\ IF Cardinality(taken) = 1 THEN Release(taken, "drain") ELSE UNCHANGED claims
  /\ drain' = "idle" /\ taken' = {}
  /\ UNCHANGED <<pushing, posted, journal, dispatched, webOpen, due, muted, purging, read,
                 closed>>

BotStarts ==
  /\ ~bot /\ bot' = TRUE
  /\ UNCHANGED <<claims, pushing, draining, posted, journal, dispatched, webOpen, due, muted,
                 purging, read, told, closed, stops>>

(* The panel process dies: memory is gone, the queue file stays.            *)
PanelRestarts ==
  /\ stops < MaxStops /\ stops' = stops + 1
  /\ \E sent \in SUBSET ({taken} \cup IF flush = "sending" THEN {batch} ELSE {}) :
       told' = told \cup UNION sent
  /\ buffer' = {} /\ timer' = FALSE /\ flush' = "idle" /\ batch' = {}
  /\ drain' = "idle" /\ taken' = {}
  /\ bot' = TRUE
  /\ UNCHANGED <<claims, posted, journal, dispatched, webOpen, due, muted, purging, read, closed>>

-----------------------------------------------------------------------------
(* The user and the clock.                                                  *)

Read(e) ==
  /\ e \in journal \ read
  /\ read' = read \cup {e}
  /\ UNCHANGED <<claims, pushing, draining, posted, journal, dispatched, bot, webOpen, due, muted,
                 purging, told, closed, stops>>

\* Events leave the journal, whether or not anybody knows them: the user clears
\* it, or the limit, which can be lowered at any time, takes the oldest.  The
\* age of an event is that of its file, and reading it writes the file.
LeaveJournal ==
  /\ stops < MaxStops /\ stops' = stops + 1
  /\ \E kept \in SUBSET journal : kept # journal /\ journal' = kept
  /\ UNCHANGED <<claims, pushing, draining, posted, dispatched, bot, webOpen, due, muted, purging,
                 read, told, closed>>

ToggleWeb ==
  /\ webOpen' = ~webOpen
  /\ UNCHANGED <<claims, pushing, draining, posted, journal, dispatched, bot, due, muted, purging,
                 read, told, closed, stops>>

WindowPasses(e) ==
  /\ row[e] = "free" /\ e \notin due
  /\ due' = due \cup {e}
  /\ UNCHANGED <<claims, pushing, draining, posted, journal, dispatched, bot, webOpen, muted,
                 purging, read, told, closed, stops>>

\* Switching the channel off (from the panel or the console) writes the setting,
\* then closes what has accumulated.
Mute ==
  /\ ~muted /\ stops < MaxStops
  /\ muted' = TRUE /\ purging' = TRUE /\ stops' = stops + 1
  /\ UNCHANGED <<claims, pushing, draining, posted, journal, dispatched, bot, webOpen, due, read,
                 told, closed>>

MutePurges ==
  /\ purging /\ purging' = FALSE
  /\ PurgeRows
  /\ UNCHANGED <<pushing, draining, posted, journal, dispatched, bot, webOpen, due, muted, read,
                 told, stops>>

Unmute ==
  /\ muted /\ ~purging /\ muted' = FALSE
  /\ UNCHANGED <<claims, pushing, draining, posted, journal, dispatched, bot, webOpen, due,
                 purging, read, told, closed, stops>>

DeliveryNext ==
  \/ \E e \in Events : Post(e) \/ Dispatch(e) \/ Lapse(e) \/ Read(e) \/ WindowPasses(e)
  \/ FlushBegins \/ FlushSettles \/ FlushCancelled
  \/ DrainPurges \/ DrainBegins \/ DrainSends \/ DrainGivesUp
  \/ BotStops \/ BotStarts \/ PanelRestarts
  \/ LeaveJournal \/ ToggleWeb \/ Mute \/ MutePurges \/ Unmute

DeliverySpec == DeliveryInit /\ [][DeliveryNext]_deliveryVars

(* Timers and jobs of the event loop run, leases and windows pass with the  *)
(* clock, Telegram is started again, and it does not fail every time.       *)
FairDelivery ==
  /\ DeliverySpec
  /\ WF_deliveryVars(FlushBegins) /\ WF_deliveryVars(FlushSettles) /\ WF_deliveryVars(FlushCancelled)
  /\ WF_deliveryVars(DrainPurges) /\ SF_deliveryVars(DrainBegins)
  /\ WF_deliveryVars(DrainSends \/ DrainGivesUp) /\ SF_deliveryVars(DrainSends)
  /\ WF_deliveryVars(BotStarts)
  /\ \A e \in Events : WF_deliveryVars(Lapse(e)) /\ WF_deliveryVars(WindowPasses(e))

-----------------------------------------------------------------------------
\* Types of the queue, of the two delivery paths and of the history.
DeliveryTypeOK ==
  /\ row \in [Events -> RowStates]
  /\ lapsed \subseteq {e \in Events : row[e] \in {"push", "drain"}}
  /\ dispatched \subseteq posted /\ posted \subseteq Events
  /\ journal \subseteq posted
  /\ buffer \subseteq Events /\ timer \in BOOLEAN
  /\ flush \in {"idle", "copied", "sending"} /\ batch \subseteq Events
  /\ drain \in {"idle", "sending"} /\ taken \subseteq Events
  /\ drain = "idle" <=> taken = {}
  /\ bot \in BOOLEAN /\ webOpen \in BOOLEAN /\ muted \in BOOLEAN /\ purging \in BOOLEAN
  /\ due \subseteq Events
  /\ read \subseteq posted /\ told \subseteq posted /\ closed \subseteq posted
  /\ stops \in 0..MaxStops

(* An event leaves the queue only when someone was told, it was read in the *)
(* panel, the policy closed it, or it is no longer in the journal: through  *)
(* lost buffer entries, cancelled flushes, failures, lapsed claims and      *)
(* restarts (complete, release).                                            *)
NothingForgotten ==
  \A e \in posted : row[e] = "absent" => e \in told \cup read \cup closed \/ e \notin journal

(* claim_notification: one event is in one delivery attempt.  What waits in *)
(* the buffer, what the flush sends and what the drain sends are disjoint,  *)
(* and whoever is sending holds the claim, unless the policy closed it.     *)
OneAttempt ==
  /\ (buffer \cup batch) \cap taken = {}
  /\ flush = "sending" => batch \cap buffer = {}
  /\ \A e \in buffer \cup batch : row[e] \in {"push", "absent"}
  /\ \A e \in taken : row[e] \in {"drain", "absent"}

(* Every event is settled in the end: told, read, closed by the policy, or  *)
(* gone from the journal.  An entry lost from the buffer or left by a       *)
(* cancelled digest is found by the drain when its lease is over, and a     *)
(* deferred event when its window is.                                       *)
EventuallySettled ==
  \A e \in Events : e \in posted ~> e \in told \cup read \cup closed \/ e \notin journal

(* notifications.py:644: an event that is gone from the journal is closed,  *)
(* since sending it again would be a duplicate.                             *)
ClosedWasKnown ==
  \A e \in posted : row[e] = "absent" => e \in told \cup read \cup closed

(* notification_state.py:8: while the panel is open, messages leave at most *)
(* once in N; notifications.py:537: until then the events accumulate.       *)
HeldWhileOpen ==
  [][\A e \in taken' \ taken : ~(webOpen /\ e \notin due)]_deliveryVars
=============================================================================
