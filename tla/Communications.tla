---------------------------- MODULE Communications ----------------------------
(***************************************************************************)
(* The parent messages of bookings (backend/communications): what the      *)
(* planner writes when a booking changes, the three-part send (claim,      *)
(* provider call, result), retries, stuck-send recovery, the provider's    *)
(* status callbacks, and the acknowledgement a moved booking hands on to   *)
(* the booking that replaced it.                                           *)
(*                                                                         *)
(* One database transaction is one action, except where a transaction      *)
(* reads something, without a lock, that another may change before it      *)
(* commits: recording an acknowledgement's result and applying a provider  *)
(* report first read which bookings replaced this one, and commit later.   *)
(* Between the two they hold the message's row lock (HeldRows).            *)
(*                                                                         *)
(* Time is kept per booking only as far as the code compares with it       *)
(* (Before, CallOpen, Running, Over); a text is the value of the booking's *)
(* details it was rendered from.                                           *)
(***************************************************************************)
EXTENDS Naturals, FiniteSets

CONSTANTS
  Bookings,        \* identities of bookings, used as they are made
  TaskSteps,       \* the steps of a booking's plan that this instance has
  Details,         \* what texts print: tutor, Meet link, BDE, parent, wording
  Enough,          \* Enough[s]: the details that leave no blank in step s's text
  Invalid,         \* details whose phone is not an international number
  HeldBack,        \* details whose phone the safety settings hold back
  Reports,         \* statuses the provider reports by callback
  MaxAttempts,     \* attempts of one message in all (4 in the code)
  Redemos,         \* the kinds of booking made: FALSE an ordinary one, TRUE a Re-Demo
  MaxTime,         \* bound: how far a booking's time goes
  MaxPublic,       \* bound: bookings made other than by moving one
  MaxSends,        \* bound: sends under way at once
  MaxCallbacks,    \* bound: status reports being applied at once
  MaxKept,         \* bound: messages a report is kept for, for want of an id
  NoText           \* the body of a message with no text

AllSteps == {"ACKNOWLEDGEMENT", "CONFIRMATION_REQUEST", "PARENT_CONFIRMATION",
             "PRE_ACTIVITY_CALL", "AFTER_ACTIVITY"}
MessageSteps == TaskSteps \ {"PRE_ACTIVITY_CALL"}

ASSUME ConstantsAssumption ==
  /\ TaskSteps \subseteq AllSteps
  /\ Enough \in [MessageSteps -> SUBSET Details]
  /\ Invalid \subseteq Details /\ HeldBack \subseteq Details
  /\ Reports \subseteq {"SENT", "DELIVERED", "READ", "FAILED"}
  /\ Redemos \subseteq BOOLEAN /\ MaxTime \in 2..3
  /\ MaxAttempts \in Nat \ {0}
  /\ {MaxPublic, MaxSends, MaxCallbacks, MaxKept} \subseteq Nat
  /\ NoText \notin Details

VARIABLES
  booking,     \* booking[b]: the booking's row, and where its time stands
  msg,         \* msg[<<b, s>>]: booking b's message for step s
  task,        \* task[<<b, s>>]: booking b's task for step s
  sends,       \* sends under way: claimed, and not yet over
  callbacks,   \* transactions applying a provider's report
  unmatched,   \* unmatched[m]: reports kept until m records its provider id
  taken,       \* history: how often the provider truly took m
  overlooked   \* history: bookings made while a transaction that had already
               \* read their chain was still open

vars == <<booking, msg, task, sends, callbacks, unmatched, taken, overlooked>>

-----------------------------------------------------------------------------
(* Rows and their states *)

Rows == Bookings \X MessageSteps
TaskRows == Bookings \X TaskSteps

Before == 0      \* more than 15 minutes to the start
CallOpen == 1    \* the last 15 minutes: the call is open, the tutor may start
Running == 2     \* the scheduled start has come: send_before and expires_at are past
Over == 3        \* the slot has ended

HandedOver == {"QUEUED", "SENT", "DELIVERED", "READ"}
Unsent == {"WAITING", "PENDING", "FAILED"}
Rank == [s \in HandedOver |-> CASE s = "QUEUED" -> 1 [] s = "SENT" -> 2
                                [] s = "DELIVERED" -> 3 [] s = "READ" -> 4]
Answers == {"QUEUED", "SENT", "RETRYABLE", "REFUSED", "UNKNOWN"}
Accepting == {"QUEUED", "SENT"}
FailureCodes == {"", "OUTCOME_UNKNOWN", "REFUSED", "INVALID_RECIPIENT", "UNDELIVERED"}
CancelReasons == {"", "BOOKING_CANCELLED", "BOOKING_RESCHEDULED", "NOT_NEEDED", "EXPIRED"}
CallOutcomes == {"CALLED", "MESSAGED", "NO_ANSWER"}
Resolutions == {"", "ACCEPTED", "SENT", "ALREADY_ACKNOWLEDGED", "NOT_NEEDED", "REMINDED",
                "BOOKING_CANCELLED", "BOOKING_RESCHEDULED"} \cup CallOutcomes

\* attempts: MessageAttempt rows; claim: the attempt number the claim is for, 0
\* when claimed_at is null; pid: provider_message_id is set; early: next_attempt_at
\* is still to come.
Message == [st : {"ABSENT", "CANCELLED"} \cup Unsent \cup HandedOver,
            claim : Nat, attempts : Nat, pid : BOOLEAN, code : FailureCodes,
            reason : CancelReasons, early : BOOLEAN, body : Details \cup {NoText}]
Task == [st : {"ABSENT", "OPEN", "DONE", "CANCELLED", "MISSED"}, res : Resolutions]
Booking == [st : {"ABSENT", "BOOKED", "RESCHEDULED", "CANCELLED", "COMPLETED"},
            confirmed : BOOLEAN, started : BOOLEAN, redemo : BOOLEAN,
            earlier : SUBSET Bookings, data : Details, time : Before..Over,
            afterOver : BOOLEAN]
Send == [pc : {"calling", "answered", "recording"}, m : Rows, claim : Nat,
         answer : Answers, later : SUBSET Bookings]
Callback == [pc : {"looked", "applying"}, m : Rows, first : SUBSET Reports,
             fails : BOOLEAN, after : SUBSET Reports, kept : SUBSET Reports,
             later : SUBSET Bookings]

NoMessage == [st |-> "ABSENT", claim |-> 0, attempts |-> 0, pid |-> FALSE, code |-> "",
              reason |-> "", early |-> FALSE, body |-> NoText]
NoTask == [st |-> "ABSENT", res |-> ""]

Ack(b) == <<b, "ACKNOWLEDGEMENT">>
IsAck(m) == m[2] = "ACKNOWLEDGEMENT"
RowsOf(b) == {b} \X MessageSteps
TasksOf(b) == {b} \X TaskSteps

Unknown(x) == x.st = "FAILED" /\ x.code = "OUTCOME_UNKNOWN"
Undelivered(x) == x.st = "FAILED" /\ x.pid
Outstanding(x) == x.st \in {"WAITING", "PENDING"}
\* refresh_message's early return: past those two states, or being handed over.
Refreshable(x) == Outstanding(x) /\ x.claim = 0
\* What _cancel_messages selects and locks, and of that what it writes.
Selected(x) == x.st \in Unsent /\ ~Unknown(x) /\ ~Undelivered(x)
Cancellable(x) == Selected(x) /\ x.claim = 0

Upcoming(bk) == bk.st = "BOOKED" /\ bk.time < Running
Active(bk) == Upcoming(bk) /\ ~bk.started
\* send_before is still to come: the slot's start, or 24 hours after completion.
WindowOpen(bk, s) == IF s = "AFTER_ACTIVITY" THEN ~bk.afterOver ELSE bk.time < Running

-----------------------------------------------------------------------------
(* chain.py: the bookings a booking replaced, and those that replaced it *)

Later(bk, b) == {c \in Bookings : b \in bk[c].earlier}

\* Mutant: an unknown outcome taken for a refusal.
EarlierAcknowledgementSure(bk, ms, b) ==
  LET acks == {ms[m] : m \in {Ack(a) : a \in bk[b].earlier} \cap Rows}
  IN  IF bk[b].earlier = {} THEN "NONE"
      ELSE IF \E x \in acks : x.st \in HandedOver THEN "ACCEPTED"
      ELSE IF \E x \in acks : x.claim # 0 THEN "IN_FLIGHT"
      ELSE "NOT_ACCEPTED"

EarlierAcknowledgement(bk, ms, b) ==
  LET acks == {ms[m] : m \in {Ack(a) : a \in bk[b].earlier} \cap Rows}
  IN  IF bk[b].earlier = {} THEN "NONE"
      ELSE IF \E x \in acks : x.st \in HandedOver THEN "ACCEPTED"
      ELSE IF \E x \in acks : x.claim # 0 THEN "IN_FLIGHT"
      ELSE IF \E x \in acks : Unknown(x) THEN "UNKNOWN"
      ELSE "NOT_ACCEPTED"

(* rendering.requirements: everything message m needs before it can go *)
Ready(bk, ms, m) ==
  LET b == bk[m[1]] IN
  /\ b.data \in Enough[m[2]]
  /\ IF m[2] = "AFTER_ACTIVITY" THEN b.st = "COMPLETED" ELSE Active(b)
  /\ m[2] = "PARENT_CONFIRMATION" => b.confirmed
  /\ IsAck(m) => EarlierAcknowledgement(bk, ms, m[1]) \in {"NONE", "NOT_ACCEPTED"}

-----------------------------------------------------------------------------
(* planner.py: what a transaction writes. bk and ms are the bookings and    *)
(* messages as the transaction has them so far, R the rows it works on.     *)

\* Mutant: a Pending message keeps the text it was first given.
RefreshedOnce(bk, ms, m) ==
  IF Ready(bk, ms, m)
  THEN IF ms[m].st = "PENDING" THEN ms[m] ELSE [ms[m] EXCEPT !.st = "PENDING", !.body = bk[m[1]].data]
  ELSE [ms[m] EXCEPT !.st = "WAITING", !.body = NoText]

Refreshed(bk, ms, m) ==
  IF Ready(bk, ms, m) THEN [ms[m] EXCEPT !.st = "PENDING", !.body = bk[m[1]].data]
                      ELSE [ms[m] EXCEPT !.st = "WAITING", !.body = NoText]

Refresh(bk, ms, R) ==
  [m \in Rows |-> IF m \in R /\ Refreshable(ms[m]) THEN Refreshed(bk, ms, m) ELSE ms[m]]

Cancelled(x, why) == [x EXCEPT !.st = "CANCELLED", !.reason = why]

CancelMessages(ms, R, why) ==
  [m \in Rows |-> IF m \in R /\ Cancellable(ms[m]) THEN Cancelled(ms[m], why) ELSE ms[m]]

\* _add_message: written Waiting, or Pending when it has all it needs.
AddMessages(bk, ms, R) ==
  Refresh(bk, [m \in Rows |-> IF m \in R THEN [NoMessage EXCEPT !.st = "WAITING"] ELSE ms[m]], R)

UpdateTasks(ts, R, from, new) ==
  [t \in TaskRows |-> IF t \in R /\ ts[t].st = from THEN new ELSE ts[t]]

Done(res) == [st |-> "DONE", res |-> res]
Open == [st |-> "OPEN", res |-> ""]
Missed == [st |-> "MISSED", res |-> ""]

\* plan_booking: nothing for a Re-Demo; no acknowledgement when one was accepted.
PlannedMessages(bk, ms, b) ==
  LET acked == EarlierAcknowledgement(bk, ms, b) = "ACCEPTED"
      steps == {"PARENT_CONFIRMATION"} \cup (IF acked THEN {} ELSE {"ACKNOWLEDGEMENT"})
  IN  IF bk[b].redemo THEN ms ELSE AddMessages(bk, ms, {b} \X (steps \cap MessageSteps))

PlannedTasks(bk, ms, ts, b) ==
  LET acked == EarlierAcknowledgement(bk, ms, b) = "ACCEPTED"
  IN  [t \in TaskRows |->
         IF bk[b].redemo \/ t[1] # b THEN ts[t]
         ELSE IF acked /\ IsAck(t) THEN Done("ALREADY_ACKNOWLEDGED") ELSE Open]

\* _close: the booking was cancelled or moved.
ClosedMessages(ms, b, why) == CancelMessages(ms, RowsOf(b), why)

ClosedTasks(ts, b, why) == UpdateTasks(ts, TasksOf(b), "OPEN", [st |-> "CANCELLED", res |-> why])

\* close_expired, for the bookings B: messages past send_before, tasks past
\* expires_at (the after-activity task never has one), the call at its due_at.
ExpiredRows(bk, B) == {m \in Rows : m[1] \in B /\ bk[m[1]].st # "ABSENT" /\ ~WindowOpen(bk[m[1]], m[2])}

ExpiredMessages(bk, ms, B) == CancelMessages(ms, ExpiredRows(bk, B), "EXPIRED")

\* Mutant: the call reminder left to the slot's end, and the rest with it.
ExpiredTasksLate(bk, ts, B) ==
  UpdateTasks(ts, {t \in TaskRows : t[1] \in B /\ bk[t[1]].time > Over}, "OPEN", Missed)

ExpiredTasks(bk, ts, B) ==
  LET past == {t \in TaskRows : t[1] \in B /\ bk[t[1]].time >= Running /\ t[2] # "AFTER_ACTIVITY"}
      calls == {t \in past : t[2] = "PRE_ACTIVITY_CALL"}
  IN  UpdateTasks(UpdateTasks(ts, calls, "OPEN", Done("REMINDED")), past \ calls, "OPEN", Missed)

\* acknowledgement_settled: ms already holds m's outcome; L was read before.
SettledRows(ms, L) == {m \in Rows : m[1] \in L /\ IsAck(m) /\ Refreshable(ms[m])}

\* Mutant: a later acknowledgement only ever checked again.
SettledByRefresh(bk, ms, m, L) == Refresh(bk, ms, SettledRows(ms, L))

SettledMessages(bk, ms, m, L) ==
  IF ms[m].st \in HandedOver THEN CancelMessages(ms, SettledRows(ms, L), "NOT_NEEDED")
                             ELSE Refresh(bk, ms, SettledRows(ms, L))

SettledTasks(ms, ts, m, L) ==
  IF ms[m].st \in HandedOver
  THEN UpdateTasks(ts, SettledRows(ms, L), "OPEN", Done("ALREADY_ACKNOWLEDGED"))
  ELSE ts

\* release_acknowledgement, for those of the bookings L it applies to.
Releasable(bk, ts, L) ==
  {m \in Rows : m[1] \in L /\ IsAck(m) /\ Upcoming(bk[m[1]]) /\ ts[m] = Done("ALREADY_ACKNOWLEDGED")}

ReleasedTasks(bk, ts, L) == [t \in TaskRows |-> IF t \in Releasable(bk, ts, L) THEN Open ELSE ts[t]]

ReleasedMessages(bk, ms, ts, L) ==
  LET R == Releasable(bk, ts, L)
      new == {m \in R : ms[m].st = "ABSENT"}
      again == {m \in R : ms[m].st = "CANCELLED" /\ ms[m].reason = "NOT_NEEDED" /\ ~ms[m].pid}
      waiting == [m \in Rows |-> IF m \in again THEN [ms[m] EXCEPT !.st = "WAITING", !.reason = ""] ELSE ms[m]]
  IN  AddMessages(bk, Refresh(bk, waiting, again), new)

-----------------------------------------------------------------------------
(* Row locks held across steps *)

HeldRows == {s.m : s \in {t \in sends : t.pc = "recording"}}
            \cup {c.m : c \in {d \in callbacks : d.pc = "applying"}}
\* A transaction that selects the rows R for update waits while one is held.
CanLock(R) == R \cap HeldRows = {}

-----------------------------------------------------------------------------
(* Bookings: the handlers of bookings.booking_service and reports.services  *)
(* that change communication, each with its call into the planner.          *)

NewBooking(d, earlier, redemo) ==
  [st |-> "BOOKED", confirmed |-> FALSE, started |-> FALSE, redemo |-> redemo,
   earlier |-> earlier, data |-> d, time |-> Before, afterOver |-> FALSE]

Init ==
  /\ booking \in {[b \in Bookings |-> [NewBooking(d, {}, FALSE) EXCEPT !.st = "ABSENT"]] : d \in Details}
  /\ msg = [m \in Rows |-> NoMessage]
  /\ task = [t \in TaskRows |-> NoTask]
  /\ sends = {} /\ callbacks = {}
  /\ unmatched = [m \in Rows |-> {}]
  /\ taken = [m \in Rows |-> 0]
  /\ overlooked = {}

Sending == <<sends, callbacks, unmatched, taken>>

PublicBookings == {b \in Bookings : booking[b].st # "ABSENT" /\ booking[b].earlier = {}}

\* create_booking, create_invited_demo_booking (redemo FALSE); schedule_redemo (TRUE).
Book(b, d, redemo) ==
  /\ booking[b].st = "ABSENT"
  /\ Cardinality(PublicBookings) < MaxPublic
  /\ booking' = [booking EXCEPT ![b] = NewBooking(d, {}, redemo)]
  /\ msg' = PlannedMessages(booking', msg, b)
  /\ task' = PlannedTasks(booking', msg, task, b)
  /\ UNCHANGED <<Sending, overlooked>>

\* Transactions that have read the chain of b and are still open.
ReadChain(b) ==
  \/ \E s \in sends : s.pc = "recording" /\ IsAck(s.m) /\ s.m[1] \in booking[b].earlier \cup {b}
  \/ \E c \in callbacks : c.pc = "applying" /\ IsAck(c.m) /\ c.m[1] \in booking[b].earlier \cup {b}

\* reschedule_booking: b moved to the new booking c.
Reschedule(b, c, d) ==
  LET stopped == ClosedMessages(msg, b, "BOOKING_RESCHEDULED") IN
  /\ booking[b].st = "BOOKED" /\ ~booking[b].started
  /\ booking[c].st = "ABSENT"
  /\ CanLock({m \in RowsOf(b) : Selected(msg[m])})
  /\ booking' = [booking EXCEPT
       ![b].st = "RESCHEDULED",
       ![c] = NewBooking(d, booking[b].earlier \cup {b}, booking[b].redemo)]
  /\ msg' = PlannedMessages(booking', stopped, c)
  /\ task' = PlannedTasks(booking', stopped, ClosedTasks(task, b, "BOOKING_RESCHEDULED"), c)
  /\ overlooked' = overlooked \cup (IF ReadChain(b) THEN {c} ELSE {})
  /\ UNCHANGED Sending

Close(b) ==
  /\ CanLock({m \in RowsOf(b) : Selected(msg[m])})
  /\ booking' = [booking EXCEPT ![b].st = "CANCELLED"]
  /\ msg' = ClosedMessages(msg, b, "BOOKING_CANCELLED")
  /\ task' = ClosedTasks(task, b, "BOOKING_CANCELLED")
  /\ UNCHANGED <<Sending, overlooked>>

CancelBooking(b) == booking[b].st = "BOOKED" /\ Close(b)

\* record_parent_confirmation, Not Confirmed.
NotConfirmed(b) == Active(booking[b]) /\ Close(b)

\* record_parent_confirmation, Confirmed: planner.parent_confirmed.
ParentConfirmed(b) ==
  LET request == {<<b, "CONFIRMATION_REQUEST">>} IN
  /\ Active(booking[b]) /\ ~booking[b].confirmed
  /\ CanLock({m \in RowsOf(b) : msg[m].st \in Unsent})
  /\ booking' = [booking EXCEPT ![b].confirmed = TRUE]
  /\ msg' = Refresh(booking', CancelMessages(msg, request, "NOT_NEEDED"), RowsOf(b))
  /\ task' = UpdateTasks(task, request, "OPEN", Done("NOT_NEEDED"))
  /\ UNCHANGED <<Sending, overlooked>>

\* start_booking: from 5 minutes before the start until the slot ends.
StartBooking(b) ==
  /\ booking[b].st = "BOOKED" /\ ~booking[b].started
  /\ booking[b].time \in {CallOpen, Running}
  /\ booking' = [booking EXCEPT ![b].started = TRUE]
  /\ UNCHANGED <<msg, task, Sending, overlooked>>

\* submit_report: planner.booking_completed, close_expired for this booking first.
Complete(b) ==
  LET after == {<<b, "AFTER_ACTIVITY">>} \cap Rows
      expired == ExpiredMessages(booking, msg, {b})
      new == {m \in after : task[m].st # "ABSENT" /\ msg[m].st = "ABSENT"}
  IN
  /\ booking[b].st = "BOOKED" /\ booking[b].started
  /\ CanLock({m \in ExpiredRows(booking, {b}) : Selected(msg[m])})
  /\ booking' = [booking EXCEPT ![b].st = "COMPLETED"]
  /\ msg' = AddMessages(booking', expired, new)
  /\ task' = ExpiredTasks(booking, task, {b})
  /\ UNCHANGED <<Sending, overlooked>>

\* services.request_confirmation: the BDE asks for the request, once.
RequestConfirmation(b) ==
  LET m == <<b, "CONFIRMATION_REQUEST">> IN
  /\ m \in Rows /\ Active(booking[b]) /\ ~booking[b].confirmed
  /\ msg[m].st = "ABSENT" /\ task[m].st # "ABSENT"
  /\ Ready(booking, msg, m)
  /\ msg' = AddMessages(booking, msg, {m})
  /\ UNCHANGED <<booking, task, Sending, overlooked>>

\* services.record_call_outcome: from 15 minutes before until the slot ends.
RecordCallOutcome(b, outcome) ==
  LET t == <<b, "PRE_ACTIVITY_CALL">> IN
  /\ t \in TaskRows /\ task[t].st \in {"OPEN", "DONE"}
  /\ booking[b].time \in {CallOpen, Running}
  /\ task' = [task EXCEPT ![t] = Done(outcome)]
  /\ UNCHANGED <<booking, msg, Sending, overlooked>>

\* A tutor, Meet link, owner or sender changed, and its hook: refresh_messages,
\* lead_owner_changed, sender_contact_changed.
ChangeDetails(b, d) ==
  /\ booking[b].st = "BOOKED" /\ booking[b].data # d
  /\ CanLock({m \in RowsOf(b) : Outstanding(msg[m])})
  /\ booking' = [booking EXCEPT ![b].data = d]
  /\ msg' = Refresh(booking', msg, RowsOf(b))
  /\ UNCHANGED <<task, Sending, overlooked>>

\* A change no hook sees, such as a number edited in the Django admin.
ChangeDetailsUnseen(b, d) ==
  /\ booking[b].st \in {"BOOKED", "COMPLETED"} /\ booking[b].data # d
  /\ booking' = [booking EXCEPT ![b].data = d]
  /\ UNCHANGED <<msg, task, Sending, overlooked>>

-----------------------------------------------------------------------------
(* Time and the scheduled jobs (communications.tasks) *)

\* Nothing compares the time of a cancelled or moved booking any more.
Tick(b) ==
  /\ booking[b].st \in {"BOOKED", "COMPLETED"} /\ booking[b].time < MaxTime
  /\ booking' = [booking EXCEPT ![b].time = @ + 1]
  /\ UNCHANGED <<msg, task, Sending, overlooked>>

\* 24 hours have gone by since b's completion.
AfterWindowCloses(b) ==
  /\ "AFTER_ACTIVITY" \in TaskSteps
  /\ booking[b].st = "COMPLETED" /\ ~booking[b].afterOver
  /\ booking' = [booking EXCEPT ![b].afterOver = TRUE]
  /\ UNCHANGED <<msg, task, Sending, overlooked>>

\* next_attempt_at has come.
RetryComes(m) ==
  /\ msg[m].early /\ Outstanding(msg[m])
  /\ msg' = [msg EXCEPT ![m].early = FALSE]
  /\ UNCHANGED <<booking, task, Sending, overlooked>>

\* Mutant: only Pending messages are checked again.
RefreshPending(m) ==
  /\ msg[m].st = "PENDING" /\ msg[m].claim = 0
  /\ booking[m[1]].st \in {"BOOKED", "COMPLETED"} /\ WindowOpen(booking[m[1]], m[2])
  /\ CanLock({m})
  /\ msg' = Refresh(booking, msg, {m})
  /\ UNCHANGED <<booking, task, Sending, overlooked>>

\* refresh_waiting, skipping a row somebody holds.
RefreshWaiting(m) ==
  /\ msg[m].st = "WAITING" /\ msg[m].claim = 0
  /\ booking[m[1]].st \in {"BOOKED", "COMPLETED"} /\ WindowOpen(booking[m[1]], m[2])
  /\ CanLock({m})
  /\ msg' = Refresh(booking, msg, {m})
  /\ UNCHANGED <<booking, task, Sending, overlooked>>

\* close_expired, for every booking.
CloseExpired ==
  /\ CanLock({m \in ExpiredRows(booking, Bookings) : Selected(msg[m])})
  /\ msg' = ExpiredMessages(booking, msg, Bookings)
  /\ task' = ExpiredTasks(booking, task, Bookings)
  /\ UNCHANGED <<booking, Sending, overlooked>>

-----------------------------------------------------------------------------
(* sending.py: claim, call the provider, record *)

Due(bk, x, s) == WindowOpen(bk, s) /\ ~x.early

\* Mutant: only the window is looked at.
NoLongerNeededByWindow(bk, m, expired) ==
  IF expired /\ ~WindowOpen(bk[m[1]], m[2]) THEN "EXPIRED" ELSE ""

NoLongerNeeded(bk, m, expired) ==
  LET b == bk[m[1]] IN
  IF b.st = "CANCELLED" THEN "BOOKING_CANCELLED"
  ELSE IF b.st = "RESCHEDULED" THEN "BOOKING_RESCHEDULED"
  ELSE IF m[2] = "CONFIRMATION_REQUEST" /\ b.confirmed THEN "NOT_NEEDED"
  ELSE IF expired /\ ~WindowOpen(b, m[2]) THEN "EXPIRED"
  ELSE ""

\* Mutant: an unknown outcome left to be tried again.
FailedForNow(x, code) ==
  [x EXCEPT !.st = IF code = "OUTCOME_UNKNOWN" THEN "PENDING" ELSE "FAILED", !.code = code, !.early = FALSE]

\* Mutant: an unknown outcome taken for an acceptance.
FailedOrSent(x, code) ==
  IF code = "OUTCOME_UNKNOWN" THEN [x EXCEPT !.st = "SENT", !.pid = TRUE, !.early = FALSE]
  ELSE [x EXCEPT !.st = "FAILED", !.code = code, !.early = FALSE]

Failed(x, code) == [x EXCEPT !.st = "FAILED", !.code = code, !.early = FALSE]

\* The message as the claim's transaction leaves it; the claim is made when
\* the result's claim is not 0.
Claimed(bk, ms, m) ==
  LET why == NoLongerNeeded(bk, m, FALSE)
      x == Refreshed(bk, ms, m)
      d == bk[m[1]].data
  IN  CASE why # "" -> Cancelled(ms[m], why)
        [] why = "" /\ ~Due(bk[m[1]], ms[m], m[2]) -> ms[m]
        [] OTHER ->
             CASE x.st = "WAITING" -> x
               [] x.st # "WAITING" /\ d \in Invalid -> Failed(x, "INVALID_RECIPIENT")
               [] x.st # "WAITING" /\ d \in HeldBack \ Invalid -> x
               [] OTHER -> [x EXCEPT !.claim = x.attempts + 1]

\* send_message part 1: _claim, of a message the dispatch run found due.
Claim(m) ==
  LET x == Claimed(booking, msg, m)
      ms == [msg EXCEPT ![m] = x]
      settles == IsAck(m) /\ x.st = "CANCELLED"
      L == Later(booking, m[1])
  IN
  /\ msg[m].st = "PENDING" /\ msg[m].claim = 0
  /\ CanLock({m} \cup (IF settles THEN SettledRows(msg, L) ELSE {}))
  /\ msg' = IF settles THEN SettledMessages(booking, ms, m, L) ELSE ms
  /\ x.claim # 0 => Cardinality(sends) < MaxSends
  /\ sends' = sends \cup {[pc |-> "calling", m |-> m, claim |-> k, answer |-> "UNKNOWN", later |-> {}] :
                            k \in {x.claim} \ {0}}
  /\ UNCHANGED <<booking, task, callbacks, unmatched, taken, overlooked>>

\* Part 2: the provider's answer. An exception (UNKNOWN) says nothing of
\* whether the provider took the message.
ProviderAnswers(s, answer) ==
  /\ s.pc = "calling"
  /\ sends' = (sends \ {s}) \cup {[s EXCEPT !.pc = "answered", !.answer = answer]}
  /\ \/ answer \in Accepting \cup {"UNKNOWN"} /\ taken' = [taken EXCEPT ![s.m] = @ + 1]
     \/ answer \notin Accepting /\ taken' = taken
  /\ UNCHANGED <<booking, msg, task, callbacks, unmatched, overlooked>>

\* The worker dies, or gives up recording after RECORD_TRIES: nothing of its
\* transaction is kept.
SenderStops(s) ==
  /\ sends' = sends \ {s}
  /\ UNCHANGED <<booking, msg, task, callbacks, unmatched, taken, overlooked>>

Accepted(x, answer) == [x EXCEPT !.st = answer, !.pid = TRUE, !.early = FALSE, !.code = ""]

\* _retry_at; inTime: the next try falls before the window closes.
Retries(x, answer, inTime) == answer = "RETRYABLE" /\ x.attempts < MaxAttempts /\ inTime

\* _record_result of the claim still on the message.
Result(bk, x, m, answer, inTime) ==
  LET y == [x EXCEPT !.claim = 0, !.attempts = @ + 1]
      why == NoLongerNeeded(bk, m, TRUE)
  IN  CASE answer \in Accepting -> Accepted(y, answer)
        [] answer = "UNKNOWN" -> Failed(y, "OUTCOME_UNKNOWN")
        [] answer \in {"RETRYABLE", "REFUSED"} /\ why # "" -> Cancelled(y, why)
        [] answer \in {"RETRYABLE", "REFUSED"} /\ why = "" /\ Retries(y, answer, inTime) ->
             [y EXCEPT !.st = "PENDING", !.early = TRUE, !.code = "REFUSED"]
        [] OTHER -> Failed(y, "REFUSED")

\* _late_result: recovery took the claim back meanwhile.
LateResult(x, answer) ==
  LET y == [x EXCEPT !.attempts = @ + 1]
  IN  IF answer \in Accepting /\ x.claim = 0 /\ Unknown(x) THEN Accepted(y, answer) ELSE y

\* _accepted's task: done unless the booking closed it meanwhile.
AcceptedTasks(ts, m, answer) ==
  [t \in TaskRows |-> IF t = m /\ ts[t].st \in {"OPEN", "MISSED"}
                      THEN Done(IF answer = "QUEUED" THEN "ACCEPTED" ELSE "SENT") ELSE ts[t]]

\* Part 3 begins: the row is locked, and for an acknowledgement the bookings
\* that replaced its booking are read.
BeginRecord(s) ==
  /\ s.pc = "answered"
  /\ CanLock({s.m})
  /\ sends' = (sends \ {s}) \cup {[s EXCEPT !.pc = "recording",
                                            !.later = IF IsAck(s.m) THEN Later(booking, s.m[1]) ELSE {}]}
  /\ UNCHANGED <<booking, msg, task, callbacks, unmatched, taken, overlooked>>

\* Part 3 commits: _record_result, then acknowledgement_settled.
Record(s, inTime) ==
  LET m == s.m
      late == msg[m].claim # s.claim
      x == IF late THEN LateResult(msg[m], s.answer) ELSE Result(booking, msg[m], m, s.answer, inTime)
      ms == [msg EXCEPT ![m] = x]
      settles == IsAck(m) /\ (late => x.st # msg[m].st)
      ts == IF x.st \in HandedOver /\ msg[m].st \notin HandedOver THEN AcceptedTasks(task, m, s.answer) ELSE task
  IN
  /\ s.pc = "recording"
  /\ settles => SettledRows(msg, s.later) \cap (HeldRows \ {m}) = {}
  /\ msg' = IF settles THEN SettledMessages(booking, ms, m, s.later) ELSE ms
  /\ task' = IF settles THEN SettledTasks(ms, ts, m, s.later) ELSE ts
  /\ sends' = sends \ {s}
  /\ UNCHANGED <<booking, callbacks, unmatched, taken, overlooked>>

\* Claimed for 5 minutes, as any claim may come to be.
Stuck(x) == x.claim # 0

\* recover_stuck_sends, skipping a row somebody holds.
Recover(m) ==
  LET ms == [msg EXCEPT ![m] = Failed([msg[m] EXCEPT !.claim = 0, !.attempts = @ + 1], "OUTCOME_UNKNOWN")]
      L == Later(booking, m[1])
  IN
  /\ Stuck(msg[m])
  /\ CanLock({m} \cup (IF IsAck(m) THEN SettledRows(msg, L) ELSE {}))
  /\ msg' = IF IsAck(m) THEN SettledMessages(booking, ms, m, L) ELSE ms
  /\ UNCHANGED <<booking, task, Sending, overlooked>>

-----------------------------------------------------------------------------
(* status_updates.py: the provider's callbacks *)

Higher(st, S) == {r \in S \cap HandedOver : Rank[r] > Rank[st]}

\* Mutant: the last report wins.
ProgressedBack(x, S) ==
  IF x.st \in HandedOver /\ S \cap HandedOver # {} THEN [x EXCEPT !.st = CHOOSE r \in S \cap HandedOver : TRUE] ELSE x

\* _progressed, for the reports S in any order: the status only goes up.
Progressed(x, S) ==
  IF x.st \in HandedOver /\ Higher(x.st, S) # {}
  THEN [x EXCEPT !.st = CHOOSE r \in Higher(x.st, S) : \A q \in Higher(x.st, S) : Rank[q] <= Rank[r]]
  ELSE x

\* _failed: only a message accepted and not yet delivered.
DeliveryFailed(x) ==
  IF x.st \in {"QUEUED", "SENT"} THEN [x EXCEPT !.st = "FAILED", !.code = "UNDELIVERED"] ELSE x

\* What a callback transaction makes of its message: the reports before the
\* failure, the failure, the reports after it.
Applied(x, c) ==
  LET y == Progressed(x, c.first)
      z == IF c.fails THEN DeliveryFailed(y) ELSE y
  IN  Progressed(z, c.after)

\* Mutant: the step left Accepted.
AppliedTasksLeft(ts, c, x) == ts

\* A Sent report applied while the message is handed over: the step says so too.
AppliedTasks(ts, c, x) ==
  LET counted == IF c.fails /\ Undelivered(Applied(x, c)) THEN c.first ELSE c.first \cup c.after
  IN  IF x.st \in HandedOver /\ "SENT" \in counted /\ ts[c.m] = Done("ACCEPTED")
      THEN [ts EXCEPT ![c.m] = Done("SENT")] ELSE ts

\* apply_status_update finds no message with the id ...
CallbackUnmatched(m, r) ==
  /\ taken[m] > 0 /\ ~msg[m].pid
  /\ Cardinality({n \in Rows : unmatched[n] # {}} \cup {m}) <= MaxKept
  /\ Cardinality(callbacks) < MaxCallbacks
  /\ callbacks' = callbacks \cup {[pc |-> "looked", m |-> m, first |-> {}, fails |-> FALSE,
                                   after |-> {}, kept |-> {r}, later |-> {}]}
  /\ UNCHANGED <<booking, msg, task, sends, unmatched, taken, overlooked>>

\* ... and keeps the report, whatever became of the message since.
KeepReport(c) ==
  /\ c.pc = "looked"
  /\ callbacks' = callbacks \ {c}
  /\ unmatched' = [unmatched EXCEPT ![c.m] = @ \cup c.kept]
  /\ UNCHANGED <<booking, msg, task, sends, taken, overlooked>>

\* A transaction that applies reports to m, under its row lock: at once, or, when
\* it makes an acknowledgement a delivery failure, first reading which of the
\* bookings that replaced this one are booked.
ApplyReports(m, first, fails, after, kept) ==
  LET c == [pc |-> "applying", m |-> m, first |-> first, fails |-> fails, after |-> after, kept |-> kept,
            later |-> {b \in Later(booking, m[1]) : booking[b].st = "BOOKED"}]
      failing == IsAck(m) /\ Undelivered(Applied(msg[m], c)) /\ ~Undelivered(msg[m])
  IN
  /\ msg[m].pid
  /\ CanLock({m})
  /\ \/ /\ failing /\ Cardinality(callbacks) < MaxCallbacks
        /\ callbacks' = callbacks \cup {c}
        /\ UNCHANGED <<msg, task, unmatched>>
     \/ /\ ~failing
        /\ msg' = [msg EXCEPT ![m] = Applied(@, c)]
        /\ task' = AppliedTasks(task, c, msg[m])
        /\ unmatched' = [unmatched EXCEPT ![m] = @ \ kept]
        /\ UNCHANGED callbacks
  /\ UNCHANGED <<booking, sends, taken, overlooked>>

\* apply_status_update of one report.
CallbackMatched(m, r) == ApplyReports(m, {r} \ {"FAILED"}, r = "FAILED", {}, {})

\* Mutant: the reports applied, and kept.
ReconcileKeeping(m) ==
  /\ unmatched[m] # {}
  /\ ApplyReports(m, unmatched[m] \ {"FAILED"}, FALSE, {}, {})

\* reconcile_message and reconcile_unmatched: the reports kept for m, oldest first.
Reconcile(m) ==
  /\ unmatched[m] # {}
  /\ \E first \in SUBSET (unmatched[m] \ {"FAILED"}) :
       /\ "FAILED" \notin unmatched[m] => first = unmatched[m]
       /\ ApplyReports(m, first, "FAILED" \in unmatched[m],
                       unmatched[m] \ (first \cup {"FAILED"}), unmatched[m])

\* The transaction of a delivery failure commits: the message, its task, and the
\* acknowledgement released of each booking read, as that booking is now.
CommitFailure(c) ==
  LET m == c.m
      ms == [msg EXCEPT ![m] = Applied(msg[m], c)]
      ts == AppliedTasks(task, c, msg[m])
  IN
  /\ c.pc = "applying"
  /\ {Ack(b) : b \in c.later} \cap (HeldRows \ {m}) = {}
  /\ msg' = ReleasedMessages(booking, ms, ts, c.later)
  /\ task' = ReleasedTasks(booking, ts, c.later)
  /\ callbacks' = callbacks \ {c}
  /\ unmatched' = [unmatched EXCEPT ![m] = @ \ c.kept]
  /\ UNCHANGED <<booking, sends, taken, overlooked>>

\* purge_unmatched: a week on, no send of the message can still be under way.
PurgeUnmatched(m) ==
  /\ unmatched[m] # {} /\ ~msg[m].pid
  /\ msg[m].claim = 0 /\ \A s \in sends : s.m # m
  /\ unmatched' = [unmatched EXCEPT ![m] = {}]
  /\ UNCHANGED <<booking, msg, task, sends, callbacks, taken, overlooked>>

-----------------------------------------------------------------------------
BookingStep ==
  \E b \in Bookings :
    \/ \E d \in Details, redemo \in Redemos : Book(b, d, redemo)
    \/ \E c \in Bookings, d \in Details : Reschedule(b, c, d)
    \/ CancelBooking(b) \/ NotConfirmed(b) \/ ParentConfirmed(b)
    \/ StartBooking(b) \/ Complete(b)
    \/ RequestConfirmation(b)
    \/ \E outcome \in CallOutcomes : RecordCallOutcome(b, outcome)
    \/ \E d \in Details : ChangeDetails(b, d) \/ ChangeDetailsUnseen(b, d)
    \/ Tick(b) \/ AfterWindowCloses(b)

MessageStep ==
  \E m \in Rows :
    \/ RetryComes(m) \/ RefreshWaiting(m) \/ Claim(m) \/ Recover(m)
    \/ \E r \in Reports : CallbackUnmatched(m, r) \/ CallbackMatched(m, r)
    \/ Reconcile(m) \/ PurgeUnmatched(m)

SendStep ==
  \E s \in sends :
    \/ \E answer \in Answers : ProviderAnswers(s, answer)
    \/ SenderStops(s) \/ BeginRecord(s)
    \/ \E inTime \in BOOLEAN : Record(s, inTime)

CallbackStep == \E c \in callbacks : KeepReport(c) \/ CommitFailure(c)

Next == BookingStep \/ MessageStep \/ SendStep \/ CallbackStep \/ CloseExpired

Spec == Init /\ [][Next]_vars

\* The jobs run every minute or every five (CELERY_BEAT_SCHEDULE), a provider
\* call times out, a transaction ends, and a retry's moment comes. Nothing is
\* asked of the people, nor that a sender survives.
JobFairness ==
  /\ \A m \in Rows :
       /\ WF_vars(RetryComes(m)) /\ WF_vars(RefreshWaiting(m)) /\ WF_vars(Claim(m))
       /\ WF_vars(Recover(m)) /\ WF_vars(Reconcile(m))
  /\ WF_vars(CloseExpired)
  /\ WF_vars(\E s \in sends : \/ \E answer \in Answers : ProviderAnswers(s, answer)
                             \/ BeginRecord(s)
                             \/ \E inTime \in BOOLEAN : Record(s, inTime))
  /\ WF_vars(CallbackStep)

\* Scheduled times come.
TimeFairness == \A b \in Bookings : WF_vars(Tick(b)) /\ WF_vars(AfterWindowCloses(b))

JobSpec == Spec /\ JobFairness
FairSpec == JobSpec /\ TimeFairness

-----------------------------------------------------------------------------
(* Properties *)

\* Every variable keeps its type.
TypeOK ==
  /\ booking \in [Bookings -> Booking]
  /\ msg \in [Rows -> Message]
  /\ task \in [TaskRows -> Task]
  /\ sends \subseteq Send
  /\ callbacks \subseteq Callback
  /\ unmatched \in [Rows -> SUBSET Reports]
  /\ taken \in [Rows -> Nat]
  /\ overlooked \subseteq Bookings

\* What a message and its sender know of each other at every moment, which is
\* what makes a message go at most once (TakenAtMostOnce).
Gone(x) == x.claim # 0 \/ Unknown(x) \/ x.st \in HandedOver \/ Undelivered(x)
\* A sender's claim is still on the message, or recovery took it back.
ClaimsMatch ==
  /\ \A s \in sends : /\ s.claim # 0
                      /\ msg[s.m].claim = s.claim \/ (msg[s.m].claim = 0 /\ Unknown(msg[s.m]))
  /\ \A s, t \in sends : s.m = t.m => s = t
\* Nothing but the claim's own result writes a claimed message, and whatever the
\* provider accepted has its id.
ClaimedIsPending ==
  \A m \in Rows : /\ msg[m].claim # 0 => msg[m].st = "PENDING"
                  /\ msg[m].st \in HandedOver => msg[m].pid
\* What the provider took is not left to be sent, and it took nothing it refused.
TakenIsGone ==
  /\ \A m \in Rows : taken[m] = 0 \/ (taken[m] = 1 /\ Gone(msg[m]))
  /\ \A s \in sends : s.pc = "calling" \/ s.answer \in {"RETRYABLE", "REFUSED"} => taken[s.m] = 0
\* A booking not made yet has no message.
NoneBeforeBooking == \A m \in Rows : booking[m[1]].st = "ABSENT" => msg[m].st = "ABSENT"

\* A claim has one sender, which alone decides what becomes of its message: no
\* booking change, job or callback writes a message while it is handed over, and
\* one the provider took is never left to be sent again.
SendInv == ClaimsMatch /\ ClaimedIsPending /\ TakenIsGone /\ NoneBeforeBooking

\* The provider never takes a message twice, whatever answers are lost, however
\* often it is retried or recovered, and however late a sender reports.
TakenAtMostOnce == \A m \in Rows : taken[m] <= 1

\* A parent whose booking was moved gets one acknowledgement: a second goes to
\* the provider only once the first is known undelivered.
OneAcknowledgementPerChain ==
  \A b \in Bookings : \A a \in booking[b].earlier :
    {Ack(a), Ack(b)} \subseteq Rows =>
      (taken[Ack(a)] > 0 /\ taken[Ack(b)] > 0 => Undelivered(msg[Ack(a)]))

\* Nothing that no longer applies is left to be sent or retried: a message of a
\* closed booking, or the request of an answered one, unless somebody is sending
\* it, is not Waiting, not Pending, and not Failed by a mere refusal.
NothingLeftToRetry ==
  \A m \in Rows :
    /\ \/ booking[m[1]].st \in {"CANCELLED", "RESCHEDULED"}
       \/ m[2] = "CONFIRMATION_REQUEST" /\ booking[m[1]].confirmed
    /\ msg[m].claim = 0
    => ~Selected(msg[m])

\* A booking's steps agree with its messages: a message the provider took over
\* closes its step, a step done by the provider has such a message, and a message
\* known sent is not merely Accepted.
StepsAgree ==
  \A m \in Rows :
    /\ msg[m].st \in HandedOver => task[m].st \in {"DONE", "CANCELLED"}
    /\ task[m] \in {Done("ACCEPTED"), Done("SENT")} => msg[m].st \in HandedOver \/ Undelivered(msg[m])
    /\ msg[m].st = "SENT" => task[m] # Done("ACCEPTED")

\* The bookings of a chain agree about its acknowledgement, unless the booking
\* was made while a transaction that had read the chain was still open: an
\* upcoming booking's step is closed as acknowledged only while an earlier one
\* is accepted, and its own message does not wait behind an accepted one.
ChainAgrees ==
  \A b \in Bookings \ overlooked :
    Ack(b) \in Rows /\ Upcoming(booking[b]) =>
      LET acked == EarlierAcknowledgement(booking, msg, b) = "ACCEPTED" IN
      /\ task[Ack(b)] = Done("ALREADY_ACKNOWLEDGED") => acked
      /\ acked => ~Outstanding(msg[Ack(b)])

\* A message is claimed only while everything still asks for it, with the text
\* its booking's details give now: it waits for no confirmation, start, window
\* or retry moment, and no earlier acknowledgement is in flight, unknown or accepted.
ClaimedRight ==
  [][\A m \in Rows : msg[m].claim = 0 /\ msg'[m].claim # 0 =>
       /\ msg'[m].body = booking[m[1]].data /\ booking[m[1]].data \in Enough[m[2]] \ (Invalid \cup HeldBack)
       /\ WindowOpen(booking[m[1]], m[2]) /\ ~msg[m].early
       /\ booking[m[1]].st = (IF m[2] = "AFTER_ACTIVITY" THEN "COMPLETED" ELSE "BOOKED")
       /\ m[2] = "PARENT_CONFIRMATION" => booking[m[1]].confirmed
       /\ IsAck(m) => EarlierAcknowledgement(booking, msg, m[1]) \in {"NONE", "NOT_ACCEPTED"}]_vars

\* What was handed over, or is being, is history: its text never changes, and a
\* message only moves forward, or to a delivery failure from Queued or Sent. An
\* unknown outcome is left but by an acceptance, a cancellation but by a release.
HistoryKept ==
  [][\A m \in Rows :
       LET x == msg[m]  y == msg'[m] IN
       /\ x.claim # 0 \/ x.st \in HandedOver => y.body = x.body
       /\ x.claim # 0 /\ y.claim # 0 => y = x
       /\ x.st \in HandedOver =>
            \/ y.st \in HandedOver /\ Rank[y.st] >= Rank[x.st]
            \/ x.st \in {"QUEUED", "SENT"} /\ Undelivered(y)
       /\ Undelivered(x) => y = x
       /\ Unknown(x) => Unknown(y) \/ y.st \in Accepting
       /\ x.st = "CANCELLED" /\ y.st # "CANCELLED" =>
            x.reason = "NOT_NEEDED" /\ IsAck(m) /\ Upcoming(booking[m[1]]) /\ y.claim = 0]_vars

\* What delivery makes of a message: the status is kept of one that was handed over.
Phase(x) ==
  IF x.claim # 0 THEN "SENDING"
  ELSE IF Unknown(x) THEN "UNSURE"
  ELSE IF Undelivered(x) THEN "UNDELIVERED"
  ELSE IF x.st \in HandedOver THEN x.st
  ELSE "UNSENT"
Promised == INSTANCE Delivery
  WITH Letters <- Rows, Unwritten <- NoText, phase <- [m \in Rows |-> Phase(msg[m])],
       text <- [m \in Rows |-> msg[m].body]

\* What the rows say of a message is what became of it: whatever answer, sender or
\* report is lost or late, it is tried again only when the provider had not taken
\* it, and called accepted only when it had.
ImplementsDelivery == Promised!SpecDelivery

\* Every message written is settled in the end: sent, failed or cancelled, never
\* left Waiting or Pending once its window is past, or with a sender that died;
\* and every step with a window closes: done, cancelled with its booking, missed.
AllSettles ==
  /\ \A m \in Rows : Outstanding(msg[m]) ~> ~Outstanding(msg[m])
  /\ \A t \in TaskRows : t[2] # "AFTER_ACTIVITY" => (task[t].st = "OPEN" ~> task[t].st # "OPEN")

\* A report kept before its message's id was known is applied once it is.
ReportsApplied == \A m \in Rows : unmatched[m] # {} /\ msg[m].pid ~> unmatched[m] = {}

\* A message that goes on having all it needs, in its window, does not go on
\* being unsent -- whatever hook was missed, and though the start never comes.
ReadyGoes ==
  \A m \in Rows :
    ~<>[](/\ Outstanding(msg[m]) /\ Ready(booking, msg, m) /\ WindowOpen(booking[m[1]], m[2])
          /\ booking[m[1]].data \notin Invalid \cup HeldBack)

=============================================================================
