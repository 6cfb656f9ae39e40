------------------------- MODULE CommunicationsProofs -------------------------
(***************************************************************************)
(* First the type invariant of Communications, and the types of what its   *)
(* operators return, for any bookings, steps, details and bounds.          *)
(*                                                                         *)
(* Then what is proved of the delivery of messages, for the same: the      *)
(* provider takes a message at most once, nothing that no longer applies   *)
(* is left to be sent, steps agree with messages, what was handed over is  *)
(* history, a message is claimed only while all asks for it, and of the    *)
(* bookings a move made of one another only one's acknowledgement is sent. *)
(*                                                                         *)
(* A step is of one of two kinds. The planner rewrites messages (Rewrites),*)
(* and leaves alone one that was handed over or is being (Gone): so every  *)
(* operator it writes with. Or one message is written by its sender, its   *)
(* recovery or a report, and the planner rewrites others (RowStep). One    *)
(* case analysis of the actions shows that each keeps the inductive        *)
(* invariant, DeliveryInv, and does right by every message (StepRight).    *)
(*                                                                         *)
(* Two more invariants are of chains of moved bookings. OneAtATime: a      *)
(* later acknowledgement goes only when no earlier one did. ChainRest: the *)
(* steps closed as already acknowledged, and no others, have an accepted   *)
(* one before them. Most steps are Quiet, doing nothing to either.         *)
(*                                                                         *)
(* From the invariants and StepRight it follows that every step is one     *)
(* that Delivery promises, given that the rows tell the truth (Truthful).  *)
(***************************************************************************)
EXTENDS Communications, TLAPS

Bookkeeping == [Bookings -> Booking]
Messages == [Rows -> Message]
Tasks == [TaskRows -> Task]

-----------------------------------------------------------------------------
(* What the planner's operators return *)

\* A cancelled message is a message.
LEMMA CancelledType ==
  ASSUME NEW x \in Message, NEW why \in CancelReasons
  PROVE  Cancelled(x, why) \in Message
BY DEF Cancelled, Message, Unsent

\* A message checked again is a message.
LEMMA RefreshedType ==
  ASSUME NEW bk \in Bookkeeping, NEW ms \in Messages, NEW m \in Rows
  PROVE  Refreshed(bk, ms, m) \in Message
<1>1. ms[m] \in Message
  BY DEF Messages
<1>2. bk[m[1]].data \in Details
  BY DEF Bookkeeping, Rows, Booking
<1> QED
  BY <1>1, <1>2 DEF Refreshed, Message, Unsent

\* Messages checked again are messages.
LEMMA RefreshType ==
  ASSUME NEW bk \in Bookkeeping, NEW ms \in Messages, NEW R
  PROVE  Refresh(bk, ms, R) \in Messages
BY RefreshedType DEF Refresh, Messages

\* Messages some of which are cancelled are messages.
LEMMA CancelMessagesType ==
  ASSUME NEW ms \in Messages, NEW R, NEW why \in CancelReasons
  PROVE  CancelMessages(ms, R, why) \in Messages
BY CancelledType DEF CancelMessages, Messages

\* Messages with new ones among them are messages.
LEMMA AddMessagesType ==
  ASSUME NEW bk \in Bookkeeping, NEW ms \in Messages, NEW R
  PROVE  AddMessages(bk, ms, R) \in Messages
<1>1. [NoMessage EXCEPT !.st = "WAITING"] \in Message
  BY DEF NoMessage, Message, Unsent, FailureCodes, CancelReasons
<1>2. [m \in Rows |-> IF m \in R THEN [NoMessage EXCEPT !.st = "WAITING"] ELSE ms[m]] \in Messages
  BY <1>1 DEF Messages
<1> QED
  BY <1>2, RefreshType DEF AddMessages

\* Every task an update writes is a task.
LEMMA UpdateTasksType ==
  ASSUME NEW ts \in Tasks, NEW R, NEW from, NEW new \in Task
  PROVE  UpdateTasks(ts, R, from, new) \in Tasks
BY DEF UpdateTasks, Tasks

\* The task records the planner writes are tasks.
LEMMA TaskRecords ==
  /\ Open \in Task /\ Missed \in Task
  /\ \A res \in Resolutions : Done(res) \in Task
  /\ \A why \in {"BOOKING_CANCELLED", "BOOKING_RESCHEDULED"} : [st |-> "CANCELLED", res |-> why] \in Task
BY DEF Open, Missed, Done, Task, Resolutions

\* A new booking's messages, and its tasks.
LEMMA PlannedType ==
  ASSUME NEW bk \in Bookkeeping, NEW ms \in Messages, NEW ts \in Tasks, NEW b \in Bookings
  PROVE  PlannedMessages(bk, ms, b) \in Messages /\ PlannedTasks(bk, ms, ts, b) \in Tasks
<1>1. Done("ALREADY_ACKNOWLEDGED") \in Task
  BY TaskRecords DEF Resolutions
<1>2. PlannedTasks(bk, ms, ts, b) \in Tasks
  BY <1>1, TaskRecords DEF PlannedTasks, Tasks
<1> QED
  BY <1>2, AddMessagesType DEF PlannedMessages

\* A closed booking's messages, and its tasks.
LEMMA ClosedType ==
  ASSUME NEW ms \in Messages, NEW ts \in Tasks, NEW b \in Bookings,
         NEW why \in {"BOOKING_CANCELLED", "BOOKING_RESCHEDULED"}
  PROVE  ClosedMessages(ms, b, why) \in Messages /\ ClosedTasks(ts, b, why) \in Tasks
BY CancelMessagesType, UpdateTasksType, TaskRecords DEF ClosedMessages, ClosedTasks, CancelReasons

\* The messages and the tasks left when those past their window are closed.
LEMMA ExpiredType ==
  ASSUME NEW bk \in Bookkeeping, NEW ms \in Messages, NEW ts \in Tasks, NEW B
  PROVE  ExpiredMessages(bk, ms, B) \in Messages /\ ExpiredTasks(bk, ts, B) \in Tasks
<1>1. ExpiredMessages(bk, ms, B) \in Messages
  BY CancelMessagesType DEF ExpiredMessages, CancelReasons
<1>2. Done("REMINDED") \in Task
  BY TaskRecords DEF Resolutions
<1> QED
  BY <1>1, <1>2, UpdateTasksType, TaskRecords DEF ExpiredTasks

\* What an acknowledgement's outcome makes of the later ones.
LEMMA SettledType ==
  ASSUME NEW bk \in Bookkeeping, NEW ms \in Messages, NEW ts \in Tasks, NEW m \in Rows, NEW L
  PROVE  SettledMessages(bk, ms, m, L) \in Messages /\ SettledTasks(ms, ts, m, L) \in Tasks
<1>1. Done("ALREADY_ACKNOWLEDGED") \in Task
  BY TaskRecords DEF Resolutions
<1>2. SettledMessages(bk, ms, m, L) \in Messages
  BY CancelMessagesType, RefreshType DEF SettledMessages, CancelReasons
<1> QED
  BY <1>1, <1>2, UpdateTasksType DEF SettledTasks

\* What a delivery failure makes of the later ones.
LEMMA ReleasedType ==
  ASSUME NEW bk \in Bookkeeping, NEW ms \in Messages, NEW ts \in Tasks, NEW L
  PROVE  ReleasedMessages(bk, ms, ts, L) \in Messages /\ ReleasedTasks(bk, ts, L) \in Tasks
<1> DEFINE again == {m \in Releasable(bk, ts, L) :
                       ms[m].st = "CANCELLED" /\ ms[m].reason = "NOT_NEEDED" /\ ~ms[m].pid}
           waiting == [m \in Rows |-> IF m \in again THEN [ms[m] EXCEPT !.st = "WAITING", !.reason = ""] ELSE ms[m]]
<1>1. ASSUME NEW x \in Message
      PROVE  [x EXCEPT !.st = "WAITING", !.reason = ""] \in Message
  BY <1>1 DEF Message, Unsent, CancelReasons
<1>2. waiting \in Messages
  BY <1>1 DEF Messages
<1>3. ReleasedMessages(bk, ms, ts, L) \in Messages
  <2> HIDE DEF waiting, again
  <2> QED
    BY <1>2, RefreshType, AddMessagesType DEF ReleasedMessages, waiting, again
<1> QED
  BY <1>3, TaskRecords DEF ReleasedTasks, Tasks

-----------------------------------------------------------------------------
(* What the sender's and the callbacks' operators return *)

\* A failed message is a message.
LEMMA FailedType ==
  ASSUME NEW x \in Message, NEW code \in FailureCodes
  PROVE  Failed(x, code) \in Message
BY DEF Failed, Message, Unsent

\* A message counts one more attempt, whatever became of its claim.
LEMMA AttemptType ==
  ASSUME NEW x \in Message
  PROVE  /\ [x EXCEPT !.attempts = @ + 1] \in Message
         /\ [x EXCEPT !.claim = 0, !.attempts = @ + 1] \in Message
<1>1. x.attempts + 1 \in Nat
  BY DEF Message
<1>2. ASSUME NEW n \in Nat
      PROVE  [x EXCEPT !.attempts = n] \in Message /\ [x EXCEPT !.claim = 0, !.attempts = n] \in Message
  BY DEF Message
<1> QED
  BY <1>1, <1>2

\* An accepted message is a message.
LEMMA AcceptedType ==
  ASSUME NEW x \in Message, NEW answer \in Accepting
  PROVE  Accepted(x, answer) \in Message
BY DEF Accepted, Accepting, Message, HandedOver, FailureCodes

\* A claim leaves a message, claimed, failed, cancelled or waiting.
LEMMA ClaimedType ==
  ASSUME NEW bk \in Bookkeeping, NEW ms \in Messages, NEW m \in Rows
  PROVE  Claimed(bk, ms, m) \in Message
<1> DEFINE x == Refreshed(bk, ms, m)
           why == NoLongerNeeded(bk, m, FALSE)
<1>1. ms[m] \in Message /\ x \in Message
  BY RefreshedType DEF Messages
<1>2. why \in CancelReasons
  BY DEF NoLongerNeeded, CancelReasons
<1>3. [x EXCEPT !.claim = x.attempts + 1] \in Message
  BY <1>1 DEF Message
<1>4. Failed(x, "INVALID_RECIPIENT") \in Message
  BY <1>1, FailedType DEF FailureCodes
<1>5. Cancelled(ms[m], why) \in Message
  BY <1>1, <1>2, CancelledType
<1> HIDE DEF x, why
<1> QED
  BY <1>1, <1>3, <1>4, <1>5 DEF Claimed, x, why

\* A recorded result leaves a message.
LEMMA ResultType ==
  ASSUME NEW bk \in Bookkeeping, NEW x \in Message, NEW m \in Rows, NEW answer \in Answers,
         NEW inTime \in BOOLEAN
  PROVE  Result(bk, x, m, answer, inTime) \in Message /\ LateResult(x, answer) \in Message
<1> DEFINE y == [x EXCEPT !.claim = 0, !.attempts = @ + 1]
           z == [x EXCEPT !.attempts = @ + 1]
           why == NoLongerNeeded(bk, m, TRUE)
<1>1. y \in Message /\ z \in Message
  BY AttemptType
<1>2. Cancelled(y, why) \in Message
  BY <1>1, CancelledType DEF NoLongerNeeded, CancelReasons
<1>3. [y EXCEPT !.st = "PENDING", !.early = TRUE, !.code = "REFUSED"] \in Message
  BY <1>1 DEF Message, Unsent, FailureCodes
<1>4. Failed(y, "OUTCOME_UNKNOWN") \in Message /\ Failed(y, "REFUSED") \in Message
  BY <1>1, FailedType DEF FailureCodes
<1>5. answer \in Accepting => Accepted(y, answer) \in Message /\ Accepted(z, answer) \in Message
  BY <1>1, AcceptedType
<1> HIDE DEF y, z, why
<1> QED
  BY <1>1, <1>2, <1>3, <1>4, <1>5 DEF Result, LateResult, y, z, why

\* An accepted message's step is a task.
LEMMA AcceptedTasksType ==
  ASSUME NEW ts \in Tasks, NEW m \in Rows, NEW answer \in Answers
  PROVE  AcceptedTasks(ts, m, answer) \in Tasks
<1>1. Done("ACCEPTED") \in Task /\ Done("SENT") \in Task
  BY TaskRecords DEF Resolutions
<1> QED
  BY <1>1 DEF AcceptedTasks, Tasks

\* Of the reports above a status one is the highest, so CHOOSE has a meaning.
LEMMA HighestReport ==
  ASSUME NEW st \in HandedOver, NEW S, Higher(st, S) # {}
  PROVE  \E r \in Higher(st, S) : \A q \in Higher(st, S) : Rank[q] <= Rank[r]
<1>1. Higher(st, S) \subseteq {"QUEUED", "SENT", "DELIVERED", "READ"}
  BY DEF Higher, HandedOver
<1>2. Rank["QUEUED"] = 1 /\ Rank["SENT"] = 2 /\ Rank["DELIVERED"] = 3 /\ Rank["READ"] = 4
  BY DEF Rank, HandedOver
<1>3. CASE "READ" \in Higher(st, S)
  BY <1>1, <1>2, <1>3
<1>4. CASE "READ" \notin Higher(st, S) /\ "DELIVERED" \in Higher(st, S)
  BY <1>1, <1>2, <1>4
<1>5. CASE "READ" \notin Higher(st, S) /\ "DELIVERED" \notin Higher(st, S) /\ "SENT" \in Higher(st, S)
  BY <1>1, <1>2, <1>5
<1>6. CASE Higher(st, S) = {"QUEUED"}
  BY <1>2, <1>6
<1> QED
  BY <1>1, <1>3, <1>4, <1>5, <1>6

\* A report moves a message that was handed over to another such status, and
\* touches no other message.
LEMMA ProgressedType ==
  ASSUME NEW x \in Message, NEW S
  PROVE  /\ Progressed(x, S) \in Message
         /\ Progressed(x, S) # x => x.st \in HandedOver
         /\ \E st \in HandedOver : Progressed(x, S) \in {x, [x EXCEPT !.st = st]}
<1>1. CASE x.st \in HandedOver /\ Higher(x.st, S) # {}
  <2>1. PICK r \in HandedOver : Progressed(x, S) = [x EXCEPT !.st = r]
    BY <1>1, HighestReport DEF Progressed, Higher
  <2> QED
    BY <1>1, <2>1 DEF Message
<1>2. CASE ~(x.st \in HandedOver /\ Higher(x.st, S) # {})
  BY <1>2 DEF Progressed, HandedOver
<1> QED
  BY <1>1, <1>2

\* Reports applied to a message leave a message, and only ever touch one that
\* was handed over: it stays so, or becomes a delivery failure.
LEMMA AppliedType ==
  ASSUME NEW x \in Message, NEW c \in Callback
  PROVE  /\ Applied(x, c) \in Message
         /\ x.st \notin HandedOver => Applied(x, c) = x
         /\ x.st \in HandedOver =>
              /\ Applied(x, c).claim = x.claim /\ Applied(x, c).pid = x.pid
              /\ Applied(x, c).st \in HandedOver \/ Applied(x, c).st = "FAILED"
<1> DEFINE y == Progressed(x, c.first)
           z == IF c.fails THEN DeliveryFailed(y) ELSE y
<1>1. y \in Message /\ z \in Message
  <2>1. y \in Message
    BY ProgressedType
  <2>2. DeliveryFailed(y) \in Message
    BY <2>1 DEF DeliveryFailed, Message, Unsent, FailureCodes
  <2> QED
    BY <2>1, <2>2
<1>2. PICK s \in HandedOver : y \in {x, [x EXCEPT !.st = s]}
  BY ProgressedType
<1>3. z \in {y, [y EXCEPT !.st = "FAILED", !.code = "UNDELIVERED"]}
  BY DEF DeliveryFailed
<1>4. z # y => y.st \in HandedOver
  BY DEF DeliveryFailed, HandedOver
<1>5. PICK t \in HandedOver : Progressed(z, c.after) \in {z, [z EXCEPT !.st = t]}
  BY <1>1, ProgressedType
<1>6. (y # x => x.st \in HandedOver) /\ (Progressed(z, c.after) # z => z.st \in HandedOver)
  BY <1>1, ProgressedType
<1>7. Applied(x, c) = Progressed(z, c.after) /\ Applied(x, c) \in Message
  BY <1>1, ProgressedType DEF Applied
<1> HIDE DEF y, z
<1>8. x.st \notin HandedOver => Applied(x, c) = x
  BY <1>4, <1>6, <1>7
<1>9. y.claim = x.claim /\ y.pid = x.pid /\ (x.st \in HandedOver => y.st \in HandedOver)
  BY <1>2 DEF Message
<1>10. z.claim = y.claim /\ z.pid = y.pid /\ (z.st = y.st \/ z.st = "FAILED")
  BY <1>1, <1>3 DEF Message
<1>11. /\ Applied(x, c).claim = z.claim /\ Applied(x, c).pid = z.pid
       /\ Applied(x, c).st = z.st \/ Applied(x, c).st \in HandedOver
  BY <1>1, <1>5, <1>7 DEF Message
<1> QED
  BY <1>7, <1>8, <1>9, <1>10, <1>11

\* A Sent report's step is a task.
LEMMA AppliedTasksType ==
  ASSUME NEW ts \in Tasks, NEW c \in Callback, NEW x \in Message
  PROVE  AppliedTasks(ts, c, x) \in Tasks
<1>1. Done("SENT") \in Task
  BY TaskRecords DEF Resolutions
<1> QED
  BY <1>1 DEF AppliedTasks, Tasks

-----------------------------------------------------------------------------
(* The type invariant *)

\* A new booking is a booking.
LEMMA NewBookingType ==
  ASSUME NEW d \in Details, NEW E \in SUBSET Bookings, NEW redemo \in BOOLEAN
  PROVE  NewBooking(d, E, redemo) \in Booking
BY DEF NewBooking, Booking, Before, Over

\* The rows' types, in the words of the lemmas above.
LEMMA TypeParts ==
  ASSUME TypeOK
  PROVE  booking \in Bookkeeping /\ msg \in Messages /\ task \in Tasks
BY DEF TypeOK, Bookkeeping, Messages, Tasks

\* No program starts in an ill-typed state.
LEMMA InitType == Init => TypeOK
<1> SUFFICES ASSUME Init PROVE TypeOK
  OBVIOUS
<1>1. PICK d \in Details : booking = [b \in Bookings |-> [NewBooking(d, {}, FALSE) EXCEPT !.st = "ABSENT"]]
  BY DEF Init
<1>2. [NewBooking(d, {}, FALSE) EXCEPT !.st = "ABSENT"] \in Booking
  <2>1. NewBooking(d, {}, FALSE) \in Booking
    BY NewBookingType
  <2>2. ASSUME NEW x \in Booking PROVE [x EXCEPT !.st = "ABSENT"] \in Booking
    BY DEF Booking
  <2> QED
    BY <2>1, <2>2
<1>3. NoMessage \in Message /\ NoTask \in Task
  BY DEF NoMessage, NoTask, Message, Task, FailureCodes, CancelReasons, Resolutions
<1>4. booking \in Bookkeeping
  BY <1>1, <1>2 DEF Bookkeeping
<1>5. msg \in Messages /\ task \in Tasks
  BY <1>3 DEF Init, Messages, Tasks
<1>6. sends \subseteq Send /\ callbacks \subseteq Callback /\ overlooked \subseteq Bookings
  BY DEF Init
<1>7. unmatched \in [Rows -> SUBSET Reports] /\ taken \in [Rows -> Nat]
  BY DEF Init
<1> QED
  BY <1>4, <1>5, <1>6, <1>7 DEF TypeOK, Bookkeeping, Messages, Tasks

\* What is left to show of a step that leaves the sends and the reports alone.
LEMMA TypeOfRows ==
  ASSUME TypeOK, booking' \in Bookkeeping, msg' \in Messages, task' \in Tasks,
         UNCHANGED Sending, overlooked' \subseteq Bookings
  PROVE  TypeOK'
BY DEF TypeOK, Sending, Bookkeeping, Messages, Tasks

\* Every change to a booking keeps the types.
LEMMA BookingStepType == TypeOK /\ BookingStep => TypeOK'
<1> SUFFICES ASSUME TypeOK, NEW b \in Bookings,
                    \/ \E d \in Details, redemo \in Redemos : Book(b, d, redemo)
                    \/ \E c \in Bookings, d \in Details : Reschedule(b, c, d)
                    \/ CancelBooking(b) \/ NotConfirmed(b) \/ ParentConfirmed(b)
                    \/ StartBooking(b) \/ Complete(b)
                    \/ RequestConfirmation(b)
                    \/ \E outcome \in CallOutcomes : RecordCallOutcome(b, outcome)
                    \/ \E d \in Details : ChangeDetails(b, d) \/ ChangeDetailsUnseen(b, d)
                    \/ Tick(b) \/ AfterWindowCloses(b)
             PROVE  TypeOK'
  BY DEF BookingStep
<1>0. /\ booking \in Bookkeeping /\ msg \in Messages /\ task \in Tasks /\ overlooked \subseteq Bookings
      /\ booking[b] \in Booking
      /\ \A x \in Booking : [booking EXCEPT ![b] = x] \in Bookkeeping
  BY TypeParts DEF TypeOK, Bookkeeping
<1>1. ASSUME NEW d \in Details, NEW redemo \in Redemos, Book(b, d, redemo) PROVE TypeOK'
  <2>1. booking' \in Bookkeeping
    BY <1>0, <1>1, NewBookingType, ConstantsAssumption DEF Book
  <2> QED
    BY <1>0, <1>1, <2>1, PlannedType, TypeOfRows DEF Book
<1>2. ASSUME NEW c \in Bookings, NEW d \in Details, Reschedule(b, c, d) PROVE TypeOK'
  <2>1. NewBooking(d, booking[b].earlier \cup {b}, booking[b].redemo) \in Booking
    BY ZenonT(60), <1>0, NewBookingType DEF Booking
  <2>2. [booking[b] EXCEPT !.st = "RESCHEDULED"] \in Booking
    BY <1>0 DEF Booking
  <2>3. booking' \in Bookkeeping
    BY <1>0, <1>2, <2>1, <2>2 DEF Reschedule, Bookkeeping
  <2>4. /\ ClosedMessages(msg, b, "BOOKING_RESCHEDULED") \in Messages
        /\ ClosedTasks(task, b, "BOOKING_RESCHEDULED") \in Tasks
    BY <1>0, ClosedType
  <2>5. overlooked' \subseteq Bookings
    BY <1>0, <1>2 DEF Reschedule
  <2> QED
    BY <1>2, <2>3, <2>4, <2>5, PlannedType, TypeOfRows DEF Reschedule
<1>3. ASSUME CancelBooking(b) \/ NotConfirmed(b) PROVE TypeOK'
  <2>1. Close(b)
    BY <1>3 DEF CancelBooking, NotConfirmed
  <2>2. [booking[b] EXCEPT !.st = "CANCELLED"] \in Booking
    BY <1>0 DEF Booking
  <2>3. booking' \in Bookkeeping
    BY <1>0, <2>1, <2>2 DEF Close
  <2> QED
    BY <1>0, <2>1, <2>3, ClosedType, TypeOfRows DEF Close
<1>4. ASSUME ParentConfirmed(b) PROVE TypeOK'
  <2>1. [booking[b] EXCEPT !.confirmed = TRUE] \in Booking
    BY <1>0 DEF Booking
  <2>2. booking' \in Bookkeeping
    BY <1>0, <1>4, <2>1 DEF ParentConfirmed
  <2>3. msg' \in Messages
    BY <1>0, <1>4, <2>2, CancelMessagesType, RefreshType DEF ParentConfirmed, CancelReasons
  <2>4. Done("NOT_NEEDED") \in Task
    BY TaskRecords DEF Resolutions
  <2> QED
    BY <1>0, <1>4, <2>2, <2>3, <2>4, UpdateTasksType, TypeOfRows DEF ParentConfirmed
<1>5. ASSUME StartBooking(b) PROVE TypeOK'
  <2>1. [booking[b] EXCEPT !.started = TRUE] \in Booking
    BY <1>0 DEF Booking
  <2> QED
    BY <1>0, <1>5, <2>1, TypeOfRows DEF StartBooking
<1>6. ASSUME Complete(b) PROVE TypeOK'
  <2>1. [booking[b] EXCEPT !.st = "COMPLETED"] \in Booking
    BY <1>0 DEF Booking
  <2>2. booking' \in Bookkeeping
    BY <1>0, <1>6, <2>1 DEF Complete
  <2> QED
    BY <1>0, <1>6, <2>2, ExpiredType, AddMessagesType, TypeOfRows DEF Complete
<1>7. ASSUME RequestConfirmation(b) PROVE TypeOK'
  BY <1>0, <1>7, AddMessagesType, TypeOfRows DEF RequestConfirmation
<1>8. ASSUME NEW outcome \in CallOutcomes, RecordCallOutcome(b, outcome) PROVE TypeOK'
  <2>1. Done(outcome) \in Task
    BY TaskRecords DEF Resolutions
  <2>2. task' \in Tasks
    BY <1>0, <1>8, <2>1 DEF RecordCallOutcome, Tasks
  <2> QED
    BY <1>0, <1>8, <2>2, TypeOfRows DEF RecordCallOutcome
<1>9. ASSUME NEW d \in Details, ChangeDetails(b, d) \/ ChangeDetailsUnseen(b, d) PROVE TypeOK'
  <2>1. [booking[b] EXCEPT !.data = d] \in Booking
    BY <1>0 DEF Booking
  <2>2. booking' \in Bookkeeping
    BY <1>0, <1>9, <2>1 DEF ChangeDetails, ChangeDetailsUnseen
  <2> QED
    BY <1>0, <1>9, <2>2, RefreshType, TypeOfRows DEF ChangeDetails, ChangeDetailsUnseen
<1>10. ASSUME Tick(b) PROVE TypeOK'
  <2>1. booking[b].time + 1 \in Before..Over
    BY <1>0, <1>10, ConstantsAssumption DEF Tick, Booking, Before, Over
  <2>2. [booking[b] EXCEPT !.time = booking[b].time + 1] \in Booking
    BY <1>0, <2>1 DEF Booking
  <2> QED
    BY <1>0, <1>10, <2>2, TypeOfRows DEF Tick
<1>11. ASSUME AfterWindowCloses(b) PROVE TypeOK'
  <2>1. [booking[b] EXCEPT !.afterOver = TRUE] \in Booking
    BY <1>0 DEF Booking
  <2> QED
    BY <1>0, <1>11, <2>1, TypeOfRows DEF AfterWindowCloses
<1> QED
  BY <1>1, <1>2, <1>3, <1>4, <1>5, <1>6, <1>7, <1>8, <1>9, <1>10, <1>11

\* Every job and every callback on a message keeps the types.
LEMMA MessageStepType == TypeOK /\ (MessageStep \/ CloseExpired) => TypeOK'
<1> SUFFICES ASSUME TypeOK, MessageStep \/ CloseExpired PROVE TypeOK'
  OBVIOUS
<1>0. /\ booking \in Bookkeeping /\ msg \in Messages /\ task \in Tasks /\ overlooked \subseteq Bookings
      /\ sends \subseteq Send /\ callbacks \subseteq Callback
      /\ \A m \in Rows : msg[m] \in Message
      /\ \A m \in Rows, x \in Message : [msg EXCEPT ![m] = x] \in Messages
  BY TypeParts DEF TypeOK, Messages
<1>1. ASSUME NEW m \in Rows, RetryComes(m) PROVE TypeOK'
  <2>1. [msg[m] EXCEPT !.early = FALSE] \in Message
    BY <1>0 DEF Message
  <2> QED
    BY <1>0, <1>1, <2>1, TypeOfRows DEF RetryComes
<1>2. ASSUME NEW m \in Rows, RefreshWaiting(m) PROVE TypeOK'
  BY <1>0, <1>2, RefreshType, TypeOfRows DEF RefreshWaiting
<1>3. ASSUME NEW m \in Rows, Claim(m) PROVE TypeOK'
  <2> DEFINE x == Claimed(booking, msg, m)
             ms == [msg EXCEPT ![m] = x]
  <2>1. x \in Message
    BY <1>0, ClaimedType
  <2>2. ms \in Messages
    BY <1>0, <2>1
  <2>3. msg' \in Messages
    BY <1>0, <1>3, <2>2, SettledType DEF Claim
  <2>4. ASSUME NEW k \in {x.claim} \ {0}
        PROVE  [pc |-> "calling", m |-> m, claim |-> k, answer |-> "UNKNOWN", later |-> {}] \in Send
    <3>1. k \in Nat
      BY <2>1 DEF Message
    <3> QED
      BY <3>1 DEF Send, Answers
  <2>5. sends' \subseteq Send
    BY <1>0, <1>3, <2>4 DEF Claim
  <2> QED
    BY <1>0, <1>3, <2>3, <2>5 DEF Claim, TypeOK, Messages
<1>4. ASSUME NEW m \in Rows, Recover(m) PROVE TypeOK'
  <2> DEFINE y == [msg[m] EXCEPT !.claim = 0, !.attempts = @ + 1]
  <2>1. Failed(y, "OUTCOME_UNKNOWN") \in Message
    BY <1>0, AttemptType, FailedType DEF FailureCodes
  <2>2. [msg EXCEPT ![m] = Failed(y, "OUTCOME_UNKNOWN")] \in Messages
    BY <1>0, <2>1
  <2>3. [msg EXCEPT ![m] = Failed([msg[m] EXCEPT !.claim = 0, !.attempts = @ + 1], "OUTCOME_UNKNOWN")] \in Messages
    BY <2>2
  <2>4. msg' \in Messages
    BY <1>0, <1>4, <2>3, SettledType DEF Recover
  <2> QED
    BY <1>0, <1>4, <2>4, TypeOfRows DEF Recover
<1>5. ASSUME NEW m \in Rows, NEW r \in Reports, CallbackUnmatched(m, r) PROVE TypeOK'
  <2>1. [pc |-> "looked", m |-> m, first |-> {}, fails |-> FALSE,
         after |-> {}, kept |-> {r}, later |-> {}] \in Callback
    BY DEF Callback
  <2> QED
    BY <1>5, <2>1 DEF CallbackUnmatched, TypeOK
<1>6. ASSUME NEW m \in Rows, NEW first \in SUBSET Reports, NEW fails \in BOOLEAN, NEW after \in SUBSET Reports,
             NEW kept \in SUBSET Reports, ApplyReports(m, first, fails, after, kept)
      PROVE  TypeOK'
  <2> DEFINE c == [pc |-> "applying", m |-> m, first |-> first, fails |-> fails, after |-> after, kept |-> kept,
                   later |-> {b \in Later(booking, m[1]) : booking[b].st = "BOOKED"}]
  <2>1. c \in Callback
    BY DEF Callback, Later
  <2>2. Applied(msg[m], c) \in Message /\ AppliedTasks(task, c, msg[m]) \in Tasks
    BY <1>0, <2>1, AppliedType, AppliedTasksType
  <2>3. /\ UNCHANGED <<booking, sends, taken, overlooked>>
        /\ \/ callbacks' = callbacks \cup {c} /\ UNCHANGED <<msg, task, unmatched>>
           \/ /\ msg' = [msg EXCEPT ![m] = Applied(msg[m], c)]
              /\ task' = AppliedTasks(task, c, msg[m])
              /\ unmatched' = [unmatched EXCEPT ![m] = @ \ kept]
              /\ UNCHANGED callbacks
    BY <1>6 DEF ApplyReports
  <2> HIDE DEF c
  <2>4. msg' \in Messages /\ task' \in Tasks /\ callbacks' \subseteq Callback
    BY <1>0, <2>1, <2>2, <2>3
  <2>5. unmatched' \in [Rows -> SUBSET Reports]
    BY <2>3 DEF TypeOK
  <2> QED
    BY <2>3, <2>4, <2>5 DEF TypeOK, Messages, Tasks
<1>7. ASSUME NEW m \in Rows, NEW r \in Reports, CallbackMatched(m, r) PROVE TypeOK'
  <2>1. {r} \ {"FAILED"} \in SUBSET Reports /\ {} \in SUBSET Reports /\ (r = "FAILED") \in BOOLEAN
    OBVIOUS
  <2>2. ApplyReports(m, {r} \ {"FAILED"}, r = "FAILED", {}, {})
    BY <1>7 DEF CallbackMatched
  <2> QED
    BY <1>6, <2>1, <2>2, Zenon
<1>8. ASSUME NEW m \in Rows, Reconcile(m) PROVE TypeOK'
  <2>1. unmatched[m] \in SUBSET Reports
    BY DEF TypeOK
  <2>2. PICK first \in SUBSET (unmatched[m] \ {"FAILED"}) :
          ApplyReports(m, first, "FAILED" \in unmatched[m], unmatched[m] \ (first \cup {"FAILED"}), unmatched[m])
    BY <1>8 DEF Reconcile
  <2>3. /\ first \in SUBSET Reports /\ ("FAILED" \in unmatched[m]) \in BOOLEAN
        /\ unmatched[m] \ (first \cup {"FAILED"}) \in SUBSET Reports
    BY <2>1
  <2> QED
    BY <1>6, <2>1, <2>2, <2>3, Zenon
<1>9. ASSUME NEW m \in Rows, PurgeUnmatched(m) PROVE TypeOK'
  BY <1>9 DEF PurgeUnmatched, TypeOK
<1>10. ASSUME CloseExpired PROVE TypeOK'
  BY <1>0, <1>10, ExpiredType, TypeOfRows DEF CloseExpired
<1> QED
  BY <1>1, <1>2, <1>3, <1>4, <1>5, <1>7, <1>8, <1>9, <1>10 DEF MessageStep

\* Every step of a send, and of a callback under way, keeps the types.
LEMMA SendStepType == TypeOK /\ (SendStep \/ CallbackStep) => TypeOK'
<1> SUFFICES ASSUME TypeOK, SendStep \/ CallbackStep PROVE TypeOK'
  OBVIOUS
<1>0. /\ booking \in Bookkeeping /\ msg \in Messages /\ task \in Tasks
      /\ sends \subseteq Send /\ callbacks \subseteq Callback
      /\ \A m \in Rows : msg[m] \in Message
      /\ \A m \in Rows, x \in Message : [msg EXCEPT ![m] = x] \in Messages
  BY TypeParts DEF TypeOK, Messages
<1>1. ASSUME NEW s \in sends, NEW answer \in Answers, ProviderAnswers(s, answer) PROVE TypeOK'
  <2>1. s \in Send /\ [s EXCEPT !.pc = "answered", !.answer = answer] \in Send
    BY <1>0 DEF Send
  <2>2. s.m \in Rows
    BY <2>1 DEF Send
  <2>3. sends' \subseteq Send
    BY <1>0, <1>1, <2>1 DEF ProviderAnswers
  <2>4. taken' \in [Rows -> Nat]
    BY <1>1, <2>2 DEF ProviderAnswers, TypeOK
  <2> QED
    BY <1>1, <2>3, <2>4 DEF ProviderAnswers, TypeOK
<1>2. ASSUME NEW s \in sends, SenderStops(s) PROVE TypeOK'
  BY <1>2 DEF SenderStops, TypeOK
<1>3. ASSUME NEW s \in sends, BeginRecord(s) PROVE TypeOK'
  <2>1. s \in Send /\ (IF IsAck(s.m) THEN Later(booking, s.m[1]) ELSE {}) \in SUBSET Bookings
    BY <1>0 DEF Later
  <2>2. ASSUME NEW L \in SUBSET Bookings PROVE [s EXCEPT !.pc = "recording", !.later = L] \in Send
    BY <2>1 DEF Send
  <2>3. sends' \subseteq Send
    BY <1>0, <1>3, <2>1, <2>2 DEF BeginRecord
  <2> QED
    BY <1>3, <2>3 DEF BeginRecord, TypeOK
<1>4. ASSUME NEW s \in sends, NEW inTime \in BOOLEAN, Record(s, inTime) PROVE TypeOK'
  <2> DEFINE m == s.m
             late == msg[m].claim # s.claim
             x == IF late THEN LateResult(msg[m], s.answer) ELSE Result(booking, msg[m], m, s.answer, inTime)
             ms == [msg EXCEPT ![m] = x]
             settles == IsAck(m) /\ (late => x.st # msg[m].st)
             ts == IF x.st \in HandedOver /\ msg[m].st \notin HandedOver THEN AcceptedTasks(task, m, s.answer) ELSE task
  <2>1. m \in Rows /\ s.answer \in Answers
    BY <1>0 DEF Send
  <2>2. x \in Message
    BY <1>0, <2>1, ResultType
  <2>3. ms \in Messages
    BY <1>0, <2>1, <2>2
  <2>4. ts \in Tasks
    BY <1>0, <2>1, AcceptedTasksType
  <2>5. /\ msg' = IF settles THEN SettledMessages(booking, ms, m, s.later) ELSE ms
        /\ task' = IF settles THEN SettledTasks(ms, ts, m, s.later) ELSE ts
        /\ sends' = sends \ {s}
        /\ UNCHANGED <<booking, callbacks, unmatched, taken, overlooked>>
    BY <1>4 DEF Record
  <2> HIDE DEF m, x, ms, settles, ts
  <2>6. msg' \in Messages /\ task' \in Tasks
    BY <1>0, <2>1, <2>3, <2>4, <2>5, SettledType
  <2> QED
    BY <2>5, <2>6 DEF TypeOK, Messages, Tasks
<1>5. ASSUME NEW c \in callbacks, KeepReport(c) PROVE TypeOK'
  <2>1. c.m \in Rows /\ c.kept \in SUBSET Reports
    BY <1>0 DEF Callback
  <2>2. unmatched' \in [Rows -> SUBSET Reports]
    BY <1>5, <2>1 DEF KeepReport, TypeOK
  <2> QED
    BY <1>5, <2>2 DEF KeepReport, TypeOK
<1>6. ASSUME NEW c \in callbacks, CommitFailure(c) PROVE TypeOK'
  <2> DEFINE m == c.m
             ms == [msg EXCEPT ![m] = Applied(msg[m], c)]
             ts == AppliedTasks(task, c, msg[m])
  <2>1. c \in Callback /\ m \in Rows
    BY <1>0 DEF Callback
  <2>2. ms \in Messages /\ ts \in Tasks
    BY <1>0, <2>1, AppliedType, AppliedTasksType
  <2>3. /\ msg' = ReleasedMessages(booking, ms, ts, c.later)
        /\ task' = ReleasedTasks(booking, ts, c.later)
        /\ callbacks' = callbacks \ {c}
        /\ unmatched' = [unmatched EXCEPT ![m] = @ \ c.kept]
        /\ UNCHANGED <<booking, sends, taken, overlooked>>
    BY <1>6 DEF CommitFailure
  <2> HIDE DEF m, ms, ts
  <2>4. msg' \in Messages /\ task' \in Tasks
    BY <1>0, <2>2, <2>3, ReleasedType, TypeParts
  <2>5. unmatched' \in [Rows -> SUBSET Reports]
    BY <2>1, <2>3 DEF TypeOK
  <2> QED
    BY <2>3, <2>4, <2>5 DEF TypeOK, Messages, Tasks
<1> QED
  BY <1>1, <1>2, <1>3, <1>4, <1>5, <1>6 DEF SendStep, CallbackStep

\* No step of the system takes a variable out of its type.
LEMMA NextType == TypeOK /\ [Next]_vars => TypeOK'
<1>1. TypeOK /\ UNCHANGED vars => TypeOK'
  BY DEF TypeOK, vars
<1> QED
  BY <1>1, BookingStepType, MessageStepType, SendStepType DEF Next

\* Every variable keeps its type, whatever the bookings, details and bounds.
THEOREM TypeCorrect == Spec => []TypeOK
BY InitType, NextType, PTL DEF Spec

-----------------------------------------------------------------------------
\* What the planner may make of a message x: nothing, when it is gone; else one nobody sends, to be
\* sent or cancelled, with no provider id it had not.
Rewritten(x, y) ==
  \/ y = x
  \/ /\ ~Gone(x) /\ y.claim = 0
     /\ y.st \in {"WAITING", "PENDING", "CANCELLED"} /\ (y.pid => x.pid)
\* A message there is not, or one not needed for an earlier acknowledgement.
Revivable(m, x) == x.st = "ABSENT" \/ (IsAck(m) /\ x.st = "CANCELLED" /\ x.reason = "NOT_NEEDED")
\* The messages ms rewritten as ns: those still to be sent, and what is revived among the rows R.
Rewrites(ms, ns, R) ==
  \A m \in Rows : /\ Rewritten(ms[m], ns[m])
                  /\ ns[m] # ms[m] => Selected(ms[m]) \/ (m \in R /\ Revivable(m, ms[m]))
                  /\ Outstanding(ns[m]) => Outstanding(ms[m]) \/ m \in R
\* Nothing but a Pending message is being sent.
OnlyPendingClaimed(ms) == \A m \in Rows : ms[m].claim # 0 => ms[m].st = "PENDING"

-----------------------------------------------------------------------------
(* The planner leaves alone what is gone *)

\* A rewriting of a rewriting is one.
LEMMA RewritesTwice ==
  ASSUME NEW a, NEW b, NEW c, NEW R, Rewrites(a, b, R), Rewrites(b, c, R)
  PROVE  Rewrites(a, c, R)
BY DEF Rewrites, Rewritten, Gone

\* Checking again leaves alone what is gone.
LEMMA RefreshRewrites ==
  ASSUME NEW bk, NEW ms \in Messages, NEW R, NEW S
  PROVE  Rewrites(ms, Refresh(bk, ms, R), S)
<1> SUFFICES ASSUME NEW m \in Rows, Refresh(bk, ms, R)[m] # ms[m]
             PROVE  Rewritten(ms[m], Refresh(bk, ms, R)[m]) /\ Selected(ms[m]) /\ Outstanding(ms[m])
  BY DEF Rewrites, Rewritten
<1>1. Refreshable(ms[m]) /\ Refresh(bk, ms, R)[m] = Refreshed(bk, ms, m)
  BY DEF Refresh
<1>2. /\ Refreshed(bk, ms, m).claim = ms[m].claim /\ Refreshed(bk, ms, m).pid = ms[m].pid
      /\ Refreshed(bk, ms, m).st \in {"WAITING", "PENDING"}
  BY DEF Refreshed, Messages, Message
<1> QED
  BY <1>1, <1>2 DEF Rewritten, Refreshable, Outstanding, Selected, Gone, Unknown, Undelivered, HandedOver, Unsent

\* Cancelling leaves alone what is gone.
LEMMA CancelRewrites ==
  ASSUME NEW ms \in Messages, NEW R, NEW why, NEW S
  PROVE  Rewrites(ms, CancelMessages(ms, R, why), S)
<1> SUFFICES ASSUME NEW m \in Rows, CancelMessages(ms, R, why)[m] # ms[m]
             PROVE  /\ Rewritten(ms[m], CancelMessages(ms, R, why)[m]) /\ Selected(ms[m])
                    /\ ~Outstanding(CancelMessages(ms, R, why)[m])
  BY DEF Rewrites, Rewritten
<1>1. Cancellable(ms[m]) /\ CancelMessages(ms, R, why)[m] = Cancelled(ms[m], why)
  BY DEF CancelMessages
<1>2. /\ Cancelled(ms[m], why).claim = ms[m].claim /\ Cancelled(ms[m], why).pid = ms[m].pid
      /\ Cancelled(ms[m], why).st = "CANCELLED"
  BY DEF Cancelled, Messages, Message
<1> QED
  BY <1>1, <1>2 DEF Rewritten, Cancellable, Selected, Gone, Unsent, HandedOver, Outstanding

\* Writing new messages where there are none.
LEMMA AddRewrites ==
  ASSUME NEW bk \in Bookkeeping, NEW ms \in Messages, NEW R, \A m \in R \cap Rows : ms[m].st = "ABSENT" /\ ~Gone(ms[m])
  PROVE  Rewrites(ms, AddMessages(bk, ms, R), R)
<1> DEFINE new == [NoMessage EXCEPT !.st = "WAITING"]
           ns == [m \in Rows |-> IF m \in R THEN new ELSE ms[m]]
<1>1. new \in Message /\ new.claim = 0 /\ new.st = "WAITING" /\ ~new.pid
  BY DEF NoMessage, Message, Unsent, FailureCodes, CancelReasons
<1> HIDE DEF new
<1>2. ns \in Messages
  BY <1>1 DEF Messages
<1>3. Rewrites(ms, ns, R)
  BY <1>1 DEF Rewrites, Rewritten, Revivable
<1>4. AddMessages(bk, ms, R) = Refresh(bk, ns, R)
  BY DEF AddMessages, new
<1> HIDE DEF ns
<1> QED
  BY <1>2, <1>3, <1>4, RefreshRewrites, RewritesTwice

\* A new booking's messages, where there are none.
LEMMA PlannedRewrites ==
  ASSUME NEW bk \in Bookkeeping, NEW ms \in Messages, NEW b \in Bookings,
         \A m \in RowsOf(b) : ms[m].st = "ABSENT" /\ ~Gone(ms[m])
  PROVE  Rewrites(ms, PlannedMessages(bk, ms, b), RowsOf(b))
<1> DEFINE steps == {"PARENT_CONFIRMATION"} \cup
                    (IF EarlierAcknowledgement(bk, ms, b) = "ACCEPTED" THEN {} ELSE {"ACKNOWLEDGEMENT"})
           R == {b} \X (steps \cap MessageSteps)
<1>1. R \subseteq RowsOf(b)
  BY DEF RowsOf
<1>2. PlannedMessages(bk, ms, b) = IF bk[b].redemo THEN ms ELSE AddMessages(bk, ms, R)
  BY DEF PlannedMessages
<1> HIDE DEF R, steps
<1>3. Rewrites(ms, AddMessages(bk, ms, R), R)
  BY <1>1, AddRewrites
<1>4. Rewrites(ms, AddMessages(bk, ms, R), RowsOf(b))
  BY <1>1, <1>3 DEF Rewrites
<1>5. Rewrites(ms, ms, RowsOf(b))
  BY DEF Rewrites, Rewritten
<1> QED
  BY <1>2, <1>4, <1>5

\* An acknowledgement's outcome leaves alone what is gone of the later ones.
LEMMA SettledRewrites ==
  ASSUME NEW bk, NEW ms \in Messages, NEW m, NEW L
  PROVE  Rewrites(ms, SettledMessages(bk, ms, m, L), {})
BY RefreshRewrites, CancelRewrites DEF SettledMessages

\* So does a release, which only writes rows of bookings still to come.
LEMMA ReleasedRewrites ==
  ASSUME NEW bk \in Bookkeeping, NEW ms \in Messages, NEW ts, NEW L, OnlyPendingClaimed(ms)
  PROVE  Rewrites(ms, ReleasedMessages(bk, ms, ts, L), Releasable(bk, ts, L))
<1> DEFINE R == Releasable(bk, ts, L)
           new == {m \in R : ms[m].st = "ABSENT"}
           again == {m \in R : ms[m].st = "CANCELLED" /\ ms[m].reason = "NOT_NEEDED" /\ ~ms[m].pid}
           waiting == [m \in Rows |-> IF m \in again THEN [ms[m] EXCEPT !.st = "WAITING", !.reason = ""] ELSE ms[m]]
           checked == Refresh(bk, waiting, again)
<1>1. \A m \in Rows : ms[m] \in Message
  BY DEF Messages
<1>2. ASSUME NEW x \in Message
      PROVE  /\ [x EXCEPT !.st = "WAITING", !.reason = ""] \in Message
             /\ [x EXCEPT !.st = "WAITING", !.reason = ""].claim = x.claim
             /\ [x EXCEPT !.st = "WAITING", !.reason = ""].pid = x.pid
             /\ [x EXCEPT !.st = "WAITING", !.reason = ""].st = "WAITING"
  BY DEF Message, Unsent, CancelReasons
<1>3. waiting \in Messages
  BY <1>1, <1>2 DEF Messages
<1>4. \A m \in again : m \in Rows /\ m \in R /\ ~Gone(ms[m]) /\ ms[m].claim = 0 /\ Revivable(m, ms[m])
  BY DEF OnlyPendingClaimed, Releasable, Revivable, Gone, Unknown, Undelivered, HandedOver
<1>5. Rewrites(ms, waiting, R)
  <2>1. \A m \in Rows : m \notin again => waiting[m] = ms[m]
    OBVIOUS
  <2>2. \A m \in again : waiting[m].claim = ms[m].claim /\ waiting[m].pid = ms[m].pid /\ waiting[m].st = "WAITING"
    BY <1>1, <1>2, <1>4
  <2> HIDE DEF waiting, again
  <2> QED
    BY <1>4, <2>1, <2>2 DEF Rewrites, Rewritten
<1>6. \A m \in new : m \in Rows /\ waiting[m] = ms[m] /\ ms[m].claim = 0 /\ ms[m].st = "ABSENT"
  BY DEF OnlyPendingClaimed, Releasable
<1> HIDE DEF waiting
<1>7. checked \in Messages /\ Rewrites(waiting, checked, R)
  BY <1>3, RefreshType, RefreshRewrites
<1>8. \A m \in new : checked[m] = waiting[m]
  BY <1>6 DEF Refresh, Refreshable, Outstanding
<1>9. \A m \in new : checked[m].st = "ABSENT" /\ ~Gone(checked[m])
  BY <1>6, <1>8 DEF Gone, Unknown, Undelivered, HandedOver
<1>10. ReleasedMessages(bk, ms, ts, L) = AddMessages(bk, checked, new)
  BY DEF ReleasedMessages, waiting
<1> HIDE DEF checked
<1>11. Rewrites(checked, AddMessages(bk, checked, new), new)
  BY <1>7, <1>9, AddRewrites
<1>12. Rewrites(checked, AddMessages(bk, checked, new), R)
  BY <1>11 DEF Rewrites
<1> HIDE DEF R, new
<1>13. Rewrites(ms, AddMessages(bk, checked, new), R)
  BY <1>5, <1>7, <1>12, RewritesTwice
<1> QED
  BY <1>10, <1>13 DEF R

-----------------------------------------------------------------------------
(* What the invariant adds about messages, their bookings and their steps *)

\* A provider id is that of a message handed over, or known undelivered; what is
\* being sent waits for no retry.
RowSound(x) == /\ x.pid => x.st \in HandedOver \/ (x.st = "FAILED" /\ x.code = "UNDELIVERED")
               /\ x.claim # 0 => ~x.early
Sound(ms) == \A m \in Rows : RowSound(ms[m])

\* Nothing asks for message m any more.
Closed(bk, m) == \/ bk[m[1]].st \in {"CANCELLED", "RESCHEDULED"}
                 \/ m[2] = "CONFIRMATION_REQUEST" /\ bk[m[1]].confirmed
NoneLeft(bk, ms) == \A m \in Rows : Closed(bk, m) => ~Cancellable(ms[m])

\* What a message x and its step t say of each other: StepsAgree, that a message
\* has a step, and that only an acknowledgement's step is closed as acknowledged,
\* while its message is not to be sent.
RowAgrees(m, x, t) ==
  /\ x.st # "ABSENT" => t.st # "ABSENT"
  /\ t = Done("ALREADY_ACKNOWLEDGED") => IsAck(m) /\ x.st \in {"ABSENT", "CANCELLED"}
  /\ x.st \in HandedOver => t.st \in {"DONE", "CANCELLED"}
  /\ t \in {Done("ACCEPTED"), Done("SENT")} => x.st \in HandedOver \/ Undelivered(x)
  /\ x.st = "SENT" => t # Done("ACCEPTED")
Agree(ms, ts) == \A m \in Rows : RowAgrees(m, ms[m], ts[m])

DeliveryInv == SendInv /\ Sound(msg) /\ NoneLeft(booking, msg) /\ Agree(msg, task)

\* What HistoryKept and ClaimedRight say of message m, now x and then y.
RowHistory(m, x, y) ==
  /\ x.claim # 0 \/ x.st \in HandedOver => y.body = x.body
  /\ x.claim # 0 /\ y.claim # 0 => y = x
  /\ x.st \in HandedOver =>
       \/ y.st \in HandedOver /\ Rank[y.st] >= Rank[x.st]
       \/ x.st \in {"QUEUED", "SENT"} /\ Undelivered(y)
  /\ Undelivered(x) => y = x
  /\ Unknown(x) => Unknown(y) \/ y.st \in Accepting
  /\ x.st = "CANCELLED" /\ y.st # "CANCELLED" =>
       x.reason = "NOT_NEEDED" /\ IsAck(m) /\ Upcoming(booking[m[1]]) /\ y.claim = 0
RowClaim(m, x, y) ==
  x.claim = 0 /\ y.claim # 0 =>
    /\ y.body = booking[m[1]].data /\ booking[m[1]].data \in Enough[m[2]] \ (Invalid \cup HeldBack)
    /\ WindowOpen(booking[m[1]], m[2]) /\ ~x.early
    /\ booking[m[1]].st = (IF m[2] = "AFTER_ACTIVITY" THEN "COMPLETED" ELSE "BOOKED")
    /\ m[2] = "PARENT_CONFIRMATION" => booking[m[1]].confirmed
    /\ IsAck(m) => EarlierAcknowledgement(booking, msg, m[1]) \in {"NONE", "NOT_ACCEPTED"}

\* The answer y.st to a send of message m is being recorded.
Answered(m, y) == y.st \in Accepting /\ \E s \in sends : s.m = m /\ s.pc = "recording" /\ s.answer = y.st
\* A message is gone only when it was, or was claimed: it is handed over by its sender, comes back only
\* from there, and keeps its text while its outcome is unknown.
RowFresh(m, x, y) ==
  /\ Gone(y) => Gone(x) \/ y.claim # 0
  /\ y.st \in HandedOver => x.st \in HandedOver \/ Answered(m, y)
  /\ Undelivered(y) => Undelivered(x) \/ x.st \in HandedOver
  /\ Unknown(x) => y.body = x.body

\* What every step is shown to do.
StepRight == /\ DeliveryInv'
             /\ \A m \in Rows : /\ RowHistory(m, msg[m], msg'[m]) /\ RowClaim(m, msg[m], msg'[m])
                               /\ RowFresh(m, msg[m], msg'[m])

\* The statuses a report can give are ranked by numbers.
LEMMA RankType == \A st \in HandedOver : Rank[st] \in 1..4
BY DEF Rank, HandedOver

\* A message left as it is keeps its history and is claimed by nobody.
LEMMA SameHistory ==
  ASSUME NEW m \in Rows, NEW x
  PROVE  RowHistory(m, x, x) /\ RowClaim(m, x, x) /\ RowFresh(m, x, x)
<1>1. x.st \in HandedOver => Rank[x.st] >= Rank[x.st]
  BY RankType
<1> QED
  BY <1>1 DEF RowHistory, RowClaim, RowFresh

\* So does one the planner writes, if it revives none but of upcoming bookings.
LEMMA RewrittenHistory ==
  ASSUME NEW m \in Rows, NEW x, NEW y, Rewritten(x, y),
         y # x => \/ Selected(x) \/ x.st = "ABSENT"
                  \/ Revivable(m, x) /\ Upcoming(booking[m[1]])
  PROVE  RowHistory(m, x, y) /\ RowClaim(m, x, y) /\ RowFresh(m, x, y) /\ (RowSound(x) => RowSound(y))
<1>1. CASE y = x
  BY <1>1, SameHistory
<1>2. CASE y # x
  <2>1. x.claim = 0 /\ x.st \notin HandedOver /\ ~Unknown(x) /\ ~Undelivered(x) /\ y.claim = 0 /\ (y.pid => x.pid)
    BY <1>2 DEF Rewritten, Gone
  <2>2. x.st = "CANCELLED" => x.reason = "NOT_NEEDED" /\ IsAck(m) /\ Upcoming(booking[m[1]])
    BY <1>2 DEF Revivable, Selected, Unsent
  <2>3. RowSound(x) => RowSound(y)
    BY <2>1 DEF RowSound, Undelivered
  <2>4. RowFresh(m, x, y)
    BY <1>2 DEF RowFresh, Rewritten, Gone, Unknown, Undelivered, HandedOver
  <2> QED
    BY <2>1, <2>2, <2>3, <2>4 DEF RowHistory, RowClaim
<1> QED
  BY <1>1, <1>2

\* What is left of a closed booking stays settled, when the planner writes
\* messages and what closes is settled.
LEMMA NoneLeftKept ==
  ASSUME NEW bk, NEW now, NEW ms, NEW ns, NEW R, NoneLeft(bk, ms), Rewrites(ms, ns, R),
         \A m \in Rows : Closed(now, m) => (Closed(bk, m) /\ m \notin R) \/ ~Cancellable(ns[m])
  PROVE  NoneLeft(now, ns)
<1> SUFFICES ASSUME NEW m \in Rows, Closed(now, m) PROVE ~Cancellable(ns[m])
  BY DEF NoneLeft
<1>1. ASSUME Closed(bk, m), m \notin R PROVE ns[m] = ms[m]
  BY <1>1 DEF NoneLeft, Rewrites, Rewritten, Gone, Cancellable
<1> QED
  BY <1>1 DEF NoneLeft

\* Cancelling settles what it is asked to.
LEMMA CancelSettles ==
  ASSUME NEW ms \in Messages, NEW R, NEW why, NEW m \in R \cap Rows
  PROVE  ~Cancellable(CancelMessages(ms, R, why)[m])
<1>1. CancelMessages(ms, R, why)[m] = IF Cancellable(ms[m]) THEN Cancelled(ms[m], why) ELSE ms[m]
  BY DEF CancelMessages
<1>2. Cancelled(ms[m], why).st = "CANCELLED"
  BY DEF Cancelled, Messages, Message
<1> QED
  BY <1>1, <1>2 DEF Cancellable, Selected, Unsent

-----------------------------------------------------------------------------
(* Steps and their messages *)

\* What a change of the steps ts to us, with messages ns and new ones among the
\* rows R, does: it closes no step as sent or accepted, opens none of a message
\* handed over, and closes as acknowledged only what is not to be sent.
TasksFollow(ts, us, ns, R) ==
  \A m \in Rows :
    /\ us[m] # ts[m] => /\ us[m].st # "ABSENT" /\ us[m] \notin {Done("ACCEPTED"), Done("SENT")}
                        /\ \/ ns[m].st \notin HandedOver \/ ts[m].st \in {"ABSENT", "OPEN"}
                           \/ ts[m] = Done("ALREADY_ACKNOWLEDGED")
    /\ m \in R /\ ns[m].st # "ABSENT" => us[m].st # "ABSENT"
    /\ us[m] = Done("ALREADY_ACKNOWLEDGED") =>
         \/ us[m] = ts[m] /\ m \notin R
         \/ IsAck(m) /\ ns[m].st \in {"ABSENT", "CANCELLED"}

\* Such a change, with the planner's writes, keeps messages and steps in agreement.
LEMMA AgreeKept ==
  ASSUME NEW ms, NEW ts, NEW ns, NEW us, NEW R, Agree(ms, ts), Rewrites(ms, ns, R), TasksFollow(ts, us, ns, R)
  PROVE  Agree(ns, us)
<1> SUFFICES ASSUME NEW m \in Rows PROVE RowAgrees(m, ns[m], us[m])
  BY DEF Agree
<1>1. /\ RowAgrees(m, ms[m], ts[m]) /\ Rewritten(ms[m], ns[m])
      /\ ns[m] # ms[m] => Selected(ms[m]) \/ m \in R
  BY DEF Agree, Rewrites
<1>2. ns[m].st # "ABSENT" => us[m].st # "ABSENT"
  BY <1>1 DEF TasksFollow, RowAgrees, Selected, Unsent
<1>3. us[m] = Done("ALREADY_ACKNOWLEDGED") => IsAck(m) /\ ns[m].st \in {"ABSENT", "CANCELLED"}
  BY <1>1 DEF TasksFollow, RowAgrees, Selected, Unsent
<1>4. ns[m].st \in HandedOver => ns[m] = ms[m] /\ ~Undelivered(ms[m])
  BY <1>1 DEF Rewritten, HandedOver, Undelivered
<1>5. ns[m].st \in HandedOver => us[m].st \in {"DONE", "CANCELLED"}
  BY <1>1, <1>4 DEF TasksFollow, RowAgrees, HandedOver
<1>6. us[m] \in {Done("ACCEPTED"), Done("SENT")} => us[m] = ts[m]
  BY DEF TasksFollow
<1>7. us[m] \in {Done("ACCEPTED"), Done("SENT")} => ns[m].st \in HandedOver \/ Undelivered(ns[m])
  BY <1>1, <1>6 DEF RowAgrees, Rewritten, Gone
<1>8. ns[m].st = "SENT" => us[m] # Done("ACCEPTED")
  BY <1>1, <1>4, <1>6 DEF RowAgrees, HandedOver
<1> QED
  BY <1>2, <1>3, <1>5, <1>7, <1>8 DEF RowAgrees

\* Messages the planner writes while the steps stay as they are.
LEMMA AgreeSameTasks ==
  ASSUME NEW ms, NEW ts, NEW ns, NEW R, Agree(ms, ts), Rewrites(ms, ns, R),
         \A m \in R \cap Rows : ts[m].st # "ABSENT" /\ ~IsAck(m)
  PROVE  Agree(ns, ts)
<1>1. \A m \in R \cap Rows : ts[m] # Done("ALREADY_ACKNOWLEDGED")
  BY DEF Agree, RowAgrees
<1>2. TasksFollow(ts, ts, ns, R)
  BY <1>1 DEF TasksFollow
<1> QED
  BY <1>2, AgreeKept

\* Open steps closed for a reason that is not the message's.
LEMMA AgreeUpdate ==
  ASSUME NEW ms, NEW ts, NEW S, NEW new, Agree(ms, ts), new.st # "ABSENT",
         new \notin {Done("ACCEPTED"), Done("SENT"), Done("ALREADY_ACKNOWLEDGED")}
  PROVE  Agree(ms, UpdateTasks(ts, S, "OPEN", new))
<1> DEFINE us == UpdateTasks(ts, S, "OPEN", new)
<1>1. \A m \in Rows : us[m] = ts[m] \/ (us[m] = new /\ ts[m].st = "OPEN")
  BY DEF UpdateTasks, Rows, TaskRows, MessageSteps
<1>2. TasksFollow(ts, us, ms, {})
  <2> HIDE DEF us
  <2> QED
    BY <1>1 DEF TasksFollow
<1>3. Rewrites(ms, ms, {})
  BY DEF Rewrites, Rewritten
<1> QED
  BY <1>2, <1>3, AgreeKept

\* The reasons a step is closed by are told apart.
LEMMA OtherReasons ==
  ASSUME NEW new, \/ new = Missed \/ new \in {Done("REMINDED"), Done("NOT_NEEDED"), Open}
                  \/ \E why : new = [st |-> "CANCELLED", res |-> why]
  PROVE  new.st # "ABSENT" /\ new \notin {Done("ACCEPTED"), Done("SENT"), Done("ALREADY_ACKNOWLEDGED")}
<1>1. \A res : Done(res).st = "DONE" /\ Done(res).res = res
  BY DEF Done
<1>2. Open.st = "OPEN" /\ Missed.st = "MISSED"
  BY DEF Open, Missed
<1>3. CASE new \in {Missed, Open, Done("REMINDED"), Done("NOT_NEEDED")}
  BY <1>1, <1>2, <1>3
<1>4. ASSUME NEW why, new = [st |-> "CANCELLED", res |-> why] PROVE new.st = "CANCELLED"
  BY <1>4
<1> QED
  BY <1>1, <1>3, <1>4

\* A closed booking's messages and steps agree.
LEMMA ClosedAgree ==
  ASSUME NEW ms \in Messages, NEW ts, NEW b, NEW why, Agree(ms, ts)
  PROVE  Agree(ClosedMessages(ms, b, why), ClosedTasks(ts, b, why))
<1>1. Agree(CancelMessages(ms, RowsOf(b), why), ts)
  <2>1. Rewrites(ms, CancelMessages(ms, RowsOf(b), why), {})
    BY CancelRewrites
  <2> QED
    BY <2>1, AgreeSameTasks
<1> DEFINE new == [st |-> "CANCELLED", res |-> why]
<1>2. new.st # "ABSENT" /\ new \notin {Done("ACCEPTED"), Done("SENT"), Done("ALREADY_ACKNOWLEDGED")}
  BY OtherReasons
<1>3. ClosedTasks(ts, b, why) = UpdateTasks(ts, TasksOf(b), "OPEN", new)
  BY DEF ClosedTasks
<1> HIDE DEF new
<1> QED
  BY <1>1, <1>2, <1>3, AgreeUpdate DEF ClosedMessages

\* So do messages and steps when the steps past their moment are closed.
LEMMA ExpiredAgree ==
  ASSUME NEW bk, NEW ms, NEW ts, NEW B, Agree(ms, ts)
  PROVE  Agree(ms, ExpiredTasks(bk, ts, B))
<1>1. /\ Done("REMINDED").st # "ABSENT" /\ Missed.st # "ABSENT"
      /\ {Done("REMINDED"), Missed} \cap {Done("ACCEPTED"), Done("SENT"), Done("ALREADY_ACKNOWLEDGED")} = {}
  BY OtherReasons
<1>2. \A S : Agree(ms, UpdateTasks(ts, S, "OPEN", Done("REMINDED")))
  BY <1>1, AgreeUpdate
<1>3. \A S, P : Agree(ms, UpdateTasks(UpdateTasks(ts, S, "OPEN", Done("REMINDED")), P, "OPEN", Missed))
  BY <1>1, <1>2, AgreeUpdate
<1> QED
  BY <1>3 DEF ExpiredTasks

\* Messages and steps of a new booking, where there were none, agree with the rest.
LEMMA PlannedAgree ==
  ASSUME NEW bk \in Bookkeeping, NEW ms \in Messages, NEW ts, NEW b \in Bookings, Agree(ms, ts),
         \A m \in RowsOf(b) : ms[m].st = "ABSENT" /\ ~Gone(ms[m])
  PROVE  Agree(PlannedMessages(bk, ms, b), PlannedTasks(bk, ms, ts, b))
<1> DEFINE acked == EarlierAcknowledgement(bk, ms, b) = "ACCEPTED"
           R == {b} \X (({"PARENT_CONFIRMATION"} \cup (IF acked THEN {} ELSE {"ACKNOWLEDGEMENT"})) \cap MessageSteps)
           ns == PlannedMessages(bk, ms, b)
           us == PlannedTasks(bk, ms, ts, b)
<1>1. Rewrites(ms, ns, RowsOf(b))
  BY PlannedRewrites
<1>2. ns = IF bk[b].redemo THEN ms ELSE AddMessages(bk, ms, R)
  BY DEF PlannedMessages
<1>3. \A m \in Rows \ R : AddMessages(bk, ms, R)[m] = ms[m]
  BY DEF AddMessages, Refresh
<1>4. \A m \in Rows : us[m] = IF bk[b].redemo \/ m[1] # b THEN ts[m]
                              ELSE IF acked /\ IsAck(m) THEN Done("ALREADY_ACKNOWLEDGED") ELSE Open
  BY DEF PlannedTasks, Rows, TaskRows, MessageSteps
<1>5. \A m \in Rows : m[1] = b <=> m \in RowsOf(b)
  BY DEF Rows, RowsOf
<1>6. acked => \A m \in Rows : IsAck(m) => m \notin R
  BY DEF IsAck
<1> HIDE DEF R, ns, us, acked
<1>7. /\ Open.st # "ABSENT" /\ Open \notin {Done("ACCEPTED"), Done("SENT"), Done("ALREADY_ACKNOWLEDGED")}
      /\ Done("ALREADY_ACKNOWLEDGED").st # "ABSENT"
      /\ Done("ALREADY_ACKNOWLEDGED") \notin {Done("ACCEPTED"), Done("SENT")}
  BY OtherReasons DEF Done
<1>8. TasksFollow(ts, us, ns, RowsOf(b))
  <2> SUFFICES ASSUME NEW m \in Rows
               PROVE  /\ us[m] # ts[m] => /\ us[m].st # "ABSENT" /\ us[m] \notin {Done("ACCEPTED"), Done("SENT")}
                                          /\ ns[m].st \notin HandedOver
                      /\ m \in RowsOf(b) /\ ns[m].st # "ABSENT" => us[m].st # "ABSENT"
                      /\ us[m] = Done("ALREADY_ACKNOWLEDGED") =>
                           \/ us[m] = ts[m] /\ m \notin RowsOf(b)
                           \/ IsAck(m) /\ ns[m].st = "ABSENT"
    BY DEF TasksFollow
  <2>1. CASE m[1] # b
    BY <1>4, <1>5, <2>1
  <2>2. CASE m[1] = b /\ bk[b].redemo
    <3>1. ns[m].st = "ABSENT" /\ us[m] = ts[m]
      BY <1>2, <1>4, <1>5, <2>2
    <3>2. ts[m] = Done("ALREADY_ACKNOWLEDGED") => IsAck(m)
      BY DEF Agree, RowAgrees
    <3> QED
      BY <3>1, <3>2
  <2>3. CASE m[1] = b /\ ~bk[b].redemo
    <3>1. ns[m].st \notin HandedOver
      BY <1>1, <1>5, <2>3 DEF Rewrites, Rewritten, HandedOver
    <3>2. CASE acked /\ IsAck(m)
      <4>1. ns[m].st = "ABSENT"
        BY <1>2, <1>3, <1>5, <1>6, <2>3, <3>2
      <4>2. us[m] = Done("ALREADY_ACKNOWLEDGED")
        BY <1>4, <2>3, <3>2
      <4> QED
        BY <1>7, <3>1, <3>2, <4>1, <4>2
    <3>3. CASE ~(acked /\ IsAck(m))
      <4>1. us[m] = Open
        BY <1>4, <2>3, <3>3
      <4> QED
        BY <1>7, <3>1, <4>1
    <3> QED
      BY <3>2, <3>3
  <2> QED
    BY <2>1, <2>2, <2>3
<1>9. Agree(ns, us)
  BY <1>1, <1>8, AgreeKept
<1> QED
  BY <1>9 DEF ns, us

\* So do the later messages and steps when an acknowledgement is settled.
LEMMA SettledAgree ==
  ASSUME NEW bk, NEW ms \in Messages, NEW ts, NEW m, NEW L, Agree(ms, ts)
  PROVE  Agree(SettledMessages(bk, ms, m, L), SettledTasks(ms, ts, m, L))
<1> DEFINE S == SettledRows(ms, L)
           us == UpdateTasks(ts, S, "OPEN", Done("ALREADY_ACKNOWLEDGED"))
           ns == CancelMessages(ms, S, "NOT_NEEDED")
<1>1. CASE ms[m].st \notin HandedOver
  <2>1. Rewrites(ms, SettledMessages(bk, ms, m, L), {})
    BY SettledRewrites
  <2>2. Agree(SettledMessages(bk, ms, m, L), ts)
    BY <2>1, AgreeSameTasks
  <2> QED
    BY <1>1, <2>2 DEF SettledTasks
<1>2. CASE ms[m].st \in HandedOver
  <2>1. Rewrites(ms, ns, {})
    BY CancelRewrites
  <2>2. \A n \in Rows : us[n] = ts[n] \/ (us[n] = Done("ALREADY_ACKNOWLEDGED") /\ n \in S /\ ts[n].st = "OPEN")
    BY DEF UpdateTasks, Rows, TaskRows, MessageSteps
  <2>3. \A n \in S : n \in Rows /\ IsAck(n) /\ Cancellable(ms[n])
    BY DEF SettledRows, Refreshable, Outstanding, Cancellable, Selected, Unsent, Unknown, Undelivered
  <2>4. \A n \in S : ns[n].st = "CANCELLED"
    <3>1. \A n \in S : ns[n] = Cancelled(ms[n], "NOT_NEEDED")
      BY <2>3 DEF CancelMessages
    <3> QED
      BY <2>3, <3>1 DEF Cancelled, Messages, Message
  <2> HIDE DEF us, ns, S
  <2>5. /\ Done("ALREADY_ACKNOWLEDGED").st # "ABSENT"
        /\ Done("ALREADY_ACKNOWLEDGED") \notin {Done("ACCEPTED"), Done("SENT")}
    BY DEF Done
  <2>6. TasksFollow(ts, us, ns, {})
    BY <2>2, <2>3, <2>4, <2>5 DEF TasksFollow
  <2>7. Agree(ns, us)
    BY <2>1, <2>6, AgreeKept
  <2> QED
    BY <1>2, <2>7 DEF SettledMessages, SettledTasks, ns, us, S
<1> QED
  BY <1>1, <1>2

\* And the later ones of an acknowledgement released.
LEMMA ReleasedAgree ==
  ASSUME NEW bk \in Bookkeeping, NEW ms \in Messages, NEW ts, NEW L, OnlyPendingClaimed(ms), Agree(ms, ts)
  PROVE  Agree(ReleasedMessages(bk, ms, ts, L), ReleasedTasks(bk, ts, L))
<1> DEFINE R == Releasable(bk, ts, L)
           us == ReleasedTasks(bk, ts, L)
           ns == ReleasedMessages(bk, ms, ts, L)
<1>1. Rewrites(ms, ns, R)
  BY ReleasedRewrites
<1>2. \A n \in Rows : us[n] = IF n \in R THEN Open ELSE ts[n]
  BY DEF ReleasedTasks, Rows, TaskRows, MessageSteps
<1>3. \A n \in R : ts[n] = Done("ALREADY_ACKNOWLEDGED")
  BY DEF Releasable
<1> HIDE DEF R, us, ns
<1>4. Open.st # "ABSENT" /\ Open \notin {Done("ACCEPTED"), Done("SENT"), Done("ALREADY_ACKNOWLEDGED")}
  BY OtherReasons
<1>5. TasksFollow(ts, us, ns, R)
  BY <1>2, <1>3, <1>4 DEF TasksFollow
<1>6. Agree(ns, us)
  BY <1>1, <1>5, AgreeKept
<1> QED
  BY <1>6 DEF ns, us

\* One message written, and its step, leave the rest in agreement.
LEMMA AgreeRow ==
  ASSUME NEW ms \in Messages, NEW ts, NEW us, NEW m \in Rows, NEW x, Agree(ms, ts),
         \A n \in Rows \ {m} : us[n] = ts[n], RowAgrees(m, x, us[m])
  PROVE  Agree([ms EXCEPT ![m] = x], us)
<1>1. \A n \in Rows : [ms EXCEPT ![m] = x][n] = IF n = m THEN x ELSE ms[n]
  BY DEF Messages
<1> QED
  BY <1>1 DEF Agree

-----------------------------------------------------------------------------
(* What reports make of a message *)

\* A report only moves a message up, to a status it gave.
LEMMA ProgressedUp ==
  ASSUME NEW x \in Message, NEW S, x.st \in HandedOver
  PROVE  \/ Progressed(x, S) = x
         \/ \E st \in S \cap HandedOver : Rank[st] > Rank[x.st] /\ Progressed(x, S) = [x EXCEPT !.st = st]
BY HighestReport DEF Progressed, Higher

\* Reports leave a message handed over its text, and move it up to a status they
\* gave, or to a delivery failure from Queued or Sent.
LEMMA AppliedRight ==
  ASSUME NEW x \in Message, x.st \in HandedOver, NEW c \in Callback
  PROVE  LET y == Applied(x, c) IN
         /\ y.body = x.body /\ y.claim = x.claim /\ y.pid = x.pid
         /\ \/ y.st \in HandedOver /\ Rank[y.st] >= Rank[x.st] /\ (y.st = x.st \/ y.st \in c.first \cup c.after)
            \/ x.st \in {"QUEUED", "SENT"} /\ y.st = "FAILED" /\ y.code = "UNDELIVERED"
<1> DEFINE y == Progressed(x, c.first)
           z == IF c.fails THEN DeliveryFailed(y) ELSE y
           w == Progressed(z, c.after)
<1>1. Applied(x, c) = w
  BY DEF Applied
<1>2. /\ y \in Message /\ y.body = x.body /\ y.claim = x.claim /\ y.pid = x.pid
      /\ y.st \in HandedOver /\ Rank[y.st] >= Rank[x.st] /\ (y.st = x.st \/ y.st \in c.first)
  BY ProgressedUp, ProgressedType, RankType DEF Message
<1>3. y.st \in {"QUEUED", "SENT"} => x.st \in {"QUEUED", "SENT"}
  BY <1>2 DEF Rank, HandedOver
<1>4. z \in Message /\ z.body = y.body /\ z.claim = y.claim /\ z.pid = y.pid
      /\ (z = y \/ (y.st \in {"QUEUED", "SENT"} /\ z.st = "FAILED" /\ z.code = "UNDELIVERED"))
  <2> HIDE DEF y
  <2>1. \/ z = y
        \/ y.st \in {"QUEUED", "SENT"} /\ z = [y EXCEPT !.st = "FAILED", !.code = "UNDELIVERED"]
    BY DEF DeliveryFailed
  <2> HIDE DEF z
  <2>2. [y EXCEPT !.st = "FAILED", !.code = "UNDELIVERED"] \in Message
    BY <1>2 DEF Message, Unsent, FailureCodes
  <2> QED
    BY <1>2, <2>1, <2>2 DEF Message
<1> HIDE DEF y, z
<1>5. CASE z = y
  <2>1. /\ w.body = z.body /\ w.claim = z.claim /\ w.pid = z.pid
        /\ w.st \in HandedOver /\ Rank[w.st] >= Rank[z.st] /\ (w.st = z.st \/ w.st \in c.after)
    BY <1>2, <1>4, <1>5, ProgressedUp, RankType DEF Message
  <2> HIDE DEF w
  <2>2. Rank[w.st] >= Rank[x.st]
    BY <1>2, <1>5, <2>1, RankType
  <2> QED
    BY <1>1, <1>2, <1>5, <2>1, <2>2
<1>6. CASE z # y
  <2>1. w = z
    BY <1>4, <1>6 DEF Progressed, HandedOver
  <2> QED
    BY <1>1, <1>2, <1>3, <1>4, <1>6, <2>1
<1> QED
  BY <1>5, <1>6

\* A message handed over and its step agree once reports are applied to both.
LEMMA AppliedAgree ==
  ASSUME NEW ms \in Messages, NEW ts \in Tasks, NEW c \in Callback, c.m \in Rows, Agree(ms, ts),
         ms[c.m].st \in HandedOver, ms[c.m].pid
  PROVE  Agree([ms EXCEPT ![c.m] = Applied(ms[c.m], c)], AppliedTasks(ts, c, ms[c.m]))
<1> DEFINE m == c.m
           x == ms[m]
           y == Applied(x, c)
           u == AppliedTasks(ts, c, x)[m]
           counted == IF c.fails /\ Undelivered(y) THEN c.first ELSE c.first \cup c.after
<1>1. x \in Message /\ RowAgrees(m, x, ts[m])
  BY DEF Messages, Agree
<1>2. /\ y.pid = x.pid
      /\ \/ y.st \in HandedOver /\ (y.st = x.st \/ y.st \in c.first \cup c.after)
         \/ y.st = "FAILED"
  BY <1>1, AppliedRight
<1>3. AppliedTasks(ts, c, x) = IF "SENT" \in counted /\ ts[m] = Done("ACCEPTED")
                               THEN [ts EXCEPT ![m] = Done("SENT")] ELSE ts
  BY DEF AppliedTasks
<1>4. m \in TaskRows
  BY DEF Rows, TaskRows, MessageSteps
<1>5. y.st \in HandedOver => counted = c.first \cup c.after
  BY DEF Undelivered, HandedOver
<1> HIDE DEF counted, y, x, m
<1>6. \A n \in Rows \ {m} : AppliedTasks(ts, c, x)[n] = ts[n]
  BY <1>3, <1>4 DEF Tasks
<1>7. u = IF "SENT" \in counted /\ ts[m] = Done("ACCEPTED") THEN Done("SENT") ELSE ts[m]
  BY <1>3, <1>4 DEF Tasks
<1> HIDE DEF u
<1>8. x.st \in HandedOver /\ x.pid
  BY DEF x, m
<1>9. Done("SENT").st = "DONE" /\ Done("SENT") \notin {Done("ACCEPTED"), Done("ALREADY_ACKNOWLEDGED")}
  BY DEF Done
<1>10. RowAgrees(m, y, u)
  <2>1. ts[m] # Done("ALREADY_ACKNOWLEDGED") /\ ts[m].st \in {"DONE", "CANCELLED"}
    BY <1>1, <1>8 DEF RowAgrees, HandedOver
  <2>2. y.st \in HandedOver \/ Undelivered(y)
    BY <1>2, <1>8 DEF Undelivered
  <2>3. y.st = "SENT" => u # Done("ACCEPTED")
    <3>1. ASSUME y.st = "SENT", x.st # "SENT" PROVE "SENT" \in counted
      BY <1>2, <1>5, <3>1
    <3>2. x.st = "SENT" => ts[m] # Done("ACCEPTED")
      BY <1>1 DEF RowAgrees
    <3> QED
      BY <1>7, <1>9, <3>1, <3>2
  <2> QED
    BY <1>7, <1>9, <2>1, <2>2, <2>3 DEF RowAgrees
<1>11. Agree([ms EXCEPT ![m] = y], AppliedTasks(ts, c, x))
  BY <1>6, <1>10, AgreeRow DEF m, u
<1> QED
  BY <1>11 DEF m, x, y

-----------------------------------------------------------------------------
(* Chains of bookings *)

\* A booking replaced others, one after the other, each made before it and moved
\* for good.
ChainsInLine ==
  /\ \A b \in Bookings : booking[b].st = "ABSENT" => booking[b].earlier = {}
  /\ \A b \in Bookings : \A a \in booking[b].earlier : a # b /\ booking[a].st = "RESCHEDULED"
  /\ \A b \in Bookings : \A a, c \in booking[b].earlier : a = c \/ a \in booking[c].earlier \/ c \in booking[a].earlier
\* A transaction settles or releases only what came after its own booking: all of
\* it, but what was made since it read the chain.
ReadersKnow ==
  /\ \A s \in sends :
       /\ s.later \subseteq Later(booking, s.m[1])
       /\ s.pc = "recording" /\ IsAck(s.m) => Later(booking, s.m[1]) \ overlooked \subseteq s.later
  /\ \A c \in callbacks :
       /\ c.later \subseteq Later(booking, c.m[1])
       /\ c.pc = "applying" =>
            IsAck(c.m) /\ {b \in Later(booking, c.m[1]) : booking[b].st = "BOOKED"} \ overlooked \subseteq c.later
ChainSound == ChainsInLine /\ ReadersKnow

\* How bookings change: one there is keeps its chain, never comes back once moved,
\* and is never again booked nor to come; a new one begins a chain or moves one on,
\* and is overlooked by a transaction that had read that chain.
Evolves ==
  /\ overlooked \subseteq overlooked'
  /\ \A b \in Bookings : booking[b].st # "ABSENT" =>
       /\ booking'[b].st # "ABSENT" /\ booking'[b].earlier = booking[b].earlier
       /\ booking[b].st = "RESCHEDULED" => booking'[b].st = "RESCHEDULED"
       /\ booking'[b].st = "BOOKED" => booking[b].st = "BOOKED"
       /\ Upcoming(booking'[b]) => Upcoming(booking[b])
  /\ \A b \in Bookings : booking[b].st = "ABSENT" =>
       \/ booking'[b] = booking[b]
       \/ booking'[b].st = "BOOKED" /\ booking'[b].earlier = {}
       \/ /\ booking'[b].st = "BOOKED"
          /\ \E a \in Bookings : /\ booking[a].st = "BOOKED" /\ booking'[a].st = "RESCHEDULED"
                                 /\ booking'[b].earlier = booking[a].earlier \cup {a}
                                 /\ ReadChain(a) => b \in overlooked'
\* How transactions read the chain: what they have read they keep.
Reads ==
  /\ \A s \in sends' :
       \/ s.later = {} /\ s.pc # "recording"
       \/ UNCHANGED booking /\ s.later = IF IsAck(s.m) THEN Later(booking, s.m[1]) ELSE {}
       \/ \E t \in sends : t.m = s.m /\ t.later = s.later /\ (s.pc = "recording" => t.pc = "recording")
  /\ \A c \in callbacks' :
       \/ c \in callbacks
       \/ c.later = {} /\ c.pc = "looked"
       \/ UNCHANGED booking /\ IsAck(c.m) /\ c.later = {b \in Later(booking, c.m[1]) : booking[b].st = "BOOKED"}

LEMMA InitChain == Init => ChainSound
<1> SUFFICES ASSUME Init PROVE ChainSound
  OBVIOUS
<1>1. PICK d \in Details : booking = [b \in Bookings |-> [NewBooking(d, {}, FALSE) EXCEPT !.st = "ABSENT"]]
  BY DEF Init
<1>2. [NewBooking(d, {}, FALSE) EXCEPT !.st = "ABSENT"].earlier = {}
  BY DEF NewBooking
<1> QED
  BY <1>1, <1>2 DEF Init, ChainSound, ChainsInLine, ReadersKnow

\* Every step lets bookings change so.
LEMMA NextEvolves == TypeOK /\ [Next]_vars => Evolves
<1> SUFFICES ASSUME TypeOK, [Next]_vars PROVE Evolves
  OBVIOUS
<1>0. \A b \in Bookings : booking[b] \in Booking
  BY DEF TypeOK
<1>1. ASSUME UNCHANGED <<booking, overlooked>> PROVE Evolves
  BY <1>1 DEF Evolves
<1>2. ASSUME NEW b \in Bookings, NEW d \in Details, NEW redemo \in Redemos, Book(b, d, redemo) PROVE Evolves
  <2>1. /\ \A e \in Bookings \ {b} : booking'[e] = booking[e]
        /\ booking[b].st = "ABSENT" /\ booking'[b].earlier = {} /\ booking'[b].st = "BOOKED" /\ UNCHANGED overlooked
    BY <1>2 DEF Book, TypeOK, NewBooking
  <2> QED
    BY <2>1 DEF Evolves
<1>3. ASSUME NEW b \in Bookings, NEW c \in Bookings, NEW d \in Details, Reschedule(b, c, d) PROVE Evolves
  <2>1. /\ \A e \in Bookings \ {b, c} : booking'[e] = booking[e]
        /\ booking'[c].earlier = booking[b].earlier \cup {b} /\ booking'[c].st = "BOOKED"
    BY <1>3 DEF Reschedule, TypeOK, NewBooking
  <2>2. b # c /\ booking[c].st = "ABSENT" /\ booking[b].st = "BOOKED"
    BY <1>3 DEF Reschedule
  <2>3. booking'[b].earlier = booking[b].earlier /\ booking'[b].st = "RESCHEDULED"
    BY <1>0, <1>3, <2>2 DEF Reschedule, TypeOK, Booking
  <2>4. overlooked \subseteq overlooked' /\ (ReadChain(b) => c \in overlooked')
    BY <1>3 DEF Reschedule
  <2> QED
    BY <2>1, <2>2, <2>3, <2>4 DEF Evolves, Upcoming
<1>4. ASSUME NEW b \in Bookings,
             \/ CancelBooking(b) \/ NotConfirmed(b) \/ ParentConfirmed(b) \/ StartBooking(b) \/ Complete(b)
             \/ \E d \in Details : ChangeDetails(b, d) \/ ChangeDetailsUnseen(b, d)
             \/ Tick(b) \/ AfterWindowCloses(b)
      PROVE  Evolves
  <2>1. /\ \A e \in Bookings \ {b} : booking'[e] = booking[e]
        /\ UNCHANGED overlooked
    BY <1>4 DEF CancelBooking, NotConfirmed, Close, ParentConfirmed, StartBooking, Complete, ChangeDetails,
       ChangeDetailsUnseen, Tick, AfterWindowCloses, TypeOK
  <2> DEFINE Fine == /\ booking[b].st \in {"BOOKED", "COMPLETED"} /\ booking'[b].earlier = booking[b].earlier
                     /\ \/ booking'[b].st = booking[b].st
                        \/ booking'[b].st \in {"CANCELLED", "COMPLETED"}
                     /\ booking'[b].time < Running => booking[b].time < Running
  <2>2. CASE CancelBooking(b) \/ NotConfirmed(b)
    <3>1. Fine
      BY <1>0, <2>2 DEF CancelBooking, NotConfirmed, Active, Upcoming, Close, TypeOK, Booking
    <3> QED
      BY <2>1, <3>1 DEF Evolves, Upcoming
  <2>3. CASE ParentConfirmed(b) \/ StartBooking(b)
    <3>1. Fine
      BY <1>0, <2>3 DEF ParentConfirmed, Active, Upcoming, StartBooking, TypeOK, Booking
    <3> QED
      BY <2>1, <3>1 DEF Evolves, Upcoming
  <2>4. CASE Complete(b)
    <3>1. Fine
      BY <1>0, <2>4 DEF Complete, TypeOK, Booking
    <3> QED
      BY <2>1, <3>1 DEF Evolves, Upcoming
  <2>5. CASE \E d \in Details : ChangeDetails(b, d) \/ ChangeDetailsUnseen(b, d)
    <3>1. Fine
      BY <1>0, <2>5 DEF ChangeDetails, ChangeDetailsUnseen, TypeOK, Booking
    <3> QED
      BY <2>1, <3>1 DEF Evolves, Upcoming
  <2>6. CASE Tick(b) \/ AfterWindowCloses(b)
    <3>1. Fine
      BY <1>0, <2>6 DEF Tick, AfterWindowCloses, TypeOK, Booking, Before, Running, Over
    <3> QED
      BY <2>1, <3>1 DEF Evolves, Upcoming
  <2> QED
    BY <1>4, <2>2, <2>3, <2>4, <2>5, <2>6
<1>5. ASSUME NEW b \in Bookings, \/ RequestConfirmation(b)
                                \/ \E outcome \in CallOutcomes : RecordCallOutcome(b, outcome)
      PROVE  Evolves
  BY <1>1, <1>5 DEF RequestConfirmation, RecordCallOutcome
<1>6. BookingStep => Evolves
  BY <1>2, <1>3, <1>4, <1>5 DEF BookingStep
<1>7. MessageStep => UNCHANGED <<booking, overlooked>>
  <2>1. ASSUME NEW m \in Rows, \/ RetryComes(m) \/ RefreshWaiting(m) \/ Claim(m) \/ Recover(m) \/ PurgeUnmatched(m)
                              \/ \E r \in Reports : CallbackUnmatched(m, r)
        PROVE  UNCHANGED <<booking, overlooked>>
    BY <2>1 DEF RetryComes, RefreshWaiting, Claim, Recover, CallbackUnmatched, PurgeUnmatched
  <2>2. ASSUME NEW m \in Rows, Reconcile(m) \/ \E r \in Reports : CallbackMatched(m, r)
        PROVE  UNCHANGED <<booking, overlooked>>
    BY <2>2 DEF CallbackMatched, Reconcile, ApplyReports
  <2> QED
    BY <2>1, <2>2 DEF MessageStep
<1>8. (SendStep \/ CallbackStep \/ CloseExpired \/ UNCHANGED vars) => UNCHANGED <<booking, overlooked>>
  BY DEF SendStep, ProviderAnswers, SenderStops, BeginRecord, Record, CallbackStep, KeepReport, CommitFailure,
     CloseExpired, vars
<1> QED
  BY <1>1, <1>6, <1>7, <1>8 DEF Next

\* Every step reads the chain so.
LEMMA NextReads == TypeOK /\ [Next]_vars => Reads
<1> SUFFICES ASSUME TypeOK, [Next]_vars PROVE Reads
  OBVIOUS
<1>1. ASSUME \A s \in sends' : s \in sends \/ (s.later = {} /\ s.pc # "recording"),
             \A c \in callbacks' : c \in callbacks \/ (c.later = {} /\ c.pc = "looked")
      PROVE  Reads
  BY <1>1 DEF Reads
<1>2. BookingStep => UNCHANGED <<sends, callbacks>>
  BY DEF BookingStep, Book, Reschedule, CancelBooking, NotConfirmed, Close, ParentConfirmed, StartBooking, Complete,
     RequestConfirmation, RecordCallOutcome, ChangeDetails, ChangeDetailsUnseen, Tick, AfterWindowCloses, Sending
<1>3. CloseExpired \/ UNCHANGED vars => UNCHANGED <<sends, callbacks>>
  BY DEF CloseExpired, Sending, vars
<1>4. ASSUME NEW m \in Rows, RetryComes(m) \/ RefreshWaiting(m) \/ Claim(m) \/ Recover(m) \/ PurgeUnmatched(m)
      PROVE  Reads
  <2>1. UNCHANGED callbacks /\ \A s \in sends' : s \in sends \/ (s.later = {} /\ s.pc = "calling")
    BY <1>4 DEF RetryComes, RefreshWaiting, Claim, Recover, PurgeUnmatched, Sending
  <2> QED
    BY <1>1, <2>1
<1>5. ASSUME NEW m \in Rows, NEW r \in Reports, CallbackUnmatched(m, r) PROVE Reads
  <2>1. UNCHANGED sends /\ \A c \in callbacks' : c \in callbacks \/ (c.later = {} /\ c.pc = "looked")
    BY <1>5 DEF CallbackUnmatched
  <2> QED
    BY <1>1, <2>1
<1>6. ASSUME NEW m \in Rows, NEW first, NEW fails, NEW after, NEW kept, ApplyReports(m, first, fails, after, kept)
      PROVE  Reads
  <2> DEFINE c == [pc |-> "applying", m |-> m, first |-> first, fails |-> fails, after |-> after, kept |-> kept,
                   later |-> {b \in Later(booking, m[1]) : booking[b].st = "BOOKED"}]
  <2>1. UNCHANGED <<sends, booking>> /\ (callbacks' = callbacks \/ (IsAck(m) /\ callbacks' = callbacks \cup {c}))
    BY <1>6 DEF ApplyReports
  <2>2. c.m = m /\ c.later = {b \in Later(booking, m[1]) : booking[b].st = "BOOKED"}
    OBVIOUS
  <2> HIDE DEF c
  <2> QED
    BY <2>1, <2>2 DEF Reads
<1>7. MessageStep => Reads
  BY <1>4, <1>5, <1>6 DEF MessageStep, CallbackMatched, Reconcile
<1>8. ASSUME NEW s \in sends, NEW answer \in Answers, ProviderAnswers(s, answer) PROVE Reads
  <2> DEFINE r == [s EXCEPT !.pc = "answered", !.answer = answer]
  <2>1. r.m = s.m /\ r.later = s.later /\ r.pc = "answered"
    BY DEF TypeOK, Send
  <2>2. sends' = (sends \ {s}) \cup {r} /\ UNCHANGED callbacks
    BY <1>8 DEF ProviderAnswers
  <2> HIDE DEF r
  <2> QED
    BY <2>1, <2>2 DEF Reads
<1>9. ASSUME NEW s \in sends, BeginRecord(s) PROVE Reads
  <2> DEFINE L == IF IsAck(s.m) THEN Later(booking, s.m[1]) ELSE {}
             r == [s EXCEPT !.pc = "recording", !.later = L]
  <2>1. sends' = (sends \ {s}) \cup {r} /\ UNCHANGED <<callbacks, booking>>
    BY <1>9 DEF BeginRecord
  <2> HIDE DEF L
  <2>2. r.m = s.m /\ r.later = L
    BY DEF TypeOK, Send
  <2> HIDE DEF r
  <2> QED
    BY <2>1, <2>2 DEF Reads, L
<1>10. ASSUME NEW s \in sends, SenderStops(s) \/ \E inTime \in BOOLEAN : Record(s, inTime) PROVE Reads
  BY <1>1, <1>10 DEF SenderStops, Record
<1>11. CallbackStep => Reads
  BY <1>1 DEF CallbackStep, KeepReport, CommitFailure
<1> QED
  BY <1>1, <1>2, <1>3, <1>7, <1>8, <1>9, <1>10, <1>11 DEF Next, SendStep

\* What replaces a booking: what did, and what is made when the last of its chain is moved.
LEMMA LaterGrows ==
  ASSUME TypeOK, ChainsInLine, Evolves, NEW b \in Bookings
  PROVE  /\ Later(booking, b) \subseteq Later(booking', b)
         /\ \A c \in Later(booking', b) \ Later(booking, b) :
              /\ c \in Bookings /\ booking[c].st = "ABSENT"
              /\ \E a \in Bookings : b \in booking[a].earlier \cup {a} /\ (ReadChain(a) => c \in overlooked')
BY DEF Later, Evolves, ChainsInLine

\* Every step keeps the chains sound.
LEMMA ChainKept == TypeOK /\ ChainSound /\ [Next]_vars => ChainSound'
<1> SUFFICES ASSUME TypeOK, ChainSound, [Next]_vars PROVE ChainSound'
  OBVIOUS
<1>0. /\ Evolves /\ Reads /\ ChainsInLine /\ ReadersKnow
      /\ \A b \in Bookings : booking[b].earlier \in SUBSET Bookings
      /\ \A s \in sends : s.m[1] \in Bookings
      /\ \A c \in callbacks : c.m[1] \in Bookings
  BY NextEvolves, NextReads DEF ChainSound, TypeOK, Booking, Send, Callback, Rows
<1>1. ChainsInLine'
  <2>1. ASSUME NEW b \in Bookings, NEW a \in booking'[b].earlier
        PROVE  /\ a \in Bookings /\ booking[a].st # "ABSENT" /\ a # b /\ booking'[a].st = "RESCHEDULED"
               /\ booking'[a].earlier = booking[a].earlier
    BY <1>0, <2>1 DEF ChainsInLine, Evolves
  <2>2. ASSUME NEW b \in Bookings, NEW a \in booking'[b].earlier, NEW c \in booking'[b].earlier
        PROVE  a = c \/ a \in booking[c].earlier \/ c \in booking[a].earlier
    BY <1>0, <2>2 DEF ChainsInLine, Evolves
  <2>3. ASSUME NEW b \in Bookings, booking'[b].st = "ABSENT" PROVE booking'[b].earlier = {}
    BY <1>0, <2>3 DEF ChainsInLine, Evolves
  <2> QED
    BY <2>1, <2>2, <2>3 DEF ChainsInLine
<1>2. ASSUME NEW s \in sends'
      PROVE  /\ s.later \subseteq Later(booking', s.m[1])
             /\ s.pc = "recording" /\ IsAck(s.m) => Later(booking', s.m[1]) \ overlooked' \subseteq s.later
  <2>1. CASE s.later = {} /\ s.pc # "recording"
    BY <2>1
  <2>2. CASE UNCHANGED booking /\ s.later = IF IsAck(s.m) THEN Later(booking, s.m[1]) ELSE {}
    BY <2>2
  <2>3. ASSUME NEW t \in sends, t.m = s.m, t.later = s.later, s.pc = "recording" => t.pc = "recording"
        PROVE  /\ s.later \subseteq Later(booking', s.m[1])
               /\ s.pc = "recording" /\ IsAck(s.m) => Later(booking', s.m[1]) \ overlooked' \subseteq s.later
    <3>1. \A a \in Bookings : t.pc = "recording" /\ IsAck(t.m) /\ t.m[1] \in booking[a].earlier \cup {a} => ReadChain(a)
      BY DEF ReadChain
    <3> QED
      BY <1>0, <2>3, <3>1, LaterGrows DEF ReadersKnow, Evolves
  <2> QED
    BY <1>0, <2>1, <2>2, <2>3 DEF Reads
<1>3. ASSUME NEW c \in callbacks'
      PROVE  /\ c.later \subseteq Later(booking', c.m[1])
             /\ c.pc = "applying" =>
                  IsAck(c.m) /\ {b \in Later(booking', c.m[1]) : booking'[b].st = "BOOKED"} \ overlooked' \subseteq c.later
  <2>1. CASE c.later = {} /\ c.pc = "looked"
    BY <2>1
  <2>2. CASE UNCHANGED booking /\ IsAck(c.m) /\ c.later = {b \in Later(booking, c.m[1]) : booking[b].st = "BOOKED"}
    BY <2>2
  <2>3. CASE c \in callbacks
    <3>1. \A a \in Bookings : c.pc = "applying" /\ IsAck(c.m) /\ c.m[1] \in booking[a].earlier \cup {a} => ReadChain(a)
      BY <2>3 DEF ReadChain
    <3>2. c.later \subseteq Later(booking', c.m[1])
      BY <1>0, <2>3, LaterGrows DEF ReadersKnow
    <3>3. ASSUME c.pc = "applying", NEW b \in Later(booking', c.m[1]) \ overlooked', booking'[b].st = "BOOKED"
          PROVE  b \in c.later
      <4>1. IsAck(c.m) /\ c.m[1] \in Bookings
        BY <1>0, <2>3, <3>3 DEF ReadersKnow
      <4>2. b \in Later(booking, c.m[1])
        BY <1>0, <2>3, <3>1, <3>3, <4>1, LaterGrows
      <4>3. booking[b].st = "BOOKED" /\ b \notin overlooked
        BY <1>0, <3>3, <4>1, <4>2 DEF Evolves, ChainsInLine, Later
      <4> QED
        BY <1>0, <2>3, <3>3, <4>2, <4>3 DEF ReadersKnow
    <3> QED
      BY <1>0, <2>3, <3>2, <3>3 DEF ReadersKnow
  <2> QED
    BY <1>0, <2>1, <2>2, <2>3 DEF Reads
<1>4. ReadersKnow'
  BY <1>2, <1>3 DEF ReadersKnow, Later
<1> QED
  BY <1>1, <1>4 DEF ChainSound

-----------------------------------------------------------------------------
(* The invariant *)

\* At first nothing is sent and nothing was taken.
LEMMA InitDelivery == Init => DeliveryInv
<1> SUFFICES ASSUME Init PROVE DeliveryInv
  OBVIOUS
<1>1. sends = {} /\ \A m \in Rows : msg[m] = NoMessage /\ taken[m] = 0 /\ task[m] = NoTask
  BY DEF Init, Rows, TaskRows, MessageSteps
<1>2. NoMessage.st = "ABSENT" /\ NoMessage.claim = 0 /\ ~NoMessage.pid
  BY DEF NoMessage
<1>3. SendInv
  BY <1>1, <1>2 DEF SendInv, ClaimsMatch, ClaimedIsPending, TakenIsGone, NoneBeforeBooking, HandedOver
<1>4. Sound(msg) /\ NoneLeft(booking, msg)
  BY <1>1, <1>2 DEF Sound, RowSound, NoneLeft, Cancellable, Selected, Unsent
<1>5. NoTask.st = "ABSENT" /\ \A res : NoTask # Done(res)
  BY DEF NoTask, Done
<1>6. Agree(msg, task)
  BY <1>1, <1>2, <1>5 DEF Agree, RowAgrees, HandedOver
<1> QED
  BY <1>3, <1>4, <1>6 DEF DeliveryInv

\* The message of a send under way is gone.
LEMMA SentIsGone ==
  ASSUME TypeOK, SendInv, NEW s \in sends
  PROVE  s \in Send /\ s.m \in Rows /\ Gone(msg[s.m])
BY DEF TypeOK, Send, SendInv, ClaimsMatch, Gone

\* A step that leaves bookings, messages and steps as they are.
LEMMA SameKeeps ==
  ASSUME TypeOK, DeliveryInv, SendInv', UNCHANGED <<booking, msg, task>>
  PROVE  StepRight
<1>1. \A m \in Rows : RowHistory(m, msg[m], msg'[m]) /\ RowClaim(m, msg[m], msg'[m]) /\ RowFresh(m, msg[m], msg'[m])
  BY SameHistory
<1>2. (Sound(msg) /\ NoneLeft(booking, msg) /\ Agree(msg, task))'
  BY DEF DeliveryInv, Sound, NoneLeft, Agree
<1> QED
  BY <1>1, <1>2 DEF StepRight, DeliveryInv

\* A step of the planner alone: messages rewritten, sends and provider left
\* alone, new messages only for bookings that are made.
LEMMA RewriteKeeps ==
  ASSUME TypeOK, DeliveryInv, NEW R, Rewrites(msg, msg', R), UNCHANGED <<sends, taken>>,
         \A m \in R \cap Rows : booking'[m[1]].st # "ABSENT" /\ (msg[m].st = "ABSENT" \/ Upcoming(booking[m[1]])),
         \A b \in Bookings : booking'[b].st = "ABSENT" => booking[b].st = "ABSENT",
         NoneLeft(booking', msg'), Agree(msg', task')
  PROVE  StepRight
<1>0. SendInv /\ Sound(msg) /\ \A m \in Rows : m[1] \in Bookings
  BY DEF DeliveryInv, Rows
<1>1. \A m \in Rows : Rewritten(msg[m], msg'[m])
  BY DEF Rewrites
<1>2. ClaimsMatch'
  <2>1. \A s \in sends : s.m \in Rows /\ msg'[s.m] = msg[s.m]
    BY <1>0, <1>1, SentIsGone DEF Rewritten
  <2> QED
    BY <1>0, <2>1 DEF SendInv, ClaimsMatch, Unknown
<1>3. ClaimedIsPending'
  BY <1>0, <1>1 DEF SendInv, ClaimedIsPending, Rewritten, HandedOver
<1>4. TakenIsGone'
  BY <1>0, <1>1 DEF SendInv, TakenIsGone, Rewritten, Gone
<1>5. NoneBeforeBooking'
  BY <1>0 DEF SendInv, NoneBeforeBooking, Rewrites, Selected, Unsent
<1>6. ASSUME NEW m \in Rows, msg'[m] # msg[m]
      PROVE  Selected(msg[m]) \/ msg[m].st = "ABSENT" \/ (Revivable(m, msg[m]) /\ Upcoming(booking[m[1]]))
  <2>1. Selected(msg[m]) \/ (m \in R /\ Revivable(m, msg[m]))
    BY <1>6 DEF Rewrites
  <2> QED
    BY <2>1
<1>7. \A m \in Rows : /\ RowHistory(m, msg[m], msg'[m]) /\ RowClaim(m, msg[m], msg'[m]) /\ RowFresh(m, msg[m], msg'[m])
                      /\ RowSound(msg[m]) => RowSound(msg'[m])
  BY <1>1, <1>6, RewrittenHistory
<1>8. Sound(msg)'
  BY <1>0, <1>7 DEF Sound
<1>9. SendInv'
  BY <1>2, <1>3, <1>4, <1>5 DEF SendInv
<1> QED
  BY <1>7, <1>8, <1>9 DEF StepRight, DeliveryInv

\* A step that makes no message and closes nothing.
LEMMA QuietKeeps ==
  ASSUME TypeOK, DeliveryInv, Rewrites(msg, msg', {}), UNCHANGED <<sends, taken>>,
         \A m \in Rows : Closed(booking', m) => Closed(booking, m),
         \A b \in Bookings : booking'[b].st = "ABSENT" => booking[b].st = "ABSENT",
         Agree(msg', task')
  PROVE  StepRight
<1>1. NoneLeft(booking', msg')
  BY NoneLeftKept DEF DeliveryInv
<1> QED
  BY <1>1, RewriteKeeps

\* Every change to a booking keeps the invariant.
LEMMA BookingStepRight == TypeOK /\ DeliveryInv /\ ChainSound /\ BookingStep => StepRight
<1> SUFFICES ASSUME TypeOK, DeliveryInv, ChainSound, NEW b \in Bookings,
                    \/ \E d \in Details, redemo \in Redemos : Book(b, d, redemo)
                    \/ \E c \in Bookings, d \in Details : Reschedule(b, c, d)
                    \/ CancelBooking(b) \/ NotConfirmed(b) \/ ParentConfirmed(b)
                    \/ StartBooking(b) \/ Complete(b)
                    \/ RequestConfirmation(b)
                    \/ \E outcome \in CallOutcomes : RecordCallOutcome(b, outcome)
                    \/ \E d \in Details : ChangeDetails(b, d) \/ ChangeDetailsUnseen(b, d)
                    \/ Tick(b) \/ AfterWindowCloses(b)
             PROVE  StepRight
  BY DEF BookingStep
<1>0. /\ booking \in Bookkeeping /\ msg \in Messages /\ task \in Tasks /\ booking' \in Bookkeeping
      /\ \A m \in Rows : msg[m] \in Message /\ m[1] \in Bookings
      /\ \A c \in Bookings : booking[c] \in Booking
  <2>1. BookingStep
    BY DEF BookingStep
  <2>2. TypeOK'
    BY <2>1, BookingStepType
  <2> QED
    BY <2>2 DEF TypeOK, Bookkeeping, Messages, Tasks, Rows
<1>a. \A c \in Bookings : booking[c].st = "ABSENT" => \A m \in RowsOf(c) : msg[m].st = "ABSENT" /\ ~Gone(msg[m])
  BY DEF DeliveryInv, SendInv, NoneBeforeBooking, ClaimedIsPending, RowsOf, Rows, Gone, Unknown, Undelivered, HandedOver
<1>b. Rewrites(msg, msg, {}) /\ NoneLeft(booking, msg) /\ Agree(msg, task)
  BY DEF Rewrites, Rewritten, DeliveryInv
<1>c. \A m \in Rows, c \in Bookings : m[1] = c <=> m \in RowsOf(c)
  BY DEF Rows, RowsOf
<1>1. ASSUME NEW d \in Details, NEW redemo \in Redemos, Book(b, d, redemo) PROVE StepRight
  <2>1. booking[b].st = "ABSENT" /\ UNCHANGED <<sends, taken>>
        /\ msg' = PlannedMessages(booking', msg, b) /\ task' = PlannedTasks(booking', msg, task, b)
    BY <1>1 DEF Book, Sending
  <2>2. Rewrites(msg, msg', RowsOf(b)) /\ Agree(msg', task')
    BY <1>0, <1>a, <1>b, <2>1, PlannedRewrites, PlannedAgree
  <2>3. /\ booking'[b].st = "BOOKED" /\ ~booking'[b].confirmed
        /\ \A c \in Bookings \ {b} : booking'[c] = booking[c]
    BY <1>0, <1>1 DEF Book, Bookkeeping, NewBooking
  <2>4. \A m \in Rows : Closed(booking', m) => Closed(booking, m) /\ m \notin RowsOf(b)
    BY <1>0, <1>c, <2>3 DEF Closed
  <2>5. NoneLeft(booking', msg')
    BY <1>b, <2>2, <2>4, NoneLeftKept
  <2>6. \A m \in RowsOf(b) : m[1] = b /\ msg[m].st = "ABSENT"
    BY <1>a, <2>1 DEF RowsOf
  <2> QED
    BY <2>1, <2>2, <2>3, <2>5, <2>6, RewriteKeeps
<1>2. ASSUME NEW c \in Bookings, NEW d \in Details, Reschedule(b, c, d) PROVE StepRight
  <2> DEFINE stopped == ClosedMessages(msg, b, "BOOKING_RESCHEDULED")
             left == ClosedTasks(task, b, "BOOKING_RESCHEDULED")
  <2>1. stopped \in Messages /\ Rewrites(msg, stopped, RowsOf(c)) /\ Rewrites(msg, stopped, {})
    BY <1>0, ClosedType, CancelRewrites DEF ClosedMessages
  <2>2. \A m \in RowsOf(c) : msg[m].st = "ABSENT" /\ stopped[m].st = "ABSENT" /\ ~Gone(stopped[m])
    <3>1. \A m \in RowsOf(c) : m \in Rows /\ msg[m].st = "ABSENT" /\ ~Gone(msg[m])
      BY <1>a, <1>2 DEF Reschedule, RowsOf, Rows
    <3>2. \A m \in RowsOf(c) : stopped[m] = msg[m]
      BY <3>1 DEF ClosedMessages, CancelMessages, Cancellable, Selected, Unsent
    <3> QED
      BY <3>1, <3>2 DEF Gone, Unknown, Undelivered
  <2>3. /\ msg' = PlannedMessages(booking', stopped, c) /\ task' = PlannedTasks(booking', stopped, left, c)
        /\ UNCHANGED <<sends, taken>> /\ b # c
    BY <1>2 DEF Reschedule, Sending
  <2>4. \A m \in RowsOf(b) \cap Rows : ~Cancellable(stopped[m])
    BY <1>0, CancelSettles DEF ClosedMessages
  <2>5. Agree(stopped, left)
    BY <1>0, <1>b, ClosedAgree
  <2> HIDE DEF stopped, left
  <2>6. Rewrites(stopped, msg', RowsOf(c)) /\ Agree(msg', task')
    BY <1>0, <2>1, <2>2, <2>3, <2>5, PlannedRewrites, PlannedAgree
  <2>7. Rewrites(msg, msg', RowsOf(c))
    BY <2>1, <2>6, RewritesTwice
  <2>8. /\ booking'[c].st = "BOOKED" /\ ~booking'[c].confirmed /\ booking'[b].st = "RESCHEDULED"
        /\ \A e \in Bookings \ {b, c} : booking'[e] = booking[e]
    <3>1. booking[b].st = "BOOKED" /\ booking[c].st = "ABSENT"
      BY <1>2 DEF Reschedule
    <3> QED
      BY <1>0, <1>2, <3>1 DEF Reschedule, Bookkeeping, NewBooking, Booking
  <2>9. \A m \in Rows : Closed(booking', m) => m \in RowsOf(b) \/ (Closed(booking, m) /\ m \notin RowsOf(c))
    BY <1>0, <1>c, <2>8 DEF Closed
  <2>10. NoneLeft(booking', stopped)
    BY <1>b, <2>1, <2>4, <2>9, NoneLeftKept
  <2>11. \A m \in Rows : Closed(booking', m) => m \notin RowsOf(c)
    BY <1>0, <1>c, <2>3, <2>9
  <2>12. NoneLeft(booking', msg')
    BY <2>6, <2>10, <2>11, NoneLeftKept
  <2>13. \A m \in RowsOf(c) : m[1] = c
    BY DEF RowsOf
  <2> QED
    BY <2>2, <2>3, <2>6, <2>7, <2>8, <2>12, <2>13, RewriteKeeps
<1>3. ASSUME CancelBooking(b) \/ NotConfirmed(b) PROVE StepRight
  <2>1. Close(b)
    BY <1>3 DEF CancelBooking, NotConfirmed
  <2>2. /\ msg' = ClosedMessages(msg, b, "BOOKING_CANCELLED") /\ task' = ClosedTasks(task, b, "BOOKING_CANCELLED")
        /\ UNCHANGED <<sends, taken>>
    BY <2>1 DEF Close, Sending
  <2>3. Rewrites(msg, msg', {}) /\ Agree(msg', task')
    BY <1>0, <1>b, <2>2, CancelRewrites, ClosedAgree DEF ClosedMessages
  <2>4. booking'[b].st = "CANCELLED" /\ \A c \in Bookings \ {b} : booking'[c] = booking[c]
    BY <1>0, <2>1 DEF Close, Bookkeeping, Booking
  <2>5. \A m \in RowsOf(b) \cap Rows : ~Cancellable(msg'[m])
    BY <1>0, <2>2, CancelSettles DEF ClosedMessages
  <2>6. \A m \in Rows : Closed(booking', m) => Closed(booking, m) \/ ~Cancellable(msg'[m])
    BY <1>0, <1>c, <2>4, <2>5 DEF Closed
  <2>7. NoneLeft(booking', msg')
    BY <1>b, <2>3, <2>6, NoneLeftKept
  <2> QED
    BY <2>2, <2>3, <2>4, <2>7, RewriteKeeps
<1>4. ASSUME ParentConfirmed(b) PROVE StepRight
  <2> DEFINE Q == {<<b, "CONFIRMATION_REQUEST">>}
             ms == CancelMessages(msg, Q, "NOT_NEEDED")
  <2>1. ms \in Messages /\ Rewrites(msg, ms, {})
    BY <1>0, CancelMessagesType, CancelRewrites DEF CancelReasons
  <2>2. /\ msg' = Refresh(booking', ms, RowsOf(b)) /\ UNCHANGED <<sends, taken>>
        /\ task' = UpdateTasks(task, Q, "OPEN", Done("NOT_NEEDED"))
    BY <1>4 DEF ParentConfirmed, Sending
  <2>3. \A m \in Rows : m[1] = b /\ m[2] = "CONFIRMATION_REQUEST" => ~Cancellable(ms[m])
    <3>1. \A m \in Rows : m[1] = b /\ m[2] = "CONFIRMATION_REQUEST" => m \in Q \cap Rows
      BY DEF Rows
    <3> QED
      BY <1>0, <3>1, CancelSettles
  <2> HIDE DEF ms, Q
  <2>4. Rewrites(ms, msg', {})
    BY <2>1, <2>2, RefreshRewrites
  <2>5. Rewrites(msg, msg', {})
    BY <2>1, <2>4, RewritesTwice
  <2>6. /\ booking'[b].st = booking[b].st
        /\ \A c \in Bookings \ {b} : booking'[c] = booking[c]
    BY <1>0, <1>4 DEF ParentConfirmed, Bookkeeping, Booking
  <2>7. \A m \in Rows : Closed(booking', m) => Closed(booking, m) \/ ~Cancellable(ms[m])
    BY <1>0, <2>3, <2>6 DEF Closed
  <2>8. NoneLeft(booking', ms)
    BY <1>b, <2>1, <2>7, NoneLeftKept
  <2>9. NoneLeft(booking', msg')
    BY <2>4, <2>8, NoneLeftKept
  <2>10. Agree(msg, task')
    BY <1>b, <2>2, OtherReasons, AgreeUpdate
  <2>11. Agree(msg', task')
    BY <2>5, <2>10, AgreeSameTasks
  <2> QED
    BY <2>2, <2>5, <2>6, <2>9, <2>11, RewriteKeeps
<1>5. ASSUME StartBooking(b) \/ Tick(b) \/ AfterWindowCloses(b) PROVE StepRight
  <2>1. \A c \in Bookings : booking'[c].st = booking[c].st /\ booking'[c].confirmed = booking[c].confirmed
    BY <1>0, <1>5 DEF StartBooking, Tick, AfterWindowCloses, Bookkeeping, Booking
  <2>2. UNCHANGED <<msg, task, sends, taken>>
    BY <1>5 DEF StartBooking, Tick, AfterWindowCloses, Sending
  <2>3. \A m \in Rows : Closed(booking', m) => Closed(booking, m)
    BY <1>0, <2>1 DEF Closed
  <2> QED
    BY <1>b, <2>1, <2>2, <2>3, QuietKeeps
<1>6. ASSUME Complete(b) PROVE StepRight
  <2> DEFINE ms == ExpiredMessages(booking, msg, {b})
             after == {<<b, "AFTER_ACTIVITY">>} \cap Rows
             new == {m \in after : task[m].st # "ABSENT" /\ msg[m].st = "ABSENT"}
  <2>1. ms \in Messages /\ Rewrites(msg, ms, new) /\ Rewrites(msg, ms, {})
    BY <1>0, CancelRewrites, CancelMessagesType DEF ExpiredMessages, CancelReasons
  <2>2. \A m \in new : /\ m \in Rows /\ m[1] = b /\ m[2] = "AFTER_ACTIVITY"
                       /\ task[m].st # "ABSENT" /\ msg[m].st = "ABSENT" /\ ~Gone(msg[m])
    BY <1>0 DEF DeliveryInv, SendInv, ClaimedIsPending, Gone, Unknown, Undelivered, HandedOver
  <2>3. \A m \in new : ms[m].st = "ABSENT" /\ ~Gone(ms[m])
    <3>1. \A m \in new : ms[m] = msg[m]
      BY <2>2 DEF ExpiredMessages, CancelMessages, Cancellable, Selected, Unsent
    <3> QED
      BY <2>2, <3>1 DEF Gone, Unknown, Undelivered
  <2>4. /\ msg' = AddMessages(booking', ms, new) /\ task' = ExpiredTasks(booking, task, {b})
        /\ UNCHANGED <<sends, taken>>
    BY <1>6 DEF Complete, Sending
  <2> HIDE DEF ms, new
  <2>5. Rewrites(ms, msg', new)
    BY <1>0, <2>1, <2>3, <2>4, AddRewrites
  <2>6. Rewrites(msg, msg', new)
    BY <2>1, <2>5, RewritesTwice
  <2>7. /\ booking'[b].st = "COMPLETED" /\ booking'[b].confirmed = booking[b].confirmed
        /\ \A c \in Bookings \ {b} : booking'[c] = booking[c]
    BY <1>0, <1>6 DEF Complete, Bookkeeping, Booking
  <2>8. \A m \in Rows : Closed(booking', m) => Closed(booking, m) /\ m \notin new
    BY <1>0, <2>2, <2>7 DEF Closed
  <2>9. NoneLeft(booking', msg')
    BY <1>b, <2>6, <2>8, NoneLeftKept
  <2>10. Agree(msg', task)
    BY <1>b, <2>2, <2>6, AgreeSameTasks DEF IsAck
  <2>11. Agree(msg', task')
    BY <2>4, <2>10, ExpiredAgree
  <2> QED
    BY <2>2, <2>4, <2>6, <2>7, <2>9, <2>11, RewriteKeeps
<1>7. ASSUME RequestConfirmation(b) PROVE StepRight
  <2> DEFINE R == {<<b, "CONFIRMATION_REQUEST">>}
  <2>1. \A m \in R \cap Rows : /\ msg[m].st = "ABSENT" /\ ~Gone(msg[m]) /\ booking[m[1]].st = "BOOKED"
                               /\ ~IsAck(m) /\ task[m].st # "ABSENT" /\ ~Closed(booking, m)
    BY <1>0, <1>7 DEF RequestConfirmation, Active, Upcoming, DeliveryInv, SendInv, ClaimedIsPending, Gone, Unknown,
       Undelivered, HandedOver, IsAck, Closed
  <2>2. msg' = AddMessages(booking, msg, R) /\ UNCHANGED <<booking, task, sends, taken>>
    BY <1>7 DEF RequestConfirmation, Sending
  <2> HIDE DEF R
  <2>3. Rewrites(msg, msg', R)
    BY <1>0, <2>1, <2>2, AddRewrites
  <2>4. Agree(msg', task')
    BY <1>b, <2>1, <2>2, <2>3, AgreeSameTasks
  <2>5. NoneLeft(booking, msg')
    BY <1>b, <2>1, <2>3, NoneLeftKept
  <2> QED
    BY <2>1, <2>2, <2>3, <2>4, <2>5, RewriteKeeps
<1>8. ASSUME NEW outcome \in CallOutcomes, RecordCallOutcome(b, outcome) PROVE StepRight
  <2>1. UNCHANGED <<booking, msg, sends, taken>> /\ \A m \in Rows : task'[m] = task[m]
    BY <1>0, <1>8 DEF RecordCallOutcome, Sending, Rows, TaskRows, MessageSteps, Tasks
  <2>2. Agree(msg', task')
    BY <1>b, <2>1 DEF Agree
  <2> QED
    BY <1>b, <2>1, <2>2, QuietKeeps
<1>9. ASSUME NEW d \in Details, ChangeDetails(b, d) \/ ChangeDetailsUnseen(b, d) PROVE StepRight
  <2>1. \A c \in Bookings : booking'[c].st = booking[c].st /\ booking'[c].confirmed = booking[c].confirmed
    BY <1>0, <1>9 DEF ChangeDetails, ChangeDetailsUnseen, Bookkeeping, Booking
  <2>2. Rewrites(msg, msg', {}) /\ UNCHANGED <<task, sends, taken>>
    BY <1>0, <1>b, <1>9, RefreshRewrites DEF ChangeDetails, ChangeDetailsUnseen, Sending
  <2>3. \A m \in Rows : Closed(booking', m) => Closed(booking, m)
    BY <1>0, <2>1 DEF Closed
  <2>4. Agree(msg', task')
    BY <1>b, <2>2, AgreeSameTasks
  <2> QED
    BY <2>1, <2>2, <2>3, <2>4, QuietKeeps
<1> QED
  BY <1>1, <1>2, <1>3, <1>4, <1>5, <1>6, <1>7, <1>8, <1>9

\* A step that writes message m as x, and lets the planner rewrite others, new
\* ones among the rows R: the sends go on as they were, but for one of m that
\* ends or begins.
RowStep(m, x, R) ==
  /\ Rewrites([msg EXCEPT ![m] = x], msg', R) /\ msg'[m] = x
  /\ \A r \in R \cap Rows : Upcoming(booking[r[1]]) /\ IsAck(r)
  /\ UNCHANGED <<booking, taken>>
  /\ msg[m].st # "ABSENT" /\ (Gone(x) \/ taken[m] = 0)
  /\ x.claim # 0 => x.st = "PENDING"
  /\ x.st \in HandedOver => x.pid
  /\ \A s \in sends' : s \in sends \/ (s.pc = "calling" /\ s.m = m /\ taken[m] = 0 /\ s.claim # 0)
  /\ \A s \in sends' : s.m = m => Gone(x) /\ (x.claim = s.claim \/ (x.claim = 0 /\ Unknown(x)))
  /\ \A s, t \in sends' : s.m = t.m => s = t
  /\ RowSound(x) /\ (Closed(booking, m) => ~Cancellable(x))
  /\ RowHistory(m, msg[m], x) /\ RowClaim(m, msg[m], x) /\ RowFresh(m, msg[m], x)
  /\ Agree(msg', task')

\* Such a step keeps the invariant.
LEMMA RowStepKeeps ==
  ASSUME TypeOK, DeliveryInv, NEW m \in Rows, NEW x, NEW R, RowStep(m, x, R)
  PROVE  StepRight
<1> USE DEF RowStep
<1>0. msg \in Messages /\ SendInv /\ Sound(msg) /\ NoneLeft(booking, msg)
  BY TypeParts DEF DeliveryInv
<1>a. \A n \in Rows : [msg EXCEPT ![m] = x][n] = IF n = m THEN x ELSE msg[n]
  BY <1>0 DEF Messages
<1>1. \A n \in Rows \ {m} : /\ Rewritten(msg[n], msg'[n])
                            /\ msg'[n] # msg[n] => Selected(msg[n]) \/ (n \in R /\ Revivable(n, msg[n]))
  BY <1>a DEF Rewrites
<1>2. ClaimsMatch'
  <2>1. ASSUME NEW s \in sends'
        PROVE  s.claim # 0 /\ (msg'[s.m].claim = s.claim \/ (msg'[s.m].claim = 0 /\ Unknown(msg'[s.m])))
    <3>1. CASE s.m = m
      BY <1>0, <3>1 DEF SendInv, ClaimsMatch
    <3>2. CASE s.m # m
      <4>1. s \in sends /\ s.m \in Rows \ {m} /\ Gone(msg[s.m])
        BY <1>0, <3>2, SentIsGone
      <4>2. msg'[s.m] = msg[s.m]
        BY <1>1, <4>1 DEF Rewritten
      <4> QED
        BY <1>0, <4>1, <4>2 DEF SendInv, ClaimsMatch
    <3> QED
      BY <3>1, <3>2
  <2> QED
    BY <2>1 DEF ClaimsMatch, Unknown
<1>3. ClaimedIsPending'
  BY <1>0, <1>1 DEF SendInv, ClaimedIsPending, Rewritten, HandedOver
<1>4. TakenIsGone'
  <2>1. ASSUME NEW n \in Rows PROVE taken'[n] = 0 \/ (taken'[n] = 1 /\ Gone(msg'[n]))
    BY <1>0, <1>1 DEF SendInv, TakenIsGone, Rewritten
  <2>2. ASSUME NEW s \in sends', s.pc = "calling" \/ s.answer \in {"RETRYABLE", "REFUSED"}
        PROVE  taken'[s.m] = 0
    BY <1>0, <2>2 DEF SendInv, TakenIsGone
  <2> QED
    BY <2>1, <2>2 DEF TakenIsGone, Gone, Unknown, Undelivered
<1>5. NoneBeforeBooking'
  <2>1. ASSUME NEW n \in Rows \ {m}, booking[n[1]].st = "ABSENT" PROVE msg'[n].st = "ABSENT"
    BY <1>0, <1>1, <2>1 DEF SendInv, NoneBeforeBooking, Selected, Unsent, Upcoming
  <2> QED
    BY <1>0, <2>1 DEF SendInv, NoneBeforeBooking
<1>6. ASSUME NEW n \in Rows
      PROVE  /\ RowHistory(n, msg[n], msg'[n]) /\ RowClaim(n, msg[n], msg'[n]) /\ RowFresh(n, msg[n], msg'[n])
             /\ RowSound(msg'[n])
  <2>1. CASE n = m
    BY <2>1
  <2>2. CASE n # m
    <3>1. /\ Rewritten(msg[n], msg'[n])
          /\ msg'[n] # msg[n] => \/ Selected(msg[n]) \/ msg[n].st = "ABSENT"
                                 \/ (Revivable(n, msg[n]) /\ Upcoming(booking[n[1]]))
      <4>1. ASSUME n \in R PROVE Upcoming(booking[n[1]])
        BY <4>1
      <4> HIDE DEF RowStep
      <4> QED
        BY <1>1, <2>2, <4>1
    <3> QED
      BY <1>0, <3>1, RewrittenHistory DEF Sound
  <2> QED
    BY <2>1, <2>2
<1>7. NoneLeft(booking', msg')
  <2>1. NoneLeft(booking, [msg EXCEPT ![m] = x])
    BY <1>0, <1>a DEF NoneLeft
  <2>2. \A n \in Rows : Closed(booking, n) => n \notin R
    BY DEF Closed, Upcoming, IsAck
  <2> QED
    BY <2>1, <2>2, NoneLeftKept
<1>8. SendInv'
  BY <1>2, <1>3, <1>4, <1>5 DEF SendInv
<1>9. Sound(msg)'
  BY <1>6 DEF Sound
<1> QED
  BY <1>6, <1>7, <1>8, <1>9 DEF StepRight, DeliveryInv

\* A row the settling does not select is left as it is.
LEMMA SettledLeaves ==
  ASSUME NEW bk, NEW ms, NEW m \in Rows, NEW L, m[1] \notin L
  PROVE  SettledMessages(bk, ms, m, L)[m] = ms[m]
BY DEF SettledMessages, SettledRows, Refresh, CancelMessages

\* A booking never replaced itself.
LEMMA NotLaterThanItself ==
  ASSUME ChainSound, NEW m \in Rows
  PROVE  m[1] \notin Later(booking, m[1])
BY DEF ChainSound, ChainsInLine, Later

\* What a claim makes of a Pending message: it is claimed only when all asks for
\* it, and never handed over.
LEMMA ClaimedMessage ==
  ASSUME TypeOK, NEW m \in Rows, NEW x, x = Claimed(booking, msg, m), msg[m].st = "PENDING", msg[m].claim = 0,
         RowSound(msg[m]), ~Closed(booking, m)
  PROVE  /\ x \in Message /\ x.st \notin HandedOver /\ x.st # "ABSENT" /\ ~x.pid /\ ~Unknown(x)
         /\ x.claim # 0 => x.st = "PENDING" /\ ~x.early
         /\ RowClaim(m, msg[m], x)
<1> DEFINE y == Refreshed(booking, msg, m)
           why == NoLongerNeeded(booking, m, FALSE)
           d == booking[m[1]].data
           z == [y EXCEPT !.claim = y.attempts + 1]
<1>0. /\ booking \in Bookkeeping /\ msg \in Messages /\ msg[m] \in Message
      /\ booking[m[1]] \in Booking
  BY TypeParts DEF TypeOK, Rows
<1>1. x \in Message
  BY <1>0, ClaimedType
<1>2. ~msg[m].pid
  BY DEF RowSound, HandedOver
<1>3. /\ y \in Message /\ y.claim = 0 /\ ~y.pid /\ y.early = msg[m].early /\ y.st \in {"WAITING", "PENDING"}
      /\ y.st = "PENDING" => Ready(booking, msg, m) /\ y.body = d
  BY <1>0, <1>2, RefreshedType DEF Refreshed, Message
<1>4. /\ Cancelled(msg[m], why).st = "CANCELLED" /\ Cancelled(msg[m], why).claim = 0 /\ ~Cancelled(msg[m], why).pid
  BY <1>0, <1>2 DEF Cancelled, Message
<1>5. why = ""
  BY DEF NoLongerNeeded, Closed
<1> HIDE DEF y, why
<1>6. y.attempts + 1 \in Nat
  BY <1>3 DEF Message
<1>7. z.st = y.st /\ z.pid = y.pid /\ z.early = y.early /\ z.body = y.body
  BY <1>3 DEF Message
<1>8. LET f == Failed(y, "INVALID_RECIPIENT") IN f.st = "FAILED" /\ f.code = "INVALID_RECIPIENT" /\ f.claim = 0 /\ ~f.pid
  BY <1>3 DEF Failed, Message
<1>9. \/ x \in {msg[m], y, Failed(y, "INVALID_RECIPIENT")}
      \/ x = z /\ y.st = "PENDING" /\ d \notin Invalid /\ d \notin HeldBack
         /\ WindowOpen(booking[m[1]], m[2]) /\ ~msg[m].early
  <2>1. CASE ~Due(booking[m[1]], msg[m], m[2])
    BY <1>5, <2>1 DEF Claimed, why, y
  <2>2. CASE Due(booking[m[1]], msg[m], m[2])
    <3>1. WindowOpen(booking[m[1]], m[2]) /\ ~msg[m].early
      BY <2>2 DEF Due
    <3>2. x = CASE y.st = "WAITING" -> y
                [] y.st # "WAITING" /\ d \in Invalid -> Failed(y, "INVALID_RECIPIENT")
                [] y.st # "WAITING" /\ d \in HeldBack \ Invalid -> y
                [] OTHER -> z
      BY <1>5, <2>2 DEF Claimed, why, y
    <3> HIDE DEF z, d
    <3> QED
      BY <1>3, <3>1, <3>2
  <2> QED
    BY <2>1, <2>2
<1> HIDE DEF z
<1>10. RowClaim(m, msg[m], x)
  <2>1. CASE x \in {msg[m], y, Failed(y, "INVALID_RECIPIENT")}
    BY <1>3, <1>8, <2>1 DEF RowClaim
  <2>2. CASE x = z /\ y.st = "PENDING" /\ d \notin Invalid /\ d \notin HeldBack
             /\ WindowOpen(booking[m[1]], m[2]) /\ ~msg[m].early
    BY <1>3, <1>7, <2>2 DEF RowClaim, Ready, Active, Upcoming
  <2> QED
    BY <1>9, <2>1, <2>2
<1> QED
  BY <1>1, <1>2, <1>3, <1>7, <1>8, <1>9, <1>10 DEF HandedOver, Unknown

\* What is left of a message handed over once reports are applied to it, for a
\* step that also lets the planner rewrite others among the rows R.
LEMMA ReportedRow ==
  ASSUME TypeOK, DeliveryInv, NEW m \in Rows, msg[m].st \in HandedOver, NEW c \in Callback, NEW x,
         x = Applied(msg[m], c), NEW R, Rewrites([msg EXCEPT ![m] = x], msg', R), msg'[m] = x,
         \A r \in R \cap Rows : Upcoming(booking[r[1]]) /\ IsAck(r),
         UNCHANGED <<booking, sends, taken>>, Agree(msg', task')
  PROVE  RowStep(m, x, R)
<1>1. /\ SendInv /\ msg[m] \in Message /\ msg[m].claim = 0 /\ msg[m].pid /\ ~Unknown(msg[m])
      /\ msg[m].st # "ABSENT" /\ ~Undelivered(msg[m]) /\ msg[m].st # "CANCELLED"
  BY DEF TypeOK, DeliveryInv, SendInv, ClaimedIsPending, Unknown, Undelivered, HandedOver
<1>2. /\ x.body = msg[m].body /\ x.claim = 0 /\ x.pid
      /\ \/ x.st \in HandedOver /\ Rank[x.st] >= Rank[msg[m].st]
         \/ msg[m].st \in {"QUEUED", "SENT"} /\ x.st = "FAILED" /\ x.code = "UNDELIVERED"
  BY <1>1, AppliedRight
<1>3. Gone(x) /\ RowSound(x) /\ ~Cancellable(x)
  BY <1>2 DEF Gone, Undelivered, RowSound, Cancellable, Selected, Unsent, HandedOver
<1>4. RowHistory(m, msg[m], x) /\ RowClaim(m, msg[m], x) /\ RowFresh(m, msg[m], x)
  BY <1>1, <1>2 DEF RowHistory, RowClaim, RowFresh, Gone, Undelivered
<1>5. \A s \in sends : s.m # m
  BY <1>1 DEF SendInv, ClaimsMatch
<1>6. \A s, t \in sends : s.m = t.m => s = t
  BY <1>1 DEF SendInv, ClaimsMatch
<1> QED
  BY <1>1, <1>2, <1>3, <1>4, <1>5, <1>6 DEF RowStep

\* Every job and every callback on a message keeps the invariant.
LEMMA MessageStepRight == TypeOK /\ DeliveryInv /\ ChainSound /\ (MessageStep \/ CloseExpired) => StepRight
<1> SUFFICES ASSUME TypeOK, DeliveryInv, ChainSound, MessageStep \/ CloseExpired PROVE StepRight
  OBVIOUS
<1>0. /\ booking \in Bookkeeping /\ msg \in Messages /\ task \in Tasks
      /\ \A m \in Rows : msg[m] \in Message
      /\ \A m \in Rows, x \in Message : [msg EXCEPT ![m] = x] \in Messages
  BY TypeParts DEF TypeOK, Messages
<1>a. \A ms : Rewrites(ms, ms, {})
  BY DEF Rewrites, Rewritten
<1>d. \A s, t \in sends : s.m = t.m => s = t
  BY DEF DeliveryInv, SendInv, ClaimsMatch
<1>b. /\ SendInv /\ NoneLeft(booking, msg) /\ Agree(msg, task)
      /\ \A m \in Rows : RowSound(msg[m]) /\ RowAgrees(m, msg[m], task[m])
  BY DEF DeliveryInv, Sound, Agree
\* A message not handed over, nor known undelivered, as it is or once more so.
<1>c. ASSUME NEW m \in Rows, NEW x, msg[m].st \in {"WAITING", "PENDING"}, x.st \notin HandedOver
      PROVE  Agree([msg EXCEPT ![m] = x], task)
  <2>1. RowAgrees(m, x, task[m])
    BY <1>b, <1>c DEF RowAgrees, HandedOver, Undelivered
  <2> QED
    BY <1>0, <1>b, <2>1, AgreeRow
<1>1. ASSUME NEW m \in Rows, RetryComes(m) PROVE StepRight
  <2> DEFINE x == [msg[m] EXCEPT !.early = FALSE]
  <2>1. /\ x.st = msg[m].st /\ x.claim = msg[m].claim /\ x.code = msg[m].code /\ x.pid = msg[m].pid
        /\ msg[m].st \in {"WAITING", "PENDING"} /\ msg[m].early
    BY <1>0, <1>1 DEF RetryComes, Outstanding, Message
  <2>2. msg' = [msg EXCEPT ![m] = x] /\ UNCHANGED <<booking, task, sends, taken>>
    BY <1>1 DEF RetryComes, Sending
  <2> HIDE DEF x
  <2>3. Rewrites([msg EXCEPT ![m] = x], msg', {}) /\ msg'[m] = x
    BY <1>0, <1>a, <2>2 DEF Messages
  <2>4. msg[m].claim = 0 /\ RowSound(x)
    BY <1>b, <2>1 DEF RowSound
  <2>5. x.st \notin HandedOver /\ (Gone(x) \/ taken[m] = 0)
    BY <1>b, <2>1 DEF SendInv, TakenIsGone, Gone, Unknown, Undelivered, HandedOver
  <2>6. \A s \in sends : s.m # m
    BY <1>b, <2>1, <2>4 DEF SendInv, ClaimsMatch, Unknown
  <2>7. RowHistory(m, msg[m], x) /\ RowClaim(m, msg[m], x) /\ RowFresh(m, msg[m], x)
    BY <2>1, <2>4 DEF RowHistory, RowClaim, RowFresh, Gone, HandedOver, Undelivered, Unknown
  <2>8. Closed(booking, m) => ~Cancellable(x)
    BY <1>b, <2>1 DEF NoneLeft, Cancellable, Selected, Unknown, Undelivered
  <2>9. Agree(msg', task')
    <3>1. Agree([msg EXCEPT ![m] = x], task)
      BY <1>c, <2>1, <2>5
    <3> QED
      BY <2>2, <3>1
  <2>10. RowStep(m, x, {})
    BY <1>d, <2>1, <2>2, <2>3, <2>4, <2>5, <2>6, <2>7, <2>8, <2>9 DEF RowStep
  <2> QED
    BY <2>10, RowStepKeeps
<1>2. ASSUME NEW m \in Rows, RefreshWaiting(m) PROVE StepRight
  <2>1. Rewrites(msg, msg', {}) /\ UNCHANGED <<booking, task, sends, taken>>
    BY <1>0, <1>2, RefreshRewrites DEF RefreshWaiting, Sending
  <2>2. Agree(msg', task')
    BY <1>b, <2>1, AgreeSameTasks
  <2> QED
    BY <2>1, <2>2, QuietKeeps
<1>3. ASSUME NEW m \in Rows, Claim(m) PROVE StepRight
  <2> DEFINE x == Claimed(booking, msg, m)
             ms == [msg EXCEPT ![m] = x]
             settles == IsAck(m) /\ x.st = "CANCELLED"
             new(k) == [pc |-> "calling", m |-> m, claim |-> k, answer |-> "UNKNOWN", later |-> {}]
  <2>1. msg[m].st = "PENDING" /\ msg[m].claim = 0 /\ ~Gone(msg[m]) /\ taken[m] = 0
    BY <1>3, <1>b DEF Claim, SendInv, TakenIsGone, Gone, Unknown, Undelivered, HandedOver
  <2>2. \A s \in sends : s.m # m
    BY <1>b, <2>1, SentIsGone
  <2>3. ~Closed(booking, m)
    BY <1>b, <2>1 DEF NoneLeft, Cancellable, Selected, Unsent, Unknown, Undelivered
  <2>4. /\ x \in Message /\ x.st \notin HandedOver /\ ~x.pid /\ ~Unknown(x)
        /\ x.claim # 0 => x.st = "PENDING" /\ ~x.early
        /\ RowClaim(m, msg[m], x)
    BY <1>b, <2>1, <2>3, ClaimedMessage
  <2>5. /\ msg' = IF settles THEN SettledMessages(booking, ms, m, Later(booking, m[1])) ELSE ms
        /\ sends' = sends \cup {new(k) : k \in {x.claim} \ {0}}
        /\ UNCHANGED <<booking, task, taken>>
    BY <1>3 DEF Claim
  <2>6. ms \in Messages /\ ms[m] = x
    BY <1>0, <2>4 DEF Messages
  <2> HIDE DEF x, settles
  <2>7. Agree(ms, task)
    BY <1>c, <2>1, <2>4
  <2> HIDE DEF ms
  <2>8. msg'[m] = x
    BY <2>5, <2>6, SettledLeaves, NotLaterThanItself
  <2>9. Rewrites(ms, msg', {})
    BY <1>a, <2>5, <2>6, SettledRewrites
  <2>10. \A s \in sends' : s \in sends \/ (s = new(x.claim) /\ x.claim # 0)
    BY <2>5
  <2>11. \A s \in sends' : s.m = m => s = new(x.claim) /\ x.claim # 0 /\ s.claim = x.claim
    BY <2>2, <2>10
  <2>12. \A s, t \in sends' : s.m = t.m => s = t
    BY <1>d, <2>2, <2>10
  <2>13. RowSound(x) /\ RowHistory(m, msg[m], x) /\ RowFresh(m, msg[m], x)
    BY <2>1, <2>4 DEF RowSound, RowHistory, RowFresh, Gone, Undelivered
  <2>14. Agree(msg', task')
    BY <2>5, <2>7, <2>9, AgreeSameTasks
  <2>15. RowStep(m, x, {})
    BY <2>1, <2>3, <2>4, <2>5, <2>8, <2>9, <2>10, <2>11, <2>12, <2>13, <2>14 DEF RowStep, Gone, ms
  <2> QED
    BY <2>15, RowStepKeeps
<1>4. ASSUME NEW m \in Rows, Recover(m) PROVE StepRight
  <2> DEFINE y == [msg[m] EXCEPT !.claim = 0, !.attempts = @ + 1]
             x == Failed(y, "OUTCOME_UNKNOWN")
             ms == [msg EXCEPT ![m] = x]
  <2>1. /\ y \in Message /\ x \in Message /\ y.claim = 0 /\ y.pid = msg[m].pid /\ y.body = msg[m].body
    BY <1>0, AttemptType, FailedType DEF FailureCodes, Message
  <2>2. Unknown(x) /\ x.claim = 0 /\ x.pid = y.pid /\ x.body = y.body
    <3> HIDE DEF y
    <3> QED
      BY <2>1 DEF Failed, Unknown, Message
  <2>3. msg[m].st = "PENDING" /\ msg[m].claim # 0 /\ ~msg[m].pid
    BY <1>4, <1>b DEF Recover, Stuck, SendInv, ClaimedIsPending, RowSound, HandedOver
  <2>4. /\ msg' = IF IsAck(m) THEN SettledMessages(booking, ms, m, Later(booking, m[1])) ELSE ms
        /\ UNCHANGED <<booking, task, sends, taken>>
    BY <1>4 DEF Recover, Sending
  <2>5. ms \in Messages /\ ms[m] = x
    BY <1>0, <2>1 DEF Messages
  <2> HIDE DEF x, y
  <2>6. Gone(x) /\ x.st = "FAILED" /\ x.st \notin HandedOver
    BY <2>2 DEF Gone, Unknown, HandedOver
  <2>7. Agree(ms, task)
    BY <1>c, <2>3, <2>6
  <2> HIDE DEF ms
  <2>8. msg'[m] = x
    BY <2>4, <2>5, SettledLeaves, NotLaterThanItself
  <2>9. Rewrites(ms, msg', {})
    BY <1>a, <2>4, <2>5, SettledRewrites
  <2>10. Agree(msg', task')
    BY <2>4, <2>7, <2>9, AgreeSameTasks
  <2>11. RowSound(x) /\ ~Cancellable(x)
    BY <2>1, <2>2, <2>3 DEF RowSound, Cancellable, Selected
  <2>12. RowHistory(m, msg[m], x) /\ RowClaim(m, msg[m], x) /\ RowFresh(m, msg[m], x)
    BY <2>1, <2>2, <2>3 DEF RowHistory, RowClaim, RowFresh, Gone, HandedOver, Undelivered, Unknown
  <2>13. RowStep(m, x, {})
    BY <1>d, <2>2, <2>3, <2>4, <2>6, <2>8, <2>9, <2>10, <2>11, <2>12 DEF RowStep, ms
  <2> QED
    BY <2>13, RowStepKeeps
<1>5. ASSUME NEW m \in Rows, \/ \E r \in Reports : CallbackUnmatched(m, r)
                            \/ PurgeUnmatched(m)
      PROVE  StepRight
  BY <1>a, <1>b, <1>5, QuietKeeps DEF CallbackUnmatched, PurgeUnmatched
<1>6. ASSUME NEW m \in Rows, NEW first \in SUBSET Reports, NEW fails \in BOOLEAN, NEW after \in SUBSET Reports,
             NEW kept \in SUBSET Reports, ApplyReports(m, first, fails, after, kept)
      PROVE  StepRight
  <2> DEFINE c == [pc |-> "applying", m |-> m, first |-> first, fails |-> fails, after |-> after, kept |-> kept,
                   later |-> {b \in Later(booking, m[1]) : booking[b].st = "BOOKED"}]
             x == Applied(msg[m], c)
  <2>1. c \in Callback /\ c.m = m
    BY DEF Callback, Later
  <2>2. /\ UNCHANGED <<booking, sends, taken>> /\ msg[m].pid
        /\ \/ UNCHANGED <<msg, task>>
           \/ msg' = [msg EXCEPT ![m] = x] /\ task' = AppliedTasks(task, c, msg[m])
    BY <1>6 DEF ApplyReports
  <2> HIDE DEF c
  <2>3. CASE UNCHANGED <<msg, task>>
    BY <1>a, <1>b, <2>2, <2>3, QuietKeeps
  <2>4. CASE msg' = [msg EXCEPT ![m] = x] /\ task' = AppliedTasks(task, c, msg[m]) /\ msg[m].st \notin HandedOver
    <3>1. x = msg[m]
      BY <1>0, <2>1, <2>4, AppliedType
    <3>2. msg' = msg
      BY <1>0, <2>4, <3>1 DEF Messages
    <3>3. task' = task
      BY <2>4 DEF AppliedTasks
    <3> QED
      BY <1>a, <1>b, <2>2, <3>2, <3>3, QuietKeeps
  <2>5. CASE msg' = [msg EXCEPT ![m] = x] /\ task' = AppliedTasks(task, c, msg[m]) /\ msg[m].st \in HandedOver
    <3>1. Agree(msg', task')
      BY <1>0, <1>b, <2>1, <2>2, <2>5, AppliedAgree
    <3>2. Rewrites([msg EXCEPT ![m] = x], msg', {}) /\ msg'[m] = x
      BY <1>0, <1>a, <2>5 DEF Messages
    <3>3. RowStep(m, x, {})
      BY <1>0, <1>b, <2>1, <2>2, <2>5, <3>1, <3>2, ReportedRow
    <3> QED
      BY <3>3, RowStepKeeps
  <2> QED
    BY <2>2, <2>3, <2>4, <2>5
<1>7. ASSUME NEW m \in Rows, NEW r \in Reports, CallbackMatched(m, r) PROVE StepRight
  <2>1. {r} \ {"FAILED"} \in SUBSET Reports /\ {} \in SUBSET Reports /\ (r = "FAILED") \in BOOLEAN
    OBVIOUS
  <2>2. ApplyReports(m, {r} \ {"FAILED"}, r = "FAILED", {}, {})
    BY <1>7 DEF CallbackMatched
  <2> QED
    BY <1>6, <2>1, <2>2, Zenon
<1>8. ASSUME NEW m \in Rows, Reconcile(m) PROVE StepRight
  <2>1. unmatched[m] \in SUBSET Reports
    BY DEF TypeOK
  <2>2. PICK first \in SUBSET (unmatched[m] \ {"FAILED"}) :
          ApplyReports(m, first, "FAILED" \in unmatched[m], unmatched[m] \ (first \cup {"FAILED"}), unmatched[m])
    BY <1>8 DEF Reconcile
  <2>3. /\ first \in SUBSET Reports /\ ("FAILED" \in unmatched[m]) \in BOOLEAN
        /\ unmatched[m] \ (first \cup {"FAILED"}) \in SUBSET Reports
    BY <2>1
  <2> QED
    BY <1>6, <2>1, <2>2, <2>3, Zenon
<1>9. ASSUME CloseExpired PROVE StepRight
  <2>1. /\ Rewrites(msg, msg', {}) /\ UNCHANGED <<booking, sends, taken>>
        /\ task' = ExpiredTasks(booking, task, Bookings)
    BY <1>0, <1>9, CancelRewrites DEF CloseExpired, ExpiredMessages, Sending
  <2>2. Agree(msg', task')
    BY <1>b, <2>1, AgreeSameTasks, ExpiredAgree
  <2> QED
    BY <2>1, <2>2, QuietKeeps
<1> QED
  BY <1>1, <1>2, <1>3, <1>4, <1>5, <1>7, <1>8, <1>9 DEF MessageStep

\* What recording the result of a claim makes of its message: it is claimed no
\* more, and gone unless the provider refused it; its text stays, and nothing
\* that is no longer asked for is left to be sent.
LEMMA RecordedMessage ==
  ASSUME TypeOK, DeliveryInv, NEW s \in sends, s.pc = "recording", NEW inTime \in BOOLEAN, NEW x,
         x = IF msg[s.m].claim # s.claim THEN LateResult(msg[s.m], s.answer)
                                         ELSE Result(booking, msg[s.m], s.m, s.answer, inTime)
  PROVE  /\ x \in Message /\ x.claim = 0 /\ x.body = msg[s.m].body
         /\ x.pid <=> x.st \in HandedOver
         /\ x.st \in HandedOver => x.st = s.answer /\ s.answer \in Accepting
         /\ Gone(x) \/ taken[s.m] = 0
         /\ msg[s.m].st \in {"PENDING", "FAILED"} /\ ~Undelivered(msg[s.m])
         /\ Unknown(msg[s.m]) => Unknown(x) \/ x.st \in Accepting
         /\ Closed(booking, s.m) => ~Cancellable(x)
<1> DEFINE m == s.m
           y == [msg[m] EXCEPT !.claim = 0, !.attempts = @ + 1]
           z == [msg[m] EXCEPT !.attempts = @ + 1]
           why == NoLongerNeeded(booking, m, TRUE)
<1>1. /\ SendInv /\ m \in Rows /\ s.answer \in Answers
      /\ msg[m] \in Message /\ booking \in Bookkeeping /\ msg \in Messages
  BY SentIsGone, TypeParts DEF Send, TypeOK, DeliveryInv
<1>2. /\ s.claim # 0
      /\ msg[m].claim = s.claim \/ (msg[m].claim = 0 /\ Unknown(msg[m]))
      /\ msg[m].claim # 0 => msg[m].st = "PENDING"
      /\ s.answer \in {"RETRYABLE", "REFUSED"} => taken[m] = 0
  BY <1>1 DEF SendInv, ClaimsMatch, ClaimedIsPending, TakenIsGone
<1>3. msg[m].st \in {"PENDING", "FAILED"} /\ ~msg[m].pid
  BY <1>1, <1>2 DEF Unknown, DeliveryInv, Sound, RowSound, HandedOver
<1>4. x \in Message
  BY <1>1, ResultType
<1>5. y \in Message /\ y.claim = 0 /\ ~y.pid /\ y.body = msg[m].body
  BY <1>1, <1>3, AttemptType DEF Message
<1>6. z \in Message /\ z.claim = msg[m].claim /\ z.st = msg[m].st /\ z.code = msg[m].code /\ ~z.pid /\ z.body = msg[m].body
  BY <1>1, <1>3, AttemptType DEF Message
<1>7. ASSUME NEW w \in Message, s.answer \in Accepting
      PROVE  LET a == Accepted(w, s.answer) IN
             a.st = s.answer /\ a.st \in HandedOver /\ a.pid /\ a.claim = w.claim /\ a.body = w.body
  BY <1>7 DEF Accepted, Accepting, HandedOver, Message
<1>8. ASSUME NEW w \in Message, NEW code \in FailureCodes
      PROVE  LET f == Failed(w, code) IN
             f.st = "FAILED" /\ f.code = code /\ f.claim = w.claim /\ f.pid = w.pid /\ f.body = w.body
  BY DEF Failed, Message
<1>9. CASE msg[m].claim # s.claim
  <2>1. msg[m].claim = 0 /\ Unknown(msg[m])
    BY <1>2, <1>9
  <2>2. x = IF s.answer \in Accepting THEN Accepted(z, s.answer) ELSE z
    BY <1>9, <2>1 DEF LateResult
  <2> HIDE DEF z
  <2>3. CASE s.answer \in Accepting
    <3> HIDE DEF m
    <3> QED
      BY <1>3, <1>4, <1>6, <1>7, <2>1, <2>2, <2>3 DEF Gone, Unknown, Undelivered, Cancellable, Selected, Unsent,
         HandedOver, m
  <2>4. CASE s.answer \notin Accepting
    BY <1>3, <1>4, <1>6, <2>1, <2>2, <2>4 DEF Gone, Unknown, Undelivered, Cancellable, Selected, HandedOver
  <2> QED
    BY <2>3, <2>4
<1>10. CASE msg[m].claim = s.claim
  <2>1. x = Result(booking, msg[m], m, s.answer, inTime)
    BY <1>10
  <2>2. msg[m].st = "PENDING" /\ ~Unknown(msg[m]) /\ ~Undelivered(msg[m])
    BY <1>2, <1>10 DEF Unknown, Undelivered
  <2> HIDE DEF m
  <2>3. CASE s.answer \in Accepting
    <3>1. x = Accepted(y, s.answer)
      BY <2>1, <2>3 DEF Result, Accepting
    <3> HIDE DEF y
    <3> QED
      BY <1>3, <1>4, <1>5, <1>7, <2>2, <2>3, <3>1 DEF Gone, Cancellable, Selected, Unsent, HandedOver, m
  <2>4. CASE s.answer = "UNKNOWN"
    <3>1. x = Failed(y, "OUTCOME_UNKNOWN")
      BY <2>1, <2>4 DEF Result, Accepting
    <3> HIDE DEF y
    <3>2. "OUTCOME_UNKNOWN" \in FailureCodes
      BY DEF FailureCodes
    <3>3. x.st = "FAILED" /\ x.code = "OUTCOME_UNKNOWN" /\ x.claim = 0 /\ ~x.pid /\ x.body = msg[m].body
      BY <1>5, <1>8, <3>1, <3>2
    <3>4. Unknown(x) /\ Gone(x) /\ ~Cancellable(x) /\ x.st \notin HandedOver
      BY <3>3 DEF Gone, Unknown, Cancellable, Selected, HandedOver
    <3> QED
      BY <1>3, <1>4, <2>2, <3>3, <3>4 DEF m
  <2>5. CASE s.answer \in {"RETRYABLE", "REFUSED"}
    <3> DEFINE again == [y EXCEPT !.st = "PENDING", !.early = TRUE, !.code = "REFUSED"]
    <3>1. \/ x = Cancelled(y, why)
          \/ why = "" /\ x \in {again, Failed(y, "REFUSED")}
      BY <2>1, <2>5 DEF Result, Accepting
    <3>2. Closed(booking, m) => why # ""
      BY DEF Closed, NoLongerNeeded
    <3>3. /\ LET c == Cancelled(y, why) IN c.claim = 0 /\ c.st = "CANCELLED" /\ ~c.pid /\ c.body = msg[m].body
          /\ again.claim = 0 /\ again.st = "PENDING" /\ ~again.pid /\ again.body = msg[m].body
      BY <1>5 DEF Cancelled, Message
    <3> HIDE DEF y, again, why
    <3>4. LET f == Failed(y, "REFUSED") IN f.claim = 0 /\ f.st = "FAILED" /\ ~f.pid /\ f.body = msg[m].body
      BY <1>5, <1>8 DEF FailureCodes
    <3>5. x.claim = 0 /\ x.st \in {"CANCELLED", "PENDING", "FAILED"} /\ ~x.pid /\ x.body = msg[m].body
      BY <3>1, <3>3, <3>4
    <3>6. Closed(booking, m) => ~Cancellable(x)
      BY <3>1, <3>2, <3>3 DEF Cancellable, Selected, Unsent
    <3>7. taken[s.m] = 0
      BY <1>2, <2>5 DEF m
    <3> QED
      BY <1>3, <1>4, <2>2, <3>5, <3>6, <3>7 DEF HandedOver, m
  <2> QED
    BY <1>1, <2>3, <2>4, <2>5 DEF Answers, Accepting
<1> QED
  BY <1>9, <1>10

\* Every step of a send, and of a callback under way, keeps the invariant.
LEMMA SendStepRight == TypeOK /\ DeliveryInv /\ ChainSound /\ (SendStep \/ CallbackStep) => StepRight
<1> SUFFICES ASSUME TypeOK, DeliveryInv, ChainSound, SendStep \/ CallbackStep PROVE StepRight
  OBVIOUS
<1>0. /\ booking \in Bookkeeping /\ msg \in Messages /\ task \in Tasks
      /\ \A m \in Rows : msg[m] \in Message
      /\ \A m \in Rows, x \in Message : [msg EXCEPT ![m] = x] \in Messages
  BY TypeParts DEF TypeOK, Messages
<1>a. \A ms : Rewrites(ms, ms, {})
  BY DEF Rewrites, Rewritten
<1>b. \A s, t \in sends : s.m = t.m => s = t
  BY DEF DeliveryInv, SendInv, ClaimsMatch
<1>d. /\ SendInv /\ Agree(msg, task)
      /\ \A m \in Rows : RowAgrees(m, msg[m], task[m])
  BY DEF DeliveryInv, Agree
<1>c. ASSUME NEW s \in sends, NEW r, r.m = s.m, r.claim = s.claim, UNCHANGED <<booking, msg>>,
             sends' = (sends \ {s}) \cup {r}
      PROVE  ClaimsMatch' /\ ClaimedIsPending' /\ NoneBeforeBooking'
  BY <1>c, <1>d DEF SendInv, ClaimsMatch, ClaimedIsPending, NoneBeforeBooking, Unknown
<1>1. ASSUME NEW s \in sends, NEW answer \in Answers, ProviderAnswers(s, answer) PROVE StepRight
  <2> DEFINE r == [s EXCEPT !.pc = "answered", !.answer = answer]
  <2>1. s \in Send /\ s.m \in Rows /\ Gone(msg[s.m]) /\ taken[s.m] = 0
    BY <1>1, <1>d, SentIsGone DEF ProviderAnswers, SendInv, TakenIsGone
  <2>2. r.m = s.m /\ r.claim = s.claim /\ r.pc = "answered" /\ r.answer = answer
    BY <2>1 DEF Send
  <2>3. sends' = (sends \ {s}) \cup {r} /\ UNCHANGED <<booking, msg, task>>
    BY <1>1 DEF ProviderAnswers
  <2> HIDE DEF r
  <2>4. ClaimsMatch' /\ ClaimedIsPending' /\ NoneBeforeBooking'
    BY <1>c, <2>2, <2>3
  <2>5. /\ \A m \in Rows \ {s.m} : taken'[m] = taken[m]
        /\ taken'[s.m] \in {0, 1}
        /\ answer \in {"RETRYABLE", "REFUSED"} => taken'[s.m] = 0
    BY <1>1, <2>1 DEF ProviderAnswers, TypeOK, Accepting
  <2>6. \A t \in sends \ {s} : t.m \in Rows \ {s.m}
    BY <1>b, <1>d, SentIsGone
  <2>7. \A t \in sends' : t.pc = "calling" \/ t.answer \in {"RETRYABLE", "REFUSED"} => taken'[t.m] = 0
    BY <1>d, <2>2, <2>3, <2>5, <2>6 DEF SendInv, TakenIsGone
  <2>8. \A m \in Rows : taken'[m] = 0 \/ (taken'[m] = 1 /\ Gone(msg'[m]))
    BY <1>d, <2>1, <2>3, <2>5 DEF SendInv, TakenIsGone
  <2>9. TakenIsGone'
    BY <2>7, <2>8 DEF TakenIsGone, Gone, Unknown, Undelivered
  <2>10. SendInv'
    BY <2>4, <2>9 DEF SendInv
  <2> QED
    BY <2>3, <2>10, SameKeeps
<1>2. ASSUME NEW s \in sends, SenderStops(s) PROVE StepRight
  <2>1. SendInv'
    BY <1>2, <1>d DEF SenderStops, SendInv, ClaimsMatch, ClaimedIsPending, TakenIsGone, NoneBeforeBooking, Gone, Unknown,
       Undelivered
  <2> QED
    BY <1>2, <2>1, SameKeeps DEF SenderStops
<1>3. ASSUME NEW s \in sends, BeginRecord(s) PROVE StepRight
  <2> DEFINE r == [s EXCEPT !.pc = "recording", !.later = IF IsAck(s.m) THEN Later(booking, s.m[1]) ELSE {}]
  <2>1. s \in Send
    BY <1>d, SentIsGone
  <2>2. r.m = s.m /\ r.claim = s.claim /\ r.pc = "recording" /\ r.answer = s.answer
    BY <2>1 DEF Send
  <2>3. sends' = (sends \ {s}) \cup {r} /\ UNCHANGED <<booking, msg, task, taken>>
    BY <1>3 DEF BeginRecord
  <2> HIDE DEF r
  <2>4. ClaimsMatch' /\ ClaimedIsPending' /\ NoneBeforeBooking'
    BY <1>c, <2>2, <2>3
  <2>5. TakenIsGone'
    BY <1>d, <2>2, <2>3 DEF SendInv, TakenIsGone, Gone, Unknown, Undelivered
  <2>6. SendInv'
    BY <2>4, <2>5 DEF SendInv
  <2> QED
    BY <2>3, <2>6, SameKeeps
<1>4. ASSUME NEW s \in sends, NEW inTime \in BOOLEAN, Record(s, inTime) PROVE StepRight
  <2> DEFINE m == s.m
             late == msg[m].claim # s.claim
             x == IF late THEN LateResult(msg[m], s.answer) ELSE Result(booking, msg[m], m, s.answer, inTime)
             ms == [msg EXCEPT ![m] = x]
             settles == IsAck(m) /\ (late => x.st # msg[m].st)
             ts == IF x.st \in HandedOver /\ msg[m].st \notin HandedOver THEN AcceptedTasks(task, m, s.answer) ELSE task
  <2>1. m \in Rows /\ m[1] \notin s.later
    BY <1>d, SentIsGone, NotLaterThanItself DEF ChainSound, ReadersKnow
  <2>2. /\ s.pc = "recording"
        /\ msg' = IF settles THEN SettledMessages(booking, ms, m, s.later) ELSE ms
        /\ task' = IF settles THEN SettledTasks(ms, ts, m, s.later) ELSE ts
        /\ sends' = sends \ {s} /\ UNCHANGED <<booking, taken>>
    BY <1>4 DEF Record
  <2>3. /\ x \in Message /\ x.claim = 0 /\ x.body = msg[m].body
        /\ x.pid <=> x.st \in HandedOver
        /\ x.st \in HandedOver => x.st = s.answer /\ s.answer \in Accepting
        /\ Gone(x) \/ taken[m] = 0
        /\ msg[m].st \in {"PENDING", "FAILED"} /\ ~Undelivered(msg[m])
        /\ Unknown(msg[m]) => Unknown(x) \/ x.st \in Accepting
        /\ Closed(booking, m) => ~Cancellable(x)
    BY <2>2, RecordedMessage
  <2>4. ms \in Messages /\ ms[m] = x
    BY <1>0, <2>1, <2>3 DEF Messages
  <2>5. \A t \in sends' : t \in sends /\ t.m # m
    BY <1>b, <2>2
  <2> HIDE DEF m, x, settles
  <2>6. RowAgrees(m, x, ts[m]) /\ \A n \in Rows \ {m} : ts[n] = task[n]
    <3>1. \A n \in Rows : ts[n] = IF n = m /\ x.st \in HandedOver /\ task[n].st \in {"OPEN", "MISSED"}
                                  THEN Done(IF s.answer = "QUEUED" THEN "ACCEPTED" ELSE "SENT") ELSE task[n]
      BY <2>3 DEF AcceptedTasks, Rows, TaskRows, MessageSteps, HandedOver
    <3> HIDE DEF ts
    <3>2. /\ task[m].st # "ABSENT" /\ task[m] \notin {Done("ALREADY_ACKNOWLEDGED"), Done("ACCEPTED"), Done("SENT")}
      BY <1>d, <2>1, <2>3 DEF RowAgrees, HandedOver
    <3>3. task[m].st \in {"ABSENT", "OPEN", "DONE", "CANCELLED", "MISSED"}
      BY <1>0, <2>1 DEF Tasks, Task, Rows, TaskRows, MessageSteps
    <3>4. \A res : Done(res).st = "DONE" /\ Done(res).res = res
      BY DEF Done
    <3>5. CASE x.st \in HandedOver /\ task[m].st \in {"OPEN", "MISSED"}
      <4>1. ts[m] = Done(IF s.answer = "QUEUED" THEN "ACCEPTED" ELSE "SENT")
        BY <2>1, <3>1, <3>5
      <4> QED
        BY <2>1, <2>3, <3>1, <3>4, <3>5, <4>1 DEF RowAgrees, Accepting
    <3>6. CASE ~(x.st \in HandedOver /\ task[m].st \in {"OPEN", "MISSED"})
      <4>1. ts[m] = task[m]
        BY <2>1, <3>1, <3>6
      <4> QED
        BY <3>1, <3>2, <3>3, <3>6, <4>1 DEF RowAgrees
    <3> QED
      BY <3>5, <3>6
  <2> HIDE DEF ts
  <2>7. Agree(ms, ts)
    BY <1>0, <1>d, <2>1, <2>6, AgreeRow
  <2> HIDE DEF ms
  <2>8. Agree(msg', task')
    BY <2>2, <2>4, <2>7, SettledAgree
  <2>9. Rewrites(ms, msg', {})
    BY <1>a, <2>2, <2>4, SettledRewrites
  <2>10. msg'[m] = x
    BY <2>1, <2>2, <2>4, SettledLeaves
  <2>11. RowSound(x) /\ RowHistory(m, msg[m], x) /\ RowClaim(m, msg[m], x) /\ RowFresh(m, msg[m], x)
    <3>1. Gone(msg[m])
      BY <1>d, SentIsGone DEF m
    <3>2. x.st \in HandedOver => Answered(m, x)
      BY <2>2, <2>3 DEF Answered, m
    <3>3. RowFresh(m, msg[m], x)
      BY <2>3, <3>1, <3>2 DEF RowFresh, Undelivered, HandedOver
    <3> QED
      BY <2>3, <3>1, <3>3 DEF RowSound, RowHistory, RowClaim, HandedOver
  <2>12. RowStep(m, x, {})
    BY <1>b, <2>2, <2>3, <2>5, <2>8, <2>9, <2>10, <2>11 DEF RowStep, ms
  <2> QED
    BY <2>1, <2>12, RowStepKeeps
<1>5. ASSUME NEW c \in callbacks, KeepReport(c) PROVE StepRight
  BY <1>a, <1>d, <1>5, QuietKeeps DEF KeepReport
<1>6. ASSUME NEW c \in callbacks, CommitFailure(c) PROVE StepRight
  <2> DEFINE m == c.m
             x == Applied(msg[m], c)
             ms == [msg EXCEPT ![m] = x]
             ts == AppliedTasks(task, c, msg[m])
             R == Releasable(booking, ts, c.later)
  <2>1. c \in Callback /\ m \in Rows /\ msg[m] \in Message
    BY <1>0 DEF TypeOK, Callback
  <2>2. /\ msg' = ReleasedMessages(booking, ms, ts, c.later) /\ task' = ReleasedTasks(booking, ts, c.later)
        /\ UNCHANGED <<booking, sends, taken>>
    BY <1>6 DEF CommitFailure
  <2>3. /\ x \in Message
        /\ msg[m].st \notin HandedOver => x = msg[m]
        /\ msg[m].st \in HandedOver => /\ x.claim = msg[m].claim /\ x.pid = msg[m].pid
                                       /\ x.st \in HandedOver \/ x.st = "FAILED"
    BY <2>1, AppliedType
  <2>4. ms \in Messages /\ ms[m] = x
    BY <1>0, <2>1, <2>3 DEF Messages
  <2>5. \A r \in R \cap Rows : Upcoming(booking[r[1]]) /\ IsAck(r) /\ ts[r] = Done("ALREADY_ACKNOWLEDGED")
    BY DEF Releasable
  <2>6. Agree(ms, ts)
    <3>1. CASE msg[m].st \notin HandedOver
      <4>1. ms = msg /\ ts = task
        BY <1>0, <2>1, <2>3, <3>1 DEF Messages, AppliedTasks
      <4> QED
        BY <1>d, <4>1
    <3>2. CASE msg[m].st \in HandedOver
      <4>1. msg[m].pid
        BY <1>d, <2>1, <3>2 DEF SendInv, ClaimedIsPending
      <4> QED
        BY <1>0, <1>d, <2>1, <3>2, <4>1, AppliedAgree
    <3> QED
      BY <3>1, <3>2
  <2> HIDE DEF m, x, ts
  <2>7. OnlyPendingClaimed(ms)
    <3>1. \A n \in Rows : ms[n] = IF n = m THEN x ELSE msg[n]
      BY <1>0, <2>4 DEF Messages
    <3>2. \A n \in Rows : msg[n].claim # 0 => msg[n].st = "PENDING"
      BY <1>d DEF SendInv, ClaimedIsPending
    <3>3. x.claim # 0 => x.st = "PENDING"
      BY <2>1, <2>3, <3>2 DEF HandedOver
    <3> HIDE DEF ms
    <3> QED
      BY <3>1, <3>2, <3>3 DEF OnlyPendingClaimed
  <2> HIDE DEF ms
  <2>8. Rewrites(ms, msg', R) /\ Agree(msg', task')
    BY <1>0, <2>2, <2>4, <2>6, <2>7, ReleasedRewrites, ReleasedAgree
  <2>9. CASE msg[m].st \notin HandedOver
    <3>1. ms = msg
      BY <1>0, <2>1, <2>3, <2>9 DEF Messages, ms
    <3>2. \A n \in Rows : Closed(booking, n) => n \notin R
      BY <2>5 DEF Closed, Upcoming, IsAck
    <3>3. NoneLeft(booking, msg')
      BY <2>8, <3>1, <3>2, NoneLeftKept DEF DeliveryInv
    <3>4. \A r \in R \cap Rows : booking'[r[1]].st # "ABSENT" /\ Upcoming(booking[r[1]])
      BY <2>2, <2>5 DEF Upcoming
    <3> HIDE DEF R
    <3> QED
      BY <2>2, <2>8, <3>1, <3>3, <3>4, RewriteKeeps
  <2>10. CASE msg[m].st \in HandedOver
    <3>1. ~Selected(x) /\ x.st \notin {"ABSENT", "CANCELLED"}
      <4>1. msg[m].pid
        BY <1>d, <2>1, <2>10 DEF SendInv, ClaimedIsPending
      <4> QED
        BY <2>3, <2>10, <4>1 DEF Selected, Unsent, Undelivered, HandedOver
    <3>2. msg'[m] = x
      BY <2>1, <2>4, <2>8, <3>1 DEF Rewrites, Revivable
    <3> HIDE DEF R
    <3>3. RowStep(m, x, R)
      BY <2>1, <2>2, <2>5, <2>8, <2>10, <3>2, ReportedRow DEF x, ms
    <3> QED
      BY <2>1, <3>3, RowStepKeeps
  <2> QED
    BY <2>9, <2>10
<1> QED
  BY <1>1, <1>2, <1>3, <1>4, <1>5, <1>6 DEF SendStep, CallbackStep

-----------------------------------------------------------------------------
(* Every step *)

\* What messages, their senders, their bookings and their steps know of each
\* other, and the chains, hold for ever, and every step does right by every message.
LEMMA NextRight == TypeOK /\ DeliveryInv /\ ChainSound /\ [Next]_vars => StepRight
<1>1. TypeOK /\ DeliveryInv /\ UNCHANGED vars => StepRight
  <2> SUFFICES ASSUME TypeOK, DeliveryInv, UNCHANGED vars PROVE StepRight
    OBVIOUS
  <2>1. SendInv'
    BY DEF vars, DeliveryInv, SendInv, ClaimsMatch, ClaimedIsPending, TakenIsGone, NoneBeforeBooking, Gone, Unknown,
       Undelivered
  <2> QED
    BY <2>1, SameKeeps DEF vars
<1> QED
  BY <1>1, BookingStepRight, MessageStepRight, SendStepRight DEF Next

-----------------------------------------------------------------------------
(* One acknowledgement of a chain *)

\* An acknowledgement that is not with the provider: not in flight, unknown or accepted.
NotAccepted(x) == x.claim = 0 /\ x.st \notin HandedOver /\ ~Unknown(x)
\* One of a later booking goes only when those of the earlier ones are not there.
OneAtATime ==
  \A b \in Bookings : \A a \in booking[b].earlier :
    {Ack(a), Ack(b)} \subseteq Rows /\ Gone(msg[Ack(b)]) => NotAccepted(msg[Ack(a)])
\* A booking that b replaced has an acknowledgement handed over.
Acknowledged(bk, ms, b) == \E a \in bk[b].earlier : Ack(a) \in Rows /\ ms[Ack(a)].st \in HandedOver

\* What the earlier acknowledgements are when they are found accepted, or not.
LEMMA EarlierMeans ==
  ASSUME NEW bk, NEW ms, NEW b
  PROVE  /\ EarlierAcknowledgement(bk, ms, b) = "ACCEPTED" <=> Acknowledged(bk, ms, b)
         /\ EarlierAcknowledgement(bk, ms, b) \in {"NONE", "NOT_ACCEPTED"} =>
              \A a \in bk[b].earlier : Ack(a) \in Rows => NotAccepted(ms[Ack(a)])
<1> DEFINE acks == {ms[m] : m \in {Ack(a) : a \in bk[b].earlier} \cap Rows}
<1>1. \A x : x \in acks <=> \E a \in bk[b].earlier : Ack(a) \in Rows /\ x = ms[Ack(a)]
  OBVIOUS
<1>2. EarlierAcknowledgement(bk, ms, b) =
        IF bk[b].earlier = {} THEN "NONE"
        ELSE IF \E x \in acks : x.st \in HandedOver THEN "ACCEPTED"
        ELSE IF \E x \in acks : x.claim # 0 THEN "IN_FLIGHT"
        ELSE IF \E x \in acks : Unknown(x) THEN "UNKNOWN"
        ELSE "NOT_ACCEPTED"
  BY DEF EarlierAcknowledgement
<1> HIDE DEF acks
<1>3. (\E x \in acks : x.st \in HandedOver) <=> Acknowledged(bk, ms, b)
  BY <1>1 DEF Acknowledged
<1>4. Acknowledged(bk, ms, b) => bk[b].earlier # {}
  BY DEF Acknowledged
<1>5. ASSUME ~(\E x \in acks : x.st \in HandedOver), ~(\E x \in acks : x.claim # 0), ~(\E x \in acks : Unknown(x)),
             NEW a \in bk[b].earlier, Ack(a) \in Rows
      PROVE  NotAccepted(ms[Ack(a)])
  BY <1>1, <1>5 DEF NotAccepted
<1> QED
  BY <1>2, <1>3, <1>4, <1>5

\* One acknowledgement goes at a time, since one is claimed only while all before it are not
\* accepted, and none is claimed any more once its booking was moved.
LEMMA OneKept == TypeOK /\ DeliveryInv /\ ChainSound /\ OneAtATime /\ [Next]_vars => OneAtATime'
<1> SUFFICES ASSUME TypeOK, DeliveryInv, ChainSound, OneAtATime, [Next]_vars,
                    NEW b \in Bookings, NEW a \in booking'[b].earlier, Ack(a) \in Rows, Ack(b) \in Rows,
                    Gone(msg'[Ack(b)])
             PROVE  NotAccepted(msg'[Ack(a)])
  BY DEF OneAtATime, Gone, Undelivered, Unknown, NotAccepted
<1> DEFINE x == msg[Ack(a)]
           y == msg'[Ack(a)]
           v == msg[Ack(b)]
           w == msg'[Ack(b)]
<1>1. /\ RowHistory(Ack(a), x, y) /\ RowClaim(Ack(a), x, y) /\ RowFresh(Ack(a), x, y)
      /\ RowClaim(Ack(b), v, w) /\ RowFresh(Ack(b), v, w)
      /\ Evolves /\ ChainsInLine /\ DeliveryInv
  BY NextRight, NextEvolves DEF StepRight, ChainSound
<1>2. Ack(a)[1] = a /\ Ack(b)[1] = b /\ IsAck(Ack(a)) /\ IsAck(Ack(b)) /\ Ack(b)[2] = "ACKNOWLEDGEMENT"
      /\ Ack(a)[2] = "ACKNOWLEDGEMENT" /\ a \in Bookings
  BY DEF Ack, IsAck, Rows
<1>3. booking[b].st = "ABSENT" => ~Gone(v) /\ v.claim = 0
  BY <1>1, <1>2 DEF DeliveryInv, SendInv, NoneBeforeBooking, ClaimedIsPending, Gone, Unknown, Undelivered, HandedOver
<1>4. v.claim = 0 /\ w.claim # 0 =>
        booking[b].st = "BOOKED" /\ EarlierAcknowledgement(booking, msg, b) \in {"NONE", "NOT_ACCEPTED"}
  BY <1>1, <1>2 DEF RowClaim
<1>5. booking[b].st # "ABSENT"
  BY <1>1, <1>3, <1>4 DEF RowFresh
<1>6. a \in booking[b].earlier /\ booking[a].st = "RESCHEDULED"
  BY <1>1, <1>5 DEF Evolves, ChainsInLine
<1>7. NotAccepted(x)
  <2>1. CASE Gone(v)
    BY <1>6, <2>1 DEF OneAtATime
  <2>2. CASE ~Gone(v)
    <3>1. v.claim = 0 /\ w.claim # 0
      BY <1>1, <2>2 DEF RowFresh, Gone
    <3> QED
      BY <1>4, <1>6, <3>1, EarlierMeans
  <2> QED
    BY <2>1, <2>2
<1>8. y.claim = 0
  BY <1>1, <1>2, <1>6, <1>7 DEF RowClaim, NotAccepted
<1> HIDE DEF x, y
<1>9. y.st \notin HandedOver /\ ~Unknown(y)
  BY <1>1, <1>7, <1>8 DEF NotAccepted, RowFresh, RowHistory, Gone
<1> QED
  BY <1>8, <1>9 DEF NotAccepted, y

LEMMA InitOne == Init => OneAtATime
<1> SUFFICES ASSUME Init PROVE OneAtATime
  OBVIOUS
<1>1. \A b \in Bookings : Ack(b) \in Rows => ~Gone(msg[Ack(b)])
  BY DEF Init, NoMessage, Gone, Unknown, Undelivered, HandedOver
<1> QED
  BY <1>1 DEF OneAtATime

\* A second is taken only once the first is known undelivered.
LEMMA OneMeans == DeliveryInv /\ TypeOK /\ OneAtATime => OneAcknowledgementPerChain
<1> SUFFICES ASSUME DeliveryInv, TypeOK, OneAtATime, NEW b \in Bookings, NEW a \in booking[b].earlier,
                    {Ack(a), Ack(b)} \subseteq Rows, taken[Ack(a)] > 0, taken[Ack(b)] > 0
             PROVE  Undelivered(msg[Ack(a)])
  BY DEF OneAcknowledgementPerChain
<1>1. Gone(msg[Ack(a)]) /\ Gone(msg[Ack(b)])
  BY DEF DeliveryInv, SendInv, TakenIsGone, TypeOK
<1> QED
  BY <1>1 DEF OneAtATime, NotAccepted, Gone

-----------------------------------------------------------------------------
(* A chain agrees about its acknowledgement *)

Already == Done("ALREADY_ACKNOWLEDGED")
\* A report that is being applied makes a message handed over a delivery failure,
\* and no other is applied to it.
ReportsHeld ==
  /\ \A c \in callbacks : c.pc = "applying" => msg[c.m].st \in HandedOver /\ Undelivered(Applied(msg[c.m], c))
  /\ \A c, d \in callbacks : c.pc = "applying" /\ d.pc = "applying" /\ c.m = d.m => c = d
\* A booking not made yet has no step closed as acknowledged.
NoStepBefore == \A m \in Rows : IsAck(m) /\ booking[m[1]].st = "ABSENT" => task[m] # Already
ChainRest == ReportsHeld /\ NoStepBefore /\ ChainAgrees

\* What a step does that decides nothing of an acknowledgement: none is handed
\* over or taken back, none is again to be sent, and no step is closed as acknowledged.
Quiet ==
  /\ \A b \in Bookings : booking[b].st = "ABSENT" => booking'[b].st = "ABSENT"
  /\ \A m \in Rows : IsAck(m) =>
       /\ msg'[m].st \in HandedOver <=> msg[m].st \in HandedOver
       /\ Outstanding(msg'[m]) => Outstanding(msg[m])
       /\ task'[m] = Already => task[m] = Already
\* What is handed over stays as it is.
Still == \A m \in Rows : msg[m].st \in HandedOver => msg'[m] = msg[m]

\* What ChainAgrees says of booking b, in terms of the acknowledgements before it.
LEMMA AgreesMeans ==
  ASSUME NEW b
  PROVE  /\ EarlierAcknowledgement(booking, msg, b) = "ACCEPTED" <=> Acknowledged(booking, msg, b)
         /\ EarlierAcknowledgement(booking', msg', b) = "ACCEPTED" <=> Acknowledged(booking', msg', b)
BY EarlierMeans

\* Such a step keeps the chains in agreement.
LEMMA QuietAgrees ==
  ASSUME TypeOK, Evolves, NoStepBefore, ChainAgrees, Quiet
  PROVE  NoStepBefore' /\ ChainAgrees'
<1>1. NoStepBefore'
  BY DEF NoStepBefore, Evolves, Quiet, Rows
<1>2. ASSUME NEW b \in Bookings \ overlooked', Ack(b) \in Rows, Upcoming(booking'[b])
      PROVE  /\ task'[Ack(b)] = Already => Acknowledged(booking', msg', b)
             /\ Acknowledged(booking', msg', b) => ~Outstanding(msg'[Ack(b)])
  <2>1. b \in Bookings \ overlooked /\ booking[b].st # "ABSENT" /\ Upcoming(booking[b])
        /\ booking'[b].earlier = booking[b].earlier
    BY <1>2 DEF Evolves, Quiet, Upcoming
  <2>2. /\ task[Ack(b)] = Already => Acknowledged(booking, msg, b)
        /\ Acknowledged(booking, msg, b) => ~Outstanding(msg[Ack(b)])
    BY <1>2, <2>1, AgreesMeans DEF ChainAgrees, Already
  <2>3. \A a : IsAck(Ack(a))
    BY DEF Ack, IsAck
  <2>4. Acknowledged(booking', msg', b) <=> Acknowledged(booking, msg, b)
    BY <2>1, <2>3 DEF Acknowledged, Quiet
  <2> QED
    BY <1>2, <2>2, <2>3, <2>4 DEF Quiet
<1>3. ChainAgrees'
  BY <1>2, AgreesMeans DEF ChainAgrees, Already
<1> QED
  BY <1>1, <1>3

\* What is being applied stays so, when nothing more is and its message stays.
LEMMA HeldStays ==
  ASSUME TypeOK, ReportsHeld, Still, \A c \in callbacks' : c.pc = "applying" => c \in callbacks
  PROVE  ReportsHeld'
<1>1. \A c \in callbacks : c.m \in Rows
  BY DEF TypeOK, Callback
<1>2. ASSUME NEW c \in callbacks', c.pc = "applying" PROVE msg'[c.m] = msg[c.m]
  BY <1>1, <1>2 DEF ReportsHeld, Still
<1> QED
  BY <1>2 DEF ReportsHeld, Undelivered

\* A step of the planner that makes no acknowledgement, and closes none as acknowledged.
LEMMA RewriteIsQuiet ==
  ASSUME TypeOK, Evolves, ChainRest, NEW R, Rewrites(msg, msg', R), \A m \in R \cap Rows : ~IsAck(m),
         \A b \in Bookings : booking[b].st = "ABSENT" => booking'[b].st = "ABSENT",
         \A m \in Rows : IsAck(m) /\ task'[m] = Already => task[m] = Already,
         \A c \in callbacks' : c.pc = "applying" => c \in callbacks
  PROVE  ChainRest'
<1>1. \A m \in Rows : /\ Rewritten(msg[m], msg'[m])
                      /\ IsAck(m) /\ Outstanding(msg'[m]) => Outstanding(msg[m])
  BY DEF Rewrites
<1>2. Still
  BY <1>1 DEF Still, Rewritten, Gone
<1>3. \A m \in Rows : msg'[m].st \in HandedOver => msg'[m] = msg[m]
  BY <1>1 DEF Rewritten, HandedOver
<1>4. Quiet
  BY <1>1, <1>2, <1>3 DEF Quiet, Still
<1> QED
  BY <1>2, <1>4, HeldStays, QuietAgrees DEF ChainRest

\* A step that writes message m as x, and hands it not over if it is an acknowledgement.
LEMMA RowIsQuiet ==
  ASSUME TypeOK, Evolves, ChainRest, NEW m \in Rows, NEW x, Rewrites([msg EXCEPT ![m] = x], msg', {}), msg'[m] = x,
         msg[m].st \notin HandedOver, IsAck(m) => x.st \notin HandedOver /\ (Outstanding(x) => Outstanding(msg[m])),
         UNCHANGED booking,
         \A n \in Rows : IsAck(n) /\ task'[n] = Already => task[n] = Already,
         \A c \in callbacks' : c.pc = "applying" => c \in callbacks
  PROVE  ChainRest'
<1>1. \A n \in Rows \ {m} : Rewritten(msg[n], msg'[n]) /\ (Outstanding(msg'[n]) => Outstanding(msg[n]))
  BY DEF Rewrites, TypeOK
<1>2. Still
  BY <1>1 DEF Still, Rewritten, Gone
<1>3. \A n \in Rows \ {m} : msg'[n].st \in HandedOver => msg'[n] = msg[n]
  BY <1>1 DEF Rewritten, HandedOver
<1>4. Quiet
  BY <1>1, <1>2, <1>3 DEF Quiet, Still
<1> QED
  BY <1>2, <1>4, HeldStays, QuietAgrees DEF ChainRest

\* Closing open steps for another reason closes none as acknowledged.
LEMMA UpdateCloses ==
  ASSUME NEW ts, NEW S, NEW new, new # Already, NEW m \in Rows
  PROVE  UpdateTasks(ts, S, "OPEN", new)[m] = Already => ts[m] = Already
BY DEF UpdateTasks, Rows, TaskRows, MessageSteps

LEMMA ClosedCloses ==
  ASSUME NEW ts, NEW b, NEW why, NEW m \in Rows, ClosedTasks(ts, b, why)[m] = Already
  PROVE  ts[m] = Already
<1> DEFINE new == [st |-> "CANCELLED", res |-> why]
<1>1. new # Already
  BY OtherReasons DEF Already
<1>2. ClosedTasks(ts, b, why) = UpdateTasks(ts, TasksOf(b), "OPEN", new)
  BY DEF ClosedTasks
<1> HIDE DEF new
<1> QED
  BY <1>1, <1>2, UpdateCloses

LEMMA ExpiredCloses ==
  ASSUME NEW bk, NEW ts, NEW B, NEW m \in Rows, ExpiredTasks(bk, ts, B)[m] = Already
  PROVE  ts[m] = Already
<1>1. Done("REMINDED") # Already /\ Missed # Already
  BY OtherReasons DEF Already
<1>2. PICK P, S : ExpiredTasks(bk, ts, B) = UpdateTasks(UpdateTasks(ts, S, "OPEN", Done("REMINDED")), P, "OPEN", Missed)
  BY DEF ExpiredTasks
<1>3. UpdateTasks(ts, S, "OPEN", Done("REMINDED"))[m] = Already
  BY <1>1, <1>2, UpdateCloses
<1> QED
  BY <1>1, <1>3, UpdateCloses

\* Every change of a booking that makes none keeps the chains in agreement.
LEMMA ChangeAgrees ==
  ASSUME TypeOK, TypeOK', DeliveryInv, Evolves, ChainRest, NEW b \in Bookings,
         \/ CancelBooking(b) \/ NotConfirmed(b) \/ ParentConfirmed(b)
         \/ StartBooking(b) \/ Complete(b)
         \/ RequestConfirmation(b)
         \/ \E outcome \in CallOutcomes : RecordCallOutcome(b, outcome)
         \/ \E d \in Details : ChangeDetails(b, d) \/ ChangeDetailsUnseen(b, d)
         \/ Tick(b) \/ AfterWindowCloses(b)
  PROVE  ChainRest'
<1>0. /\ booking \in Bookkeeping /\ msg \in Messages /\ task \in Tasks /\ booking' \in Bookkeeping
      /\ \A m \in Rows : msg[m] \in Message /\ m[1] \in Bookings
      /\ \A c \in Bookings : booking[c] \in Booking
  BY DEF TypeOK, Bookkeeping, Messages, Tasks, Rows
<1>a. Rewrites(msg, msg, {})
  BY DEF Rewrites, Rewritten
<1>1. CASE CancelBooking(b) \/ NotConfirmed(b)
  <2>1. Close(b) /\ booking[b].st = "BOOKED"
    BY <1>1 DEF CancelBooking, NotConfirmed, Active, Upcoming
  <2>2. /\ msg' = ClosedMessages(msg, b, "BOOKING_CANCELLED") /\ task' = ClosedTasks(task, b, "BOOKING_CANCELLED")
        /\ UNCHANGED callbacks /\ \A c \in Bookings : booking[c].st = "ABSENT" => booking'[c].st = "ABSENT"
    BY <1>0, <2>1 DEF Close, Sending, Bookkeeping
  <2>3. Rewrites(msg, msg', {})
    BY <1>0, <2>2, CancelRewrites DEF ClosedMessages
  <2> QED
    BY <2>2, <2>3, ClosedCloses, RewriteIsQuiet
<1>2. CASE ParentConfirmed(b)
  <2> DEFINE Q == {<<b, "CONFIRMATION_REQUEST">>}
             ms == CancelMessages(msg, Q, "NOT_NEEDED")
  <2>1. ms \in Messages /\ Rewrites(msg, ms, {})
    BY <1>0, CancelMessagesType, CancelRewrites DEF CancelReasons
  <2>2. /\ msg' = Refresh(booking', ms, RowsOf(b)) /\ task' = UpdateTasks(task, Q, "OPEN", Done("NOT_NEEDED"))
        /\ UNCHANGED callbacks /\ \A c \in Bookings : booking[c].st = "ABSENT" => booking'[c].st = "ABSENT"
    BY <1>0, <1>2 DEF ParentConfirmed, Active, Upcoming, Sending, Bookkeeping
  <2> HIDE DEF ms, Q
  <2>3. Rewrites(msg, msg', {})
    BY <2>1, <2>2, RefreshRewrites, RewritesTwice
  <2>4. \A m \in Rows : task'[m] = Already => task[m] = Already
    BY <2>2, OtherReasons, UpdateCloses DEF Already
  <2> QED
    BY <2>2, <2>3, <2>4, RewriteIsQuiet
<1>3. CASE StartBooking(b) \/ Tick(b) \/ AfterWindowCloses(b)
  <2>1. /\ UNCHANGED <<msg, task, callbacks>>
        /\ \A c \in Bookings : booking[c].st = "ABSENT" => booking'[c].st = "ABSENT"
    BY <1>0, <1>3 DEF StartBooking, Tick, AfterWindowCloses, Sending, Bookkeeping
  <2> QED
    BY <1>a, <2>1, RewriteIsQuiet
<1>4. CASE Complete(b)
  <2> DEFINE ms == ExpiredMessages(booking, msg, {b})
             after == {<<b, "AFTER_ACTIVITY">>} \cap Rows
             new == {m \in after : task[m].st # "ABSENT" /\ msg[m].st = "ABSENT"}
  <2>1. ms \in Messages /\ Rewrites(msg, ms, new)
    BY <1>0, CancelRewrites, CancelMessagesType DEF ExpiredMessages, CancelReasons
  <2>2. \A m \in new : m \in Rows /\ ~IsAck(m) /\ msg[m].st = "ABSENT" /\ ~Gone(msg[m])
    BY <1>0 DEF DeliveryInv, SendInv, ClaimedIsPending, Gone, Unknown, Undelivered, HandedOver, IsAck
  <2>3. \A m \in new : ms[m].st = "ABSENT" /\ ~Gone(ms[m])
    <3>1. \A m \in new : ms[m] = msg[m]
      BY <2>2 DEF ExpiredMessages, CancelMessages, Cancellable, Selected, Unsent
    <3> QED
      BY <2>2, <3>1 DEF Gone, Unknown, Undelivered
  <2>4. /\ msg' = AddMessages(booking', ms, new) /\ task' = ExpiredTasks(booking, task, {b})
        /\ UNCHANGED callbacks /\ \A c \in Bookings : booking[c].st = "ABSENT" => booking'[c].st = "ABSENT"
    BY <1>0, <1>4 DEF Complete, Sending, Bookkeeping
  <2> HIDE DEF ms, new
  <2>5. Rewrites(msg, msg', new)
    BY <1>0, <2>1, <2>3, <2>4, AddRewrites, RewritesTwice
  <2> QED
    BY <2>2, <2>4, <2>5, ExpiredCloses, RewriteIsQuiet
<1>5. CASE RequestConfirmation(b)
  <2> DEFINE R == {<<b, "CONFIRMATION_REQUEST">>}
  <2>1. \A m \in R \cap Rows : msg[m].st = "ABSENT" /\ ~Gone(msg[m]) /\ ~IsAck(m)
    BY <1>0, <1>5 DEF RequestConfirmation, DeliveryInv, SendInv, ClaimedIsPending, Gone, Unknown, Undelivered,
       HandedOver, IsAck
  <2>2. msg' = AddMessages(booking, msg, R) /\ UNCHANGED <<booking, task, callbacks>>
    BY <1>5 DEF RequestConfirmation, Sending
  <2> HIDE DEF R
  <2>3. Rewrites(msg, msg', R)
    BY <1>0, <2>1, <2>2, AddRewrites
  <2> QED
    BY <2>1, <2>2, <2>3, RewriteIsQuiet
<1>6. ASSUME NEW outcome \in CallOutcomes, RecordCallOutcome(b, outcome) PROVE ChainRest'
  <2>1. UNCHANGED <<booking, msg, callbacks>> /\ \A m \in Rows : task'[m] = task[m]
    BY <1>0, <1>6 DEF RecordCallOutcome, Sending, Rows, TaskRows, MessageSteps, Tasks
  <2> QED
    BY <1>a, <2>1, RewriteIsQuiet
<1>7. ASSUME NEW d \in Details, ChangeDetails(b, d) \/ ChangeDetailsUnseen(b, d) PROVE ChainRest'
  <2>1. Rewrites(msg, msg', {}) /\ UNCHANGED <<task, callbacks>>
    BY <1>0, <1>a, <1>7, RefreshRewrites DEF ChangeDetails, ChangeDetailsUnseen, Sending
  <2>2. \A c \in Bookings : booking[c].st = "ABSENT" => booking'[c].st = "ABSENT"
    BY <1>0, <1>7 DEF ChangeDetails, ChangeDetailsUnseen, Bookkeeping, Booking
  <2> QED
    BY <2>1, <2>2, RewriteIsQuiet
<1> QED
  BY <1>1, <1>2, <1>3, <1>4, <1>5, <1>6, <1>7

\* What agrees of bookings there are is left so when one more is made, and agrees.
LEMMA MadeAgrees ==
  ASSUME TypeOK, Evolves, ChainRest, NEW c \in Bookings, booking[c].st = "ABSENT", booking'[c].st # "ABSENT",
         \A b \in Bookings \ {c} : booking[b].st = "ABSENT" => booking'[b].st = "ABSENT",
         Rewrites(msg, msg', RowsOf(c)),
         \A m \in Rows \ RowsOf(c) : task'[m] = Already => task[m] = Already,
         Ack(c) \in Rows => /\ task'[Ack(c)] = Already => Acknowledged(booking', msg', c)
                            /\ Acknowledged(booking', msg', c) => ~Outstanding(msg'[Ack(c)]),
         UNCHANGED callbacks
  PROVE  ChainRest'
<1>1. \A m \in Rows : /\ Rewritten(msg[m], msg'[m])
                      /\ m \notin RowsOf(c) /\ Outstanding(msg'[m]) => Outstanding(msg[m])
  BY DEF Rewrites
<1>2. Still
  BY <1>1 DEF Still, Rewritten, Gone
<1>3. \A m \in Rows : msg'[m].st \in HandedOver <=> msg[m].st \in HandedOver
  BY <1>1, <1>2 DEF Still, Rewritten, HandedOver
<1>4. \A m \in Rows : m \in RowsOf(c) <=> m[1] = c
  BY DEF Rows, RowsOf
<1>5. NoStepBefore'
  BY <1>4 DEF ChainRest, NoStepBefore, Evolves, Rows
<1>6. ASSUME NEW b \in Bookings \ overlooked', Ack(b) \in Rows, Upcoming(booking'[b])
      PROVE  /\ task'[Ack(b)] = Already => Acknowledged(booking', msg', b)
             /\ Acknowledged(booking', msg', b) => ~Outstanding(msg'[Ack(b)])
  <2>1. CASE b = c
    BY <1>6, <2>1
  <2>2. CASE b # c
    <3>1. /\ b \in Bookings \ overlooked /\ booking[b].st # "ABSENT" /\ Upcoming(booking[b])
          /\ booking'[b].earlier = booking[b].earlier
      BY <1>6, <2>2 DEF Evolves, Upcoming
    <3>2. /\ task[Ack(b)] = Already => Acknowledged(booking, msg, b)
          /\ Acknowledged(booking, msg, b) => ~Outstanding(msg[Ack(b)])
      BY <1>6, <3>1, AgreesMeans DEF ChainRest, ChainAgrees, Already
    <3>3. Acknowledged(booking', msg', b) <=> Acknowledged(booking, msg, b)
      BY <1>3, <3>1 DEF Acknowledged
    <3>4. Ack(b) \notin RowsOf(c)
      BY <1>4, <1>6, <2>2 DEF Ack
    <3> QED
      BY <1>1, <1>6, <3>2, <3>3, <3>4
  <2> QED
    BY <2>1, <2>2
<1>7. ChainAgrees'
  BY <1>6, AgreesMeans DEF ChainAgrees, Already
<1>8. ReportsHeld'
  BY <1>2, HeldStays DEF ChainRest
<1> QED
  BY <1>5, <1>7, <1>8 DEF ChainRest

\* What is planned of a new booking's acknowledgement.
LEMMA PlannedAck ==
  ASSUME NEW bk, NEW ms, NEW ts, NEW b, Ack(b) \in Rows
  PROVE  /\ PlannedTasks(bk, ms, ts, b)[Ack(b)] = Already => ts[Ack(b)] = Already \/ Acknowledged(bk, ms, b)
         /\ Acknowledged(bk, ms, b) /\ ~Outstanding(ms[Ack(b)]) => ~Outstanding(PlannedMessages(bk, ms, b)[Ack(b)])
         /\ \A m \in Rows : m[1] # b => PlannedTasks(bk, ms, ts, b)[m] = ts[m]
<1> DEFINE acked == EarlierAcknowledgement(bk, ms, b) = "ACCEPTED"
           R == {b} \X (({"PARENT_CONFIRMATION"} \cup (IF acked THEN {} ELSE {"ACKNOWLEDGEMENT"})) \cap MessageSteps)
<1>1. acked <=> Acknowledged(bk, ms, b)
  BY EarlierMeans
<1>2. \A m \in Rows : m \in TaskRows
  BY DEF Rows, TaskRows, MessageSteps
<1>3. \A m \in Rows : PlannedTasks(bk, ms, ts, b)[m] =
                        IF bk[b].redemo \/ m[1] # b THEN ts[m] ELSE IF acked /\ IsAck(m) THEN Already ELSE Open
  BY <1>2 DEF PlannedTasks, Already
<1>4. Open # Already
  BY OtherReasons DEF Already
<1>5. ASSUME acked PROVE PlannedMessages(bk, ms, b)[Ack(b)] = ms[Ack(b)]
  <2>1. PlannedMessages(bk, ms, b) = IF bk[b].redemo THEN ms ELSE AddMessages(bk, ms, R)
    BY DEF PlannedMessages
  <2>2. Ack(b) \notin R
    BY <1>5 DEF Ack
  <2> HIDE DEF R
  <2>3. AddMessages(bk, ms, R)[Ack(b)] = ms[Ack(b)]
    BY <2>2 DEF AddMessages, Refresh
  <2> QED
    BY <2>1, <2>3
<1> HIDE DEF acked
<1> QED
  BY <1>1, <1>3, <1>4, <1>5

\* A new booking, which replaces none, agrees with the rest.
LEMMA BookAgrees ==
  ASSUME TypeOK, TypeOK', DeliveryInv, Evolves, ChainRest, NEW b \in Bookings, NEW d \in Details, NEW redemo \in Redemos,
         Book(b, d, redemo)
  PROVE  ChainRest'
<1>1. /\ booking[b].st = "ABSENT" /\ UNCHANGED callbacks
      /\ msg' = PlannedMessages(booking', msg, b) /\ task' = PlannedTasks(booking', msg, task, b)
      /\ booking'[b].st = "BOOKED" /\ booking'[b].earlier = {}
      /\ \A c \in Bookings \ {b} : booking'[c] = booking[c]
  BY DEF Book, Sending, TypeOK, NewBooking
<1>2. \A m \in RowsOf(b) : msg[m].st = "ABSENT" /\ ~Gone(msg[m])
  BY <1>1 DEF DeliveryInv, SendInv, NoneBeforeBooking, ClaimedIsPending, RowsOf, Rows, Gone, Unknown, Undelivered, HandedOver
<1>3. Rewrites(msg, msg', RowsOf(b))
  BY <1>1, <1>2, PlannedRewrites DEF TypeOK, Bookkeeping, Messages
<1>4. ASSUME Ack(b) \in Rows PROVE task'[Ack(b)] # Already /\ ~Acknowledged(booking', msg', b)
  <2>1. ~Acknowledged(booking', msg', b) /\ ~Acknowledged(booking', msg, b)
    BY <1>1 DEF Acknowledged
  <2>2. task[Ack(b)] # Already
    BY <1>1, <1>4 DEF ChainRest, NoStepBefore, Ack, IsAck
  <2> QED
    BY <1>1, <1>4, <2>1, <2>2, PlannedAck
<1>5. \A m \in Rows \ RowsOf(b) : task'[m] = task[m]
  <2>1. \A m \in Rows \ RowsOf(b) : m[1] # b /\ m \in TaskRows
    BY DEF Rows, RowsOf, TaskRows, MessageSteps
  <2> QED
    BY <1>1, <2>1 DEF PlannedTasks
<1> QED
  BY <1>1, <1>3, <1>4, <1>5, MadeAgrees

\* A booking that replaces another agrees with what came before it.
LEMMA RescheduleAgrees ==
  ASSUME TypeOK, TypeOK', DeliveryInv, Evolves, ChainRest, NEW b \in Bookings, NEW c \in Bookings, NEW d \in Details,
         Reschedule(b, c, d)
  PROVE  ChainRest'
<1> DEFINE stopped == ClosedMessages(msg, b, "BOOKING_RESCHEDULED")
           left == ClosedTasks(task, b, "BOOKING_RESCHEDULED")
<1>1. /\ booking[b].st = "BOOKED" /\ booking[c].st = "ABSENT" /\ b # c /\ UNCHANGED callbacks
      /\ msg' = PlannedMessages(booking', stopped, c) /\ task' = PlannedTasks(booking', stopped, left, c)
      /\ booking'[c].st = "BOOKED"
      /\ \A e \in Bookings \ {b, c} : booking'[e] = booking[e]
  BY DEF Reschedule, Sending, TypeOK, NewBooking
<1>2. \A m \in RowsOf(c) : m \in Rows /\ msg[m].st = "ABSENT" /\ ~Gone(msg[m])
  BY <1>1 DEF DeliveryInv, SendInv, NoneBeforeBooking, ClaimedIsPending, RowsOf, Rows, Gone, Unknown, Undelivered, HandedOver
<1>3. /\ stopped \in Messages /\ Rewrites(msg, stopped, RowsOf(c))
      /\ \A m \in RowsOf(c) : stopped[m] = msg[m]
  <2>1. msg \in Messages
    BY TypeParts
  <2>2. \A m \in RowsOf(c) : stopped[m] = msg[m]
    BY <1>2 DEF ClosedMessages, CancelMessages, Cancellable, Selected, Unsent
  <2> QED
    BY <2>1, <2>2, TypeParts, ClosedType, CancelRewrites DEF ClosedMessages
<1>4. \A m \in Rows : left[m] = Already => task[m] = Already
  BY ClosedCloses
<1> HIDE DEF stopped, left
<1>5. Rewrites(stopped, msg', RowsOf(c)) /\ Rewrites(msg, msg', RowsOf(c))
  <2>1. \A m \in RowsOf(c) : stopped[m].st = "ABSENT" /\ ~Gone(stopped[m])
    BY <1>2, <1>3
  <2>2. booking' \in Bookkeeping
    BY DEF TypeOK, Bookkeeping
  <2> QED
    BY <1>1, <1>3, <2>1, <2>2, PlannedRewrites, RewritesTwice
<1>6. ASSUME Ack(c) \in Rows
      PROVE  /\ task'[Ack(c)] = Already => Acknowledged(booking', msg', c)
             /\ Acknowledged(booking', msg', c) => ~Outstanding(msg'[Ack(c)])
  <2>1. Ack(c) \in RowsOf(c) /\ Ack(c)[1] = c /\ IsAck(Ack(c))
    BY <1>6 DEF Ack, RowsOf, Rows, IsAck
  <2>2. ~Outstanding(stopped[Ack(c)]) /\ left[Ack(c)] # Already
    BY <1>1, <1>2, <1>3, <1>4, <2>1 DEF Outstanding, ChainRest, NoStepBefore
  <2>3. Acknowledged(booking', msg', c) <=> Acknowledged(booking', stopped, c)
    <3>1. \A m \in Rows : msg'[m].st \in HandedOver <=> stopped[m].st \in HandedOver
      BY <1>5 DEF Rewrites, Rewritten, HandedOver, Gone
    <3> QED
      BY <3>1 DEF Acknowledged
  <2> QED
    BY <1>1, <1>6, <2>2, <2>3, PlannedAck
<1>7. ASSUME NEW m \in Rows \ RowsOf(c), task'[m] = Already PROVE task[m] = Already
  <2>1. m[1] # c /\ m \in TaskRows
    BY DEF Rows, RowsOf, TaskRows, MessageSteps
  <2> QED
    BY <1>1, <1>4, <1>7, <2>1 DEF PlannedTasks
<1>8. \A e \in Bookings \ {c} : booking[e].st = "ABSENT" => booking'[e].st = "ABSENT"
  BY <1>1
<1> QED
  BY <1>1, <1>5, <1>6, <1>7, <1>8, MadeAgrees

\* A report that is applied leaves no step closed as acknowledged that was not.
LEMMA AppliedCloses ==
  ASSUME NEW ts \in Tasks, NEW c \in Callback, NEW x, NEW m \in Rows, AppliedTasks(ts, c, x)[m] = Already
  PROVE  ts[m] = Already
<1>1. Done("SENT") # Already
  BY DEF Done, Already
<1> QED
  BY <1>1 DEF AppliedTasks, Tasks, Callback, Rows, TaskRows, MessageSteps

\* Applying reports to a message keeps the chains in agreement, but for the failure of
\* an acknowledgement, which waits to be committed.
LEMMA ApplyAgrees ==
  ASSUME TypeOK, Evolves, ChainRest, NEW m \in Rows, NEW first \in SUBSET Reports, NEW fails \in BOOLEAN,
         NEW after \in SUBSET Reports, NEW kept \in SUBSET Reports, ApplyReports(m, first, fails, after, kept)
  PROVE  ChainRest'
<1> DEFINE c == [pc |-> "applying", m |-> m, first |-> first, fails |-> fails, after |-> after, kept |-> kept,
                 later |-> {b \in Later(booking, m[1]) : booking[b].st = "BOOKED"}]
           x == Applied(msg[m], c)
           failing == IsAck(m) /\ Undelivered(x) /\ ~Undelivered(msg[m])
<1>1. c \in Callback /\ c.m = m
  BY DEF Callback, Later
<1>2. msg \in Messages /\ msg[m] \in Message /\ task \in Tasks
  BY TypeParts DEF Messages
<1>3. /\ UNCHANGED booking /\ \A e \in callbacks : e.pc = "applying" => e.m # m
      /\ \/ failing /\ callbacks' = callbacks \cup {c} /\ UNCHANGED <<msg, task>>
         \/ ~failing /\ msg' = [msg EXCEPT ![m] = x] /\ task' = AppliedTasks(task, c, msg[m]) /\ UNCHANGED callbacks
  BY DEF ApplyReports, CanLock, HeldRows
<1> HIDE DEF c
<1>4. CASE failing /\ callbacks' = callbacks \cup {c} /\ UNCHANGED <<msg, task>>
  <2>1. Quiet
    BY <1>3, <1>4 DEF Quiet
  <2>2. msg[m].st \in HandedOver /\ Undelivered(Applied(msg[m], c))
    BY <1>1, <1>2, <1>4, AppliedType
  <2>3. ReportsHeld'
    BY <1>1, <1>3, <1>4, <2>2 DEF ChainRest, ReportsHeld, Undelivered
  <2> QED
    BY <2>1, <2>3, QuietAgrees DEF ChainRest
<1>5. CASE ~failing /\ msg' = [msg EXCEPT ![m] = x] /\ task' = AppliedTasks(task, c, msg[m]) /\ UNCHANGED callbacks
  <2>1. \A n \in Rows : msg'[n] = IF n = m THEN x ELSE msg[n]
    BY <1>2, <1>5 DEF Messages
  <2>2. IsAck(m) => (x.st \in HandedOver <=> msg[m].st \in HandedOver) /\ (Outstanding(x) => Outstanding(msg[m]))
    <3>1. CASE msg[m].st \notin HandedOver
      BY <1>1, <1>2, <3>1, AppliedType
    <3>2. CASE msg[m].st \in HandedOver
      <4>1. ~Undelivered(msg[m])
        BY <3>2 DEF Undelivered, HandedOver
      <4>2. x.st \in HandedOver \/ (x.st = "FAILED" /\ x.pid = msg[m].pid)
        BY <1>1, <1>2, <3>2, AppliedType
      <4>3. msg[m].pid
        BY DEF ApplyReports
      <4> HIDE DEF x
      <4> QED
        BY <1>5, <3>2, <4>1, <4>2, <4>3 DEF Undelivered, Outstanding, HandedOver, x
    <3> QED
      BY <3>1, <3>2
  <2> HIDE DEF x
  <2>3. Quiet
    BY <1>1, <1>2, <1>3, <1>5, <2>1, <2>2, AppliedCloses DEF Quiet
  <2>4. ReportsHeld'
    <3>1. \A e \in callbacks : e.pc = "applying" => e.m \in Rows /\ msg'[e.m] = msg[e.m]
      BY <1>3, <2>1 DEF TypeOK, Callback
    <3> QED
      BY <1>5, <3>1 DEF ChainRest, ReportsHeld, Undelivered
  <2> QED
    BY <2>3, <2>4, QuietAgrees DEF ChainRest
<1> QED
  BY <1>3, <1>4, <1>5

\* Every job and every callback on a message keeps the chains in agreement.
LEMMA MessageStepAgrees ==
  ASSUME TypeOK, TypeOK', DeliveryInv, ChainSound, Evolves, ChainRest, MessageStep \/ CloseExpired
  PROVE  ChainRest'
<1>0. /\ booking \in Bookkeeping /\ msg \in Messages /\ task \in Tasks
      /\ \A m \in Rows : msg[m] \in Message
      /\ \A m \in Rows, x \in Message : [msg EXCEPT ![m] = x] \in Messages
  BY TypeParts DEF TypeOK, Messages
<1>a. \A ms : Rewrites(ms, ms, {})
  BY DEF Rewrites, Rewritten
<1>b. SendInv /\ NoneLeft(booking, msg) /\ \A m \in Rows : RowSound(msg[m])
  BY DEF DeliveryInv, Sound
<1>1. ASSUME NEW m \in Rows, RetryComes(m) PROVE ChainRest'
  <2> DEFINE x == [msg[m] EXCEPT !.early = FALSE]
  <2>1. x.st = msg[m].st /\ msg[m].st \in {"WAITING", "PENDING"}
    BY <1>0, <1>1 DEF RetryComes, Outstanding, Message
  <2>2. msg' = [msg EXCEPT ![m] = x] /\ UNCHANGED <<booking, task, callbacks>>
    BY <1>1 DEF RetryComes, Sending
  <2> HIDE DEF x
  <2>3. Rewrites([msg EXCEPT ![m] = x], msg', {}) /\ msg'[m] = x
    BY <1>0, <1>a, <2>2 DEF Messages
  <2> QED
    BY <2>1, <2>2, <2>3, RowIsQuiet DEF HandedOver, Outstanding
<1>2. ASSUME NEW m \in Rows, RefreshWaiting(m) PROVE ChainRest'
  <2>1. Rewrites(msg, msg', {}) /\ UNCHANGED <<booking, task, callbacks>>
    BY <1>0, <1>2, RefreshRewrites DEF RefreshWaiting, Sending
  <2> QED
    BY <2>1, RewriteIsQuiet
<1>3. ASSUME NEW m \in Rows, Claim(m) PROVE ChainRest'
  <2> DEFINE x == Claimed(booking, msg, m)
             ms == [msg EXCEPT ![m] = x]
             settles == IsAck(m) /\ x.st = "CANCELLED"
  <2>1. msg[m].st = "PENDING" /\ msg[m].claim = 0
    BY <1>3 DEF Claim
  <2>2. ~Closed(booking, m)
    BY <1>b, <2>1 DEF NoneLeft, Cancellable, Selected, Unsent, Unknown, Undelivered
  <2>3. x \in Message /\ x.st \notin HandedOver
    BY <1>b, <2>1, <2>2, ClaimedMessage
  <2>4. /\ msg' = IF settles THEN SettledMessages(booking, ms, m, Later(booking, m[1])) ELSE ms
        /\ UNCHANGED <<booking, task, callbacks>>
    BY <1>3 DEF Claim
  <2>5. ms \in Messages /\ ms[m] = x
    BY <1>0, <2>3 DEF Messages
  <2> HIDE DEF x, settles, ms
  <2>6. msg'[m] = x /\ Rewrites(ms, msg', {})
    BY <1>a, <2>4, <2>5, SettledLeaves, SettledRewrites, NotLaterThanItself
  <2> QED
    BY <2>1, <2>3, <2>4, <2>6, RowIsQuiet DEF HandedOver, Outstanding, ms
<1>4. ASSUME NEW m \in Rows, Recover(m) PROVE ChainRest'
  <2> DEFINE y == [msg[m] EXCEPT !.claim = 0, !.attempts = @ + 1]
             x == Failed(y, "OUTCOME_UNKNOWN")
             ms == [msg EXCEPT ![m] = x]
  <2>1. y \in Message /\ x \in Message
    BY <1>0, AttemptType, FailedType DEF FailureCodes
  <2>2. x.st = "FAILED"
    <3> HIDE DEF y
    <3> QED
      BY <2>1 DEF Failed, Message
  <2>3. msg[m].st = "PENDING"
    BY <1>4, <1>b DEF Recover, Stuck, SendInv, ClaimedIsPending
  <2>4. /\ msg' = IF IsAck(m) THEN SettledMessages(booking, ms, m, Later(booking, m[1])) ELSE ms
        /\ UNCHANGED <<booking, task, callbacks>>
    BY <1>4 DEF Recover, Sending
  <2>5. ms \in Messages /\ ms[m] = x
    BY <1>0, <2>1 DEF Messages
  <2> HIDE DEF x, y, ms
  <2>6. msg'[m] = x /\ Rewrites(ms, msg', {})
    BY <1>a, <2>4, <2>5, SettledLeaves, SettledRewrites, NotLaterThanItself
  <2> QED
    BY <2>2, <2>3, <2>4, <2>6, RowIsQuiet DEF HandedOver, Outstanding, ms
<1>5. ASSUME NEW m \in Rows, PurgeUnmatched(m) \/ \E r \in Reports : CallbackUnmatched(m, r) PROVE ChainRest'
  <2>1. UNCHANGED <<booking, msg, task>> /\ \A c \in callbacks' : c.pc = "applying" => c \in callbacks
    <3>1. ASSUME NEW r \in Reports, CallbackUnmatched(m, r)
          PROVE  UNCHANGED <<booking, msg, task>> /\ \A c \in callbacks' : c \in callbacks \/ c.pc = "looked"
      BY <3>1 DEF CallbackUnmatched
    <3>2. PurgeUnmatched(m) => UNCHANGED <<booking, msg, task, callbacks>>
      BY DEF PurgeUnmatched
    <3> QED
      BY <1>5, <3>1, <3>2
  <2> QED
    BY <1>a, <2>1, RewriteIsQuiet
<1>7. ASSUME NEW m \in Rows, NEW r \in Reports, CallbackMatched(m, r) PROVE ChainRest'
  <2>1. {r} \ {"FAILED"} \in SUBSET Reports /\ {} \in SUBSET Reports /\ (r = "FAILED") \in BOOLEAN
    OBVIOUS
  <2>2. ApplyReports(m, {r} \ {"FAILED"}, r = "FAILED", {}, {})
    BY <1>7 DEF CallbackMatched
  <2> QED
    BY <2>1, <2>2, ApplyAgrees, Zenon
<1>8. ASSUME NEW m \in Rows, Reconcile(m) PROVE ChainRest'
  <2>1. unmatched[m] \in SUBSET Reports
    BY DEF TypeOK
  <2>2. PICK first \in SUBSET (unmatched[m] \ {"FAILED"}) :
          ApplyReports(m, first, "FAILED" \in unmatched[m], unmatched[m] \ (first \cup {"FAILED"}), unmatched[m])
    BY <1>8 DEF Reconcile
  <2>3. /\ first \in SUBSET Reports /\ ("FAILED" \in unmatched[m]) \in BOOLEAN
        /\ unmatched[m] \ (first \cup {"FAILED"}) \in SUBSET Reports
    BY <2>1
  <2> QED
    BY <2>1, <2>2, <2>3, ApplyAgrees, Zenon
<1>9. ASSUME CloseExpired PROVE ChainRest'
  <2>1. /\ Rewrites(msg, msg', {}) /\ UNCHANGED <<booking, callbacks>>
        /\ task' = ExpiredTasks(booking, task, Bookings)
    BY <1>0, <1>9, CancelRewrites DEF CloseExpired, ExpiredMessages, Sending
  <2> QED
    BY <2>1, ExpiredCloses, RewriteIsQuiet
<1> QED
  BY <1>1, <1>2, <1>3, <1>4, <1>5, <1>7, <1>8, <1>9 DEF MessageStep

\* An acknowledgement that is handed over settles all that came after it, and but
\* for what was overlooked nothing else did.
LEMMA AcceptAgrees ==
  ASSUME TypeOK, ChainSound, OneAtATime, ChainRest, Evolves, NEW m \in Rows, IsAck(m), NEW x \in Message,
         NEW ts, NEW L, ~NotAccepted(msg[m]), msg[m].st \notin HandedOver, x.st \in HandedOver,
         L \subseteq Later(booking, m[1]), Later(booking, m[1]) \ overlooked \subseteq L,
         msg' = SettledMessages(booking, [msg EXCEPT ![m] = x], m, L),
         task' = SettledTasks([msg EXCEPT ![m] = x], ts, m, L),
         \A n \in Rows : ts[n] = Already => task[n] = Already,
         UNCHANGED <<booking, callbacks>>
  PROVE  ChainRest'
<1> DEFINE ms == [msg EXCEPT ![m] = x]
           S == SettledRows(ms, L)
<1>0. /\ msg \in Messages /\ ms \in Messages /\ m = Ack(m[1]) /\ m[1] \in Bookings /\ m[1] \notin L
      /\ \A n \in Rows : ms[n] = IF n = m THEN x ELSE msg[n]
  BY TypeParts, NotLaterThanItself DEF Messages, Ack, IsAck, Rows
<1>1. /\ msg' = CancelMessages(ms, S, "NOT_NEEDED") /\ task' = UpdateTasks(ts, S, "OPEN", Already)
      /\ S = {n \in Rows : n[1] \in L /\ IsAck(n) /\ Refreshable(ms[n])}
  BY <1>0 DEF SettledMessages, SettledTasks, SettledRows, Already
<1> HIDE DEF S, ms
<1>2. Rewrites(ms, msg', {})
  BY <1>0, <1>1, CancelRewrites
<1>3. \A n \in Rows : /\ Rewritten(ms[n], msg'[n])
                      /\ Outstanding(msg'[n]) => Outstanding(ms[n])
  BY <1>2 DEF Rewrites
<1>4. msg'[m] = x
  BY <1>0, <1>3 DEF Rewritten, Gone
<1>5. Still
  BY <1>0, <1>3 DEF Still, Rewritten, Gone
<1>6. \A n \in Rows : msg'[n].st \in HandedOver <=> n = m \/ msg[n].st \in HandedOver
  BY <1>0, <1>3, <1>4, <1>5 DEF Rewritten, HandedOver, Still
<1>7. \A n \in Rows : task'[n] = Already => n \in S \/ task[n] = Already
  BY <1>1 DEF UpdateTasks, Rows, TaskRows, MessageSteps
<1>8. NoStepBefore'
  <2>1. \A n \in S : booking[n[1]].st # "ABSENT"
    BY <1>1 DEF ChainSound, ChainsInLine, Later
  <2> QED
    BY <1>7, <2>1 DEF ChainRest, NoStepBefore
<1>9. ASSUME NEW b \in Bookings \ overlooked', Ack(b) \in Rows, Upcoming(booking[b])
      PROVE  /\ task'[Ack(b)] = Already => Acknowledged(booking, msg', b)
             /\ Acknowledged(booking, msg', b) => ~Outstanding(msg'[Ack(b)])
  <2>1. b \notin overlooked /\ IsAck(Ack(b)) /\ Ack(b)[1] = b
    BY <1>9 DEF Evolves, Ack, IsAck
  <2>2. /\ task[Ack(b)] = Already => Acknowledged(booking, msg, b)
        /\ Acknowledged(booking, msg, b) => ~Outstanding(msg[Ack(b)])
    BY <1>9, <2>1, AgreesMeans DEF ChainRest, ChainAgrees, Already
  <2>3. CASE b \in Later(booking, m[1])
    <3>1. b \in L /\ m[1] \in booking[b].earlier
      BY <2>1, <2>3 DEF Later
    <3>2. Acknowledged(booking, msg', b)
      BY <1>0, <1>6, <3>1 DEF Acknowledged
    <3>3. ms[Ack(b)] = msg[Ack(b)]
      BY <1>0, <1>9, <2>1, <3>1
    <3>4. ~Outstanding(msg'[Ack(b)])
      <4>1. CASE ~Outstanding(msg[Ack(b)])
        BY <1>3, <1>9, <3>3, <4>1
      <4>2. CASE Outstanding(msg[Ack(b)])
        <5>1. ~Gone(msg[Ack(b)])
          BY <1>0, <1>9, <3>1 DEF OneAtATime
        <5>2. Ack(b) \in S /\ Cancellable(ms[Ack(b)])
          BY <1>1, <1>9, <2>1, <3>1, <3>3, <4>2, <5>1 DEF Gone, Refreshable, Outstanding, Cancellable, Selected, Unsent
        <5>3. msg'[Ack(b)] = Cancelled(ms[Ack(b)], "NOT_NEEDED")
          BY <1>1, <1>9, <5>2 DEF CancelMessages
        <5>4. msg'[Ack(b)].st = "CANCELLED"
          BY ZenonT(60), <1>0, <1>9, <5>3 DEF Cancelled, Messages, Message
        <5> QED
          BY <5>4 DEF Outstanding
      <4> QED
        BY <4>1, <4>2
    <3> QED
      BY <3>2, <3>4
  <2>4. CASE b \notin Later(booking, m[1])
    <3>1. m[1] \notin booking[b].earlier /\ Ack(b) \notin S
      BY <1>1, <2>1, <2>4 DEF Later
    <3>2. \A a : Ack(a) = m => a = m[1]
      BY DEF Ack
    <3>3. Acknowledged(booking, msg', b) <=> Acknowledged(booking, msg, b)
      BY <1>6, <3>1, <3>2 DEF Acknowledged
    <3>4. Outstanding(msg'[Ack(b)]) => Outstanding(msg[Ack(b)])
      BY <1>0, <1>3, <1>4, <1>9 DEF Outstanding, HandedOver
    <3> QED
      BY <1>7, <1>9, <2>2, <3>1, <3>3, <3>4
  <2> QED
    BY <2>3, <2>4
<1>10. ChainAgrees'
  BY <1>9, AgreesMeans DEF ChainAgrees, Already
<1>11. ReportsHeld'
  BY <1>5, HeldStays DEF ChainRest
<1> QED
  BY <1>8, <1>10, <1>11 DEF ChainRest

\* An acknowledgement found undelivered releases all that came after it, and none of
\* those has another accepted before it.
LEMMA FailureAgrees ==
  ASSUME TypeOK, DeliveryInv, ChainSound, OneAtATime, ChainRest, Evolves, NEW c \in callbacks, CommitFailure(c)
  PROVE  ChainRest'
<1> DEFINE m == c.m
           x == Applied(msg[m], c)
           ms == [msg EXCEPT ![m] = x]
           ts == AppliedTasks(task, c, msg[m])
           L == c.later
           R == Releasable(booking, ts, L)
<1>0. /\ c \in Callback /\ m \in Rows /\ msg[m] \in Message /\ booking \in Bookkeeping /\ msg \in Messages
      /\ task \in Tasks
  BY TypeParts DEF TypeOK, Callback, Messages
<1>1. /\ c.pc = "applying" /\ msg' = ReleasedMessages(booking, ms, ts, L) /\ task' = ReleasedTasks(booking, ts, L)
      /\ UNCHANGED <<booking, overlooked>> /\ callbacks' = callbacks \ {c}
  BY DEF CommitFailure
<1>2. /\ L \subseteq Later(booking, m[1]) /\ IsAck(m)
      /\ \A b \in Later(booking, m[1]) \ overlooked : booking[b].st = "BOOKED" => b \in L
  BY <1>1 DEF ChainSound, ReadersKnow
<1>3. /\ msg[m].st \in HandedOver /\ Undelivered(x) /\ x \in Message
      /\ x.claim = msg[m].claim
  BY <1>0, <1>1, AppliedType DEF ChainRest, ReportsHeld
<1>4. /\ ms \in Messages /\ ms[m] = x /\ m = Ack(m[1]) /\ m[1] \notin L
      /\ \A n \in Rows \ {m} : ms[n] = msg[n]
  BY <1>0, <1>2, <1>3, NotLaterThanItself DEF Messages, Ack, IsAck, Rows
<1>5. \A n \in Rows : ts[n] = Already => task[n] = Already
  BY <1>0, AppliedCloses
<1> HIDE DEF m, x, ts
<1>6. OnlyPendingClaimed(ms)
  <2>1. \A n \in Rows : msg[n].claim # 0 => msg[n].st = "PENDING"
    BY DEF DeliveryInv, SendInv, ClaimedIsPending
  <2>2. x.claim = 0
    BY <1>0, <1>3, <2>1 DEF HandedOver
  <2> QED
    BY <1>4, <2>1, <2>2 DEF OnlyPendingClaimed
<1> HIDE DEF ms
<1>7. Rewrites(ms, msg', R)
  BY <1>0, <1>1, <1>4, <1>6, ReleasedRewrites
<1>8. R = {n \in Rows : n[1] \in L /\ IsAck(n) /\ Upcoming(booking[n[1]]) /\ ts[n] = Already}
  BY DEF Releasable, Already
<1>9. \A n \in Rows : task'[n] = IF n \in R THEN Open ELSE ts[n]
  BY <1>1 DEF ReleasedTasks, Rows, TaskRows, MessageSteps
<1> HIDE DEF R
<1>10. \A n \in Rows : task'[n] = Already => n \notin R /\ ts[n] = Already /\ task[n] = Already
  BY <1>5, <1>9, OtherReasons DEF Already
<1>11. \A n \in Rows : /\ Rewritten(ms[n], msg'[n])
                       /\ Outstanding(msg'[n]) => Outstanding(ms[n]) \/ n \in R
  BY <1>7 DEF Rewrites
<1>12. \A n \in Rows : msg'[n].st \in HandedOver <=> n # m /\ msg[n].st \in HandedOver
  <2>1. \A n \in Rows : ms[n].st \in HandedOver <=> n # m /\ msg[n].st \in HandedOver
    BY <1>3, <1>4 DEF Undelivered, HandedOver
  <2>2. \A n \in Rows : msg'[n].st \in HandedOver <=> ms[n].st \in HandedOver
    BY <1>11 DEF Rewritten, Gone, HandedOver
  <2> QED
    BY <2>1, <2>2
<1>13. ReportsHeld'
  <2>1. ASSUME NEW d \in callbacks', d.pc = "applying" PROVE d \in callbacks /\ msg'[d.m] = msg[d.m]
    <3>1. d \in callbacks /\ d.m # m /\ d.m \in Rows /\ msg[d.m].st \in HandedOver
      BY <1>1, <2>1 DEF ChainRest, ReportsHeld, TypeOK, Callback, m
    <3>2. ms[d.m] = msg[d.m]
      BY <1>4, <3>1
    <3> QED
      BY <1>11, <3>1, <3>2 DEF Rewritten, Gone
  <2> QED
    BY <2>1 DEF ChainRest, ReportsHeld, Undelivered
<1>14. NoStepBefore'
  BY <1>1, <1>10 DEF ChainRest, NoStepBefore
<1>15. ASSUME NEW b \in Bookings \ overlooked, Ack(b) \in Rows, Upcoming(booking[b])
       PROVE  /\ task'[Ack(b)] = Already => Acknowledged(booking, msg', b)
              /\ Acknowledged(booking, msg', b) => ~Outstanding(msg'[Ack(b)])
  <2>1. IsAck(Ack(b)) /\ Ack(b)[1] = b
    BY DEF Ack, IsAck
  <2>2. CASE b \in Later(booking, m[1])
    <3>1. b \in L /\ m[1] \in booking[b].earlier
      BY <1>2, <1>15, <2>2 DEF Later, Upcoming
    <3>2. task'[Ack(b)] # Already
      BY <1>8, <1>10, <1>15, <2>1, <3>1
    <3>3. ASSUME NEW a \in booking[b].earlier, Ack(a) \in Rows, msg'[Ack(a)].st \in HandedOver PROVE FALSE
      <4>1. a \in Bookings /\ m[1] \in Bookings /\ a # m[1] /\ msg[Ack(a)].st \in HandedOver
        BY <1>0, <1>4, <1>12, <3>3 DEF TypeOK, Booking, Ack, Rows
      <4>2. m[1] \in booking[a].earlier \/ a \in booking[m[1]].earlier
        BY <3>1, <3>3, <4>1 DEF ChainSound, ChainsInLine
      <4>3. /\ ~NotAccepted(msg[Ack(a)]) /\ ~NotAccepted(msg[m])
            /\ Gone(msg[Ack(a)]) /\ Gone(msg[m])
        BY <1>3, <4>1 DEF NotAccepted, Gone
      <4> QED
        BY <1>0, <1>4, <3>3, <4>1, <4>2, <4>3 DEF OneAtATime
    <3> QED
      BY <3>2, <3>3 DEF Acknowledged
  <2>3. CASE b \notin Later(booking, m[1])
    <3>1. m[1] \notin booking[b].earlier /\ Ack(b) \notin R
      BY <1>2, <1>8, <2>1, <2>3 DEF Later
    <3>2. \A a : Ack(a) = m => a = m[1]
      BY DEF Ack
    <3>3. Acknowledged(booking, msg', b) <=> Acknowledged(booking, msg, b)
      BY <1>12, <3>1, <3>2 DEF Acknowledged
    <3>4. Outstanding(msg'[Ack(b)]) => Outstanding(msg[Ack(b)])
      BY <1>3, <1>4, <1>11, <1>15, <3>1 DEF Outstanding, Undelivered
    <3>5. /\ task[Ack(b)] = Already => Acknowledged(booking, msg, b)
          /\ Acknowledged(booking, msg, b) => ~Outstanding(msg[Ack(b)])
      BY <1>15, AgreesMeans DEF ChainRest, ChainAgrees, Already
    <3> QED
      BY <1>10, <1>15, <3>3, <3>4, <3>5
  <2> QED
    BY <2>2, <2>3
<1>16. ChainAgrees'
  BY <1>1, <1>15, AgreesMeans DEF ChainAgrees, Already
<1> QED
  BY <1>13, <1>14, <1>16 DEF ChainRest

\* Every step of a send, and of a callback under way, keeps the chains in agreement.
LEMMA SendStepAgrees ==
  ASSUME TypeOK, DeliveryInv, ChainSound, OneAtATime, ChainRest, Evolves, SendStep \/ CallbackStep
  PROVE  ChainRest'
<1>0. /\ booking \in Bookkeeping /\ msg \in Messages /\ task \in Tasks
      /\ \A m \in Rows, x \in Message : [msg EXCEPT ![m] = x] \in Messages
  BY TypeParts DEF TypeOK, Messages
<1>a. \A ms : Rewrites(ms, ms, {})
  BY DEF Rewrites, Rewritten
<1>b. SendInv
  BY DEF DeliveryInv
<1>1. ASSUME UNCHANGED <<booking, msg, task>>, \A c \in callbacks' : c \in callbacks PROVE ChainRest'
  BY <1>a, <1>1, RewriteIsQuiet
<1>2. ASSUME NEW s \in sends, \/ \E answer \in Answers : ProviderAnswers(s, answer)
                             \/ SenderStops(s) \/ BeginRecord(s)
      PROVE  ChainRest'
  BY <1>1, <1>2 DEF ProviderAnswers, SenderStops, BeginRecord
<1>3. ASSUME NEW s \in sends, NEW inTime \in BOOLEAN, Record(s, inTime) PROVE ChainRest'
  <2> DEFINE m == s.m
             late == msg[m].claim # s.claim
             x == IF late THEN LateResult(msg[m], s.answer) ELSE Result(booking, msg[m], m, s.answer, inTime)
             ms == [msg EXCEPT ![m] = x]
             settles == IsAck(m) /\ (late => x.st # msg[m].st)
             ts == IF x.st \in HandedOver /\ msg[m].st \notin HandedOver THEN AcceptedTasks(task, m, s.answer) ELSE task
  <2>1. /\ s.pc = "recording"
        /\ msg' = IF settles THEN SettledMessages(booking, ms, m, s.later) ELSE ms
        /\ task' = IF settles THEN SettledTasks(ms, ts, m, s.later) ELSE ts
        /\ UNCHANGED <<booking, callbacks, overlooked>>
    BY <1>3 DEF Record
  <2>2. /\ m \in Rows /\ m[1] \notin s.later /\ s.later \subseteq Later(booking, m[1])
        /\ IsAck(m) => Later(booking, m[1]) \ overlooked \subseteq s.later
    BY <1>b, <2>1, SentIsGone, NotLaterThanItself DEF ChainSound, ReadersKnow
  <2>3. /\ x \in Message /\ msg[m].st \in {"PENDING", "FAILED"}
        /\ Unknown(msg[m]) => Unknown(x) \/ x.st \in Accepting
    BY <2>1, RecordedMessage
  <2>4. ms \in Messages /\ ms[m] = x
    BY <1>0, <2>2, <2>3 DEF Messages
  <2>5. ~NotAccepted(msg[m]) /\ (Unknown(msg[m]) \/ msg[m].st = "PENDING")
    BY <1>b, <2>2 DEF SendInv, ClaimsMatch, ClaimedIsPending, NotAccepted
  <2>6. \A n \in Rows : ts[n] = Already => task[n] = Already
    <3>1. Done("ACCEPTED") # Already /\ Done("SENT") # Already
      BY DEF Done, Already
    <3> QED
      BY <3>1 DEF AcceptedTasks, Rows, TaskRows, MessageSteps
  <2> HIDE DEF m, x, ts, late
  <2>7. CASE IsAck(m) /\ x.st \in HandedOver
    <3>1. settles /\ msg[m].st \notin HandedOver
      BY <2>3, <2>7 DEF HandedOver
    <3> HIDE DEF settles
    <3> QED
      BY <2>1, <2>2, <2>3, <2>5, <2>6, <2>7, <3>1, AcceptAgrees DEF ms
  <2>8. CASE ~(IsAck(m) /\ x.st \in HandedOver)
    <3>1. msg[m].st \notin HandedOver
      BY <2>3 DEF HandedOver
    <3>2. IsAck(m) => x.st \notin HandedOver /\ (Outstanding(x) => Outstanding(msg[m]))
      BY <2>3, <2>5, <2>8 DEF Unknown, Outstanding, Accepting
    <3>3. task' = ts
      BY <2>1, <2>4, <2>8 DEF SettledTasks
    <3> HIDE DEF settles, ms
    <3>4. msg'[m] = x
      BY <2>1, <2>2, <2>4, SettledLeaves
    <3>5. Rewrites(ms, msg', {})
      BY <1>a, <2>1, <2>4, SettledRewrites
    <3> QED
      BY <2>1, <2>2, <2>6, <3>1, <3>2, <3>3, <3>4, <3>5, RowIsQuiet DEF ms
  <2> QED
    BY <2>7, <2>8
<1>4. ASSUME NEW c \in callbacks, KeepReport(c) PROVE ChainRest'
  BY <1>1, <1>4 DEF KeepReport
<1>5. ASSUME NEW c \in callbacks, CommitFailure(c) PROVE ChainRest'
  BY <1>5, FailureAgrees
<1> QED
  BY <1>2, <1>3, <1>4, <1>5 DEF SendStep, CallbackStep

\* Every step keeps the chains in agreement.
LEMMA NextAgrees ==
  ASSUME TypeOK, DeliveryInv, ChainSound, OneAtATime, ChainRest, [Next]_vars
  PROVE  ChainRest'
<1>1. TypeOK' /\ Evolves
  BY NextType, NextEvolves
<1>2. ASSUME BookingStep PROVE ChainRest'
  <2>1. PICK b \in Bookings :
          \/ \E d \in Details, redemo \in Redemos : Book(b, d, redemo)
          \/ \E c \in Bookings, d \in Details : Reschedule(b, c, d)
          \/ CancelBooking(b) \/ NotConfirmed(b) \/ ParentConfirmed(b)
          \/ StartBooking(b) \/ Complete(b)
          \/ RequestConfirmation(b)
          \/ \E outcome \in CallOutcomes : RecordCallOutcome(b, outcome)
          \/ \E d \in Details : ChangeDetails(b, d) \/ ChangeDetailsUnseen(b, d)
          \/ Tick(b) \/ AfterWindowCloses(b)
    BY <1>2 DEF BookingStep
  <2> QED
    BY <1>1, <2>1, BookAgrees, RescheduleAgrees, ChangeAgrees
<1>3. ASSUME UNCHANGED vars PROVE ChainRest'
  <2>1. Rewrites(msg, msg', {}) /\ UNCHANGED <<booking, task, callbacks>>
    BY <1>3 DEF vars, Rewrites, Rewritten
  <2> QED
    BY <1>1, <2>1, RewriteIsQuiet
<1> QED
  BY <1>1, <1>2, <1>3, MessageStepAgrees, SendStepAgrees DEF Next

LEMMA InitRest == Init => ChainRest
<1> SUFFICES ASSUME Init PROVE ChainRest
  OBVIOUS
<1>1. \A b \in Bookings : booking[b].st = "ABSENT"
  BY DEF Init, NewBooking
<1>2. NoTask # Already
  BY DEF NoTask, Already, Done
<1> QED
  BY <1>1, <1>2 DEF Init, ChainRest, ReportsHeld, NoStepBefore, ChainAgrees, Upcoming, Rows, TaskRows, MessageSteps

-----------------------------------------------------------------------------
(* Delivery, as promised *)

\* What was handed over was taken, and so was what a send was told is accepted.
Truthful ==
  /\ \A m \in Rows : msg[m].st \in HandedOver \/ Undelivered(msg[m]) => taken[m] = 1
  /\ \A s \in sends : s.pc # "calling" /\ s.answer \in Accepting => taken[s.m] = 1

\* But by the provider's answer nothing is taken, and no send learns of one.
LEMMA NextTakes ==
  ASSUME TypeOK, [Next]_vars
  PROVE  \/ /\ UNCHANGED taken
            /\ \A s \in sends' : s.pc = "calling" \/ \E t \in sends : t.m = s.m /\ t.answer = s.answer /\ t.pc # "calling"
         \/ \E s \in sends, answer \in Answers : ProviderAnswers(s, answer)
<1> DEFINE Rest == /\ UNCHANGED taken
                   /\ \A s \in sends' : \/ s.pc = "calling"
                                        \/ \E t \in sends : t.m = s.m /\ t.answer = s.answer /\ t.pc # "calling"
<1>1. ASSUME UNCHANGED taken, \A s \in sends' : s \in sends \/ s.pc = "calling" PROVE Rest
  BY <1>1
<1>2. BookingStep \/ CloseExpired \/ UNCHANGED vars => UNCHANGED <<sends, taken>>
  BY ZenonT(60) DEF BookingStep, Book, Reschedule, CancelBooking, NotConfirmed, Close, ParentConfirmed, StartBooking, Complete,
     RequestConfirmation, RecordCallOutcome, ChangeDetails, ChangeDetailsUnseen, Tick, AfterWindowCloses, CloseExpired,
     Sending, vars
<1>3. ASSUME NEW m \in Rows, RetryComes(m) \/ RefreshWaiting(m) \/ Claim(m) \/ Recover(m) \/ PurgeUnmatched(m)
      PROVE  Rest
  <2>1. UNCHANGED taken /\ \A s \in sends' : s \in sends \/ s.pc = "calling"
    BY <1>3 DEF RetryComes, RefreshWaiting, Claim, Recover, PurgeUnmatched, Sending
  <2> QED
    BY <1>1, <2>1
<1>4. ASSUME NEW m \in Rows, \/ Reconcile(m)
                            \/ \E r \in Reports : CallbackMatched(m, r) \/ CallbackUnmatched(m, r)
      PROVE  UNCHANGED <<sends, taken>>
  BY <1>4 DEF Reconcile, CallbackMatched, CallbackUnmatched, ApplyReports
<1>5. ASSUME NEW s \in sends, BeginRecord(s) PROVE Rest
  <2> DEFINE L == IF IsAck(s.m) THEN Later(booking, s.m[1]) ELSE {}
             r == [s EXCEPT !.pc = "recording", !.later = L]
  <2>1. sends' = (sends \ {s}) \cup {r} /\ UNCHANGED taken /\ s.pc = "answered"
    BY <1>5 DEF BeginRecord
  <2> HIDE DEF L
  <2>2. r.m = s.m /\ r.answer = s.answer
    BY DEF TypeOK, Send
  <2> HIDE DEF r
  <2> QED
    BY <1>1, <2>1, <2>2
<1>6. ASSUME NEW s \in sends, SenderStops(s) \/ \E inTime \in BOOLEAN : Record(s, inTime) PROVE Rest
  BY <1>1, <1>6 DEF SenderStops, Record
<1>7. CallbackStep => UNCHANGED <<sends, taken>>
  BY DEF CallbackStep, KeepReport, CommitFailure
<1>8. UNCHANGED <<sends, taken>> => Rest
  BY <1>1
<1> HIDE DEF Rest
<1>9. MessageStep => Rest
  BY <1>3, <1>4, <1>8 DEF MessageStep
<1>10. SendStep => Rest \/ \E s \in sends, answer \in Answers : ProviderAnswers(s, answer)
  BY <1>5, <1>6 DEF SendStep
<1>11. Rest \/ \E s \in sends, answer \in Answers : ProviderAnswers(s, answer)
  BY <1>2, <1>7, <1>8, <1>9, <1>10 DEF Next
<1> QED
  BY <1>11 DEF Rest

\* What the provider's answer does: a message in flight is taken, or not.
LEMMA AnswerTakes ==
  ASSUME TypeOK, DeliveryInv, NEW s \in sends, NEW answer \in Answers, ProviderAnswers(s, answer)
  PROVE  /\ s.m \in Rows /\ taken[s.m] = 0 /\ Gone(msg[s.m]) /\ UNCHANGED msg
         /\ \A m \in Rows \ {s.m} : taken'[m] = taken[m]
         /\ taken'[s.m] \in {0, 1} /\ (answer \in Accepting => taken'[s.m] = 1)
         /\ \A t \in sends' : \/ t \in sends /\ t.m \in Rows \ {s.m}
                              \/ t.m = s.m /\ t.answer = answer
<1> DEFINE r == [s EXCEPT !.pc = "answered", !.answer = answer]
<1>1. /\ s \in Send /\ s.m \in Rows /\ Gone(msg[s.m]) /\ SendInv
      /\ taken[s.m] = 0
  BY SentIsGone DEF ProviderAnswers, DeliveryInv, SendInv, TakenIsGone
<1>2. r.m = s.m /\ r.answer = answer
  BY <1>1 DEF Send
<1>3. /\ sends' = (sends \ {s}) \cup {r} /\ UNCHANGED msg
      /\ \/ answer \in Accepting \cup {"UNKNOWN"} /\ taken' = [taken EXCEPT ![s.m] = @ + 1]
         \/ answer \notin Accepting /\ taken' = taken
  BY DEF ProviderAnswers
<1> HIDE DEF r
<1>4. /\ \A m \in Rows \ {s.m} : taken'[m] = taken[m]
      /\ taken'[s.m] \in {0, 1} /\ (answer \in Accepting => taken'[s.m] = 1)
  BY <1>1, <1>3 DEF TypeOK
<1>5. \A t \in sends \ {s} : t.m \in Rows \ {s.m}
  BY <1>1, SentIsGone DEF SendInv, ClaimsMatch
<1> QED
  BY <1>1, <1>2, <1>3, <1>4, <1>5

\* What the rows say was taken was.
LEMMA TruthKept == TypeOK /\ DeliveryInv /\ ChainSound /\ Truthful /\ [Next]_vars => Truthful'
<1> SUFFICES ASSUME TypeOK, DeliveryInv, ChainSound, Truthful, [Next]_vars PROVE Truthful'
  OBVIOUS
<1>1. \A m \in Rows : RowFresh(m, msg[m], msg'[m])
  BY NextRight DEF StepRight
<1>2. CASE /\ UNCHANGED taken
           /\ \A s \in sends' : s.pc = "calling" \/ \E t \in sends : t.m = s.m /\ t.answer = s.answer /\ t.pc # "calling"
  <2>1. ASSUME NEW m \in Rows, msg'[m].st \in HandedOver \/ Undelivered(msg'[m]) PROVE taken[m] = 1
    BY <1>1, <2>1 DEF Truthful, RowFresh, Answered
  <2>2. ASSUME NEW s \in sends', s.pc # "calling", s.answer \in Accepting PROVE taken[s.m] = 1
    BY <1>2, <2>2 DEF Truthful
  <2> QED
    BY <1>2, <2>1, <2>2 DEF Truthful, Undelivered
<1>3. ASSUME NEW s \in sends, NEW answer \in Answers, ProviderAnswers(s, answer) PROVE Truthful'
  <2>1. /\ s.m \in Rows /\ taken[s.m] = 0 /\ UNCHANGED msg
        /\ \A m \in Rows \ {s.m} : taken'[m] = taken[m]
        /\ answer \in Accepting => taken'[s.m] = 1
        /\ \A t \in sends' : \/ t \in sends /\ t.m \in Rows \ {s.m}
                             \/ t.m = s.m /\ t.answer = answer
    BY <1>3, AnswerTakes
  <2>2. ASSUME NEW m \in Rows, msg[m].st \in HandedOver \/ Undelivered(msg[m]) PROVE taken'[m] = 1
    BY <2>1, <2>2 DEF Truthful
  <2>3. ASSUME NEW t \in sends', t.pc # "calling", t.answer \in Accepting PROVE taken'[t.m] = 1
    BY <2>1, <2>3 DEF Truthful
  <2> QED
    BY <2>1, <2>2, <2>3 DEF Truthful, Undelivered
<1> QED
  BY <1>2, <1>3, NextTakes

LEMMA InitTruth == Init => Truthful
<1> SUFFICES ASSUME Init PROVE Truthful
  OBVIOUS
<1>1. sends = {} /\ \A m \in Rows : msg[m] = NoMessage
  BY DEF Init
<1>2. NoMessage.st = "ABSENT"
  BY DEF NoMessage
<1> QED
  BY <1>1, <1>2 DEF Truthful, HandedOver, Undelivered

\* What delivery makes of a message, case by case.
LEMMA PhaseMeans ==
  ASSUME NEW x, x.claim # 0 => x.st = "PENDING", RowSound(x)
  PROVE  /\ x.claim # 0 => Phase(x) = "SENDING"
         /\ Unknown(x) => x.claim = 0 /\ Phase(x) = "UNSURE" /\ ~x.pid
         /\ Undelivered(x) => Phase(x) = "UNDELIVERED"
         /\ x.st \in HandedOver => x.claim = 0 /\ Phase(x) = x.st
         /\ ~Gone(x) => Phase(x) = "UNSENT"
BY DEF Phase, Gone, RowSound, Unknown, Undelivered, HandedOver

\* A message of which nothing new was taken does what was promised.
LEMMA RowAsPromised ==
  ASSUME TypeOK, DeliveryInv, DeliveryInv', Truthful, Truthful', NEW m \in Rows, taken'[m] = taken[m],
         RowHistory(m, msg[m], msg'[m]), RowFresh(m, msg[m], msg'[m])
  PROVE  Promised!Stays(m) \/ Promised!NextOf(m)
<1> DEFINE x == msg[m]
           y == msg'[m]
           p == Phase(x)
           q == Phase(y)
<1>1. /\ x.claim # 0 => x.st = "PENDING"
      /\ y.claim # 0 => y.st = "PENDING"
      /\ RowSound(x) /\ RowSound(y)
      /\ taken[m] = 0 \/ taken[m] = 1
      /\ ~Gone(x) \/ ~Gone(y) => taken[m] = 0
      /\ x.st \in HandedOver \/ Undelivered(x) \/ y.st \in HandedOver \/ Undelivered(y) => taken[m] = 1
  BY DEF DeliveryInv, SendInv, ClaimedIsPending, Sound, TakenIsGone, Truthful, Gone, Unknown, Undelivered
<1>2. /\ x.claim # 0 => p = "SENDING"
      /\ Unknown(x) => x.claim = 0 /\ p = "UNSURE"
      /\ Undelivered(x) => p = "UNDELIVERED"
      /\ x.st \in HandedOver => x.claim = 0 /\ p = x.st
      /\ ~Gone(x) => p = "UNSENT"
  BY <1>1, PhaseMeans
<1>3. /\ y.claim # 0 => q = "SENDING"
      /\ Unknown(y) => y.claim = 0 /\ q = "UNSURE"
      /\ Undelivered(y) => q = "UNDELIVERED"
      /\ y.st \in HandedOver => y.claim = 0 /\ q = y.st
      /\ ~Gone(y) => q = "UNSENT"
  BY <1>1, PhaseMeans
<1>4. /\ [n \in Rows |-> Phase(msg[n])][m] = p /\ [n \in Rows |-> Phase(msg'[n])][m] = q
      /\ [n \in Rows |-> msg[n].body][m] = x.body /\ [n \in Rows |-> msg'[n].body][m] = y.body
  OBVIOUS
<1>5. RowHistory(m, x, y) /\ RowFresh(m, x, y)
  OBVIOUS
<1> HIDE DEF x, y, p, q
<1>6. CASE ~Gone(x)
  <2>1. p = "UNSENT" /\ taken[m] = 0 /\ taken'[m] = 0 /\ q \in {"UNSENT", "SENDING"}
    BY <1>1, <1>2, <1>3, <1>5, <1>6 DEF RowFresh
  <2>2. Promised!Write(m) \/ Promised!Send(m)
    BY <1>4, <2>1 DEF Promised!Write, Promised!Send, p, q, x, y
  <2> QED
    BY <2>2 DEF Promised!NextOf
<1>7. CASE x.claim # 0
  <2>1. y.body = x.body
    BY <1>5, <1>7 DEF RowHistory
  <2>2. CASE y.claim # 0
    <3>1. p = q
      BY <1>2, <1>3, <1>7, <2>2
    <3>2. Promised!Stays(m)
      BY <1>4, <2>1, <3>1 DEF Promised!Stays, p, q, x, y
    <3> QED
      BY <3>2
  <2>3. CASE ~Gone(y)
    <3>1. Promised!Refused(m)
      BY <1>1, <1>2, <1>3, <1>4, <1>7, <2>1, <2>3 DEF Promised!Refused, Promised!Becomes, p, q, x, y
    <3> QED
      BY <3>1 DEF Promised!NextOf
  <2>4. CASE Unknown(y)
    <3>1. Promised!AnswerLost(m)
      BY <1>2, <1>3, <1>4, <1>7, <2>1, <2>4 DEF Promised!AnswerLost, Promised!Becomes, p, q, x, y
    <3> QED
      BY <3>1 DEF Promised!NextOf
  <2>5. CASE y.st \in HandedOver
    <3>1. y.st \in {"QUEUED", "SENT"}
      BY <1>2, <1>5, <1>7, <2>5 DEF RowFresh, Answered, Accepting
    <3>2. Promised!Accepted(m)
      BY <1>1, <1>2, <1>3, <1>4, <1>7, <2>1, <2>5, <3>1 DEF Promised!Accepted, Promised!Becomes, p, q, x, y
    <3> QED
      BY <3>2 DEF Promised!NextOf
  <2>6. ~Undelivered(y)
    BY <1>1, <1>2, <1>5, <1>7 DEF RowFresh, Undelivered
  <2> QED
    BY <2>2, <2>3, <2>4, <2>5, <2>6 DEF Gone
<1>8. CASE Unknown(x)
  <2>1. y.body = x.body /\ (Unknown(y) \/ y.st \in {"QUEUED", "SENT"})
    BY <1>5, <1>8 DEF RowHistory, RowFresh, Accepting
  <2>2. CASE Unknown(y)
    <3>1. Promised!Stays(m)
      BY <1>2, <1>3, <1>4, <1>8, <2>1, <2>2 DEF Promised!Stays, p, q, x, y
    <3> QED
      BY <3>1
  <2>3. CASE y.st \in {"QUEUED", "SENT"}
    <3>1. y.st \in HandedOver
      BY <2>3 DEF HandedOver
    <3>2. Promised!Accepted(m)
      BY <1>1, <1>2, <1>3, <1>4, <1>8, <2>1, <2>3, <3>1 DEF Promised!Accepted, Promised!Becomes, p, q, x, y
    <3> QED
      BY <3>2 DEF Promised!NextOf
  <2> QED
    BY <2>1, <2>2, <2>3
<1>9. CASE Undelivered(x)
  <2>1. y = x
    BY <1>5, <1>9 DEF RowHistory
  <2>2. Promised!Stays(m)
    BY <1>4, <2>1 DEF Promised!Stays, p, q, x, y
  <2> QED
    BY <2>2
<1>10. CASE x.st \in HandedOver
  <2>1. /\ y.body = x.body
        /\ \/ y.st \in HandedOver /\ Rank[y.st] >= Rank[x.st]
           \/ x.st \in {"QUEUED", "SENT"} /\ Undelivered(y)
    BY <1>5, <1>10 DEF RowHistory
  <2>2. CASE x.st \in {"QUEUED", "SENT"} /\ Undelivered(y)
    <3>1. Promised!ComesBack(m)
      BY <1>2, <1>3, <1>4, <1>10, <2>1, <2>2 DEF Promised!ComesBack, Promised!Becomes, p, q, x, y
    <3> QED
      BY <3>1 DEF Promised!NextOf
  <2>3. CASE y.st \in HandedOver /\ Rank[y.st] >= Rank[x.st]
    <3>1. /\ Rank["QUEUED"] = 1 /\ Rank["SENT"] = 2 /\ Rank["DELIVERED"] = 3 /\ Rank["READ"] = 4
      BY DEF Rank, HandedOver
    <3>2. q = p \/ (q \in {"SENT", "DELIVERED", "READ"} /\ <<p, q>> \in Promised!Further)
      BY <1>2, <1>3, <1>10, <2>3, <3>1 DEF HandedOver, Promised!Further
    <3>3. Promised!Stays(m) \/ Promised!GetsOn(m)
      BY <1>4, <2>1, <3>2 DEF Promised!Stays, Promised!GetsOn, Promised!Becomes, p, q, x, y
    <3> QED
      BY <3>3 DEF Promised!NextOf
  <2> QED
    BY <2>1, <2>2, <2>3
<1> QED
  BY <1>6, <1>7, <1>8, <1>9, <1>10 DEF Gone

\* Every step of the system is one the promise allows.
LEMMA NextAsPromised ==
  TypeOK /\ DeliveryInv /\ ChainSound /\ Truthful /\ [Next]_vars => [Promised!NextDelivery]_(Promised!letterVars)
<1> SUFFICES ASSUME TypeOK, DeliveryInv, ChainSound, Truthful, [Next]_vars
             PROVE  \A m \in Rows : Promised!Stays(m) \/ Promised!NextOf(m)
  BY DEF Promised!NextDelivery
<1>1. /\ DeliveryInv' /\ Truthful'
      /\ \A m \in Rows : RowHistory(m, msg[m], msg'[m]) /\ RowFresh(m, msg[m], msg'[m])
  BY NextRight, TruthKept DEF StepRight
<1>2. ASSUME NEW m \in Rows, taken'[m] = taken[m] PROVE Promised!Stays(m) \/ Promised!NextOf(m)
  BY <1>1, <1>2, RowAsPromised
<1>3. ASSUME NEW s \in sends, NEW answer \in Answers, ProviderAnswers(s, answer), NEW m \in Rows, taken'[m] # taken[m]
      PROVE  Promised!NextOf(m)
  <2>1. m = s.m /\ taken[m] = 0 /\ taken'[m] = 1 /\ Gone(msg[m]) /\ UNCHANGED msg
    BY <1>3, AnswerTakes
  <2>2. msg[m].claim # 0 \/ Unknown(msg[m])
    BY <2>1 DEF Truthful, Gone
  <2>3. Phase(msg[m]) \in {"SENDING", "UNSURE"}
    BY <2>2 DEF Phase
  <2>4. Promised!Take(m)
    BY <2>1, <2>3 DEF Promised!Take
  <2> QED
    BY <2>4 DEF Promised!NextOf
<1> QED
  BY <1>2, <1>3, NextTakes

-----------------------------------------------------------------------------
(* The theorems *)

\* What messages and their senders know of each other, and what bookings, messages
\* and steps say of each other, holds for ever.
THEOREM DeliveryKept == Spec => [](DeliveryInv /\ ChainSound)
<1>1. TypeOK /\ DeliveryInv /\ ChainSound /\ [Next]_vars => DeliveryInv' /\ ChainSound'
  BY NextRight, ChainKept DEF StepRight
<1> QED
  BY <1>1, InitDelivery, InitChain, TypeCorrect, PTL DEF Spec

\* One sender decides what becomes of a message.
THEOREM SendsMatch == Spec => []SendInv
<1>1. DeliveryInv => SendInv
  BY DEF DeliveryInv
<1> QED
  BY <1>1, DeliveryKept, PTL

\* The provider takes a message at most once, whatever is retried, recovered,
\* reported late, moved or cancelled meanwhile.
THEOREM AtMostOnce == Spec => []TakenAtMostOnce
<1>1. TypeOK /\ SendInv => TakenAtMostOnce
  BY DEF SendInv, TakenIsGone, TakenAtMostOnce, TypeOK
<1> QED
  BY <1>1, SendsMatch, TypeCorrect, PTL

\* Nothing of a closed booking, nor the request of an answered one, is left to be
\* sent or retried, unless somebody is sending it.
THEOREM NothingLeft == Spec => []NothingLeftToRetry
<1>1. DeliveryInv => NothingLeftToRetry
  BY DEF DeliveryInv, NoneLeft, Closed, NothingLeftToRetry, Cancellable
<1> QED
  BY <1>1, DeliveryKept, PTL

\* A booking's steps agree with what became of its messages.
THEOREM StepsFollow == Spec => []StepsAgree
<1>1. DeliveryInv => StepsAgree
  BY DEF DeliveryInv, Agree, RowAgrees, StepsAgree
<1> QED
  BY <1>1, DeliveryKept, PTL

\* A message is claimed only while everything still asks for it.
THEOREM ClaimsRight == Spec => ClaimedRight
<1>1. TypeOK /\ DeliveryInv /\ ChainSound /\ [Next]_vars =>
        [\A m \in Rows : RowClaim(m, msg[m], msg'[m])]_vars
  BY NextRight DEF StepRight
<1> QED
  BY <1>1, DeliveryKept, TypeCorrect, PTL DEF Spec, ClaimedRight, RowClaim

\* What was handed over, or is being, is history.
THEOREM HistoryStays == Spec => HistoryKept
<1>1. TypeOK /\ DeliveryInv /\ ChainSound /\ [Next]_vars =>
        [\A m \in Rows : RowHistory(m, msg[m], msg'[m])]_vars
  BY NextRight DEF StepRight
<1> QED
  BY <1>1, DeliveryKept, TypeCorrect, PTL DEF Spec, HistoryKept, RowHistory

\* Acknowledgements of a chain go one at a time, and what reports, steps and
\* messages know of the bookings that were replaced stays true.
THEOREM ChainsKept == Spec => [](OneAtATime /\ ChainRest)
<1>1. Init => OneAtATime /\ ChainRest
  BY InitOne, InitRest
<1>2. TypeOK /\ DeliveryInv /\ ChainSound /\ OneAtATime /\ ChainRest /\ [Next]_vars => OneAtATime' /\ ChainRest'
  BY OneKept, NextAgrees
<1> QED
  BY <1>1, <1>2, DeliveryKept, TypeCorrect, PTL DEF Spec

\* The family hears once that a demo is booked, however often it is moved: the
\* provider takes a second acknowledgement only when the first was undelivered.
THEOREM OneAcknowledgement == Spec => []OneAcknowledgementPerChain
<1>1. DeliveryInv /\ TypeOK /\ OneAtATime => OneAcknowledgementPerChain
  BY OneMeans
<1> QED
  BY <1>1, ChainsKept, DeliveryKept, TypeCorrect, PTL

\* A step is closed as already acknowledged only while an earlier booking's
\* acknowledgement was accepted, and then none of a later one waits to be sent:
\* an acceptance settles and a failure releases all that came after, but what a
\* planner that read the chain before did not see.
THEOREM ChainsAgree == Spec => []ChainAgrees
<1>1. ChainRest => ChainAgrees
  BY DEF ChainRest
<1> QED
  BY <1>1, ChainsKept, PTL

\* What the rows say of a message is true of the provider, at every step: however
\* answers, senders and reports are lost, late or repeated, delivery is as promised.
THEOREM DeliveryAsPromised == Spec => ImplementsDelivery
<1>1. Init => Promised!InitDelivery
  <2> SUFFICES ASSUME Init PROVE Promised!InitDelivery
    OBVIOUS
  <2>1. msg = [m \in Rows |-> NoMessage] /\ taken = [m \in Rows |-> 0]
    BY DEF Init
  <2>2. Phase(NoMessage) = "UNSENT" /\ NoMessage.body = NoText
    BY DEF NoMessage, Phase, Unknown, Undelivered, HandedOver
  <2> QED
    BY <2>1, <2>2 DEF Promised!InitDelivery
<1>2. TypeOK /\ DeliveryInv /\ ChainSound /\ Truthful /\ [Next]_vars => Truthful'
  BY TruthKept
<1> QED
  BY <1>1, <1>2, InitTruth, NextAsPromised, DeliveryKept, TypeCorrect, PTL
     DEF Spec, ImplementsDelivery, Promised!SpecDelivery

===============================================================================
