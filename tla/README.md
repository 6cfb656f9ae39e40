# Eduport Plus: a TLA+ development

Specifications of the backend of Eduport Plus (`src/backend`, Django, PostgreSQL, Celery): a
tutoring platform in which parents book Diagnostics and Demos, BDEs and tutors hold them, and the
system writes WhatsApp messages to the parents. This file says what the system consists of, which
module models which part, what the model checker and the proof system establish, and what is still
to be modelled.

## The system

| Component | State | Operations | Interacts with |
|---|---|---|---|
| **Communications** (`communications/`) | `Message`, `CommunicationTask`, `MessageAttempt`, status events kept or applied | planning and re-checking (`planner.py`), claim / provider call / result (`sending.py`), provider reports (`status_updates.py`), the BDE's actions (`services.py`), jobs every minute and every five (`tasks.py`) | called inside every booking transaction; calls the provider; called back by it |
| **Bookings** (`bookings/`) | slots and seats, leads, bookings and their chain of moves, history, demo invitations, Re-Demo requests | book, move, cancel, confirm, assign and unassign a tutor, start, open and close slots | planner, reports, the tutor's scheduling lock shared with sessions |
| **Reports** (`reports/`) | one report per booking, versioned, with revisions | submit (completes the booking), edit under a version check, PDF | bookings, planner, Re-Demos |
| **Class sessions** (`sessions/`) | sessions, their files, credits used | schedule one or a series, move, give to another tutor, cancel, make up for, mark attended, upload | students, tutors' bookings (conflicts), exams, homework |
| **Students** (`students/`) | students, class quota, tutor and mentor | hand-over, quota sync from the enrolment sheet | sessions, exams, an external sheet |
| **Accounts** (`accounts/`) | users, roles, permissions, failed sign-ins, sessions | sign-in with lockout, own password, Team (create, role, deactivate, reset, grant), the admin site's user form and set-password page, a parent's first sign-in | everything a staff member is assigned to; invitations |
| **Invitations** (`invitations/`) | invitations of a parent for a child | send, send again, redirect, withdraw | the sheet; redeemed by a sign-in |
| **Exams, homework** (`exams/`, `homework/`) | chapter exams, additional exams, homework, their files and bytes | schedule, record a result, set, submit, score | sessions, students, the file store |
| **Activity, core** | an append-only log, permission tables | log, authorise | all of them |
| **Frontends** (`frontend/hub`, `frontend/learn`) | none of its own | screens | the API |

PROJECT.json lists all of them with what is modelled and why the rest is not (yet), and every hazard
found, at its line, with the properties that watch it.

### What is hard in it

* **Sending is three transactions, not one.** A message is claimed, the provider is called with no
  transaction open, and the result is recorded. Between any two the booking may be cancelled, moved,
  confirmed or started; the worker may die; recovery may take the claim back; a report may come
  before the id it names is recorded; and a call that raises says nothing of whether the parent was
  written to.
* **A moved booking hands its acknowledgement on.** One acknowledgement per chain of moves, decided
  by outcomes that arrive out of order, from a chain that is read without a lock.
* **Two tables say one thing.** A step (task) and its message are written by different statements,
  of several jobs and handlers.
* **Seats, leads and tutors** are protected by row and advisory locks taken in a fixed order; the
  checks that matter are made again under them.
* **Classes, students and staff** meet in two ways: classes are scheduled under the locks of a student
  and a tutor, and students, with their classes, are handed to staff who may be leaving.
* **Much of the rest takes no lock.** Rows are read, compared, and saved whole later (classes, chapter
  exams, invitations, profiles, the admin site's forms), or a request goes on after its transaction
  has committed (a session is issued, homework is assigned). What still holds then, holds because of
  which columns are written, in which order, and what the database refuses.
* **Files** are bytes in a store that no transaction undoes, and rows that one does.

### What makes each component correct

* Communications: the provider takes a message at most once; a second acknowledgement goes to a
  parent only once the first is known undelivered; nothing that no longer applies is left to be
  retried; what is sent is what the booking says when it is claimed; what was sent is history; steps
  and messages agree; what should be sent is, and everything with a window closes.
* Bookings: no slot over its capacity, one live booking per child and type, no child or tutor in two
  places at once, an invitation used once, history that matches the booking.
* Reports: a booking is completed by exactly one report; no edit is lost; a history of versions.
* Sessions and hand-overs: no student or tutor in two places, bookings included; no student handed to
  someone who has left; no deadlock.
* Accounts: guesses are bounded however they come; a session is of someone who knew the password; a
  temporary password is replaced; an administrator remains; grants fit roles.
* Enrolment: a child is enrolled for a parent who was invited for it; quotas follow the sheet.
* Schoolwork: what was submitted is whole and stays; one score; an attended class has its homework.

## Modules

| Module | What it is |
|---|---|
| `Communications` | the parent messages of bookings: planner, sender, jobs, provider reports, and the booking handlers as far as they concern them |
| `MCCommunications` | instances for TLC: the details each step needs, a symmetry, and the named sets the configurations use |
| `CommunicationsProofs` | twelve theorems of `Communications`, the refinement among them |
| `Delivery` | the abstract specification `Communications` implements: letters and a carrier whose answers may be lost |
| `Bookings` | bookings under their locks: seats, leads, tutors, classes, links, invitations, Re-Demos, starts and reports, every operation a transaction that takes its locks one at a time |
| `AppointmentBook` | the abstract specification `Bookings` implements: a clerk who does one thing at a time and looks everything up as it is written |
| `BookingsProofs` | twelve theorems of `Bookings`, the refinement among them |
| `MCBookings` | instances for TLC: slots and their times, the rows an instance begins with, the operations it runs |
| `Tuition` | classes, the hand-over of students and the deactivation of staff, every operation a transaction that takes its locks one at a time |
| `TuitionProofs` | five theorems of `Tuition` |
| `MessageLocks` | the row locks of one lead's messages and steps: what `Communications` has as one step, row by row |
| `LocksProofs` | three theorems of `MessageLocks` |
| `MCLocks` | composes `Tuition` and `MessageLocks` for TLC: the situations rows are in when it begins, and what may then be done |
| `Accounts` | sign-in and lockout, sessions, one's own password, the Team API, the user form and set-password page of the admin site |
| `AccountsProofs` | six theorems of `Accounts` |
| `Enrolment` | invitations, the sign-in that redeems them, the quota sync |
| `EnrolmentProofs` | two theorems of `Enrolment`, and the lemmas about sums they need |
| `Schoolwork` | homework, additional exams, chapter exams, and their files |
| `SchoolworkProofs` | four theorems of `Schoolwork` |
| `Reports` | one booking's report, its revisions, and the pages it is edited from |
| `ReportHistory` | the abstract specification `Reports` implements: a history of versions |
| `RecordsProofs` | three theorems of `Reports`, the refinement among them, and two of the four parts `MCRecords` composes |
| `MCRecords` | composes `Accounts`, `Enrolment`, `Schoolwork` and `Reports` for TLC |

`Communications`, `Bookings` and `Reports` are three views of the same booking rows: the handlers as
far as they write to parents, each one step; as far as they contend for slots, children and tutors,
each a transaction; and as far as they meet the report. `Bookings` and `Tuition` share the tutor's
scheduling lock: each has the other's rows as far as they take a tutor's time (`session` in
`Bookings`, `bookings` in `Tuition`), with the operation that makes them. `MessageLocks` is the layer
under `Communications`: the same changes, jobs and senders, with every row lock a step of its own. The
modules that `MCRecords` composes, and the two of `MCLocks`, share nothing but the database, so one of
them moves in a behaviour: they are composed to be checked together, not because they meet.

### Communications: state and code

| Variable | Code |
|---|---|
| `booking[b]` | the row of a Diagnostic or Demo booking: status, whether the parent confirmed (`confirmed`) and the tutor started it (`started`), whether it is a Re-Demo, the bookings it replaced (`earlier`, the chain of `rescheduled_from`), what texts print (`data`), and where its time stands |
| `msg[<<b, s>>]` | booking `b`'s `Message` for step `s`: `st` is its status (`ABSENT`: no row), `claim` stands for `claimed_at`, `attempts` counts its `MessageAttempt` rows, `pid` is whether `provider_message_id` is set, `early` whether `next_attempt_at` is to come, `body` the details its text was rendered from |
| `task[<<b, s>>]` | the `CommunicationTask`: status and resolution |
| `sends` | `send_message` calls that hold a claim: calling the provider, having its answer, recording it |
| `callbacks` | provider reports between the look-up that found no message and the row that keeps them, and transactions that apply a delivery failure |
| `unmatched[m]` | `UnmatchedStatusEvent` rows for `m`'s provider id |
| `taken[m]` | history: how often the provider truly took `m` (no code sees this) |
| `overlooked` | history: bookings made while a transaction that had read their chain was open |

One database transaction is one action. The exceptions are the two places where a transaction reads
something unlocked that another may change before it commits, both named in the code as a "Known
limitation": `acknowledgement_settled` and `status_updates._failed` read the bookings that replaced
this one, and act on each under its own lock. Those transactions are two actions (`BeginRecord` /
`Record`, `ApplyReports` / `CommitFailure`), and in between hold the message's row lock; an action
that needs a held row is not enabled (`CanLock`), and one that skips locked rows skips it.

| Action | Code |
|---|---|
| `Book` | `create_booking`, `create_invited_demo_booking` with `plan_booking`; `schedule_redemo`, which plans nothing |
| `Reschedule`, `CancelBooking`, `NotConfirmed`, `ParentConfirmed` | `reschedule_booking`, `cancel_booking`, `record_parent_confirmation`, each with its planner call |
| `StartBooking`, `Complete` | `start_booking`; `submit_report` with `booking_completed` (which closes what expired first) |
| `RequestConfirmation`, `RecordCallOutcome` | `communications.services` |
| `ChangeDetails` | `assign_tutor`, `unassign_tutor`, `set_tutor_meet_link`, `sender_contact_changed`, `lead_owner_changed` |
| `ChangeDetailsUnseen` | an edit no hook sees (the Django admin) |
| `RefreshWaiting`, `CloseExpired`, `Recover`, `Reconcile`, `PurgeUnmatched` | the scheduled jobs |
| `Claim`, `ProviderAnswers`, `BeginRecord`, `Record`, `SenderStops` | `send_message`: `_claim`, the call, `_finish` / `_record_result` / `_late_result`, and a worker that dies or gives up |
| `CallbackUnmatched`, `KeepReport`, `CallbackMatched`, `CommitFailure` | `apply_status_update` |
| `Tick`, `AfterWindowCloses`, `RetryComes` | the clock passing a moment the code compares with |

What is abstracted, and why that loses nothing the properties speak of:

* Time is per booking: more than 15 minutes before, the last 15 minutes (`CallOpen`), started
  (`Running`), ended (`Over`); a booking's clock moves on its own, so two bookings' slots come in any
  order. Start opens 5 minutes before and the call 15: `CallOpen` allows both, which is more than
  the code does. The time of a closed booking stops, since no code compares it.
* A text is the value of the booking's details it was rendered from; `Enough[s]` are the details
  that leave no blank in step `s`'s wording. `Invalid` and `HeldBack` are details with a phone that
  is not an international number or that the safety gate keeps back.
* `Recover` may take any claim at any time, not only after five minutes: a slow sender and a dead one
  cannot be told apart, and every order of recovery and a late result is explored.
* Duplicate reports (`dedupe_key`): applying a report again changes nothing (`Progressed`,
  `DeliveryFailed`), so the key is left out.
* A batch job acts row by row, or at once where it is one transaction; batch sizes and the dispatch
  time budget are left to fairness.
* The row refresh of `refresh_waiting` reads its booking without the booking's lock, and so may
  render details a moment old; the claim renders again under the lock, which is what `ClaimedRight`
  is about, so the refresh is one atomic action.
* A Demo that needs a Re-Demo (`REDEMO_REQUIRED`) counts as completed, as `CONDUCTED` does.
* Which staff member owns a task is not modelled.

### MessageLocks: state and code

| Variable | Code |
|---|---|
| `message[m]` | a `Message` row's status; `CLAIMED` is Pending with `claimed_at`, `REFUSED`, `UNKNOWN` and `UNDELIVERED` the three kinds of Failed, `TAKEN` Queued to Read |
| `answer[m]` | what the provider answers the sender that has `m`'s claim, until it is recorded |
| `step[m]` | the `CommunicationTask` of `m`; `SETTLED` is Done with `ALREADY_ACKNOWLEDGED` |
| `standing`, `ended` | the bookings' status and answer; those whose scheduled time has come |
| `ids`, `taskIds` | the order of the rows' ids, which are random and settle the order of every statement's locks |
| `writer[w]` | a transaction: its operation and stage, the rows its statements chose, those it has locked (`held`), of each statement under way the rows still to lock (`need`), which it takes by id, what it will write |
| `mayRun`, `runsLeft` | the operations of this instance, and how many may still begin |

A statement chooses its rows by what is committed as it begins, locks them one at a time (`LockRow`), and
what it writes is decided again by the rows as they are then (READ COMMITTED): so `chosen` is in
every `Check...` and `Choose...`, and the status is looked at again in every `Write...`. A transaction
writes as it commits; until then no other sees the rows.

| Actions | Code |
|---|---|
| `ChangeBooking`, `CheckClose`, `ChooseSteps`, `WriteClosed` | `cancel_booking`, or the booking a move leaves: `_close`, `_cancel_messages`, `_update_tasks` |
| `CheckConfirm`, `WriteConfirm` | `record_parent_confirmation` with `parent_confirmed`: `_lock_unsent` first |
| `CheckRefresh`, `WriteRefreshed` | `refresh_messages` |
| `ChooseDiagnostics`, `ChooseDemos`, `ChooseOpenSteps` | `lead_owner_changed`, `sender_contact_changed` |
| `Expire` | `close_expired` as the job |
| `Claim`, `CheckClaim`; `Record`, `Accepted`, `RecordResult`; `Recover`; `SettleNext`, `SettleRow`, `WriteResult` | `_claim`, `_record_result` and `_late_result`, `_recover`, each with `acknowledgement_settled` |
| `Report`, `CheckReport`, `ReleaseNext`, `ReleaseLocked`, `Reopen`, `WriteReport` | `_failed` and `release_acknowledgement` |
| `CircleBroken` | PostgreSQL fails one of the transactions that wait in a circle; a sender tries again (`Record` stays enabled) |

Left out, because `Communications` has it or nothing else reads it: details and texts (a message waits for
its booking and an earlier acknowledgement only), counts of attempts, kept reports, `refresh_waiting`,
which skips rows that are locked, and the lead's own row. A booking is changed by the operation that
holds its row; `ended` is read when a row is written, where the code uses the time its transaction
began at.

### Bookings: state and code

| Variable | Code |
|---|---|
| `booking[b]` | a `DiagnosticBooking` or `DemoBooking` row: status, lead, slot and seat, how and when it was made, tutor and the link copied from them, whether started, the parent's answer, the booking it replaced (`rescheduled_from`), the Demo its Re-Demo request is about (`redemo_for`) |
| `closed[s]` | `BookingSlot.closed_at` is set; a slot's type, time and capacity are constants |
| `invite[i]` | a `DemoInvite`: its state, its Diagnostic, the Demo it booked |
| `active`, `meetLink[t]` | the accounts `is_assignable_tutor` accepts, `User.tutor_meet_link` |
| `session[c]` | a class as far as it takes its tutor's time: scheduled or over, whose, when |
| `txn[w]` | what worker `w`'s transaction is doing: its operation and stage, what it is about, the clock it read first (`at`), the locks it has (`held`) and has still to take in order (`need`), what it decided |
| `now` | the clock, which passes the `Moments` the code compares with |

An operation is four kinds of steps. It begins by what the code reads before its locks; `TakeLock`
takes the next lock, or waits, or gives up (`LockTimesOut`: `LOCK_TIMEOUT`, or a deadlock
PostgreSQL breaks); a `Check...` step reads what is checked under the locks and decides or refuses;
a `Write...` step commits and frees the locks. `reschedule_booking`, `assign_tutor` and
`schedule_redemo` check, then lock the tutor, then check again, and `issue_invite` the open
invitation, so they have two `Check...` steps. Reads under READ COMMITTED see what is committed,
which is what the rows of the model are.

| Actions | Code |
|---|---|
| `CreateBooking`, `CheckCreate`, `WriteCreate` | `create_booking` |
| `CreateInvitedDemoBooking`, `CheckInvited`, `WriteInvited` | `create_invited_demo_booking` |
| `RequestRedemo` ..., `ScheduleRedemo` ... | `request_redemo`, `schedule_redemo` |
| `RescheduleBooking`, `CheckMove`, `CheckMoveTutor`, `WriteMove` | `reschedule_booking` |
| `CancelBooking` ..., `RecordParentConfirmation` ... | `cancel_booking`, `record_parent_confirmation` |
| `AssignTutor` ..., `UnassignTutor` ..., `StartBooking` ... | `assign_tutor`, `unassign_tutor`, `start_booking` |
| `SubmitReport` ... | `reports.services.submit_report` |
| `SetTutorMeetLink`, `CheckLink`, `WriteLink` | `set_tutor_meet_link`: what it re-reads after the account row, and the row locks its saves take then |
| `SetSlotsClosed`, `WriteSlotsClosed` | `set_slots_closed` with `close_slot`, `reopen_slot` |
| `SetAccountActive` ... | `TeamMemberStatusView`: deactivation and activation |
| `ScheduleClass` ... | `SessionsView.post` for one class |
| `EndClass`, `EditClass`, `SaveClass` | `CancelSeriesView`, `SessionsView.put` with no new time or tutor: read, then saved whole with no lock |
| `IssueInvite` ..., `RevokeInvite` ..., `ExpireInvite` | `demo_invites`; `DemoInvite.status` once its seven days are over |

What is abstracted:

* No unique index refuses anything: the model has none, so what holds, holds by the locks.
* Slots and classes are all one length (`SLOT_MINUTES`); days are `DayLength` long. `Moments` are
  minutes apart in the code's terms, and a transaction sees at most one of them pass: a lock is
  waited for three seconds at most.
* Rows are numbered as they are made. The bound is the number of rows: an operation that makes one
  begins only while each transaction that makes one has a row left (`RoomForBooking`,
  `RoomForInvite`).
* `set_tutor_meet_link` locks the bookings it finds as it begins; the code's first query locks them
  in two tables, the second read a moment later.
* A Diagnostic's report exists exactly when it is completed, and every lead may be offered a Demo.
* A refused operation and a repeated one that finds its work done are the same: nothing is written.
* Who may do what, reasons, history rows and messages (`Communications`) are left out.
* Student-side locks, and a class's new time or tutor, belong to `Tuition`.

### Tuition: state and code

| Variable | Code |
|---|---|
| `session[c]` | a `Session` row: status, student, tutor, start and end, and its series and place in it (`NoClass`: no row) |
| `student[s]` | a `Student` row: status, mentor, tutor |
| `active` | the accounts of mentors and tutors that are active |
| `bookings` | the live Demo and Diagnostic bookings tutors have, as `find_booking_conflict` sees them |
| `txn[w]` | what worker `w`'s transaction is doing: operation and stage, whom and what it is about, the rows it read and will save, the locks it has (`held`) and has still to take in order (`need`) |
| `ops`, `left` | the operations of this instance, and how many may still begin |

A transaction begins by what the code reads before its locks, takes them one at a time (`TakeLock`),
checks (`Check...`) and commits (`Write...`). Here no lock times out; of transactions that wait in a
circle PostgreSQL fails one (`DeadlockBroken`).

| Actions | Code |
|---|---|
| `CreateSessions`, `CheckCreate`, `WriteCreate` | `SessionsView.post`: one class or a series; student, tutor and credits are read before the locks |
| `UpdateSession`, `CheckUpdate`, `WriteUpdate` | `SessionsView.put`: status, time, tutor, or links only; locked and checked only if it takes time anew; the row is saved whole |
| `CancelSeries` ... | `CancelSeriesView`: a class of a series is cancelled, later ones renumbered, one made up for |
| `Reassign`, `CheckReassign`, `CheckReassignStaff`, `WriteReassign` | the hand-over of one student |
| `ReassignAll` ... | the hand-over of all the students of someone who leaves (`accounts/views.py`): scheduling locks and accounts in turn, then the students' rows by two updates, the mentor's before the tutor's, each in any order |
| `EditStudent`, `WriteStudent` | a profile saved whole |
| `Deactivate` ..., `Reactivate` ... | `TeamMemberStatusView` |
| `AssignBooking` ... | `assign_tutor`, as far as classes are concerned |

What the database may begin with is `StartAssumption`: classes of students, series whose members
agree, and nobody in two places. `Bookings` has its own: rows that a run of its operations could have
left (`RealRows`).

`Now` is a constant: what the properties say of classes to come holds as some of them pass. `Quota`
and `Exams` are constants. Windows are the times the instance tells apart: before now, two that
overlap, one that touches the second. Credits are the length of a window.

### Accounts: state and code

| Variable | Code |
|---|---|
| `account[u]` | a `User` row: role, active, the number of its password (the hash, and what is typed to match it), `must_change_password`, `failed_login_count`, `locked_until` |
| `grants[u]` | `user_permissions` |
| `sessions` | the sessions issued: whose, against which password, and (history) the password its user had shown |
| `handling[h]` | a request: what it read, what it asks, how far it is |
| `chosen`, `guesses` | history: the passwords users chose themselves; wrong passwords judged since the account was last free of them |

| Actions | Code |
|---|---|
| `ReceiveSignIn`, `ReadForSignIn`, `RightPassword`, `WrongPassword` | `LoginView`, `LockoutBackend.authenticate`: the time is read first, then the row's lock is taken |
| `EstablishSession` | `establish_session`, after that transaction, from the row it read |
| `ReceiveChange`, `ChangePassword`, `RekeySession` | `ChangePasswordView`: read with no lock, three columns saved, the session issued anew |
| `ReceiveTeam`, `CheckTeam` | the Team API: the manager as the request comes; then the team's advisory lock and the account's row |
| `CreateAccount`, `GiveRole`, `SetActive`, `ResetPassword`, `SetPermissions` | its writes |
| `ReceiveForm`, `CheckForm`, `SaveForm` | the admin site's user form: a row read with no lock, saved whole with what the form says: role, active, temporary password and lockout, as shown when it was opened or as edited since |
| `ReceiveSetPassword`, `SetPassword`, `RekeySession` | the set-password page the form links to: a row read with no lock, saved whole with the password typed; one's own session is issued anew |

A Team write takes the team's lock and the row's in one step: nothing that holds a row waits for the
team. Who has students or bookings (`Mentoring`, `Booked`) is constant here; that it is read under the
locks is what `Tuition` and `Bookings` check. Of the admin site, its form for a new account, the columns
`is_staff` and `is_superuser`, and a password set to be unusable are left out.

### Enrolment: state and code

`invitation[i]` is an `Invitation` row, `parents` who has a student account, `pupil[c]` a `Student` row
as far as its parent and quota go, `sheet[c]` the rows of the enrolment sheet for the child, `task[t]`
a request, `hourly` the run of the sync; `ever` is history, everyone ever invited for a child.

| Actions | Code |
|---|---|
| `Invite`, `FindInvitation`, `SaveInvitation` | `InvitationView.post`: the sheet is read, or cannot be; an invitation there is is saved whole, as pending |
| `ChangeEmail`, `SaveEmail`; `Withdraw`, `DeleteInvitation` | its `patch` and `delete` |
| `SignInParent`, `Redeem`, `UndoSignIn` | `GoogleLoginView`, `redeem_invitations`: what the database refuses undoes all of it |
| `SyncOne`, `FetchOne`, `WriteOne` | `sync_one_student_quota` |
| `FetchSheet`, `ReadStudents`, `WriteQuotas` | `sync_student_quotas_from_sheet` |
| `EditSheet` | someone edits the sheet (external) |

### Schoolwork: state and code

`class[c]` is a `Session` row as far as attendance and homework content go; `work[p]` a `Homework` row
(by class) or an `AdditionalExam`, which live one life; `exam[e]` a chapter exam; `files` the rows of
files and `bytes` what the store has of them; `serving[s]` a request. `unsynced` and `over` are
history.

| Actions | Code |
|---|---|
| `ReadClass`, `SaveClass`; `ReadForUpload`, `SaveUpload`; `SyncHomework` | `SessionsView.put` and the upload view, and `sync_homework_for_session`, called once the class is saved |
| `StoreFile`, `FailStoring`, `Stop` | `store_*_files`, `discard_file_bytes`, a server that stops |
| `SetExtra`, `CommitExtra`; `Submit`, `CommitSubmit`; `ReadForScore`, `Score` | setting, submitting and scoring |
| `ScheduleExam`, `ReadForChange`, `SaveChangeOfExam` | `ExamsView` |
| `ReadForResult`, `SaveResult`, `RemoveBytes`, `RemoveRow`, `AnswerResult` | `ExamResultView`, with the question papers it adds and removes |

### Reports and ReportHistory: state and code

`visit` is the booking (status, tutor, started), `report` its report's row (version 0: none),
`revisions` the rows of its revisions, each with (history) the text its author had been shown, `page[p]`
an open form, `locked` the requests that have the locks. `SendPage` sends what a page says, as a
submission or as an edit with the version it shows; `CheckSave`, `CommitSave`, `BusySave` and
`FailSave` are `submit_report` and `edit_report`; after a lost answer a page may be sent again.
`StartVisit`, `AssignVisit` and `CancelVisit` are what `booking_service` does to the booking meanwhile.
Slot, booking and report are locked in that order by every writer: one lock here.

`ReportHistory` says what a report promises: versions, each written over the last by someone who had
read that one, none ever changed. `Reports` implements it with `history` the versions its revisions
make (`Versions`).

## Runs

Each property is hard to reach by a test; each has a mutant -- a dropped guard, a missing lock, a
swapped order, an off-by-one of the code it is about -- that the run is checked to catch.

Of `MCCommunications`; its bounds are named constants: `MaxPublic` bookings made other than by a
move, `MaxSends` and `MaxCallbacks` under way at once, `MaxKept` messages with kept reports,
`MaxTime`, `MaxAttempts`. Bookings are finite, so the system may come to rest: deadlock is not
checked, here or in the other runs, which all bound how much is asked. Symmetry over bookings is
used only where no liveness is.

| Run | Instance | Shows |
|---|---|---|
| `answers` | one booking; confirmation request and confirmed message; full, partial, wrong and held-back details; retries | `NothingLeftToRetry`, `ClaimedRight` |
| `pair` | a booking and its replacement; acknowledgement; every answer and report; two attempts; kept reports | `TakenAtMostOnce`, `HistoryKept` |
| `chain` | a booking or a Re-Demo moved twice; refusals, unknown outcomes, delivery failures | `OneAcknowledgementPerChain`, `ChainAgrees` |
| `steps` | one booking or Re-Demo with its call and its after-activity message; reports that come before the id; the jobs are fair, but the booking's time may stand still | `StepsAgree`, `ReadyGoes`, `ReportsApplied`, `ImplementsDelivery` |
| `live` | a booking and its replacement under fair jobs and time | `AllSettles` |

Every property speaks of one message, or of an acknowledgement and one of an earlier booking of its
chain, and a chain of three has the case of a booking in the middle, whose own acknowledgement both
waits and is waited for. Two attempts separate the first, a retry and the last; one sender more than
one claim is enough for a late result to meet a new claim, which `pair` reaches.

Of `MCBookings`, two workers each; each runs some of the operations (`Ops`) from rows there may be
when it begins (`AtStart`):

| Run | Instance | Shows |
|---|---|---|
| `children` | two children, one-seat slots of both types, two of them overlapping, four rows; booked and moved while slots are closed and opened; nothing booked before, or a Demo missed | `OneHolderPerSeat`, `LeadInOnePlace`, `NoCircularWait` |
| `tutors` | two overlapping bookings, a move and a class for two tutors, whose accounts are deactivated and activated | `TutorInOnePlace`, `LiveHasActiveTutor` |
| `starts` | one booking from assigned to reported or cancelled, moved, its tutor's link changed, a class edited; the minutes before its slot, and its end | `TypeOK`, `MovedIsReplaced`, `ImplementsAppointments` |
| `taught` | a Diagnostic taught, two invitations and the Demos they book; or a Demo taught, its Re-Demo by one of two tutors; or that Re-Demo missed | `InviteUsedOnce`, `OneRedemoPerRequest` |

Two workers suffice because each safety property is lost, if at all, by one transaction reading what
another is about to change. `children` has two seats, two slots and
two rows to wait for in the wrong order; that no transactions of any operation but the link change, however
many, wait in a circle is proved (`NeverCircularWait`). One-seat slots make a
race for the last seat the first thing that happens; capacity is a constant of the module. Slots
exist for every case the code tells apart: ended, overlapping across types, on a later day. Four
rows let two moves swap slots, which is when the order of their locks matters.

| Run | Instance | Shows |
|---|---|---|
| `locks` | of `MCLocks`: two transactions at a time. Tuition: two students, two mentors, two tutors, three classes, windows that overlap and touch; seven situations, each with the operations that meet in it: scheduling from nothing, changing, handing over one or all, making up, staff leaving, editing | `StudentInOnePlace`, `TutorInOnePlace`, `StudentsHaveActiveStaff`, `DeadlockOnlyByMentors` |
| | Messages: a Demo that was moved while its acknowledgement was being sent, the Demo it was moved to, with its acknowledgement and confirmation request, and a Diagnostic's; every order of the chain's ids, or some of all four; two or three of the operations that meet: recording and recovering, changing the owner, expiring, reporting a failed delivery | `RowByRow`, `CirclesOnlyBySettling` |
| `records` | of `MCRecords`: two handlers, tasks, servers or pages. Accounts: guessing against a limit of two while passwords are changed and reset; managing two administrators and a tutor; the admin site's forms, opened over an account as it is or once was (two sets of columns posted), and its set-password page, beside changes and resets. Enrolment: two parents, children and invitations; a sheet that is edited while single and hourly syncs run. Schoolwork: a class edited and attended; work submitted and scored; an exam changed and its result recorded; each upload of two files. Reports: two pages, two tutors, four versions | `RecordsTyped`, `GuessesBounded`, `SessionsKnowPassword`, `TemporaryReplaced`, `AlwaysAnAdmin`, `GrantsFitRole`, `EnrolledByInvitation`, `QuotaFollowsSheet`, `SubmissionWhole`, `MarkedOnce`, `HomeworkAssigned`, `CompletedWithReport`, `ImplementsHistory` |
| `exam` | the same instance | `ExamStaysOver` is violated, see findings |

Two requests suffice for the same reason as above, and three or four of them (`requestsLeft`,
`comesLeft`, `asksLeft`, `left`) let a third come between two, or after a lock has run out. Two guesses
separate the last allowed from the others. Two files are one stored and one that fails.

What a run leaves out matters to what it shows:

* `TutorInOnePlace` (`tutors`, `locks`) is of assignments, moves, hand-overs and classes scheduled,
  moved, put back and made up for. It does not hold once a class may be saved from a stale read beside
  them (`edit_class`, `edit_session`), nor where all of a tutor's students are handed over with a class
  another tutor was given, or a series is renumbered while a later class of it is cancelled and its hour
  given away: each as said under "seen while modelling". The situations of `locks` do not combine
  these, and the theorem excludes the three operations by name (`OnlyFitted`).
* `StudentsHaveActiveStaff` is of hand-overs and of who leaves. A profile saved whole (`EditStudent`)
  may put a former tutor back; it is in a situation of its own.
* `GuessesBounded`, `TemporaryReplaced`, `AlwaysAnAdmin` and `GrantsFitRole` are of the API (`ByApi`): the admin
  site's form writes back all of a row it read without a lock, with columns as they were shown, and may
  undo any of them; its set-password page leaves a password that need not be changed.
  `SessionsKnowPassword` holds with the site too: a session fits the password the row has, whoever wrote it.
* `HomeworkAssigned` leaves out the classes in `unsynced`: an upload that the status changed under, and
  a server that stopped between saving a class and assigning its homework.
* `ImplementsAppointments` (`starts`) is of one child's booking with one tutor, where no booking is made but by a
  move; that it holds of every operation and any number of them is proved (`AppointmentsAsPromised`).
* `NoCircularWait` is of everything in `Bookings` that takes several locks but the link change.
* `NoCircularWait`, `DeadlockOnlyByMentors` and `CirclesOnlyBySettling` are of every set of transactions each of
  which waits for another of the set, so of every circle there is, and say who must be in it. With two
  transactions TLC sees circles of two; the theorems are of any number. Circles do occur in `locks`, of both kinds.
* A chain of two has circles with one that goes on to another acknowledgement (`settled`), and with those that take
  the Diagnostics' messages first; that one which has settled a later acknowledgement already, or reaches for a
  released one (`release`, `reopen`), may be in one too needs a chain or a circle of three. The first statement of
  `CirclesOnlyBySettling` left the former out, and the proof attempt is what showed it.

### Fairness

The jobs are run by Celery beat every minute (dispatch, `refresh_waiting`) or every five (recovery,
expiry, reconciliation; `config/settings.py` `CELERY_BEAT_SCHEDULE`), so each is weakly fair
(`JobFairness`). A provider call has a timeout and a transaction ends, so a send under way moves on
or stops. Nothing is asked of people, of a sender's survival (`SenderStops` may always happen), nor,
except in `FairSpec`, of a booking's time coming (`TimeFairness`): `steps`, under `JobSpec`, shows
that a ready message goes without it.

The quota sync is started every hour by the same schedule, its task has a time limit, and a request is
answered (`HourlySyncs`). A run that cannot read the sheet writes nothing; `FetchSheet` is one that
can, so what is assumed is that the sheet can be read time and again. Nobody must edit it, sign in, or
ask for a sync.

### Findings

* `exam`: `ExamsView.put` reads a chapter exam with no lock and saves all of it. An exam moved by one
  request while another cancels it, or records its result, is SCHEDULED again (and its score gone),
  though `exams/models.py` gives its lifecycle as "SCHEDULED -> ATTENDED | CANCELLED".

Seen while modelling, and not among the runs:

* `set_tutor_meet_link` reads the tutor's bookings a second time, after the account row, and saves
  those it had not locked (`booking_service.py:1598`). One assigned in between can go to another tutor
  before that save and then has the first tutor's link, or be started and lose the link it was taught
  in; its docstring says an assignment "either commits first and is updated here, or waits for it".
  The save takes its row lock after the account's, against the order `booking_service.py` states.
* `find_handover_conflict` does not compare the classes that move with each other, for they "are one
  student's, or one tutor's, and were scheduled clear of each other" (`sessions/services.py:336`). The
  hand-over of all of a tutor's students (`accounts/views.py:764`) moves every open class of those
  students, whoever teaches it; one that was given to another tutor (`sessions/views.py:616`) may be at
  the hour of another student's. Both come to one tutor.
* `CancelSeriesView` saves the later classes of a series whole, with their new numbers. One that is
  cancelled or attended between its read and that save, which takes no lock, is scheduled again, over
  what its tutor was given meanwhile.
* Siblings share a phone number but no lock, so `BOOKING_PHONE_DAILY_LIMIT` can be passed by one
  booking per child at once (`booking_service.py:1853`).
* A class edited (a recording link, say) while it is cancelled is saved as scheduled, over a booking
  its tutor was given in between (`sessions/views.py:625`). Two cancellations of one class of a series each make up for it.
* The hand-over of all of a mentor's students holds the replacement's account as it updates the
  students' rows, and the hand-over of one holds the row as it locks the account: they may deadlock,
  and PostgreSQL fails one (`accounts/views.py:782`). So may two that hand over all: the rows are locked
  by two updates without an order (`accounts/views.py:782`, `788`), and a mentor's and a tutor's hand-over that
  share two students can each have one of them. A class's own tutor, given to that class only,
  is not counted when that tutor is deactivated.
* A student's profile saved whole writes back tutor, mentor and quota as they were read.
* Homework of an attended class is never assigned when an upload's stale status crosses the request
  that marks the class attended, or the server stops between the two steps (`sessions/views.py:632`).
  The bytes of files already stored stay when storing a later one fails; a question paper's go before
  its row's deletion commits.
* An invitation sent again or redirected is saved as read: one accepted meanwhile is pending again.
  One withdrawn while it is redeemed fails the sign-in; so does the second of two parents invited for
  one child, until the first invitation is removed.
* A change of password begun before a reset, and saved after it, undoes the reset: the account has the
  password its user chose, under a session the reset meant to end. A reactivated account's sessions
  work again if its password is the same.
* The admin site's form posts `must_change_password` as it was shown (`accounts/admin.py:130`). One opened before a
  Team reset and posted after it clears the mark the reset made: the temporary password need never be
  changed. Its set-password page installs what an administrator typed, and never makes the mark.
* A wrong current password given to `ChangePasswordView` is not counted as a failed sign-in (`accounts/views.py:414`).
* Enrolment gives a student the default staff without looking at whether they are active
  (`accounts/services.py:72`); `StudentsHaveActiveStaff` is of hand-overs.
* Two of the admin site's forms can demote the last two administrators, and deactivating by it looks
  at bookings only.
* The after-activity step never closes as Missed, though `communications/models.py` and
  `overview.py` say of every step that its window does: the planner never sets its `expires_at`.
  `AllSettles` is stated of the other steps.
* Transactions on a lead's messages do wait in a circle, though `planner.py:43` says of its changes and the
  sender that they never do: a change of owner or of a BDE's contact takes the Diagnostics' messages and then the Demos',
  the expiry sweep all of them by id; and a sender that records an acknowledgement goes on, with it
  locked, to those of later bookings, whose ids may come before. PostgreSQL or the lock timeout ends it: the sender
  tries again (`sending.py:268`), the sweep five minutes later, the person who changed the owner by hand.
* `record_call_outcome`'s docstring says an unanswered call is Missed after the slot; it is Done, as
  a reminder, from the scheduled start, which is what `ExpiredTasks` does.

Two limitations the code documents itself are in the model: a booking made while a transaction that
had read the chain is open is in `overlooked`, and `ChainAgrees` is claimed of the others.

## Proofs

`CommunicationsProofs` proves, for every value of the constants that satisfies
`ConstantsAssumption`:

* `TypeCorrect`: `Spec => []TypeOK`. Each planner operator maps typed rows to typed rows (one lemma
  each), each action preserves the type by those lemmas.
* `SendsMatch`: `Spec => []SendInv`, the invariant the next one needs. `TakenAtMostOnce` alone is not inductive: it needs that a
  message the provider took is *gone* -- claimed, unknown, handed over or a delivery failure -- and
  that nothing makes a gone message be sent. `SendInv` says that a claim has one sender, whose claim
  is still on the message or was taken back by recovery as an unknown outcome (`ClaimsMatch`); that a
  claimed message is Pending and a handed-over one has its id (`ClaimedIsPending`); that what was
  taken was taken once and is gone, and what was refused was not taken (`TakenIsGone`); and that no
  message is written before its booking (`NoneBeforeBooking`). The lemmas say that everything the
  planner writes leaves a gone message as it is; what remains is the sender's own steps.
* `AtMostOnce`: `Spec => []TakenAtMostOnce`, from it.
* `DeliveryKept`: `Spec => [](DeliveryInv /\ ChainSound)`, what the others below need besides. `DeliveryInv` adds to
  `SendInv` that only a message handed over, or one the provider accepted and then reported undelivered, has a
  provider's id, and that a claimed one waits for no retry (`Sound`); that a closed row of a booking has no
  message left that could still be cancelled (`NoneLeft`); and that every message has its step, in a status that agrees, and
  that only an acknowledgement's step is closed as acknowledged while its message is absent or cancelled
  (`Agree`). A step of the system is one of two kinds: the planner rewrites the messages it may (`Rewrites`, `TasksFollow`), or
  one row changes on its own (`RowStep`). Each action is shown to be of its kind, and of each kind it is shown once that it
  keeps the invariant and the history (`StepRight`). 
  `ChainSound` says that the bookings of a chain replaced each other one after another, each moved for good (`ChainsInLine`), and
  that what a transaction read of the chain is all of it but what is in `overlooked` (`ReadersKnow`).
* From it `NothingLeft` (`NothingLeftToRetry`), `StepsFollow` (`StepsAgree`), and the action properties
  `ClaimsRight` (`ClaimedRight`) and `HistoryStays` (`HistoryKept`).
* `ChainsKept`: `Spec => [](OneAtATime /\ ChainRest)`, for the last two. `OneAtATime`: an acknowledgement is claimed,
  unknown, handed over or undelivered only if none before it in its chain is in flight, unknown or accepted. It is
  kept because one is claimed only while that is so, and one of a moved booking is never claimed again.
  `OneAcknowledgement` (`OneAcknowledgementPerChain`) follows: of two that were taken, the earlier one is undelivered.
* `ChainsAgree` (`ChainAgrees`), from `ChainRest`, which adds what a report being applied has found (`ReportsHeld`) and
  that a booking not made yet has no closed step (`NoStepBefore`). Most steps are `Quiet`: they hand over no
  acknowledgement, take none back, and close no step as already acknowledged. Those left are a booking made, one
  moved, an acceptance, which settles all that came after it, and a failure, which releases all that came after it: by
  `OneAtATime` none of these has another that was accepted before it.
* `DeliveryAsPromised`: `Spec => ImplementsDelivery`, the refinement described below, from `DeliveryInv` and
  `Truthful`: what was handed over was taken, and so was what a send was told is accepted.

`Delivery` says what a reader of the messages may rely on, whatever the planner and the jobs do. A letter is a
row of `msg`; its `Phase` is read off its claim, status and failure code; its text is the row's; `taken` is the
history variable. Its actions are the code's: `_claim` is `Send` (a late refusal leaves the row an unknown
outcome), the provider is `Take`, `_record_result` is `Refused`, `AnswerLost` or `Accepted`, recovery of a
claim is `AnswerLost`, a report is `GetsOn` or `ComesBack` -- or `Accepted`, when it is what tells that an
unknown outcome was taken -- and all that the planner does to rows nobody sends is `Write`, of several at once.
Bookings, steps, retries and the kept reports are not seen in it: those steps stutter.

The operators that choose by `CASE` (`EarlierAcknowledgement`, `PlannedTasks`, `NoLongerNeeded`) had arms that overlapped: TLC takes the
first that is true, TLA+ leaves open which. The code returns at the first, and they are now `IF` chains that do.

`AccountsProofs` proves, under `AccountsAssumption` (finitely many accounts; an administrator among
those there are at the start, whose users know their passwords), for any number of handlers:

* `AccountsTypeCorrect`: `SpecAccounts => []AccountsTyped`, from `BaseInv`, which adds what a request
  in each stage has read (`RequestsShaped`) and that two requests which have checked hold no row, and
  no team, in common (`LocksHeld`). Every handler's step is shown to be of one shape (`StepOf`): it
  becomes a request that holds its locks alone, and writes no row but one nobody else has locked.
* `SessionsKnow`, from `SessionsShow`: every session was issued against the password its user had shown,
  whatever the admin site writes. `TemporaryIsReplaced`, from `OwnPasswords`: where the site
  is not used, a password is written with the mark a reset makes, or as one's own. Neither needs any lock.
* `GuessesAreBounded`, `AdminIsLeft` and `GrantsAlwaysFit`, from `ApiInv`: without the admin site, the guesses
  judged are those the row counts, at most `MaxFailures` and fewer unless it is locked; what a request
  checked is still so when it writes, because whatever could change it needs a lock it holds; and that
  is what keeps an administrator and fits the grants.

`RecordsProofs` proves, under `ReportsAssumption`, for any number of pages, authors and texts:

* `ReportsTypeCorrect` and `ReportCompletes` (`CompletedWithReport`), from `ReportInv`: what a page with
  the locks has checked is still so (`CheckedStays`); a page shows the text of the version it was
  opened at, if that is the version there is (`PagesAgree`); and the revisions have different
  versions, the last of them the report's text (`RevisionsAgree`).
* `ReportImplementsHistory`: `SpecReports => ImplementsHistory`. A commit appends to `Versions` what
  `WriteVersion` does, because the page that commits was shown the latest text; every other step
  leaves it alone.
* `PartsKeepTheirWays`: `SpecRecords` implies the specification of each of its four parts, for a step of one
  leaves the others' rows alone. So every theorem of a part is one of the composition, and `RecordsTypeCorrect`
  (`RecordsTyped`) follows from the four type theorems.

`SchoolworkProofs` proves, under `SchoolworkAssumption`, for any servers, classes, exams and number of files:

* `SchoolworkTypeCorrect`, `SubmissionsAreWhole` (`SubmissionWhole`), `HomeworkIsAssigned`
  (`HomeworkAssigned`) and `WorkMarkedOnce` (`MarkedOnce`), all from `SchoolworkInv`: a request handles
  files of its own piece of work only, two requests never hand in one piece, and none hands in what
  already is (`RequestsAgree`) -- the row is locked while its files are stored; an additional exam that
  is not set has no question paper (`PaperWhenSet`), so that one set again starts empty; and a class
  that calls for homework has it, or a request that saved the class is still to make it
  (`HomeworkToCome`), which without its second half is not kept by the save that precedes the sync.

`EnrolmentProofs` proves, under `EnrolmentAssumption`, for any tasks, parents, children, invitations and
sheet:

* `EnrolsByInvitation` (`EnrolledByInvitation`), from `EnrolmentInv`: an invitation is for one child,
  in its row and in whatever any request has read of it, whoever it is redirected to (`OneChild`); and
  whom a request names were invited when it read them (`TaskFits`), which is what lets a sign-in use
  the invitations it found before it locks them. The assumption says how the database may begin: an
  invitation names a parent and a child when it is pending or accepted, and a child is enrolled where
  an invitation for it was accepted.
* `EnrolmentTypeCorrect`: `SpecEnrolment => []EnrolmentTyped`, for any sheet. A quota is a fold over the
  sheet's rows, so its type needs an induction over data, and the library's induction theorems are out
  of the provers' reach. `SumsExist` and `SumsTyped` are inductions by least counterexample instead: were there
  a number of rows for which the fold has no value, or one that is no integer, there would be a smallest
  (`Least`, from the library's well-founded minimum), and the fold over so many is one row more than over one
  fewer. The fold is the community modules' own definition, the one TLC evaluates.

`BookingsProofs` proves, under its `ConstantsAssumption` and `StartAssumption`, for any number of transactions,
children, slots, seats, tutors and rows:

* `Invariant`: `Spec => []Inv`. A property of the rows alone is not inductive here, for what a
  transaction writes was checked many steps before. So `Inv` says of every transaction, in every
  stage, that its fields name rows there are; which locks it has or has still to take; and that what
  it has read or checked under a lock it has is *still* so: the seat it chose is free, the child is not
  booked, the tutor's time is free, the account active, the invitation open. Two transactions have no lock in common
  (`LocksExclusive`). A step of one worker touches only rows whose lock it has, so what another has
  checked survives it; and a commit keeps the rules of the rows (`RowsRight`) because what was checked is so.
* From it `AlwaysTyped`, `SeatsHeldOnce`, `LeadsInOnePlace`, `LiveHaveActiveTutors`, `MovedAreReplaced`,
  `InvitesUsedOnce`, `OneRedemoEach`, and the action property `StartedAreKept`. `TutorsInOnePlace` is
  of instances in which no class is saved whole from a stale read (`edit_class \notin Ops`): it is false with it.
* `AppointmentsAsPromised`: `Spec => ImplementsAppointments`, the refinement described below, of every instance.
  An assignment, a Re-Demo or a move may be refused by the abstract tutor only for another booking, not for a
  class, so unlike `TutorsInOnePlace` it needs no condition on `edit_class`: `TutorChecked` keeps apart what is
  still so of the bookings (`NoBookingThen`) and of the classes. That a clerk would have written the same took
  more of the invariant than the rules of the rows did: that what is to be started has a tutor and has not begun,
  that what is reported on has, that a Re-Demo's slot is a Demo's.
* `NeverCircularWait`, of instances without the link change (false with it): what a
  transaction has still to take comes after all that it has, in one order of all locks (`OrderInv`). A
  set of transactions that all wait for one of the set would have one that waits for the last of the locks waited for,
  and whose holder waits for one later still.

`AppointmentBook` says what the bookings come to once the transactions are forgotten. An appointment's card is
its row without the link, the way and the day it was made; `teaching` are the accounts that may be given bookings.
There are no locks, nothing is read before it is written, and no step is half done: each action looks up in the
book, as it writes, all that it depends on. A commit is the action of its name (`create_booking` and an invitation's
use are both `Make`; `schedule_redemo` is `Repeat`, `request_redemo` is `AskAgain`, a parent's answer `Confirm` or
`Decline`, a move closes one card and makes another in one step), the change of an account is `Reinstate` or
`Retire`, and the clock is `Passes`. Whatever begins, waits, checks, is refused or gives up stutters, and so do
links, slots closed, invitations and classes, which are not in the book. It is what `StartedStays` says of one
booking, said of all of every step: what another transaction changed meanwhile is never written over.

`TuitionProofs` proves, under `TuitionAssumption` and `StartAssumption`, for any students, staff, classes and
transactions:

* `Invariant`: `Spec => []Inv`, of the same kind: types, exclusive locks, `RowsRight`, and of each
  transaction what it is about (`Shaped...`), which locks it has or wants (`Locks...`), and that what it
  checked of the student's time (`StudentChecked`), the tutor's (`TutorChecked`) and the accounts
  (`StaffChecked`) is still so. One lemma carries the rest (`CheckedStays`): what a step of another worker
  writes (`Written`) lies within its locks.
* From it `StudentsAreInOnePlace`, unless links are edited from a stale read (`NoLinkEdits`);
  `TutorsAreInOnePlace`, unless classes come by one of the three ways above (`OnlyFitted`);
  `StaffOfStudents`, unless profiles are saved whole (`NoProfiles`). Each condition is of the operations
  an instance has, and each is needed: beside the others those operations make the property false, as
  said under "seen while modelling", and TLC's situations do not bring them together.
* `DeadlocksByMentors` (`DeadlockOnlyByMentors`), of every instance, from `OrderInv`. There is no one order of all locks:
  a hand-over of one student has the student's row as it locks the accounts, that of all of a mentor's students
  has the accounts as it locks the rows, and takes those in any order. So `OrderInv` says of each transaction which is not
  updating the rows of all of somebody's students that it takes its locks in turn: with the rows before the
  mentors' accounts, and also with the rows after them, unless it hands over one student to a new mentor.
  An update of students who are only taught is in no circle, because whoever else takes such a row
  needs the student's advisory lock first, which it holds (`TaughtOutOfCircles`). An update of a mentor's students waits for
  a row, the last kind of lock in the second order: whoever has the row is another bulk update, or a
  hand-over of one that reaches for an account (`MentoredWaitsLast`). A circle without such an update has
  the first order, and in it somebody waits for the last of the locks waited for. Tutors' accounts fit neither
  order, and need not: who has one has the tutor's schedule too, so that of those in a circle only a
  change of accounts could wait for it (`NotForTutor`). The share locks foreign keys take are left out.

`LocksProofs` proves, under `MessageLocksAssumption` and `MessagesStartAssumption`, for any number of transactions,
messages and bookings, and any order of the ids:

* `LeadInvariant`: `SpecMessages => []LeadInv`: what each transaction is about; which of the lead's rows it has or is
  still to lock, so that no two have one; and that what it has chosen and read of them is still so. What another
  writes lies within its own locks, so what was found stays (`FoundStays`).
* `HoldsRowByRow` (`RowByRow`): what `Communications` shows of whole transactions holds when they take turns on rows.
  A change that closes a booking waits for the sender that is handing a message over and looks at it again; a sender
  writes under the lock of its message what no other lets it be wrong about.
* `CirclesBySettling` (`CirclesOnlyBySettling`), from `OrderInv`: until it has gone further, a transaction takes bookings
  before messages before steps, and messages and steps by id.

Only model-checked: liveness (`ReadyGoes`, `ReportsApplied`, `AllSettles`, `QuotaFollowsSheet`), which the
prover does not reach. Every invariant and every action property of a passing run is a theorem.

## Plan

Done: `Communications` with the abstract `Delivery`, `MessageLocks`, `Bookings` with the abstract
`AppointmentBook`, `Tuition`, `Accounts`, `Enrolment`, `Schoolwork`, `Reports` with the abstract `ReportHistory`,
and their instances; the proofs above. What is left:

1. First attribution and the transfer of leads.

## Not modelled

Text (templates, formatting, phone numbers), the provider's HTTP client and webhook parsing, Google's
tokens, screens and serialisers, permissions as tables, PDF layout, the schedule of offered times,
lead matching, the activity log, and the two frontends: none changes the state the properties speak of.
That a chapter exam is put over a class, which the code checks with no lock, and credits, which two
requests may overdraw together, are checked by the code as read and nothing is claimed of them. Most
lines of the repository are tests, screens, serialisers and migrations.
