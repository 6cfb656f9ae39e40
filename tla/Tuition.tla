------------------------------ MODULE Tuition -------------------------------
(***************************************************************************)
(* The classes of enrolled students: src/backend/sessions, the hand-overs  *)
(* of src/backend/students and src/backend/accounts, and the deactivation  *)
(* of staff.  Mentors schedule classes and series for a student and the    *)
(* student's tutor, change and cancel them, and students, with the classes *)
(* still to be taught, are handed from one mentor or tutor to another.     *)
(*                                                                         *)
(* As in Bookings an operation is a transaction of a worker that reads,    *)
(* takes its locks one at a time, checks, and writes as it commits; but    *)
(* here much is read before any lock, some writes take none, and rows are  *)
(* saved whole, as they were read.                                         *)
(***************************************************************************)
EXTENDS Integers, Sequences, FiniteSets, FiniteSetsExt, SequencesExt, Relation

CONSTANTS
    Workers,   \* what runs transactions: request handlers
    Students,  \* keys of Student rows, numbers: locks are taken in their order
    Mentors, Tutors,
    Classes,   \* keys of Session rows, numbers, in the order they are made
    None,
    Windows,   \* the times a class may be asked for: [start, end] records
    Requests,  \* what a mentor may ask to be scheduled at once: sequences of windows
    Changes,   \* what may be asked of a class at once: [status, time] records, a time or None
    Handovers, \* whom a hand-over may name: [mentor, tutor] records, each or None
    Quota,     \* [Students -> Nat]: Student.total_class_quota, in the unit of the windows
    Exams,     \* [Students -> SUBSET Windows]: the student's scheduled exams
    Now,       \* the clock: what holds of the classes to come holds as some of them pass
    AtStart    \* the rows there may be when it begins, and what may then be done

Staff == Mentors \cup Tutors

\* Half-open: touching windows do not overlap
Overlap(a, b) == a.start < b.end /\ b.start < a.end

Operations ==
    {"create", "update_session", "change_tutor", "edit_session", "cancel_series", "reassign",
     "reassign_all", "deactivate", "reactivate", "edit_student", "assign_booking"}

\* A Session row; a series is named by its first class
NoClass == [status |-> "ABSENT", student |-> None, tutor |-> None, start |-> 0, end |-> 0,
            series |-> None, number |-> 0]

ClassRows ==
    [status : {"ABSENT", "SCHEDULED", "ATTENDED", "CANCELLED"}, student : Students \cup {None},
     tutor : Tutors \cup {None}, start : Nat, end : Nat, series : Classes \cup {None}, number : Nat]

StudentRows ==
    [status : {"ACTIVE", "INACTIVE"}, mentor : Mentors \cup {None}, tutor : Tutors \cup {None}]

\* A live Demo or Diagnostic booking with a tutor
BookingRows == [tutor : Tutors, start : Nat, end : Nat]

ASSUME TuitionAssumption ==
    /\ IsFiniteSet(Workers)
    /\ IsFiniteSet(Students) /\ Students \subseteq Nat
    /\ IsFiniteSet(Classes) /\ Classes \subseteq Nat
    /\ Mentors \cap Tutors = {}
    /\ None \notin Students \cup Staff \cup Classes /\ None \notin Operations
    /\ \A time \in Windows : time \in [start : Nat, end : Nat] /\ time.start < time.end
    /\ Requests \subseteq Seq(Windows) \ {<<>>}
    /\ Changes \subseteq [status : {"SCHEDULED", "ATTENDED", "CANCELLED"}, time : Windows \cup {None}]
    /\ Handovers \subseteq [mentor : Mentors \cup {None}, tutor : Tutors \cup {None}]
    /\ Quota \in [Students -> Nat]
    /\ Exams \in [Students -> SUBSET Windows]
    /\ Now \in Nat
    /\ AtStart \subseteq [session : [Classes -> ClassRows], student : [Students -> StudentRows],
                          bookings : SUBSET BookingRows, ops : SUBSET Operations, left : Nat]

\* What is true of the rows when it begins: a class has a student, the classes of a series have
\* one, and nobody is in two places at once
Apart(c, d) ==
    c.status = "SCHEDULED" /\ d.status = "SCHEDULED" /\ Overlap(c, d) =>
        /\ c.student # d.student
        /\ c.tutor # d.tutor \/ c.tutor = None \/ c.end <= Now \/ d.end <= Now

SeriesAgrees(c, rows) ==
    /\ rows[c].student # None
    /\ rows[c].series # None =>
          /\ rows[rows[c].series].status # "ABSENT"
          /\ \A d \in Classes :
                rows[d].status # "ABSENT" /\ rows[d].series = rows[c].series => rows[d].student = rows[c].student

RealRows(rows, booked) ==
    \A c \in Classes :
        /\ rows[c].status # "ABSENT" => SeriesAgrees(c, rows)
        /\ \A d \in Classes \ {c} : Apart(rows[c], rows[d])
        /\ rows[c].status = "SCHEDULED" /\ rows[c].end > Now =>
              \A b \in booked : b.tutor = rows[c].tutor => ~Overlap(b, rows[c])

ASSUME StartAssumption == \A begin \in AtStart : RealRows(begin.session, begin.bookings)

VARIABLES
    session,   \* Session rows
    student,   \* Student rows
    active,    \* accounts of Staff that are active
    bookings,  \* the live bookings tutors have
    txn,       \* what each worker's transaction is doing
    ops,       \* the operations of this instance: chosen at the start, never changed
    left       \* bound: how many of them it may still begin

tables == <<session, student, active, bookings>>
vars == <<tables, txn, ops, left>>

\* No transaction: its operation, what it is about and as whom it was read, the rows it has read
\* and will save, and the locks it has and has still to take
NoTxn == [op |-> None, stage |-> None, student |-> None, tutor |-> None, mentor |-> None,
          from |-> None, class |-> None, row |-> NoClass, later |-> [c \in {} |-> NoClass],
          pupil |-> None, pupils |-> {}, items |-> <<>>, timed |-> FALSE, need |-> <<>>, held |-> {}]

Init ==
    /\ \E begin \in AtStart :
          /\ session = begin.session /\ student = begin.student
          /\ bookings = begin.bookings /\ ops = begin.ops /\ left = begin.left
    /\ active = Staff
    /\ txn = [w \in Workers |-> NoTxn]

(***************************************************************************)
(* What the code reads                                                     *)
(***************************************************************************)
Exists(c) == session[c].status # "ABSENT"
Scheduled == {c \in Classes : session[c].status = "SCHEDULED"}

Hours(time) == time.end - time.start

\* calculate_credits_used
CreditsUsed(s) ==
    MapThenSumSet(LAMBDA c : Hours(session[c]),
                  {c \in Classes : session[c].student = s /\ session[c].status # "CANCELLED"})

CreditsAsked(items) == FoldSeq(LAMBDA time, sum : sum + Hours(time), 0, items)

\* find_internal_overlap
InternalOverlap(items) ==
    \E i, j \in DOMAIN items : i # j /\ Overlap(items[i], items[j])

\* find_conflict: an ATTENDED or CANCELLED class does not block
Conflict(s, t, time, except) ==
    \E c \in Scheduled \ {except} :
        /\ session[c].student = s \/ (t # None /\ session[c].tutor = t)
        /\ Overlap(session[c], time)

BookingConflict(t, time) == \E b \in bookings : b.tutor = t /\ Overlap(b, time)

ExamConflict(s, time) == \E exam \in Exams[s] : Overlap(exam, time)

OpenClasses(ss) == {c \in Scheduled : session[c].student \in ss}

\* find_handover_conflict: the moving classes not over yet, against what else the tutor has
HandoverConflict(moving, t) ==
    \E c \in moving :
        /\ session[c].end > Now
        /\ \/ \E other \in Scheduled \ moving : session[other].tutor = t /\ Overlap(session[other], session[c])
           \/ BookingConflict(t, session[c])

\* active_student_count: the students a mentor or tutor has
ActiveOf(u) == {s \in Students : student[s].status = "ACTIVE" /\ u \in {student[s].mentor, student[s].tutor}}

MentoredBy(u) == {s \in ActiveOf(u) : student[s].mentor = u}
TaughtBy(u) == {s \in ActiveOf(u) : student[s].tutor = u}

UpcomingAssignments(u) == {b \in bookings : b.tutor = u /\ b.end > Now}

-----------------------------------------------------------------------------
(***************************************************************************)
(* Transactions                                                            *)
(***************************************************************************)
StudentLock(s) == <<"student", s>>
ScheduleLock(t) == <<"schedule", t>>
RowLock(s) == <<"row", s>>
AccountLock(u) == <<"account", u>>
TeamLock == <<"team", None>>

Given(lock, x) == IF x = None THEN <<>> ELSE <<lock>>

\* Mutants of LockScheduling: the tutor first, or only the tutor
LockTutorFirst(s, t) == Given(ScheduleLock(t), t) \o <<StudentLock(s)>>
LockTutorOnly(s, t) == Given(ScheduleLock(t), t)

LockScheduling(s, t) == <<StudentLock(s)>> \o Given(ScheduleLock(t), t)

\* The one order of students in which their locks are taken
InOrder(ss) ==
    {order \in [1 .. Cardinality(ss) -> ss] : \A m, n \in DOMAIN order : m < n => order[m] < order[n]}

Begins(w, x) ==
    /\ txn[w] = NoTxn
    /\ x.op \in ops
    /\ left > 0 /\ left' = left - 1
    /\ txn' = [txn EXCEPT ![w] = x]
    /\ UNCHANGED <<tables, ops>>

Free(lock, w) == \A other \in Workers \ {w} : lock \notin txn[other].held

TakeLock(w) ==
    /\ txn[w].need # <<>>
    /\ Free(Head(txn[w].need), w)
    /\ txn' = [txn EXCEPT ![w].need = Tail(@), ![w].held = @ \cup {Head(txn[w].need)}]
    /\ UNCHANGED <<tables, ops, left>>

\* Whom a transaction waits for
Waits(v, w) == v # w /\ txn[v].need # <<>> /\ Head(txn[v].need) \in txn[w].held
WaitsFor == [v, w \in Workers |-> Waits(v, w)]

InCircle(w) ==
    txn[w].need # <<>> /\ ~Free(Head(txn[w].need), w) /\ TransitiveClosure(WaitsFor, Workers)[w, w]

\* No lock times out here; of those that wait in a circle PostgreSQL fails one
DeadlockBroken(w) ==
    /\ InCircle(w)
    /\ txn' = [txn EXCEPT ![w] = NoTxn]
    /\ UNCHANGED <<tables, ops, left>>

HasLocks(w, op, stage) == txn[w].op = op /\ txn[w].stage = stage /\ txn[w].need = <<>>

\* Goes on as decided, or is refused
Decides(w, accepted, decided) ==
    /\ txn' = [txn EXCEPT ![w] = IF accepted THEN decided ELSE NoTxn]
    /\ UNCHANGED <<tables, ops, left>>

Commits(w, op) ==
    /\ HasLocks(w, op, "writing")
    /\ txn' = [txn EXCEPT ![w] = NoTxn]
    /\ UNCHANGED <<ops, left>>

Writing(x) == [x EXCEPT !.stage = "writing"]

\* Bound: rows are left for each transaction that is to make some
RowsToMake(w) ==
    IF txn[w].op = "create" THEN Len(txn[w].items)
    ELSE IF txn[w].op = "cancel_series" /\ txn[w].items # <<>> THEN 1 ELSE 0

Absent == {c \in Classes : ~Exists(c)}

RoomFor(n) == n + MapThenSumSet(RowsToMake, Workers) <= Cardinality(Absent)

\* The next n classes made, in order
NewClasses(n) ==
    {new \in [1 .. n -> Absent] : \A i \in 1 .. n : Cardinality({c \in Absent : c < new[i]}) = i - 1}

-----------------------------------------------------------------------------
(***************************************************************************)
(* Scheduling and changing classes                                         *)
(***************************************************************************)
\* The student, the tutor and the credits left are read before any lock
CreateSessions(w, s, items) ==
    /\ student[s].tutor \in active
    /\ CreditsAsked(items) + CreditsUsed(s) <= Quota[s]
    /\ ~InternalOverlap(items)
    /\ RoomFor(Len(items))
    /\ Begins(w, [NoTxn EXCEPT !.op = "create", !.stage = "first", !.student = s,
                               !.tutor = student[s].tutor, !.items = items,
                               !.need = LockScheduling(s, student[s].tutor)])

CheckCreate(w) ==
    LET x == txn[w]
    IN  /\ HasLocks(w, "create", "first")
        /\ Decides(w, \A i \in DOMAIN x.items :
                          /\ ~Conflict(x.student, x.tutor, x.items[i], None)
                          /\ ~BookingConflict(x.tutor, x.items[i])
                          /\ ~ExamConflict(x.student, x.items[i]),
                   Writing(x))

\* A series numbers its classes from 1
WriteCreate(w) ==
    LET x == txn[w]
        count == Len(x.items)
    IN  /\ Commits(w, "create")
        /\ \E new \in NewClasses(count) :
              session' = [c \in Classes |->
                  IF \E i \in 1 .. count : new[i] = c
                  THEN LET i == CHOOSE i \in 1 .. count : new[i] = c
                       IN  [status |-> "SCHEDULED", student |-> x.student, tutor |-> x.tutor,
                            start |-> x.items[i].start, end |-> x.items[i].end,
                            series |-> IF count = 1 THEN None ELSE new[1],
                            number |-> IF count = 1 THEN 0 ELSE i]
                  ELSE session[c]]
        /\ UNCHANGED <<student, active, bookings>>

\* A change of status, of time or of tutor, or none (its links or title), to the row as it is read.
\* It is checked only if it takes time anew: another time, another tutor, or SCHEDULED again
UpdateSession(w, c, status, time, t) ==
    LET old == session[c]
        new == [old EXCEPT !.status = status, !.tutor = t,
                           !.start = IF time = None THEN @ ELSE time.start,
                           !.end = IF time = None THEN @ ELSE time.end]
        checked == \/ time # None \/ t # old.tutor
                   \/ (status = "SCHEDULED" /\ old.status # "SCHEDULED")
    IN  /\ Exists(c)
        /\ t # old.tutor => old.status = "SCHEDULED" /\ t \in active \cup {None}
        /\ checked /\ status = "SCHEDULED" => t \in active \cup {None}
        /\ Begins(w, [NoTxn EXCEPT
              !.op = IF t # old.tutor THEN "change_tutor"
                     ELSE IF status = old.status /\ time = None THEN "edit_session" ELSE "update_session",
              !.stage = IF checked THEN "first" ELSE "writing",
              !.class = c, !.row = new, !.timed = time # None,
              !.need = IF checked THEN LockScheduling(old.student, t) ELSE <<>>])

CheckUpdate(w) ==
    LET x == txn[w]
    IN  /\ x.op \in {"update_session", "change_tutor"} /\ HasLocks(w, x.op, "first")
        /\ Decides(w, /\ ~Conflict(x.row.student, x.row.tutor, x.row, x.class)
                      /\ x.row.status = "SCHEDULED" => ~BookingConflict(x.row.tutor, x.row)
                      /\ x.timed => ~ExamConflict(x.row.student, x.row),
                   Writing(x))

\* The row is saved whole
WriteUpdate(w) ==
    LET x == txn[w]
    IN  /\ x.op \in {"update_session", "change_tutor", "edit_session"} /\ Commits(w, x.op)
        /\ session' = [session EXCEPT ![x.class] = x.row]
        /\ UNCHANGED <<student, active, bookings>>

\* The classes of a series after one of them
Subsequent(row) ==
    {c \in Scheduled : row.series # None /\ session[c].series = row.series /\ session[c].number > row.number}

\* A class with none after it is only cancelled; otherwise a make-up class is asked for
CancelSeries(w, c, time) ==
    LET row == session[c]
        x == [NoTxn EXCEPT !.op = "cancel_series", !.class = c, !.student = row.student,
                           !.row = [row EXCEPT !.status = "CANCELLED"]]
    IN  /\ row.status = "SCHEDULED"
        /\ IF Subsequent(row) = {}
           THEN time = None /\ Begins(w, Writing(x))
           ELSE LET t == student[row.student].tutor
                IN  /\ time # None
                    /\ t \in active \cup {None}
                    /\ RoomFor(1)
                    /\ Begins(w, [x EXCEPT !.stage = "first", !.items = <<time>>, !.tutor = t,
                                           !.need = LockScheduling(row.student, t)])

\* The later classes are read here, to be saved whole with their new numbers
CheckCancelSeries(w) ==
    LET x == txn[w]
        later == Subsequent(x.row) \ {x.class}
    IN  /\ HasLocks(w, "cancel_series", "first")
        /\ Decides(w, /\ ~Conflict(x.student, x.tutor, x.items[1], x.class)
                      /\ ~BookingConflict(x.tutor, x.items[1])
                      /\ ~ExamConflict(x.student, x.items[1])
                      /\ later # {},
                   [Writing(x) EXCEPT !.later = [c \in later |-> session[c]]])

\* The make-up class takes the number of the last
WriteCancelSeries(w) ==
    LET x == txn[w]
        Saved(c) == IF c = x.class THEN x.row
                    ELSE IF c \in DOMAIN x.later THEN [x.later[c] EXCEPT !.number = @ - 1]
                    ELSE session[c]
    IN  /\ Commits(w, "cancel_series")
        /\ \/ /\ x.items = <<>>
              /\ session' = [c \in Classes |-> Saved(c)]
           \/ \E new \in NewClasses(1), last \in DOMAIN x.later :
                 /\ x.items # <<>>
                 /\ \A c \in DOMAIN x.later : x.later[c].number <= x.later[last].number
                 /\ session' = [c \in Classes |->
                       IF c = new[1]
                       THEN [status |-> "SCHEDULED", student |-> x.student, tutor |-> x.tutor,
                             start |-> x.items[1].start, end |-> x.items[1].end,
                             series |-> x.row.series, number |-> x.later[last].number]
                       ELSE Saved(c)]
        /\ UNCHANGED <<student, active, bookings>>

-----------------------------------------------------------------------------
(***************************************************************************)
(* Handing students over                                                   *)
(***************************************************************************)
\* One student; None unassigns
Reassign(w, s, m, t) ==
    Begins(w, [NoTxn EXCEPT !.op = "reassign", !.stage = "first", !.student = s, !.mentor = m, !.tutor = t,
                            !.need = Append(LockScheduling(s, t), RowLock(s))])

\* Mutant of CheckReassign: the replacements' accounts are not locked
CheckReassignUnlocked(w) ==
    LET x == txn[w]
        old == student[x.student]
    IN  /\ HasLocks(w, "reassign", "first")
        /\ Decides(w, x.mentor # old.mentor \/ x.tutor # old.tutor, [x EXCEPT !.stage = "staff", !.pupil = old])

\* The student as read under its row's lock; the replacements' accounts are locked next
CheckReassign(w) ==
    LET x == txn[w]
        old == student[x.student]
    IN  /\ HasLocks(w, "reassign", "first")
        /\ Decides(w, x.mentor # old.mentor \/ x.tutor # old.tutor,
                   [x EXCEPT !.stage = "staff", !.pupil = old,
                             !.need = (IF x.mentor # old.mentor THEN Given(AccountLock(x.mentor), x.mentor) ELSE <<>>)
                                   \o (IF x.tutor # old.tutor THEN Given(AccountLock(x.tutor), x.tutor) ELSE <<>>)])

\* Mutant of CheckReassignStaff: the classes that move are not fitted into the tutor's
CheckReassignAnyTime(w) ==
    LET x == txn[w]
    IN  /\ HasLocks(w, "reassign", "staff")
        /\ Decides(w, {x.mentor, x.tutor} \subseteq active \cup {None}, Writing(x))

CheckReassignStaff(w) ==
    LET x == txn[w]
    IN  /\ HasLocks(w, "reassign", "staff")
        /\ Decides(w, /\ x.mentor # x.pupil.mentor => x.mentor \in active \cup {None}
                      /\ x.tutor \notin {x.pupil.tutor, None} =>
                            x.tutor \in active /\ ~HandoverConflict(OpenClasses({x.student}), x.tutor),
                   Writing(x))

\* Open classes follow the student; update_fields: only what changed is saved
WriteReassign(w) ==
    LET x == txn[w]
    IN  /\ Commits(w, "reassign")
        /\ session' = [c \in Classes |->
              IF x.tutor # x.pupil.tutor /\ c \in OpenClasses({x.student})
              THEN [session[c] EXCEPT !.tutor = x.tutor] ELSE session[c]]
        /\ student' = [student EXCEPT
              ![x.student].mentor = IF x.mentor # x.pupil.mentor THEN x.mentor ELSE @,
              ![x.student].tutor = IF x.tutor # x.pupil.tutor THEN x.tutor ELSE @]
        /\ UNCHANGED <<active, bookings>>

\* Every ACTIVE student of one who leaves; whose classes move is read before the locks
ReassignAll(w, u, m, t) ==
    \E order \in InOrder(TaughtBy(u)) :
        Begins(w, [NoTxn EXCEPT !.op = "reassign_all", !.stage = "first", !.from = u, !.mentor = m, !.tutor = t,
                                !.pupils = TaughtBy(u),
                                !.need = IF TaughtBy(u) = {} THEN <<>>
                                         ELSE [n \in DOMAIN order |-> StudentLock(order[n])]
                                                \o Given(ScheduleLock(t), t)])

\* Those of them still the leaver's
TutorStudents(x) == TaughtBy(x.from) \cap x.pupils

\* Who is needed and not given is refused; who is given and not needed is left out
CheckReassignAll(w) ==
    LET x == txn[w]
        mentor == IF MentoredBy(x.from) = {} THEN None ELSE x.mentor
        tutor == IF TutorStudents(x) = {} THEN None ELSE x.tutor
    IN  /\ HasLocks(w, "reassign_all", "first")
        /\ Decides(w, /\ MentoredBy(x.from) # {} => x.mentor # None
                      /\ TutorStudents(x) # {} => x.tutor # None,
                   [x EXCEPT !.stage = "staff", !.mentor = mentor, !.tutor = tutor,
                             !.need = Given(AccountLock(mentor), mentor) \o Given(AccountLock(tutor), tutor)])

\* The rows of the students are locked last, as they are updated: the mentor's and then the tutor's, by an update
\* each, which comes to them in any order
CheckReassignAllStaff(w) ==
    LET x == txn[w]
        mentored == IF x.mentor = None THEN {} ELSE MentoredBy(x.from)
        taught == IF x.tutor = None THEN {} ELSE TutorStudents(x)
    IN  /\ HasLocks(w, "reassign_all", "staff")
        /\ \E order \in SetToSeqs(mentored), next \in SetToSeqs(taught) :
              Decides(w, /\ {x.mentor, x.tutor} \subseteq active \cup {None}
                         /\ x.tutor # None => ~HandoverConflict(OpenClasses(TutorStudents(x)), x.tutor),
                      [Writing(x) EXCEPT !.need = [n \in DOMAIN order |-> RowLock(order[n])]
                                                  \o [n \in DOMAIN next |-> RowLock(next[n])]])

WriteReassignAll(w) ==
    LET x == txn[w]
        taught == IF x.tutor = None THEN {} ELSE TutorStudents(x)
        mentored == IF x.mentor = None THEN {} ELSE MentoredBy(x.from)
    IN  /\ Commits(w, "reassign_all")
        /\ session' = [c \in Classes |->
              IF c \in OpenClasses(taught) THEN [session[c] EXCEPT !.tutor = x.tutor] ELSE session[c]]
        /\ student' = [s \in Students |->
              [student[s] EXCEPT !.mentor = IF s \in mentored THEN x.mentor ELSE @,
                                 !.tutor = IF s \in taught THEN x.tutor ELSE @]]
        /\ UNCHANGED <<active, bookings>>

\* Status and profile: the row is read, changed and saved whole
EditStudent(w, s, status) ==
    Begins(w, [NoTxn EXCEPT !.op = "edit_student", !.stage = "writing", !.student = s,
                            !.pupil = [student[s] EXCEPT !.status = status], !.need = <<RowLock(s)>>])

WriteStudent(w) ==
    /\ Commits(w, "edit_student")
    /\ student' = [student EXCEPT ![txn[w].student] = txn[w].pupil]
    /\ UNCHANGED <<session, active, bookings>>

-----------------------------------------------------------------------------
(***************************************************************************)
(* Staff, and their bookings                                               *)
(***************************************************************************)
Deactivate(w, u) ==
    Begins(w, [NoTxn EXCEPT !.op = "deactivate", !.stage = "first", !.from = u,
                            !.need = <<TeamLock, AccountLock(u)>>])

CheckDeactivate(w) ==
    LET u == txn[w].from
    IN  /\ HasLocks(w, "deactivate", "first")
        /\ Decides(w, u \in active /\ ActiveOf(u) = {} /\ UpcomingAssignments(u) = {}, Writing(txn[w]))

WriteDeactivate(w) ==
    /\ Commits(w, "deactivate")
    /\ active' = active \ {txn[w].from}
    /\ UNCHANGED <<session, student, bookings>>

Reactivate(w, u) ==
    Begins(w, [NoTxn EXCEPT !.op = "reactivate", !.stage = "writing", !.from = u,
                            !.need = <<TeamLock, AccountLock(u)>>])

WriteReactivate(w) ==
    /\ Commits(w, "reactivate")
    /\ active' = active \cup {txn[w].from}
    /\ UNCHANGED <<session, student, bookings>>

\* A booking gets a tutor: assign_tutor of Bookings, as far as classes are concerned
AssignBooking(w, t, time) ==
    Begins(w, [NoTxn EXCEPT !.op = "assign_booking", !.stage = "first", !.tutor = t, !.items = <<time>>,
                            !.need = <<ScheduleLock(t), AccountLock(t)>>])

CheckAssignBooking(w) ==
    LET x == txn[w]
    IN  /\ HasLocks(w, "assign_booking", "first")
        /\ Decides(w, /\ x.tutor \in active
                      /\ ~Conflict(None, x.tutor, x.items[1], None)
                      /\ ~BookingConflict(x.tutor, x.items[1]),
                   Writing(x))

WriteAssignBooking(w) ==
    LET x == txn[w]
    IN  /\ Commits(w, "assign_booking")
        /\ bookings' = bookings \cup {[tutor |-> x.tutor, start |-> x.items[1].start, end |-> x.items[1].end]}
        /\ UNCHANGED <<session, student, active>>

-----------------------------------------------------------------------------
(***************************************************************************)
(* Next                                                                    *)
(***************************************************************************)
BeginsClass(w) ==
    \/ \E s \in Students, items \in Requests : CreateSessions(w, s, items)
    \/ \E c \in Classes, change \in Changes, t \in Tutors \cup {None} :
          UpdateSession(w, c, change.status, change.time, t)
    \/ \E c \in Classes, time \in Windows \cup {None} : CancelSeries(w, c, time)

BeginsStaff(w) ==
    \/ \E to \in Handovers :
          \/ \E s \in Students : Reassign(w, s, to.mentor, to.tutor)
          \/ \E u \in Staff : ReassignAll(w, u, to.mentor, to.tutor)
    \/ \E u \in Staff : Deactivate(w, u) \/ Reactivate(w, u)
    \/ \E s \in Students, status \in {"ACTIVE", "INACTIVE"} : EditStudent(w, s, status)
    \/ \E t \in Tutors, time \in Windows : AssignBooking(w, t, time)

Checks(w) ==
    \/ CheckCreate(w) \/ CheckUpdate(w) \/ CheckCancelSeries(w) \/ CheckReassign(w)
    \/ CheckReassignStaff(w) \/ CheckReassignAll(w) \/ CheckReassignAllStaff(w)
    \/ CheckDeactivate(w) \/ CheckAssignBooking(w)

Writes(w) ==
    \/ WriteCreate(w) \/ WriteUpdate(w) \/ WriteCancelSeries(w) \/ WriteReassign(w)
    \/ WriteReassignAll(w) \/ WriteStudent(w) \/ WriteDeactivate(w) \/ WriteReactivate(w)
    \/ WriteAssignBooking(w)

Next ==
    \/ \E w \in Workers :
          \/ BeginsClass(w) \/ BeginsStaff(w) \/ TakeLock(w) \/ DeadlockBroken(w)
          \/ Checks(w) \/ Writes(w)

Spec == Init /\ [][Next]_vars

-----------------------------------------------------------------------------
(***************************************************************************)
(* Properties                                                              *)
(***************************************************************************)
(* "Two requests racing each other can both see an empty slot and both write into it": no        *)
(* student has two classes at a time, whatever is scheduled, moved, put back, swapped or made    *)
(* up for at once.                                                                               *)
StudentInOnePlace ==
    \A c, d \in Scheduled : c # d /\ session[c].student = session[d].student => ~Overlap(session[c], session[d])

(* "Tuition is one-to-one": of what is still to be taught no tutor has two classes, or a class   *)
(* and a booking, at a time, though classes also come to a tutor with the students handed over.  *)
TutorInOnePlace ==
    \A c \in Scheduled :
        session[c].tutor # None /\ session[c].end > Now =>
            /\ \A d \in Scheduled \ {c} :
                  session[d].tutor = session[c].tutor /\ session[d].end > Now => ~Overlap(session[c], session[d])
            /\ ~BookingConflict(session[c].tutor, session[c])

(* Deactivation "waits until the account's ACTIVE students are handed over": however students    *)
(* are handed to staff while these are deactivated, none is left with one who has gone.          *)
StudentsHaveActiveStaff ==
    \A s \in Students :
        student[s].status = "ACTIVE" => {student[s].mentor, student[s].tutor} \subseteq active \cup {None}

(* "Keys are taken in a fixed order so two requests sharing both parties cannot deadlock": of    *)
(* transactions that all wait for others of them, however many, one updates the rows of all of a *)
(* mentor's students, and another updates all of someone's students as well, or hands over one   *)
(* and holds the row as it reaches for the new mentor's account.                                 *)
DeadlockOnlyByMentors ==
    \A set \in (SUBSET Workers) \ {{}} :
        (\A v \in set : \E w \in set : Waits(v, w)) =>
            \E v, w \in set :
                /\ v # w
                /\ txn[v].op = "reassign_all" /\ txn[v].stage = "writing" /\ txn[v].mentor # None
                /\ \/ txn[w].op = "reassign_all" /\ txn[w].stage = "writing"
                   \/ txn[w].op = "reassign" /\ txn[w].stage = "staff" /\ txn[w].mentor # txn[w].pupil.mentor

=============================================================================
