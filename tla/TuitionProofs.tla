--------------------------- MODULE TuitionProofs ----------------------------
(***************************************************************************)
(* What TLAPS proves of Tuition, for any number of workers, students,      *)
(* staff, classes and times: which operations keep a student, a tutor and  *)
(* the staff of a student as they should be, however many of them run at   *)
(* once.                                                                   *)
(*                                                                         *)
(* The inductive invariant says of every transaction which locks it has or *)
(* has still to take, and that what it has checked is still true.  A step  *)
(* of another worker writes only what that worker has locked, except for   *)
(* the rows that are saved whole without a lock; every theorem names the   *)
(* operations it does without.                                             *)
(***************************************************************************)
EXTENDS Tuition, FiniteSetTheorems, SequenceTheorems, WellFoundedInduction, TLAPS

\* The operations that save rows as they were read, without a lock, or move classes unchecked
NoLinkEdits == "edit_session" \notin ops
NoProfiles == "edit_student" \notin ops
OnlyFitted == ops \cap {"edit_session", "cancel_series", "reassign_all"} = {}

-----------------------------------------------------------------------------
(***************************************************************************)
(* The inductive invariant                                                 *)
(***************************************************************************)
Locks ==
    ({"student", "row"} \X Students) \cup ({"schedule"} \X Tutors) \cup ({"account"} \X Staff) \cup {TeamLock}

Transactions ==
    [op : Operations \cup {None}, stage : {None, "first", "staff", "writing"},
     student : Students \cup {None}, tutor : Tutors \cup {None}, mentor : Mentors \cup {None},
     from : Staff \cup {None}, class : Classes \cup {None}, row : ClassRows,
     later : UNION {[cs -> ClassRows] : cs \in SUBSET Classes}, pupil : StudentRows \cup {None},
     pupils : SUBSET Students, items : Seq(Windows), timed : BOOLEAN,
     need : Seq(Locks), held : SUBSET Locks]

RowsTyped ==
    /\ session \in [Classes -> ClassRows]
    /\ student \in [Students -> StudentRows]
    /\ active \subseteq Staff
    /\ bookings \subseteq BookingRows
    /\ ops \subseteq Operations

Typed == RowsTyped /\ txn \in [Workers -> Transactions]

\* Advisory locks and rows are one transaction's at a time
LocksExclusive == \A v, w \in Workers : v # w => txn[v].held \cap txn[w].held = {}

Has(seq, e) == \E n \in DOMAIN seq : seq[n] = e

\* Has a lock, or has still to take it
Wants(x, lock) == lock \in x.held \/ Has(x.need, lock)

\* Once it has checked anything, has it
Keeps(x, lock) == IF x.stage = "first" THEN Wants(x, lock) ELSE lock \in x.held

\* What an operation is about
ShapedClass(x) ==
    /\ x.op = "create" => x.student \in Students /\ x.items # <<>> /\ ~InternalOverlap(x.items)
    /\ x.op \in {"update_session", "change_tutor", "edit_session", "cancel_series"} =>
          /\ x.class \in Classes /\ Exists(x.class)
          /\ x.row.student = session[x.class].student /\ x.row.series = session[x.class].series
          /\ x.row.status # "ABSENT"
    /\ x.op = "cancel_series" =>
          /\ x.student = x.row.student /\ x.row.status = "CANCELLED"
          /\ x.items = <<>> => x.stage = "writing" /\ DOMAIN x.later = {}
          /\ x.items # <<>> => x.items = <<x.items[1]>>
          /\ \A c \in DOMAIN x.later : Exists(c) /\ c # x.class
    /\ x.op = "assign_booking" => x.tutor \in Tutors /\ x.items # <<>>

ShapedStaff(x) ==
    /\ x.op \in ops
    /\ x.op \in {"reassign", "edit_student"} => x.student \in Students
    /\ x.op = "reassign" /\ x.stage \in {"staff", "writing"} => x.pupil \in StudentRows
    /\ x.op = "edit_student" => x.pupil \in StudentRows
    /\ x.op \in {"reassign_all", "deactivate", "reactivate"} => x.from \in Staff

\* Whether the row it saves takes its time
TakesTime(x) == x.op \in {"update_session", "change_tutor"} /\ (x.stage = "first" \/ x.row.status = "SCHEDULED")

LocksClasses(x) ==
    /\ x.op = "create" \/ (x.op = "cancel_series" /\ x.items # <<>>) =>
          Keeps(x, StudentLock(x.student)) /\ (x.tutor # None => Keeps(x, ScheduleLock(x.tutor)))
    /\ TakesTime(x) =>
          Keeps(x, StudentLock(x.row.student)) /\ (x.row.tutor # None => Keeps(x, ScheduleLock(x.row.tutor)))
    /\ x.op = "reassign" =>
          Keeps(x, StudentLock(x.student)) /\ (x.tutor # None => Keeps(x, ScheduleLock(x.tutor)))
    /\ x.op = "assign_booking" => Keeps(x, ScheduleLock(x.tutor))

NewMentor(x) == x.mentor # None /\ (x.op = "reassign_all" \/ x.mentor # x.pupil.mentor)
NewTutor(x) == x.tutor # None /\ (x.op = "reassign_all" \/ x.tutor # x.pupil.tutor)

LocksStaff(x) ==
    /\ x.op \in {"reassign", "reassign_all"} =>
          /\ x.stage = "staff" /\ NewMentor(x) => Wants(x, AccountLock(x.mentor))
          /\ x.stage = "staff" /\ NewTutor(x) => Wants(x, AccountLock(x.tutor))
          /\ x.stage = "writing" /\ NewMentor(x) => AccountLock(x.mentor) \in x.held
          /\ x.stage = "writing" /\ NewTutor(x) => AccountLock(x.tutor) \in x.held
    /\ x.op = "deactivate" => Keeps(x, AccountLock(x.from))

\* What it has checked is still so: of a student's time,
StudentFree(s, time, except) ==
    \A c \in Scheduled \ except : session[c].student = s => ~Overlap(session[c], time)

\* the later classes of a series are the student's, apart from one another and from the new one
LaterFree(x) ==
    LET later == DOMAIN x.later
    IN  \A c \in later :
            /\ x.later[c].student = x.student /\ session[c].student = x.student
            /\ x.later[c].series = session[c].series
            /\ x.later[c].status # "ABSENT" /\ x.later[c].number > 0
            /\ NoLinkEdits =>
                  /\ StudentFree(x.student, x.later[c], later \cup {x.class})
                  /\ ~Overlap(x.later[c], x.items[1])
                  /\ \A d \in later \ {c} : ~Overlap(x.later[c], x.later[d])

StudentChecked(x) ==
    /\ NoLinkEdits /\ x.op = "create" /\ x.stage = "writing" =>
          \A i \in DOMAIN x.items : StudentFree(x.student, x.items[i], {})
    /\ NoLinkEdits /\ TakesTime(x) /\ x.stage = "writing" => StudentFree(x.row.student, x.row, {x.class})
    /\ x.op = "cancel_series" /\ x.stage = "writing" /\ x.items # <<>> =>
          /\ NoLinkEdits => StudentFree(x.student, x.items[1], {x.class})
          /\ LaterFree(x)

\* of a tutor's,
TutorFree(t, time, except) ==
    /\ \A c \in Scheduled \ except : session[c].tutor = t => ~Overlap(session[c], time)
    /\ ~BookingConflict(t, time)

TutorChecked(x) ==
    OnlyFitted /\ x.stage = "writing" =>
        /\ x.op = "create" /\ x.tutor # None => \A i \in DOMAIN x.items : TutorFree(x.tutor, x.items[i], {})
        /\ TakesTime(x) /\ x.row.tutor # None => TutorFree(x.row.tutor, x.row, {x.class})
        /\ x.op = "assign_booking" => TutorFree(x.tutor, x.items[1], {})
        /\ x.op = "reassign" /\ NewTutor(x) => ~HandoverConflict(OpenClasses({x.student}), x.tutor)

\* and of the accounts.
StaffChecked(x) ==
    NoProfiles /\ x.stage = "writing" =>
        /\ x.op \in {"reassign", "reassign_all"} /\ NewMentor(x) => x.mentor \in active
        /\ x.op \in {"reassign", "reassign_all"} /\ NewTutor(x) => x.tutor \in active
        /\ x.op = "deactivate" => ActiveOf(x.from) = {}

Right(x) ==
    /\ ShapedClass(x) /\ ShapedStaff(x) /\ LocksClasses(x) /\ LocksStaff(x)
    /\ StudentChecked(x) /\ TutorChecked(x) /\ StaffChecked(x)

TransactionsRight == \A w \in Workers : txn[w].op # None => Right(txn[w])

\* A class has a student, and a series one
ClassesReal == \A c \in Classes : Exists(c) => SeriesAgrees(c, session)

RowsRight ==
    /\ ClassesReal
    /\ NoLinkEdits => StudentInOnePlace
    /\ OnlyFitted => TutorInOnePlace
    /\ NoProfiles => StudentsHaveActiveStaff

Inv == Typed /\ LocksExclusive /\ TransactionsRight /\ RowsRight

-----------------------------------------------------------------------------
(***************************************************************************)
(* Steps that write no row                                                 *)
(***************************************************************************)
\* While no row changes, what is right of a transaction stays so.
LEMMA SameRows ==
  ASSUME UNCHANGED <<tables, ops>>, NEW x
  PROVE  /\ RowsTyped => RowsTyped'
         /\ RowsRight => RowsRight'
         /\ Right(x) => Right(x)'
<1>1. /\ session' = session /\ student' = student /\ active' = active /\ bookings' = bookings
      /\ ops' = ops
  BY DEF tables
<1>2. RowsTyped => RowsTyped'
  BY <1>1 DEF RowsTyped
<1>3. RowsRight => RowsRight'
  <2>1. ClassesReal => ClassesReal'
    BY <1>1 DEF ClassesReal, Exists
  <2>2. (NoLinkEdits => StudentInOnePlace) => (NoLinkEdits => StudentInOnePlace)'
    BY <1>1 DEF NoLinkEdits, StudentInOnePlace, Scheduled
  <2>3. (OnlyFitted => TutorInOnePlace) => (OnlyFitted => TutorInOnePlace)'
    BY <1>1 DEF OnlyFitted, TutorInOnePlace, BookingConflict, Scheduled
  <2>4. (NoProfiles => StudentsHaveActiveStaff) => (NoProfiles => StudentsHaveActiveStaff)'
    BY <1>1 DEF NoProfiles, StudentsHaveActiveStaff
  <2> QED
    BY <2>1, <2>2, <2>3, <2>4 DEF RowsRight
<1>4. Right(x) => Right(x)'
  <2>1. ShapedClass(x) => ShapedClass(x)'
    BY <1>1 DEF ShapedClass, Exists
  <2>2. ShapedStaff(x) => ShapedStaff(x)'
    BY <1>1 DEF ShapedStaff
  <2>3. StudentChecked(x) => StudentChecked(x)'
    BY <1>1 DEF StudentChecked, StudentFree, LaterFree, NoLinkEdits, Scheduled
  <2>4. TutorChecked(x) => TutorChecked(x)'
    BY <1>1 DEF TutorChecked, TutorFree, OnlyFitted, BookingConflict, HandoverConflict, OpenClasses,
                Scheduled
  <2>5. StaffChecked(x) => StaffChecked(x)'
    BY <1>1 DEF StaffChecked, NoProfiles, ActiveOf
  <2> QED
    BY <2>1, <2>2, <2>3, <2>4, <2>5 DEF Right
<1> QED
  BY <1>2, <1>3, <1>4

\* A step that writes no row keeps the invariant, if what it makes of its transaction is right and
\* takes no lock of another's.
LEMMA StepKeeps ==
  ASSUME Inv, NEW w \in Workers, NEW new \in Transactions,
         txn' = [txn EXCEPT ![w] = new], UNCHANGED <<tables, ops>>,
         \A v \in Workers \ {w} : new.held \cap txn[v].held = {},
         new.op # None => Right(new)
  PROVE  Inv'
<1>1. \A v \in Workers : txn'[v] = IF v = w THEN new ELSE txn[v]
  BY DEF Inv, Typed
<1>2. Typed'
  BY SameRows DEF Inv, Typed
<1>3. LocksExclusive'
  BY <1>1 DEF Inv, LocksExclusive
<1>4. TransactionsRight'
  <2>1. ASSUME NEW v \in Workers, NEW x, x = txn'[v], x.op # None
        PROVE  Right(x)'
    <3>1. Right(x)
      BY <1>1, <2>1 DEF Inv, TransactionsRight
    <3> QED
      BY <3>1, SameRows
  <2> QED
    BY <2>1 DEF TransactionsRight
<1>5. RowsRight'
  BY SameRows DEF Inv
<1> QED
  BY <1>2, <1>3, <1>4, <1>5 DEF Inv

\* No transaction is typed, and has no lock.
LEMMA NothingTyped == NoTxn \in Transactions /\ NoTxn.held = {} /\ NoTxn.op = None
<1>1. NoClass \in ClassRows
  BY DEF NoClass, ClassRows
<1>2. [c \in {} |-> NoClass] \in UNION {[cs -> ClassRows] : cs \in SUBSET Classes}
  <2>1. [c \in {} |-> NoClass] \in [{} -> ClassRows] /\ {} \in SUBSET Classes
    OBVIOUS
  <2> QED
    BY <2>1
<1> QED
  BY <1>1, <1>2 DEF NoTxn, Transactions

\* What is decided keeps the invariant, if it is right.
LEMMA DecidesKeeps ==
  ASSUME Inv, NEW w \in Workers, NEW new \in Transactions, NEW accepted \in BOOLEAN,
         Decides(w, accepted, new), new.held \subseteq txn[w].held,
         accepted => Right(new)
  PROVE  Inv'
<1> DEFINE next == IF accepted THEN new ELSE NoTxn
<1>1. /\ txn' = [txn EXCEPT ![w] = next]
      /\ UNCHANGED <<tables, ops>>
  BY DEF Decides
<1>2. /\ next \in Transactions
      /\ next.op # None => Right(next)
      /\ next.held \subseteq txn[w].held
  BY NothingTyped
<1> HIDE DEF next
<1>3. \A v \in Workers \ {w} : next.held \cap txn[v].held = {}
  BY <1>2 DEF Inv, LocksExclusive
<1> QED
  BY <1>1, <1>2, <1>3, StepKeeps

\* A beginning keeps the invariant, if it is right: it has no lock yet.
LEMMA BeginsKeeps ==
  ASSUME Inv, NEW w \in Workers, NEW new \in Transactions, Begins(w, new), new.held = {}, Right(new)
  PROVE  Inv'
BY StepKeeps DEF Begins

\* A circle that is broken leaves no transaction.
LEMMA DeadlockBrokenKeeps ==
  ASSUME Inv, NEW w \in Workers, DeadlockBroken(w)
  PROVE  Inv'
BY StepKeeps, NothingTyped DEF DeadlockBroken

\* A sequence's elements are its head and its tail's.
LEMMA HeadOrTail ==
  ASSUME NEW S, NEW seq \in Seq(S), seq # <<>>, NEW i \in DOMAIN seq
  PROVE  seq[i] = Head(seq) \/ \E j \in DOMAIN Tail(seq) : Tail(seq)[j] = seq[i]
<1>1. /\ Len(Tail(seq)) = Len(seq) - 1 /\ Tail(seq) \in Seq(S) /\ Head(seq) = seq[1]
      /\ \A j \in 1 .. Len(Tail(seq)) : Tail(seq)[j] = seq[j + 1]
  BY HeadTailProperties
<1>2. Len(seq) \in Nat /\ DOMAIN seq = 1 .. Len(seq) /\ DOMAIN Tail(seq) = 1 .. Len(Tail(seq))
  BY <1>1
<1>3. CASE i = 1
  BY <1>1, <1>3
<1>4. CASE i # 1
  <2>1. i - 1 \in 1 .. Len(Tail(seq)) /\ (i - 1) + 1 = i
    BY <1>1, <1>2, <1>4
  <2> QED
    BY <1>1, <1>2, <2>1
<1> QED
  BY <1>3, <1>4

\* A lock taken is one still had or wanted.
LEMMA TakeLockKeeps ==
  ASSUME Inv, NEW w \in Workers, TakeLock(w)
  PROVE  Inv'
<1> DEFINE x == txn[w]
           lock == Head(x.need)
           new == [x EXCEPT !.need = Tail(x.need), !.held = x.held \cup {lock}]
<1>1. x \in Transactions /\ x.need \in Seq(Locks) /\ x.need # <<>>
  BY DEF Inv, Typed, TakeLock, Transactions
<1>2. txn' = [txn EXCEPT ![w] = new] /\ UNCHANGED <<tables, ops>>
  BY DEF TakeLock
<1>3. lock \in Locks /\ Tail(x.need) \in Seq(Locks)
  BY <1>1, HeadTailProperties
<1>4. new \in Transactions
  BY <1>1, <1>3 DEF Transactions
<1>5. \A v \in Workers \ {w} : new.held \cap txn[v].held = {}
  BY <1>1 DEF Inv, LocksExclusive, TakeLock, Free, Transactions
<1>6. ASSUME new.op # None
      PROVE  Right(new)
  <2>1. Right(x)
    BY <1>1, <1>6 DEF Inv, TransactionsRight, Transactions
  <2>2. /\ new.op = x.op /\ new.stage = x.stage /\ new.student = x.student /\ new.tutor = x.tutor
        /\ new.mentor = x.mentor /\ new.from = x.from /\ new.class = x.class /\ new.row = x.row
        /\ new.later = x.later /\ new.pupil = x.pupil /\ new.items = x.items
        /\ new.need = Tail(x.need) /\ new.held = x.held \cup {lock}
    BY <1>1 DEF Transactions
  <2>3. \A other : Wants(x, other) => Wants(new, other)
    BY <1>1, <2>2, HeadOrTail DEF Wants, Has
  <2> HIDE DEF x, lock, new
  <2>4. \A other : (other \in x.held => other \in new.held) /\ (Keeps(x, other) => Keeps(new, other))
    BY <2>2, <2>3 DEF Keeps
  <2>5. ShapedClass(new) /\ ShapedStaff(new)
    BY <2>1, <2>2 DEF Right, ShapedClass, ShapedStaff
  <2>6. LocksClasses(new)
    BY <2>1, <2>2, <2>4 DEF Right, LocksClasses, TakesTime
  <2>7. LocksStaff(new)
    BY <2>1, <2>2, <2>3, <2>4 DEF Right, LocksStaff, NewMentor, NewTutor
  <2>8. StudentChecked(new)
    BY <2>1, <2>2 DEF Right, StudentChecked, LaterFree, TakesTime
  <2>9. TutorChecked(new) /\ StaffChecked(new)
    BY <2>1, <2>2 DEF Right, TutorChecked, StaffChecked, TakesTime, NewMentor, NewTutor
  <2> QED
    BY <2>5, <2>6, <2>7, <2>8, <2>9 DEF Right
<1> QED
  BY <1>2, <1>4, <1>5, <1>6, StepKeeps

-----------------------------------------------------------------------------
(***************************************************************************)
(* The locks there are to take                                             *)
(***************************************************************************)
\* What is in either of two sequences is in their concatenation, and the other way round.
LEMMA HasEither ==
  ASSUME NEW S, NEW a \in Seq(S), NEW b \in Seq(S), NEW e
  PROVE  a \o b \in Seq(S) /\ (Has(a \o b, e) <=> Has(a, e) \/ Has(b, e))
<1>1. /\ a \o b \in Seq(S) /\ Len(a \o b) = Len(a) + Len(b)
      /\ \A i \in 1 .. Len(a) : (a \o b)[i] = a[i]
      /\ \A i \in 1 .. Len(b) : (a \o b)[Len(a) + i] = b[i]
  OBVIOUS
<1>2. /\ Len(a) \in Nat /\ DOMAIN a = 1 .. Len(a)
      /\ Len(b) \in Nat /\ DOMAIN b = 1 .. Len(b) /\ DOMAIN (a \o b) = 1 .. Len(a \o b)
  OBVIOUS
<1>3. Has(a, e) => Has(a \o b, e)
  BY <1>1, <1>2 DEF Has
<1>4. ASSUME Has(b, e)
      PROVE  Has(a \o b, e)
  <2>1. PICK n \in 1 .. Len(b) : b[n] = e
    BY <1>2, <1>4 DEF Has
  <2>2. Len(a) + n \in 1 .. Len(a \o b) /\ (a \o b)[Len(a) + n] = e
    BY <1>1, <1>2, <2>1
  <2> QED
    BY <1>2, <2>2 DEF Has
<1>5. ASSUME Has(a \o b, e)
      PROVE  Has(a, e) \/ Has(b, e)
  <2>1. PICK n \in 1 .. Len(a \o b) : (a \o b)[n] = e
    BY <1>2, <1>5 DEF Has
  <2>2. CASE n \in 1 .. Len(a)
    BY <1>1, <1>2, <2>1, <2>2 DEF Has
  <2>3. CASE n \notin 1 .. Len(a)
    <3>1. n - Len(a) \in 1 .. Len(b) /\ Len(a) + (n - Len(a)) = n
      BY <1>1, <1>2, <2>1, <2>3
    <3>2. b[n - Len(a)] = e
      BY <1>1, <2>1, <3>1
    <3> QED
      BY <1>2, <3>1, <3>2 DEF Has
  <2> QED
    BY <2>2, <2>3
<1> QED
  BY <1>1, <1>3, <1>4, <1>5

\* The locks are the ones there are.
LEMMA LocksTyped ==
  /\ \A s \in Students : StudentLock(s) \in Locks /\ RowLock(s) \in Locks
  /\ \A t \in Tutors : ScheduleLock(t) \in Locks
  /\ \A u \in Staff : AccountLock(u) \in Locks
  /\ TeamLock \in Locks
BY DEF Locks, StudentLock, RowLock, ScheduleLock, AccountLock

\* A lock is taken only for who is given.
LEMMA GivenLock ==
  ASSUME NEW lock, NEW x, x # None => lock \in Locks
  PROVE  Given(lock, x) \in Seq(Locks) /\ (x # None => Has(Given(lock, x), lock))
BY DEF Given, Has

\* A single lock is one wanted.
LEMMA OneLock ==
  ASSUME NEW lock \in Locks
  PROVE  <<lock>> \in Seq(Locks) /\ Has(<<lock>>, lock)
BY DEF Has

\* Scheduling takes the student's lock and the tutor's.
LEMMA LocksScheduling ==
  ASSUME NEW s \in Students, NEW t \in Tutors \cup {None}
  PROVE  /\ LockScheduling(s, t) \in Seq(Locks)
         /\ Has(LockScheduling(s, t), StudentLock(s))
         /\ t # None => Has(LockScheduling(s, t), ScheduleLock(t))
<1>1. /\ <<StudentLock(s)>> \in Seq(Locks) /\ Has(<<StudentLock(s)>>, StudentLock(s))
  BY LocksTyped, OneLock
<1>2. /\ Given(ScheduleLock(t), t) \in Seq(Locks)
      /\ t # None => Has(Given(ScheduleLock(t), t), ScheduleLock(t))
  BY LocksTyped, GivenLock
<1> QED
  BY <1>1, <1>2, HasEither DEF LockScheduling

-----------------------------------------------------------------------------
(***************************************************************************)
(* Beginning                                                               *)
(***************************************************************************)
\* Scheduling reads the student's tutor and will take the locks of both.
LEMMA CreateSessionsKeeps ==
  ASSUME Inv, NEW w \in Workers, NEW s \in Students, NEW items \in Requests, CreateSessions(w, s, items)
  PROVE  Inv'
<1> DEFINE t == student[s].tutor
           new == [NoTxn EXCEPT !.op = "create", !.stage = "first", !.student = s, !.tutor = t,
                                !.items = items, !.need = LockScheduling(s, t)]
<1>1. t \in Tutors \cup {None} /\ items \in Seq(Windows) /\ items # <<>>
  BY TuitionAssumption DEF Inv, Typed, RowsTyped, StudentRows
<1>2. /\ LockScheduling(s, t) \in Seq(Locks)
      /\ Has(LockScheduling(s, t), StudentLock(s))
      /\ t # None => Has(LockScheduling(s, t), ScheduleLock(t))
  BY <1>1, LocksScheduling
<1>3. ~InternalOverlap(items) /\ Begins(w, new) /\ new.op \in ops
  BY DEF CreateSessions, Begins, NoTxn
<1> HIDE DEF t
<1>4. /\ new \in Transactions /\ new.held = {} /\ new.op = "create" /\ new.stage = "first"
      /\ new.student = s /\ new.tutor = t /\ new.items = items /\ new.need = LockScheduling(s, t)
  BY <1>1, <1>2, NothingTyped DEF NoTxn, Transactions, Operations
<1> HIDE DEF new
<1>5. Right(new)
  <2>1. ShapedClass(new) /\ ShapedStaff(new)
    BY <1>1, <1>3, <1>4 DEF ShapedClass, ShapedStaff
  <2>2. LocksClasses(new) /\ LocksStaff(new)
    BY <1>2, <1>4 DEF LocksClasses, LocksStaff, TakesTime, Keeps, Wants
  <2>3. StudentChecked(new) /\ TutorChecked(new) /\ StaffChecked(new)
    BY <1>4 DEF StudentChecked, TutorChecked, StaffChecked
  <2> QED
    BY <2>1, <2>2, <2>3 DEF Right
<1> QED
  BY <1>3, <1>4, <1>5, BeginsKeeps

\* A class that exists has a student, and is typed.
LEMMA ClassHasStudent ==
  ASSUME Inv, NEW c \in Classes, Exists(c)
  PROVE  session[c] \in ClassRows /\ session[c].student \in Students
BY DEF Inv, Typed, RowsTyped, RowsRight, ClassesReal, SeriesAgrees, ClassRows

\* A change that takes time will take the locks of the class's student and of its tutor to be.
LEMMA UpdateSessionKeeps ==
  ASSUME Inv, NEW w \in Workers, NEW c \in Classes, NEW change \in Changes, NEW t \in Tutors \cup {None},
         UpdateSession(w, c, change.status, change.time, t)
  PROVE  Inv'
<1> DEFINE status == change.status
           time == change.time
           old == session[c]
           row == [old EXCEPT !.status = status, !.tutor = t,
                              !.start = IF time = None THEN old.start ELSE time.start,
                              !.end = IF time = None THEN old.end ELSE time.end]
           checked == \/ time # None \/ t # old.tutor
                      \/ (status = "SCHEDULED" /\ old.status # "SCHEDULED")
           op == IF t # old.tutor THEN "change_tutor"
                 ELSE IF status = old.status /\ time = None THEN "edit_session" ELSE "update_session"
           stage == IF checked THEN "first" ELSE "writing"
           need == IF checked THEN LockScheduling(old.student, t) ELSE <<>>
           timed == time # None
           new == [NoTxn EXCEPT !.op = op, !.stage = stage, !.class = c, !.row = row,
                                !.timed = timed, !.need = need]
<1>1. /\ Exists(c)
      /\ Begins(w, new)
  BY DEF UpdateSession
<1>2. old \in ClassRows /\ old.student \in Students
  BY <1>1, ClassHasStudent
<1>3. status \in {"SCHEDULED", "ATTENDED", "CANCELLED"} /\ time \in Windows \cup {None}
  BY TuitionAssumption
<1>4. time # None => time.start \in Nat /\ time.end \in Nat
  BY <1>3, TuitionAssumption
<1>5. /\ row \in ClassRows /\ row.status = status /\ row.tutor = t
      /\ row.student = old.student /\ row.series = old.series
  BY <1>2, <1>3, <1>4 DEF ClassRows
<1>6. /\ LockScheduling(old.student, t) \in Seq(Locks)
      /\ Has(LockScheduling(old.student, t), StudentLock(old.student))
      /\ t # None => Has(LockScheduling(old.student, t), ScheduleLock(t))
  BY <1>2, LocksScheduling
<1>7. need \in Seq(Locks) /\ stage \in {"first", "writing"}
  BY <1>6
<1>8. op \in {"change_tutor", "edit_session", "update_session"}
  OBVIOUS
<1>9. stage = "writing" /\ op # "edit_session" => status # "SCHEDULED"
  OBVIOUS
<1>10. stage = "first" => need = LockScheduling(old.student, t) /\ op # "edit_session"
  OBVIOUS
<1> HIDE DEF row, op, stage, need, checked, timed, status, time
<1>11. new.op \in ops
  BY <1>1 DEF Begins
<1>12. /\ timed \in BOOLEAN /\ op \in Operations \cup {None} /\ stage \in {None, "first", "staff", "writing"}
       /\ c \in Classes \cup {None}
  BY <1>7, <1>8 DEF timed, Operations
<1>13. /\ new \in Transactions /\ new.held = {} /\ new.op = op /\ new.stage = stage
       /\ new.class = c /\ new.row = row /\ new.need = need
  <2>1. new \in Transactions
    BY ZenonT(60), <1>5, <1>7, <1>12, NothingTyped DEF NoTxn, Transactions
  <2>2. /\ new.held = {} /\ new.op = op /\ new.stage = stage
        /\ new.class = c /\ new.row = row /\ new.need = need
    BY DEF NoTxn
  <2> QED
    BY <2>1, <2>2
<1> HIDE DEF new, old
<1>14. Right(new)
  <2>1. ShapedClass(new) /\ ShapedStaff(new)
    BY <1>1, <1>3, <1>5, <1>8, <1>11, <1>13 DEF ShapedClass, ShapedStaff, old
  <2>2. LocksClasses(new) /\ LocksStaff(new)
    BY <1>5, <1>6, <1>7, <1>8, <1>9, <1>10, <1>13
       DEF LocksClasses, LocksStaff, TakesTime, Keeps, Wants
  <2>3. StudentChecked(new) /\ TutorChecked(new) /\ StaffChecked(new)
    BY <1>5, <1>7, <1>8, <1>9, <1>10, <1>13
       DEF StudentChecked, TutorChecked, StaffChecked, TakesTime
  <2> QED
    BY <2>1, <2>2, <2>3 DEF Right
<1> QED
  BY <1>1, <1>13, <1>14, BeginsKeeps

\* A cancelled series takes a time for the make-up class, or none.
LEMMA CancelSeriesKeeps ==
  ASSUME Inv, NEW w \in Workers, NEW c \in Classes, NEW time \in Windows \cup {None}, CancelSeries(w, c, time)
  PROVE  Inv'
<1> DEFINE row == session[c]
           s == row.student
           t == student[s].tutor
           saved == [row EXCEPT !.status = "CANCELLED"]
           x == [NoTxn EXCEPT !.op = "cancel_series", !.class = c, !.student = s, !.row = saved]
           only == Writing(x)
           made == [x EXCEPT !.stage = "first", !.items = <<time>>, !.tutor = t, !.need = LockScheduling(s, t)]
<1>1. /\ Exists(c)
      /\ Begins(w, only) \/ (time # None /\ Begins(w, made))
  BY DEF CancelSeries, Exists
<1>2. row \in ClassRows /\ s \in Students
  BY <1>1, ClassHasStudent
<1>3. t \in Tutors \cup {None}
  BY <1>2 DEF Inv, Typed, RowsTyped, StudentRows
<1>4. /\ saved \in ClassRows /\ saved.status = "CANCELLED"
      /\ saved.student = s /\ saved.series = row.series
  BY <1>2 DEF ClassRows
<1>5. /\ LockScheduling(s, t) \in Seq(Locks)
      /\ Has(LockScheduling(s, t), StudentLock(s))
      /\ t # None => Has(LockScheduling(s, t), ScheduleLock(t))
  BY <1>2, <1>3, LocksScheduling
<1> HIDE DEF t, saved
<1>6. CASE Begins(w, only)
  <2>1. only.op \in ops
    BY <1>6 DEF Begins
  <2>2. /\ only \in Transactions /\ only.held = {} /\ only.op = "cancel_series" /\ only.stage = "writing"
        /\ only.class = c /\ only.student = s /\ only.row = saved /\ only.items = <<>>
        /\ DOMAIN only.later = {}
    BY <1>2, <1>4, NothingTyped DEF NoTxn, Writing, Transactions, Operations
  <2> HIDE DEF only
  <2>3. Right(only)
    <3>1. ShapedClass(only) /\ ShapedStaff(only)
      BY <1>1, <1>4, <2>1, <2>2 DEF ShapedClass, ShapedStaff
    <3>2. LocksClasses(only) /\ LocksStaff(only)
      BY <2>2 DEF LocksClasses, LocksStaff, TakesTime
    <3>3. StudentChecked(only) /\ TutorChecked(only) /\ StaffChecked(only)
      BY <2>2 DEF StudentChecked, TutorChecked, StaffChecked, TakesTime
    <3> QED
      BY <3>1, <3>2, <3>3 DEF Right
  <2> QED
    BY <1>6, <2>2, <2>3, BeginsKeeps
<1>7. CASE time # None /\ Begins(w, made)
  <2>1. made.op \in ops /\ <<time>> \in Seq(Windows)
    BY <1>7 DEF Begins
  <2>2. /\ made \in Transactions /\ made.held = {} /\ made.op = "cancel_series" /\ made.stage = "first"
        /\ made.class = c /\ made.student = s /\ made.row = saved /\ made.items = <<time>>
        /\ DOMAIN made.later = {} /\ made.tutor = t /\ made.need = LockScheduling(s, t)
    BY <1>2, <1>3, <1>4, <1>5, <2>1, NothingTyped DEF NoTxn, Transactions, Operations
  <2> HIDE DEF made
  <2>3. Right(made)
    <3>1. made.items # <<>> /\ made.items = <<made.items[1]>>
      BY <2>2
    <3>2. ShapedClass(made) /\ ShapedStaff(made)
      BY <1>1, <1>4, <2>1, <2>2, <3>1 DEF ShapedClass, ShapedStaff
    <3>3. LocksClasses(made) /\ LocksStaff(made)
      BY <1>5, <2>2 DEF LocksClasses, LocksStaff, TakesTime, Keeps, Wants
    <3>4. StudentChecked(made) /\ TutorChecked(made) /\ StaffChecked(made)
      BY <2>2 DEF StudentChecked, TutorChecked, StaffChecked, TakesTime
    <3> QED
      BY <3>2, <3>3, <3>4 DEF Right
  <2> QED
    BY <1>7, <2>2, <2>3, BeginsKeeps
<1> QED
  BY <1>1, <1>6, <1>7

\* A hand-over will take the student's lock, the tutor's and the row's.
LEMMA ReassignKeeps ==
  ASSUME Inv, NEW w \in Workers, NEW to \in Handovers, NEW s \in Students, Reassign(w, s, to.mentor, to.tutor)
  PROVE  Inv'
<1> DEFINE m == to.mentor
           t == to.tutor
           need == Append(LockScheduling(s, t), RowLock(s))
           new == [NoTxn EXCEPT !.op = "reassign", !.stage = "first", !.student = s, !.mentor = m, !.tutor = t,
                                !.need = need]
<1>1. Begins(w, new) /\ new.op \in ops
  BY DEF Reassign, Begins
<1>2. m \in Mentors \cup {None} /\ t \in Tutors \cup {None}
  BY TuitionAssumption
<1> HIDE DEF m, t
<1>3. /\ LockScheduling(s, t) \in Seq(Locks)
      /\ Has(LockScheduling(s, t), StudentLock(s))
      /\ t # None => Has(LockScheduling(s, t), ScheduleLock(t))
  BY <1>2, LocksScheduling
<1>4. <<RowLock(s)>> \in Seq(Locks) /\ need = LockScheduling(s, t) \o <<RowLock(s)>>
  BY <1>3, LocksTyped, OneLock
<1> HIDE DEF need
<1>5. /\ need \in Seq(Locks)
      /\ Has(need, StudentLock(s))
      /\ t # None => Has(need, ScheduleLock(t))
  BY <1>3, <1>4, HasEither
<1>6. /\ new \in Transactions /\ new.held = {} /\ new.op = "reassign" /\ new.stage = "first"
      /\ new.student = s /\ new.tutor = t /\ new.mentor = m /\ new.need = need
  BY <1>2, <1>5, NothingTyped DEF NoTxn, Transactions, Operations
<1> HIDE DEF new
<1>7. Right(new)
  <2>1. ShapedClass(new) /\ ShapedStaff(new)
    BY <1>1, <1>6 DEF ShapedClass, ShapedStaff
  <2>2. LocksClasses(new) /\ LocksStaff(new)
    BY <1>5, <1>6 DEF LocksClasses, LocksStaff, TakesTime, Keeps, Wants
  <2>3. StudentChecked(new) /\ TutorChecked(new) /\ StaffChecked(new)
    BY <1>6 DEF StudentChecked, TutorChecked, StaffChecked, TakesTime
  <2> QED
    BY <2>1, <2>2, <2>3 DEF Right
<1> QED
  BY <1>1, <1>6, <1>7, BeginsKeeps

\* Students are put in an order that is a sequence.
LEMMA InOrderTyped ==
  ASSUME NEW ss \in SUBSET Students, NEW order \in InOrder(ss)
  PROVE  Cardinality(ss) \in Nat /\ order \in [1 .. Cardinality(ss) -> ss] /\ order \in Seq(Students)
<1>1. IsFiniteSet(ss)
  BY TuitionAssumption, FS_Subset
<1>2. Cardinality(ss) \in Nat
  BY <1>1, FS_CardinalityType
<1> QED
  BY <1>2 DEF InOrder

\* So are their rows, in any order.
LEMMA RowLocksTyped ==
  ASSUME NEW ss \in SUBSET Students, NEW order \in SetToSeqs(ss)
  PROVE  /\ [n \in DOMAIN order |-> RowLock(order[n])] \in Seq(Locks)
         /\ \A lock : Has([n \in DOMAIN order |-> RowLock(order[n])], lock) => \E s \in ss : lock = RowLock(s)
<1>1. IsFiniteSet(ss)
  BY TuitionAssumption, FS_Subset
<1>2. Cardinality(ss) \in Nat
  BY <1>1, FS_CardinalityType
<1>3. order \in [1 .. Cardinality(ss) -> ss]
  BY DEF SetToSeqs
<1> QED
  BY <1>2, <1>3, LocksTyped DEF Has

\* The hand-over of all of one's students will take the locks of those taught.
LEMMA ReassignAllKeeps ==
  ASSUME Inv, NEW w \in Workers, NEW to \in Handovers, NEW u \in Staff, ReassignAll(w, u, to.mentor, to.tutor)
  PROVE  Inv'
<1> DEFINE m == to.mentor
           t == to.tutor
           taught == TaughtBy(u)
<1>1. m \in Mentors \cup {None} /\ t \in Tutors \cup {None}
  BY TuitionAssumption
<1>2. taught \in SUBSET Students
  BY DEF TaughtBy, ActiveOf
<1>3. PICK order \in InOrder(taught) :
        Begins(w, [NoTxn EXCEPT !.op = "reassign_all", !.stage = "first", !.from = u, !.mentor = m, !.tutor = t,
                                !.pupils = taught,
                                !.need = IF taught = {} THEN <<>>
                                         ELSE [n \in DOMAIN order |-> StudentLock(order[n])]
                                                \o Given(ScheduleLock(t), t)])
  BY DEF ReassignAll
<1> DEFINE locks == [n \in DOMAIN order |-> StudentLock(order[n])]
           need == IF taught = {} THEN <<>> ELSE locks \o Given(ScheduleLock(t), t)
           new == [NoTxn EXCEPT !.op = "reassign_all", !.stage = "first", !.from = u, !.mentor = m, !.tutor = t,
                                !.pupils = taught, !.need = need]
<1>4. Begins(w, new) /\ new.op \in ops
  BY <1>3 DEF Begins
<1> HIDE DEF m, t, taught
<1>5. /\ Cardinality(taught) \in Nat /\ order \in [1 .. Cardinality(taught) -> taught]
  BY <1>2, InOrderTyped
<1>6. locks \in Seq(Locks)
  BY <1>2, <1>5, LocksTyped
<1>7. Given(ScheduleLock(t), t) \in Seq(Locks)
  BY <1>1, LocksTyped, GivenLock
<1> HIDE DEF locks
<1>8. need \in Seq(Locks)
  BY <1>6, <1>7, HasEither
<1> HIDE DEF need
<1>9. /\ new \in Transactions /\ new.held = {} /\ new.op = "reassign_all" /\ new.stage = "first"
      /\ new.from = u
  BY ZenonT(60), <1>1, <1>2, <1>8, NothingTyped DEF NoTxn, Transactions, Operations
<1> HIDE DEF new
<1>10. Right(new)
  <2>1. ShapedClass(new) /\ ShapedStaff(new)
    BY <1>4, <1>9 DEF ShapedClass, ShapedStaff
  <2>2. LocksClasses(new) /\ LocksStaff(new)
    BY <1>9 DEF LocksClasses, LocksStaff, TakesTime, Keeps, Wants
  <2>3. StudentChecked(new) /\ TutorChecked(new) /\ StaffChecked(new)
    BY <1>9 DEF StudentChecked, TutorChecked, StaffChecked, TakesTime
  <2> QED
    BY <2>1, <2>2, <2>3 DEF Right
<1> QED
  BY <1>4, <1>9, <1>10, BeginsKeeps

\* A profile is read, and will be saved under its row's lock.
LEMMA EditStudentKeeps ==
  ASSUME Inv, NEW w \in Workers, NEW s \in Students, NEW status \in {"ACTIVE", "INACTIVE"},
         EditStudent(w, s, status)
  PROVE  Inv'
<1> DEFINE pupil == [student[s] EXCEPT !.status = status]
           need == <<RowLock(s)>>
           new == [NoTxn EXCEPT !.op = "edit_student", !.stage = "writing", !.student = s,
                                !.pupil = pupil, !.need = need]
<1>1. Begins(w, new) /\ new.op \in ops
  BY DEF EditStudent, Begins
<1>2. pupil \in StudentRows /\ need \in Seq(Locks)
  BY LocksTyped, OneLock DEF Inv, Typed, RowsTyped, StudentRows
<1> HIDE DEF pupil, need
<1>3. /\ new \in Transactions /\ new.held = {} /\ new.op = "edit_student" /\ new.stage = "writing"
      /\ new.student = s /\ new.pupil = pupil
  BY <1>2, NothingTyped DEF NoTxn, Transactions, Operations
<1> HIDE DEF new
<1>4. Right(new)
  <2>1. ShapedClass(new) /\ ShapedStaff(new)
    BY <1>1, <1>2, <1>3 DEF ShapedClass, ShapedStaff
  <2>2. LocksClasses(new) /\ LocksStaff(new)
    BY <1>3 DEF LocksClasses, LocksStaff, TakesTime, Keeps, Wants
  <2>3. StudentChecked(new) /\ TutorChecked(new) /\ StaffChecked(new)
    BY <1>3 DEF StudentChecked, TutorChecked, StaffChecked, TakesTime
  <2> QED
    BY <2>1, <2>2, <2>3 DEF Right
<1> QED
  BY <1>1, <1>3, <1>4, BeginsKeeps

\* Activation and deactivation will take the team's lock and the account's.
LEMMA AccountKeeps ==
  ASSUME Inv, NEW w \in Workers, NEW u \in Staff, Deactivate(w, u) \/ Reactivate(w, u)
  PROVE  Inv'
<1> DEFINE need == <<TeamLock, AccountLock(u)>>
           new(op, stage) == [NoTxn EXCEPT !.op = op, !.stage = stage, !.from = u, !.need = need]
<1>1. PICK op \in {"deactivate", "reactivate"}, stage \in {"first", "writing"} :
        /\ Begins(w, new(op, stage))
        /\ op = "deactivate" => stage = "first"
  BY DEF Deactivate, Reactivate
<1>2. need \in Seq(Locks) /\ Has(need, AccountLock(u))
  BY LocksTyped DEF Has
<1> HIDE DEF need
<1> DEFINE x == new(op, stage)
<1>3. /\ x \in Transactions /\ x.held = {} /\ x.op = op /\ x.stage = stage
      /\ x.from = u /\ x.need = need
  BY ZenonT(60), <1>1, <1>2, NothingTyped DEF NoTxn, Transactions, Operations
<1>4. x.op \in ops
  BY <1>1, <1>3 DEF Begins
<1>5. Right(x)
  <2> HIDE DEF x
  <2>1. ShapedClass(x) /\ ShapedStaff(x)
    BY <1>1, <1>3, <1>4 DEF ShapedClass, ShapedStaff
  <2>2. LocksClasses(x) /\ LocksStaff(x)
    BY <1>1, <1>2, <1>3 DEF LocksClasses, LocksStaff, TakesTime, Keeps, Wants
  <2>3. StudentChecked(x) /\ TutorChecked(x) /\ StaffChecked(x)
    BY <1>1, <1>3 DEF StudentChecked, TutorChecked, StaffChecked, TakesTime
  <2> QED
    BY <2>1, <2>2, <2>3 DEF Right
<1>6. Begins(w, x)
  BY <1>1
<1> HIDE DEF x
<1> QED
  BY <1>3, <1>5, <1>6, BeginsKeeps

\* A booking's tutor will be locked.
LEMMA AssignBookingKeeps ==
  ASSUME Inv, NEW w \in Workers, NEW t \in Tutors, NEW time \in Windows, AssignBooking(w, t, time)
  PROVE  Inv'
<1> DEFINE need == <<ScheduleLock(t), AccountLock(t)>>
           new == [NoTxn EXCEPT !.op = "assign_booking", !.stage = "first", !.tutor = t, !.items = <<time>>,
                                !.need = need]
<1>1. Begins(w, new) /\ new.op \in ops
  BY DEF AssignBooking, Begins
<1>2. need \in Seq(Locks) /\ Has(need, ScheduleLock(t)) /\ <<time>> \in Seq(Windows)
  BY LocksTyped DEF Has, Staff
<1> HIDE DEF need
<1>3. /\ new \in Transactions /\ new.held = {} /\ new.op = "assign_booking" /\ new.stage = "first"
      /\ new.tutor = t /\ new.items = <<time>> /\ new.need = need
  BY <1>2, NothingTyped DEF NoTxn, Transactions, Operations
<1> HIDE DEF new
<1>4. Right(new)
  <2>1. ShapedClass(new) /\ ShapedStaff(new)
    BY <1>1, <1>2, <1>3 DEF ShapedClass, ShapedStaff
  <2>2. LocksClasses(new) /\ LocksStaff(new)
    BY <1>2, <1>3 DEF LocksClasses, LocksStaff, TakesTime, Keeps, Wants
  <2>3. StudentChecked(new) /\ TutorChecked(new) /\ StaffChecked(new)
    BY <1>3 DEF StudentChecked, TutorChecked, StaffChecked, TakesTime
  <2> QED
    BY <2>1, <2>2, <2>3 DEF Right
<1> QED
  BY <1>1, <1>3, <1>4, BeginsKeeps

-----------------------------------------------------------------------------
(***************************************************************************)
(* Checking                                                                *)
(***************************************************************************)
\* What a check that leads to the writing leaves of its transaction
Carried(x, new) ==
    /\ new.op = x.op /\ new.student = x.student /\ new.tutor = x.tutor /\ new.mentor = x.mentor
    /\ new.from = x.from /\ new.class = x.class /\ new.row = x.row /\ new.pupil = x.pupil
    /\ new.items = x.items /\ new.timed = x.timed /\ new.held = x.held

\* A check that has its locks leaves a transaction that has them, right if what it checked is.
LEMMA WritingRight ==
  ASSUME NEW x, NEW new, Right(x), x.need = <<>>, x.stage # "writing",
         x.op \in {"reassign", "reassign_all"} => x.stage = "staff",
         Carried(x, new), new.stage = "writing",
         x.op = "cancel_series" => \A c \in DOMAIN new.later : Exists(c) /\ c # x.class,
         StudentChecked(new), TutorChecked(new), StaffChecked(new)
  PROVE  Right(new)
<1>1. \A lock : (Wants(x, lock) => lock \in x.held) /\ (Keeps(x, lock) => Keeps(new, lock))
  BY DEF Wants, Has, Keeps, Carried
<1>2. TakesTime(new) => TakesTime(x)
  BY DEF TakesTime, Carried, Right, ShapedStaff
<1>3. ShapedClass(new) /\ ShapedStaff(new)
  BY DEF Right, ShapedClass, ShapedStaff, Carried
<1>4. LocksClasses(new)
  BY <1>1, <1>2 DEF Right, LocksClasses, Carried
<1>5. LocksStaff(new)
  BY <1>1 DEF Right, LocksStaff, Carried, NewMentor, NewTutor
<1> QED
  BY <1>3, <1>4, <1>5 DEF Right

\* What a transaction that has its locks is.
LEMMA Checking ==
  ASSUME Inv, NEW w \in Workers, NEW op \in Operations, NEW stage, HasLocks(w, op, stage)
  PROVE  /\ txn[w] \in Transactions /\ Right(txn[w])
         /\ txn[w].op = op /\ txn[w].stage = stage /\ txn[w].need = <<>>
BY TuitionAssumption DEF Inv, Typed, TransactionsRight, HasLocks, Operations

\* Only what is going to be written is decided.
LEMMA WritingTyped ==
  ASSUME NEW x \in Transactions
  PROVE  Writing(x) \in Transactions /\ Carried(x, Writing(x)) /\ Writing(x).stage = "writing"
         /\ Writing(x).later = x.later
BY DEF Writing, Transactions, Carried

\* The classes asked for are apart from the student's, the tutor's and the tutor's bookings.
LEMMA CheckCreateKeeps ==
  ASSUME Inv, NEW w \in Workers, CheckCreate(w)
  PROVE  Inv'
<1> DEFINE x == txn[w]
           new == Writing(x)
<1>1. /\ x \in Transactions /\ Right(x) /\ x.op = "create" /\ x.stage = "first" /\ x.need = <<>>
  BY Checking DEF CheckCreate, Operations
<1>2. PICK accepted \in BOOLEAN :
        /\ Decides(w, accepted, new)
        /\ accepted => \A i \in DOMAIN x.items : /\ ~Conflict(x.student, x.tutor, x.items[i], None)
                                                 /\ ~BookingConflict(x.tutor, x.items[i])
  BY DEF CheckCreate
<1>3. /\ new \in Transactions /\ Carried(x, new) /\ new.stage = "writing"
  BY <1>1, WritingTyped
<1> HIDE DEF x, new
<1>4. ASSUME accepted
      PROVE  Right(new)
  <2>1. new.op = "create" /\ new.items = x.items /\ new.student = x.student /\ new.tutor = x.tutor
    BY <1>1, <1>3 DEF Carried
  <2>2. \A c \in Scheduled : c # None
    BY TuitionAssumption DEF Scheduled
  <2>3. StudentChecked(new)
    BY <1>2, <1>4, <2>1, <2>2 DEF StudentChecked, StudentFree, Conflict, TakesTime
  <2>4. TutorChecked(new)
    BY <1>2, <1>4, <2>1, <2>2 DEF TutorChecked, TutorFree, Conflict, TakesTime
  <2>5. StaffChecked(new)
    BY <2>1 DEF StaffChecked
  <2> QED
    BY <1>1, <1>3, <2>3, <2>4, <2>5, WritingRight
<1>5. new.held \subseteq x.held
  BY <1>3 DEF Carried
<1> QED
  BY <1>2, <1>3, <1>4, <1>5, DecidesKeeps DEF x

\* The time that a class takes is free of the student's and the tutor's other classes.
LEMMA CheckUpdateKeeps ==
  ASSUME Inv, NEW w \in Workers, CheckUpdate(w)
  PROVE  Inv'
<1> DEFINE x == txn[w]
           new == Writing(x)
<1>1. /\ x \in Transactions /\ Right(x) /\ x.op \in {"update_session", "change_tutor"}
      /\ x.stage = "first" /\ x.need = <<>>
  BY Checking DEF CheckUpdate, Operations
<1>2. PICK accepted \in BOOLEAN :
        /\ Decides(w, accepted, new)
        /\ accepted => /\ ~Conflict(x.row.student, x.row.tutor, x.row, x.class)
                       /\ x.row.status = "SCHEDULED" => ~BookingConflict(x.row.tutor, x.row)
  BY DEF CheckUpdate
<1>3. /\ new \in Transactions /\ Carried(x, new) /\ new.stage = "writing"
  BY <1>1, WritingTyped
<1> HIDE DEF x, new
<1>4. ASSUME accepted
      PROVE  Right(new)
  <2>1. new.op = x.op /\ new.row = x.row /\ new.class = x.class
    BY <1>3 DEF Carried
  <2>2. StudentChecked(new)
    BY <1>1, <1>2, <1>3, <1>4, <2>1 DEF StudentChecked, StudentFree, Conflict, TakesTime
  <2>3. TutorChecked(new)
    BY <1>1, <1>2, <1>3, <1>4, <2>1 DEF TutorChecked, TutorFree, Conflict, TakesTime
  <2>4. StaffChecked(new)
    BY <1>1, <2>1 DEF StaffChecked
  <2> QED
    BY <1>1, <1>3, <2>2, <2>3, <2>4, WritingRight
<1>5. new.held \subseteq x.held
  BY <1>3 DEF Carried
<1> QED
  BY <1>2, <1>3, <1>4, <1>5, DecidesKeeps DEF x

\* The later classes of a series are read while the student's lock is held.
LEMMA CheckCancelSeriesKeeps ==
  ASSUME Inv, NEW w \in Workers, CheckCancelSeries(w)
  PROVE  Inv'
<1> DEFINE x == txn[w]
           later == Subsequent(x.row) \ {x.class}
           read == [c \in later |-> session[c]]
           new == [Writing(x) EXCEPT !.later = read]
<1>1. /\ x \in Transactions /\ Right(x) /\ x.op = "cancel_series" /\ x.stage = "first" /\ x.need = <<>>
  BY Checking DEF CheckCancelSeries, Operations
<1>2. PICK accepted \in BOOLEAN :
        /\ Decides(w, accepted, new)
        /\ accepted => ~Conflict(x.student, x.tutor, x.items[1], x.class)
  BY DEF CheckCancelSeries
<1>3. /\ \A c \in later : /\ c \in Scheduled /\ c \in Classes /\ c # x.class /\ x.row.series # None
                          /\ session[c].series = x.row.series /\ session[c].number > x.row.number
      /\ later \in SUBSET Classes
  BY DEF Subsequent, Scheduled
<1>4. /\ x.class \in Classes /\ Exists(x.class) /\ x.row \in ClassRows
      /\ x.row.student = session[x.class].student /\ x.row.series = session[x.class].series
      /\ x.student = x.row.student /\ x.items # <<>>
  BY <1>1 DEF Right, ShapedClass, Transactions
<1> HIDE DEF later
<1>5. read \in [later -> ClassRows]
  BY <1>3 DEF Inv, Typed, RowsTyped
<1>6. read \in UNION {[cs -> ClassRows] : cs \in SUBSET Classes}
  BY <1>3, <1>5
<1>7. DOMAIN read = later /\ \A c \in later : read[c] = session[c]
  OBVIOUS
<1> HIDE DEF x, read
<1>8. Writing(x) \in Transactions /\ Carried(x, Writing(x)) /\ Writing(x).stage = "writing"
  BY <1>1, WritingTyped
<1>9. /\ new \in Transactions /\ Carried(x, new) /\ new.stage = "writing" /\ new.later = read
  BY <1>6, <1>8 DEF Transactions, Carried
<1> HIDE DEF new
<1>10. ASSUME accepted
       PROVE  Right(new)
  <2>1. /\ new.op = "cancel_series" /\ new.student = x.student /\ new.items = x.items
        /\ new.class = x.class /\ new.row = x.row
    BY <1>1, <1>9 DEF Carried
  <2>2. StudentFree(x.student, x.items[1], {x.class})
    BY <1>2, <1>10 DEF StudentFree, Conflict
  <2>3. \A c \in later : session[c].student = x.student
    BY <1>3, <1>4 DEF Inv, RowsRight, ClassesReal, SeriesAgrees, Exists, Scheduled
  <2>4. \A c \in later : session[c].status # "ABSENT" /\ session[c].number > 0
    BY <1>3, <1>4 DEF Scheduled, Inv, Typed, RowsTyped, ClassRows
  <2>5. ASSUME NoLinkEdits, NEW c \in later
        PROVE  /\ StudentFree(x.student, session[c], later \cup {x.class})
               /\ ~Overlap(session[c], x.items[1])
               /\ \A d \in later \ {c} : ~Overlap(session[c], session[d])
    <3>1. \A d \in Scheduled : session[d].student = x.student /\ d # c => ~Overlap(session[d], session[c])
      BY <1>3, <2>3, <2>5 DEF Inv, RowsRight, StudentInOnePlace
    <3>2. \A d \in later \ {c} : ~Overlap(session[c], session[d])
      BY <1>3, <2>3, <2>5 DEF Inv, RowsRight, StudentInOnePlace
    <3>3. ~Overlap(session[c], x.items[1])
      BY <1>3, <2>2, <2>3, <2>5 DEF StudentFree
    <3> QED
      BY <2>5, <3>1, <3>2, <3>3 DEF StudentFree
  <2>6. LaterFree(new)
    BY <1>7, <1>9, <2>1, <2>3, <2>4, <2>5 DEF LaterFree
  <2>7. StudentChecked(new)
    BY <2>1, <2>2, <2>6 DEF StudentChecked, TakesTime
  <2>8. TutorChecked(new) /\ StaffChecked(new)
    BY <2>1 DEF TutorChecked, StaffChecked, TakesTime
  <2>9. \A c \in DOMAIN new.later : Exists(c) /\ c # x.class
    BY <1>3, <1>7, <1>9, <2>4 DEF Exists
  <2> QED
    BY <1>1, <1>9, <2>7, <2>8, <2>9, WritingRight
<1>11. new.held \subseteq x.held
  BY <1>9 DEF Carried
<1> QED
  BY <1>2, <1>9, <1>10, <1>11, DecidesKeeps DEF x

\* The replacements' accounts, if they change, will be locked.
LEMMA CheckReassignKeeps ==
  ASSUME Inv, NEW w \in Workers, CheckReassign(w)
  PROVE  Inv'
<1> DEFINE x == txn[w]
           old == student[x.student]
           mentors == IF x.mentor # old.mentor THEN Given(AccountLock(x.mentor), x.mentor) ELSE <<>>
           tutors == IF x.tutor # old.tutor THEN Given(AccountLock(x.tutor), x.tutor) ELSE <<>>
           new == [x EXCEPT !.stage = "staff", !.pupil = old, !.need = mentors \o tutors]
<1>1. /\ x \in Transactions /\ Right(x) /\ x.op = "reassign" /\ x.stage = "first" /\ x.need = <<>>
  BY Checking DEF CheckReassign, Operations
<1>2. PICK accepted \in BOOLEAN : Decides(w, accepted, new)
  BY DEF CheckReassign
<1>3. /\ x.student \in Students /\ x.mentor \in Mentors \cup {None} /\ x.tutor \in Tutors \cup {None}
      /\ x.op \in ops
  BY <1>1 DEF Right, ShapedStaff, Transactions
<1>4. old \in StudentRows
  BY <1>3 DEF Inv, Typed, RowsTyped
<1>5. /\ mentors \in Seq(Locks)
      /\ x.mentor \notin {None, old.mentor} => Has(mentors, AccountLock(x.mentor))
  BY <1>3, LocksTyped, GivenLock DEF Staff
<1>6. /\ tutors \in Seq(Locks)
      /\ x.tutor \notin {None, old.tutor} => Has(tutors, AccountLock(x.tutor))
  BY <1>3, LocksTyped, GivenLock DEF Staff
<1> HIDE DEF mentors, tutors
<1>7. /\ mentors \o tutors \in Seq(Locks)
      /\ x.mentor \notin {None, old.mentor} => Has(mentors \o tutors, AccountLock(x.mentor))
      /\ x.tutor \notin {None, old.tutor} => Has(mentors \o tutors, AccountLock(x.tutor))
  BY <1>5, <1>6, HasEither
<1> HIDE DEF x, old
<1>8. /\ new \in Transactions /\ new.op = "reassign" /\ new.stage = "staff" /\ new.student = x.student
      /\ new.mentor = x.mentor /\ new.tutor = x.tutor /\ new.pupil = old /\ new.held = x.held
      /\ new.need = mentors \o tutors
  BY ZenonT(60), <1>1, <1>4, <1>7 DEF Transactions
<1> HIDE DEF new
<1>9. Right(new)
  <2>1. ShapedClass(new) /\ ShapedStaff(new)
    BY <1>1, <1>3, <1>4, <1>8 DEF ShapedClass, ShapedStaff
  <2>2. \A lock : Keeps(x, lock) => Keeps(new, lock)
    BY <1>1, <1>8 DEF Keeps, Wants, Has
  <2>3. LocksClasses(new)
    BY <1>1, <1>8, <2>2 DEF Right, LocksClasses, TakesTime
  <2>4. LocksStaff(new)
    BY <1>7, <1>8 DEF LocksStaff, NewMentor, NewTutor, Wants
  <2>5. StudentChecked(new) /\ TutorChecked(new) /\ StaffChecked(new)
    BY <1>8 DEF StudentChecked, TutorChecked, StaffChecked, TakesTime
  <2> QED
    BY <2>1, <2>3, <2>4, <2>5 DEF Right
<1> QED
  BY <1>2, <1>8, <1>9, DecidesKeeps DEF x

\* The replacements are active while their accounts are locked, and the classes that move fit.
LEMMA CheckReassignStaffKeeps ==
  ASSUME Inv, NEW w \in Workers, CheckReassignStaff(w)
  PROVE  Inv'
<1> DEFINE x == txn[w]
           new == Writing(x)
<1>1. /\ x \in Transactions /\ Right(x) /\ x.op = "reassign" /\ x.stage = "staff" /\ x.need = <<>>
  BY Checking DEF CheckReassignStaff, Operations
<1>2. PICK accepted \in BOOLEAN :
        /\ Decides(w, accepted, new)
        /\ accepted => /\ x.mentor # x.pupil.mentor => x.mentor \in active \cup {None}
                       /\ x.tutor \notin {x.pupil.tutor, None} =>
                             x.tutor \in active /\ ~HandoverConflict(OpenClasses({x.student}), x.tutor)
  BY DEF CheckReassignStaff
<1>3. /\ new \in Transactions /\ Carried(x, new) /\ new.stage = "writing"
  BY <1>1, WritingTyped
<1> HIDE DEF x, new
<1>4. ASSUME accepted
      PROVE  Right(new)
  <2>1. /\ new.op = "reassign" /\ new.student = x.student /\ new.mentor = x.mentor /\ new.tutor = x.tutor
        /\ new.pupil = x.pupil
    BY <1>1, <1>3 DEF Carried
  <2>2. StudentChecked(new)
    BY <2>1 DEF StudentChecked, TakesTime
  <2>3. TutorChecked(new)
    BY <1>2, <1>4, <2>1 DEF TutorChecked, NewTutor, TakesTime
  <2>4. StaffChecked(new)
    BY <1>2, <1>4, <2>1 DEF StaffChecked, NewMentor, NewTutor
  <2> QED
    BY <1>1, <1>3, <2>2, <2>3, <2>4, WritingRight
<1>5. new.held \subseteq x.held
  BY <1>3 DEF Carried
<1> QED
  BY <1>2, <1>3, <1>4, <1>5, DecidesKeeps DEF x

\* Whoever is needed of the replacements will be locked.
LEMMA CheckReassignAllKeeps ==
  ASSUME Inv, NEW w \in Workers, CheckReassignAll(w)
  PROVE  Inv'
<1> DEFINE x == txn[w]
           m == IF MentoredBy(x.from) = {} THEN None ELSE x.mentor
           t == IF TutorStudents(x) = {} THEN None ELSE x.tutor
           need == Given(AccountLock(m), m) \o Given(AccountLock(t), t)
           new == [x EXCEPT !.stage = "staff", !.mentor = m, !.tutor = t, !.need = need]
<1>1. /\ x \in Transactions /\ Right(x) /\ x.op = "reassign_all" /\ x.stage = "first" /\ x.need = <<>>
  BY Checking DEF CheckReassignAll, Operations
<1>2. PICK accepted \in BOOLEAN : Decides(w, accepted, new)
  BY DEF CheckReassignAll
<1>3. x.mentor \in Mentors \cup {None} /\ x.tutor \in Tutors \cup {None} /\ x.op \in ops /\ x.from \in Staff
  BY <1>1 DEF Right, ShapedStaff, Transactions
<1>4. m \in Mentors \cup {None} /\ t \in Tutors \cup {None}
  BY <1>3
<1> HIDE DEF m, t
<1>5. /\ Given(AccountLock(m), m) \in Seq(Locks)
      /\ m # None => Has(Given(AccountLock(m), m), AccountLock(m))
  BY <1>4, LocksTyped, GivenLock DEF Staff
<1>6. /\ Given(AccountLock(t), t) \in Seq(Locks)
      /\ t # None => Has(Given(AccountLock(t), t), AccountLock(t))
  BY <1>4, LocksTyped, GivenLock DEF Staff
<1>7. /\ need \in Seq(Locks)
      /\ m # None => Has(need, AccountLock(m))
      /\ t # None => Has(need, AccountLock(t))
  BY <1>5, <1>6, HasEither
<1> HIDE DEF x, need
<1>8. /\ new \in Transactions /\ new.op = "reassign_all" /\ new.stage = "staff" /\ new.from = x.from
      /\ new.mentor = m /\ new.tutor = t /\ new.held = x.held /\ new.need = need
  BY ZenonT(60), <1>1, <1>4, <1>7 DEF Transactions
<1> HIDE DEF new
<1>9. Right(new)
  <2>1. ShapedClass(new) /\ ShapedStaff(new)
    BY <1>1, <1>3, <1>8 DEF ShapedClass, ShapedStaff
  <2>2. LocksClasses(new)
    BY <1>8 DEF LocksClasses, TakesTime
  <2>3. LocksStaff(new)
    BY <1>7, <1>8 DEF LocksStaff, Wants, NewMentor, NewTutor
  <2>4. StudentChecked(new) /\ TutorChecked(new) /\ StaffChecked(new)
    BY <1>8 DEF StudentChecked, TutorChecked, StaffChecked, TakesTime
  <2> QED
    BY <2>1, <2>2, <2>3, <2>4 DEF Right
<1> QED
  BY <1>2, <1>8, <1>9, DecidesKeeps DEF x

\* The replacements of them all are active while their accounts are locked.
LEMMA CheckReassignAllStaffKeeps ==
  ASSUME Inv, NEW w \in Workers, CheckReassignAllStaff(w)
  PROVE  Inv'
<1> DEFINE x == txn[w]
           mentored == IF x.mentor = None THEN {} ELSE MentoredBy(x.from)
           taught == IF x.tutor = None THEN {} ELSE TutorStudents(x)
<1>1. /\ x \in Transactions /\ Right(x) /\ x.op = "reassign_all" /\ x.stage = "staff" /\ x.need = <<>>
  BY Checking DEF CheckReassignAllStaff, Operations
<1>2. PICK order \in SetToSeqs(mentored), next \in SetToSeqs(taught), accepted \in BOOLEAN :
        /\ Decides(w, accepted, [Writing(x) EXCEPT !.need = [n \in DOMAIN order |-> RowLock(order[n])]
                                                            \o [n \in DOMAIN next |-> RowLock(next[n])]])
        /\ accepted => {x.mentor, x.tutor} \subseteq active \cup {None}
  BY DEF CheckReassignAllStaff
<1> DEFINE need == [n \in DOMAIN order |-> RowLock(order[n])] \o [n \in DOMAIN next |-> RowLock(next[n])]
           new == [Writing(x) EXCEPT !.need = need]
<1>3. mentored \in SUBSET Students /\ taught \in SUBSET Students
  BY DEF MentoredBy, TutorStudents, TaughtBy, ActiveOf
<1> HIDE DEF mentored, taught
<1>4. /\ [n \in DOMAIN order |-> RowLock(order[n])] \in Seq(Locks)
      /\ [n \in DOMAIN next |-> RowLock(next[n])] \in Seq(Locks)
  BY <1>3, RowLocksTyped
<1>5. need \in Seq(Locks)
  BY <1>4, HasEither
<1>6. Decides(w, accepted, new)
  BY <1>2
<1> HIDE DEF x, need
<1>7. Writing(x) \in Transactions /\ Carried(x, Writing(x)) /\ Writing(x).stage = "writing"
  BY <1>1, WritingTyped
<1>8. new \in Transactions /\ Carried(x, new) /\ new.stage = "writing"
  <2> DEFINE y == Writing(x)
  <2>1. y \in Transactions /\ Carried(x, y) /\ y.stage = "writing"
    BY <1>7
  <2> HIDE DEF y
  <2>2. [y EXCEPT !.need = need] \in Transactions /\ Carried(x, [y EXCEPT !.need = need])
        /\ [y EXCEPT !.need = need].stage = "writing"
    BY SMTT(60), <1>5, <2>1 DEF Transactions, Carried
  <2> QED
    BY <2>2 DEF y
<1> HIDE DEF new
<1>9. ASSUME accepted
      PROVE  Right(new)
  <2>1. /\ new.op = "reassign_all" /\ new.mentor = x.mentor /\ new.tutor = x.tutor
    BY <1>1, <1>8 DEF Carried
  <2>2. StudentChecked(new) /\ TutorChecked(new)
    BY <2>1 DEF StudentChecked, TutorChecked, TakesTime
  <2>3. StaffChecked(new)
    BY <1>2, <1>9, <2>1 DEF StaffChecked, NewMentor, NewTutor
  <2> QED
    BY <1>1, <1>8, <2>2, <2>3, WritingRight
<1>10. new.held \subseteq x.held
  BY <1>8 DEF Carried
<1> QED
  BY <1>6, <1>8, <1>9, <1>10, DecidesKeeps DEF x

\* Who is deactivated has no ACTIVE student.
LEMMA CheckDeactivateKeeps ==
  ASSUME Inv, NEW w \in Workers, CheckDeactivate(w)
  PROVE  Inv'
<1> DEFINE x == txn[w]
           new == Writing(x)
<1>1. /\ x \in Transactions /\ Right(x) /\ x.op = "deactivate" /\ x.stage = "first" /\ x.need = <<>>
  BY Checking DEF CheckDeactivate, Operations
<1>2. PICK accepted \in BOOLEAN : Decides(w, accepted, new) /\ (accepted => ActiveOf(x.from) = {})
  BY DEF CheckDeactivate
<1>3. /\ new \in Transactions /\ Carried(x, new) /\ new.stage = "writing"
  BY <1>1, WritingTyped
<1> HIDE DEF x, new
<1>4. ASSUME accepted
      PROVE  Right(new)
  <2>1. new.op = "deactivate" /\ new.from = x.from
    BY <1>1, <1>3 DEF Carried
  <2>2. StudentChecked(new) /\ TutorChecked(new) /\ StaffChecked(new)
    BY <1>2, <1>4, <2>1 DEF StudentChecked, TutorChecked, StaffChecked, TakesTime
  <2> QED
    BY <1>1, <1>3, <2>2, WritingRight
<1>5. new.held \subseteq x.held
  BY <1>3 DEF Carried
<1> QED
  BY <1>2, <1>3, <1>4, <1>5, DecidesKeeps DEF x

\* The tutor who is given a booking has nothing else at its time.
LEMMA CheckAssignBookingKeeps ==
  ASSUME Inv, NEW w \in Workers, CheckAssignBooking(w)
  PROVE  Inv'
<1> DEFINE x == txn[w]
           new == Writing(x)
<1>1. /\ x \in Transactions /\ Right(x) /\ x.op = "assign_booking" /\ x.stage = "first" /\ x.need = <<>>
  BY Checking DEF CheckAssignBooking, Operations
<1>2. PICK accepted \in BOOLEAN :
        /\ Decides(w, accepted, new)
        /\ accepted => /\ ~Conflict(None, x.tutor, x.items[1], None)
                       /\ ~BookingConflict(x.tutor, x.items[1])
  BY DEF CheckAssignBooking
<1>3. /\ new \in Transactions /\ Carried(x, new) /\ new.stage = "writing"
  BY <1>1, WritingTyped
<1>4. x.tutor # None
  BY <1>1, TuitionAssumption DEF Right, ShapedClass, Staff
<1> HIDE DEF x, new
<1>5. ASSUME accepted
      PROVE  Right(new)
  <2>1. new.op = "assign_booking" /\ new.tutor = x.tutor /\ new.items = x.items
    BY <1>1, <1>3 DEF Carried
  <2>2. \A c \in Scheduled : c # None
    BY TuitionAssumption DEF Scheduled
  <2>3. TutorChecked(new)
    BY <1>2, <1>4, <1>5, <2>1, <2>2 DEF TutorChecked, TutorFree, Conflict, TakesTime
  <2>4. StudentChecked(new) /\ StaffChecked(new)
    BY <2>1 DEF StudentChecked, StaffChecked, TakesTime
  <2> QED
    BY <1>1, <1>3, <2>3, <2>4, WritingRight
<1>6. new.held \subseteq x.held
  BY <1>3 DEF Carried
<1> QED
  BY <1>2, <1>3, <1>5, <1>6, DecidesKeeps DEF x

-----------------------------------------------------------------------------
(***************************************************************************)
(* Writing                                                                 *)
(***************************************************************************)
\* What a worker may write with the locks it has: a class stays a student's, and in its series;
ClassesWritten(w) ==
    /\ \A c \in Classes : Exists(c) =>
          /\ session'[c].status # "ABSENT"
          /\ session'[c].student = session[c].student /\ session'[c].series = session[c].series
    /\ NoLinkEdits =>
          \A c \in Scheduled' :
              \/ c \in Scheduled /\ session'[c].start = session[c].start /\ session'[c].end = session[c].end
              \/ StudentLock(session'[c].student) \in txn[w].held
    /\ OnlyFitted =>
          \A c \in Scheduled' :
              \/ session'[c].tutor = None
              \/ /\ c \in Scheduled /\ session'[c].tutor = session[c].tutor
                 /\ session'[c].start = session[c].start /\ session'[c].end = session[c].end
              \/ ScheduleLock(session'[c].tutor) \in txn[w].held

\* a student gets only staff whose accounts it has locked.
StaffWritten(w) ==
    /\ \A b \in bookings' \ bookings : ScheduleLock(b.tutor) \in txn[w].held
    /\ \A u \in active \ active' : AccountLock(u) \in txn[w].held
    /\ NoProfiles =>
          \A s \in Students :
              /\ student'[s].status = student[s].status
              /\ \/ student'[s].mentor \in {student[s].mentor, None}
                 \/ AccountLock(student'[s].mentor) \in txn[w].held
              /\ \/ student'[s].tutor \in {student[s].tutor, None}
                 \/ AccountLock(student'[s].tutor) \in txn[w].held

Written(w) ==
    /\ ClassesWritten(w) /\ StaffWritten(w)
    /\ txn' = [txn EXCEPT ![w] = NoTxn] /\ ops' = ops

\* What a transaction has checked stays true while another writes: they have no lock in common.
LEMMA CheckedStays ==
  ASSUME Inv, NEW v \in Workers, NEW w \in Workers \ {v}, Written(w), NEW x, x = txn[v], x.op # None
  PROVE  Right(x)'
<1>1. Right(x) /\ x \in Transactions
  BY DEF Inv, TransactionsRight, Typed
<1>2. \A lock : lock \in x.held => lock \notin txn[w].held
  BY DEF Inv, LocksExclusive
<1>3. \A c \in Classes : Exists(c) =>
        /\ session'[c].status # "ABSENT"
        /\ session'[c].student = session[c].student /\ session'[c].series = session[c].series
  BY DEF Written, ClassesWritten
<1>4. (NoLinkEdits' <=> NoLinkEdits) /\ (OnlyFitted' <=> OnlyFitted) /\ (NoProfiles' <=> NoProfiles)
  BY DEF Written, NoLinkEdits, OnlyFitted, NoProfiles
<1>5. ASSUME NoLinkEdits, NEW s, StudentLock(s) \in x.held, NEW c \in Scheduled', session'[c].student = s
      PROVE  /\ c \in Scheduled /\ session[c].student = s
             /\ session'[c].start = session[c].start /\ session'[c].end = session[c].end
  BY <1>2, <1>3, <1>5 DEF Written, ClassesWritten, Scheduled, Exists
<1>6. ASSUME OnlyFitted, NEW t, t # None, ScheduleLock(t) \in x.held, NEW c \in Scheduled', session'[c].tutor = t
      PROVE  /\ c \in Scheduled /\ session[c].tutor = t
             /\ session'[c].start = session[c].start /\ session'[c].end = session[c].end
  BY <1>2, <1>6 DEF Written, ClassesWritten
<1>7. ASSUME NEW t, ScheduleLock(t) \in x.held, NEW b \in bookings', b.tutor = t
      PROVE  b \in bookings
  BY <1>2, <1>7 DEF Written, StaffWritten
<1>8. ASSUME NoLinkEdits, NEW s, StudentLock(s) \in x.held, NEW time, NEW except,
             StudentFree(s, time, except)
      PROVE  StudentFree(s, time, except)'
  <2>1. ASSUME NEW c \in Scheduled', c \notin except, session'[c].student = s
        PROVE  ~Overlap(session'[c], time)
    BY <1>5, <1>8, <2>1 DEF StudentFree, Overlap
  <2> QED
    BY <2>1 DEF StudentFree
<1>9. ASSUME OnlyFitted, NEW t, t # None, ScheduleLock(t) \in x.held, NEW time, NEW except,
             TutorFree(t, time, except)
      PROVE  TutorFree(t, time, except)'
  <2>1. ASSUME NEW c \in Scheduled', c \notin except, session'[c].tutor = t
        PROVE  ~Overlap(session'[c], time)
    BY <1>6, <1>9, <2>1 DEF TutorFree, Overlap
  <2>2. ~BookingConflict(t, time)'
    BY <1>7, <1>9 DEF TutorFree, BookingConflict
  <2> QED
    BY <2>1, <2>2 DEF TutorFree
<1>10. ShapedClass(x)'
  BY <1>1, <1>3 DEF Right, ShapedClass, Exists, Transactions
<1>11. ShapedStaff(x)' /\ LocksClasses(x)' /\ LocksStaff(x)'
  BY <1>1 DEF Right, ShapedStaff, Written
<1>12. StudentChecked(x)'
  <2>1. ASSUME x.op = "cancel_series", x.stage = "writing", x.items # <<>>
        PROVE  LaterFree(x)'
    <3>1. LaterFree(x) /\ StudentLock(x.student) \in x.held
      BY <1>1, <2>1 DEF Right, StudentChecked, LocksClasses, Keeps
    <3>2. \A c \in DOMAIN x.later : c \in Classes /\ Exists(c)
      BY <1>1, <2>1 DEF Right, ShapedClass, Transactions
    <3> QED
      BY <1>3, <1>4, <1>8, <3>1, <3>2 DEF LaterFree
  <2>2. x.op = "create" /\ x.stage = "writing" => StudentLock(x.student) \in x.held
    BY <1>1 DEF Right, LocksClasses, Keeps
  <2>3. x.op = "cancel_series" /\ x.stage = "writing" /\ x.items # <<>> => StudentLock(x.student) \in x.held
    BY <1>1 DEF Right, LocksClasses, Keeps
  <2>4. TakesTime(x) /\ x.stage = "writing" => StudentLock(x.row.student) \in x.held
    BY <1>1 DEF Right, LocksClasses, Keeps
  <2> QED
    BY <1>1, <1>4, <1>8, <2>1, <2>2, <2>3, <2>4 DEF Right, StudentChecked
<1>13. TutorChecked(x)'
  <2>1. ASSUME OnlyFitted, x.op = "reassign", x.stage = "writing", NewTutor(x)
        PROVE  ~HandoverConflict(OpenClasses({x.student}), x.tutor)'
    <3>1. /\ x.tutor # None /\ StudentLock(x.student) \in x.held /\ ScheduleLock(x.tutor) \in x.held
          /\ ~HandoverConflict(OpenClasses({x.student}), x.tutor)
      BY <1>1, <2>1 DEF Right, LocksClasses, Keeps, TutorChecked, NewTutor
    <3>2. NoLinkEdits
      BY <2>1 DEF OnlyFitted, NoLinkEdits
    <3>3. \A c \in Scheduled' : session'[c].student = x.student =>
            /\ c \in OpenClasses({x.student})
            /\ session'[c].start = session[c].start /\ session'[c].end = session[c].end
      BY <1>5, <3>1, <3>2 DEF OpenClasses
    <3>4. \A c \in Scheduled' : session'[c].student # x.student /\ session'[c].tutor = x.tutor =>
            /\ c \in Scheduled \ OpenClasses({x.student}) /\ session[c].tutor = x.tutor
            /\ session'[c].start = session[c].start /\ session'[c].end = session[c].end
      BY <1>3, <1>6, <2>1, <3>1 DEF OpenClasses, Scheduled, Exists
    <3>5. \A b \in bookings' : b.tutor = x.tutor => b \in bookings
      BY <1>7, <3>1
    <3> QED
      BY <3>1, <3>3, <3>4, <3>5 DEF HandoverConflict, BookingConflict, OpenClasses, Overlap
  <2>2. x.op = "create" /\ x.stage = "writing" /\ x.tutor # None => ScheduleLock(x.tutor) \in x.held
    BY <1>1 DEF Right, LocksClasses, Keeps
  <2>3. x.op = "assign_booking" /\ x.stage = "writing" => x.tutor # None /\ ScheduleLock(x.tutor) \in x.held
    BY <1>1, TuitionAssumption DEF Right, LocksClasses, ShapedClass, Keeps, Staff
  <2>4. TakesTime(x) /\ x.stage = "writing" /\ x.row.tutor # None => ScheduleLock(x.row.tutor) \in x.held
    BY <1>1 DEF Right, LocksClasses, Keeps
  <2> QED
    BY <1>1, <1>4, <1>9, <2>1, <2>2, <2>3, <2>4 DEF Right, TutorChecked
<1>14. StaffChecked(x)'
  <2>1. \A u \in active : AccountLock(u) \in x.held => u \in active'
    BY <1>2 DEF Written, StaffWritten
  <2>2. ASSUME NoProfiles, x.stage = "writing", x.op = "deactivate"
        PROVE  ActiveOf(x.from)' = {}
    <3>1. x.from # None /\ AccountLock(x.from) \in x.held /\ ActiveOf(x.from) = {}
      BY <1>1, <2>2, TuitionAssumption DEF Right, LocksStaff, Keeps, StaffChecked, ShapedStaff
    <3>2. AccountLock(x.from) \notin txn[w].held
      BY <1>2, <3>1
    <3> QED
      BY <2>2, <3>1, <3>2 DEF ActiveOf, Written, StaffWritten
  <2>3. x.stage = "writing" /\ x.op \in {"reassign", "reassign_all"} =>
          /\ NewMentor(x) => AccountLock(x.mentor) \in x.held
          /\ NewTutor(x) => AccountLock(x.tutor) \in x.held
    BY <1>1 DEF Right, LocksStaff
  <2> QED
    BY <1>1, <1>4, <2>1, <2>2, <2>3 DEF Right, StaffChecked
<1> QED
  BY <1>10, <1>11, <1>12, <1>13, <1>14 DEF Right

\* A write within its locks keeps the invariant if it leaves the rows right.
LEMMA WrittenKeeps ==
  ASSUME Inv, NEW w \in Workers, Written(w), RowsTyped', RowsRight'
  PROVE  Inv'
<1>1. \A v \in Workers : txn'[v] = IF v = w THEN NoTxn ELSE txn[v]
  BY DEF Inv, Typed, Written
<1>2. Typed'
  BY NothingTyped DEF Inv, Typed, Written
<1>3. LocksExclusive'
  BY <1>1, NothingTyped DEF Inv, LocksExclusive
<1>4. TransactionsRight'
  <2>1. ASSUME NEW v \in Workers, NEW x, x = txn'[v], x.op # None
        PROVE  Right(x)'
    <3>1. v # w /\ x = txn[v]
      BY <1>1, <2>1, NothingTyped
    <3> QED
      BY <2>1, <3>1, CheckedStays
  <2> QED
    BY <2>1 DEF TransactionsRight
<1> QED
  BY <1>2, <1>3, <1>4 DEF Inv

\* The classes made are distinct.
LEMMA NewDistinct ==
  ASSUME NEW n \in Nat, NEW new \in NewClasses(n)
  PROVE  /\ new \in [1 .. n -> Classes] /\ \A i \in 1 .. n : ~Exists(new[i])
         /\ \A i, j \in 1 .. n : new[i] = new[j] => i = j
<1> DEFINE Before(e) == Cardinality({c \in Absent : c < e})
<1>1. new \in [1 .. n -> Absent] /\ \A i \in 1 .. n : Before(new[i]) = i - 1
  BY DEF NewClasses
<1> HIDE DEF Before
<1>2. \A i, j \in 1 .. n : new[i] = new[j] => i = j
  BY <1>1
<1> QED
  BY <1>1, <1>2 DEF Absent

\* The classes a series gets are its student's.
LEMMA RealKept ==
  ASSUME ClassesReal, NEW made \in SUBSET Classes, NEW s \in Students, NEW k \in Classes \cup {None},
         \A c \in Classes : Exists(c) =>
            /\ session'[c].status # "ABSENT"
            /\ session'[c].student = session[c].student /\ session'[c].series = session[c].series,
         \A c \in Classes \ made : ~Exists(c) => session'[c].status = "ABSENT",
         \A c \in made : ~Exists(c) /\ session'[c].student = s /\ session'[c].series = k,
         k # None =>
            /\ session'[k].status # "ABSENT"
            /\ \A d \in Classes : Exists(d) /\ session[d].series = k => session[d].student = s,
         session \in [Classes -> ClassRows]
  PROVE  ClassesReal'
<1>1. s # None
  BY TuitionAssumption
<1>2. ASSUME NEW c \in Classes, session'[c].status # "ABSENT"
      PROVE  SeriesAgrees(c, session)'
  <2>1. session'[c].student # None
    BY <1>1, <1>2 DEF ClassesReal, SeriesAgrees, Exists
  <2>2. ASSUME session'[c].series # None
        PROVE  session'[session'[c].series].status # "ABSENT"
    <3>1. CASE c \in made
      BY <2>2, <3>1
    <3>2. CASE c \notin made
      BY <1>2, <2>2, <3>2 DEF ClassesReal, SeriesAgrees, Exists, ClassRows
    <3> QED
      BY <3>1, <3>2
  <2>3. ASSUME session'[c].series # None,
               NEW d \in Classes, session'[d].status # "ABSENT", session'[d].series = session'[c].series
        PROVE  session'[d].student = session'[c].student
    <3>1. c \notin made => Exists(c)
      BY <1>2
    <3>2. d \notin made => Exists(d)
      BY <2>3
    <3>3. CASE c \in made /\ d \in made
      BY <3>3
    <3>4. CASE c \in made /\ d \notin made
      BY <2>3, <3>2, <3>4
    <3>5. CASE c \notin made /\ d \in made
      BY <2>3, <3>1, <3>5
    <3>6. CASE c \notin made /\ d \notin made
      BY <2>3, <3>1, <3>2, <3>6 DEF ClassesReal, SeriesAgrees, Exists
    <3> QED
      BY <3>3, <3>4, <3>5, <3>6
  <2> QED
    BY <2>1, <2>2, <2>3 DEF SeriesAgrees
<1> QED
  BY <1>2 DEF ClassesReal, Exists

\* With no class made, the series keep theirs.
LEMMA RealSame ==
  ASSUME ClassesReal, session \in [Classes -> ClassRows],
         \A c \in Classes : Exists(c) =>
            /\ session'[c].status # "ABSENT"
            /\ session'[c].student = session[c].student /\ session'[c].series = session[c].series,
         \A c \in Classes : ~Exists(c) => session'[c].status = "ABSENT"
  PROVE  ClassesReal'
<1>1. ASSUME NEW c \in Classes, session'[c].status # "ABSENT"
      PROVE  SeriesAgrees(c, session)'
  <2>1. Exists(c) /\ SeriesAgrees(c, session) /\ session[c].series \in Classes \cup {None}
    BY <1>1 DEF ClassesReal, ClassRows
  <2> QED
    BY <2>1 DEF SeriesAgrees, Exists
<1> QED
  BY <1>1 DEF ClassesReal, Exists

\* A student stays in one place if what changes is apart from what does not, and from itself.
LEMMA StudentKept ==
  ASSUME StudentInOnePlace, NEW changed \in SUBSET Classes,
         \A c \in Classes \ changed :
            /\ session'[c].status = session[c].status /\ session'[c].student = session[c].student
            /\ session'[c].start = session[c].start /\ session'[c].end = session[c].end,
         \A c \in changed, d \in Scheduled \ changed :
            c \in Scheduled' /\ session[d].student = session'[c].student => ~Overlap(session[d], session'[c]),
         \A c, d \in changed :
            c # d /\ c \in Scheduled' /\ d \in Scheduled' /\ session'[c].student = session'[d].student =>
                ~Overlap(session'[c], session'[d])
  PROVE  StudentInOnePlace'
<1>1. SUFFICES ASSUME NEW c \in Scheduled', NEW d \in Scheduled',
                      c # d, session'[c].student = session'[d].student
               PROVE  ~Overlap(session'[c], session'[d])
  BY DEF StudentInOnePlace
<1>2. \A e \in Classes \ changed : e \in Scheduled' => e \in Scheduled
  BY DEF Scheduled
<1>3. c \in Classes /\ d \in Classes
  BY DEF Scheduled
<1>4. CASE c \in changed /\ d \in changed
  BY <1>1, <1>4
<1>5. CASE c \in changed /\ d \notin changed
  BY <1>1, <1>2, <1>3, <1>5 DEF Overlap
<1>6. CASE c \notin changed /\ d \in changed
  BY <1>1, <1>2, <1>3, <1>6 DEF Overlap
<1>7. CASE c \notin changed /\ d \notin changed
  BY <1>1, <1>2, <1>3, <1>7 DEF StudentInOnePlace, Overlap
<1> QED
  BY <1>4, <1>5, <1>6, <1>7

\* So does a tutor, if the classes that come fit what the tutor has.
LEMMA TutorKept ==
  ASSUME TutorInOnePlace, NEW changed \in SUBSET Classes, NEW t,
         bookings' = bookings,
         \A c \in Classes \ changed : session'[c] = session[c],
         \A c \in changed : c \in Scheduled' => session'[c].tutor \in {t, None},
         \A c \in changed : c \in Scheduled' /\ t # None /\ session'[c].end > Now =>
            /\ \A d \in Scheduled \ changed : session[d].tutor = t => ~Overlap(session[d], session'[c])
            /\ ~BookingConflict(t, session'[c]),
         \A c, d \in changed :
            /\ c # d /\ c \in Scheduled' /\ d \in Scheduled'
            /\ session'[c].end > Now /\ session'[d].end > Now
            => ~Overlap(session'[c], session'[d])
  PROVE  TutorInOnePlace'
<1>1. SUFFICES ASSUME NEW c \in Scheduled', session'[c].tutor # None, session'[c].end > Now
               PROVE  /\ \A d \in Scheduled' \ {c} :
                            session'[d].tutor = session'[c].tutor /\ session'[d].end > Now =>
                                ~Overlap(session'[c], session'[d])
                      /\ ~BookingConflict(session'[c].tutor, session'[c])
  BY DEF TutorInOnePlace, BookingConflict
<1>2. \A e \in Classes \ changed : e \in Scheduled' => e \in Scheduled
  BY DEF Scheduled
<1>3. Scheduled' \subseteq Classes
  BY DEF Scheduled
<1>4. ~BookingConflict(session'[c].tutor, session'[c])
  <2>1. CASE c \in changed
    BY <1>1, <2>1 DEF BookingConflict
  <2>2. CASE c \notin changed
    BY <1>1, <1>2, <1>3, <2>2 DEF TutorInOnePlace, BookingConflict
  <2> QED
    BY <2>1, <2>2
<1>5. ASSUME NEW d \in Scheduled' \ {c}, session'[d].tutor = session'[c].tutor, session'[d].end > Now
      PROVE  ~Overlap(session'[c], session'[d])
  <2>1. CASE c \in changed /\ d \in changed
    BY <1>1, <1>5, <2>1
  <2>2. CASE c \in changed /\ d \notin changed
    BY <1>1, <1>2, <1>3, <1>5, <2>2 DEF Overlap
  <2>3. CASE c \notin changed /\ d \in changed
    BY <1>1, <1>2, <1>3, <1>5, <2>3 DEF Overlap
  <2>4. CASE c \notin changed /\ d \notin changed
    BY <1>1, <1>2, <1>3, <1>5, <2>4 DEF TutorInOnePlace
  <2> QED
    BY <2>1, <2>2, <2>3, <2>4
<1> QED
  BY <1>4, <1>5

\* The order of two times does not matter to their overlap.
LEMMA OverlapSymmetric ==
  ASSUME NEW a, NEW b
  PROVE  Overlap(a, b) <=> Overlap(b, a)
BY DEF Overlap

\* What a transaction that writes is.
LEMMA WritingNow ==
  ASSUME Inv, NEW w \in Workers, NEW op \in Operations, Commits(w, op)
  PROVE  /\ txn[w] \in Transactions /\ Right(txn[w])
         /\ txn[w].op = op /\ txn[w].stage = "writing" /\ op \in ops
         /\ txn' = [txn EXCEPT ![w] = NoTxn] /\ ops' = ops
<1>1. HasLocks(w, op, "writing")
  BY DEF Commits
<1>2. /\ txn[w] \in Transactions /\ Right(txn[w])
      /\ txn[w].op = op /\ txn[w].stage = "writing"
  BY <1>1, Checking
<1> QED
  BY <1>2 DEF Commits, Right, ShapedStaff

\* A step that changes no student and no account leaves them as they should be.
LEMMA StaffUnchanged ==
  ASSUME Inv, UNCHANGED <<student, active>>, ops' = ops
  PROVE  (NoProfiles => StudentsHaveActiveStaff)'
BY DEF Inv, RowsRight, NoProfiles, StudentsHaveActiveStaff

\* The classes made are where they were found to fit.
LEMMA WriteCreateKeeps ==
  ASSUME Inv, NEW w \in Workers, WriteCreate(w)
  PROVE  Inv'
<1> DEFINE x == txn[w]
           count == Len(x.items)
           Row(new, i) == [status |-> "SCHEDULED", student |-> x.student, tutor |-> x.tutor,
                           start |-> x.items[i].start, end |-> x.items[i].end,
                           series |-> IF count = 1 THEN None ELSE new[1],
                           number |-> IF count = 1 THEN 0 ELSE i]
<1>1. /\ x \in Transactions /\ Right(x) /\ x.op = "create" /\ x.stage = "writing" /\ x.op \in ops
      /\ txn' = [txn EXCEPT ![w] = NoTxn] /\ ops' = ops
  BY WritingNow DEF WriteCreate, Operations
<1>2. /\ x.items \in Seq(Windows) /\ count \in Nat /\ DOMAIN x.items = 1 .. count /\ x.items # <<>>
      /\ x.student \in Students /\ x.tutor \in Tutors \cup {None} /\ ~InternalOverlap(x.items)
  BY <1>1 DEF Right, ShapedClass, Transactions
<1>3. PICK new \in NewClasses(count) :
        session' = [c \in Classes |->
            IF \E i \in 1 .. count : new[i] = c
            THEN LET i == CHOOSE i \in 1 .. count : new[i] = c IN Row(new, i)
            ELSE session[c]]
  BY DEF WriteCreate
<1>4. UNCHANGED <<student, active, bookings>>
  BY DEF WriteCreate
<1>5. /\ new \in [1 .. count -> Classes] /\ \A i \in 1 .. count : ~Exists(new[i])
      /\ \A i, j \in 1 .. count : new[i] = new[j] => i = j
  BY <1>2, <1>3, NewDistinct
<1> DEFINE made == {new[i] : i \in 1 .. count}
           k == IF count = 1 THEN None ELSE new[1]
<1>6. made \in SUBSET Classes /\ \A c \in made : \E i \in 1 .. count : c = new[i]
  BY <1>5
<1>7. 1 \in 1 .. count
  BY <1>2
<1>8. k \in Classes \cup {None}
  BY <1>5, <1>7
<1>9. \A i \in 1 .. count : session'[new[i]] = Row(new, i)
  <2>1. ASSUME NEW i \in 1 .. count
        PROVE  session'[new[i]] = Row(new, i)
    <3>1. (CHOOSE j \in 1 .. count : new[j] = new[i]) = i
      BY <1>5
    <3> QED
      BY <1>3, <1>5, <3>1
  <2> QED
    BY <2>1
<1>10. \A c \in Classes \ made : session'[c] = session[c]
  BY <1>3
<1>11. \A i \in 1 .. count : /\ x.items[i] \in Windows /\ x.items[i].start \in Nat /\ x.items[i].end \in Nat
                             /\ Row(new, i) \in ClassRows
  BY <1>2, <1>8, TuitionAssumption DEF ClassRows
<1>12. \A i \in 1 .. count :
         /\ session'[new[i]].status = "SCHEDULED" /\ session'[new[i]].student = x.student
         /\ session'[new[i]].tutor = x.tutor /\ session'[new[i]].series = k
         /\ session'[new[i]].start = x.items[i].start /\ session'[new[i]].end = x.items[i].end
  <2>1. ASSUME NEW i \in 1 .. count
        PROVE  /\ Row(new, i).status = "SCHEDULED" /\ Row(new, i).student = x.student
               /\ Row(new, i).tutor = x.tutor /\ Row(new, i).series = k
               /\ Row(new, i).start = x.items[i].start /\ Row(new, i).end = x.items[i].end
    OBVIOUS
  <2> HIDE DEF Row, k
  <2> QED
    BY <1>9, <2>1
<1> HIDE DEF Row
<1>13. session' \in [Classes -> ClassRows] /\ session \in [Classes -> ClassRows]
  <2>1. \A c \in Classes : session'[c] \in ClassRows
    BY <1>6, <1>9, <1>10, <1>11 DEF Inv, Typed, RowsTyped
  <2>2. session' = [c \in Classes |-> session'[c]]
    BY <1>3
  <2> QED
    BY <2>1, <2>2 DEF Inv, Typed, RowsTyped
<1> HIDE DEF k, made, x
<1>14. /\ StudentLock(x.student) \in txn[w].held
       /\ x.tutor # None => ScheduleLock(x.tutor) \in txn[w].held
  BY <1>1 DEF Right, LocksClasses, Keeps, x
<1>15. \A c \in made : ~Exists(c)
  BY <1>5, <1>6
<1>16. \A c \in Classes : Exists(c) =>
         /\ session'[c].status # "ABSENT"
         /\ session'[c].student = session[c].student /\ session'[c].series = session[c].series
  BY <1>10, <1>15 DEF Exists
<1>17. \A c \in made : /\ session'[c].student = x.student /\ session'[c].tutor = x.tutor
                       /\ session'[c].series = k /\ session'[c].status = "SCHEDULED"
  BY <1>6, <1>12
<1>18. Written(w)
  <2>1. ClassesWritten(w)
    BY <1>10, <1>14, <1>16, <1>17 DEF ClassesWritten, Scheduled
  <2>2. StaffWritten(w)
    BY <1>4 DEF StaffWritten
  <2> QED
    BY <1>1, <2>1, <2>2 DEF Written, x
<1>19. RowsTyped'
  BY <1>1, <1>4, <1>13 DEF RowsTyped, Inv, Typed
<1>20. ClassesReal'
  <2>1. k # None =>
          /\ session'[k].status # "ABSENT"
          /\ \A d \in Classes : Exists(d) /\ session[d].series = k => session[d].student = x.student
    BY <1>5, <1>7, <1>12 DEF Inv, RowsRight, ClassesReal, SeriesAgrees, Exists, k
  <2>2. \A c \in Classes \ made : ~Exists(c) => session'[c].status = "ABSENT"
    BY <1>10 DEF Exists
  <2>3. \A c \in made : ~Exists(c) /\ session'[c].student = x.student /\ session'[c].series = k
    BY <1>15, <1>17
  <2>4. ClassesReal
    BY DEF Inv, RowsRight
  <2> QED
    BY ZenonT(60), <1>2, <1>6, <1>8, <1>13, <1>16, <2>1, <2>2, <2>3, <2>4, RealKept
<1>21. \A c, d \in made : c # d => ~Overlap(session'[c], session'[d])
  <2>1. ASSUME NEW c \in made, NEW d \in made, c # d
        PROVE  ~Overlap(session'[c], session'[d])
    <3>1. PICK i \in 1 .. count : c = new[i]
      BY <1>6
    <3>2. PICK j \in 1 .. count : d = new[j]
      BY <1>6
    <3>3. ~Overlap(x.items[i], x.items[j])
      BY <1>2, <2>1, <3>1, <3>2 DEF InternalOverlap
    <3> QED
      BY <1>12, <3>1, <3>2, <3>3 DEF Overlap
  <2> QED
    BY <2>1
<1>22. (NoLinkEdits => StudentInOnePlace)'
  <2>1. SUFFICES ASSUME NoLinkEdits
                 PROVE  StudentInOnePlace'
    BY <1>1 DEF NoLinkEdits
  <2>2. \A c \in made, d \in Scheduled : session[d].student = session'[c].student => ~Overlap(session[d], session'[c])
    <3>1. \A i \in 1 .. count : StudentFree(x.student, x.items[i], {})
      BY <1>1, <1>2, <2>1 DEF Right, StudentChecked
    <3> QED
      BY <1>6, <1>12, <3>1 DEF StudentFree, Overlap
  <2>3. StudentInOnePlace
    BY <2>1 DEF Inv, RowsRight
  <2> QED
    BY <1>6, <1>10, <1>21, <2>2, <2>3, StudentKept
<1>23. (OnlyFitted => TutorInOnePlace)'
  <2>1. SUFFICES ASSUME OnlyFitted
                 PROVE  TutorInOnePlace'
    BY <1>1 DEF OnlyFitted
  <2>2. ASSUME NEW c \in made, x.tutor # None
        PROVE  /\ \A d \in Scheduled : session[d].tutor = x.tutor => ~Overlap(session[d], session'[c])
               /\ ~BookingConflict(x.tutor, session'[c])
    <3>1. \A i \in 1 .. count : TutorFree(x.tutor, x.items[i], {})
      BY <1>1, <1>2, <2>1, <2>2 DEF Right, TutorChecked
    <3> QED
      BY <1>6, <1>12, <3>1 DEF TutorFree, BookingConflict, Overlap
  <2>3. TutorInOnePlace
    BY <2>1 DEF Inv, RowsRight
  <2> QED
    BY <1>4, <1>6, <1>10, <1>17, <1>21, <2>2, <2>3, TutorKept
<1>24. (NoProfiles => StudentsHaveActiveStaff)'
  BY <1>1, <1>4, StaffUnchanged
<1> QED
  BY <1>18, <1>19, <1>20, <1>22, <1>23, <1>24, WrittenKeeps DEF RowsRight

\* A row saved whole takes its student's and its tutor's time only as it was found free.
LEMMA WriteUpdateKeeps ==
  ASSUME Inv, NEW w \in Workers, WriteUpdate(w)
  PROVE  Inv'
<1> DEFINE x == txn[w]
<1>1. /\ x \in Transactions /\ Right(x) /\ x.op \in {"update_session", "change_tutor", "edit_session"}
      /\ x.stage = "writing" /\ x.op \in ops
      /\ txn' = [txn EXCEPT ![w] = NoTxn] /\ ops' = ops
  BY WritingNow DEF WriteUpdate, Operations
<1>2. /\ x.class \in Classes /\ Exists(x.class) /\ x.row \in ClassRows /\ x.row.status # "ABSENT"
      /\ x.row.student = session[x.class].student /\ x.row.series = session[x.class].series
  BY <1>1 DEF Right, ShapedClass, Transactions
<1>3. session \in [Classes -> ClassRows]
  BY DEF Inv, Typed, RowsTyped
<1>4. /\ \A c \in Classes : session'[c] = IF c = x.class THEN x.row ELSE session[c]
      /\ session' \in [Classes -> ClassRows]
  BY <1>2, <1>3 DEF WriteUpdate
<1>5. UNCHANGED <<student, active, bookings>>
  BY DEF WriteUpdate
<1>6. NoLinkEdits \/ OnlyFitted => (x.row.status = "SCHEDULED" => TakesTime(x))
  BY <1>1 DEF NoLinkEdits, OnlyFitted, TakesTime
<1> HIDE DEF x
<1>7. /\ TakesTime(x) => StudentLock(x.row.student) \in txn[w].held
      /\ TakesTime(x) /\ x.row.tutor # None => ScheduleLock(x.row.tutor) \in txn[w].held
  BY <1>1 DEF Right, LocksClasses, Keeps, x
<1>8. \A c \in Classes : Exists(c) =>
        /\ session'[c].status # "ABSENT"
        /\ session'[c].student = session[c].student /\ session'[c].series = session[c].series
  BY <1>2, <1>4 DEF Exists
<1>9. Written(w)
  <2>1. ClassesWritten(w)
    BY <1>4, <1>6, <1>7, <1>8 DEF ClassesWritten, Scheduled
  <2>2. StaffWritten(w)
    BY <1>5 DEF StaffWritten
  <2> QED
    BY <1>1, <2>1, <2>2 DEF Written, x
<1>10. RowsTyped'
  BY <1>1, <1>4, <1>5 DEF RowsTyped, Inv, Typed
<1>11. ClassesReal'
  <2>1. \A c \in Classes : ~Exists(c) => session'[c].status = "ABSENT"
    BY <1>2, <1>4 DEF Exists
  <2>2. ClassesReal
    BY DEF Inv, RowsRight
  <2> QED
    BY <1>3, <1>8, <2>1, <2>2, RealSame
<1>12. (NoLinkEdits => StudentInOnePlace)'
  <2>1. SUFFICES ASSUME NoLinkEdits
                 PROVE  StudentInOnePlace'
    BY <1>1 DEF NoLinkEdits
  <2>2. ASSUME x.row.status = "SCHEDULED"
        PROVE  StudentFree(x.row.student, x.row, {x.class})
    BY <1>1, <1>6, <2>1, <2>2 DEF Right, StudentChecked
  <2> DEFINE changed == {x.class}
  <2>3. \A c \in changed, d \in Scheduled \ changed :
          c \in Scheduled' /\ session[d].student = session'[c].student => ~Overlap(session[d], session'[c])
    BY <1>2, <1>4, <2>2 DEF StudentFree, Scheduled
  <2>4. /\ changed \in SUBSET Classes
        /\ \A c \in Classes \ changed : session'[c] = session[c]
        /\ \A c, d \in changed : c = d
    BY <1>2, <1>4
  <2>5. StudentInOnePlace
    BY <2>1 DEF Inv, RowsRight
  <2> HIDE DEF changed
  <2> QED
    BY <2>3, <2>4, <2>5, StudentKept
<1>13. (OnlyFitted => TutorInOnePlace)'
  <2>1. SUFFICES ASSUME OnlyFitted
                 PROVE  TutorInOnePlace'
    BY <1>1 DEF OnlyFitted
  <2>2. ASSUME x.row.status = "SCHEDULED", x.row.tutor # None
        PROVE  TutorFree(x.row.tutor, x.row, {x.class})
    BY <1>1, <1>6, <2>1, <2>2 DEF Right, TutorChecked
  <2> DEFINE changed == {x.class}
  <2>3. ASSUME NEW c \in changed, c \in Scheduled', x.row.tutor # None
        PROVE  /\ \A d \in Scheduled \ changed : session[d].tutor = x.row.tutor => ~Overlap(session[d], session'[c])
               /\ ~BookingConflict(x.row.tutor, session'[c])
    BY <1>2, <1>4, <2>2, <2>3 DEF TutorFree, Scheduled
  <2>4. /\ changed \in SUBSET Classes
        /\ \A c \in Classes \ changed : session'[c] = session[c]
        /\ \A c \in changed : session'[c].tutor = x.row.tutor
        /\ \A c, d \in changed : c = d
    BY <1>2, <1>4
  <2>5. TutorInOnePlace
    BY <2>1 DEF Inv, RowsRight
  <2> HIDE DEF changed
  <2> QED
    BY <1>5, <2>3, <2>4, <2>5, TutorKept
<1>14. (NoProfiles => StudentsHaveActiveStaff)'
  BY <1>1, <1>5, StaffUnchanged
<1> QED
  BY <1>9, <1>10, <1>11, <1>12, <1>13, <1>14, WrittenKeeps DEF RowsRight

\* Staff, bookings and accounts change only as they were found free of students and times.
LEMMA WriteAccountKeeps ==
  ASSUME Inv, NEW w \in Workers, WriteDeactivate(w) \/ WriteReactivate(w)
  PROVE  Inv'
<1> DEFINE x == txn[w]
<1>1. /\ x \in Transactions /\ Right(x) /\ x.op \in {"deactivate", "reactivate"}
      /\ x.stage = "writing" /\ x.op \in ops /\ x.from \in Staff
      /\ txn' = [txn EXCEPT ![w] = NoTxn] /\ ops' = ops
  <2>1. PICK op \in {"deactivate", "reactivate"} : Commits(w, op)
    BY DEF WriteDeactivate, WriteReactivate
  <2> QED
    BY <2>1, WritingNow DEF Operations, Right, ShapedStaff
<1>2. UNCHANGED <<session, student, bookings>>
  BY DEF WriteDeactivate, WriteReactivate
<1>3. \/ x.op = "deactivate" /\ active' = active \ {x.from}
      \/ active' = active \cup {x.from}
  BY <1>1, WritingNow DEF WriteDeactivate, WriteReactivate, Operations
<1> HIDE DEF x
<1>4. x.op = "deactivate" => AccountLock(x.from) \in txn[w].held
  BY <1>1 DEF Right, LocksStaff, Keeps, x
<1>5. Written(w)
  <2>1. ClassesWritten(w)
    BY <1>2 DEF ClassesWritten, Scheduled, Exists
  <2>2. StaffWritten(w)
    BY <1>2, <1>3, <1>4 DEF StaffWritten
  <2> QED
    BY <1>1, <2>1, <2>2 DEF Written, x
<1>6. RowsTyped'
  BY <1>1, <1>2, <1>3 DEF RowsTyped, Inv, Typed
<1>7. ClassesReal' /\ (NoLinkEdits => StudentInOnePlace)' /\ (OnlyFitted => TutorInOnePlace)'
  BY <1>1, <1>2 DEF Inv, RowsRight, ClassesReal, SeriesAgrees, Exists, NoLinkEdits, StudentInOnePlace,
                    OnlyFitted, TutorInOnePlace, BookingConflict, Scheduled
<1>8. (NoProfiles => StudentsHaveActiveStaff)'
  <2>1. SUFFICES ASSUME NoProfiles
                 PROVE  StudentsHaveActiveStaff'
    BY <1>1 DEF NoProfiles
  <2>2. StudentsHaveActiveStaff
    BY <2>1 DEF Inv, RowsRight
  <2>3. x.op = "deactivate" => ActiveOf(x.from) = {}
    BY <1>1, <2>1 DEF Right, StaffChecked
  <2> QED
    BY <1>2, <1>3, <2>2, <2>3 DEF StudentsHaveActiveStaff, ActiveOf
<1> QED
  BY <1>5, <1>6, <1>7, <1>8, WrittenKeeps DEF RowsRight

\* A profile saved whole leaves the classes alone.
LEMMA WriteStudentKeeps ==
  ASSUME Inv, NEW w \in Workers, WriteStudent(w)
  PROVE  Inv'
<1> DEFINE x == txn[w]
<1>1. /\ x \in Transactions /\ Right(x) /\ x.op = "edit_student" /\ x.stage = "writing" /\ x.op \in ops
      /\ txn' = [txn EXCEPT ![w] = NoTxn] /\ ops' = ops
  BY WritingNow DEF WriteStudent, Operations
<1>2. UNCHANGED <<session, active, bookings>>
  BY DEF WriteStudent
<1>3. x.student \in Students /\ x.pupil \in StudentRows
  BY <1>1 DEF Right, ShapedStaff
<1>4. student' \in [Students -> StudentRows]
  BY <1>3 DEF WriteStudent, Inv, Typed, RowsTyped
<1>5. ~NoProfiles
  BY <1>1 DEF NoProfiles
<1> HIDE DEF x
<1>6. Written(w)
  <2>1. ClassesWritten(w)
    BY <1>2 DEF ClassesWritten, Scheduled, Exists
  <2>2. StaffWritten(w)
    BY <1>2, <1>5 DEF StaffWritten
  <2> QED
    BY <1>1, <2>1, <2>2 DEF Written
<1>7. RowsTyped'
  BY <1>1, <1>2, <1>4 DEF RowsTyped, Inv, Typed
<1>8. ClassesReal' /\ (NoLinkEdits => StudentInOnePlace)' /\ (OnlyFitted => TutorInOnePlace)'
  BY <1>1, <1>2 DEF Inv, RowsRight, ClassesReal, SeriesAgrees, Exists, NoLinkEdits, StudentInOnePlace,
                    OnlyFitted, TutorInOnePlace, BookingConflict, Scheduled
<1>9. ~NoProfiles'
  BY <1>1, <1>5 DEF NoProfiles
<1> QED
  BY <1>6, <1>7, <1>8, <1>9, WrittenKeeps DEF RowsRight

\* A booking is given to a tutor who is free at its time.
LEMMA WriteAssignBookingKeeps ==
  ASSUME Inv, NEW w \in Workers, WriteAssignBooking(w)
  PROVE  Inv'
<1> DEFINE x == txn[w]
           booking == [tutor |-> x.tutor, start |-> x.items[1].start, end |-> x.items[1].end]
<1>1. /\ x \in Transactions /\ Right(x) /\ x.op = "assign_booking" /\ x.stage = "writing" /\ x.op \in ops
      /\ txn' = [txn EXCEPT ![w] = NoTxn] /\ ops' = ops
  BY WritingNow DEF WriteAssignBooking, Operations
<1>2. UNCHANGED <<session, student, active>> /\ bookings' = bookings \cup {booking}
  BY DEF WriteAssignBooking
<1>3. x.tutor \in Tutors /\ x.items[1] \in Windows
  BY <1>1 DEF Right, ShapedClass, Transactions
<1>4. booking \in BookingRows
  BY <1>3, TuitionAssumption DEF BookingRows
<1>5. booking.tutor = x.tutor /\ \A c : Overlap(booking, c) <=> Overlap(x.items[1], c)
  BY DEF Overlap
<1>6. ScheduleLock(x.tutor) \in txn[w].held
  BY <1>1 DEF Right, LocksClasses, Keeps
<1> HIDE DEF x, booking
<1>7. Written(w)
  <2>1. ClassesWritten(w)
    BY <1>2 DEF ClassesWritten, Scheduled, Exists
  <2>2. StaffWritten(w)
    BY <1>2, <1>5, <1>6 DEF StaffWritten
  <2> QED
    BY <1>1, <2>1, <2>2 DEF Written, x
<1>8. RowsTyped'
  BY <1>1, <1>2, <1>4 DEF RowsTyped, Inv, Typed
<1>9. ClassesReal' /\ (NoLinkEdits => StudentInOnePlace)'
  BY <1>1, <1>2 DEF Inv, RowsRight, ClassesReal, SeriesAgrees, Exists, NoLinkEdits, StudentInOnePlace,
                    Scheduled
<1>10. (OnlyFitted => TutorInOnePlace)'
  <2>1. SUFFICES ASSUME OnlyFitted
                 PROVE  TutorInOnePlace'
    BY <1>1 DEF OnlyFitted
  <2>2. TutorInOnePlace
    BY <2>1 DEF Inv, RowsRight
  <2>3. \A c \in Scheduled : session[c].tutor = x.tutor => ~Overlap(booking, session[c])
    BY <1>1, <1>5, <2>1, OverlapSymmetric DEF Right, TutorChecked, TutorFree
  <2> QED
    BY <1>2, <1>5, <2>2, <2>3 DEF TutorInOnePlace, BookingConflict, Scheduled
<1>11. (NoProfiles => StudentsHaveActiveStaff)'
  BY <1>1, <1>2, StaffUnchanged
<1> QED
  BY <1>7, <1>8, <1>9, <1>10, <1>11, WrittenKeeps DEF RowsRight

\* Classes that only get another tutor stay the student's, at their times.
LEMMA OnlyTutors ==
  ASSUME Inv, NEW w \in Workers, ops' = ops, session' \in [Classes -> ClassRows],
         \A c \in Classes :
            /\ session'[c].status = session[c].status /\ session'[c].student = session[c].student
            /\ session'[c].start = session[c].start /\ session'[c].end = session[c].end
            /\ session'[c].series = session[c].series
  PROVE  /\ ClassesReal' /\ (NoLinkEdits => StudentInOnePlace)'
         /\ \A c \in Classes : Exists(c) =>
               /\ session'[c].status # "ABSENT"
               /\ session'[c].student = session[c].student /\ session'[c].series = session[c].series
         /\ Scheduled' = Scheduled
<1>1. \A c \in Classes : Exists(c) =>
        /\ session'[c].status # "ABSENT"
        /\ session'[c].student = session[c].student /\ session'[c].series = session[c].series
  BY DEF Exists
<1>2. Scheduled' = Scheduled
  BY DEF Scheduled
<1>3. ClassesReal'
  <2>1. \A c \in Classes : ~Exists(c) => session'[c].status = "ABSENT"
    BY DEF Exists
  <2>2. ClassesReal /\ session \in [Classes -> ClassRows]
    BY DEF Inv, RowsRight, Typed, RowsTyped
  <2> QED
    BY <1>1, <2>1, <2>2, RealSame
<1>4. (NoLinkEdits => StudentInOnePlace)'
  <2>1. SUFFICES ASSUME NoLinkEdits
                 PROVE  StudentInOnePlace'
    BY DEF NoLinkEdits
  <2>2. StudentInOnePlace
    BY <2>1 DEF Inv, RowsRight
  <2>3. \A c \in Scheduled : c \in Classes
    BY DEF Scheduled
  <2> QED
    BY <1>2, <2>2, <2>3 DEF StudentInOnePlace, Overlap
<1> QED
  BY <1>1, <1>2, <1>3, <1>4

\* The open classes of a student fit the tutor they come to.
LEMMA WriteReassignKeeps ==
  ASSUME Inv, NEW w \in Workers, WriteReassign(w)
  PROVE  Inv'
<1> DEFINE x == txn[w]
           s == x.student
           moved == IF x.tutor # x.pupil.tutor THEN OpenClasses({s}) ELSE {}
<1>1. /\ x \in Transactions /\ Right(x) /\ x.op = "reassign" /\ x.stage = "writing" /\ x.op \in ops
      /\ txn' = [txn EXCEPT ![w] = NoTxn] /\ ops' = ops
  BY WritingNow DEF WriteReassign, Operations
<1>2. /\ s \in Students /\ x.pupil \in StudentRows
      /\ x.mentor \in Mentors \cup {None} /\ x.tutor \in Tutors \cup {None}
  BY <1>1 DEF Right, ShapedStaff, Transactions
<1>3. UNCHANGED <<active, bookings>>
  BY DEF WriteReassign
<1>4. session \in [Classes -> ClassRows] /\ student \in [Students -> StudentRows]
  BY DEF Inv, Typed, RowsTyped
<1>5. session' = [c \in Classes |-> IF c \in moved THEN [session[c] EXCEPT !.tutor = x.tutor] ELSE session[c]]
  BY DEF WriteReassign
<1>6. /\ student' \in [Students -> StudentRows]
      /\ \A other \in Students \ {s} : student'[other] = student[other]
      /\ student'[s].status = student[s].status
      /\ student'[s].mentor = IF x.mentor # x.pupil.mentor THEN x.mentor ELSE student[s].mentor
      /\ student'[s].tutor = IF x.tutor # x.pupil.tutor THEN x.tutor ELSE student[s].tutor
  <2> DEFINE m == IF x.mentor # x.pupil.mentor THEN x.mentor ELSE student[s].mentor
             t == IF x.tutor # x.pupil.tutor THEN x.tutor ELSE student[s].tutor
             row == [student[s] EXCEPT !.mentor = m, !.tutor = t]
  <2>1. student' = [student EXCEPT ![s] = row]
    BY <1>2, <1>4 DEF WriteReassign, StudentRows
  <2>2. m \in Mentors \cup {None} /\ t \in Tutors \cup {None} /\ student[s] \in StudentRows
    BY <1>2, <1>4 DEF StudentRows
  <2> HIDE DEF m, t
  <2>3. row \in StudentRows /\ row.status = student[s].status /\ row.mentor = m /\ row.tutor = t
    BY <2>2 DEF StudentRows
  <2> HIDE DEF row, s
  <2>4. /\ student' \in [Students -> StudentRows] /\ student'[s] = row
        /\ \A other \in Students \ {s} : student'[other] = student[other]
    BY <1>2, <1>4, <2>1, <2>3
  <2> QED
    BY <2>3, <2>4 DEF m, t, s
<1>7. moved \in SUBSET Classes
  BY DEF OpenClasses, Scheduled
<1>8. \A c \in moved : c \in Scheduled /\ session[c].student = s
  BY DEF OpenClasses
<1>9. moved # {} => moved = OpenClasses({s}) /\ x.tutor # x.pupil.tutor
  OBVIOUS
<1> HIDE DEF moved
<1>10. \A c \in Classes :
         /\ session'[c] \in ClassRows
         /\ session'[c].status = session[c].status /\ session'[c].student = session[c].student
         /\ session'[c].start = session[c].start /\ session'[c].end = session[c].end
         /\ session'[c].series = session[c].series
         /\ session'[c].tutor = IF c \in moved THEN x.tutor ELSE session[c].tutor
         /\ c \notin moved => session'[c] = session[c]
  BY <1>2, <1>4, <1>5 DEF ClassRows
<1>11. session' \in [Classes -> ClassRows]
  BY <1>5, <1>10
<1> HIDE DEF x, s
<1>12. /\ ClassesReal' /\ (NoLinkEdits => StudentInOnePlace)'
       /\ \A c \in Classes : Exists(c) =>
             /\ session'[c].status # "ABSENT"
             /\ session'[c].student = session[c].student /\ session'[c].series = session[c].series
       /\ Scheduled' = Scheduled
  BY <1>1, <1>10, <1>11, OnlyTutors
<1>13. /\ x.tutor # None => ScheduleLock(x.tutor) \in txn[w].held
       /\ x.mentor \notin {None, x.pupil.mentor} => AccountLock(x.mentor) \in txn[w].held
       /\ x.tutor \notin {None, x.pupil.tutor} => AccountLock(x.tutor) \in txn[w].held
  BY <1>1 DEF Right, LocksClasses, LocksStaff, NewMentor, NewTutor, Keeps, x
<1>14. Written(w)
  <2>1. ClassesWritten(w)
    <3>1. \A c \in Scheduled : c \in Classes
      BY DEF Scheduled
    <3> QED
      BY <1>10, <1>12, <1>13, <3>1 DEF ClassesWritten
  <2>2. StaffWritten(w)
    BY <1>3, <1>6, <1>13 DEF StaffWritten
  <2> QED
    BY <1>1, <2>1, <2>2 DEF Written, x
<1>15. RowsTyped'
  BY <1>1, <1>3, <1>6, <1>11 DEF RowsTyped, Inv, Typed
<1>16. (OnlyFitted => TutorInOnePlace)'
  <2>1. SUFFICES ASSUME OnlyFitted
                 PROVE  TutorInOnePlace'
    BY <1>1 DEF OnlyFitted
  <2>2. StudentInOnePlace /\ TutorInOnePlace
    BY <2>1 DEF Inv, RowsRight, OnlyFitted, NoLinkEdits
  <2>3. ASSUME NEW c \in moved, x.tutor # None, session'[c].end > Now
        PROVE  /\ \A d \in Scheduled \ moved : session[d].tutor = x.tutor => ~Overlap(session[d], session'[c])
               /\ ~BookingConflict(x.tutor, session'[c])
    <3>1. ~HandoverConflict(OpenClasses({s}), x.tutor)
      BY <1>1, <1>9, <2>1, <2>3 DEF Right, TutorChecked, NewTutor, s
    <3> QED
      BY <1>7, <1>8, <1>9, <1>10, <2>3, <3>1 DEF HandoverConflict, BookingConflict, Overlap
  <2>4. \A c, d \in moved : c # d => ~Overlap(session'[c], session'[d])
    BY <1>7, <1>8, <1>10, <2>2 DEF StudentInOnePlace, Overlap
  <2>5. /\ \A c \in Classes \ moved : session'[c] = session[c]
        /\ \A c \in moved : session'[c].tutor = x.tutor
        /\ moved \in SUBSET Classes
    BY <1>7, <1>10
  <2> QED
    BY <1>3, <2>2, <2>3, <2>4, <2>5, TutorKept
<1>17. (NoProfiles => StudentsHaveActiveStaff)'
  <2>1. SUFFICES ASSUME NoProfiles
                 PROVE  StudentsHaveActiveStaff'
    BY <1>1 DEF NoProfiles
  <2>2. /\ x.mentor \notin {None, x.pupil.mentor} => x.mentor \in active
        /\ x.tutor \notin {None, x.pupil.tutor} => x.tutor \in active
    BY <1>1, <2>1 DEF Right, StaffChecked, NewMentor, NewTutor
  <2>3. StudentsHaveActiveStaff
    BY <2>1 DEF Inv, RowsRight
  <2> QED
    BY <1>3, <1>6, <2>2, <2>3 DEF StudentsHaveActiveStaff
<1> QED
  BY <1>12, <1>14, <1>15, <1>16, <1>17, WrittenKeeps DEF RowsRight

\* So are those of all of one's students, but for how they fit the tutor.
LEMMA WriteReassignAllKeeps ==
  ASSUME Inv, NEW w \in Workers, WriteReassignAll(w)
  PROVE  Inv'
<1> DEFINE x == txn[w]
           taught == IF x.tutor = None THEN {} ELSE TutorStudents(x)
           mentored == IF x.mentor = None THEN {} ELSE MentoredBy(x.from)
           moved == OpenClasses(taught)
<1>1. /\ x \in Transactions /\ Right(x) /\ x.op = "reassign_all" /\ x.stage = "writing" /\ x.op \in ops
      /\ txn' = [txn EXCEPT ![w] = NoTxn] /\ ops' = ops
  BY WritingNow DEF WriteReassignAll, Operations
<1>2. x.mentor \in Mentors \cup {None} /\ x.tutor \in Tutors \cup {None}
  BY <1>1 DEF Transactions
<1>3. UNCHANGED <<active, bookings>>
  BY DEF WriteReassignAll
<1>4. session \in [Classes -> ClassRows] /\ student \in [Students -> StudentRows]
  BY DEF Inv, Typed, RowsTyped
<1>5. /\ session' = [c \in Classes |-> IF c \in moved THEN [session[c] EXCEPT !.tutor = x.tutor] ELSE session[c]]
      /\ student' = [s \in Students |->
            [student[s] EXCEPT !.mentor = IF s \in mentored THEN x.mentor ELSE student[s].mentor,
                               !.tutor = IF s \in taught THEN x.tutor ELSE student[s].tutor]]
  BY <1>4 DEF WriteReassignAll, StudentRows
<1>6. (mentored # {} => x.mentor # None) /\ (taught # {} => x.tutor # None)
  OBVIOUS
<1> HIDE DEF moved, taught, mentored
<1>7. \A s \in Students :
        /\ student'[s] \in StudentRows /\ student'[s].status = student[s].status
        /\ student'[s].mentor = IF s \in mentored THEN x.mentor ELSE student[s].mentor
        /\ student'[s].tutor = IF s \in taught THEN x.tutor ELSE student[s].tutor
  <2>1. ASSUME NEW s \in Students
        PROVE  /\ student'[s] \in StudentRows /\ student'[s].status = student[s].status
               /\ student'[s].mentor = IF s \in mentored THEN x.mentor ELSE student[s].mentor
               /\ student'[s].tutor = IF s \in taught THEN x.tutor ELSE student[s].tutor
    <3> DEFINE m == IF s \in mentored THEN x.mentor ELSE student[s].mentor
               t == IF s \in taught THEN x.tutor ELSE student[s].tutor
    <3>1. student'[s] = [student[s] EXCEPT !.mentor = m, !.tutor = t] /\ student[s] \in StudentRows
      BY <1>4, <1>5
    <3>2. m \in Mentors \cup {None} /\ t \in Tutors \cup {None}
      BY <1>2, <3>1 DEF StudentRows
    <3> HIDE DEF m, t
    <3>3. /\ student'[s] \in StudentRows /\ student'[s].status = student[s].status
          /\ student'[s].mentor = m /\ student'[s].tutor = t
      BY <3>1, <3>2 DEF StudentRows
    <3> QED
      BY <3>3 DEF m, t
  <2> QED
    BY <2>1
<1>8. student' \in [Students -> StudentRows]
  BY <1>5, <1>7
<1>9. \A c \in Classes :
        /\ session'[c] \in ClassRows
        /\ session'[c].status = session[c].status /\ session'[c].student = session[c].student
        /\ session'[c].start = session[c].start /\ session'[c].end = session[c].end
        /\ session'[c].series = session[c].series
  BY <1>2, <1>4, <1>5 DEF ClassRows
<1>10. session' \in [Classes -> ClassRows]
  BY <1>5, <1>9
<1>11. ~OnlyFitted
  BY <1>1 DEF OnlyFitted
<1> HIDE DEF x
<1>12. /\ ClassesReal' /\ (NoLinkEdits => StudentInOnePlace)'
       /\ \A c \in Classes : Exists(c) =>
             /\ session'[c].status # "ABSENT"
             /\ session'[c].student = session[c].student /\ session'[c].series = session[c].series
       /\ Scheduled' = Scheduled
  BY <1>1, <1>9, <1>10, OnlyTutors
<1>13. /\ x.mentor # None => AccountLock(x.mentor) \in txn[w].held
       /\ x.tutor # None => AccountLock(x.tutor) \in txn[w].held
  BY <1>1 DEF Right, LocksStaff, NewMentor, NewTutor, x
<1>14. Written(w)
  <2>1. ClassesWritten(w)
    <3>1. \A c \in Scheduled : c \in Classes
      BY DEF Scheduled
    <3> QED
      BY <1>9, <1>11, <1>12, <3>1 DEF ClassesWritten
  <2>2. StaffWritten(w)
    BY <1>3, <1>6, <1>7, <1>13 DEF StaffWritten
  <2> QED
    BY <1>1, <2>1, <2>2 DEF Written, x
<1>15. RowsTyped'
  BY <1>1, <1>3, <1>8, <1>10 DEF RowsTyped, Inv, Typed
<1>16. ~OnlyFitted'
  BY <1>1, <1>11 DEF OnlyFitted
<1>17. (NoProfiles => StudentsHaveActiveStaff)'
  <2>1. SUFFICES ASSUME NoProfiles
                 PROVE  StudentsHaveActiveStaff'
    BY <1>1 DEF NoProfiles
  <2>2. (x.mentor # None => x.mentor \in active) /\ (x.tutor # None => x.tutor \in active)
    BY <1>1, <2>1 DEF Right, StaffChecked, NewMentor, NewTutor
  <2>3. StudentsHaveActiveStaff
    BY <2>1 DEF Inv, RowsRight
  <2> QED
    BY <1>3, <1>6, <1>7, <2>2, <2>3 DEF StudentsHaveActiveStaff
<1> QED
  BY <1>12, <1>14, <1>15, <1>16, <1>17, WrittenKeeps DEF RowsRight

\* A series whose class is only cancelled keeps its others.
LEMMA WriteCancelOnly ==
  ASSUME Inv, NEW w \in Workers, WriteCancelSeries(w), txn[w].items = <<>>
  PROVE  Inv'
<1> DEFINE x == txn[w]
<1>1. /\ x \in Transactions /\ Right(x) /\ x.op = "cancel_series" /\ x.stage = "writing" /\ x.op \in ops
      /\ txn' = [txn EXCEPT ![w] = NoTxn] /\ ops' = ops
  BY WritingNow DEF WriteCancelSeries, Operations
<1>2. /\ x.class \in Classes /\ Exists(x.class) /\ x.row \in ClassRows /\ x.row.status = "CANCELLED"
      /\ x.row.student = session[x.class].student /\ x.row.series = session[x.class].series
      /\ DOMAIN x.later = {}
  BY <1>1 DEF Right, ShapedClass, Transactions
<1>3. UNCHANGED <<student, active, bookings>>
  BY DEF WriteCancelSeries
<1>4. session' = [c \in Classes |-> IF c = x.class THEN x.row ELSE session[c]]
  BY <1>2 DEF WriteCancelSeries
<1>5. session \in [Classes -> ClassRows]
  BY DEF Inv, Typed, RowsTyped
<1> HIDE DEF x
<1>6. /\ session' \in [Classes -> ClassRows]
      /\ \A c \in Classes : session'[c] = IF c = x.class THEN x.row ELSE session[c]
  BY <1>2, <1>4, <1>5
<1>7. \A c \in Classes : Exists(c) =>
        /\ session'[c].status # "ABSENT"
        /\ session'[c].student = session[c].student /\ session'[c].series = session[c].series
  BY <1>2, <1>6 DEF Exists
<1>8. ~OnlyFitted /\ ~OnlyFitted'
  BY <1>1 DEF OnlyFitted
<1>9. \A c \in Scheduled' : c \in Scheduled /\ session'[c] = session[c]
  BY <1>2, <1>6 DEF Scheduled
<1>10. Written(w)
  <2>1. ClassesWritten(w)
    BY <1>7, <1>8, <1>9 DEF ClassesWritten
  <2>2. StaffWritten(w)
    BY <1>3 DEF StaffWritten
  <2> QED
    BY <1>1, <2>1, <2>2 DEF Written, x
<1>11. RowsTyped'
  BY <1>1, <1>3, <1>6 DEF RowsTyped, Inv, Typed
<1>12. ClassesReal'
  <2>1. \A c \in Classes : ~Exists(c) => session'[c].status = "ABSENT"
    BY <1>2, <1>6 DEF Exists
  <2>2. ClassesReal
    BY DEF Inv, RowsRight
  <2> QED
    BY <1>5, <1>7, <2>1, <2>2, RealSame
<1>13. (NoLinkEdits => StudentInOnePlace)'
  <2>1. NoLinkEdits' => NoLinkEdits
    BY <1>1 DEF NoLinkEdits
  <2> QED
    BY <1>9, <2>1 DEF Inv, RowsRight, StudentInOnePlace
<1>14. (NoProfiles => StudentsHaveActiveStaff)'
  BY <1>1, <1>3, StaffUnchanged
<1> QED
  BY <1>8, <1>10, <1>11, <1>12, <1>13, <1>14, WrittenKeeps DEF RowsRight

\* The make-up class is where it was found to fit, and the later ones where they were read.
LEMMA WriteCancelAndMake ==
  ASSUME Inv, NEW w \in Workers, WriteCancelSeries(w), txn[w].items # <<>>
  PROVE  Inv'
<1> DEFINE x == txn[w]
           later == DOMAIN x.later
           Saved(c) == IF c = x.class THEN x.row
                       ELSE IF c \in later THEN [x.later[c] EXCEPT !.number = x.later[c].number - 1]
                       ELSE session[c]
<1>1. /\ x \in Transactions /\ Right(x) /\ x.op = "cancel_series" /\ x.stage = "writing" /\ x.op \in ops
      /\ txn' = [txn EXCEPT ![w] = NoTxn] /\ ops' = ops
  BY WritingNow DEF WriteCancelSeries, Operations
<1>2. /\ x.class \in Classes /\ Exists(x.class) /\ x.row \in ClassRows /\ x.row.status = "CANCELLED"
      /\ x.row.student = session[x.class].student /\ x.row.series = session[x.class].series
      /\ x.student = x.row.student
      /\ \A c \in later : Exists(c) /\ c # x.class
      /\ x.items = <<x.items[1]>>
  BY <1>1 DEF Right, ShapedClass, Transactions
<1>3. LaterFree(x) /\ (NoLinkEdits => StudentFree(x.student, x.items[1], {x.class}))
  BY <1>1 DEF Right, StudentChecked
<1>4. UNCHANGED <<student, active, bookings>>
  BY DEF WriteCancelSeries
<1>5. later \in SUBSET Classes /\ x.later \in [later -> ClassRows] /\ x.tutor \in Tutors \cup {None}
  <2>1. PICK cs \in SUBSET Classes : x.later \in [cs -> ClassRows]
    BY <1>1 DEF Transactions
  <2> QED
    BY <1>1, <2>1 DEF Transactions
<1>6. x.items[1] \in Windows
  <2>1. x.items \in Seq(Windows) /\ 1 \in DOMAIN x.items
    BY <1>1, <1>2 DEF Transactions
  <2> QED
    BY <2>1
<1>7. PICK new \in NewClasses(1), last \in later :
        session' = [c \in Classes |->
           IF c = new[1]
           THEN [status |-> "SCHEDULED", student |-> x.student, tutor |-> x.tutor,
                 start |-> x.items[1].start, end |-> x.items[1].end,
                 series |-> x.row.series, number |-> x.later[last].number]
           ELSE Saved(c)]
  BY <1>5 DEF WriteCancelSeries, ClassRows
<1> DEFINE n == new[1]
           row == [status |-> "SCHEDULED", student |-> x.student, tutor |-> x.tutor,
                   start |-> x.items[1].start, end |-> x.items[1].end,
                   series |-> x.row.series, number |-> x.later[last].number]
<1>8. n \in Classes /\ ~Exists(n)
  BY NewDistinct
<1>9. /\ row \in ClassRows /\ row.status = "SCHEDULED" /\ row.student = x.student
      /\ row.start = x.items[1].start /\ row.end = x.items[1].end /\ row.series = x.row.series
  <2>1. x.later[last] \in ClassRows
    BY <1>5
  <2>2. x.items[1].start \in Nat /\ x.items[1].end \in Nat
    BY <1>6, TuitionAssumption
  <2> QED
    BY <1>2, <1>5, <2>1, <2>2 DEF ClassRows
<1>10. session \in [Classes -> ClassRows]
  BY DEF Inv, Typed, RowsTyped
<1> HIDE DEF n, row, x, later
<1>11. \A c \in later :
         /\ Saved(c) \in ClassRows /\ Saved(c).status = x.later[c].status
         /\ Saved(c).student = x.student /\ Saved(c).series = session[c].series
         /\ Saved(c).start = x.later[c].start /\ Saved(c).end = x.later[c].end
         /\ x.later[c].status # "ABSENT" /\ session[c].student = x.student
  <2>1. ASSUME NEW c \in later
        PROVE  /\ Saved(c) \in ClassRows /\ Saved(c).status = x.later[c].status
               /\ Saved(c).student = x.student /\ Saved(c).series = session[c].series
               /\ Saved(c).start = x.later[c].start /\ Saved(c).end = x.later[c].end
               /\ x.later[c].status # "ABSENT" /\ session[c].student = x.student
    <3>1. x.later[c] \in ClassRows
      BY <1>5
    <3>2. x.later[c].number \in Nat /\ x.later[c].number > 0
      BY <1>3, <3>1 DEF LaterFree, ClassRows, later
    <3>3. x.later[c].number - 1 \in Nat
      BY <3>2
    <3>4. Saved(c) = [x.later[c] EXCEPT !.number = x.later[c].number - 1]
      BY <1>2
    <3>5. /\ Saved(c) \in ClassRows /\ Saved(c).status = x.later[c].status
          /\ Saved(c).student = x.later[c].student /\ Saved(c).series = x.later[c].series
          /\ Saved(c).start = x.later[c].start /\ Saved(c).end = x.later[c].end
      <4> HIDE DEF Saved
      <4> QED
        BY <3>1, <3>3, <3>4 DEF ClassRows
    <3> HIDE DEF Saved
    <3> QED
      BY <1>3, <3>5 DEF LaterFree, later
  <2> QED
    BY <2>1
<1>12. /\ Saved(x.class) = x.row
       /\ \A c \in Classes : c # x.class /\ c \notin later => Saved(c) = session[c]
  OBVIOUS
<1> HIDE DEF Saved
<1>13. n # x.class /\ n \notin later
  BY <1>2, <1>8
<1>14. /\ session'[n] = row
       /\ \A c \in Classes : c # n => session'[c] = Saved(c)
       /\ session' = [c \in Classes |-> session'[c]]
  BY <1>7, <1>8 DEF n, row
<1>15. session' \in [Classes -> ClassRows]
  <2>1. \A c \in Classes : session'[c] \in ClassRows
    BY <1>2, <1>9, <1>10, <1>11, <1>12, <1>14
  <2> QED
    BY <1>14, <2>1
<1>16. \A c \in Classes : Exists(c) =>
         /\ session'[c].status # "ABSENT"
         /\ session'[c].student = session[c].student /\ session'[c].series = session[c].series
  BY <1>2, <1>8, <1>11, <1>12, <1>14 DEF Exists
<1>17. ~OnlyFitted /\ ~OnlyFitted'
  BY <1>1 DEF OnlyFitted, x
<1>18. StudentLock(x.student) \in txn[w].held
  BY <1>1 DEF Right, LocksClasses, Keeps, x
<1>19. Written(w)
  <2>1. ClassesWritten(w)
    BY <1>2, <1>9, <1>11, <1>12, <1>14, <1>16, <1>17, <1>18 DEF ClassesWritten, Scheduled
  <2>2. StaffWritten(w)
    BY <1>4 DEF StaffWritten
  <2> QED
    BY <1>1, <2>1, <2>2 DEF Written, x
<1>20. RowsTyped'
  BY <1>1, <1>4, <1>15 DEF RowsTyped, Inv, Typed
<1>21. ClassesReal'
  <2> DEFINE made == {n}
             s == x.student
             k == x.row.series
  <2>1. made \in SUBSET Classes
    BY <1>8
  <2>2. \A c \in Classes \ made : ~Exists(c) => session'[c].status = "ABSENT"
    BY <1>2, <1>12, <1>14 DEF Exists, LaterFree
  <2>3. \A c \in made : ~Exists(c) /\ session'[c].student = s /\ session'[c].series = k
    BY <1>8, <1>9, <1>14
  <2>4. s \in Students /\ k \in Classes \cup {None}
    BY <1>2, ClassHasStudent DEF ClassRows
  <2>5. ClassesReal
    BY DEF Inv, RowsRight
  <2>6. k # None =>
          /\ Exists(k)
          /\ \A d \in Classes : Exists(d) /\ session[d].series = k => session[d].student = s
    BY <1>2, <2>5 DEF ClassesReal, SeriesAgrees, Exists
  <2> HIDE DEF made, s, k
  <2>7. k # None =>
          /\ session'[k].status # "ABSENT"
          /\ \A d \in Classes : Exists(d) /\ session[d].series = k => session[d].student = s
    BY <1>16, <2>4, <2>6
  <2> QED
    BY ZenonT(60), <1>10, <1>16, <2>1, <2>2, <2>3, <2>4, <2>5, <2>7, RealKept
<1>22. (NoLinkEdits => StudentInOnePlace)'
  <2>1. SUFFICES ASSUME NoLinkEdits
                 PROVE  StudentInOnePlace'
    BY <1>1 DEF NoLinkEdits
  <2> DEFINE changed == {n, x.class} \cup later
  <2>2. changed \in SUBSET Classes /\ \A c \in Classes \ changed : session'[c] = session[c]
    BY <1>2, <1>5, <1>8, <1>12, <1>14
  <2>3. x.class \notin Scheduled'
    BY <1>2, <1>12, <1>13, <1>14 DEF Scheduled
  <2>4. ASSUME NEW c \in changed, c \in Scheduled', NEW d \in Scheduled \ changed,
               session[d].student = session'[c].student
        PROVE  ~Overlap(session[d], session'[c])
    <3>1. CASE c = n
      BY <1>3, <1>9, <1>14, <2>1, <2>4, <3>1 DEF StudentFree, Overlap
    <3>2. CASE c \in later
      <4>1. StudentFree(x.student, x.later[c], later \cup {x.class})
        BY <1>3, <2>1, <3>2 DEF LaterFree, later
      <4> QED
        BY <1>5, <1>11, <1>13, <1>14, <2>4, <3>2, <4>1 DEF StudentFree, Overlap
    <3> QED
      BY <2>3, <2>4, <3>1, <3>2
  <2>5. ASSUME NEW c \in changed, NEW d \in changed, c # d, c \in Scheduled', d \in Scheduled'
        PROVE  ~Overlap(session'[c], session'[d])
    <3>1. \A e \in later : /\ ~Overlap(x.later[e], x.items[1])
                           /\ \A f \in later \ {e} : ~Overlap(x.later[e], x.later[f])
      BY <1>3, <2>1 DEF LaterFree, later
    <3>2. \A e \in later : session'[e].start = x.later[e].start /\ session'[e].end = x.later[e].end
      BY <1>5, <1>11, <1>13, <1>14
    <3>3. CASE c \in later /\ d \in later
      BY <2>5, <3>1, <3>2, <3>3 DEF Overlap
    <3>4. CASE c = n /\ d \in later
      BY <1>9, <1>14, <3>1, <3>2, <3>4 DEF Overlap
    <3>5. CASE c \in later /\ d = n
      BY <1>9, <1>14, <3>1, <3>2, <3>5 DEF Overlap
    <3> QED
      BY <2>3, <2>5, <3>3, <3>4, <3>5
  <2>6. StudentInOnePlace
    BY <2>1 DEF Inv, RowsRight
  <2> HIDE DEF changed
  <2> QED
    BY <2>2, <2>4, <2>5, <2>6, StudentKept
<1>23. (NoProfiles => StudentsHaveActiveStaff)'
  BY <1>1, <1>4, StaffUnchanged
<1> QED
  BY <1>17, <1>19, <1>20, <1>21, <1>22, <1>23, WrittenKeeps DEF RowsRight

\* Cancelling a class of a series keeps the invariant, whether a make-up class is made or not.
LEMMA WriteCancelSeriesKeeps ==
  ASSUME Inv, NEW w \in Workers, WriteCancelSeries(w)
  PROVE  Inv'
BY WriteCancelOnly, WriteCancelAndMake

-----------------------------------------------------------------------------
(***************************************************************************)
(* Every step                                                              *)
(***************************************************************************)
\* What there is when it begins is right.
LEMMA InitRight == Init => Inv
<1> SUFFICES ASSUME Init
             PROVE  Inv
  OBVIOUS
<1>1. PICK begin \in AtStart :
        /\ session = begin.session /\ student = begin.student
        /\ bookings = begin.bookings /\ ops = begin.ops
  BY DEF Init
<1>2. active = Staff /\ \A w \in Workers : txn[w] = NoTxn
  BY DEF Init
<1>3. Typed
  <2>1. /\ begin.session \in [Classes -> ClassRows] /\ begin.student \in [Students -> StudentRows]
        /\ begin.bookings \subseteq BookingRows /\ begin.ops \subseteq Operations
    BY TuitionAssumption
  <2>2. txn \in [Workers -> Transactions]
    BY NothingTyped DEF Init
  <2> QED
    BY <1>1, <1>2, <2>1, <2>2 DEF Typed, RowsTyped
<1>4. LocksExclusive /\ TransactionsRight
  BY <1>2, NothingTyped DEF LocksExclusive, TransactionsRight
<1>5. RealRows(session, bookings)
  BY <1>1, StartAssumption
<1>6. ClassesReal
  BY <1>5 DEF RealRows, ClassesReal, Exists
<1>7. StudentInOnePlace
  BY <1>5 DEF RealRows, Apart, StudentInOnePlace, Scheduled
<1>8. TutorInOnePlace
  <2>1. SUFFICES ASSUME NEW c \in Scheduled, session[c].tutor # None, session[c].end > Now
                 PROVE  /\ \A d \in Scheduled \ {c} :
                              session[d].tutor = session[c].tutor /\ session[d].end > Now =>
                                  ~Overlap(session[c], session[d])
                        /\ ~BookingConflict(session[c].tutor, session[c])
    BY DEF TutorInOnePlace
  <2>2. c \in Classes /\ session[c].status = "SCHEDULED"
    BY DEF Scheduled
  <2>3. ~BookingConflict(session[c].tutor, session[c])
    BY <1>5, <2>1, <2>2 DEF RealRows, BookingConflict
  <2>4. ASSUME NEW d \in Scheduled \ {c}, session[d].tutor = session[c].tutor, session[d].end > Now
        PROVE  ~Overlap(session[c], session[d])
    <3>1. d \in Classes /\ session[d].status = "SCHEDULED"
      BY DEF Scheduled
    <3>2. Apart(session[c], session[d])
      BY <1>5, <2>2, <3>1 DEF RealRows
    <3>3. session[c].end \in Nat /\ session[d].end \in Nat /\ Now \in Nat
      BY <1>3, <2>2, <3>1, TuitionAssumption DEF Typed, RowsTyped, ClassRows
    <3> QED
      BY <2>1, <2>2, <2>4, <3>1, <3>2, <3>3 DEF Apart
  <2> QED
    BY <2>3, <2>4
<1>9. StudentsHaveActiveStaff
  BY <1>2, <1>3 DEF StudentsHaveActiveStaff, Typed, RowsTyped, StudentRows, Staff
<1> QED
  BY <1>3, <1>4, <1>6, <1>7, <1>8, <1>9 DEF Inv, RowsRight

\* What a worker does keeps the invariant.
LEMMA NextKeeps == Inv /\ [Next]_vars => Inv'
<1> SUFFICES ASSUME Inv, [Next]_vars
             PROVE  Inv'
  OBVIOUS
<1>1. CASE UNCHANGED vars
  <2>1. UNCHANGED <<tables, ops, txn>>
    BY <1>1 DEF vars
  <2>2. Typed' /\ RowsRight'
    BY <2>1, SameRows DEF Inv, Typed
  <2>3. LocksExclusive'
    BY <2>1 DEF Inv, LocksExclusive
  <2>4. TransactionsRight'
    <3>1. ASSUME NEW v \in Workers, NEW x, x = txn'[v], x.op # None
          PROVE  Right(x)'
      BY <2>1, <3>1, SameRows DEF Inv, TransactionsRight
    <3> QED
      BY <3>1 DEF TransactionsRight
  <2> QED
    BY <2>2, <2>3, <2>4 DEF Inv
<1>2. ASSUME NEW w \in Workers, BeginsClass(w)
      PROVE  Inv'
  BY <1>2, CreateSessionsKeeps, UpdateSessionKeeps, CancelSeriesKeeps DEF BeginsClass
<1>3. ASSUME NEW w \in Workers, BeginsStaff(w)
      PROVE  Inv'
  BY <1>3, ReassignKeeps, ReassignAllKeeps, AccountKeeps, EditStudentKeeps, AssignBookingKeeps DEF BeginsStaff
<1>4. ASSUME NEW w \in Workers, Checks(w)
      PROVE  Inv'
  BY <1>4, CheckCreateKeeps, CheckUpdateKeeps, CheckCancelSeriesKeeps, CheckReassignKeeps,
     CheckReassignStaffKeeps, CheckReassignAllKeeps, CheckReassignAllStaffKeeps,
     CheckDeactivateKeeps, CheckAssignBookingKeeps DEF Checks
<1>5. ASSUME NEW w \in Workers, Writes(w)
      PROVE  Inv'
  BY <1>5, WriteCreateKeeps, WriteUpdateKeeps, WriteCancelSeriesKeeps, WriteReassignKeeps,
     WriteReassignAllKeeps, WriteStudentKeeps, WriteAccountKeeps, WriteAssignBookingKeeps DEF Writes
<1>6. ASSUME NEW w \in Workers, TakeLock(w) \/ DeadlockBroken(w)
      PROVE  Inv'
  BY <1>6, TakeLockKeeps, DeadlockBrokenKeeps
<1> QED
  BY <1>1, <1>2, <1>3, <1>4, <1>5, <1>6 DEF Next

-----------------------------------------------------------------------------
(***************************************************************************)
(* Theorems                                                                *)
(***************************************************************************)
\* Whoever schedules, changes or hands over, what each transaction has checked stays true of the
\* rows until it commits, or the rows it lacks a lock of are among those the theorems below name.
THEOREM Invariant == Spec => []Inv
BY InitRight, NextKeeps, PTL DEF Spec

\* Two requests that see the same empty slot do not both write into it: no student has two classes
\* at a time, in any number of transactions, as long as no class is saved whole without a lock for
\* its links or title.
THEOREM StudentsAreInOnePlace == Spec => [](NoLinkEdits => StudentInOnePlace)
<1>1. Inv => (NoLinkEdits => StudentInOnePlace)
  BY DEF Inv, RowsRight
<1> QED
  BY <1>1, Invariant, PTL

\* Tuition is one-to-one, of what is still to be taught and with the bookings a tutor has: as long
\* as classes come to a tutor only by scheduling, changes and the hand-over of a single student.
THEOREM TutorsAreInOnePlace == Spec => [](OnlyFitted => TutorInOnePlace)
<1>1. Inv => (OnlyFitted => TutorInOnePlace)
  BY DEF Inv, RowsRight
<1> QED
  BY <1>1, Invariant, PTL

\* A deactivation waits until the account's students are handed over: no ACTIVE student is left
\* with staff who have gone, as long as no profile is saved whole as it was read before.
THEOREM StaffOfStudents == Spec => [](NoProfiles => StudentsHaveActiveStaff)
<1>1. Inv => (NoProfiles => StudentsHaveActiveStaff)
  BY DEF Inv, RowsRight
<1> QED
  BY <1>1, Invariant, PTL

-----------------------------------------------------------------------------
(***************************************************************************)
(* The order of the locks                                                  *)
(***************************************************************************)
OfTutor(lock) == lock[1] = "account" /\ lock[2] \in Tutors
OfMentor(lock) == lock[1] = "account" /\ lock[2] \notin Tutors

\* The place of a lock in the order of them all.  A student's row comes before the mentors' accounts
\* where one student is handed over, after them where all of a mentor's are
BeforeAccounts == 4
AfterAccounts == 6

Turn(lock, rows) ==
    IF lock[1] = "team" THEN 0
    ELSE IF OfTutor(lock) THEN 1
    ELSE IF lock[1] = "student" THEN 2
    ELSE IF lock[1] = "schedule" THEN 3
    ELSE IF lock[1] = "row" THEN rows
    ELSE 5

Comes(k, l, rows) ==
    \/ Turn(k, rows) < Turn(l, rows)
    \/ Turn(k, rows) = Turn(l, rows) /\ k[1] = "student" /\ l[1] = "student" /\ k[2] < l[2]

\* A tutor's account is wanted last by some and not by others, but under the tutor's schedule
Sorted(need, rows) ==
    \A m, n \in DOMAIN need : m < n /\ ~OfTutor(need[n]) => Comes(need[m], need[n], rows)

InTurn(x, rows) ==
    /\ Sorted(x.need, rows)
    /\ \A k \in x.held, n \in DOMAIN x.need : ~OfTutor(x.need[n]) => Comes(k, x.need[n], rows)

OfTeam(x) == x.op \in {"deactivate", "reactivate"}

UnderSchedule(x) ==
    ~OfTeam(x) =>
        \A t \in Tutors :
            /\ AccountLock(t) \in x.held => ScheduleLock(t) \in x.held
            /\ \A n \in DOMAIN x.need : x.need[n] = AccountLock(t) =>
                  ScheduleLock(t) \in x.held \/ \E m \in DOMAIN x.need : m < n /\ x.need[m] = ScheduleLock(t)

TeamFirst(x) ==
    OfTeam(x) =>
        \/ x.need = <<>>
        \/ x.held = {TeamLock} /\ x.need = <<AccountLock(x.from)>>
        \/ x.held = {} /\ x.need = <<TeamLock, AccountLock(x.from)>>

WantsOnly(x) ==
    \A lock \in Locks : Wants(x, lock) =>
        /\ x.op = "reassign" /\ x.stage = "first" => lock[1] \in {"student", "schedule", "row"}
        /\ x.op = "reassign_all" /\ x.stage = "first" => lock[1] \in {"student", "schedule"}
        /\ x.op = "reassign_all" /\ x.stage = "staff" => lock[1] # "row" /\ (x.mentor = None => ~OfMentor(lock))

WantsTutor(x) ==
    x.op = "reassign_all" /\ x.stage = "first" /\ x.pupils # {} /\ x.tutor # None => Wants(x, ScheduleLock(x.tutor))

\* The two of which the property speaks
HandsAll(x) == x.op = "reassign_all" /\ x.stage = "writing"
HandsMentored(x) == HandsAll(x) /\ x.mentor # None
HandsOne(x) == x.op = "reassign" /\ x.stage = "staff" /\ x.mentor # x.pupil.mentor

\* Who wants a student's row has the student's lock before it, but for an edit, which wants nothing else, and for
\* those who are all mentored by one
RowsUnder(x) ==
    \A s \in Students :
        Wants(x, RowLock(s)) => x.op = "edit_student" \/ HandsMentored(x) \/ Wants(x, StudentLock(s))

RowsOnly(x) ==
    /\ HandsAll(x) => \A n \in DOMAIN x.need : x.need[n][1] = "row"
    /\ x.op = "edit_student" => x.need = <<>> \/ (x.need = <<RowLock(x.student)>> /\ x.held = {})

WantsPupils(x) ==
    x.op = "reassign_all" /\ x.stage \in {"first", "staff"} => \A s \in x.pupils : Wants(x, StudentLock(s))

Rowed(x) == RowsUnder(x) /\ RowsOnly(x) /\ WantsPupils(x)

Ordered(x) ==
    /\ ~HandsAll(x) => InTurn(x, BeforeAccounts)
    /\ ~HandsAll(x) /\ ~HandsOne(x) => InTurn(x, AfterAccounts)
    /\ UnderSchedule(x) /\ TeamFirst(x) /\ WantsOnly(x) /\ WantsTutor(x) /\ Rowed(x)

OrderInv == \A w \in Workers : Ordered(txn[w])

\* The places of the locks.
LEMMA Turns ==
  /\ \A s \in Students : \A rows : Turn(StudentLock(s), rows) = 2 /\ Turn(RowLock(s), rows) = rows
  /\ \A t \in Tutors : \A rows : Turn(ScheduleLock(t), rows) = 3 /\ Turn(AccountLock(t), rows) = 1
  /\ \A m \in Mentors : \A rows : Turn(AccountLock(m), rows) = 5
  /\ \A rows : Turn(TeamLock, rows) = 0
BY TuitionAssumption DEF Turn, OfTutor, StudentLock, RowLock, ScheduleLock, AccountLock, TeamLock

LEMMA Kinds ==
  /\ \A s : ~OfTutor(StudentLock(s)) /\ ~OfTutor(RowLock(s)) /\ ~OfTutor(ScheduleLock(s))
  /\ \A s : ~OfMentor(StudentLock(s)) /\ ~OfMentor(RowLock(s)) /\ ~OfMentor(ScheduleLock(s))
  /\ \A t \in Tutors : OfTutor(AccountLock(t)) /\ ~OfMentor(AccountLock(t))
  /\ \A m \in Mentors : ~OfTutor(AccountLock(m)) /\ OfMentor(AccountLock(m))
  /\ \A s : StudentLock(s)[1] = "student" /\ RowLock(s)[1] = "row" /\ ScheduleLock(s)[1] = "schedule"
            /\ AccountLock(s)[1] = "account"
  /\ \A s, t : StudentLock(s) # AccountLock(t) /\ RowLock(s) # AccountLock(t) /\ ScheduleLock(s) # AccountLock(t)
  /\ \A s, t : AccountLock(s) = AccountLock(t) => s = t
BY TuitionAssumption DEF OfTutor, OfMentor, StudentLock, RowLock, ScheduleLock, AccountLock

LEMMA TurnTyped ==
  ASSUME NEW lock \in Locks, NEW rows \in {BeforeAccounts, AfterAccounts}
  PROVE  Turn(lock, rows) \in 0 .. 6
BY DEF Turn, BeforeAccounts, AfterAccounts

\* A step of one transaction keeps the order, if what it makes of it is in order.
LEMMA OneOrdered ==
  ASSUME Inv, OrderInv, NEW w \in Workers, NEW new, txn' = [txn EXCEPT ![w] = new], Ordered(new)
  PROVE  OrderInv'
<1>1. \A v \in Workers : txn'[v] = IF v = w THEN new ELSE txn[v]
  BY DEF Inv, Typed
<1>2. ASSUME NEW v \in Workers, NEW x, x = txn'[v]
      PROVE  Ordered(x)
  BY <1>1, <1>2 DEF OrderInv
<1> QED
  BY <1>2 DEF OrderInv

\* No transaction is in order.
LEMMA NothingOrdered == Ordered(NoTxn)
<1>1. /\ NoTxn.need = <<>> /\ NoTxn.held = {} /\ NoTxn.op = None /\ NoTxn.stage = None
  BY DEF NoTxn
<1>2. \A rows : InTurn(NoTxn, rows)
  BY <1>1 DEF InTurn, Sorted
<1>3. UnderSchedule(NoTxn) /\ TeamFirst(NoTxn)
  BY <1>1 DEF UnderSchedule, TeamFirst
<1>4. WantsOnly(NoTxn) /\ WantsTutor(NoTxn)
  BY <1>1 DEF WantsOnly, WantsTutor, Wants, Has
<1>5. Rowed(NoTxn)
  BY <1>1, TuitionAssumption DEF Rowed, RowsUnder, RowsOnly, WantsPupils, HandsAll, Wants, Has, Operations
<1> QED
  BY <1>2, <1>3, <1>4, <1>5 DEF Ordered

\* What is decided is in order if it is when accepted,
LEMMA DecidesOrdered ==
  ASSUME Inv, OrderInv, NEW w \in Workers, NEW new, NEW accepted \in BOOLEAN,
         Decides(w, accepted, new), accepted => Ordered(new)
  PROVE  OrderInv'
<1> DEFINE next == IF accepted THEN new ELSE NoTxn
<1>1. txn' = [txn EXCEPT ![w] = next]
  BY DEF Decides
<1>2. Ordered(next)
  BY NothingOrdered
<1> HIDE DEF next
<1> QED
  BY <1>1, <1>2, OneOrdered

\* and so are the others when one ends.
LEMMA EndsOrdered ==
  ASSUME Inv, OrderInv, NEW w \in Workers, txn' = [txn EXCEPT ![w] = NoTxn]
  PROVE  OrderInv'
BY OneOrdered, NothingOrdered

\* One that has all its locks and wants no more is in order, whatever it goes on to.
LEMMA HasAllOrdered ==
  ASSUME NEW x, NEW new, Ordered(x), x.need = <<>>, new.need = <<>>, new.held = x.held, new.op = x.op,
         new.stage = "writing", new.op # "reassign_all"
  PROVE  Ordered(new)
<1>1. \A rows : InTurn(new, rows)
  BY DEF InTurn, Sorted
<1>2. UnderSchedule(new) /\ TeamFirst(new)
  BY DEF Ordered, UnderSchedule, TeamFirst, OfTeam
<1>3. WantsOnly(new) /\ WantsTutor(new)
  BY DEF WantsOnly, WantsTutor
<1>4. Rowed(new)
  BY DEF Ordered, Rowed, RowsUnder, RowsOnly, WantsPupils, HandsAll, HandsMentored, Wants
<1> QED
  BY <1>1, <1>2, <1>3, <1>4 DEF Ordered

\* Two sequences in turn are so one after the other, if what is in the first comes before what is in the second.
LEMMA SortedEither ==
  ASSUME NEW a \in Seq(Locks), NEW b \in Seq(Locks), NEW rows, Sorted(a, rows), Sorted(b, rows),
         \A m \in DOMAIN a, n \in DOMAIN b : ~OfTutor(b[n]) => Comes(a[m], b[n], rows)
  PROVE  Sorted(a \o b, rows)
<1>1. /\ Len(a \o b) = Len(a) + Len(b)
      /\ \A i \in 1 .. Len(a) : (a \o b)[i] = a[i]
      /\ \A i \in 1 .. Len(b) : (a \o b)[Len(a) + i] = b[i]
  OBVIOUS
<1>2. /\ Len(a) \in Nat /\ DOMAIN a = 1 .. Len(a)
      /\ Len(b) \in Nat /\ DOMAIN b = 1 .. Len(b) /\ DOMAIN (a \o b) = 1 .. Len(a \o b)
  OBVIOUS
<1> DEFINE c == a \o b
<1> SUFFICES ASSUME NEW m \in DOMAIN c, NEW n \in DOMAIN c, m < n, ~OfTutor(c[n])
             PROVE  Comes(c[m], c[n], rows)
  BY DEF Sorted
<1>3. m \in 1 .. Len(a) + Len(b) /\ n \in 1 .. Len(a) + Len(b)
  BY <1>1, <1>2
<1>4. CASE n \in 1 .. Len(a)
  <2>1. m \in 1 .. Len(a) /\ c[m] = a[m] /\ c[n] = a[n]
    BY <1>1, <1>2, <1>3, <1>4
  <2> QED
    BY <1>2, <1>4, <2>1 DEF Sorted
<1>5. CASE m \in 1 .. Len(a) /\ n \notin 1 .. Len(a)
  <2>1. n - Len(a) \in 1 .. Len(b) /\ Len(a) + (n - Len(a)) = n
    BY <1>2, <1>3, <1>5
  <2>2. c[m] = a[m] /\ c[n] = b[n - Len(a)]
    BY <1>1, <1>5, <2>1
  <2> QED
    BY <1>2, <1>5, <2>1, <2>2
<1>6. CASE m \notin 1 .. Len(a)
  <2>1. /\ n - Len(a) \in 1 .. Len(b) /\ Len(a) + (n - Len(a)) = n
        /\ m - Len(a) \in 1 .. Len(b) /\ Len(a) + (m - Len(a)) = m
        /\ m - Len(a) < n - Len(a)
    BY SMTT(30), <1>2, <1>3, <1>6
  <2>2. c[m] = b[m - Len(a)] /\ c[n] = b[n - Len(a)]
    BY <1>1, <2>1
  <2> QED
    BY <1>2, <2>1, <2>2 DEF Sorted
<1> QED
  BY <1>4, <1>5, <1>6

\* A single lock, or none, is in turn.
LEMMA FewSorted ==
  ASSUME NEW lock, NEW x, NEW rows
  PROVE  Sorted(<<lock>>, rows) /\ Sorted(Given(lock, x), rows)
BY DEF Sorted, Given

LEMMA NoneSorted ==
  ASSUME NEW need, need = <<>>
  PROVE  (\A rows : Sorted(need, rows)) /\ \A lock : ~Has(need, lock)
BY DEF Sorted, Has

\* What is given.
LEMMA GivenOnly ==
  ASSUME NEW lock, NEW x, NEW n \in DOMAIN Given(lock, x)
  PROVE  Given(lock, x)[n] = lock /\ x # None
BY DEF Given

\* The locks of scheduling are the student's and the tutor's, in turn.
LEMMA SchedulingSorted ==
  ASSUME NEW s \in Students, NEW t \in Tutors \cup {None}, NEW rows \in {BeforeAccounts, AfterAccounts}
  PROVE  /\ Sorted(LockScheduling(s, t), rows)
         /\ \A lock : Has(LockScheduling(s, t), lock) =>
               lock = StudentLock(s) \/ (t # None /\ lock = ScheduleLock(t))
<1> DEFINE a == <<StudentLock(s)>>
           b == Given(ScheduleLock(t), t)
<1>1. a \in Seq(Locks) /\ b \in Seq(Locks)
  BY LocksTyped, OneLock, GivenLock
<1>2. ASSUME NEW m \in DOMAIN a, NEW n \in DOMAIN b
      PROVE  Comes(a[m], b[n], rows)
  <2>1. a[m] = StudentLock(s)
    OBVIOUS
  <2>2. b[n] = ScheduleLock(t) /\ t # None
    BY GivenOnly
  <2>3. Turn(StudentLock(s), rows) = 2 /\ Turn(ScheduleLock(t), rows) = 3
    BY <2>2, Turns
  <2> QED
    BY <2>1, <2>2, <2>3 DEF Comes
<1>3. Sorted(a, rows) /\ Sorted(b, rows)
  BY FewSorted
<1>4. \A lock : (Has(a, lock) => lock = StudentLock(s)) /\ (Has(b, lock) => t # None /\ lock = ScheduleLock(t))
  BY GivenOnly DEF Has
<1> HIDE DEF a, b
<1>5. Sorted(a \o b, rows)
  BY <1>1, <1>2, <1>3, SortedEither
<1>6. \A lock : Has(a \o b, lock) => Has(a, lock) \/ Has(b, lock)
  BY <1>1, HasEither
<1> QED
  BY <1>4, <1>5, <1>6 DEF LockScheduling, a, b

\* One that wants only students and schedules, and has nothing yet, is in order if they are in turn.
LEMMA BeginsOrdered ==
  ASSUME NEW new, new.held = {}, ~OfTeam(new),
         Sorted(new.need, BeforeAccounts), Sorted(new.need, AfterAccounts),
         \A lock : Has(new.need, lock) => lock[1] \in {"student", "schedule", "row"},
         new.op = "edit_student" => new.need = <<RowLock(new.student)>>,
         new.op # "edit_student" => \A s \in Students : Has(new.need, RowLock(s)) => Has(new.need, StudentLock(s)),
         new.op = "reassign_all" =>
             /\ new.stage = "first" /\ \A lock : Has(new.need, lock) => lock[1] # "row"
             /\ \A s \in new.pupils : Has(new.need, StudentLock(s))
             /\ new.pupils # {} /\ new.tutor # None => Has(new.need, ScheduleLock(new.tutor))
  PROVE  Ordered(new)
<1>1. InTurn(new, BeforeAccounts) /\ InTurn(new, AfterAccounts)
  BY DEF InTurn
<1>2. UnderSchedule(new)
  <2>1. \A n \in DOMAIN new.need : \A t : new.need[n] # AccountLock(t)
    <3>1. ASSUME NEW n \in DOMAIN new.need, NEW t, new.need[n] = AccountLock(t)
          PROVE  FALSE
      <4>1. Has(new.need, AccountLock(t))
        BY <3>1 DEF Has
      <4> QED
        BY <4>1, Kinds
    <3> QED
      BY <3>1
  <2> QED
    BY <2>1 DEF UnderSchedule
<1>3. TeamFirst(new) /\ WantsOnly(new) /\ WantsTutor(new)
  BY DEF TeamFirst, WantsOnly, WantsTutor, Wants
<1>4. Rowed(new)
  BY DEF Rowed, RowsUnder, RowsOnly, WantsPupils, HandsAll, Wants
<1> QED
  BY <1>1, <1>2, <1>3, <1>4 DEF Ordered

\* Scheduling begins in order.
LEMMA CreateSessionsOrdered ==
  ASSUME Inv, OrderInv, NEW w \in Workers, NEW s \in Students, NEW items \in Requests, CreateSessions(w, s, items)
  PROVE  OrderInv'
<1> DEFINE t == student[s].tutor
           need == LockScheduling(s, t)
           new == [NoTxn EXCEPT !.op = "create", !.stage = "first", !.student = s, !.tutor = t,
                                !.items = items, !.need = need]
<1>1. txn' = [txn EXCEPT ![w] = new]
  BY DEF CreateSessions, Begins
<1>2. t \in Tutors \cup {None}
  BY DEF Inv, Typed, RowsTyped, StudentRows
<1>3. new.op = "create" /\ new.held = {} /\ new.need = need
  BY DEF NoTxn
<1> HIDE DEF new, t
<1>4. /\ Sorted(need, BeforeAccounts) /\ Sorted(need, AfterAccounts)
      /\ \A lock : Has(need, lock) => lock[1] \in {"student", "schedule"}
  BY <1>2, SchedulingSorted, Kinds
<1> HIDE DEF need
<1>5. \A s1 : ~Has(need, RowLock(s1))
  BY <1>4, Kinds
<1>6. Ordered(new)
  BY <1>3, <1>4, <1>5, BeginsOrdered DEF OfTeam
<1> QED
  BY <1>1, <1>6, OneOrdered

\* So does a change, which may want nothing,
LEMMA UpdateSessionOrdered ==
  ASSUME Inv, OrderInv, NEW w \in Workers, NEW c \in Classes, NEW change \in Changes, NEW t \in Tutors \cup {None},
         UpdateSession(w, c, change.status, change.time, t)
  PROVE  OrderInv'
<1> DEFINE status == change.status
           time == change.time
           old == session[c]
           row == [old EXCEPT !.status = status, !.tutor = t,
                              !.start = IF time = None THEN old.start ELSE time.start,
                              !.end = IF time = None THEN old.end ELSE time.end]
           checked == \/ time # None \/ t # old.tutor
                      \/ (status = "SCHEDULED" /\ old.status # "SCHEDULED")
           op == IF t # old.tutor THEN "change_tutor"
                 ELSE IF status = old.status /\ time = None THEN "edit_session" ELSE "update_session"
           stage == IF checked THEN "first" ELSE "writing"
           need == IF checked THEN LockScheduling(old.student, t) ELSE <<>>
           new == [NoTxn EXCEPT !.op = op, !.stage = stage, !.class = c, !.row = row,
                                !.timed = time # None, !.need = need]
<1>1. txn' = [txn EXCEPT ![w] = new]
  BY DEF UpdateSession, Begins
<1>2. session[c].student \in Students
  BY ClassHasStudent DEF UpdateSession
<1>3. new.op = op /\ new.held = {} /\ new.need = need /\ op \in {"change_tutor", "edit_session", "update_session"}
  BY DEF NoTxn
<1> HIDE DEF new, op
<1>4. /\ Sorted(need, BeforeAccounts) /\ Sorted(need, AfterAccounts)
      /\ \A lock : Has(need, lock) => lock[1] \in {"student", "schedule"}
  <2>1. need = <<>> \/ need = LockScheduling(session[c].student, t)
    OBVIOUS
  <2> HIDE DEF need
  <2>2. CASE need = <<>>
    BY <2>2, NoneSorted
  <2>3. CASE need = LockScheduling(session[c].student, t)
    BY <1>2, <2>3, SchedulingSorted, Kinds
  <2> QED
    BY <2>1, <2>2, <2>3
<1> HIDE DEF need
<1>5. \A s1 : ~Has(need, RowLock(s1))
  BY <1>4, Kinds
<1>6. Ordered(new)
  BY <1>3, <1>4, <1>5, BeginsOrdered DEF OfTeam
<1> QED
  BY <1>1, <1>6, OneOrdered

\* and the cancellation of a series.
LEMMA CancelSeriesOrdered ==
  ASSUME Inv, OrderInv, NEW w \in Workers, NEW c \in Classes, NEW time \in Windows \cup {None}, CancelSeries(w, c, time)
  PROVE  OrderInv'
<1> DEFINE row == session[c]
           s == row.student
           t == student[s].tutor
           x == [NoTxn EXCEPT !.op = "cancel_series", !.class = c, !.student = s,
                              !.row = [row EXCEPT !.status = "CANCELLED"]]
           only == Writing(x)
           made == [x EXCEPT !.stage = "first", !.items = <<time>>, !.tutor = t, !.need = LockScheduling(s, t)]
<1>1. /\ Exists(c)
      /\ txn' = [txn EXCEPT ![w] = only] \/ txn' = [txn EXCEPT ![w] = made]
  BY DEF CancelSeries, Exists, Begins
<1>2. s \in Students /\ t \in Tutors \cup {None}
  BY <1>1, ClassHasStudent DEF Inv, Typed, RowsTyped, StudentRows
<1>3. /\ only.op = "cancel_series" /\ only.held = {} /\ only.need = <<>>
      /\ made.op = "cancel_series" /\ made.held = {} /\ made.need = LockScheduling(s, t)
  BY DEF NoTxn, Writing
<1> HIDE DEF only, made, s, t
<1>4. /\ Sorted(made.need, BeforeAccounts) /\ Sorted(made.need, AfterAccounts)
      /\ \A lock : Has(made.need, lock) => lock[1] \in {"student", "schedule"}
  BY <1>2, <1>3, SchedulingSorted, Kinds
<1>5. /\ Sorted(only.need, BeforeAccounts) /\ Sorted(only.need, AfterAccounts)
      /\ \A lock : ~Has(only.need, lock)
  BY <1>3, NoneSorted
<1>6. \A s1 : ~Has(made.need, RowLock(s1))
  BY <1>4, Kinds
<1>7. Ordered(only) /\ Ordered(made)
  BY <1>3, <1>4, <1>5, <1>6, BeginsOrdered DEF OfTeam
<1> QED
  BY <1>1, <1>7, OneOrdered

\* The hand-over of one student wants the row last,
LEMMA ReassignOrdered ==
  ASSUME Inv, OrderInv, NEW w \in Workers, NEW to \in Handovers, NEW s \in Students, Reassign(w, s, to.mentor, to.tutor)
  PROVE  OrderInv'
<1> DEFINE t == to.tutor
           first == LockScheduling(s, t)
           need == Append(first, RowLock(s))
           new == [NoTxn EXCEPT !.op = "reassign", !.stage = "first", !.student = s, !.mentor = to.mentor,
                                !.tutor = t, !.need = need]
<1>1. txn' = [txn EXCEPT ![w] = new]
  BY DEF Reassign, Begins
<1>2. t \in Tutors \cup {None}
  BY TuitionAssumption
<1>3. new.op = "reassign" /\ new.held = {} /\ new.need = need
  BY DEF NoTxn
<1> HIDE DEF new, t
<1>4. first \in Seq(Locks) /\ <<RowLock(s)>> \in Seq(Locks) /\ need = first \o <<RowLock(s)>>
  BY <1>2, LocksScheduling, LocksTyped, OneLock
<1>5. /\ Sorted(first, BeforeAccounts) /\ Sorted(first, AfterAccounts)
      /\ \A lock : Has(first, lock) => lock = StudentLock(s) \/ (t # None /\ lock = ScheduleLock(t))
  BY <1>2, SchedulingSorted
<1> HIDE DEF first, need
<1>6. ASSUME NEW rows \in {BeforeAccounts, AfterAccounts}
      PROVE  Sorted(need, rows)
  <2> DEFINE b == <<RowLock(s)>>
  <2>1. ASSUME NEW m \in DOMAIN first, NEW n \in DOMAIN b
        PROVE  Comes(first[m], b[n], rows)
    <3>1. b[n] = RowLock(s)
      OBVIOUS
    <3>2. first[m] = StudentLock(s) \/ (t # None /\ first[m] = ScheduleLock(t))
      BY <1>5 DEF Has
    <3>3. Turn(first[m], rows) \in {2, 3} /\ Turn(RowLock(s), rows) = rows
      BY <1>2, <3>2, Turns
    <3> QED
      BY <3>1, <3>3 DEF Comes, BeforeAccounts, AfterAccounts
  <2>2. Sorted(b, rows)
    BY FewSorted
  <2> HIDE DEF b
  <2>3. Sorted(first, rows)
    BY <1>5
  <2>4. b \in Seq(Locks) /\ need = first \o b
    BY <1>4 DEF b
  <2> QED
    BY <1>4, <2>1, <2>2, <2>3, <2>4, SortedEither
<1>7. \A lock : Has(need, lock) => lock[1] \in {"student", "schedule", "row"}
  <2>1. \A lock : Has(need, lock) => Has(first, lock) \/ Has(<<RowLock(s)>>, lock)
    BY <1>4, HasEither
  <2>2. \A lock : Has(<<RowLock(s)>>, lock) => lock = RowLock(s)
    BY DEF Has
  <2> QED
    BY <1>5, <2>1, <2>2, Kinds
<1>8. ASSUME NEW s1 \in Students, Has(need, RowLock(s1))
      PROVE  Has(need, StudentLock(s1))
  <2>1. Has(first, RowLock(s1)) \/ Has(<<RowLock(s)>>, RowLock(s1))
    BY <1>4, <1>8, HasEither
  <2>2. ~Has(first, RowLock(s1))
    BY <1>5, Kinds
  <2>3. s1 = s
    BY <2>1, <2>2 DEF Has, RowLock
  <2>4. Has(first, StudentLock(s))
    BY <1>2, LocksScheduling DEF first
  <2> QED
    BY <1>4, <2>3, <2>4, HasEither
<1>9. Ordered(new)
  BY <1>3, <1>6, <1>7, <1>8, BeginsOrdered DEF OfTeam
<1> QED
  BY <1>1, <1>9, OneOrdered

\* Locks of students are in turn if the students are.
LEMMA StudentsSorted ==
  ASSUME NEW ss \in SUBSET Students, NEW order \in InOrder(ss), NEW rows \in {BeforeAccounts, AfterAccounts}
  PROVE  /\ [n \in DOMAIN order |-> StudentLock(order[n])] \in Seq(Locks)
         /\ Sorted([n \in DOMAIN order |-> StudentLock(order[n])], rows)
<1>1. Cardinality(ss) \in Nat /\ order \in [1 .. Cardinality(ss) -> ss]
  BY InOrderTyped
<1>2. \A m, n \in DOMAIN order : m < n => order[m] < order[n]
  BY DEF InOrder
<1>3. \A n \in DOMAIN order : order[n] \in Students
  BY <1>1
<1> DEFINE students == [n \in DOMAIN order |-> StudentLock(order[n])]
<1>4. students \in Seq(Locks)
  BY <1>1, <1>3, LocksTyped
<1>5. ASSUME NEW m \in DOMAIN order, NEW n \in DOMAIN order, m < n
      PROVE  Comes(StudentLock(order[m]), StudentLock(order[n]), rows)
  <2>1. Turn(StudentLock(order[m]), rows) = 2 /\ Turn(StudentLock(order[n]), rows) = 2
    BY <1>3, Turns
  <2>2. order[m] < order[n]
    BY <1>2, <1>5
  <2> QED
    BY <2>1, <2>2 DEF Comes, StudentLock
<1>6. Sorted(students, rows)
  BY <1>5 DEF Sorted
<1> QED
  BY <1>4, <1>6

\* Every student of the set has a place in the order.
LEMMA StudentsInOrder ==
  ASSUME NEW ss \in SUBSET Students, NEW order \in InOrder(ss), NEW s \in ss
  PROVE  Has([n \in DOMAIN order |-> StudentLock(order[n])], StudentLock(s))
<1> DEFINE N == Cardinality(ss)
<1>1. N \in Nat /\ order \in [1 .. N -> ss] /\ IsFiniteSet(ss)
  BY InOrderTyped, TuitionAssumption, FS_Subset
<1>2. ASSUME NEW m \in 1 .. N, NEW n \in 1 .. N, m # n
      PROVE  order[m] # order[n]
  <2>1. m < n \/ n < m
    BY <1>1, <1>2
  <2>2. order[m] \in Nat /\ order[n] \in Nat
    BY <1>1, TuitionAssumption
  <2>3. order[m] < order[n] \/ order[n] < order[m]
    BY <1>1, <2>1 DEF InOrder
  <2> QED
    BY <2>2, <2>3
<1>3. order \in Injection(1 .. N, ss)
  BY <1>1, <1>2 DEF Injection, IsInjective
<1>4. Cardinality(1 .. N) = N
  BY <1>1, FS_Interval
<1>5. order \in Surjection(1 .. N, ss)
  BY <1>1, <1>3, <1>4, FS_Injection
<1>6. PICK n \in 1 .. N : order[n] = s
  BY <1>5 DEF Surjection
<1>7. n \in DOMAIN order
  BY <1>1, <1>6
<1> QED
  BY <1>6, <1>7 DEF Has

\* and that of all of one's students the schedule, if any are taught.
LEMMA ReassignAllOrdered ==
  ASSUME Inv, OrderInv, NEW w \in Workers, NEW to \in Handovers, NEW u \in Staff, ReassignAll(w, u, to.mentor, to.tutor)
  PROVE  OrderInv'
<1> DEFINE t == to.tutor
           taught == TaughtBy(u)
           last == Given(ScheduleLock(t), t)
<1>1. t \in Tutors \cup {None} /\ taught \in SUBSET Students
  BY TuitionAssumption DEF TaughtBy, ActiveOf
<1>2. PICK order \in InOrder(taught) :
        txn' = [txn EXCEPT ![w] =
                  [NoTxn EXCEPT !.op = "reassign_all", !.stage = "first", !.from = u, !.mentor = to.mentor,
                                !.tutor = t, !.pupils = taught,
                                !.need = IF taught = {} THEN <<>>
                                         ELSE [n \in DOMAIN order |-> StudentLock(order[n])] \o last]]
  BY DEF ReassignAll, Begins
<1> DEFINE locks == [n \in DOMAIN order |-> StudentLock(order[n])]
           need == IF taught = {} THEN <<>> ELSE locks \o last
           new == [NoTxn EXCEPT !.op = "reassign_all", !.stage = "first", !.from = u, !.mentor = to.mentor,
                                !.tutor = t, !.pupils = taught, !.need = need]
<1>3. txn' = [txn EXCEPT ![w] = new]
  BY <1>2
<1>4. /\ new.op = "reassign_all" /\ new.stage = "first" /\ new.tutor = t /\ new.pupils = taught
      /\ new.held = {} /\ new.need = need
  BY DEF NoTxn
<1> HIDE DEF new, t, taught
<1>5. /\ locks \in Seq(Locks) /\ last \in Seq(Locks)
      /\ Sorted(locks, BeforeAccounts) /\ Sorted(locks, AfterAccounts)
  BY <1>1, StudentsSorted, LocksTyped, GivenLock
<1>6. \A n \in DOMAIN locks : \E s \in Students : locks[n] = StudentLock(s)
  BY <1>1, InOrderTyped
<1>7. /\ \A n \in DOMAIN last : t # None /\ last[n] = ScheduleLock(t)
      /\ t # None => Has(last, ScheduleLock(t))
  BY GivenOnly DEF Has, Given
<1>8. ASSUME NEW rows \in {BeforeAccounts, AfterAccounts}
      PROVE  Sorted(last, rows)
  BY FewSorted
<1>9. \A s \in taught : Has(locks, StudentLock(s))
  BY <1>1, StudentsInOrder
<1> HIDE DEF locks, last
<1>10. ASSUME NEW rows \in {BeforeAccounts, AfterAccounts}
      PROVE  Sorted(locks \o last, rows)
  <2>1. ASSUME NEW m \in DOMAIN locks, NEW n \in DOMAIN last
        PROVE  Comes(locks[m], last[n], rows)
    <3>1. PICK s \in Students : locks[m] = StudentLock(s)
      BY <1>6
    <3>2. t \in Tutors /\ last[n] = ScheduleLock(t)
      BY <1>1, <1>7
    <3> QED
      BY <3>1, <3>2, Turns DEF Comes
  <2>2. Sorted(locks, rows) /\ Sorted(last, rows)
    BY <1>5, <1>8
  <2> QED
    BY <1>5, <2>1, <2>2, SortedEither
<1>11. \A lock : Has(locks \o last, lock) => Has(locks, lock) \/ Has(last, lock)
  BY <1>5, HasEither
<1>12. t # None => Has(locks \o last, ScheduleLock(t))
  BY <1>5, <1>7, HasEither
<1>13. \A s \in taught : Has(locks \o last, StudentLock(s))
  BY <1>5, <1>9, HasEither
<1>14. \A lock : Has(locks \o last, lock) => lock[1] \in {"student", "schedule"}
  <2>1. \A lock : Has(locks, lock) => lock[1] = "student"
    BY <1>6, Kinds DEF Has
  <2>2. \A lock : Has(last, lock) => lock[1] = "schedule"
    BY <1>7, Kinds DEF Has
  <2> QED
    BY <1>11, <2>1, <2>2
<1>15. /\ Sorted(need, BeforeAccounts) /\ Sorted(need, AfterAccounts)
       /\ \A lock : Has(need, lock) => lock[1] \in {"student", "schedule"}
       /\ taught # {} /\ t # None => Has(need, ScheduleLock(t))
       /\ \A s \in taught : Has(need, StudentLock(s))
  <2>1. CASE taught = {}
    <3>1. need = <<>>
      BY <2>1
    <3> QED
      BY <2>1, <3>1, NoneSorted
  <2>2. CASE taught # {}
    <3>1. need = locks \o last
      BY <2>2
    <3> HIDE DEF need
    <3> QED
      BY <1>10, <1>12, <1>14, <1>13, <3>1
  <2> QED
    BY <2>1, <2>2
<1> HIDE DEF need
<1>16. \A s : ~Has(need, RowLock(s))
  BY <1>15, Kinds
<1>17. Ordered(new)
  BY <1>4, <1>15, <1>16, BeginsOrdered DEF OfTeam
<1> QED
  BY <1>3, <1>17, OneOrdered

\* A profile wants its row,
LEMMA EditStudentOrdered ==
  ASSUME Inv, OrderInv, NEW w \in Workers, NEW s \in Students, NEW status \in {"ACTIVE", "INACTIVE"},
         EditStudent(w, s, status)
  PROVE  OrderInv'
<1> DEFINE need == <<RowLock(s)>>
           new == [NoTxn EXCEPT !.op = "edit_student", !.stage = "writing", !.student = s,
                                !.pupil = [student[s] EXCEPT !.status = status], !.need = need]
<1>1. txn' = [txn EXCEPT ![w] = new]
  BY DEF EditStudent, Begins
<1>2. new.op = "edit_student" /\ new.held = {} /\ new.need = need /\ new.need = <<RowLock(new.student)>>
  BY DEF NoTxn
<1>3. \A lock : Has(need, lock) => lock = RowLock(s)
  BY DEF Has
<1>4. Sorted(need, BeforeAccounts) /\ Sorted(need, AfterAccounts)
  BY FewSorted
<1> HIDE DEF new, need
<1>5. Ordered(new)
  BY <1>2, <1>3, <1>4, Kinds, BeginsOrdered DEF OfTeam
<1> QED
  BY <1>1, <1>5, OneOrdered

\* a change of an account the team and then the account,
LEMMA AccountOrdered ==
  ASSUME Inv, OrderInv, NEW w \in Workers, NEW u \in Staff, Deactivate(w, u) \/ Reactivate(w, u)
  PROVE  OrderInv'
<1> DEFINE need == <<TeamLock, AccountLock(u)>>
           new(op, stage) == [NoTxn EXCEPT !.op = op, !.stage = stage, !.from = u, !.need = need]
<1>1. PICK op \in {"deactivate", "reactivate"}, stage \in {"first", "writing"} :
        txn' = [txn EXCEPT ![w] = new(op, stage)]
  BY DEF Deactivate, Reactivate, Begins
<1> DEFINE x == new(op, stage)
<1>2. x.op = op /\ x.from = u /\ x.held = {} /\ x.need = need
  BY DEF NoTxn
<1>3. txn' = [txn EXCEPT ![w] = x]
  BY <1>1
<1> HIDE DEF x
<1>4. ASSUME NEW rows \in {BeforeAccounts, AfterAccounts}
      PROVE  Sorted(need, rows)
  <2>1. Comes(TeamLock, AccountLock(u), rows)
    BY Turns DEF Comes, Staff
  <2> QED
    BY <2>1 DEF Sorted
<1>5. InTurn(x, BeforeAccounts) /\ InTurn(x, AfterAccounts)
  BY <1>2, <1>4 DEF InTurn
<1>6. UnderSchedule(x) /\ TeamFirst(x) /\ WantsOnly(x) /\ WantsTutor(x)
  BY <1>1, <1>2 DEF UnderSchedule, TeamFirst, WantsOnly, WantsTutor, OfTeam
<1>7. \A lock : Wants(x, lock) => lock[1] # "row"
  BY <1>2 DEF Wants, Has, TeamLock, AccountLock
<1>8. Rowed(x)
  BY <1>1, <1>2, <1>7, Kinds DEF Rowed, RowsUnder, RowsOnly, WantsPupils, HandsAll
<1>9. Ordered(x)
  BY <1>5, <1>6, <1>8 DEF Ordered
<1> QED
  BY <1>3, <1>9, OneOrdered

\* and a booking the tutor's account under the tutor's schedule.
LEMMA AssignBookingOrdered ==
  ASSUME Inv, OrderInv, NEW w \in Workers, NEW t \in Tutors, NEW time \in Windows, AssignBooking(w, t, time)
  PROVE  OrderInv'
<1> DEFINE need == <<ScheduleLock(t), AccountLock(t)>>
           x == [NoTxn EXCEPT !.op = "assign_booking", !.stage = "first", !.tutor = t, !.items = <<time>>,
                              !.need = need]
<1>1. txn' = [txn EXCEPT ![w] = x]
  BY DEF AssignBooking, Begins
<1>2. x.op = "assign_booking" /\ x.held = {} /\ x.need = need
  BY DEF NoTxn
<1> HIDE DEF x
<1>3. \A rows : Sorted(need, rows)
  BY Kinds DEF Sorted
<1>4. InTurn(x, BeforeAccounts) /\ InTurn(x, AfterAccounts)
  BY <1>2, <1>3 DEF InTurn
<1>5. UnderSchedule(x)
  <2>1. \A s \in Tutors, n \in DOMAIN need : need[n] = AccountLock(s) => n = 2 /\ s = t /\ need[1] = ScheduleLock(s)
    BY Kinds
  <2> QED
    BY <1>2, <2>1 DEF UnderSchedule
<1>6. TeamFirst(x) /\ WantsOnly(x) /\ WantsTutor(x)
  BY <1>2 DEF TeamFirst, WantsOnly, WantsTutor, OfTeam
<1>7. \A lock : Wants(x, lock) => lock[1] # "row"
  BY <1>2 DEF Wants, Has, ScheduleLock, AccountLock
<1>8. Rowed(x)
  BY <1>2, <1>7, Kinds DEF Rowed, RowsUnder, RowsOnly, WantsPupils, HandsAll
<1>9. Ordered(x)
  BY <1>4, <1>5, <1>6, <1>8 DEF Ordered
<1> QED
  BY <1>1, <1>9, OneOrdered

\* A lock taken comes before those still wanted.
LEMMA TakeLockOrdered ==
  ASSUME Inv, OrderInv, NEW w \in Workers, TakeLock(w)
  PROVE  OrderInv'
<1> DEFINE x == txn[w]
           lock == Head(x.need)
           new == [x EXCEPT !.need = Tail(x.need), !.held = x.held \cup {lock}]
<1>1. x \in Transactions /\ x.need \in Seq(Locks) /\ x.need # <<>>
  BY DEF Inv, Typed, TakeLock, Transactions
<1>2. txn' = [txn EXCEPT ![w] = new]
  BY DEF TakeLock
<1>3. /\ new.op = x.op /\ new.stage = x.stage /\ new.tutor = x.tutor /\ new.mentor = x.mentor
      /\ new.from = x.from /\ new.student = x.student /\ new.pupil = x.pupil /\ new.pupils = x.pupils
      /\ new.need = Tail(x.need) /\ new.held = x.held \cup {lock}
  BY <1>1 DEF Transactions
<1>4. /\ 1 \in DOMAIN x.need /\ lock = x.need[1] /\ lock \in Locks
      /\ \A n \in DOMAIN Tail(x.need) :
            n \in Nat \ {0} /\ n + 1 \in DOMAIN x.need /\ Tail(x.need)[n] = x.need[n + 1]
  <2>1. /\ Len(Tail(x.need)) = Len(x.need) - 1 /\ Tail(x.need) \in Seq(Locks) /\ lock = x.need[1] /\ lock \in Locks
        /\ \A j \in 1 .. Len(Tail(x.need)) : Tail(x.need)[j] = x.need[j + 1]
    BY <1>1, HeadTailProperties
  <2>2. /\ Len(x.need) \in Nat \ {0} /\ DOMAIN x.need = 1 .. Len(x.need)
        /\ DOMAIN Tail(x.need) = 1 .. Len(Tail(x.need))
    BY <1>1, <2>1
  <2> QED
    BY <2>1, <2>2
<1>5. \A m \in DOMAIN x.need : m = 1 \/ (m \in Nat \ {0} /\ m - 1 \in DOMAIN Tail(x.need) /\ Tail(x.need)[m - 1] = x.need[m])
  <2>1. /\ Len(Tail(x.need)) = Len(x.need) - 1 /\ Tail(x.need) \in Seq(Locks)
        /\ \A j \in 1 .. Len(Tail(x.need)) : Tail(x.need)[j] = x.need[j + 1]
    BY <1>1, HeadTailProperties
  <2>2. /\ Len(x.need) \in Nat \ {0} /\ DOMAIN x.need = 1 .. Len(x.need)
        /\ DOMAIN Tail(x.need) = 1 .. Len(Tail(x.need))
    BY <1>1, <2>1
  <2>3. ASSUME NEW m \in 1 .. Len(x.need), m # 1
        PROVE  m - 1 \in 1 .. Len(x.need) - 1 /\ (m - 1) + 1 = m
    BY <2>2, <2>3
  <2> QED
    BY <2>1, <2>2, <2>3
<1>6. \A n, m \in DOMAIN x.need : n \in Nat /\ m \in Nat
  BY <1>1
<1>7. Ordered(new)
  <2>1. Ordered(x)
    BY DEF OrderInv
  <2> HIDE DEF x, lock, new
  <2>2. ASSUME NEW rows, InTurn(x, rows)
        PROVE  InTurn(new, rows)
    <3>1. Sorted(new.need, rows)
      <4> SUFFICES ASSUME NEW m \in DOMAIN new.need, NEW n \in DOMAIN new.need, m < n, ~OfTutor(new.need[n])
                   PROVE  Comes(new.need[m], new.need[n], rows)
        BY DEF Sorted
      <4>1. /\ m + 1 \in DOMAIN x.need /\ n + 1 \in DOMAIN x.need /\ m + 1 < n + 1
            /\ new.need[m] = x.need[m + 1] /\ new.need[n] = x.need[n + 1]
        BY <1>3, <1>4
      <4> QED
        BY <2>2, <4>1 DEF InTurn, Sorted
    <3>2. ASSUME NEW k \in new.held, NEW n \in DOMAIN new.need, ~OfTutor(new.need[n])
          PROVE  Comes(k, new.need[n], rows)
      <4>1. n + 1 \in DOMAIN x.need /\ new.need[n] = x.need[n + 1] /\ 1 < n + 1
        BY <1>3, <1>4
      <4> QED
        BY <1>3, <1>4, <2>2, <3>2, <4>1 DEF InTurn, Sorted
    <3> QED
      BY <3>1, <3>2 DEF InTurn
  <2>3. UnderSchedule(new)
    <3> SUFFICES ASSUME ~OfTeam(x), NEW t \in Tutors
                 PROVE  /\ AccountLock(t) \in new.held => ScheduleLock(t) \in new.held
                        /\ \A n \in DOMAIN new.need : new.need[n] = AccountLock(t) =>
                              \/ ScheduleLock(t) \in new.held
                              \/ \E m \in DOMAIN new.need : m < n /\ new.need[m] = ScheduleLock(t)
      BY <1>3 DEF UnderSchedule, OfTeam
    <3>1. /\ AccountLock(t) \in x.held => ScheduleLock(t) \in x.held
          /\ \A n \in DOMAIN x.need : x.need[n] = AccountLock(t) =>
                ScheduleLock(t) \in x.held \/ \E m \in DOMAIN x.need : m < n /\ x.need[m] = ScheduleLock(t)
      BY <2>1 DEF Ordered, UnderSchedule
    <3>2. AccountLock(t) \in new.held => ScheduleLock(t) \in new.held
      <4>1. ASSUME lock = AccountLock(t)
            PROVE  ScheduleLock(t) \in x.held
        <5>1. \A m \in DOMAIN x.need : ~(m < 1)
          BY <1>1
        <5> QED
          BY <1>4, <3>1, <4>1, <5>1
      <4> QED
        BY <1>3, <3>1, <4>1
    <3>3. ASSUME NEW n \in DOMAIN new.need, new.need[n] = AccountLock(t), ScheduleLock(t) \notin new.held
          PROVE  \E m \in DOMAIN new.need : m < n /\ new.need[m] = ScheduleLock(t)
      <4>1. n + 1 \in DOMAIN x.need /\ x.need[n + 1] = AccountLock(t) /\ n \in Nat
        BY <1>3, <1>4, <3>3
      <4>2. PICK m \in DOMAIN x.need : m < n + 1 /\ x.need[m] = ScheduleLock(t)
        BY <1>3, <3>1, <3>3, <4>1
      <4>3. m # 1
        BY <1>3, <1>4, <3>3, <4>2
      <4>4. m - 1 \in DOMAIN new.need /\ new.need[m - 1] = ScheduleLock(t)
        BY <1>3, <1>5, <4>2, <4>3
      <4>5. m - 1 < n
        BY <1>6, <4>1, <4>2
      <4> QED
        BY <4>4, <4>5
    <3> QED
      BY <3>2, <3>3
  <2>4. TeamFirst(new)
    <3>1. CASE x.held = {} /\ x.need = <<TeamLock, AccountLock(x.from)>>
      <4>1. Head(x.need) = TeamLock /\ Tail(x.need) = <<AccountLock(x.from)>>
        BY <3>1
      <4> QED
        BY <1>3, <3>1, <4>1 DEF TeamFirst, OfTeam, lock
    <3>2. CASE x.need = <<AccountLock(x.from)>>
      <4>1. Tail(x.need) = <<>>
        BY <3>2
      <4> QED
        BY <1>3, <4>1 DEF TeamFirst, OfTeam
    <3>3. CASE ~OfTeam(x)
      BY <1>3, <3>3 DEF TeamFirst, OfTeam
    <3> QED
      BY <1>1, <2>1, <3>1, <3>2, <3>3 DEF Ordered, TeamFirst
  <2>5. \A other : Wants(new, other) <=> Wants(x, other)
    <3>1. ASSUME NEW other
          PROVE  Has(x.need, other) <=> (other = lock \/ Has(new.need, other))
      <4>1. Has(new.need, other) => Has(x.need, other)
        BY <1>3, <1>4 DEF Has
      <4>2. Has(x.need, other) => other = lock \/ Has(new.need, other)
        BY ZenonT(60), <1>3, <1>4, <1>5 DEF Has
      <4>3. other = lock => Has(x.need, other)
        BY <1>4 DEF Has
      <4> QED
        BY <4>1, <4>2, <4>3
    <3> QED
      BY <1>3, <3>1 DEF Wants
  <2>6. WantsOnly(new) /\ WantsTutor(new)
    <3>1. WantsOnly(x) /\ WantsTutor(x)
      BY <2>1 DEF Ordered
    <3>2. WantsOnly(new)
      BY <1>3, <2>5, <3>1 DEF WantsOnly
    <3>3. WantsTutor(new)
      BY <1>3, <2>5, <3>1 DEF WantsTutor
    <3> QED
      BY <3>2, <3>3
  <2>7. /\ HandsAll(new) <=> HandsAll(x)
        /\ HandsMentored(new) <=> HandsMentored(x)
        /\ HandsOne(new) <=> HandsOne(x)
    BY <1>3 DEF HandsAll, HandsMentored, HandsOne
  <2>8. Rowed(new)
    <3>1. RowsUnder(x) /\ RowsOnly(x) /\ WantsPupils(x)
      BY <2>1 DEF Ordered, Rowed
    <3>2. RowsUnder(new)
      BY <1>3, <2>5, <2>7, <3>1 DEF RowsUnder
    <3>3. RowsOnly(new)
      <4>1. HandsAll(x) => \A n \in DOMAIN new.need : new.need[n][1] = "row"
        BY <1>3, <1>4, <3>1 DEF RowsOnly
      <4>2. x.op = "edit_student" => new.need = <<>>
        <5>1. Tail(<<RowLock(x.student)>>) = <<>>
          OBVIOUS
        <5> QED
          BY <1>1, <1>3, <3>1, <5>1 DEF RowsOnly, x
      <4> QED
        BY <1>3, <2>7, <4>1, <4>2 DEF RowsOnly
    <3>4. WantsPupils(new)
      BY <1>3, <2>5, <3>1 DEF WantsPupils
    <3> QED
      BY <3>2, <3>3, <3>4 DEF Rowed
  <2> QED
    BY <2>1, <2>2, <2>3, <2>4, <2>6, <2>7, <2>8 DEF Ordered
<1> QED
  BY <1>2, <1>7, OneOrdered

\* A check that leads straight to the writing leaves what it has.
LEMMA CheckOrdered ==
  ASSUME Inv, OrderInv, NEW w \in Workers,
         \/ CheckCreate(w) \/ CheckUpdate(w) \/ CheckCancelSeries(w) \/ CheckReassignStaff(w)
         \/ CheckDeactivate(w) \/ CheckAssignBooking(w)
  PROVE  OrderInv'
<1> DEFINE x == txn[w]
           renumbered == [Writing(x) EXCEPT !.later = [c \in Subsequent(x.row) \ {x.class} |-> session[c]]]
<1>1. PICK accepted \in BOOLEAN, new \in {Writing(x), renumbered} :
        Decides(w, accepted, new) /\ x.op # None /\ x.op # "reassign_all" /\ x.need = <<>>
  <2>1. CheckCancelSeries(w) =>
          \E accepted \in BOOLEAN : Decides(w, accepted, renumbered) /\ x.op = "cancel_series" /\ x.need = <<>>
    BY DEF CheckCancelSeries, HasLocks
  <2> HIDE DEF renumbered
  <2>2. CheckCreate(w) => \E accepted \in BOOLEAN : Decides(w, accepted, Writing(x)) /\ x.op = "create" /\ x.need = <<>>
    BY DEF CheckCreate, HasLocks
  <2>3. CheckUpdate(w) =>
          \E accepted \in BOOLEAN : /\ Decides(w, accepted, Writing(x))
                                    /\ x.op \in {"update_session", "change_tutor"} /\ x.need = <<>>
    BY DEF CheckUpdate, HasLocks
  <2>4. CheckReassignStaff(w) =>
          \E accepted \in BOOLEAN : Decides(w, accepted, Writing(x)) /\ x.op = "reassign" /\ x.need = <<>>
    BY DEF CheckReassignStaff, HasLocks
  <2>5. CheckDeactivate(w) =>
          \E accepted \in BOOLEAN : Decides(w, accepted, Writing(x)) /\ x.op = "deactivate" /\ x.need = <<>>
    BY DEF CheckDeactivate, HasLocks
  <2>6. CheckAssignBooking(w) =>
          \E accepted \in BOOLEAN : Decides(w, accepted, Writing(x)) /\ x.op = "assign_booking" /\ x.need = <<>>
    BY DEF CheckAssignBooking, HasLocks
  <2>7. \A op \in {"create", "update_session", "change_tutor", "cancel_series", "reassign", "deactivate",
                   "assign_booking"} : op # None
    BY TuitionAssumption DEF Operations
  <2> HIDE DEF x
  <2> QED
    BY <2>1, <2>2, <2>3, <2>4, <2>5, <2>6, <2>7
<1>2. Ordered(x) /\ x \in Transactions
  BY <1>1 DEF OrderInv, Inv, Typed
<1>3. new.op = x.op /\ new.held = x.held /\ new.need = x.need /\ new.stage = "writing"
  <2> DEFINE later == [c \in Subsequent(x.row) \ {x.class} |-> session[c]]
  <2> HIDE DEF later, x
  <2>1. CASE new = Writing(x)
    BY <1>2, <2>1 DEF Writing, Transactions
  <2>2. CASE new = [Writing(x) EXCEPT !.later = later]
    BY <1>2, <2>2 DEF Writing, Transactions
  <2> QED
    BY <2>1, <2>2 DEF later
<1> HIDE DEF x
<1>4. Ordered(new)
  BY <1>1, <1>2, <1>3, HasAllOrdered
<1> QED
  BY <1>1, <1>4, DecidesOrdered

\* The hand-over of one student goes on to the accounts, the mentor's after all it has and the tutor's last.
LEMMA CheckReassignOrdered ==
  ASSUME Inv, OrderInv, NEW w \in Workers, CheckReassign(w)
  PROVE  OrderInv'
<1> DEFINE x == txn[w]
           old == student[x.student]
           mentors == IF x.mentor # old.mentor THEN Given(AccountLock(x.mentor), x.mentor) ELSE <<>>
           tutors == IF x.tutor # old.tutor THEN Given(AccountLock(x.tutor), x.tutor) ELSE <<>>
           new == [x EXCEPT !.stage = "staff", !.pupil = old, !.need = mentors \o tutors]
<1>1. /\ x \in Transactions /\ Right(x) /\ x.op = "reassign" /\ x.stage = "first" /\ x.need = <<>>
  BY Checking DEF CheckReassign, Operations
<1>2. PICK accepted \in BOOLEAN : Decides(w, accepted, new)
  BY DEF CheckReassign
<1>3. /\ x.student \in Students /\ x.mentor \in Mentors \cup {None} /\ x.tutor \in Tutors \cup {None}
      /\ x.held \in SUBSET Locks
  BY <1>1 DEF Right, ShapedStaff, Transactions
<1>4. x.tutor # None => ScheduleLock(x.tutor) \in x.held
  BY <1>1 DEF Right, LocksClasses, Keeps, Wants, Has
<1>5. \A k \in x.held : k[1] \in {"student", "schedule", "row"}
  <2>1. WantsOnly(x)
    BY DEF OrderInv, Ordered
  <2> QED
    BY <1>1, <1>3, <2>1 DEF WantsOnly, Wants
<1>6. /\ mentors \in Seq(Locks) /\ tutors \in Seq(Locks)
      /\ \A n \in DOMAIN mentors : /\ x.mentor \in Mentors /\ x.mentor # old.mentor
                                   /\ mentors[n] = AccountLock(x.mentor)
      /\ \A n \in DOMAIN tutors : x.tutor \in Tutors /\ tutors[n] = AccountLock(x.tutor)
  <2>1. /\ Given(AccountLock(x.mentor), x.mentor) \in Seq(Locks)
        /\ Given(AccountLock(x.tutor), x.tutor) \in Seq(Locks)
    BY <1>3, LocksTyped, GivenLock DEF Staff
  <2>2. ASSUME NEW n \in DOMAIN mentors
        PROVE  x.mentor \in Mentors /\ x.mentor # old.mentor /\ mentors[n] = AccountLock(x.mentor)
    BY <1>3, GivenOnly
  <2>3. ASSUME NEW n \in DOMAIN tutors
        PROVE  x.tutor \in Tutors /\ tutors[n] = AccountLock(x.tutor)
    BY <1>3, GivenOnly
  <2> QED
    BY <2>1, <2>2, <2>3
<1>7. \A rows : Sorted(mentors, rows) /\ Sorted(tutors, rows)
  BY FewSorted, NoneSorted
<1>8. /\ new.op = "reassign" /\ new.stage = "staff" /\ new.mentor = x.mentor /\ new.pupil = old
      /\ new.held = x.held /\ new.need = mentors \o tutors
  BY <1>1 DEF Transactions
<1> HIDE DEF x, old, mentors, tutors, new
<1>9. \A lock : Has(new.need, lock) <=> Has(mentors, lock) \/ Has(tutors, lock)
  BY <1>6, <1>8, HasEither
<1>10. ASSUME NEW rows
       PROVE  Sorted(new.need, rows)
  <2>1. \A n \in DOMAIN tutors : OfTutor(tutors[n])
    BY <1>6, Kinds
  <2>2. Sorted(mentors, rows) /\ Sorted(tutors, rows)
    BY <1>7
  <2> QED
    BY <1>6, <1>8, <2>1, <2>2, SortedEither
<1>11. ASSUME NEW n \in DOMAIN new.need, ~OfTutor(new.need[n])
       PROVE  x.mentor \in Mentors /\ x.mentor # old.mentor /\ new.need[n] = AccountLock(x.mentor)
  <2>1. Has(new.need, new.need[n])
    BY DEF Has
  <2>2. ~Has(tutors, new.need[n])
    BY <1>6, <1>11, Kinds DEF Has
  <2> QED
    BY ZenonT(60), <1>6, <1>9, <2>1, <2>2 DEF Has
<1>12. InTurn(new, BeforeAccounts)
  <2>1. ASSUME NEW k \in new.held, NEW n \in DOMAIN new.need, ~OfTutor(new.need[n])
        PROVE  Comes(k, new.need[n], BeforeAccounts)
    <3>1. Turn(new.need[n], BeforeAccounts) = 5
      BY <1>11, <2>1, Turns
    <3>2. Turn(k, BeforeAccounts) \in {2, 3, 4}
      BY <1>5, <1>8, <2>1 DEF Turn, OfTutor, BeforeAccounts
    <3> QED
      BY <3>1, <3>2 DEF Comes
  <2> QED
    BY <1>10, <2>1 DEF InTurn
<1>13. ~HandsOne(new) => InTurn(new, AfterAccounts)
  BY <1>8, <1>10, <1>11, TuitionAssumption DEF HandsOne, InTurn
<1>14. UnderSchedule(new)
  <2>1. ASSUME NEW t \in Tutors
        PROVE  AccountLock(t) \notin new.held
    BY <1>5, <1>8, Kinds
  <2>2. ASSUME NEW t \in Tutors, NEW n \in DOMAIN new.need, new.need[n] = AccountLock(t)
        PROVE  ScheduleLock(t) \in new.held
    <3>1. Has(new.need, AccountLock(t))
      BY <2>2 DEF Has
    <3>2. ~Has(mentors, AccountLock(t))
      <4>1. \A m \in Mentors : AccountLock(m) # AccountLock(t)
        BY Kinds, TuitionAssumption
      <4> QED
        BY <1>6, <4>1 DEF Has
    <3>3. Has(tutors, AccountLock(t))
      BY <1>9, <3>1, <3>2
    <3>4. x.tutor = t
      BY <1>6, <3>3, Kinds DEF Has
    <3> QED
      BY <1>4, <1>8, <3>4, TuitionAssumption DEF Staff
  <2> QED
    BY <2>1, <2>2 DEF UnderSchedule
<1>15. TeamFirst(new) /\ WantsOnly(new) /\ WantsTutor(new)
  BY <1>8 DEF TeamFirst, OfTeam, WantsOnly, WantsTutor
<1>16. ASSUME NEW s \in Students, Wants(new, RowLock(s))
       PROVE  Wants(new, StudentLock(s))
  <2>1. ~Has(mentors, RowLock(s)) /\ ~Has(tutors, RowLock(s))
    BY <1>6, Kinds DEF Has
  <2>2. RowLock(s) \in x.held
    BY <1>8, <1>9, <1>16, <2>1 DEF Wants
  <2>3. RowsUnder(x)
    BY DEF OrderInv, Ordered, Rowed, x
  <2>4. Wants(x, StudentLock(s))
    BY <1>1, <2>2, <2>3 DEF RowsUnder, HandsMentored, HandsAll, Wants
  <2> QED
    BY <1>1, <1>8, <2>4 DEF Wants, Has
<1>17. Rowed(new)
  BY <1>8, <1>16 DEF Rowed, RowsUnder, RowsOnly, WantsPupils, HandsAll
<1>18. Ordered(new)
  BY <1>8, <1>12, <1>13, <1>14, <1>15, <1>17 DEF Ordered, HandsAll
<1> QED
  BY <1>2, <1>18, DecidesOrdered DEF x

\* So does that of all of one's students, which has no rows yet,
LEMMA CheckReassignAllOrdered ==
  ASSUME Inv, OrderInv, NEW w \in Workers, CheckReassignAll(w)
  PROVE  OrderInv'
<1> DEFINE x == txn[w]
           m == IF MentoredBy(x.from) = {} THEN None ELSE x.mentor
           t == IF TutorStudents(x) = {} THEN None ELSE x.tutor
           mentors == Given(AccountLock(m), m)
           tutors == Given(AccountLock(t), t)
           new == [x EXCEPT !.stage = "staff", !.mentor = m, !.tutor = t, !.need = mentors \o tutors]
<1>1. /\ x \in Transactions /\ Right(x) /\ x.op = "reassign_all" /\ x.stage = "first" /\ x.need = <<>>
  BY Checking DEF CheckReassignAll, Operations
<1>2. PICK accepted \in BOOLEAN : Decides(w, accepted, new)
  BY DEF CheckReassignAll
<1>3. x.mentor \in Mentors \cup {None} /\ x.tutor \in Tutors \cup {None} /\ x.held \in SUBSET Locks
  BY <1>1 DEF Transactions
<1>4. WantsOnly(x) /\ WantsTutor(x) /\ WantsPupils(x)
  BY DEF OrderInv, Ordered, Rowed
<1>5. m \in Mentors \cup {None} /\ t \in Tutors \cup {None}
  BY <1>3
<1>6. t # None => ScheduleLock(t) \in x.held
  <2>1. t # None => t = x.tutor /\ x.pupils # {}
    BY DEF TutorStudents
  <2> QED
    BY <1>1, <1>4, <2>1 DEF WantsTutor, Wants, Has
<1>7. \A k \in x.held : k[1] \in {"student", "schedule"}
  BY <1>1, <1>3, <1>4 DEF WantsOnly, Wants
<1> HIDE DEF m, t
<1>8. /\ mentors \in Seq(Locks) /\ tutors \in Seq(Locks)
      /\ \A n \in DOMAIN mentors : m \in Mentors /\ mentors[n] = AccountLock(m)
      /\ \A n \in DOMAIN tutors : t \in Tutors /\ tutors[n] = AccountLock(t)
  <2>1. mentors \in Seq(Locks) /\ tutors \in Seq(Locks)
    BY <1>5, LocksTyped, GivenLock DEF Staff
  <2>2. ASSUME NEW n \in DOMAIN mentors
        PROVE  m \in Mentors /\ mentors[n] = AccountLock(m)
    BY <1>5, GivenOnly
  <2>3. ASSUME NEW n \in DOMAIN tutors
        PROVE  t \in Tutors /\ tutors[n] = AccountLock(t)
    BY <1>5, GivenOnly
  <2> QED
    BY <2>1, <2>2, <2>3
<1>9. \A rows : Sorted(mentors, rows) /\ Sorted(tutors, rows)
  BY FewSorted
<1>10. /\ new.op = "reassign_all" /\ new.stage = "staff" /\ new.mentor = m
       /\ new.held = x.held /\ new.need = mentors \o tutors /\ new.pupils = x.pupils
  BY <1>1 DEF Transactions
<1> HIDE DEF x, mentors, tutors, new
<1>11. \A lock : Has(new.need, lock) <=> Has(mentors, lock) \/ Has(tutors, lock)
  BY <1>8, <1>10, HasEither
<1>12. ASSUME NEW rows
       PROVE  Sorted(new.need, rows)
  <2>1. \A n \in DOMAIN tutors : OfTutor(tutors[n])
    BY <1>8, Kinds
  <2>2. Sorted(mentors, rows) /\ Sorted(tutors, rows)
    BY <1>9
  <2> QED
    BY <1>8, <1>10, <2>1, <2>2, SortedEither
<1>13. ASSUME NEW n \in DOMAIN new.need, ~OfTutor(new.need[n])
       PROVE  m \in Mentors /\ new.need[n] = AccountLock(m)
  <2>1. Has(new.need, new.need[n])
    BY DEF Has
  <2>2. ~Has(tutors, new.need[n])
    BY <1>8, <1>13, Kinds DEF Has
  <2> QED
    BY ZenonT(60), <1>8, <1>11, <2>1, <2>2 DEF Has
<1>14. ASSUME NEW rows
       PROVE  InTurn(new, rows)
  <2>1. ASSUME NEW k \in new.held, NEW n \in DOMAIN new.need, ~OfTutor(new.need[n])
        PROVE  Comes(k, new.need[n], rows)
    <3>1. Turn(new.need[n], rows) = 5
      BY <1>13, <2>1, Turns
    <3>2. Turn(k, rows) \in {2, 3}
      BY <1>7, <1>10, <2>1 DEF Turn, OfTutor
    <3> QED
      BY <3>1, <3>2 DEF Comes
  <2> QED
    BY <1>12, <2>1 DEF InTurn
<1>15. UnderSchedule(new)
  <2>1. ASSUME NEW u \in Tutors
        PROVE  AccountLock(u) \notin new.held
    BY <1>7, <1>10, Kinds
  <2>2. ASSUME NEW u \in Tutors, NEW n \in DOMAIN new.need, new.need[n] = AccountLock(u)
        PROVE  ScheduleLock(u) \in new.held
    <3>1. Has(new.need, AccountLock(u))
      BY <2>2 DEF Has
    <3>2. ~Has(mentors, AccountLock(u))
      <4>1. \A other \in Mentors : AccountLock(other) # AccountLock(u)
        BY Kinds, TuitionAssumption
      <4> QED
        BY <1>8, <4>1 DEF Has
    <3>3. Has(tutors, AccountLock(u))
      BY <1>11, <3>1, <3>2
    <3>4. t = u
      BY <1>8, <3>3, Kinds DEF Has
    <3> QED
      BY <1>6, <1>10, <3>4, TuitionAssumption DEF Staff
  <2> QED
    BY <2>1, <2>2 DEF UnderSchedule
<1>16. WantsOnly(new)
  <2> SUFFICES ASSUME NEW lock \in Locks, Wants(new, lock)
               PROVE  lock[1] # "row" /\ (m = None => ~OfMentor(lock))
    BY <1>10 DEF WantsOnly
  <2>1. CASE lock \in x.held
    BY <1>7, <2>1 DEF OfMentor
  <2>2. CASE Has(mentors, lock)
    BY <1>8, <2>2, Kinds, TuitionAssumption DEF Has, Staff
  <2>3. CASE Has(tutors, lock)
    BY <1>8, <2>3, Kinds DEF Has
  <2> QED
    BY <1>10, <1>11, <2>1, <2>2, <2>3 DEF Wants
<1>17. TeamFirst(new) /\ WantsTutor(new)
  BY <1>10 DEF TeamFirst, OfTeam, WantsTutor
<1>18. \A s \in Students : ~Wants(new, RowLock(s))
  <2>1. \A s \in Students : RowLock(s) \in Locks
    BY DEF Locks, RowLock
  <2> QED
    BY <1>10, <1>16, <2>1, Kinds DEF WantsOnly
<1>19. WantsPupils(new)
  BY <1>1, <1>4, <1>10 DEF WantsPupils, Wants, Has
<1>20. Rowed(new)
  BY <1>10, <1>18, <1>19 DEF Rowed, RowsUnder, RowsOnly, HandsAll
<1>21. Ordered(new)
  BY <1>14, <1>15, <1>16, <1>17, <1>20 DEF Ordered
<1> QED
  BY <1>2, <1>21, DecidesOrdered DEF x

\* and takes them last, in any order: of those who are taught it has the students' locks.
LEMMA CheckReassignAllStaffOrdered ==
  ASSUME Inv, OrderInv, NEW w \in Workers, CheckReassignAllStaff(w)
  PROVE  OrderInv'
<1> DEFINE x == txn[w]
           mentored == IF x.mentor = None THEN {} ELSE MentoredBy(x.from)
           taught == IF x.tutor = None THEN {} ELSE TutorStudents(x)
<1>1. /\ x \in Transactions /\ x.op = "reassign_all" /\ x.stage = "staff" /\ x.need = <<>>
  BY Checking DEF CheckReassignAllStaff, Operations
<1>2. PICK order \in SetToSeqs(mentored), next \in SetToSeqs(taught), accepted \in BOOLEAN :
        Decides(w, accepted, [Writing(x) EXCEPT !.need = [n \in DOMAIN order |-> RowLock(order[n])]
                                                            \o [n \in DOMAIN next |-> RowLock(next[n])]])
  BY DEF CheckReassignAllStaff
<1> DEFINE first == [n \in DOMAIN order |-> RowLock(order[n])]
           second == [n \in DOMAIN next |-> RowLock(next[n])]
           need == first \o second
           new == [Writing(x) EXCEPT !.need = need]
<1>3. /\ mentored \in SUBSET Students /\ taught \in SUBSET Students
      /\ x.mentor = None => mentored = {}
      /\ taught \subseteq x.pupils
  BY DEF MentoredBy, TutorStudents, TaughtBy, ActiveOf
<1> HIDE DEF mentored, taught
<1>4. /\ first \in Seq(Locks) /\ \A lock : Has(first, lock) => \E s \in mentored : lock = RowLock(s)
      /\ second \in Seq(Locks) /\ \A lock : Has(second, lock) => \E s \in taught : lock = RowLock(s)
  BY <1>3, RowLocksTyped
<1>5. Decides(w, accepted, new)
  BY <1>2
<1>6. /\ new.op = "reassign_all" /\ new.stage = "writing" /\ new.mentor = x.mentor
      /\ new.held = x.held /\ new.need = need
  <2> HIDE DEF x, need
  <2> QED
    BY <1>1 DEF Writing, Transactions
<1>7. Ordered(x) /\ x.held \in SUBSET Locks
  BY <1>1 DEF OrderInv, Transactions
<1> HIDE DEF x, first, second, new
<1>8. \A lock : Has(need, lock) => \E s \in mentored \cup taught : lock = RowLock(s)
  <2>1. \A lock : Has(need, lock) => Has(first, lock) \/ Has(second, lock)
    BY <1>4, HasEither
  <2> QED
    BY <1>4, <2>1
<1> HIDE DEF need
<1>9. \A n \in DOMAIN need : \E s \in Students : need[n] = RowLock(s)
  BY <1>3, <1>8 DEF Has
<1>10. ASSUME NEW s \in Students, Wants(new, RowLock(s)), x.mentor = None
       PROVE  Wants(new, StudentLock(s))
  <2>1. RowLock(s) \notin x.held
    BY <1>1, <1>7, Kinds DEF Ordered, WantsOnly, Wants
  <2>2. Has(need, RowLock(s))
    BY <1>6, <1>10, <2>1 DEF Wants
  <2>3. PICK s1 \in taught : RowLock(s) = RowLock(s1)
    BY <1>3, <1>8, <1>10, <2>2
  <2>4. s \in x.pupils
    BY <1>3, <2>3 DEF RowLock
  <2>5. StudentLock(s) \in x.held
    BY <1>1, <1>7, <2>4 DEF Ordered, Rowed, WantsPupils, Wants, Has
  <2> QED
    BY <1>6, <2>5 DEF Wants
<1>11. RowsUnder(new)
  BY <1>6, <1>10 DEF RowsUnder, HandsMentored, HandsAll
<1>12. RowsOnly(new) /\ WantsPupils(new)
  BY <1>6, <1>9, Kinds DEF RowsOnly, WantsPupils
<1>13. UnderSchedule(new)
  <2>1. \A t \in Tutors : AccountLock(t) \in new.held => ScheduleLock(t) \in new.held
    BY <1>1, <1>6, <1>7 DEF Ordered, UnderSchedule, OfTeam
  <2>2. \A n \in DOMAIN new.need : \A t : new.need[n] # AccountLock(t)
    BY <1>6, <1>9, Kinds
  <2> QED
    BY <2>1, <2>2 DEF UnderSchedule
<1>14. TeamFirst(new) /\ WantsOnly(new) /\ WantsTutor(new)
  BY <1>6 DEF TeamFirst, OfTeam, WantsOnly, WantsTutor
<1>15. Ordered(new)
  BY <1>6, <1>11, <1>12, <1>13, <1>14 DEF Ordered, Rowed, HandsAll
<1> QED
  BY <1>5, <1>15, DecidesOrdered

LEMMA NextOrdered == Inv /\ OrderInv /\ [Next]_vars => OrderInv'
<1> SUFFICES ASSUME Inv, OrderInv, [Next]_vars
             PROVE  OrderInv'
  OBVIOUS
<1>1. CASE UNCHANGED vars
  <2>1. txn' = txn
    BY <1>1 DEF vars
  <2> QED
    BY <2>1 DEF OrderInv
<1>2. ASSUME NEW w \in Workers, BeginsClass(w)
      PROVE  OrderInv'
  BY <1>2, CreateSessionsOrdered, UpdateSessionOrdered, CancelSeriesOrdered DEF BeginsClass
<1>3. ASSUME NEW w \in Workers, BeginsStaff(w)
      PROVE  OrderInv'
  BY <1>3, ReassignOrdered, ReassignAllOrdered, AccountOrdered, EditStudentOrdered, AssignBookingOrdered
     DEF BeginsStaff
<1>4. ASSUME NEW w \in Workers, Checks(w)
      PROVE  OrderInv'
  BY <1>4, CheckOrdered, CheckReassignOrdered, CheckReassignAllOrdered, CheckReassignAllStaffOrdered DEF Checks
<1>5. ASSUME NEW w \in Workers, Writes(w)
      PROVE  OrderInv'
  <2>1. txn' = [txn EXCEPT ![w] = NoTxn]
    BY <1>5 DEF Writes, WriteCreate, WriteUpdate, WriteCancelSeries, WriteReassign, WriteReassignAll, WriteStudent,
                WriteDeactivate, WriteReactivate, WriteAssignBooking, Commits
  <2> QED
    BY <2>1, EndsOrdered
<1>6. ASSUME NEW w \in Workers, DeadlockBroken(w)
      PROVE  OrderInv'
  BY <1>6, EndsOrdered DEF DeadlockBroken
<1> QED
  BY <1>1, <1>2, <1>3, <1>4, <1>5, <1>6, TakeLockOrdered DEF Next

-----------------------------------------------------------------------------
(***************************************************************************)
(* Circles                                                                 *)
(***************************************************************************)
\* Who waits in a circle for a tutor's account changes accounts: all others would have the schedule that whoever
\* has the account has.
LEMMA NotForTutor ==
  ASSUME Inv, OrderInv, NEW v \in Workers, NEW w \in Workers, Waits(v, w), txn[w].need # <<>>,
         OfTutor(Head(txn[v].need))
  PROVE  OfTeam(txn[v])
<1> DEFINE x == txn[v]
           y == txn[w]
           lock == Head(x.need)
<1>1. /\ x \in Transactions /\ y \in Transactions /\ v # w
      /\ x.need # <<>> /\ lock \in y.held /\ y.need # <<>>
  BY DEF Waits, Inv, Typed
<1>2. Ordered(x) /\ Ordered(y)
  BY DEF OrderInv
<1>3. x.held \cap y.held = {}
  BY <1>1 DEF Inv, LocksExclusive
<1>4. /\ 1 \in DOMAIN x.need /\ lock = x.need[1] /\ lock \in Locks
      /\ \A m \in DOMAIN x.need : ~(m < 1)
  <2>1. x.need \in Seq(Locks)
    BY <1>1 DEF Transactions
  <2> QED
    BY <1>1, <2>1
<1> HIDE DEF x, y, lock
<1>5. PICK t \in Tutors : lock = AccountLock(t)
  BY <1>4 DEF lock, x, OfTutor, Locks, AccountLock, TeamLock
<1> SUFFICES ASSUME ~OfTeam(x)
             PROVE  FALSE
  BY DEF x
<1>6. ScheduleLock(t) \in x.held
  BY <1>2, <1>4, <1>5 DEF Ordered, UnderSchedule
<1>7. ~OfTeam(y)
  <2>1. OfTeam(y) => y.held \subseteq {TeamLock}
    BY <1>1, <1>2 DEF Ordered, TeamFirst
  <2>2. AccountLock(t) # TeamLock
    BY DEF AccountLock, TeamLock
  <2> QED
    BY <1>1, <1>5, <2>1, <2>2
<1>8. ScheduleLock(t) \in y.held
  BY <1>1, <1>2, <1>5, <1>7 DEF Ordered, UnderSchedule
<1> QED
  BY <1>3, <1>6, <1>8

\* Who has a lock that is waited for, and waits in turn, waits for one that comes later.
LEMMA WaitsOnward ==
  ASSUME Inv, OrderInv, NEW u \in Workers, NEW v \in Workers, NEW w \in Workers, Waits(u, v), Waits(v, w),
         txn[w].need # <<>>, NEW rows \in {BeforeAccounts, AfterAccounts}, InTurn(txn[v], rows)
  PROVE  /\ Head(txn[u].need) \in Locks /\ Head(txn[v].need) \in Locks
         /\ Comes(Head(txn[u].need), Head(txn[v].need), rows)
<1> DEFINE x == txn[v]
           k == Head(txn[u].need)
           l == Head(x.need)
<1>1. x \in Transactions /\ x.need # <<>> /\ k \in x.held
  BY DEF Waits, Inv, Typed
<1>2. 1 \in DOMAIN x.need /\ l = x.need[1] /\ l \in Locks /\ k \in Locks
  <2>1. x.need \in Seq(Locks) /\ x.held \in SUBSET Locks
    BY <1>1 DEF Transactions
  <2> QED
    BY <1>1, <2>1
<1>3. Ordered(x)
  BY DEF OrderInv
<1>4. OfTutor(l) => OfTeam(x)
  BY NotForTutor
<1> HIDE DEF x, k, l
<1>5. CASE OfTeam(x)
  <2>1. x.held = {TeamLock} /\ x.need = <<AccountLock(x.from)>>
    BY <1>1, <1>3, <1>5 DEF Ordered, TeamFirst
  <2>2. k = TeamLock /\ l = AccountLock(x.from)
    BY <1>1, <1>2, <2>1
  <2>3. Turn(k, rows) = 0 /\ Turn(l, rows) \in {1, 5}
    BY <2>2 DEF Turn, TeamLock, AccountLock
  <2> QED
    BY <1>2, <2>3 DEF Comes, x, k, l
<1>6. CASE ~OfTeam(x)
  <2>1. InTurn(x, rows)
    BY DEF x
  <2> QED
    BY <1>1, <1>2, <1>4, <1>6, <2>1 DEF InTurn, x, k, l
<1> QED
  BY <1>5, <1>6

\* A set of numbers that is not empty has a least one.
LEMMA LeastNumber ==
  ASSUME NEW S \in SUBSET Nat, S # {}
  PROVE  \E n \in S : \A m \in S : n <= m
<1>1. PICK n \in S : \A m \in S : ~ (<<m, n>> \in OpToRel(<, Nat))
  BY WFMin, NatLessThanWellFounded
<1>2. ASSUME NEW m \in S
      PROVE  n <= m
  <2>1. ~(m < n)
    BY <1>1, <1>2 DEF OpToRel
  <2> QED
    BY <2>1
<1> QED
  BY <1>2

\* Who hands over all of one's students, but none who are mentored, is waited for by none that it waits for: it has
\* the student's lock, which the other had before the row.
LEMMA TaughtOutOfCircles ==
  ASSUME Inv, OrderInv, NEW v \in Workers, NEW w \in Workers, Waits(v, w), txn[w].need # <<>>,
         HandsAll(txn[v]), ~HandsMentored(txn[v]), ~HandsMentored(txn[w])
  PROVE  FALSE
<1> DEFINE x == txn[v]
           y == txn[w]
           row == Head(x.need)
<1>1. /\ x \in Transactions /\ y \in Transactions /\ v # w
      /\ x.need # <<>> /\ row \in y.held /\ y.need # <<>>
  BY DEF Waits, Inv, Typed
<1>2. Ordered(x) /\ Ordered(y)
  BY DEF OrderInv
<1>3. x.held \cap y.held = {}
  BY <1>1 DEF Inv, LocksExclusive
<1>4. 1 \in DOMAIN x.need /\ row = x.need[1] /\ row \in Locks
  <2>1. x.need \in Seq(Locks)
    BY <1>1 DEF Transactions
  <2> QED
    BY <1>1, <2>1
<1>5. HandsAll(x) /\ ~HandsMentored(x) /\ ~HandsMentored(y)
  OBVIOUS
<1> HIDE DEF x, y, row
<1>6. \A n \in DOMAIN x.need : x.need[n][1] = "row"
  BY <1>2, <1>5 DEF Ordered, Rowed, RowsOnly
<1>7. PICK s \in Students : row = RowLock(s)
  BY <1>4, <1>6 DEF Locks, TeamLock, RowLock
<1>8. StudentLock(s) \in x.held
  <2>1. Wants(x, RowLock(s))
    BY <1>4, <1>7 DEF Wants, Has
  <2>2. Wants(x, StudentLock(s))
    BY <1>2, <1>5, <2>1 DEF Ordered, Rowed, RowsUnder, HandsAll
  <2>3. ~Has(x.need, StudentLock(s))
    BY <1>6, Kinds DEF Has
  <2> QED
    BY <2>2, <2>3 DEF Wants
<1>9. Wants(y, StudentLock(s))
  <2>1. y.op # "edit_student"
    BY <1>1, <1>2 DEF Ordered, Rowed, RowsOnly
  <2> QED
    BY <1>1, <1>2, <1>5, <1>7, <2>1 DEF Ordered, Rowed, RowsUnder, Wants
<1>10. PICK n \in DOMAIN y.need : y.need[n] = StudentLock(s)
  BY <1>3, <1>8, <1>9 DEF Wants, Has
<1>11. CASE HandsAll(y)
  BY <1>2, <1>10, <1>11, Kinds DEF Ordered, Rowed, RowsOnly
<1>12. CASE ~HandsAll(y)
  <2>1. Comes(RowLock(s), StudentLock(s), BeforeAccounts)
    BY <1>1, <1>2, <1>7, <1>10, <1>12, Kinds DEF Ordered, InTurn
  <2> QED
    BY <2>1, Turns, Kinds DEF Comes, BeforeAccounts
<1> QED
  BY <1>11, <1>12

\* Who hands over all of a mentor's students waits for a row, and comes after all of whoever has it, unless that one
\* too updates the rows of many, or reaches for an account with a row.
LEMMA MentoredWaitsLast ==
  ASSUME Inv, OrderInv, NEW v \in Workers, NEW w \in Workers, NEW u \in Workers, Waits(v, w), Waits(w, u),
         txn[u].need # <<>>, HandsAll(txn[v]), ~HandsAll(txn[w]), ~HandsOne(txn[w])
  PROVE  FALSE
<1> DEFINE k == Head(txn[v].need)
           l == Head(txn[w].need)
<1>1. InTurn(txn[w], AfterAccounts)
  BY DEF OrderInv, Ordered
<1>2. k \in Locks /\ l \in Locks /\ Comes(k, l, AfterAccounts)
  BY <1>1, WaitsOnward
<1>3. k[1] = "row"
  <2>1. txn[v].need # <<>> /\ txn[v].need \in Seq(Locks)
    BY DEF Waits, Inv, Typed, Transactions
  <2>2. 1 \in DOMAIN txn[v].need /\ k = txn[v].need[1]
    BY <2>1
  <2> QED
    BY <2>2 DEF OrderInv, Ordered, Rowed, RowsOnly
<1> HIDE DEF k, l
<1>4. Turn(k, AfterAccounts) = 6
  BY <1>3 DEF Turn, OfTutor, AfterAccounts
<1>5. Turn(l, AfterAccounts) \in 0 .. 6
  BY <1>2, TurnTyped
<1> QED
  BY <1>2, <1>3, <1>4, <1>5 DEF Comes

\* Of those that all wait for one another one waits for a lock that comes last, the students' rows before the mentors'
\* accounts, if none hands over all of a mentor's students.
LEMMA OrderedCircles ==
  ASSUME Inv, OrderInv
  PROVE  DeadlockOnlyByMentors
<1> SUFFICES ASSUME NEW set \in (SUBSET Workers) \ {{}}, \A v \in set : \E w \in set : Waits(v, w),
                    ~\E v, w \in set : /\ v # w /\ HandsMentored(txn[v])
                                       /\ HandsAll(txn[w]) \/ HandsOne(txn[w])
             PROVE  FALSE
  BY Zenon DEF DeadlockOnlyByMentors, HandsMentored, HandsAll, HandsOne
<1> set \subseteq Workers /\ set # {}
  OBVIOUS
<1> DEFINE rows == BeforeAccounts
           head(v) == Head(txn[v].need)
           after(s) == {other \in Students : s < other}
<1>1. \A v \in set : txn[v].need # <<>>
  BY DEF Waits
<1>2. \A v \in set : ~HandsMentored(txn[v])
  <2> SUFFICES ASSUME NEW v \in set, HandsMentored(txn[v])
               PROVE  FALSE
    OBVIOUS
  <2>1. PICK w \in set : Waits(v, w)
    OBVIOUS
  <2>2. PICK u \in set : Waits(w, u)
    OBVIOUS
  <2>3. v # w
    BY <2>1 DEF Waits
  <2>4. ~HandsAll(txn[w]) /\ ~HandsOne(txn[w])
    BY <2>3
  <2>5. HandsAll(txn[v])
    BY DEF HandsMentored
  <2> QED
    BY <1>1, <2>1, <2>2, <2>4, <2>5, MentoredWaitsLast
<1>3. \A v \in set : InTurn(txn[v], rows)
  <2>1. ASSUME NEW v \in set
        PROVE  ~HandsAll(txn[v])
    BY <1>1, <1>2, TaughtOutOfCircles
  <2> QED
    BY <2>1 DEF OrderInv, Ordered
<1>4. ASSUME NEW v \in set
      PROVE  \E w \in set : head(v) \in Locks /\ head(w) \in Locks /\ Comes(head(v), head(w), rows)
  <2>1. PICK w \in set : Waits(v, w)
    OBVIOUS
  <2>2. PICK u \in set : Waits(w, u)
    OBVIOUS
  <2>3. txn[u].need # <<>>
    BY DEF Waits
  <2> QED
    BY <1>3, <2>1, <2>2, <2>3, WaitsOnward
<1> HIDE DEF head
<1>5. \A v \in set : head(v) \in Locks /\ Turn(head(v), rows) \in 0 .. 6
  BY <1>4, TurnTyped
<1>6. PICK top \in set : \A w \in set : Turn(head(w), rows) <= Turn(head(top), rows)
  <2> DEFINE below == {6 - Turn(head(v), rows) : v \in set}
  <2>1. below \in SUBSET Nat /\ below # {}
    BY <1>5
  <2>2. PICK n \in below : \A m \in below : n <= m
    <3> HIDE DEF below
    <3> QED
      BY <2>1, LeastNumber
  <2>3. PICK v \in set : n = 6 - Turn(head(v), rows)
    OBVIOUS
  <2>4. ASSUME NEW w \in set
        PROVE  Turn(head(w), rows) <= Turn(head(v), rows)
    <3>1. 6 - Turn(head(v), rows) <= 6 - Turn(head(w), rows)
      BY <2>2, <2>3
    <3> QED
      BY <1>5, <3>1
  <2> QED
    BY <2>4
<1> DEFINE last == {v \in set : Turn(head(v), rows) = Turn(head(top), rows)}
<1>7. ASSUME NEW v \in last
      PROVE  /\ head(v)[2] \in Students
             /\ \E w \in last : head(w)[2] \in Students /\ head(v)[2] < head(w)[2]
  <2>1. PICK w \in set : head(v) \in Locks /\ head(w) \in Locks /\ Comes(head(v), head(w), rows)
    BY <1>4
  <2>2. ~(Turn(head(v), rows) < Turn(head(w), rows))
    BY <1>5, <1>6
  <2>3. /\ Turn(head(v), rows) = Turn(head(w), rows) /\ head(v)[1] = "student" /\ head(w)[1] = "student"
        /\ head(v)[2] < head(w)[2]
    BY <2>1, <2>2 DEF Comes
  <2>4. w \in last
    BY <2>3
  <2>5. head(v)[2] \in Students /\ head(w)[2] \in Students
    BY <2>1, <2>3 DEF Locks, TeamLock
  <2> QED
    BY <2>3, <2>4, <2>5
<1>8. last # {}
  OBVIOUS
<1> HIDE DEF last
<1>9. \A s \in Students : IsFiniteSet(after(s)) /\ Cardinality(after(s)) \in Nat
  BY TuitionAssumption, FS_Subset, FS_CardinalityType
<1>10. ASSUME NEW s \in Students, NEW c \in Students, s < c
      PROVE  Cardinality(after(c)) < Cardinality(after(s))
  <2>1. \A d \in Students : d \in Nat
    BY TuitionAssumption
  <2>2. after(c) \subseteq after(s) /\ c \in after(s) /\ c \notin after(c)
    BY <1>10, <2>1
  <2>3. Cardinality(after(c)) <= Cardinality(after(s)) /\ Cardinality(after(c)) # Cardinality(after(s))
    BY <1>9, <2>2, FS_Subset
  <2> HIDE DEF after
  <2> QED
    BY <1>9, <2>3
<1> HIDE DEF after
<1>11. PICK v \in last : \A w \in last : Cardinality(after(head(v)[2])) <= Cardinality(after(head(w)[2]))
  <2> DEFINE counts == {Cardinality(after(head(v)[2])) : v \in last}
  <2>1. counts \in SUBSET Nat /\ counts # {}
    BY <1>7, <1>8, <1>9
  <2>2. PICK n \in counts : \A m \in counts : n <= m
    <3> HIDE DEF counts
    <3> QED
      BY <2>1, LeastNumber
  <2> QED
    BY <2>2
<1>12. PICK w \in last : head(w)[2] \in Students /\ head(v)[2] < head(w)[2]
  BY <1>7
<1>13. Cardinality(after(head(w)[2])) < Cardinality(after(head(v)[2]))
  BY <1>7, <1>10, <1>12
<1> QED
  BY <1>7, <1>9, <1>11, <1>12, <1>13

\* Who schedules, changes classes, hands over students or makes changes to staff takes locks in one order, but for the
\* hand-over of all of a mentor's students, whose rows come in any order and after the account: wherever transactions,
\* however many, wait for each other in a circle, one such is among them, with another hand-over.
THEOREM DeadlocksByMentors == Spec => []DeadlockOnlyByMentors
<1>1. Init => OrderInv
  BY NothingOrdered DEF Init, OrderInv
<1>2. Inv /\ OrderInv => DeadlockOnlyByMentors
  BY OrderedCircles
<1> QED
  BY <1>1, <1>2, NextOrdered, Invariant, PTL DEF Spec
=============================================================================
