--------------------------- MODULE BookingsProofs ---------------------------
(***************************************************************************)
(* What TLAPS proves of Bookings, for any number of workers, bookings,     *)
(* slots, leads, tutors and seats: its type, and that the locks its        *)
(* transactions take keep every rule of the bookings, although what each   *)
(* of them checked may have been read long before it writes.               *)
(*                                                                         *)
(* The inductive invariant says of every transaction which locks it has or *)
(* has still to take, and that what it has checked is still true.  A step  *)
(* of another worker touches only what that worker has locked.             *)
(***************************************************************************)
EXTENDS Bookings, FiniteSetTheorems, SequenceTheorems, WellFoundedInduction, TLAPS

\* What each kind of transaction is about
ChangesRow ==
    {"request_redemo", "cancel_booking", "record_parent_confirmation", "assign_tutor",
     "unassign_tutor", "start_booking", "submit_report", "reschedule_booking"}
BeforeStart == {"record_parent_confirmation", "assign_tutor", "unassign_tutor", "reschedule_booking"}
GivesTutor == {"schedule_redemo", "reschedule_booking", "assign_tutor"}
WritesLink == GivesTutor \cup {"set_tutor_meet_link"}
NamesTutor ==
    {"schedule_redemo", "assign_tutor", "set_account_active", "schedule_class", "set_tutor_meet_link"}

ScheduleLock(t) == <<"schedule", t>>
AccountLock(t) == <<"account", t>>

\* Only a stale save of a whole class breaks what is proved of the tutors' classes
NoEdits == "edit_class" \notin Ops

-----------------------------------------------------------------------------
(***************************************************************************)
(* The inductive invariant                                                 *)
(***************************************************************************)
\* A transaction's fields are what its operation needs
ShapedBooking(x) ==
    /\ x.op \in MakesBooking => x.lead \in Leads /\ x.slot \in Slots
    /\ x.op \in ChangesRow \cup {"schedule_redemo", "issue_invite"} =>
          x.booking \in Bookings /\ Exists(x.booking)
    /\ x.op \in {"reschedule_booking", "schedule_redemo"} => x.lead = booking[x.booking].lead
    /\ x.op = "reschedule_booking" => SlotType[x.slot] = Type(x.booking)
    /\ x.op = "schedule_redemo" => booking[x.booking].status = "REDEMO_REQUIRED" /\ SlotType[x.slot] = "DEMO"
    /\ x.op = "request_redemo" => Type(x.booking) = "DEMO"

ShapedInvite(x) ==
    /\ x.op \in {"create_invited_demo_booking", "revoke_invite"} =>
          x.invite \in Invites /\ invite[x.invite].state # "ABSENT"
    /\ x.op = "create_invited_demo_booking" => x.lead = InviteLead(x.invite)
    /\ x.op = "issue_invite" /\ x.stage = "writing" => 
          \A i \in x.todo : i \in Invites /\ invite[i].state # "ABSENT" /\ invite[i].diagnostic = x.booking

ShapedRest(x) ==
    /\ x.op \in Ops /\ x.at <= now
    /\ x.op \in NamesTutor \cup {"start_booking"} => x.tutor \in Tutors
    /\ x.op \in WritesLink => x.value \in Links \cup {None}
    /\ x.op = "record_parent_confirmation" => x.value \in {"CONFIRMED", "NOT_CONFIRMED"}
    /\ x.op = "set_tutor_meet_link" => x.todo \subseteq Bookings
    /\ x.op = "schedule_class" => x.class.tutor = x.tutor
    /\ x.op = "end_class" => x.class.status = "ENDED"
    /\ x.op = "edit_class" /\ x.class.status = "SCHEDULED" => x.class.tutor \in Tutors

\* Has a lock, or has still to take it
Wants(x, lock) == lock \in x.held \/ \E i \in DOMAIN x.need : x.need[i] = lock

\* Once it has checked anything, has it
Keeps(x, lock) == IF x.stage = "first" THEN Wants(x, lock) ELSE lock \in x.held

LocksRows(x) ==
    /\ x.op \in MakesBooking => Keeps(x, SlotLock(x.slot)) /\ Keeps(x, LeadLock(x.lead))
    /\ x.op \in ChangesRow => Keeps(x, BookingLock(x.booking))
    /\ x.op = "schedule_redemo" => Keeps(x, RequestLock(x.booking))
    /\ x.op = "issue_invite" => Keeps(x, LeadLock(booking[x.booking].lead))
    /\ x.op \in {"create_invited_demo_booking", "revoke_invite"} => Keeps(x, InviteLock(x.invite))

LocksTutors(x) ==
    /\ x.op \in GivesTutor /\ x.tutor # None =>
          /\ x.stage = "tutor" => Wants(x, ScheduleLock(x.tutor)) /\ Wants(x, AccountLock(x.tutor))
          /\ x.stage = "writing" => ScheduleLock(x.tutor) \in x.held /\ AccountLock(x.tutor) \in x.held
    /\ x.op = "schedule_class" => Keeps(x, ScheduleLock(x.tutor))
    /\ x.op = "set_account_active" => Keeps(x, AccountLock(x.tutor))

\* What it has checked is still so: of the row it changes,
RowChecked(x) ==
    x.op \in ChangesRow /\ x.stage \in {"tutor", "writing"} =>
        /\ booking[x.booking].status = IF x.op = "request_redemo" THEN "COMPLETED" ELSE "BOOKED"
        /\ x.op \in BeforeStart => ~booking[x.booking].started
        /\ x.op = "start_booking" => ~booking[x.booking].started /\ booking[x.booking].tutor # None
        /\ x.op = "submit_report" => booking[x.booking].started
        /\ x.op = "reschedule_booking" => x.tutor \in {None, booking[x.booking].tutor}

\* of the seat and the lead it books,
Moved(x) == IF x.op = "reschedule_booking" THEN {x.booking} ELSE {}

SeatChecked(x) ==
    x.op \in MakesBooking /\ (x.stage = "writing" \/ (x.op = "reschedule_booking" /\ x.stage = "tutor")) =>
        /\ x.seat \in FreeSeats(x.slot)
        /\ LiveBookings(x.lead, SlotType[x.slot], x.at) \subseteq Moved(x)
        /\ LeadCommitments(x.lead, SlotStart[x.slot]) \subseteq Moved(x)

\* of the Demo it repeats,
RedemoChecked(x) ==
    x.op = "schedule_redemo" /\ x.stage \in {"tutor", "writing"} =>
        RedemoOf(x.booking) = {} /\ x.tutor # booking[x.booking].tutor

\* of the tutor it gives a booking or a class,
StartOf(x) == SlotStart[IF x.op = "assign_tutor" THEN booking[x.booking].slot ELSE x.slot]

LeftOut(x) == IF x.op = "schedule_redemo" THEN {} ELSE {x.booking}

NoBookingThen(t, start, except) ==
    \A b \in Holding \ except : booking[b].tutor = t => ~Overlap(SlotStart[booking[b].slot], start)

TutorChecked(x) ==
    x.op \in GivesTutor /\ x.stage = "writing" /\ x.tutor # None =>
        /\ x.tutor \in active
        /\ x.op = "assign_tutor" => x.tutor # OriginalTutor(x.booking)
        /\ NoBookingThen(x.tutor, StartOf(x), LeftOut(x))
        /\ NoEdits => TutorFree(x.tutor, StartOf(x), LeftOut(x))

ClassChecked(x) ==
    x.op = "schedule_class" /\ x.stage = "writing" /\ NoEdits => TutorFree(x.tutor, x.class.start, {})

AccountChecked(x) ==
    x.op = "set_account_active" /\ x.stage = "writing" => x.flag \/ UpcomingAssignments(x.tutor) = {}

\* and of the invitations.
InviteChecked(x) ==
    /\ x.op \in {"create_invited_demo_booking", "revoke_invite"} /\ x.stage = "writing" =>
          invite[x.invite].state # "USED"
    /\ x.op = "issue_invite" /\ x.stage = "writing" =>
          /\ OpenInvites(x.booking) \subseteq x.todo
          /\ \A i \in x.todo : invite[i].state # "USED"

Right(x) ==
    /\ ShapedBooking(x) /\ ShapedInvite(x) /\ ShapedRest(x)
    /\ LocksRows(x) /\ LocksTutors(x)
    /\ RowChecked(x) /\ SeatChecked(x) /\ RedemoChecked(x)
    /\ TutorChecked(x) /\ ClassChecked(x) /\ AccountChecked(x) /\ InviteChecked(x)

TransactionsRight == \A w \in Workers : txn[w] # NoTxn => Right(txn[w])

\* PostgreSQL gives a lock to one transaction at a time
LocksExclusive == \A v, w \in Workers : v # w => txn[v].held \cap txn[w].held = {}

BookingsReal ==
    \A b \in Bookings :
        IF Exists(b) THEN RealRow(booking[b], booking)
        ELSE booking[b].from = None /\ booking[b].via = None /\ ~booking[b].started

InvitesReal ==
    \A i \in Invites :
        /\ invite[i] = NoInvite \/ (/\ invite[i].state # "ABSENT" /\ invite[i].diagnostic \in Bookings
                                    /\ Exists(invite[i].diagnostic))
        /\ invite[i].booking # None => Exists(invite[i].booking)

ClassesReal == \A c \in Classes : session[c].status = "SCHEDULED" => session[c].tutor \in Tutors

RowsRight ==
    /\ BookingsReal /\ InvitesReal /\ ClassesReal
    /\ OneHolderPerSeat /\ LeadInOnePlace /\ LiveHasActiveTutor /\ MovedIsReplaced
    /\ InviteUsedOnce /\ OneRedemoPerRequest
    /\ NoEdits => TutorInOnePlace

Inv == TypeOK /\ RowsRight /\ LocksExclusive /\ TransactionsRight

-----------------------------------------------------------------------------
\* Locks in the order they are taken
Class(lock) ==
    CASE lock[1] = "slot" -> 0 [] lock[1] = "lead" -> 1 [] lock[1] = "schedule" -> 3
      [] lock[1] = "account" -> 4 [] OTHER -> 2

Before(lock, other) ==
    \/ Class(lock) < Class(other)
    \/ Class(lock) = 0 /\ Class(other) = 0 /\ SlotStart[lock[2]] < SlotStart[other[2]]

\* A transaction takes its locks in that order, and has none to take that come before one it has
Ordered(x) ==
    /\ \A i, j \in DOMAIN x.need : i < j => Before(x.need[i], x.need[j])
    /\ \A lock \in x.held, i \in DOMAIN x.need : Before(lock, x.need[i])
    /\ x.stage = "first" /\ x.op \in GivesTutor =>
          (\A lock \in x.held : Class(lock) <= 2) /\ \A i \in DOMAIN x.need : Class(x.need[i]) <= 2
    /\ x.stage = "first" /\ x.op = "issue_invite" =>
          (\A lock \in x.held : Class(lock) <= 1) /\ \A i \in DOMAIN x.need : Class(x.need[i]) <= 1

OrderInv == "set_tutor_meet_link" \notin Ops => \A w \in Workers : Ordered(txn[w])
-----------------------------------------------------------------------------
(***************************************************************************)
(* Numbers and finite sets                                                 *)
(***************************************************************************)
\* A set of numbers that is not empty has a least one.
LEMMA LeastNumber ==
  ASSUME NEW S \in SUBSET Nat, S # {}
  PROVE  \E n \in S : \A m \in S : n <= m
<1>1. PICK n \in S : \A m \in S : ~ (<<m, n>> \in OpToRel(<, Nat))
  BY WFMin, NatLessThanWellFounded
<1>2. ASSUME NEW m \in S
      PROVE  n <= m
  <2>1. ~(m < n)
    BY <1>1, <1>2 DEF OpToRel
  <2> QED
    BY <2>1
<1> QED
  BY <1>2

\* In a finite set whose elements have different numbers, how many have numbers no greater is the
\* element's place: places grow with the numbers, and every place is taken.
LEMMA Places ==
  ASSUME NEW S, IsFiniteSet(S), NEW number \in [S -> Nat],
         \A s, t \in S : s # t => number[s] # number[t],
         NEW place \in [S -> Nat],
         \A s \in S : place[s] = Cardinality({t \in S : number[t] <= number[s]})
  PROVE  /\ Cardinality(S) \in Nat
         /\ \A s \in S : place[s] \in 1 .. Cardinality(S)
         /\ \A n \in 1 .. Cardinality(S) : \E s \in S : place[s] = n
         /\ \A s, t \in S : number[s] < number[t] => place[s] < place[t]
<1> DEFINE upTo(s) == {t \in S : number[t] <= number[s]}
<1>0. \A s \in S : place[s] = Cardinality(upTo(s))
  OBVIOUS
<1>1. Cardinality(S) \in Nat
  BY FS_CardinalityType
<1>2. \A s \in S : IsFiniteSet(upTo(s)) /\ Cardinality(upTo(s)) <= Cardinality(S)
  BY FS_Subset
<1>3. \A s \in S : place[s] \in 1 .. Cardinality(S)
  <2> SUFFICES ASSUME NEW s \in S
               PROVE  place[s] \in 1 .. Cardinality(S)
    OBVIOUS
  <2>1. s \in upTo(s)
    OBVIOUS
  <2>2. Cardinality(upTo(s)) \in Nat /\ Cardinality(upTo(s)) # 0
    BY <1>2, <2>1, FS_CardinalityType, FS_EmptySet
  <2> HIDE DEF upTo
  <2> QED
    BY <1>0, <1>1, <1>2, <2>2
<1>4. \A s, t \in S : number[s] < number[t] => place[s] < place[t]
  <2> SUFFICES ASSUME NEW s \in S, NEW t \in S, number[s] < number[t]
               PROVE  place[s] < place[t]
    OBVIOUS
  <2>1. upTo(s) \subseteq upTo(t) /\ t \in upTo(t) /\ t \notin upTo(s)
    OBVIOUS
  <2>2. upTo(s) # upTo(t)
    BY <2>1
  <2>3. Cardinality(upTo(s)) <= Cardinality(upTo(t)) /\ Cardinality(upTo(s)) # Cardinality(upTo(t))
    BY <1>2, <2>1, <2>2, FS_Subset
  <2> QED
    BY <2>3
<1>5. place \in Injection(S, 1 .. Cardinality(S))
  <2>1. place \in [S -> 1 .. Cardinality(S)]
    BY <1>3
  <2>2. \A s, t \in S : place[s] = place[t] => s = t
    BY <1>4
  <2> QED
    BY <2>1, <2>2 DEF Injection, IsInjective
<1>6. IsFiniteSet(1 .. Cardinality(S)) /\ Cardinality(1 .. Cardinality(S)) = Cardinality(S)
  BY <1>1, FS_Interval
<1>7. place \in Surjection(S, 1 .. Cardinality(S))
  BY <1>5, <1>6, FS_Injection
<1>8. \A n \in 1 .. Cardinality(S) : \E s \in S : place[s] = n
  BY <1>7 DEF Surjection
<1> QED
  BY <1>1, <1>3, <1>4, <1>8

\* A set gains the one element that is added to what it was.
LEMMA OneMore ==
  ASSUME NEW S, IsFiniteSet(S), NEW T, NEW x, x \notin S, T = S \cup {x}
  PROVE  Cardinality(T) = Cardinality(S) + 1
BY FS_AddElement

-----------------------------------------------------------------------------
(***************************************************************************)
(* What a transaction writes                                               *)
(***************************************************************************)
\* What never changes of a booking
SameBooking(b) ==
    LET old == booking[b]
        new == booking'[b]
    IN  /\ new.lead = old.lead /\ new.slot = old.slot /\ new.seat = old.seat
        /\ new.via = old.via /\ new.from = old.from /\ new.redemoFor = old.redemoFor

\* Nothing but its link is written
Kept(b) ==
    LET old == booking[b]
        new == booking'[b]
    IN  /\ SameBooking(b)
        /\ new.status = old.status /\ new.tutor = old.tutor
        /\ new.started = old.started /\ new.answer = old.answer

\* w's transaction makes it
Made(w, b) ==
    LET x == txn[w]
        new == booking'[b]
    IN  /\ x.op \in MakesBooking /\ x.stage = "writing"
        /\ ~Exists(b)
        /\ new.status = "BOOKED" /\ new.lead = x.lead /\ new.slot = x.slot /\ new.seat = x.seat
        /\ new.started = FALSE /\ new.answer = "AWAITING"
        /\ new.tutor = IF x.op \in GivesTutor THEN x.tutor ELSE None
        /\ new.from = IF x.op = "reschedule_booking" THEN x.booking ELSE None
        /\ new.redemoFor = IF x.op = "schedule_redemo" THEN x.booking
                           ELSE IF x.op = "reschedule_booking" THEN booking[x.booking].redemoFor ELSE None
        /\ new.via = "demo_invite" <=> x.op = "create_invited_demo_booking"

\* w's transaction, which has checked it, changes it
Changed(w, b) ==
    LET x == txn[w]
        old == booking[b]
        new == booking'[b]
    IN  /\ x.op \in ChangesRow /\ x.stage = "writing" /\ x.booking = b
        /\ SameBooking(b)
        /\ x.op = "request_redemo" => new.status = "REDEMO_REQUIRED"
        /\ x.op = "reschedule_booking" => new.status = "RESCHEDULED"
        /\ x.op \notin {"request_redemo", "reschedule_booking"} =>
              new.status \in {"BOOKED", "COMPLETED", "CANCELLED"}
        /\ x.op \in {"start_booking", "assign_tutor"} => new.status = "BOOKED"
        /\ new.tutor = IF x.op = "assign_tutor" THEN x.tutor
                       ELSE IF x.op = "unassign_tutor" THEN None ELSE old.tutor
        /\ new.started = IF x.op = "start_booking" THEN TRUE ELSE old.started
        /\ x.op # "record_parent_confirmation" => new.answer = old.answer
        /\ x.op = "record_parent_confirmation" /\ new.answer = "NOT_CONFIRMED" => new.status = "CANCELLED"

SameInvite(i) == invite'[i].diagnostic = invite[i].diagnostic /\ invite'[i].booking = invite[i].booking

Expired(i) == invite[i].state = "ACTIVE" /\ invite'[i].state = "EXPIRED" /\ SameInvite(i)

Used(w, i) ==
    /\ txn[w].op = "create_invited_demo_booking" /\ txn[w].stage = "writing" /\ txn[w].invite = i
    /\ invite'[i].state = "USED" /\ invite'[i].diagnostic = invite[i].diagnostic
    /\ invite'[i].booking \in Bookings /\ Made(w, invite'[i].booking)

Revoked(w, i) ==
    /\ txn[w].op = "revoke_invite" /\ txn[w].stage = "writing" /\ txn[w].invite = i
    /\ invite'[i].state = "REVOKED" /\ SameInvite(i)

Replaced(w, i) ==
    /\ txn[w].op = "issue_invite" /\ txn[w].stage = "writing" /\ i \in txn[w].todo
    /\ invite'[i].state = "REPLACED" /\ SameInvite(i)

Issued(w, i) ==
    /\ txn[w].op = "issue_invite" /\ txn[w].stage = "writing"
    /\ invite[i] = NoInvite
    /\ invite'[i] = [NoInvite EXCEPT !.state = "ACTIVE", !.diagnostic = txn[w].booking]

AccountSet(w, t) ==
    /\ txn[w].op = "set_account_active" /\ txn[w].stage = "writing" /\ txn[w].tutor = t
    /\ t \in active' <=> txn[w].flag

ClassSaved(w, c) ==
    /\ session'[c] = txn[w].class
    /\ \/ txn[w].op = "schedule_class" /\ txn[w].stage = "writing"
       \/ txn[w].op \in {"end_class", "edit_class"}

\* Whatever is written, a transaction of another worker than v writes
NotBy(v) ==
    LET others == Workers \ {v}
    IN  /\ now <= now'
        /\ \A b \in Bookings : Kept(b) \/ \E w \in others : Made(w, b) \/ Changed(w, b)
        /\ \A i \in Invites :
              \/ invite'[i] = invite[i] \/ Expired(i)
              \/ \E w \in others : Used(w, i) \/ Revoked(w, i) \/ Replaced(w, i) \/ Issued(w, i)
        /\ \A t \in Tutors : (t \in active' <=> t \in active) \/ \E w \in others : AccountSet(w, t)
        /\ \A c \in Classes : session'[c] = session[c] \/ \E w \in others : ClassSaved(w, c)

RowsTyped ==
    /\ now \in Nat
    /\ booking \in [Bookings -> BookingRows]
    /\ invite \in [Invites -> InviteRows]
    /\ active \subseteq Tutors
    /\ session \in [Classes -> SessionRows]

\* A worker with an operation is in a transaction, of which the invariant says what is right.
LEMMA BusyRight ==
  ASSUME Inv, NEW w \in Workers, txn[w].op # None
  PROVE  txn[w] \in Transactions /\ txn[w] # NoTxn /\ Right(txn[w])
BY DEF Inv, TypeOK, TransactionsRight, NoTxn

\* A row that is there stays and keeps what never changes; one that needs a Re-Demo is not written.
LEMMA RowsStay ==
  ASSUME Inv, RowsTyped', NEW b \in Bookings, Exists(b),
         \/ Kept(b)
         \/ \E w \in Workers : Made(w, b) \/ Changed(w, b)
  PROVE  /\ Exists(b)' /\ SameBooking(b)
         /\ booking[b].status = "REDEMO_REQUIRED" => Kept(b)
<1>1. CASE Kept(b)
  BY <1>1 DEF Kept, Exists
<1>2. ASSUME NEW w \in Workers, Made(w, b)
      PROVE  FALSE
  BY <1>2 DEF Made, Exists, Blank
<1>3. ASSUME NEW w \in Workers, Changed(w, b)
      PROVE  Exists(b)' /\ SameBooking(b) /\ booking[b].status # "REDEMO_REQUIRED"
  <2>1. txn[w].op \in ChangesRow /\ txn[w].stage = "writing" /\ txn[w].booking = b
    BY <1>3 DEF Changed
  <2>2. Right(txn[w])
    BY <2>1, ConstantsAssumption, BusyRight DEF ChangesRow, Operations, MakesBooking
  <2>3. booking[b].status # "REDEMO_REQUIRED"
    BY <2>1, <2>2 DEF Right, RowChecked
  <2> QED
    BY <1>3, <2>3 DEF Changed, Exists
<1> QED
  BY <1>1, <1>2, <1>3

\* One lock is not had twice.
LEMMA HeldOnce ==
  ASSUME Inv, NEW v \in Workers, NEW w \in Workers \ {v}, NEW lock,
         lock \in txn[v].held, lock \in txn[w].held
  PROVE  FALSE
BY DEF Inv, LocksExclusive

\* Whoever makes a booking has its slot, its lead and its tutor locked, and has checked them.
LEMMA MakerHolds ==
  ASSUME Inv, NEW w \in Workers, NEW b \in Bookings, Made(w, b)
  PROVE  /\ Right(txn[w]) /\ txn[w] \in Transactions
         /\ booking'[b].lead \in Leads /\ booking'[b].slot \in Slots
         /\ SlotLock(booking'[b].slot) \in txn[w].held
         /\ LeadLock(booking'[b].lead) \in txn[w].held
         /\ booking'[b].tutor # None =>
               /\ txn[w].op \in GivesTutor /\ booking'[b].tutor = txn[w].tutor
               /\ ScheduleLock(booking'[b].tutor) \in txn[w].held
               /\ AccountLock(booking'[b].tutor) \in txn[w].held
<1>1. /\ txn[w].op \in MakesBooking /\ txn[w].stage = "writing"
      /\ booking'[b].lead = txn[w].lead /\ booking'[b].slot = txn[w].slot
      /\ booking'[b].tutor = IF txn[w].op \in GivesTutor THEN txn[w].tutor ELSE None
  BY DEF Made
<1>2. Right(txn[w]) /\ txn[w] \in Transactions
  BY <1>1, ConstantsAssumption, BusyRight DEF Operations
<1>3. ShapedBooking(txn[w]) /\ LocksRows(txn[w]) /\ LocksTutors(txn[w])
  BY <1>2 DEF Right
<1> QED
  BY <1>1, <1>2, <1>3 DEF ShapedBooking, LocksRows, LocksTutors, Keeps

\* Whoever changes a booking has it locked, and the tutor it gives it.
LEMMA ChangerHolds ==
  ASSUME Inv, NEW w \in Workers, NEW b \in Bookings, Changed(w, b)
  PROVE  /\ Right(txn[w]) /\ txn[w] \in Transactions
         /\ Exists(b) /\ booking[b].status \in {"BOOKED", "COMPLETED"}
         /\ booking[b].status = "COMPLETED" => txn[w].op = "request_redemo"
         /\ BookingLock(b) \in txn[w].held
         /\ txn[w].op = "assign_tutor" =>
               /\ booking'[b].tutor = txn[w].tutor /\ txn[w].tutor \in Tutors
               /\ ScheduleLock(txn[w].tutor) \in txn[w].held
               /\ AccountLock(txn[w].tutor) \in txn[w].held
         /\ txn[w].op # "assign_tutor" => booking'[b].tutor \in {booking[b].tutor, None}
<1>1. /\ txn[w].op \in ChangesRow /\ txn[w].stage = "writing" /\ txn[w].booking = b
      /\ booking'[b].tutor = IF txn[w].op = "assign_tutor" THEN txn[w].tutor
                             ELSE IF txn[w].op = "unassign_tutor" THEN None ELSE booking[b].tutor
  BY DEF Changed
<1>2. Right(txn[w]) /\ txn[w] \in Transactions
  BY <1>1, ConstantsAssumption, BusyRight DEF ChangesRow, Operations, MakesBooking
<1>3. ShapedBooking(txn[w]) /\ ShapedRest(txn[w]) /\ RowChecked(txn[w])
      /\ LocksRows(txn[w]) /\ LocksTutors(txn[w])
  BY <1>2 DEF Right
<1>4. Exists(b) /\ booking[b].status \in {"BOOKED", "COMPLETED"}
      /\ (booking[b].status = "COMPLETED" => txn[w].op = "request_redemo")
  BY <1>1, <1>3 DEF RowChecked, Exists
<1>5. BookingLock(b) \in txn[w].held
  BY <1>1, <1>3 DEF LocksRows, Keeps
<1>6. txn[w].op = "assign_tutor" =>
          /\ txn[w].tutor \in Tutors /\ txn[w].tutor # None
          /\ ScheduleLock(txn[w].tutor) \in txn[w].held
          /\ AccountLock(txn[w].tutor) \in txn[w].held
  BY <1>1, <1>3, ConstantsAssumption DEF ShapedRest, NamesTutor, LocksTutors, GivesTutor
<1> QED
  BY <1>1, <1>2, <1>4, <1>5, <1>6

-----------------------------------------------------------------------------
(***************************************************************************)
(* What a lock keeps as it is while others write                           *)
(***************************************************************************)
\* A booking that holds its seat, or is booked, did so before unless it is made now.
LEMMA HeldBefore ==
  ASSUME Inv, NEW b \in Bookings,
         Kept(b) \/ \E w \in Workers : Made(w, b) \/ Changed(w, b)
  PROVE  /\ (b \in Booked)' => b \in Booked \/ \E w \in Workers : Made(w, b)
         /\ (b \in Holding)' => b \in Holding \/ \E w \in Workers : Made(w, b)
<1>1. CASE Kept(b)
  BY <1>1 DEF Kept, Booked, Holding
<1>2. ASSUME NEW w \in Workers, Changed(w, b)
      PROVE  ((b \in Booked)' => b \in Booked) /\ ((b \in Holding)' => b \in Holding)
  <2>1. booking[b].status = "BOOKED" \/ (booking[b].status = "COMPLETED" /\ txn[w].op = "request_redemo")
    BY <1>2, ChangerHolds
  <2>2. txn[w].op = "request_redemo" => booking'[b].status = "REDEMO_REQUIRED"
    BY <1>2 DEF Changed
  <2> QED
    BY <2>1, <2>2 DEF Booked, Holding, HOLDS_SEAT, CONDUCTED
<1> QED
  BY <1>1, <1>2

\* The booking's lock: nobody else writes it.
LEMMA BookingKept ==
  ASSUME Inv, NEW v \in Workers, NotBy(v), NEW b \in Bookings, Exists(b),
         BookingLock(b) \in txn[v].held
  PROVE  Kept(b)
<1>1. ASSUME NEW w \in Workers \ {v}, Made(w, b)
      PROVE  FALSE
  BY <1>1 DEF Made, Exists, Blank
<1>2. ASSUME NEW w \in Workers \ {v}, Changed(w, b)
      PROVE  FALSE
  BY <1>2, ChangerHolds, HeldOnce
<1> QED
  BY <1>1, <1>2 DEF NotBy

\* The slot's lock: no booking comes to hold a seat of it.
LEMMA SlotKept ==
  ASSUME Inv, RowsTyped', NEW v \in Workers, NotBy(v), NEW s, SlotLock(s) \in txn[v].held,
         NEW b \in Bookings, (b \in Holding)', booking'[b].slot = s
  PROVE  b \in Holding /\ SameBooking(b)
<1>1. ASSUME NEW w \in Workers \ {v}, Made(w, b)
      PROVE  FALSE
  BY <1>1, MakerHolds, HeldOnce
<1>2. CASE Kept(b)
  BY <1>2 DEF Kept, Holding
<1>3. ASSUME NEW w \in Workers \ {v}, Changed(w, b)
      PROVE  b \in Holding /\ SameBooking(b)
  BY ZenonT(60), <1>3, ChangerHolds DEF Changed, Holding, HOLDS_SEAT, CONDUCTED
<1> QED
  BY <1>1, <1>2, <1>3 DEF NotBy

\* The lead's lock: the lead gets no booking.
LEMMA LeadKept ==
  ASSUME Inv, RowsTyped', NEW v \in Workers, NotBy(v), NEW l, LeadLock(l) \in txn[v].held,
         NEW b \in Bookings, (b \in Booked)', booking'[b].lead = l
  PROVE  b \in Booked /\ SameBooking(b)
<1>1. ASSUME NEW w \in Workers \ {v}, Made(w, b)
      PROVE  FALSE
  BY <1>1, MakerHolds, HeldOnce
<1>2. CASE Kept(b)
  BY <1>2 DEF Kept, Booked
<1>3. ASSUME NEW w \in Workers \ {v}, Changed(w, b)
      PROVE  b \in Booked /\ SameBooking(b)
  <2>1. Right(txn[w]) /\ booking[b].status \in {"BOOKED", "COMPLETED"} /\ SameBooking(b)
    BY <1>3, ChangerHolds DEF Changed
  <2>2. booking[b].status = "COMPLETED" => booking'[b].status # "BOOKED"
    BY <1>3, ChangerHolds DEF Changed
  <2> QED
    BY <2>1, <2>2 DEF Booked
<1> QED
  BY <1>1, <1>2, <1>3 DEF NotBy

\* The lock of a tutor's schedule or account: no booking comes to have this tutor.
LEMMA TutorKept ==
  ASSUME Inv, RowsTyped', NEW v \in Workers, NotBy(v), NEW t, t # None,
         ScheduleLock(t) \in txn[v].held \/ AccountLock(t) \in txn[v].held,
         NEW b \in Bookings, (b \in Holding)', booking'[b].tutor = t
  PROVE  /\ b \in Holding /\ SameBooking(b) /\ booking[b].tutor = t
         /\ (b \in Booked)' => b \in Booked
<1>1. ASSUME NEW w \in Workers \ {v}, Made(w, b)
      PROVE  FALSE
  BY <1>1, MakerHolds, HeldOnce
<1>2. CASE Kept(b)
  BY <1>2 DEF Kept, Holding, Booked
<1>3. ASSUME NEW w \in Workers \ {v}, Changed(w, b)
      PROVE  b \in Holding /\ SameBooking(b) /\ booking[b].tutor = t
  <2>1. txn[w].op # "assign_tutor"
    BY <1>3, ChangerHolds, HeldOnce
  <2>2. booking[b].tutor = t /\ b \in Holding
    BY <1>3, <2>1, ChangerHolds DEF Holding, HOLDS_SEAT, CONDUCTED
  <2> QED
    BY <1>3, <2>2 DEF Changed
<1>4. (b \in Booked)' => b \in Booked \/ \E w \in Workers \ {v} : Made(w, b)
  <2>1. Kept(b) \/ \E w \in Workers \ {v} : Made(w, b) \/ Changed(w, b)
    BY DEF NotBy
  <2>2. CASE \E w \in Workers \ {v} : Made(w, b)
    BY <2>2
  <2>3. CASE Kept(b)
    BY <2>3 DEF Kept, Booked
  <2>4. CASE \E w \in Workers \ {v} : Changed(w, b)
    <3>1. PICK w \in Workers \ {v} : Changed(w, b)
      BY <2>4
    <3>2. \A u \in Workers : ~Made(u, b)
      BY <3>1, ChangerHolds DEF Made, Exists, Blank
    <3> QED
      BY <3>1, <3>2, HeldBefore
  <2> QED
    BY <2>1, <2>2, <2>3, <2>4
<1> QED
  BY <1>1, <1>2, <1>3, <1>4 DEF NotBy

\* The request's lock: it gets no Re-Demo.
LEMMA RequestKept ==
  ASSUME Inv, RowsTyped', NEW v \in Workers, NotBy(v), NEW d \in Bookings,
         RequestLock(d) \in txn[v].held, RedemoOf(d) = {}
  PROVE  RedemoOf(d)' = {}
<1> SUFFICES ASSUME NEW b \in Bookings, (b \in Holding)', booking'[b].redemoFor = d
             PROVE  FALSE
  BY DEF RedemoOf, Holding
<1>1. ~(b \in Holding /\ SameBooking(b))
  BY DEF RedemoOf, SameBooking
<1>2. ASSUME NEW w \in Workers \ {v}, Made(w, b)
      PROVE  FALSE
  <2>1. Right(txn[w]) /\ txn[w].stage = "writing" /\ txn[w].op \in MakesBooking
    BY <1>2, MakerHolds DEF Made
  <2>2. CASE txn[w].op = "schedule_redemo"
    <3>1. txn[w].booking = d
      BY <1>2, <2>2 DEF Made
    <3>2. RequestLock(d) \in txn[w].held
      BY <2>1, <2>2, <3>1 DEF Right, LocksRows, Keeps
    <3> QED
      BY <3>2, HeldOnce
  <2>3. CASE txn[w].op = "reschedule_booking"
    <3>1. booking[txn[w].booking].redemoFor = d
      BY <1>2, <2>3 DEF Made
    <3>2. txn[w].booking \in Bookings /\ booking[txn[w].booking].status = "BOOKED"
      BY <2>1, <2>3 DEF Right, ShapedBooking, RowChecked, ChangesRow
    <3> QED
      BY <3>1, <3>2 DEF RedemoOf, Holding, HOLDS_SEAT
  <2>4. CASE txn[w].op \notin {"schedule_redemo", "reschedule_booking"}
    <3>1. booking'[b].redemoFor = None
      BY <1>2, <2>4 DEF Made
    <3> QED
      BY <3>1, ConstantsAssumption
  <2> QED
    BY <2>2, <2>3, <2>4
<1>3. CASE Kept(b)
  BY <1>1, <1>3 DEF Kept, Holding
<1>4. ASSUME NEW w \in Workers \ {v}, Changed(w, b)
      PROVE  FALSE
  BY ZenonT(60), <1>1, <1>4, ChangerHolds DEF Changed, Holding, HOLDS_SEAT, CONDUCTED
<1> QED
  BY <1>2, <1>3, <1>4 DEF NotBy

\* Whatever others write, what a transaction is about stays.
LEMMA SubjectsStay ==
  ASSUME Inv, RowsTyped', NEW v \in Workers, NotBy(v)
  PROVE  /\ \A b \in Bookings : Exists(b) =>
               /\ Exists(b)' /\ SameBooking(b)
               /\ booking[b].status = "REDEMO_REQUIRED" => Kept(b)
         /\ \A i \in Invites : invite[i].state # "ABSENT" =>
               /\ invite'[i].state # "ABSENT" /\ invite'[i].diagnostic = invite[i].diagnostic
               /\ InviteLead(i)' = InviteLead(i)
<1>1. \A b \in Bookings : Exists(b) =>
          Exists(b)' /\ SameBooking(b) /\ (booking[b].status = "REDEMO_REQUIRED" => Kept(b))
  BY RowsStay DEF NotBy
<1>2. ASSUME NEW i \in Invites, invite[i].state # "ABSENT"
      PROVE  invite'[i].state # "ABSENT" /\ invite'[i].diagnostic = invite[i].diagnostic
  <2>1. ASSUME NEW w \in Workers
        PROVE  ~Issued(w, i)
    BY <1>2 DEF Issued, NoInvite
  <2> QED
    BY <1>2, <2>1 DEF NotBy, Expired, Used, Revoked, Replaced, SameInvite
<1>3. ASSUME NEW i \in Invites, invite[i].state # "ABSENT"
      PROVE  InviteLead(i)' = InviteLead(i)
  <2>1. invite[i].diagnostic \in Bookings /\ Exists(invite[i].diagnostic)
    BY <1>3 DEF Inv, RowsRight, InvitesReal, NoInvite
  <2> QED
    BY <1>1, <1>2, <1>3, <2>1 DEF InviteLead, SameBooking
<1> QED
  BY <1>1, <1>2, <1>3

\* The tutor a row must not have again stays the same.
LEMMA OriginalStays ==
  ASSUME Inv, RowsTyped', NEW b \in Bookings, Exists(b), SameBooking(b),
         \A d \in Bookings : booking[d].status = "REDEMO_REQUIRED" => Kept(d)
  PROVE  OriginalTutor(b)' = OriginalTutor(b)
<1>1. RealRow(booking[b], booking) /\ booking[b] \in BookingRows
  BY DEF Inv, RowsRight, BookingsReal, Exists, TypeOK
<1>2. booking'[b].redemoFor = booking[b].redemoFor
  BY DEF SameBooking
<1>3. CASE booking[b].redemoFor = None
  BY <1>2, <1>3 DEF OriginalTutor
<1>4. CASE booking[b].redemoFor # None
  <2>1. /\ booking[b].redemoFor \in Bookings
        /\ booking[booking[b].redemoFor].status = "REDEMO_REQUIRED"
    BY <1>1, <1>4 DEF RealRow, BookingRows
  <2>2. booking'[booking[b].redemoFor].tutor = booking[booking[b].redemoFor].tutor
    BY <2>1 DEF Kept
  <2> QED
    BY <1>2, <1>4, <2>2 DEF OriginalTutor
<1> QED
  BY <1>3, <1>4

-----------------------------------------------------------------------------
(***************************************************************************)
(* What a transaction has checked stays so while others write              *)
(***************************************************************************)
LEMMA ShapedStays ==
  ASSUME Inv, RowsTyped', NEW v \in Workers, txn[v] # NoTxn, NotBy(v), NEW x, x = txn[v]
  PROVE  ShapedBooking(x)' /\ ShapedInvite(x)' /\ ShapedRest(x)' /\ LocksRows(x)' /\ LocksTutors(x)'
<1>1. x \in Transactions /\ Right(x)
  BY DEF Inv, TypeOK, TransactionsRight
<1>2. ShapedBooking(x) /\ ShapedInvite(x) /\ ShapedRest(x) /\ LocksRows(x) /\ LocksTutors(x)
  BY <1>1 DEF Right
<1>3. \A b \in Bookings : Exists(b) =>
          Exists(b)' /\ SameBooking(b) /\ (booking[b].status = "REDEMO_REQUIRED" => Kept(b))
  BY SubjectsStay
<1>4. \A i \in Invites : invite[i].state # "ABSENT" =>
          /\ invite'[i].state # "ABSENT" /\ invite'[i].diagnostic = invite[i].diagnostic
          /\ InviteLead(i)' = InviteLead(i)
  BY SubjectsStay
<1>5. ShapedBooking(x)'
  <2>1. x.op \in ChangesRow \cup {"schedule_redemo", "issue_invite"} =>
            /\ x.booking \in Bookings /\ Exists(x.booking)' /\ SameBooking(x.booking)
            /\ booking[x.booking].status = "REDEMO_REQUIRED" => Kept(x.booking)
    BY <1>2, <1>3 DEF ShapedBooking
  <2>2. /\ x.op \in {"reschedule_booking", "schedule_redemo"} => x.lead = booking'[x.booking].lead
        /\ x.op = "reschedule_booking" => SlotType[x.slot] = Type(x.booking)'
        /\ x.op = "request_redemo" => Type(x.booking)' = "DEMO"
    BY <1>2, <2>1 DEF ShapedBooking, SameBooking, ChangesRow, Type
  <2>3. x.op = "schedule_redemo" => booking'[x.booking].status = "REDEMO_REQUIRED"
    BY <1>2, <2>1 DEF ShapedBooking, Kept
  <2> QED
    BY <1>2, <2>1, <2>2, <2>3 DEF ShapedBooking
<1>6. ShapedInvite(x)'
  BY <1>2, <1>4 DEF ShapedInvite
<1>7. ShapedRest(x)'
  <2>1. x.at \in Nat /\ now \in Nat /\ now' \in Nat /\ now <= now'
    BY <1>1 DEF Inv, TypeOK, RowsTyped, NotBy, Transactions
  <2> QED
    BY <1>2, <2>1 DEF ShapedRest
<1>8. LocksRows(x)'
  BY <1>2, <1>3
     DEF LocksRows, Keeps, Wants, ShapedBooking, SameBooking, SlotLock, LeadLock, BookingLock,
         RequestLock, InviteLock
<1>9. LocksTutors(x)'
  BY <1>2 DEF LocksTutors, Keeps, Wants, ScheduleLock, AccountLock
<1> QED
  BY <1>5, <1>6, <1>7, <1>8, <1>9

\* What a transaction checked of the row it changes stays so: it has the row's lock.
LEMMA RowCheckedStays ==
  ASSUME Inv, RowsTyped', NEW v \in Workers, txn[v] # NoTxn, NotBy(v), NEW x, x = txn[v]
  PROVE  RowChecked(x)'
<1> SUFFICES ASSUME x.op \in ChangesRow, x.stage \in {"tutor", "writing"}
             PROVE  RowChecked(x)'
  BY DEF RowChecked
<1>1. ShapedBooking(x) /\ LocksRows(x) /\ RowChecked(x)
  BY DEF Inv, TransactionsRight, Right
<1>2. x.booking \in Bookings /\ Exists(x.booking) /\ BookingLock(x.booking) \in x.held
  BY <1>1 DEF ShapedBooking, LocksRows, Keeps
<1>3. Kept(x.booking)
  BY <1>2, BookingKept
<1> QED
  BY <1>1, <1>3 DEF RowChecked, Kept

\* Seats taken by nobody, and a lead's other bookings.
LEMMA SeatCheckedStays ==
  ASSUME Inv, RowsTyped', NEW v \in Workers, txn[v] # NoTxn, NotBy(v), NEW x, x = txn[v]
  PROVE  SeatChecked(x)'
<1> SUFFICES ASSUME x.op \in MakesBooking, x.stage = "writing" \/ (x.op = "reschedule_booking" /\ x.stage = "tutor")
             PROVE  SeatChecked(x)'
  BY DEF SeatChecked
<1>1. ShapedBooking(x) /\ LocksRows(x) /\ SeatChecked(x)
  BY DEF Inv, TransactionsRight, Right
<1>2. SlotLock(x.slot) \in x.held /\ LeadLock(x.lead) \in x.held
  BY <1>1 DEF LocksRows, Keeps
<1>3. FreeSeats(x.slot) \subseteq FreeSeats(x.slot)'
  <2> SUFFICES ASSUME NEW n \in FreeSeats(x.slot), NEW b \in Bookings, (b \in Holding)',
                      booking'[b].slot = x.slot, booking'[b].seat = n
               PROVE  FALSE
    BY DEF FreeSeats, Holding
  <2>1. b \in Holding /\ SameBooking(b)
    BY <1>2, SlotKept
  <2> QED
    BY <2>1 DEF FreeSeats, SameBooking
<1>4. ASSUME NEW b \in Bookings, (b \in Booked)', booking'[b].lead = x.lead
      PROVE  b \in Booked /\ SameBooking(b)
  BY <1>2, <1>4, LeadKept
<1>5. LiveBookings(x.lead, SlotType[x.slot], x.at)' \subseteq LiveBookings(x.lead, SlotType[x.slot], x.at)
  BY <1>4 DEF LiveBookings, IsLive, SameBooking, Type, Ends
<1>6. LeadCommitments(x.lead, SlotStart[x.slot])' \subseteq LeadCommitments(x.lead, SlotStart[x.slot])
  BY <1>4 DEF LeadCommitments, SameBooking, Booked
<1> QED
  BY <1>1, <1>3, <1>5, <1>6 DEF SeatChecked, Moved

\* What it checked of the Demo it repeats stays so: it has the request's lock.
LEMMA RedemoCheckedStays ==
  ASSUME Inv, RowsTyped', NEW v \in Workers, txn[v] # NoTxn, NotBy(v), NEW x, x = txn[v]
  PROVE  RedemoChecked(x)'
<1> SUFFICES ASSUME x.op = "schedule_redemo", x.stage \in {"tutor", "writing"}
             PROVE  RedemoChecked(x)'
  BY DEF RedemoChecked
<1>1. ShapedBooking(x) /\ LocksRows(x) /\ RedemoChecked(x)
  BY DEF Inv, TransactionsRight, Right
<1>2. x.booking \in Bookings /\ RequestLock(x.booking) \in x.held
      /\ booking[x.booking].status = "REDEMO_REQUIRED" /\ Exists(x.booking)
  BY <1>1 DEF LocksRows, Keeps, ShapedBooking
<1>3. RedemoOf(x.booking)' = {}
  BY <1>1, <1>2, RequestKept DEF RedemoChecked
<1>4. booking'[x.booking].tutor = booking[x.booking].tutor
  BY <1>2, SubjectsStay DEF Kept
<1> QED
  BY <1>1, <1>3, <1>4 DEF RedemoChecked

\* A tutor whose schedule is locked gets no other booking.
LEMMA TutorStaysUnbooked ==
  ASSUME Inv, RowsTyped', NEW v \in Workers, NotBy(v), NEW t, t # None,
         ScheduleLock(t) \in txn[v].held,
         NEW start, NEW except, NoBookingThen(t, start, except)
  PROVE  NoBookingThen(t, start, except)'
<1>1. ASSUME NEW b \in Bookings, (b \in Holding)', booking'[b].tutor = t
      PROVE  b \in Holding /\ SameBooking(b) /\ booking[b].tutor = t
  BY <1>1, TutorKept
<1>2. \A b \in Bookings : (b \in Holding)' /\ b \notin except /\ booking'[b].tutor = t => ~Overlap(SlotStart[booking'[b].slot], start)
  BY <1>1 DEF NoBookingThen, SameBooking
<1> QED
  BY <1>2 DEF NoBookingThen, Holding

\* The tutor's time stays free while their schedule is locked.
LEMMA TutorStaysFree ==
  ASSUME Inv, RowsTyped', NEW v \in Workers, NotBy(v), NEW t, t # None,
         ScheduleLock(t) \in txn[v].held,
         NoEdits, NEW start, NEW except, TutorFree(t, start, except)
  PROVE  TutorFree(t, start, except)'
<1>1. ASSUME NEW c \in Classes, session'[c].status = "SCHEDULED", session'[c].tutor = t
      PROVE  session'[c] = session[c]
  <2>1. ASSUME NEW w \in Workers \ {v}, ClassSaved(w, c)
        PROVE  FALSE
    <3>1. txn[w].op \in {"schedule_class", "end_class", "edit_class"} /\ session'[c] = txn[w].class
      BY <2>1 DEF ClassSaved
    <3>2. Right(txn[w])
      BY <3>1, ConstantsAssumption, BusyRight DEF Operations
    <3>3. ShapedRest(txn[w]) /\ LocksTutors(txn[w])
      BY <3>2 DEF Right
    <3>4. txn[w].op = "schedule_class" /\ txn[w].stage = "writing"
      BY <1>1, <2>1, <3>1, <3>3 DEF ShapedRest, NoEdits, ClassSaved
    <3>5. txn[w].tutor = t
      BY <1>1, <3>1, <3>3, <3>4 DEF ShapedRest
    <3> QED
      BY <3>3, <3>4, <3>5, HeldOnce DEF LocksTutors, Keeps
  <2> QED
    BY <2>1 DEF NotBy
<1>2. ASSUME NEW b \in Bookings, (b \in Holding)', booking'[b].tutor = t
      PROVE  b \in Holding /\ SameBooking(b) /\ booking[b].tutor = t
  BY <1>2, TutorKept
<1>3. \A c \in Classes : session'[c].status = "SCHEDULED" /\ session'[c].tutor = t => ~Overlap(session'[c].start, start)
  BY <1>1 DEF TutorFree
<1>4. \A b \in Bookings : (b \in Holding)' /\ b \notin except /\ booking'[b].tutor = t => ~Overlap(SlotStart[booking'[b].slot], start)
  BY <1>2 DEF TutorFree, SameBooking
<1> QED
  BY <1>3, <1>4 DEF TutorFree, Holding

\* What it checked of its tutor stays so: it has the tutor's schedule and account.
LEMMA TutorCheckedStays ==
  ASSUME Inv, RowsTyped', NEW v \in Workers, txn[v] # NoTxn, NotBy(v), NEW x, x = txn[v]
  PROVE  TutorChecked(x)'
<1> SUFFICES ASSUME x.op \in GivesTutor, x.stage = "writing", x.tutor # None
             PROVE  TutorChecked(x)'
  BY DEF TutorChecked
<1>1. x \in Transactions /\ ShapedBooking(x) /\ LocksTutors(x) /\ TutorChecked(x)
  BY DEF Inv, TypeOK, TransactionsRight, Right
<1>2. ScheduleLock(x.tutor) \in x.held /\ AccountLock(x.tutor) \in x.held
  BY <1>1 DEF LocksTutors
<1>3. x.tutor \in active'
  <2>1. x.tutor \in active /\ x.tutor \in Tutors
    BY <1>1 DEF TutorChecked, Transactions
  <2>2. ASSUME NEW w \in Workers \ {v}, AccountSet(w, x.tutor)
        PROVE  FALSE
    <3>1. txn[w].op = "set_account_active" /\ txn[w].stage = "writing" /\ txn[w].tutor = x.tutor
      BY <2>2 DEF AccountSet
    <3>2. Right(txn[w])
      BY <3>1, ConstantsAssumption, BusyRight DEF Operations
    <3> QED
      BY <1>2, <3>1, <3>2, HeldOnce DEF Right, LocksTutors, Keeps
  <2> QED
    BY <2>1, <2>2 DEF NotBy
<1>4. x.op \in {"reschedule_booking", "assign_tutor", "schedule_redemo"} /\ x.booking \in Bookings /\ Exists(x.booking)
      /\ SameBooking(x.booking)
  BY <1>1, SubjectsStay DEF GivesTutor, ShapedBooking, ChangesRow
<1>5. OriginalTutor(x.booking)' = OriginalTutor(x.booking)
  <2>1. \A d \in Bookings : booking[d].status = "REDEMO_REQUIRED" => Kept(d)
    BY SubjectsStay DEF Exists
  <2> QED
    BY <1>4, <2>1, OriginalStays
<1>6. StartOf(x)' = StartOf(x)
  BY <1>4 DEF StartOf, SameBooking
<1>8. ASSUME NEW except, NoBookingThen(x.tutor, StartOf(x), except)
      PROVE  NoBookingThen(x.tutor, StartOf(x), except)'
  <2> DEFINE start == StartOf(x)
  <2>1. NoBookingThen(x.tutor, start, except)
    BY <1>8
  <2> HIDE DEF start
  <2>2. start' = start
    BY <1>6 DEF start
  <2>3. ASSUME NEW s, NoBookingThen(x.tutor, s, except)
        PROVE  NoBookingThen(x.tutor, s, except)'
    BY <1>2, <2>3, TutorStaysUnbooked
  <2>4. \A s : s = start /\ NoBookingThen(x.tutor, s, except)' => NoBookingThen(x.tutor, start, except)'
    BY <2>2 DEF NoBookingThen, Overlap
  <2> QED
    BY <2>1, <2>3, <2>4 DEF start
<1>7. ASSUME NoEdits, NEW except, TutorFree(x.tutor, StartOf(x), except)
      PROVE  TutorFree(x.tutor, StartOf(x), except)'
  <2> DEFINE start == StartOf(x)
  <2>1. TutorFree(x.tutor, start, except)
    BY <1>7
  <2> HIDE DEF start
  <2>2. start' = start
    BY <1>6 DEF start
  <2>3. ASSUME NEW s, TutorFree(x.tutor, s, except)
        PROVE  TutorFree(x.tutor, s, except)'
    BY <1>2, <1>7, <2>3, TutorStaysFree
  <2>4. \A s : s = start /\ TutorFree(x.tutor, s, except)' => TutorFree(x.tutor, start, except)'
    BY <2>2 DEF TutorFree, Overlap
  <2> QED
    BY <2>1, <2>3, <2>4 DEF start
<1> QED
  BY <1>1, <1>3, <1>5, <1>6, <1>7, <1>8 DEF TutorChecked, LeftOut

\* What it checked of the tutor of a class stays so: it has the tutor's schedule.
LEMMA ClassCheckedStays ==
  ASSUME Inv, RowsTyped', NEW v \in Workers, txn[v] # NoTxn, NotBy(v), NEW x, x = txn[v]
  PROVE  ClassChecked(x)'
<1> SUFFICES ASSUME x.op = "schedule_class", x.stage = "writing", NoEdits
             PROVE  TutorFree(x.tutor, x.class.start, {})'
  BY DEF ClassChecked, TutorFree
<1>1. ShapedRest(x) /\ LocksTutors(x) /\ ClassChecked(x)
  BY DEF Inv, TransactionsRight, Right
<1>2. ScheduleLock(x.tutor) \in x.held /\ x.tutor # None
  BY <1>1, ConstantsAssumption DEF LocksTutors, Keeps, ShapedRest, NamesTutor
<1>3. TutorFree(x.tutor, x.class.start, {})
  BY <1>1 DEF ClassChecked
<1> QED
  BY <1>2, <1>3, TutorStaysFree

\* What it checked of the account it closes stays so: whoever gives that tutor a booking needs the
\* account.
LEMMA AccountCheckedStays ==
  ASSUME Inv, RowsTyped', NEW v \in Workers, txn[v] # NoTxn, NotBy(v), NEW x, x = txn[v]
  PROVE  AccountChecked(x)'
<1> SUFFICES ASSUME x.op = "set_account_active", x.stage = "writing", UpcomingAssignments(x.tutor) = {}
             PROVE  UpcomingAssignments(x.tutor)' = {}
  BY DEF Inv, TransactionsRight, Right, AccountChecked
<1>1. ShapedRest(x) /\ LocksTutors(x)
  BY DEF Inv, TransactionsRight, Right
<1>2. AccountLock(x.tutor) \in x.held /\ x.tutor # None
  BY <1>1, ConstantsAssumption DEF LocksTutors, Keeps, ShapedRest, NamesTutor
<1> SUFFICES ASSUME NEW b \in Bookings, IsLive(b, now)', booking'[b].tutor = x.tutor
             PROVE  FALSE
  BY DEF UpcomingAssignments
<1>3. (b \in Booked)' /\ (b \in Holding)'
  BY DEF IsLive, Booked, Holding, HOLDS_SEAT
<1>4. b \in Booked /\ SameBooking(b) /\ booking[b].tutor = x.tutor
  BY <1>2, <1>3, TutorKept
<1>5. Ends(booking[b].slot) > now
  <2>1. booking[b].slot \in Slots
    BY <1>4 DEF Inv, RowsRight, BookingsReal, RealRow, Booked, Exists
  <2>2. Ends(booking[b].slot) \in Nat /\ now \in Nat /\ now' \in Nat /\ now <= now'
    BY <2>1, ConstantsAssumption DEF Ends, Inv, TypeOK, RowsTyped, NotBy
  <2>3. Ends(booking[b].slot) > now'
    BY <1>4 DEF IsLive, SameBooking, Ends
  <2> QED
    BY <2>2, <2>3
<1> QED
  BY <1>4, <1>5 DEF UpcomingAssignments, IsLive

\* An invitation is used under its own lock and its lead's, and issued under the lead's.
LEMMA InviteCheckedStays ==
  ASSUME Inv, RowsTyped', NEW v \in Workers, txn[v] # NoTxn, NotBy(v), NEW x, x = txn[v]
  PROVE  InviteChecked(x)'
<1>1. ShapedBooking(x) /\ ShapedInvite(x) /\ LocksRows(x) /\ InviteChecked(x)
  BY DEF Inv, TransactionsRight, Right
<1>2. ASSUME NEW w \in Workers, NEW i, Used(w, i)
      PROVE  /\ InviteLock(i) \in txn[w].held /\ LeadLock(InviteLead(i)) \in txn[w].held
  <2>1. txn[w].op = "create_invited_demo_booking" /\ txn[w].stage = "writing" /\ txn[w].invite = i
    BY <1>2 DEF Used
  <2>2. Right(txn[w])
    BY <2>1, ConstantsAssumption, BusyRight DEF Operations, MakesBooking
  <2> QED
    BY <2>1, <2>2 DEF Right, ShapedInvite, LocksRows, Keeps, MakesBooking
<1>3. ASSUME x.op \in {"create_invited_demo_booking", "revoke_invite"}, x.stage = "writing"
      PROVE  invite'[x.invite].state # "USED"
  <2>1. x.invite \in Invites /\ InviteLock(x.invite) \in x.held /\ invite[x.invite].state # "USED"
    BY <1>1, <1>3 DEF ShapedInvite, LocksRows, Keeps, InviteChecked
  <2>2. ASSUME NEW w \in Workers \ {v}
        PROVE  ~Used(w, x.invite)
    BY <1>2, <2>1, HeldOnce
  <2> QED
    BY <2>1, <2>2 DEF NotBy, Expired, Revoked, Replaced, Issued, NoInvite
<1>4. ASSUME x.op = "issue_invite", x.stage = "writing"
      PROVE  /\ OpenInvites(x.booking)' \subseteq x.todo
             /\ \A i \in x.todo : invite'[i].state # "USED"
  <2>1. /\ x.booking \in Bookings /\ LeadLock(booking[x.booking].lead) \in x.held
        /\ OpenInvites(x.booking) \subseteq x.todo
        /\ \A i \in x.todo : /\ i \in Invites /\ invite[i].diagnostic = x.booking
                             /\ invite[i].state # "USED"
    BY <1>1, <1>4 DEF ShapedBooking, ShapedInvite, LocksRows, Keeps, InviteChecked
  <2>2. ASSUME NEW i \in Invites, i \in OpenInvites(x.booking)'
        PROVE  i \in x.todo
    <3>1. ASSUME NEW w \in Workers \ {v}, Issued(w, i)
          PROVE  FALSE
      <4>1. txn[w].op = "issue_invite" /\ txn[w].stage = "writing" /\ txn[w].booking = x.booking
        BY <2>2, <3>1 DEF Issued, OpenInvites, NoInvite
      <4>2. Right(txn[w])
        BY <4>1, ConstantsAssumption, BusyRight DEF Operations
      <4>3. LeadLock(booking[x.booking].lead) \in txn[w].held
        BY <4>1, <4>2 DEF Right, LocksRows, Keeps
      <4> QED
        BY <2>1, <4>3, HeldOnce
    <3>2. invite'[i] = invite[i] \/ Expired(i)
      BY <2>2, <3>1 DEF NotBy, Used, Revoked, Replaced, OpenInvites
    <3>3. i \in OpenInvites(x.booking)
      BY <2>2, <3>2 DEF OpenInvites, Expired, SameInvite
    <3> QED
      BY <2>1, <3>3
  <2>3. ASSUME NEW i \in x.todo
        PROVE  invite'[i].state # "USED"
    <3>1. ASSUME NEW w \in Workers \ {v}
          PROVE  ~Used(w, i)
      BY <1>2, <2>1, HeldOnce DEF InviteLead
    <3>2. \A w : Issued(w, i) => invite'[i].state = "ACTIVE"
      BY DEF Issued, NoInvite
    <3>3. i \in Invites /\ invite[i].state # "USED"
      BY <2>1
    <3> QED
      BY <3>1, <3>2, <3>3 DEF NotBy, Expired, Revoked, Replaced
  <2> QED
    BY <2>2, <2>3 DEF OpenInvites
<1> QED
  BY <1>3, <1>4 DEF InviteChecked

\* Whatever others write, a transaction stays right.
LEMMA RightStays ==
  ASSUME Inv, RowsTyped', NEW v \in Workers, txn[v] # NoTxn, NotBy(v), NEW x, x = txn[v]
  PROVE  Right(x)'
BY ShapedStays, RowCheckedStays, SeatCheckedStays, RedemoCheckedStays, TutorCheckedStays,
   ClassCheckedStays, AccountCheckedStays, InviteCheckedStays DEF Right

-----------------------------------------------------------------------------
(***************************************************************************)
(* The rules of the rows are kept by what a transaction writes             *)
(***************************************************************************)
\* What w's transaction writes as it commits
WrittenBy(w) ==
    LET x == txn[w]
    IN  /\ now' = now /\ txn' = [txn EXCEPT ![w] = NoTxn]
        /\ \A b \in Bookings : Kept(b) \/ Made(w, b) \/ Changed(w, b)
        /\ \A b, c \in Bookings : Made(w, b) /\ Made(w, c) => b = c
        /\ x.op = "reschedule_booking" => Changed(w, x.booking) /\ \E b \in Bookings : Made(w, b)
        /\ \A i \in Invites :
              invite'[i] = invite[i] \/ Used(w, i) \/ Revoked(w, i) \/ Replaced(w, i) \/ Issued(w, i)
        /\ x.op = "create_invited_demo_booking" => Used(w, x.invite)
        /\ x.op = "issue_invite" =>
              /\ \A i \in x.todo : Replaced(w, i)
              /\ \A i, j \in Invites : Issued(w, i) /\ Issued(w, j) => i = j
        /\ \A t \in Tutors : (t \in active' <=> t \in active) \/ AccountSet(w, t)
        /\ \A c \in Classes : session'[c] = session[c] \/ ClassSaved(w, c)

\* To the others it is a step that is not theirs.
LEMMA WriterIsOther ==
  ASSUME RowsTyped, NEW w \in Workers, WrittenBy(w), NEW v \in Workers \ {w}
  PROVE  NotBy(v)
BY DEF WrittenBy, NotBy, RowsTyped

\* After a worker writes, every other booking is what it was, and a seat or a place is held by who
\* held it or by the booking made.
LEMMA WrittenStays ==
  ASSUME Inv, RowsTyped', NEW w \in Workers, WrittenBy(w), NEW b \in Bookings
  PROVE  /\ Exists(b) => Exists(b)' /\ SameBooking(b)
         /\ booking[b].status = "REDEMO_REQUIRED" => Kept(b)
         /\ (b \in Booked)' => (b \in Booked /\ SameBooking(b)) \/ Made(w, b)
         /\ (b \in Holding)' => (b \in Holding /\ SameBooking(b)) \/ Made(w, b)
<1>1. Kept(b) \/ Made(w, b) \/ Changed(w, b)
  BY DEF WrittenBy
<1>2. Exists(b) => Exists(b)' /\ SameBooking(b) /\ (booking[b].status = "REDEMO_REQUIRED" => Kept(b))
  BY <1>1, RowsStay
<1>3. CASE Made(w, b)
  BY <1>2, <1>3 DEF Exists
<1>4. CASE Kept(b)
  BY <1>2, <1>4 DEF Exists, Kept, Booked, Holding
<1>5. CASE Changed(w, b)
  <2>1. Exists(b) /\ ~Made(w, b)
    BY <1>5, ChangerHolds DEF Made
  <2>2. booking[b].status = "BOOKED" \/ (booking[b].status = "COMPLETED" /\ booking'[b].status = "REDEMO_REQUIRED")
    BY <1>5, ChangerHolds DEF Changed
  <2> QED
    BY <1>2, <2>1, <2>2 DEF Booked, Holding, HOLDS_SEAT, CONDUCTED, Exists
<1> QED
  BY <1>1, <1>3, <1>4, <1>5

\* What a worker writes leaves every booking's row within the constraints of the table.
LEMMA BookingsStayReal ==
  ASSUME Inv, RowsTyped', NEW w \in Workers, WrittenBy(w)
  PROVE  BookingsReal'
<1> SUFFICES ASSUME NEW b \in Bookings
             PROVE  IF Exists(b)' THEN RealRow(booking'[b], booking')
                    ELSE booking'[b].from = None /\ booking'[b].via = None /\ ~booking'[b].started
  BY DEF BookingsReal, RealRow, Exists
<1>1. IF Exists(b) THEN RealRow(booking[b], booking)
      ELSE booking[b].from = None /\ booking[b].via = None /\ ~booking[b].started
  BY DEF Inv, RowsRight, BookingsReal
<1>2. \A d \in Bookings : booking[d].status = "REDEMO_REQUIRED" => booking'[d].status = "REDEMO_REQUIRED"
  BY WrittenStays DEF Kept
<1>3. booking[b] \in BookingRows /\ booking'[b] \in BookingRows
  BY DEF Inv, TypeOK, RowsTyped
<1>4. CASE Kept(b)
  <2>1. CASE Exists(b)
    BY <1>1, <1>2, <1>3, <1>4, <2>1 DEF Kept, SameBooking, RealRow, Exists, BookingRows
  <2>2. CASE ~Exists(b)
    BY <1>1, <1>4, <2>2 DEF Kept, SameBooking, Exists
  <2> QED
    BY <2>1, <2>2
<1>5. CASE Made(w, b)
  <2>1. /\ booking'[b].lead \in Leads /\ booking'[b].slot \in Slots /\ Right(txn[w])
        /\ txn[w].op \in MakesBooking /\ txn[w].stage = "writing"
    BY <1>5, MakerHolds DEF Made
  <2>2. booking'[b].redemoFor # None =>
            /\ booking'[b].redemoFor \in Bookings
            /\ booking[booking'[b].redemoFor].status = "REDEMO_REQUIRED"
    <3>1. CASE txn[w].op = "schedule_redemo"
      BY <1>5, <2>1, <3>1 DEF Made, Right, ShapedBooking
    <3>2. CASE txn[w].op = "reschedule_booking"
      <4>1. txn[w].booking \in Bookings /\ Exists(txn[w].booking)
        BY <2>1, <3>2 DEF Right, ShapedBooking, ChangesRow
      <4>2. RealRow(booking[txn[w].booking], booking) /\ booking[txn[w].booking] \in BookingRows
        BY <4>1 DEF Inv, RowsRight, BookingsReal, TypeOK
      <4> QED
        BY <1>5, <3>2, <4>2 DEF Made, RealRow, BookingRows
    <3>3. CASE txn[w].op \notin {"schedule_redemo", "reschedule_booking"}
      BY <1>5, <3>3 DEF Made
    <3> QED
      BY <3>1, <3>2, <3>3
  <2> QED
    BY <1>2, <1>5, <2>1, <2>2 DEF Made, RealRow, Exists
<1>6. CASE Changed(w, b)
  <2>1. /\ Exists(b) /\ Right(txn[w]) /\ SameBooking(b) /\ Exists(b)'
        /\ txn[w].op \in ChangesRow /\ txn[w].stage = "writing" /\ txn[w].booking = b
    BY <1>6, ChangerHolds, WrittenStays DEF Changed
  <2>2. RealRow(booking[b], booking) /\ RowChecked(txn[w])
    BY <1>1, <2>1 DEF Right
  <2>3. booking'[b].answer = "NOT_CONFIRMED" => booking'[b].status = "CANCELLED" /\ ~booking'[b].started
    <3>1. booking[b].answer # "NOT_CONFIRMED"
      BY <2>1, <2>2 DEF RealRow, RowChecked
    <3>2. txn[w].op = "record_parent_confirmation" => ~booking[b].started
      BY <2>1, <2>2 DEF RowChecked, BeforeStart
    <3> QED
      BY <1>6, <3>1, <3>2 DEF Changed
  <2>4. booking'[b].started => booking'[b].status # "RESCHEDULED"
    BY <1>6, <2>1, <2>2 DEF Changed, RowChecked, BeforeStart
  <2>5. booking'[b].redemoFor # None => booking'[booking'[b].redemoFor].status = "REDEMO_REQUIRED"
    BY <1>2, <1>3, <2>1, <2>2 DEF SameBooking, RealRow, BookingRows
  <2> QED
    BY <2>1, <2>2, <2>3, <2>4, <2>5 DEF SameBooking, RealRow
<1> QED
  BY <1>4, <1>5, <1>6 DEF WrittenBy

\* What a worker writes leaves every invitation one of a Demo that is there.
LEMMA InvitesStayReal ==
  ASSUME Inv, RowsTyped', NEW w \in Workers, WrittenBy(w)
  PROVE  InvitesReal'
<1> SUFFICES ASSUME NEW i \in Invites
             PROVE  /\ \/ invite'[i] = NoInvite
                       \/ /\ invite'[i].state # "ABSENT" /\ invite'[i].diagnostic \in Bookings
                          /\ Exists(invite[i].diagnostic)'
                    /\ invite'[i].booking # None => Exists(invite[i].booking)'
  BY DEF InvitesReal, Exists
<1>1. /\ invite[i] = NoInvite \/ (/\ invite[i].state # "ABSENT" /\ invite[i].diagnostic \in Bookings
                                  /\ Exists(invite[i].diagnostic))
      /\ invite[i].booking # None => Exists(invite[i].booking)
      /\ invite[i].booking \in Bookings \cup {None}
  BY DEF Inv, RowsRight, InvitesReal, TypeOK, InviteRows
<1>2. \A b \in Bookings : Exists(b) => Exists(b)'
  BY WrittenStays
<1>3. CASE invite'[i] = invite[i]
  BY <1>1, <1>2, <1>3 DEF Exists
<1>4. ASSUME invite[i] # NoInvite, SameInvite(i), invite'[i].state # "ABSENT"
      PROVE  /\ invite'[i].diagnostic \in Bookings /\ Exists(invite[i].diagnostic)'
             /\ invite'[i].booking # None => Exists(invite[i].booking)'
  BY <1>1, <1>2, <1>4 DEF SameInvite, Exists
<1>5. CASE Used(w, i)
  <2>1. Exists(invite[i].booking)'
    BY <1>5 DEF Used, Made, Exists
  <2>2. invite[i] # NoInvite
    <3>1. txn[w].op = "create_invited_demo_booking" /\ txn[w].invite = i
      BY <1>5 DEF Used
    <3>2. ShapedInvite(txn[w])
      BY <3>1, ConstantsAssumption, BusyRight DEF Operations, MakesBooking, Right
    <3> QED
      BY <3>1, <3>2 DEF ShapedInvite, NoInvite
  <2> QED
    BY <1>1, <1>2, <1>5, <2>1, <2>2 DEF Used, Exists
<1>6. CASE Revoked(w, i) \/ Replaced(w, i)
  <2>1. txn[w].op \in {"revoke_invite", "issue_invite"} /\ SameInvite(i) /\ invite'[i].state # "ABSENT"
        /\ (txn[w].op = "revoke_invite" => txn[w].invite = i)
        /\ (txn[w].op = "issue_invite" => i \in txn[w].todo /\ txn[w].stage = "writing")
    BY <1>6 DEF Revoked, Replaced
  <2>2. ShapedInvite(txn[w])
    BY <2>1, ConstantsAssumption, BusyRight DEF Operations, Right
  <2>3. invite[i] # NoInvite
    BY <2>1, <2>2 DEF ShapedInvite, NoInvite
  <2> QED
    BY <1>4, <2>1, <2>3
<1>7. CASE Issued(w, i)
  <2>1. txn[w].op = "issue_invite"
    BY <1>7 DEF Issued
  <2>2. txn[w].booking \in Bookings /\ Exists(txn[w].booking)
    BY <2>1, ConstantsAssumption, BusyRight DEF Operations, Right, ShapedBooking
  <2>3. /\ invite'[i].state = "ACTIVE" /\ invite'[i].diagnostic = txn[w].booking
        /\ invite'[i].booking = None
    BY <1>7 DEF Issued, NoInvite
  <2> QED
    BY <1>2, <2>2, <2>3 DEF Exists
<1> QED
  BY <1>3, <1>5, <1>6, <1>7 DEF WrittenBy

\* A class that is to take place keeps having a tutor.
LEMMA ClassesStayReal ==
  ASSUME Inv, RowsTyped', NEW w \in Workers, WrittenBy(w)
  PROVE  ClassesReal'
<1> SUFFICES ASSUME NEW c \in Classes, ClassSaved(w, c), session'[c].status = "SCHEDULED"
             PROVE  session'[c].tutor \in Tutors
  BY DEF ClassesReal, WrittenBy, Inv, RowsRight
<1>1. session'[c] = txn[w].class /\ txn[w].op \in {"schedule_class", "end_class", "edit_class"}
  BY DEF ClassSaved
<1>2. ShapedRest(txn[w])
  BY <1>1, ConstantsAssumption, BusyRight DEF Operations, Right
<1> QED
  BY <1>1, <1>2 DEF ShapedRest, NamesTutor

\* A seat that is given was free, and the slot's lock kept it so.
LEMMA SeatsStayHeldOnce ==
  ASSUME Inv, RowsTyped', NEW w \in Workers, WrittenBy(w)
  PROVE  OneHolderPerSeat'
<1>1. ASSUME NEW b \in Bookings, Made(w, b)
      PROVE  /\ booking'[b].seat \in 1 .. Capacity[booking'[b].slot]
             /\ \A c \in Holding : ~(booking[c].slot = booking'[b].slot /\ booking[c].seat = booking'[b].seat)
  <2>1. SeatChecked(txn[w])
    BY <1>1, MakerHolds DEF Right
  <2>2. booking'[b].seat \in FreeSeats(booking'[b].slot)
    BY <1>1, <2>1 DEF SeatChecked, Made
  <2> QED
    BY <2>2 DEF FreeSeats
<1> SUFFICES ASSUME NEW b \in Bookings, (b \in Holding)', NEW c \in Bookings, (c \in Holding)'
             PROVE  /\ booking'[b].seat \in 1 .. Capacity[booking'[b].slot]
                    /\ b # c /\ booking'[b].slot = booking'[c].slot => booking'[b].seat # booking'[c].seat
  BY DEF OneHolderPerSeat, Holding
<1>2. \A d \in {b, c} : (d \in Holding /\ SameBooking(d)) \/ Made(w, d)
  BY WrittenStays
<1>3. OneHolderPerSeat
  BY DEF Inv, RowsRight
<1>4. b = c \/ ~Made(w, b) \/ ~Made(w, c)
  BY DEF WrittenBy
<1> QED
  BY <1>1, <1>2, <1>3, <1>4 DEF OneHolderPerSeat, SameBooking

\* What a transaction has moved away is no longer held.
LEMMA MovedAway ==
  ASSUME Inv, RowsTyped', NEW w \in Workers, WrittenBy(w), txn[w].op = "reschedule_booking",
         NEW b, b = txn[w].booking
  PROVE  (b \notin Holding)' /\ (b \notin Booked)'
<1>1. booking'[b].status = "RESCHEDULED"
  BY DEF WrittenBy, Changed
<1> QED
  BY <1>1 DEF Holding, Booked, HOLDS_SEAT, CONDUCTED

\* A lead gets a booking only beside those that are over, of another type or another time.
LEMMA LeadsStayInOnePlace ==
  ASSUME Inv, RowsTyped', NEW w \in Workers, WrittenBy(w)
  PROVE  LeadInOnePlace'
<1>1. ASSUME NEW b \in Bookings, NEW c \in Bookings, Made(w, b), b # c, (c \in Booked)',
             booking'[b].lead = booking'[c].lead
      PROVE  /\ ~Overlap(SlotStart[booking'[c].slot], SlotStart[booking'[b].slot])
             /\ SlotType[booking'[b].slot] = SlotType[booking'[c].slot] => ~(Ends(booking'[c].slot) > now)
  <2> DEFINE x == txn[w]
  <2>1. SeatChecked(x) /\ ShapedRest(x) /\ x \in Transactions
    BY <1>1, MakerHolds DEF Right
  <2>2. /\ LiveBookings(x.lead, SlotType[x.slot], x.at) \subseteq Moved(x)
        /\ LeadCommitments(x.lead, SlotStart[x.slot]) \subseteq Moved(x)
    BY <1>1, <2>1 DEF SeatChecked, Made
  <2>3. c \in Booked /\ SameBooking(c)
    BY <1>1, WrittenStays DEF WrittenBy
  <2>4. c \notin Moved(x)
    BY <1>1, MovedAway DEF Moved
  <2>5. booking[c].lead = x.lead /\ booking'[b].slot = x.slot /\ booking'[c].slot = booking[c].slot
    BY <1>1, <2>3 DEF Made, SameBooking
  <2>6. ~Overlap(SlotStart[booking[c].slot], SlotStart[x.slot])
    BY <2>2, <2>3, <2>4, <2>5 DEF LeadCommitments
  <2>7. SlotType[booking[c].slot] = SlotType[x.slot] => ~(Ends(booking[c].slot) > x.at)
    BY <2>2, <2>3, <2>4, <2>5 DEF LiveBookings, IsLive, Type
  <2>8. Ends(booking[c].slot) \in Nat /\ x.at \in Nat /\ now \in Nat /\ x.at <= now
    <3>1. booking[c].slot \in Slots
      BY <2>3 DEF Inv, RowsRight, BookingsReal, RealRow, Booked, Exists
    <3> QED
      BY SMTT(30), <2>1, <3>1, ConstantsAssumption DEF Ends, Inv, TypeOK, ShapedRest, Transactions
  <2> HIDE DEF x
  <2> QED
    BY <2>5, <2>6, <2>7, <2>8
<1> SUFFICES ASSUME NEW b \in Bookings, (b \in Booked)', NEW c \in Bookings, (c \in Booked)',
                    b # c, booking'[b].lead = booking'[c].lead
             PROVE  /\ ~Overlap(SlotStart[booking'[b].slot], SlotStart[booking'[c].slot])
                    /\ SlotType[booking'[b].slot] = SlotType[booking'[c].slot] =>
                          ~(Ends(booking'[b].slot) > now /\ Ends(booking'[c].slot) > now)
  BY DEF LeadInOnePlace, Booked, IsLive, Type, WrittenBy, Ends
<1>2. CASE Made(w, b)
  BY <1>1, <1>2 DEF Overlap
<1>3. CASE Made(w, c)
  BY <1>1, <1>3 DEF Overlap
<1>4. CASE ~Made(w, b) /\ ~Made(w, c)
  <2>1. b \in Booked /\ c \in Booked /\ SameBooking(b) /\ SameBooking(c)
    BY <1>4, WrittenStays
  <2>2. LeadInOnePlace
    BY DEF Inv, RowsRight
  <2> QED
    BY <2>1, <2>2 DEF LeadInOnePlace, SameBooking, IsLive, Type
<1> QED
  BY <1>2, <1>3, <1>4

\* A booking's tutor had it before, or is given it by one who has checked that they are free.
LEMMA TutorGiven ==
  ASSUME Inv, RowsTyped', NEW w \in Workers, WrittenBy(w),
         NEW b \in Bookings, (b \in Holding)', booking'[b].tutor # None
  PROVE  \/ /\ b \in Holding /\ SameBooking(b) /\ booking[b].tutor = booking'[b].tutor
            /\ (b \in Booked)' => b \in Booked
         \/ /\ txn[w].op \in GivesTutor /\ txn[w].stage = "writing" /\ Right(txn[w])
            /\ txn[w].tutor = booking'[b].tutor /\ StartOf(txn[w]) = SlotStart[booking'[b].slot]
            /\ txn[w].op = "assign_tutor" => txn[w].booking = b /\ Changed(w, b) /\ b \in Holding
            /\ txn[w].op # "assign_tutor" => Made(w, b)
<1>1. CASE Made(w, b)
  <2>1. Right(txn[w]) /\ txn[w].op \in GivesTutor /\ booking'[b].tutor = txn[w].tutor
    BY <1>1, MakerHolds
  <2>2. txn[w].op # "assign_tutor" /\ txn[w].stage = "writing" /\ booking'[b].slot = txn[w].slot
    BY <1>1 DEF Made, MakesBooking
  <2> QED
    BY <1>1, <2>1, <2>2 DEF StartOf
<1>2. CASE Changed(w, b) /\ txn[w].op = "assign_tutor"
  <2>1. Right(txn[w]) /\ booking'[b].tutor = txn[w].tutor
    BY <1>2, ChangerHolds
  <2>2. txn[w].stage = "writing" /\ txn[w].booking = b /\ SameBooking(b) /\ ~Made(w, b)
    BY <1>2 DEF Changed, Made, MakesBooking
  <2>3. b \in Holding
    BY <2>2, WrittenStays
  <2> QED
    BY <1>2, <2>1, <2>2, <2>3 DEF StartOf, SameBooking, GivesTutor
<1>3. CASE Kept(b) \/ (Changed(w, b) /\ txn[w].op # "assign_tutor")
  <2>1. booking'[b].tutor = booking[b].tutor /\ SameBooking(b)
    BY <1>3, ChangerHolds DEF Kept, Changed
  <2>2. ~Made(w, b) \/ Kept(b)
    BY <1>3, ChangerHolds DEF Made
  <2>3. CASE Kept(b)
    BY <2>1, <2>3 DEF Kept, Holding, Booked
  <2>4. CASE ~Made(w, b)
    BY <2>1, <2>4, WrittenStays
  <2> QED
    BY <2>1, <2>2, <2>3, <2>4
<1> QED
  BY <1>1, <1>2, <1>3 DEF WrittenBy

\* A tutor that is given was active, and the account's lock kept them so; one who stops has none.
LEMMA LiveStayTaught ==
  ASSUME Inv, RowsTyped', NEW w \in Workers, WrittenBy(w)
  PROVE  LiveHasActiveTutor'
<1> SUFFICES ASSUME NEW b \in Bookings, (b \in Booked)', Ends(booking'[b].slot) > now,
                    booking'[b].tutor # None
             PROVE  booking'[b].tutor \in active'
  BY DEF LiveHasActiveTutor, IsLive, WrittenBy, Ends, Booked
<1> DEFINE t == booking'[b].tutor
           x == txn[w]
<1>1. t \in Tutors /\ (b \in Holding)'
  BY DEF RowsTyped, BookingRows, Booked, Holding, HOLDS_SEAT
<1>2. CASE x.op \in GivesTutor /\ x.stage = "writing" /\ Right(x) /\ x.tutor = t
  <2>1. t \in active
    BY <1>2 DEF Right, TutorChecked, LeftOut
  <2>2. ~AccountSet(w, t)
    BY <1>2 DEF AccountSet, GivesTutor
  <2> QED
    BY <1>1, <2>1, <2>2 DEF WrittenBy
<1>3. CASE b \in Booked /\ SameBooking(b) /\ booking[b].tutor = t
  <2>1. IsLive(b, now)
    BY <1>3 DEF IsLive, SameBooking
  <2>2. t \in active
    BY <1>3, <2>1 DEF Inv, RowsRight, LiveHasActiveTutor
  <2>3. ASSUME AccountSet(w, t), ~x.flag
        PROVE  FALSE
    <3>1. x.op = "set_account_active" /\ x.stage = "writing" /\ x.tutor = t
      BY <2>3 DEF AccountSet
    <3>2. Right(x)
      BY <3>1, ConstantsAssumption, BusyRight DEF Operations
    <3>3. UpcomingAssignments(t) = {}
      BY <2>3, <3>1, <3>2 DEF Right, AccountChecked
    <3> QED
      BY <1>3, <2>1, <3>3 DEF UpcomingAssignments
  <2> QED
    BY <1>1, <2>2, <2>3 DEF WrittenBy, AccountSet
<1> QED
  BY <1>1, <1>2, <1>3, TutorGiven

\* A tutor that is given was free, and the schedule's lock kept them so.
LEMMA TutorsStayInOnePlace ==
  ASSUME Inv, RowsTyped', NEW w \in Workers, WrittenBy(w), NoEdits
  PROVE  TutorInOnePlace'
<1> DEFINE x == txn[w]
<1>1. TutorInOnePlace
  BY DEF Inv, RowsRight
<1>2. ASSUME NEW b \in Bookings, (b \in Holding)', booking'[b].tutor # None,
             x.op \in GivesTutor, x.stage = "writing", Right(x),
             x.tutor = booking'[b].tutor, StartOf(x) = SlotStart[booking'[b].slot],
             x.op = "assign_tutor" => x.booking = b
      PROVE  /\ \A c \in Holding \ {b} : (c \in Holding)' /\ booking[c].tutor = booking'[b].tutor
                    => ~Overlap(SlotStart[booking[c].slot], SlotStart[booking'[b].slot])
             /\ \A c \in Classes : session[c].status = "SCHEDULED" /\ session[c].tutor = booking'[b].tutor
                    => ~Overlap(session[c].start, SlotStart[booking'[b].slot])
  <2>1. TutorFree(x.tutor, StartOf(x), IF x.op = "schedule_redemo" THEN {} ELSE {x.booking})
    BY <1>2 DEF Right, TutorChecked, LeftOut
  <2>2. ASSUME NEW c \in Holding \ {b}, (c \in Holding)', x.op # "schedule_redemo"
        PROVE  c # x.booking
    BY <1>2, <2>2, MovedAway DEF GivesTutor
  <2> QED
    BY <1>2, <2>1, <2>2 DEF TutorFree
<1>3. ASSUME NEW b \in Bookings, (b \in Holding)', NEW c \in Bookings, (c \in Holding)',
             b # c, booking'[b].tutor = booking'[c].tutor, booking'[b].tutor # None
      PROVE  ~Overlap(SlotStart[booking'[b].slot], SlotStart[booking'[c].slot])
  <2> DEFINE Old(d) == d \in Holding /\ SameBooking(d) /\ booking[d].tutor = booking'[d].tutor
             New(d) == /\ x.op \in GivesTutor /\ x.stage = "writing" /\ Right(x)
                       /\ x.tutor = booking'[d].tutor /\ StartOf(x) = SlotStart[booking'[d].slot]
                       /\ x.op = "assign_tutor" => x.booking = d
                       /\ x.op # "assign_tutor" => Made(w, d)
  <2>1. (Old(b) \/ New(b)) /\ (Old(c) \/ New(c))
    BY <1>3, TutorGiven
  <2>2. CASE Old(b) /\ Old(c)
    BY <1>1, <1>3, <2>2 DEF TutorInOnePlace, SameBooking
  <2>3. CASE New(b) /\ Old(c)
    BY <1>2, <1>3, <2>3 DEF SameBooking, Overlap
  <2>4. CASE Old(b) /\ New(c)
    BY <1>2, <1>3, <2>4 DEF SameBooking, Overlap
  <2>5. ~(New(b) /\ New(c))
    BY <1>3 DEF WrittenBy
  <2> QED
    BY <2>1, <2>2, <2>3, <2>4, <2>5
<1>4. ASSUME NEW b \in Bookings, (b \in Holding)', NEW c \in Classes,
             session'[c].status = "SCHEDULED", session'[c].tutor = booking'[b].tutor
      PROVE  ~Overlap(session'[c].start, SlotStart[booking'[b].slot])
  <2>1. booking'[b].tutor # None
    BY <1>4, ClassesStayReal, ConstantsAssumption DEF ClassesReal
  <2>2. CASE ClassSaved(w, c)
    <3>1. x.op \in {"schedule_class", "end_class", "edit_class"} /\ session'[c] = x.class
      BY <2>2 DEF ClassSaved
    <3>2. Right(x)
      BY <3>1, ConstantsAssumption, BusyRight DEF Operations
    <3>3. x.op = "schedule_class" /\ x.stage = "writing" /\ x.tutor = x.class.tutor
      BY <1>4, <2>2, <3>1, <3>2 DEF Right, ShapedRest, NoEdits, ClassSaved
    <3>4. TutorFree(x.tutor, x.class.start, {})
      BY <3>2, <3>3 DEF Right, ClassChecked
    <3>5. b \in Holding /\ SameBooking(b) /\ booking[b].tutor = booking'[b].tutor
      BY <1>4, <2>1, <3>3, TutorGiven DEF GivesTutor
    <3>6. ~Overlap(SlotStart[booking[b].slot], x.class.start)
      BY <1>4, <3>1, <3>3, <3>4, <3>5 DEF TutorFree
    <3> QED
      BY <3>1, <3>5, <3>6 DEF Overlap, SameBooking
  <2>3. CASE session'[c] = session[c]
    <3>1. CASE b \in Holding /\ SameBooking(b) /\ booking[b].tutor = booking'[b].tutor
      BY <1>1, <1>4, <2>3, <3>1 DEF TutorInOnePlace, SameBooking
    <3> QED
      BY <1>2, <1>4, <2>1, <2>3, <3>1, TutorGiven
  <2> QED
    BY <2>2, <2>3 DEF WrittenBy
<1> QED
  BY <1>3, <1>4 DEF TutorInOnePlace, Holding

\* A Re-Demo is booked for a request that has none, or in place of the one it had.
LEMMA RedemosStayOne ==
  ASSUME Inv, RowsTyped', NEW w \in Workers, WrittenBy(w)
  PROVE  OneRedemoPerRequest'
<1> DEFINE x == txn[w]
<1>1. OneRedemoPerRequest /\ BookingsReal
  BY DEF Inv, RowsRight
<1>2. ASSUME NEW b \in Bookings, Made(w, b), booking'[b].redemoFor # None
      PROVE  /\ Right(x) /\ x.stage = "writing"
             /\ \/ x.op = "schedule_redemo" /\ booking'[b].redemoFor = x.booking
                \/ /\ x.op = "reschedule_booking" /\ x.booking \in Holding
                   /\ booking'[b].redemoFor = booking[x.booking].redemoFor
  <2>1. Right(x) /\ x.stage = "writing"
    BY <1>2, MakerHolds DEF Made
  <2>2. x.op = "reschedule_booking" => x.booking \in Holding
    BY <2>1 DEF Right, RowChecked, ShapedBooking, ChangesRow, Holding, HOLDS_SEAT
  <2> QED
    BY <1>2, <2>1, <2>2 DEF Made
<1>3. ASSUME NEW b \in Bookings, NEW c \in Bookings, (c \in Holding)', Made(w, b), b # c,
             booking'[b].redemoFor = booking'[c].redemoFor, booking'[b].redemoFor # None
      PROVE  FALSE
  <2>1. c \in Holding /\ SameBooking(c)
    BY <1>3, WrittenStays DEF WrittenBy
  <2>2. CASE x.op = "schedule_redemo"
    <3>1. RedemoOf(x.booking) = {} /\ booking'[b].redemoFor = x.booking
      BY <1>2, <1>3, <2>2 DEF Right, RedemoChecked
    <3> QED
      BY <1>3, <2>1, <3>1 DEF RedemoOf, SameBooking
  <2>3. CASE x.op = "reschedule_booking"
    <3>1. x.booking \in Holding /\ booking'[b].redemoFor = booking[x.booking].redemoFor
      BY <1>2, <1>3, <2>3
    <3>2. c = x.booking
      BY <1>1, <1>3, <2>1, <3>1 DEF OneRedemoPerRequest, SameBooking
    <3> QED
      BY <1>3, <2>3, <3>2, MovedAway
  <2> QED
    BY <1>2, <1>3, <2>2, <2>3
<1>4. ASSUME NEW b \in Bookings, (b \in Holding)', NEW c \in Bookings, (c \in Holding)', b # c,
             booking'[b].redemoFor = booking'[c].redemoFor
      PROVE  booking'[b].redemoFor = None
  <2>1. (b \in Holding /\ SameBooking(b)) \/ Made(w, b)
    BY <1>4, WrittenStays
  <2>2. (c \in Holding /\ SameBooking(c)) \/ Made(w, c)
    BY <1>4, WrittenStays
  <2> QED
    BY <1>1, <1>3, <1>4, <2>1, <2>2 DEF OneRedemoPerRequest, SameBooking
<1>5. \A d \in Bookings : booking[d].status = "REDEMO_REQUIRED" => Kept(d)
  BY WrittenStays
<1>6. ASSUME NEW b \in Bookings, (b \in Holding)', booking'[b].tutor # None
      PROVE  booking'[b].tutor # OriginalTutor(b)'
  <2>1. ASSUME b \in Holding, SameBooking(b)
        PROVE  OriginalTutor(b)' = OriginalTutor(b)
    BY <1>5, <2>1, OriginalStays DEF Holding, HOLDS_SEAT, CONDUCTED, Exists
  <2>2. CASE b \in Holding /\ SameBooking(b) /\ booking[b].tutor = booking'[b].tutor
    BY <1>1, <1>6, <2>1, <2>2 DEF OneRedemoPerRequest
  <2>3. CASE x.op = "assign_tutor" /\ x.stage = "writing" /\ Right(x) /\ x.tutor = booking'[b].tutor
             /\ x.booking = b /\ b \in Holding /\ SameBooking(b)
    BY <1>6, <2>1, <2>3 DEF Right, TutorChecked, GivesTutor
  <2>4. CASE Made(w, b) /\ x.tutor = booking'[b].tutor
    <3>1. CASE booking'[b].redemoFor = None
      BY <1>6, <3>1 DEF OriginalTutor
    <3>2. CASE x.op = "schedule_redemo" /\ booking'[b].redemoFor = x.booking /\ Right(x) /\ x.stage = "writing"
      <4>1. x.tutor # booking[x.booking].tutor /\ Kept(x.booking)
        BY <1>5, <3>2 DEF Right, RedemoChecked, ShapedBooking
      <4>2. booking'[x.booking].tutor = booking[x.booking].tutor
        BY <4>1 DEF Kept
      <4>3. OriginalTutor(b)' \in {None, booking'[x.booking].tutor}
        BY <3>2 DEF OriginalTutor
      <4> QED
        BY <1>6, <2>4, <4>1, <4>2, <4>3
    <3>3. CASE x.op = "reschedule_booking" /\ x.booking \in Holding /\ Right(x) /\ x.stage = "writing"
               /\ booking'[b].redemoFor = booking[x.booking].redemoFor
      <4>1. x.booking \in Bookings /\ Exists(x.booking) /\ SameBooking(x.booking)
        BY <3>3, WrittenStays DEF Right, ShapedBooking, ChangesRow
      <4>2. x.tutor = booking[x.booking].tutor
        BY <1>6, <2>4, <3>3 DEF Right, RowChecked, ChangesRow
      <4>3. x.tutor # OriginalTutor(x.booking)
        BY <1>1, <1>6, <2>4, <3>3, <4>2 DEF OneRedemoPerRequest
      <4>4. \A d \in Bookings : d = x.booking => OriginalTutor(d)' = OriginalTutor(d)
        BY <1>5, <4>1, OriginalStays
      <4>5. \A d \in Bookings : d = x.booking => OriginalTutor(b)' = OriginalTutor(d)'
        BY <3>3, <4>1 DEF OriginalTutor, SameBooking
      <4> QED
        BY <2>4, <4>1, <4>3, <4>4, <4>5
    <3> QED
      BY <1>2, <2>4, <3>1, <3>2, <3>3
  <2> QED
    BY <1>6, <2>2, <2>3, <2>4, TutorGiven DEF Changed
<1> QED
  BY <1>4, <1>6 DEF OneRedemoPerRequest, Holding

\* A move makes the one replacement of the booking it moves, and nothing else moves any.
LEMMA MovedStayReplaced ==
  ASSUME Inv, RowsTyped', NEW w \in Workers, WrittenBy(w)
  PROVE  MovedIsReplaced'
<1> DEFINE x == txn[w]
           From(b) == {c \in Bookings : booking[c].from = b}
<1>1. \A b \in Bookings : Cardinality(From(b)) = IF booking[b].status = "RESCHEDULED" THEN 1 ELSE 0
  BY DEF Inv, RowsRight, MovedIsReplaced
<1>2. \A b \in Bookings : IsFiniteSet(From(b))
  BY ConstantsAssumption, FS_Subset
<1>3. ASSUME NEW c \in Bookings
      PROVE  /\ ~Made(w, c) => booking'[c].from = booking[c].from
             /\ Made(w, c) => /\ booking[c].from = None
                              /\ booking'[c].from = IF x.op = "reschedule_booking" THEN x.booking ELSE None
  <2>1. ~Made(w, c) => SameBooking(c)
    BY DEF WrittenBy, Kept, Changed
  <2>2. Made(w, c) => booking[c].from = None
    BY DEF Made, Inv, RowsRight, BookingsReal
  <2> QED
    BY <2>1, <2>2 DEF SameBooking, Made
<1>4. ASSUME NEW b \in Bookings, ~(x.op = "reschedule_booking" /\ x.booking = b)
      PROVE  /\ From(b)' = From(b)
             /\ booking'[b].status = "RESCHEDULED" <=> booking[b].status = "RESCHEDULED"
  <2>1. From(b)' = From(b)
    BY <1>3, <1>4, ConstantsAssumption
  <2>2. ASSUME Changed(w, b)
        PROVE  booking'[b].status # "RESCHEDULED" /\ booking[b].status # "RESCHEDULED"
    BY <1>4, <2>2, ChangerHolds DEF Changed
  <2> QED
    BY <2>1, <2>2 DEF WrittenBy, Kept, Made, Exists
<1>5. ASSUME NEW b \in Bookings, x.op = "reschedule_booking", x.booking = b
      PROVE  Cardinality(From(b)') = 1 /\ booking'[b].status = "RESCHEDULED"
  <2>1. Changed(w, b)
    BY <1>5 DEF WrittenBy
  <2>2. booking[b].status # "RESCHEDULED" /\ booking'[b].status = "RESCHEDULED"
    BY <1>5, <2>1, ChangerHolds DEF Changed
  <2>3. PICK m \in Bookings : Made(w, m)
    BY <1>5 DEF WrittenBy
  <2>4. \A c \in Bookings : Made(w, c) <=> c = m
    BY <2>3 DEF WrittenBy
  <2>5. From(b)' = From(b) \cup {m} /\ m \notin From(b)
    BY <1>3, <1>5, <2>4, ConstantsAssumption
  <2>6. Cardinality(From(b)') = Cardinality(From(b)) + 1
    BY <1>2, <2>5, OneMore
  <2>7. Cardinality(From(b)) = 0
    BY <1>1, <2>2
  <2> QED
    BY <2>2, <2>6, <2>7
<1> SUFFICES ASSUME NEW b \in Bookings
             PROVE  Cardinality(From(b)') = IF booking'[b].status = "RESCHEDULED" THEN 1 ELSE 0
  BY DEF MovedIsReplaced
<1> HIDE DEF From
<1> QED
  BY <1>1, <1>4, <1>5

\* An invitation is used as it books, and issued when the Diagnostic's last one is replaced.
LEMMA InvitesStayUsedOnce ==
  ASSUME Inv, RowsTyped', NEW w \in Workers, WrittenBy(w)
  PROVE  InviteUsedOnce'
<1> DEFINE x == txn[w]
           Invited == {b \in Bookings : booking[b].via = "demo_invite"}
           UsedOnes == {i \in Invites : invite[i].state = "USED"}
<1>1. InviteUsedOnce /\ InvitesReal
  BY DEF Inv, RowsRight
<1>2. IsFiniteSet(Invited) /\ IsFiniteSet(UsedOnes)
  BY ConstantsAssumption, FS_Subset
<1>3. ASSUME NEW b \in Bookings
      PROVE  /\ ~Made(w, b) => booking'[b].via = booking[b].via
             /\ Made(w, b) => /\ booking[b].via = None
                              /\ booking'[b].via = "demo_invite" <=> x.op = "create_invited_demo_booking"
  <2>1. ~Made(w, b) => SameBooking(b)
    BY DEF WrittenBy, Kept, Changed
  <2>2. Made(w, b) => booking[b].via = None
    BY DEF Made, Inv, RowsRight, BookingsReal
  <2> QED
    BY <2>1, <2>2 DEF SameBooking, Made
<1>4. None # "demo_invite"
  BY ConstantsAssumption
<1>5. x.op \in {"create_invited_demo_booking", "revoke_invite", "issue_invite"} =>
          ShapedBooking(x) /\ ShapedInvite(x) /\ InviteChecked(x)
  BY ConstantsAssumption, BusyRight DEF Operations, MakesBooking, Right
<1>6. x.op = "create_invited_demo_booking" =>
          Used(w, x.invite) /\ x.invite \in Invites /\ invite[x.invite].state # "USED"
  BY <1>5 DEF WrittenBy, Used, ShapedInvite, InviteChecked
<1>7. ASSUME NEW i \in Invites
      PROVE  invite'[i].state = "USED" <=>
                 invite[i].state = "USED" \/ (x.op = "create_invited_demo_booking" /\ i = x.invite)
  <2>1. CASE Used(w, i)
    BY <2>1 DEF Used
  <2>2. CASE Revoked(w, i)
    BY <1>5, <2>2 DEF Revoked, InviteChecked
  <2>3. CASE Replaced(w, i)
    BY <1>5, <2>3 DEF Replaced, InviteChecked
  <2>4. CASE Issued(w, i)
    BY <2>4 DEF Issued, NoInvite
  <2>5. CASE invite'[i] = invite[i]
    BY <1>6, <2>5 DEF Used
  <2> QED
    BY <2>1, <2>2, <2>3, <2>4, <2>5 DEF WrittenBy
<1>8. Cardinality(Invited') = Cardinality(UsedOnes')
  <2>0. Cardinality(Invited) = Cardinality(UsedOnes)
    BY <1>1 DEF InviteUsedOnce
  <2>1. CASE x.op = "create_invited_demo_booking"
    <3>1. PICK m \in Bookings : Made(w, m)
      BY <1>6, <2>1 DEF Used
    <3>2. \A b \in Bookings : Made(w, b) <=> b = m
      BY <3>1 DEF WrittenBy
    <3>3. Invited' = Invited \cup {m} /\ m \notin Invited
      BY <1>3, <1>4, <2>1, <3>2
    <3>4. UsedOnes' = UsedOnes \cup {x.invite} /\ x.invite \notin UsedOnes
      BY <1>6, <1>7, <2>1
    <3>5. Cardinality(Invited') = Cardinality(Invited) + 1
      BY <1>2, <3>3, OneMore
    <3>6. Cardinality(UsedOnes') = Cardinality(UsedOnes) + 1
      BY <1>2, <3>4, OneMore
    <3> QED
      BY <2>0, <3>5, <3>6
  <2>2. CASE x.op # "create_invited_demo_booking"
    <3>1. Invited' = Invited
      BY <1>3, <1>4, <2>2
    <3>2. UsedOnes' = UsedOnes
      BY <1>7, <2>2
    <3> QED
      BY <2>0, <3>1, <3>2
  <2> QED
    BY <2>1, <2>2
<1>9. ASSUME NEW i \in Invites, NEW j \in Invites, i # j, invite'[i].booking = invite'[j].booking,
             invite'[i].booking # None
      PROVE  FALSE
  <2>0. \A k \in Invites : Used(w, k) \/ invite'[k].booking = invite[k].booking
    <3> SUFFICES ASSUME NEW k \in Invites, ~Used(w, k)
                 PROVE  invite'[k].booking = invite[k].booking
      OBVIOUS
    <3>1. Issued(w, k) => invite'[k].booking = None /\ invite[k].booking = None
      BY DEF Issued, NoInvite
    <3> QED
      BY <3>1 DEF WrittenBy, Revoked, Replaced, SameInvite
  <2>1. ASSUME NEW k \in Invites, NEW other \in Invites, k # other, Used(w, k),
               invite'[other].booking = invite'[k].booking
        PROVE  FALSE
    <3>1. invite'[k].booking \in Bookings /\ ~Exists(invite'[k].booking) /\ invite'[k].booking # None
      BY <2>1, ConstantsAssumption DEF Used, Made
    <3>2. ~Used(w, other)
      BY <2>1 DEF Used
    <3>3. invite'[other].booking = invite[other].booking
      BY <2>0, <2>1, <3>2
    <3> QED
      BY <1>1, <2>1, <3>1, <3>3 DEF InvitesReal
  <2>2. ~Used(w, i) /\ ~Used(w, j)
    BY <1>9, <2>1
  <2>3. \A k \in {i, j} : invite'[k].booking = invite[k].booking
    BY <1>9, <2>0, <2>2
  <2> QED
    BY <1>1, <1>9, <2>3 DEF InviteUsedOnce
<1>10. ASSUME NEW i \in Invites, NEW j \in Invites, i # j,
              invite'[i].state \in {"ACTIVE", "EXPIRED"}, invite'[j].state \in {"ACTIVE", "EXPIRED"}
       PROVE  invite'[i].diagnostic # invite'[j].diagnostic
  <2>1. \A k \in {i, j} : invite'[k] = invite[k] \/ Issued(w, k)
    BY <1>10 DEF WrittenBy, Used, Revoked, Replaced
  <2>2. ASSUME NEW k \in Invites, NEW other \in Invites, k # other, Issued(w, k),
               invite'[other].state \in {"ACTIVE", "EXPIRED"},
               invite'[other] = invite[other] \/ Issued(w, other)
        PROVE  invite'[other].diagnostic # invite'[k].diagnostic
    <3>1. x.op = "issue_invite" /\ x.stage = "writing" /\ invite'[k].diagnostic = x.booking
      BY <2>2 DEF Issued, NoInvite
    <3>2. invite'[other] = invite[other] /\ ~Replaced(w, other)
      BY <2>2, <3>1 DEF WrittenBy, Replaced
    <3>3. other \notin x.todo
      BY <3>1, <3>2 DEF WrittenBy
    <3>4. OpenInvites(x.booking) \subseteq x.todo
      BY <1>5, <3>1 DEF InviteChecked
    <3> QED
      BY <2>2, <3>1, <3>2, <3>3, <3>4 DEF OpenInvites
  <2>3. CASE invite'[i] = invite[i] /\ invite'[j] = invite[j]
    BY <1>1, <1>10, <2>3 DEF InviteUsedOnce
  <2> QED
    BY <1>10, <2>1, <2>2, <2>3
<1>11. InviteUsedOnce' <=>
         /\ Cardinality(Invited') = Cardinality(UsedOnes')
         /\ \A i, j \in Invites : i # j =>
               /\ invite'[i].booking = invite'[j].booking => invite'[i].booking = None
               /\ {invite'[i].state, invite'[j].state} \subseteq {"ACTIVE", "EXPIRED"} =>
                     invite'[i].diagnostic # invite'[j].diagnostic
  BY DEF InviteUsedOnce
<1> QED
  BY <1>8, <1>9, <1>10, <1>11

\* Whatever a transaction writes, the rules of the rows are kept.
LEMMA RowsStayRight ==
  ASSUME Inv, RowsTyped', NEW w \in Workers, WrittenBy(w)
  PROVE  RowsRight'
BY BookingsStayReal, InvitesStayReal, ClassesStayReal, SeatsStayHeldOnce, LeadsStayInOnePlace,
   LiveStayTaught, MovedStayReplaced, InvitesStayUsedOnce, RedemosStayOne, TutorsStayInOnePlace
   DEF RowsRight, NoEdits

-----------------------------------------------------------------------------
(***************************************************************************)
(* Steps that write no row                                                 *)
(***************************************************************************)
LEMMA TypedRows ==
  ASSUME TypeOK
  PROVE  RowsTyped
BY DEF TypeOK, RowsTyped

\* What is right of the rows, and of a transaction, stays so while no row is written.
LEMMA UnwrittenStays ==
  ASSUME UNCHANGED <<now, booking, invite, active, session>>
  PROVE  /\ RowsRight => RowsRight'
         /\ \A x : Right(x) => Right(x)'
<1>1. \A b : (Exists(b)' <=> Exists(b)) /\ Type(b)' = Type(b) /\ OriginalTutor(b)' = OriginalTutor(b)
  BY DEF Exists, Type, OriginalTutor
<1>2. Booked' = Booked /\ Holding' = Holding
  BY DEF Booked, Holding
<1>3. \A b, at : IsLive(b, at)' <=> IsLive(b, at)
  BY <1>2 DEF IsLive
<1>4. RowsRight => RowsRight'
  <2>1. (BookingsReal => BookingsReal') /\ (InvitesReal => InvitesReal') /\ (ClassesReal => ClassesReal')
    BY <1>1 DEF BookingsReal, InvitesReal, ClassesReal
  <2>2. (OneHolderPerSeat => OneHolderPerSeat') /\ (TutorInOnePlace => TutorInOnePlace')
    BY <1>2 DEF OneHolderPerSeat, TutorInOnePlace
  <2>3. (LeadInOnePlace => LeadInOnePlace') /\ (LiveHasActiveTutor => LiveHasActiveTutor')
    BY <1>1, <1>2, <1>3 DEF LeadInOnePlace, LiveHasActiveTutor
  <2>4. MovedIsReplaced => MovedIsReplaced'
    BY DEF MovedIsReplaced
  <2>5. InviteUsedOnce => InviteUsedOnce'
    BY DEF InviteUsedOnce
  <2>6. OneRedemoPerRequest => OneRedemoPerRequest'
    BY <1>1, <1>2 DEF OneRedemoPerRequest
  <2> QED
    BY <2>1, <2>2, <2>3, <2>4, <2>5, <2>6 DEF RowsRight, NoEdits
<1>5. ASSUME NEW x, Right(x)
      PROVE  Right(x)'
  <2>1. ShapedBooking(x)' /\ ShapedInvite(x)' /\ ShapedRest(x)'
    BY <1>1, <1>5 DEF Right, ShapedBooking, ShapedInvite, ShapedRest, InviteLead
  <2>2. LocksRows(x)' /\ LocksTutors(x)'
    BY <1>5
       DEF Right, LocksRows, LocksTutors, Keeps, Wants, SlotLock, LeadLock, BookingLock,
           RequestLock,
                InviteLock, ScheduleLock, AccountLock
  <2>3. RowChecked(x)' /\ RedemoChecked(x)'
    BY <1>2, <1>5 DEF Right, RowChecked, RedemoChecked, RedemoOf
  <2>4. SeatChecked(x)'
    BY <1>1, <1>2, <1>3, <1>5
       DEF Right, SeatChecked, FreeSeats, LiveBookings, LeadCommitments, Moved
  <2>5. TutorChecked(x)' /\ ClassChecked(x)'
    BY <1>1, <1>2, <1>5 DEF Right, TutorChecked, ClassChecked, TutorFree, NoBookingThen, LeftOut, StartOf
  <2>6. AccountChecked(x)' /\ InviteChecked(x)'
    BY <1>3, <1>5 DEF Right, AccountChecked, InviteChecked, UpcomingAssignments, OpenInvites
  <2> QED
    BY <2>1, <2>2, <2>3, <2>4, <2>5, <2>6 DEF Right
<1> QED
  BY <1>4, <1>5

\* w's transaction becomes new, which has no lock but its own and one that is free.
LEMMA GoesOn ==
  ASSUME Inv, NEW w \in Workers, NEW new, txn' = [txn EXCEPT ![w] = new], UNCHANGED <<now, rows>>,
         \/ new = NoTxn
         \/ /\ new \in Transactions /\ Right(new)
            /\ \A lock \in new.held : lock \in txn[w].held \/ Free(lock, w)
  PROVE  Inv'
<1>1. UNCHANGED <<now, booking, closed, invite, active, meetLink, session>>
  BY DEF rows
<1>2. txn \in [Workers -> Transactions \cup {NoTxn}]
  BY DEF Inv, TypeOK
<1>3. txn' \in [Workers -> Transactions \cup {NoTxn}] /\ \A v \in Workers : txn'[v] = IF v = w THEN new ELSE txn[v]
  BY <1>2
<1>4. TypeOK'
  BY <1>1, <1>3 DEF Inv, TypeOK
<1>5. RowsRight'
  BY <1>1, UnwrittenStays DEF Inv
<1>6. LocksExclusive'
  <2>1. NoTxn.held = {}
    BY DEF NoTxn
  <2>2. ASSUME NEW v \in Workers \ {w}, NEW lock, lock \in new.held, lock \in txn[v].held
        PROVE  FALSE
    BY <2>1, <2>2 DEF Inv, LocksExclusive, Free
  <2> QED
    BY <1>3, <2>2 DEF Inv, LocksExclusive
<1>7. TransactionsRight'
  BY <1>1, <1>3, UnwrittenStays DEF Inv, TransactionsRight
<1> QED
  BY <1>4, <1>5, <1>6, <1>7 DEF Inv

\* A sequence's elements are its head and its tail's.
LEMMA HeadOrTail ==
  ASSUME NEW S, NEW seq \in Seq(S), seq # <<>>, NEW i \in DOMAIN seq
  PROVE  seq[i] = Head(seq) \/ \E j \in DOMAIN Tail(seq) : Tail(seq)[j] = seq[i]
<1>1. /\ Len(Tail(seq)) = Len(seq) - 1 /\ Tail(seq) \in Seq(S) /\ Head(seq) = seq[1]
      /\ \A j \in 1 .. Len(Tail(seq)) : Tail(seq)[j] = seq[j + 1]
  BY HeadTailProperties
<1>2. Len(seq) \in Nat /\ DOMAIN seq = 1 .. Len(seq) /\ DOMAIN Tail(seq) = 1 .. Len(Tail(seq))
  BY <1>1
<1>3. CASE i = 1
  BY <1>1, <1>3
<1>4. CASE i # 1
  <2>1. i - 1 \in 1 .. Len(Tail(seq)) /\ (i - 1) + 1 = i
    BY <1>1, <1>2, <1>4
  <2> QED
    BY <1>1, <1>2, <2>1
<1> QED
  BY <1>3, <1>4

\* A lock taken is one still had or wanted.
LEMMA TakeLockKeeps ==
  ASSUME Inv, NEW w \in Workers, TakeLock(w)
  PROVE  Inv'
<1> DEFINE x == txn[w]
           lock == Head(x.need)
           new == [x EXCEPT !.need = Tail(@), !.held = @ \cup {lock}]
<1>1. txn' = [txn EXCEPT ![w] = new] /\ x.need # <<>> /\ Free(lock, w) /\ UNCHANGED <<now, rows>>
  BY DEF TakeLock, Inv, TypeOK
<1>2. x \in Transactions /\ Right(x)
  BY <1>1 DEF Inv, TypeOK, TransactionsRight, NoTxn
<1>3. x.need \in Seq(Locks) /\ x.held \in SUBSET Locks
  BY <1>2 DEF Transactions
<1>4. lock \in Locks /\ Tail(x.need) \in Seq(Locks)
  BY <1>1, <1>3
<1>5. /\ new.op = x.op /\ new.stage = x.stage /\ new.lead = x.lead /\ new.slot = x.slot
      /\ new.booking = x.booking /\ new.tutor = x.tutor /\ new.invite = x.invite
      /\ new.value = x.value
      /\ new.flag = x.flag /\ new.class = x.class /\ new.at = x.at /\ new.seat = x.seat
      /\ new.todo = x.todo /\ new.need = Tail(x.need) /\ new.held = x.held \cup {lock}
  BY <1>2 DEF Transactions
<1>6. new \in Transactions
  BY <1>2, <1>3, <1>4 DEF Transactions
<1>7. \A l : Wants(x, l) => Wants(new, l)
  <2> SUFFICES ASSUME NEW i \in DOMAIN x.need
               PROVE  x.need[i] = lock \/ \E j \in DOMAIN Tail(x.need) : Tail(x.need)[j] = x.need[i]
    BY <1>5 DEF Wants
  <2> QED
    BY <1>1, <1>3, HeadOrTail
<1> HIDE DEF new
<1>8. \A l : Keeps(x, l) => Keeps(new, l)
  BY <1>5, <1>7 DEF Keeps
<1>9. ShapedBooking(new) /\ ShapedInvite(new) /\ ShapedRest(new)
  BY <1>2, <1>5 DEF Right, ShapedBooking, ShapedInvite, ShapedRest
<1>10. LocksRows(new) /\ LocksTutors(new)
  BY <1>2, <1>5, <1>7, <1>8 DEF Right, LocksRows, LocksTutors
<1>11. RowChecked(new) /\ SeatChecked(new) /\ RedemoChecked(new)
  BY <1>2, <1>5 DEF Right, RowChecked, SeatChecked, RedemoChecked, Moved
<1>12. TutorChecked(new) /\ ClassChecked(new) /\ AccountChecked(new) /\ InviteChecked(new)
  BY <1>2, <1>5 DEF Right, TutorChecked, ClassChecked, AccountChecked, InviteChecked, StartOf, LeftOut
<1> QED
  BY <1>1, <1>5, <1>6, <1>9, <1>10, <1>11, <1>12, GoesOn DEF Right

\* A wait for a lock that runs out of time leaves everything as it was.
LEMMA LockTimesOutKeeps ==
  ASSUME Inv, NEW w \in Workers, LockTimesOut(w)
  PROVE  Inv'
BY GoesOn DEF LockTimesOut

\* A transaction that begins has nothing checked yet.
LEMMA BeginsKeeps ==
  ASSUME Inv, NEW w \in Workers, NEW x, Begins(w, x),
         NEW new, new = [x EXCEPT !.stage = "first", !.at = now],
         new \in Transactions, new.stage = "first", new.held = {},
         ShapedBooking(new), ShapedInvite(new), ShapedRest(new), LocksRows(new),
         new.op = "schedule_class" => Wants(new, ScheduleLock(new.tutor)),
         new.op = "set_account_active" => Wants(new, AccountLock(new.tutor))
  PROVE  Inv'
<1>1. LocksTutors(new)
  BY DEF LocksTutors, Keeps
<1>2. RowChecked(new) /\ SeatChecked(new) /\ RedemoChecked(new) /\ TutorChecked(new)
      /\ ClassChecked(new) /\ AccountChecked(new) /\ InviteChecked(new)
  BY
     DEF RowChecked, SeatChecked, RedemoChecked, TutorChecked, ClassChecked, AccountChecked,
         InviteChecked
<1>3. Right(new)
  BY <1>1, <1>2 DEF Right
<1> QED
  BY <1>3, GoesOn DEF Begins

\* A transaction that has its locks and goes on is about the same, and has the same locks.
SameSubject(x, new) ==
    /\ new.op = x.op /\ new.lead = x.lead /\ new.slot = x.slot /\ new.booking = x.booking
    /\ new.invite = x.invite /\ new.flag = x.flag /\ new.class = x.class /\ new.at = x.at
    /\ new.held = x.held /\ new.stage # "first"

\* A check either ends the transaction or takes it on: the rows stay as they are.
LEMMA DecidesKeeps ==
  ASSUME Inv, NEW w \in Workers, NEW op \in Operations, NEW stage, HasLocks(w, op, stage),
         NEW accepted, NEW new, Decides(w, accepted, new),
         accepted =>
            /\ new \in Transactions /\ SameSubject(txn[w], new)
            /\ ShapedInvite(new) /\ ShapedRest(new) /\ LocksTutors(new)
            /\ RowChecked(new) /\ SeatChecked(new) /\ RedemoChecked(new)
            /\ TutorChecked(new) /\ ClassChecked(new) /\ AccountChecked(new) /\ InviteChecked(new)
  PROVE  Inv'
<1>1. txn[w].op = op /\ txn[w].stage = stage /\ txn[w].need = <<>>
  BY DEF HasLocks
<1>2. txn[w] \in Transactions /\ Right(txn[w])
  BY <1>1, ConstantsAssumption, BusyRight
<1>3. CASE ~accepted
  BY <1>3, GoesOn DEF Decides
<1>4. CASE accepted
  <2>1. SameSubject(txn[w], new)
    BY <1>4
  <2>2. ShapedBooking(new)
    BY <1>2, <2>1 DEF Right, ShapedBooking, SameSubject
  <2>3. \A l : Keeps(txn[w], l) => Keeps(new, l)
    BY <1>1, <2>1 DEF Keeps, Wants, SameSubject
  <2>4. LocksRows(new)
    BY <1>2, <2>1, <2>3 DEF Right, LocksRows, SameSubject
  <2>5. Right(new)
    BY <1>4, <2>2, <2>4 DEF Right
  <2>6. txn' = [txn EXCEPT ![w] = new] /\ UNCHANGED <<now, rows>>
    BY <1>4 DEF Decides
  <2> QED
    BY <1>4, <2>1, <2>5, <2>6, GoesOn DEF SameSubject
<1> QED
  BY <1>3, <1>4

-----------------------------------------------------------------------------
(***************************************************************************)
(* Lists of locks                                                          *)
(***************************************************************************)
LEMMA LocksTyped ==
  /\ \A s \in Slots : SlotLock(s) \in Locks
  /\ \A l \in Leads : LeadLock(l) \in Locks
  /\ \A b \in Bookings : BookingLock(b) \in Locks /\ RequestLock(b) \in Locks
  /\ \A i \in Invites : InviteLock(i) \in Locks
  /\ \A t \in Tutors : ScheduleLock(t) \in Locks /\ AccountLock(t) \in Locks
BY DEF Locks, SlotLock, LeadLock, BookingLock, RequestLock, InviteLock, ScheduleLock, AccountLock

\* Slots of different times are listed in the order of their times, each of them once.
LEMMA SlotLocksList ==
  ASSUME NEW ss \in SUBSET Slots, \A s, c \in ss : s # c => SlotStart[s] # SlotStart[c]
  PROVE  /\ SlotLocks(ss) \in Seq(Locks)
         /\ \A s \in ss : \E i \in DOMAIN SlotLocks(ss) : SlotLocks(ss)[i] = SlotLock(s)
         /\ \A i \in DOMAIN SlotLocks(ss) : \E s \in ss : SlotLocks(ss)[i] = SlotLock(s)
         /\ \A i, j \in DOMAIN SlotLocks(ss) : i < j =>
               \E s, c \in ss : /\ SlotLocks(ss)[i] = SlotLock(s) /\ SlotLocks(ss)[j] = SlotLock(c)
                                /\ SlotStart[s] < SlotStart[c]
<1> DEFINE number == [s \in ss |-> SlotStart[s]]
           place == [s \in ss |-> Cardinality({c \in ss : SlotStart[c] <= SlotStart[s]})]
           at(n) == CHOOSE s \in ss : Cardinality({c \in ss : SlotStart[c] <= SlotStart[s]}) = n
<1>1. IsFiniteSet(ss)
  BY ConstantsAssumption, FS_Subset
<1>2. number \in [ss -> Nat] /\ \A s, c \in ss : s # c => number[s] # number[c]
  BY ConstantsAssumption
<1>3. \A s \in ss : Cardinality({c \in ss : SlotStart[c] <= SlotStart[s]}) \in Nat
  BY <1>1, FS_Subset, FS_CardinalityType
<1>4. place \in [ss -> Nat]
  BY <1>3
<1>5. \A s \in ss : place[s] = Cardinality({c \in ss : number[c] <= number[s]})
  <2> SUFFICES ASSUME NEW s \in ss
               PROVE  place[s] = Cardinality({c \in ss : number[c] <= number[s]})
    OBVIOUS
  <2>1. {c \in ss : SlotStart[c] <= SlotStart[s]} = {c \in ss : number[c] <= number[s]}
    OBVIOUS
  <2> QED
    BY <2>1
<1>6. /\ Cardinality(ss) \in Nat
      /\ \A s \in ss : place[s] \in 1 .. Cardinality(ss)
      /\ \A n \in 1 .. Cardinality(ss) : \E s \in ss : place[s] = n
      /\ \A s, c \in ss : number[s] < number[c] => place[s] < place[c]
  <2> HIDE DEF number, place
  <2> QED
    BY <1>1, <1>2, <1>4, <1>5, Places
<1>7. \A n \in 1 .. Cardinality(ss) : at(n) \in ss /\ place[at(n)] = n
  BY <1>6
<1>8. SlotLocks(ss) = [n \in 1 .. Cardinality(ss) |-> SlotLock(at(n))]
  BY DEF SlotLocks
<1>9. \A s \in ss : at(place[s]) = s
  <2> SUFFICES ASSUME NEW s \in ss, at(place[s]) # s
               PROVE  FALSE
    OBVIOUS
  <2>1. PICK c \in ss : c = at(place[s]) /\ place[c] = place[s] /\ c # s
    BY <1>6, <1>7
  <2>2. number[c] < number[s] \/ number[s] < number[c]
    BY <1>2, <2>1
  <2> QED
    BY <1>4, <1>6, <2>1, <2>2
<1>10. \A i, j \in 1 .. Cardinality(ss) : i < j => SlotStart[at(i)] < SlotStart[at(j)]
  <2> SUFFICES ASSUME NEW i \in 1 .. Cardinality(ss), NEW j \in 1 .. Cardinality(ss), i < j
               PROVE  SlotStart[at(i)] < SlotStart[at(j)]
    OBVIOUS
  <2> HIDE DEF at, place
  <2>1. PICK s \in ss, c \in ss : s = at(i) /\ c = at(j) /\ place[s] = i /\ place[c] = j
    BY <1>7
  <2>2. number[s] < number[c]
    <3>1. s # c /\ ~(place[c] < place[s])
      BY <1>6, <2>1
    <3>2. number[s] \in Nat /\ number[c] \in Nat /\ number[s] # number[c]
      BY <1>2, <3>1
    <3>3. ~(number[c] < number[s])
      BY <1>6, <3>1
    <3> HIDE DEF number
    <3> QED
      BY <3>2, <3>3
  <2> QED
    BY <2>1, <2>2
<1> HIDE DEF at, place, number
<1>11. SlotLocks(ss) \in Seq(Locks) /\ DOMAIN SlotLocks(ss) = 1 .. Cardinality(ss)
  BY <1>6, <1>7, <1>8, LocksTyped
<1> QED
  BY <1>6, <1>7, <1>8, <1>9, <1>10, <1>11

\* Rows are locked each once, by id.
LEMMA LocksOfTyped ==
  ASSUME NEW bs \in SUBSET Bookings
  PROVE  LocksOf(bs) \in Seq(Locks)
<1> DEFINE number == [b \in bs |-> b]
           place == [b \in bs |-> Cardinality({c \in bs : c <= b})]
           at(n) == CHOOSE b \in bs : Cardinality({c \in bs : c <= b}) = n
<1>1. IsFiniteSet(bs)
  BY ConstantsAssumption, FS_Subset
<1>2. number \in [bs -> Nat] /\ \A b, c \in bs : b # c => number[b] # number[c]
  BY ConstantsAssumption
<1>3. \A b \in bs : Cardinality({c \in bs : c <= b}) \in Nat
  BY <1>1, FS_Subset, FS_CardinalityType
<1>4. place \in [bs -> Nat]
  BY <1>3
<1>5. \A b \in bs : place[b] = Cardinality({c \in bs : number[c] <= number[b]})
  <2> SUFFICES ASSUME NEW b \in bs
               PROVE  place[b] = Cardinality({c \in bs : number[c] <= number[b]})
    OBVIOUS
  <2>1. {c \in bs : c <= b} = {c \in bs : number[c] <= number[b]}
    OBVIOUS
  <2> QED
    BY <2>1
<1>6. Cardinality(bs) \in Nat /\ \A n \in 1 .. Cardinality(bs) : \E b \in bs : place[b] = n
  <2> HIDE DEF number, place
  <2> QED
    BY <1>1, <1>2, <1>4, <1>5, Places
<1>7. \A n \in 1 .. Cardinality(bs) : at(n) \in bs
  BY <1>6
<1>8. LocksOf(bs) = [n \in 1 .. Cardinality(bs) |-> BookingLock(at(n))]
  BY DEF LocksOf
<1> HIDE DEF at, place, number
<1> QED
  BY <1>6, <1>7, <1>8, LocksTyped

\* One, two or three locks are a sequence of locks.
LEMMA ListsTyped ==
  ASSUME NEW a \in Locks, NEW b \in Locks, NEW c \in Locks
  PROVE  <<a>> \in Seq(Locks) /\ <<a, b>> \in Seq(Locks) /\ <<a, b, c>> \in Seq(Locks)
OBVIOUS

\* A transaction that needs one, two or three locks wants each.
LEMMA ListsWanted ==
  ASSUME NEW x, NEW a, NEW b, NEW c
  PROVE  /\ x.need = <<a>> => Wants(x, a)
         /\ x.need = <<a, b>> => Wants(x, a) /\ Wants(x, b)
         /\ x.need = <<a, b, c>> => Wants(x, a) /\ Wants(x, b) /\ Wants(x, c)
<1>1. ASSUME x.need = <<a>>
      PROVE  Wants(x, a)
  <2>1. 1 \in DOMAIN x.need /\ x.need[1] = a
    BY <1>1
  <2> QED
    BY <2>1 DEF Wants
<1>2. ASSUME x.need = <<a, b>>
      PROVE  Wants(x, a) /\ Wants(x, b)
  <2>1. 1 \in DOMAIN x.need /\ x.need[1] = a /\ 2 \in DOMAIN x.need /\ x.need[2] = b
    BY <1>2
  <2> QED
    BY <2>1 DEF Wants
<1>3. ASSUME x.need = <<a, b, c>>
      PROVE  Wants(x, a) /\ Wants(x, b) /\ Wants(x, c)
  <2>1. 1 \in DOMAIN x.need /\ x.need[1] = a /\ 2 \in DOMAIN x.need /\ x.need[2] = b
        /\ 3 \in DOMAIN x.need /\ x.need[3] = c
    BY <1>3
  <2> QED
    BY <2>1 DEF Wants
<1> QED
  BY <1>1, <1>2, <1>3

\* A row that is there is of a lead and a slot.
LEMMA RowTyped ==
  ASSUME Inv, NEW b \in Bookings, Exists(b)
  PROVE  /\ booking[b] \in BookingRows /\ booking[b].lead \in Leads /\ booking[b].slot \in Slots
         /\ SlotLock(booking[b].slot) \in Locks /\ LeadLock(booking[b].lead) \in Locks
         /\ BookingLock(b) \in Locks /\ RequestLock(b) \in Locks
<1>1. booking[b] \in BookingRows /\ booking[b].lead \in Leads /\ booking[b].slot \in Slots
  BY DEF Inv, TypeOK, RowsRight, BookingsReal, RealRow
<1> QED
  BY <1>1, LocksTyped

-----------------------------------------------------------------------------
(***************************************************************************)
(* Each transaction begins right                                           *)
(***************************************************************************)
LEMMA CreateBookingKeeps ==
  ASSUME Inv, NEW w \in Workers, NEW l \in Leads, NEW s \in Slots, CreateBooking(w, l, s)
  PROVE  Inv'
<1> DEFINE x == [NoTxn EXCEPT !.op = "create_booking", !.lead = l, !.slot = s,
                              !.need = <<SlotLock(s), LeadLock(l)>>]
           new == [x EXCEPT !.stage = "first", !.at = now]
<1>1. Begins(w, x) /\ "create_booking" \in Ops
  BY DEF CreateBooking, Begins, NoTxn
<1>2. /\ new.op = "create_booking" /\ new.lead = l /\ new.slot = s /\ new.stage = "first"
      /\ new.at = now
      /\ new.held = {} /\ new.need = <<SlotLock(s), LeadLock(l)>>
  BY DEF NoTxn
<1>3. new \in Transactions
  BY LocksTyped, ListsTyped
     DEF NoTxn, NoSession, SessionRows, Transactions, Operations, MakesBooking, Inv, TypeOK
<1> HIDE DEF new
<1>4. ShapedBooking(new) /\ ShapedInvite(new) /\ ShapedRest(new)
  BY <1>1, <1>2
     DEF ShapedBooking, ShapedInvite, ShapedRest, ChangesRow, NamesTutor, WritesLink, GivesTutor,
         Inv, TypeOK
<1>5. LocksRows(new)
  BY <1>2, ListsWanted DEF LocksRows, Keeps, ChangesRow
<1> QED
  BY <1>1, <1>2, <1>3, <1>4, <1>5, BeginsKeeps DEF new

\* The beginning of the booking of an invited Demo keeps the invariant: it needs the locks the
\* operation takes.
LEMMA CreateInvitedDemoBookingKeeps ==
  ASSUME Inv, NEW w \in Workers, NEW i \in Invites, NEW s \in Slots,
         CreateInvitedDemoBooking(w, i, s)
  PROVE  Inv'
<1> DEFINE x == [NoTxn EXCEPT !.op = "create_invited_demo_booking", !.invite = i, !.slot = s,
                    !.lead = InviteLead(i),
                    !.need = <<SlotLock(s), LeadLock(InviteLead(i)), InviteLock(i)>>]
           new == [x EXCEPT !.stage = "first", !.at = now]
<1>1. Begins(w, x) /\ "create_invited_demo_booking" \in Ops /\ invite[i].state = "ACTIVE"
  BY DEF CreateInvitedDemoBooking, Begins, NoTxn
<1>7. InviteLead(i) \in Leads
  <2>1. invite[i].diagnostic \in Bookings /\ Exists(invite[i].diagnostic)
    BY <1>1 DEF Inv, RowsRight, InvitesReal, NoInvite
  <2> QED
    BY <2>1, RowTyped DEF InviteLead
<1>2. /\ new.op = "create_invited_demo_booking" /\ new.stage = "first" /\ new.at = now
      /\ new.held = {}
      /\ new.invite = i /\ new.slot = s /\ new.lead = InviteLead(i)
      /\ new.need = <<SlotLock(s), LeadLock(InviteLead(i)), InviteLock(i)>>
  BY DEF NoTxn
<1>3. new \in Transactions
  BY <1>7, LocksTyped, ListsTyped
     DEF NoTxn, NoSession, SessionRows, Transactions, Operations, MakesBooking, Inv, TypeOK
<1> HIDE DEF new
<1>4. ShapedBooking(new) /\ ShapedInvite(new) /\ ShapedRest(new)
  BY <1>1, <1>2, <1>7
     DEF ShapedBooking, ShapedInvite, ShapedRest, MakesBooking, ChangesRow, NamesTutor, WritesLink,
         GivesTutor, Inv, TypeOK
<1>5. LocksRows(new)
  BY <1>2, ListsWanted DEF LocksRows, Keeps, MakesBooking, ChangesRow
<1> QED
  BY <1>1, <1>2, <1>3, <1>4, <1>5, BeginsKeeps DEF new

\* The beginning of the scheduling of a Re-Demo keeps the invariant: it needs the locks the
\* operation takes.
LEMMA ScheduleRedemoKeeps ==
  ASSUME Inv, NEW w \in Workers, NEW d \in Bookings, NEW t \in Tutors, NEW s \in Slots,
         ScheduleRedemo(w, d, t, s)
  PROVE  Inv'
<1> DEFINE x == [NoTxn EXCEPT !.op = "schedule_redemo", !.booking = d, !.tutor = t, !.slot = s,
                    !.lead = booking[d].lead,
                    !.need = <<SlotLock(s), LeadLock(booking[d].lead), RequestLock(d)>>]
           new == [x EXCEPT !.stage = "first", !.at = now]
<1>1. Begins(w, x) /\ "schedule_redemo" \in Ops /\ booking[d].status = "REDEMO_REQUIRED" /\ SlotType[s] = "DEMO"
  BY DEF ScheduleRedemo, Begins, NoTxn
<1>7. Exists(d) /\ booking[d].lead \in Leads /\ RequestLock(d) \in Locks
  BY <1>1, RowTyped DEF Exists
<1>2. /\ new.op = "schedule_redemo" /\ new.stage = "first" /\ new.at = now /\ new.held = {}
      /\ new.booking = d /\ new.tutor = t /\ new.slot = s /\ new.lead = booking[d].lead
      /\ new.value = None /\ new.need = <<SlotLock(s), LeadLock(booking[d].lead), RequestLock(d)>>
  BY DEF NoTxn
<1>3. new \in Transactions
  BY <1>7, LocksTyped, ListsTyped
     DEF NoTxn, NoSession, SessionRows, Transactions, Operations, MakesBooking, Inv, TypeOK
<1> HIDE DEF new
<1>4. ShapedBooking(new) /\ ShapedInvite(new) /\ ShapedRest(new)
  BY <1>1, <1>2, <1>7
     DEF ShapedBooking, ShapedInvite, ShapedRest, MakesBooking, ChangesRow, NamesTutor, WritesLink,
         GivesTutor, Inv, TypeOK
<1>5. LocksRows(new)
  BY <1>2, ListsWanted DEF LocksRows, Keeps, MakesBooking, ChangesRow
<1> QED
  BY <1>1, <1>2, <1>3, <1>4, <1>5, BeginsKeeps DEF new

\* The beginning of a request for a Re-Demo keeps the invariant: it needs the locks the operation
\* takes.
LEMMA RequestRedemoKeeps ==
  ASSUME Inv, NEW w \in Workers, NEW b \in Bookings, RequestRedemo(w, b)
  PROVE  Inv'
<1> DEFINE x == [NoTxn EXCEPT !.op = "request_redemo", !.booking = b,
                    !.need = <<SlotLock(booking[b].slot), LeadLock(booking[b].lead), BookingLock(b)>>]
           new == [x EXCEPT !.stage = "first", !.at = now]
<1>1. Begins(w, x) /\ "request_redemo" \in Ops /\ Exists(b) /\ Type(b) = "DEMO"
  BY DEF RequestRedemo, Begins, NoTxn
<1>2. /\ new.op = "request_redemo" /\ new.stage = "first" /\ new.at = now /\ new.held = {}
      /\ new.booking = b
      /\ new.need = <<SlotLock(booking[b].slot), LeadLock(booking[b].lead), BookingLock(b)>>
  BY DEF NoTxn
<1>3. new \in Transactions
  BY <1>1, RowTyped, LocksTyped, ListsTyped
     DEF NoTxn, NoSession, SessionRows, Transactions, Operations, MakesBooking, Inv, TypeOK
<1> HIDE DEF new
<1>4. ShapedBooking(new) /\ ShapedInvite(new) /\ ShapedRest(new)
  BY <1>1, <1>2
     DEF ShapedBooking, ShapedInvite, ShapedRest, MakesBooking, ChangesRow, NamesTutor, WritesLink,
         GivesTutor, Inv, TypeOK
<1>5. LocksRows(new)
  BY <1>2, ListsWanted DEF LocksRows, Keeps, MakesBooking, ChangesRow
<1> QED
  BY <1>1, <1>2, <1>3, <1>4, <1>5, BeginsKeeps DEF new

\* The beginning of the issue of an invitation keeps the invariant: it needs the locks the
\* operation takes.
LEMMA IssueInviteKeeps ==
  ASSUME Inv, NEW w \in Workers, NEW b \in Bookings, IssueInvite(w, b)
  PROVE  Inv'
<1> DEFINE x == [NoTxn EXCEPT !.op = "issue_invite", !.booking = b,
                    !.need = <<LeadLock(booking[b].lead)>>]
           new == [x EXCEPT !.stage = "first", !.at = now]
<1>1. Begins(w, x) /\ "issue_invite" \in Ops /\ Exists(b)
  BY DEF IssueInvite, Begins, NoTxn
<1>2. /\ new.op = "issue_invite" /\ new.stage = "first" /\ new.at = now /\ new.held = {}
      /\ new.booking = b /\ new.need = <<LeadLock(booking[b].lead)>>
  BY DEF NoTxn
<1>3. new \in Transactions
  BY <1>1, RowTyped, LocksTyped, ListsTyped
     DEF NoTxn, NoSession, SessionRows, Transactions, Operations, MakesBooking, Inv, TypeOK
<1> HIDE DEF new
<1>4. ShapedBooking(new) /\ ShapedInvite(new) /\ ShapedRest(new)
  BY <1>1, <1>2
     DEF ShapedBooking, ShapedInvite, ShapedRest, MakesBooking, ChangesRow, NamesTutor, WritesLink,
         GivesTutor, Inv, TypeOK
<1>5. LocksRows(new)
  BY <1>2, ListsWanted DEF LocksRows, Keeps, MakesBooking, ChangesRow
<1> QED
  BY <1>1, <1>2, <1>3, <1>4, <1>5, BeginsKeeps DEF new

\* The beginning of the withdrawal of an invitation keeps the invariant: it needs the locks the
\* operation takes.
LEMMA RevokeInviteKeeps ==
  ASSUME Inv, NEW w \in Workers, NEW i \in Invites, RevokeInvite(w, i)
  PROVE  Inv'
<1> DEFINE x == [NoTxn EXCEPT !.op = "revoke_invite", !.invite = i, !.need = <<InviteLock(i)>>]
           new == [x EXCEPT !.stage = "first", !.at = now]
<1>1. Begins(w, x) /\ "revoke_invite" \in Ops /\ invite[i].state # "ABSENT"
  BY DEF RevokeInvite, Begins, NoTxn
<1>2. /\ new.op = "revoke_invite" /\ new.stage = "first" /\ new.at = now /\ new.held = {}
      /\ new.invite = i /\ new.need = <<InviteLock(i)>>
  BY DEF NoTxn
<1>3. new \in Transactions
  BY LocksTyped, ListsTyped
     DEF NoTxn, NoSession, SessionRows, Transactions, Operations, MakesBooking, Inv, TypeOK
<1> HIDE DEF new
<1>4. ShapedBooking(new) /\ ShapedInvite(new) /\ ShapedRest(new)
  BY <1>1, <1>2
     DEF ShapedBooking, ShapedInvite, ShapedRest, MakesBooking, ChangesRow, NamesTutor, WritesLink,
         GivesTutor, Inv, TypeOK
<1>5. LocksRows(new)
  BY <1>2, ListsWanted DEF LocksRows, Keeps, MakesBooking, ChangesRow
<1> QED
  BY <1>1, <1>2, <1>3, <1>4, <1>5, BeginsKeeps DEF new

\* Those that only change a row lock its slot and the row.
LEMMA RowKeeps ==
  ASSUME Inv, NEW w \in Workers, NEW x, Begins(w, x),
         NEW new, new = [x EXCEPT !.stage = "first", !.at = now], new \in Transactions,
         new.op \in Ops \cap (ChangesRow \ {"request_redemo", "reschedule_booking"}),
         new.booking \in Bookings, Exists(new.booking),
         new.op \in {"assign_tutor", "start_booking"} => new.tutor \in Tutors,
         new.op = "assign_tutor" => new.value = None,
         new.op = "record_parent_confirmation" => new.value \in {"CONFIRMED", "NOT_CONFIRMED"},
         new.stage = "first", new.at = now, new.held = {},
         new.need = <<SlotLock(booking[new.booking].slot), BookingLock(new.booking)>>
  PROVE  Inv'
<1>3. ShapedBooking(new) /\ ShapedInvite(new) /\ ShapedRest(new)
  BY DEF ShapedBooking, ShapedInvite, ShapedRest, MakesBooking, ChangesRow, NamesTutor, WritesLink,
         GivesTutor, Inv, TypeOK
<1>4. LocksRows(new)
  BY ListsWanted DEF LocksRows, Keeps, MakesBooking, ChangesRow
<1>5. new.op \notin {"schedule_class", "set_account_active"}
  BY DEF ChangesRow
<1> QED
  BY <1>3, <1>4, <1>5, BeginsKeeps

\* The beginning of a cancellation keeps the invariant: it needs the locks the operation takes.
LEMMA CancelBookingKeeps ==
  ASSUME Inv, NEW w \in Workers, NEW b \in Bookings, CancelBooking(w, b)
  PROVE  Inv'
<1> DEFINE x == [NoTxn EXCEPT !.op = "cancel_booking", !.booking = b, !.need = BookingLocks(b)]
           new == [x EXCEPT !.stage = "first", !.at = now]
<1>1. Begins(w, x) /\ Exists(b) /\ "cancel_booking" \in Ops
  BY DEF CancelBooking, Begins, NoTxn
<1>2. /\ new.op = "cancel_booking" /\ new.stage = "first" /\ new.at = now /\ new.held = {}
      /\ new.booking = b /\ new.tutor = None /\ new.value = None
      /\ new.need = <<SlotLock(booking[b].slot), BookingLock(b)>>
  BY DEF NoTxn, BookingLocks
<1>3. new \in Transactions
  BY <1>1, RowTyped, ListsTyped
     DEF NoTxn, NoSession, SessionRows, Transactions, Operations, MakesBooking, BookingLocks, Inv,
         TypeOK
<1> HIDE DEF new
<1> QED
  BY <1>1, <1>2, <1>3, RowKeeps DEF new, ChangesRow

\* The beginning of the taking away of a tutor keeps the invariant: it needs the locks the
\* operation takes.
LEMMA UnassignTutorKeeps ==
  ASSUME Inv, NEW w \in Workers, NEW b \in Bookings, UnassignTutor(w, b)
  PROVE  Inv'
<1> DEFINE x == [NoTxn EXCEPT !.op = "unassign_tutor", !.booking = b, !.need = BookingLocks(b)]
           new == [x EXCEPT !.stage = "first", !.at = now]
<1>1. Begins(w, x) /\ Exists(b) /\ "unassign_tutor" \in Ops
  BY DEF UnassignTutor, Begins, NoTxn
<1>2. /\ new.op = "unassign_tutor" /\ new.stage = "first" /\ new.at = now /\ new.held = {}
      /\ new.booking = b /\ new.tutor = None /\ new.value = None
      /\ new.need = <<SlotLock(booking[b].slot), BookingLock(b)>>
  BY DEF NoTxn, BookingLocks
<1>3. new \in Transactions
  BY <1>1, RowTyped, ListsTyped
     DEF NoTxn, NoSession, SessionRows, Transactions, Operations, MakesBooking, BookingLocks, Inv,
         TypeOK
<1> HIDE DEF new
<1> QED
  BY <1>1, <1>2, <1>3, RowKeeps DEF new, ChangesRow

\* The beginning of the recording of a parent's answer keeps the invariant: it needs the locks the
\* operation takes.
LEMMA RecordParentConfirmationKeeps ==
  ASSUME Inv, NEW w \in Workers, NEW b \in Bookings, NEW answer \in {"CONFIRMED", "NOT_CONFIRMED"},
         RecordParentConfirmation(w, b, answer)
  PROVE  Inv'
<1> DEFINE x == [NoTxn EXCEPT !.op = "record_parent_confirmation", !.booking = b,
                !.value = answer, !.need = BookingLocks(b)]
           new == [x EXCEPT !.stage = "first", !.at = now]
<1>1. Begins(w, x) /\ Exists(b) /\ "record_parent_confirmation" \in Ops
  BY DEF RecordParentConfirmation, Begins, NoTxn
<1>2. /\ new.op = "record_parent_confirmation" /\ new.stage = "first" /\ new.at = now
      /\ new.held = {}
      /\ new.booking = b /\ new.tutor = None /\ new.value = answer
      /\ new.need = <<SlotLock(booking[b].slot), BookingLock(b)>>
  BY DEF NoTxn, BookingLocks
<1>3. new \in Transactions
  BY <1>1, RowTyped, ListsTyped
     DEF NoTxn, NoSession, SessionRows, Transactions, Operations, MakesBooking, BookingLocks, Inv,
         TypeOK
<1> HIDE DEF new
<1> QED
  BY ZenonT(60), <1>1, <1>2, <1>3, RowKeeps DEF new, ChangesRow

\* The beginning of the assignment of a tutor keeps the invariant: it needs the locks the operation
\* takes.
LEMMA AssignTutorKeeps ==
  ASSUME Inv, NEW w \in Workers, NEW b \in Bookings, NEW t \in Tutors, AssignTutor(w, b, t)
  PROVE  Inv'
<1> DEFINE x == [NoTxn EXCEPT !.op = "assign_tutor", !.booking = b, !.tutor = t,
                !.need = BookingLocks(b)]
           new == [x EXCEPT !.stage = "first", !.at = now]
<1>1. Begins(w, x) /\ Exists(b) /\ "assign_tutor" \in Ops
  BY DEF AssignTutor, Begins, NoTxn
<1>2. /\ new.op = "assign_tutor" /\ new.stage = "first" /\ new.at = now /\ new.held = {}
      /\ new.booking = b /\ new.tutor = t /\ new.value = None
      /\ new.need = <<SlotLock(booking[b].slot), BookingLock(b)>>
  BY DEF NoTxn, BookingLocks
<1>3. new \in Transactions
  BY <1>1, RowTyped, ListsTyped
     DEF NoTxn, NoSession, SessionRows, Transactions, Operations, MakesBooking, BookingLocks, Inv,
         TypeOK
<1> HIDE DEF new
<1> QED
  BY <1>1, <1>2, <1>3, RowKeeps DEF new, ChangesRow

\* The beginning of the start of a booking keeps the invariant: it needs the locks the operation
\* takes.
LEMMA StartBookingKeeps ==
  ASSUME Inv, NEW w \in Workers, NEW b \in Bookings, NEW t \in Tutors, StartBooking(w, b, t)
  PROVE  Inv'
<1> DEFINE x == [NoTxn EXCEPT !.op = "start_booking", !.booking = b, !.tutor = t,
                !.need = BookingLocks(b)]
           new == [x EXCEPT !.stage = "first", !.at = now]
<1>1. Begins(w, x) /\ Exists(b) /\ "start_booking" \in Ops
  BY DEF StartBooking, Begins, NoTxn
<1>2. /\ new.op = "start_booking" /\ new.stage = "first" /\ new.at = now /\ new.held = {}
      /\ new.booking = b /\ new.tutor = t /\ new.value = None
      /\ new.need = <<SlotLock(booking[b].slot), BookingLock(b)>>
  BY DEF NoTxn, BookingLocks
<1>3. new \in Transactions
  BY <1>1, RowTyped, ListsTyped
     DEF NoTxn, NoSession, SessionRows, Transactions, Operations, MakesBooking, BookingLocks, Inv,
         TypeOK
<1> HIDE DEF new
<1> QED
  BY <1>1, <1>2, <1>3, RowKeeps DEF new, ChangesRow

\* The beginning of the submission of a report keeps the invariant: it needs the locks the
\* operation takes.
LEMMA SubmitReportKeeps ==
  ASSUME Inv, NEW w \in Workers, NEW b \in Bookings, NEW t \in Tutors, SubmitReport(w, b, t)
  PROVE  Inv'
<1> DEFINE x == [NoTxn EXCEPT !.op = "submit_report", !.booking = b, !.tutor = t,
                !.need = BookingLocks(b)]
           new == [x EXCEPT !.stage = "first", !.at = now]
<1>1. Begins(w, x) /\ Exists(b) /\ "submit_report" \in Ops
  BY DEF SubmitReport, Begins, NoTxn
<1>2. /\ new.op = "submit_report" /\ new.stage = "first" /\ new.at = now /\ new.held = {}
      /\ new.booking = b /\ new.tutor = t /\ new.value = None
      /\ new.need = <<SlotLock(booking[b].slot), BookingLock(b)>>
  BY DEF NoTxn, BookingLocks
<1>3. new \in Transactions
  BY <1>1, RowTyped, ListsTyped
     DEF NoTxn, NoSession, SessionRows, Transactions, Operations, MakesBooking, BookingLocks, Inv,
         TypeOK
<1> HIDE DEF new
<1> QED
  BY <1>1, <1>2, <1>3, RowKeeps DEF new, ChangesRow

\* A list followed by another has the locks of both.
LEMMA TwoLists ==
  ASSUME NEW x, NEW a \in Seq(Locks), NEW b \in Seq(Locks), x.need = a \o b
  PROVE  /\ x.need \in Seq(Locks)
         /\ \A i \in DOMAIN a : Wants(x, a[i])
         /\ \A i \in DOMAIN b : Wants(x, b[i])
<1>1. /\ Len(a) \in Nat /\ Len(b) \in Nat /\ Len(x.need) = Len(a) + Len(b)
      /\ x.need \in Seq(Locks)
      /\ DOMAIN a = 1 .. Len(a) /\ DOMAIN b = 1 .. Len(b) /\ DOMAIN x.need = 1 .. Len(x.need)
  BY ConcatProperties
<1>2. \A i \in 1 .. Len(x.need) : x.need[i] = IF i <= Len(a) THEN a[i] ELSE b[i - Len(a)]
  BY ConcatProperties
<1>3. ASSUME NEW i \in DOMAIN a
      PROVE  Wants(x, a[i])
  <2>1. i \in DOMAIN x.need /\ x.need[i] = a[i]
    BY <1>1, <1>2
  <2> QED
    BY <2>1 DEF Wants
<1>4. ASSUME NEW i \in DOMAIN b
      PROVE  Wants(x, b[i])
  <2>1. i + Len(a) \in 1 .. Len(x.need) /\ ~(i + Len(a) <= Len(a)) /\ (i + Len(a)) - Len(a) = i
    BY <1>1
  <2>2. i + Len(a) \in DOMAIN x.need /\ x.need[i + Len(a)] = b[i]
    BY <1>1, <1>2, <2>1
  <2> QED
    BY <2>2 DEF Wants
<1> QED
  BY <1>1, <1>3, <1>4

\* A move locks both slots, in time order, then the lead and the row.
LEMMA RescheduleBookingKeeps ==
  ASSUME Inv, NEW w \in Workers, NEW b \in Bookings, NEW s \in Slots, RescheduleBooking(w, b, s)
  PROVE  Inv'
<1> DEFINE slots == SlotLocks({booking[b].slot, s})
           after == <<LeadLock(booking[b].lead), BookingLock(b)>>
           x == [NoTxn EXCEPT !.op = "reschedule_booking", !.booking = b, !.slot = s,
                              !.lead = booking[b].lead, !.need = slots \o after]
           new == [x EXCEPT !.stage = "first", !.at = now]
<1>1. /\ Begins(w, x) /\ "reschedule_booking" \in Ops /\ Exists(b)
      /\ s # booking[b].slot /\ SlotType[s] = SlotType[booking[b].slot]
  BY DEF RescheduleBooking, Begins, NoTxn, Type
<1>2. /\ new.op = "reschedule_booking" /\ new.stage = "first" /\ new.at = now /\ new.held = {}
      /\ new.booking = b /\ new.slot = s /\ new.lead = booking[b].lead
      /\ new.value = None /\ new.need = slots \o after
  BY DEF NoTxn
<1>3. /\ slots \in Seq(Locks)
      /\ \E i \in DOMAIN slots : slots[i] = SlotLock(s)
  <2>1. {booking[b].slot, s} \in SUBSET Slots
    BY <1>1, RowTyped
  <2>2. \A a, c \in {booking[b].slot, s} : a # c => SlotStart[a] # SlotStart[c]
    BY <1>1, <2>1, ConstantsAssumption
  <2> QED
    BY <2>1, <2>2, SlotLocksList
<1>4. after \in Seq(Locks) /\ DOMAIN after = 1 .. 2
      /\ after[1] = LeadLock(booking[b].lead) /\ after[2] = BookingLock(b)
  BY <1>1, RowTyped, ListsTyped
<1> HIDE DEF slots, after
<1>5. slots \o after \in Seq(Locks)
  BY <1>3, <1>4, ConcatProperties
<1>6. new \in Transactions
  BY <1>1, <1>5, RowTyped
     DEF NoTxn, NoSession, SessionRows, Transactions, Operations, MakesBooking, Inv, TypeOK
<1> HIDE DEF new
<1>7. Wants(new, SlotLock(s)) /\ Wants(new, LeadLock(booking[b].lead)) /\ Wants(new, BookingLock(b))
  <2>1. /\ \A i \in DOMAIN slots : Wants(new, slots[i])
        /\ \A i \in DOMAIN after : Wants(new, after[i])
    BY <1>2, <1>3, <1>4, TwoLists
  <2>2. 1 \in DOMAIN after /\ 2 \in DOMAIN after
    BY <1>4
  <2> QED
    BY <1>3, <1>4, <2>1, <2>2
<1>8. ShapedBooking(new) /\ ShapedInvite(new) /\ ShapedRest(new)
  BY <1>1, <1>2, RowTyped
     DEF ShapedBooking, ShapedInvite, ShapedRest, MakesBooking, ChangesRow, NamesTutor, WritesLink,
         GivesTutor, Inv, TypeOK, Type
<1>9. LocksRows(new)
  BY <1>2, <1>7 DEF LocksRows, Keeps, MakesBooking, ChangesRow
<1> QED
  BY <1>1, <1>2, <1>6, <1>8, <1>9, BeginsKeeps DEF new

\* The beginning of the closing or opening of slots keeps the invariant: it needs the locks the
\* operation takes.
LEMMA SetSlotsClosedKeeps ==
  ASSUME Inv, NEW w \in Workers, NEW ss \in SUBSET Slots, NEW close \in BOOLEAN,
         SetSlotsClosed(w, ss, close)
  PROVE  Inv'
<1> DEFINE x == [NoTxn EXCEPT !.op = "set_slots_closed", !.todo = ss, !.flag = close,
                              !.need = SlotLocks(ss)]
           new == [x EXCEPT !.stage = "first", !.at = now]
<1>1. /\ Begins(w, x) /\ "set_slots_closed" \in Ops
      /\ \A s, c \in ss : SlotType[s] = SlotType[c]
  BY DEF SetSlotsClosed, Begins, NoTxn
<1>2. new.op = "set_slots_closed" /\ new.stage = "first" /\ new.at = now /\ new.held = {}
  BY DEF NoTxn
<1>3. SlotLocks(ss) \in Seq(Locks)
  <2>1. \A a, c \in ss : a # c => SlotStart[a] # SlotStart[c]
    BY <1>1, ConstantsAssumption
  <2> QED
    BY <2>1, SlotLocksList
<1>4. new \in Transactions
  BY <1>3 DEF NoTxn, NoSession, SessionRows, Transactions, Operations, MakesBooking, Inv, TypeOK
<1> HIDE DEF new
<1>5. ShapedBooking(new) /\ ShapedInvite(new) /\ ShapedRest(new)
  BY <1>1, <1>2
     DEF ShapedBooking, ShapedInvite, ShapedRest, MakesBooking, ChangesRow, NamesTutor, WritesLink,
         GivesTutor, Inv, TypeOK
<1>6. LocksRows(new)
  BY <1>2 DEF LocksRows, MakesBooking, ChangesRow
<1> QED
  BY <1>1, <1>2, <1>4, <1>5, <1>6, BeginsKeeps DEF new

\* The beginning of the change of a tutor's link keeps the invariant: it needs the locks the
\* operation takes.
LEMMA SetTutorMeetLinkKeeps ==
  ASSUME Inv, NEW w \in Workers, NEW t \in Tutors, NEW link \in Links \cup {None},
         SetTutorMeetLink(w, t, link)
  PROVE  Inv'
<1> DEFINE need == LocksOf(TakesLink(t, now)) \o <<<<"account", t>>>>
           x == [NoTxn EXCEPT !.op = "set_tutor_meet_link", !.tutor = t, !.value = link, !.need = need]
           new == [x EXCEPT !.stage = "first", !.at = now]
<1>1. Begins(w, x) /\ "set_tutor_meet_link" \in Ops
  BY DEF SetTutorMeetLink, Begins, NoTxn
<1>2. /\ new.op = "set_tutor_meet_link" /\ new.stage = "first" /\ new.at = now /\ new.held = {}
      /\ new.tutor = t /\ new.value = link /\ new.todo = {}
  BY DEF NoTxn
<1>3. need \in Seq(Locks)
  <2>1. LocksOf(TakesLink(t, now)) \in Seq(Locks)
    BY LocksOfTyped DEF TakesLink
  <2>2. <<AccountLock(t)>> \in Seq(Locks) /\ AccountLock(t) = <<"account", t>>
    BY LocksTyped, ListsTyped DEF AccountLock
  <2> QED
    BY <2>1, <2>2, ConcatProperties
<1> HIDE DEF need
<1>4. new \in Transactions
  BY <1>3 DEF NoTxn, NoSession, SessionRows, Transactions, Operations, MakesBooking, Inv, TypeOK
<1> HIDE DEF new
<1>5. ShapedBooking(new) /\ ShapedInvite(new) /\ ShapedRest(new)
  BY <1>1, <1>2
     DEF ShapedBooking, ShapedInvite, ShapedRest, MakesBooking, ChangesRow, NamesTutor, WritesLink,
         GivesTutor, Inv, TypeOK
<1>6. LocksRows(new)
  BY <1>2 DEF LocksRows, MakesBooking, ChangesRow
<1> QED
  BY <1>1, <1>2, <1>4, <1>5, <1>6, BeginsKeeps DEF new

\* The beginning of the opening or closing of an account keeps the invariant: it needs the locks
\* the operation takes.
LEMMA SetAccountActiveKeeps ==
  ASSUME Inv, NEW w \in Workers, NEW t \in Tutors, NEW on \in BOOLEAN, SetAccountActive(w, t, on)
  PROVE  Inv'
<1> DEFINE x == [NoTxn EXCEPT !.op = "set_account_active", !.tutor = t, !.flag = on,
                              !.need = <<<<"account", t>>>>]
           new == [x EXCEPT !.stage = "first", !.at = now]
<1>1. Begins(w, x) /\ "set_account_active" \in Ops
  BY DEF SetAccountActive, Begins, NoTxn
<1>2. /\ new.op = "set_account_active" /\ new.stage = "first" /\ new.at = now /\ new.held = {}
      /\ new.tutor = t /\ new.need = <<AccountLock(t)>>
  BY DEF NoTxn, AccountLock
<1>3. <<<<"account", t>>>> \in Seq(Locks)
  BY LocksTyped, ListsTyped DEF AccountLock
<1>4. new \in Transactions
  BY <1>3 DEF NoTxn, NoSession, SessionRows, Transactions, Operations, MakesBooking, Inv, TypeOK
<1> HIDE DEF new
<1>5. ShapedBooking(new) /\ ShapedInvite(new) /\ ShapedRest(new)
  BY <1>1, <1>2
     DEF ShapedBooking, ShapedInvite, ShapedRest, MakesBooking, ChangesRow, NamesTutor, WritesLink,
         GivesTutor, Inv, TypeOK
<1>6. LocksRows(new) /\ Wants(new, AccountLock(t))
  BY <1>2, ListsWanted DEF LocksRows, MakesBooking, ChangesRow
<1> QED
  BY <1>1, <1>2, <1>4, <1>5, <1>6, BeginsKeeps DEF new

\* The beginning of the scheduling of a class keeps the invariant: it needs the locks the operation
\* takes.
LEMMA ScheduleClassKeeps ==
  ASSUME Inv, NEW w \in Workers, NEW c \in Classes, NEW t \in Tutors, NEW s \in Slots,
         ScheduleClass(w, c, t, SlotStart[s])
  PROVE  Inv'
<1> DEFINE class == [status |-> "SCHEDULED", tutor |-> t, start |-> SlotStart[s]]
           x == [NoTxn EXCEPT !.op = "schedule_class", !.tutor = t, !.todo = {c},
                              !.need = <<<<"schedule", t>>>>, !.class = class]
           new == [x EXCEPT !.stage = "first", !.at = now]
<1>1. Begins(w, x) /\ "schedule_class" \in Ops
  BY DEF ScheduleClass, Begins, NoTxn
<1>2. /\ new.op = "schedule_class" /\ new.stage = "first" /\ new.at = now /\ new.held = {}
      /\ new.tutor = t /\ new.class = class /\ new.need = <<ScheduleLock(t)>>
  BY DEF NoTxn, ScheduleLock
<1>3. <<<<"schedule", t>>>> \in Seq(Locks)
  BY LocksTyped, ListsTyped DEF ScheduleLock
<1>4. class \in SessionRows /\ class.tutor = t
  BY ConstantsAssumption DEF SessionRows
<1> HIDE DEF class
<1>5. new \in Transactions
  BY ZenonT(60), <1>3, <1>4 DEF NoTxn, Transactions, Operations, MakesBooking, Inv, TypeOK
<1> HIDE DEF new
<1>6. ShapedBooking(new) /\ ShapedInvite(new) /\ ShapedRest(new)
  BY <1>1, <1>2, <1>4
     DEF ShapedBooking, ShapedInvite, ShapedRest, MakesBooking, ChangesRow, NamesTutor, WritesLink,
         GivesTutor, Inv, TypeOK
<1>7. LocksRows(new) /\ Wants(new, ScheduleLock(t))
  BY <1>2, ListsWanted DEF LocksRows, MakesBooking, ChangesRow
<1> QED
  BY <1>1, <1>2, <1>5, <1>6, <1>7, BeginsKeeps DEF new

\* The beginning of the end of a class keeps the invariant: it needs the locks the operation takes.
LEMMA EndClassKeeps ==
  ASSUME Inv, NEW w \in Workers, NEW c \in Classes, EndClass(w, c)
  PROVE  Inv'
<1> DEFINE class == [session[c] EXCEPT !.status = "ENDED"]
           x == [NoTxn EXCEPT !.op = "end_class", !.todo = {c}, !.class = class]
           new == [x EXCEPT !.stage = "first", !.at = now]
<1>1. Begins(w, x) /\ "end_class" \in Ops
  BY DEF EndClass, Begins, NoTxn
<1>2. /\ new.op = "end_class" /\ new.stage = "first" /\ new.at = now /\ new.held = {}
      /\ new.class = class
  BY DEF NoTxn
<1>3. class \in SessionRows /\ class.status = "ENDED"
  BY DEF Inv, TypeOK, SessionRows, RowsRight, ClassesReal
<1> HIDE DEF class
<1>4. new \in Transactions
  <2>1. <<>> \in Seq(Locks)
    OBVIOUS
  <2> QED
    BY <1>3, <2>1 DEF NoTxn, Transactions, Operations, MakesBooking, Inv, TypeOK
<1> HIDE DEF new
<1>5. ShapedBooking(new) /\ ShapedInvite(new) /\ ShapedRest(new)
  BY <1>1, <1>2, <1>3
     DEF ShapedBooking, ShapedInvite, ShapedRest, MakesBooking, ChangesRow, NamesTutor, WritesLink,
         GivesTutor, Inv, TypeOK
<1>6. LocksRows(new)
  BY <1>2 DEF LocksRows, MakesBooking, ChangesRow
<1> QED
  BY <1>1, <1>2, <1>4, <1>5, <1>6, BeginsKeeps DEF new

\* The beginning of the editing of a class keeps the invariant: it needs the locks the operation
\* takes.
LEMMA EditClassKeeps ==
  ASSUME Inv, NEW w \in Workers, NEW c \in Classes, EditClass(w, c)
  PROVE  Inv'
<1> DEFINE class == session[c]
           x == [NoTxn EXCEPT !.op = "edit_class", !.todo = {c}, !.class = class]
           new == [x EXCEPT !.stage = "first", !.at = now]
<1>1. Begins(w, x) /\ "edit_class" \in Ops
  BY DEF EditClass, Begins, NoTxn
<1>2. /\ new.op = "edit_class" /\ new.stage = "first" /\ new.at = now /\ new.held = {}
      /\ new.class = class
  BY DEF NoTxn
<1>3. class \in SessionRows /\ (class.status = "SCHEDULED" => class.tutor \in Tutors)
  BY DEF Inv, TypeOK, SessionRows, RowsRight, ClassesReal
<1> HIDE DEF class
<1>4. new \in Transactions
  <2>1. <<>> \in Seq(Locks)
    OBVIOUS
  <2> QED
    BY <1>3, <2>1 DEF NoTxn, Transactions, Operations, MakesBooking, Inv, TypeOK
<1> HIDE DEF new
<1>5. ShapedBooking(new) /\ ShapedInvite(new) /\ ShapedRest(new)
  BY <1>1, <1>2, <1>3
     DEF ShapedBooking, ShapedInvite, ShapedRest, MakesBooking, ChangesRow, NamesTutor, WritesLink,
         GivesTutor, Inv, TypeOK
<1>6. LocksRows(new)
  BY <1>2 DEF LocksRows, MakesBooking, ChangesRow
<1> QED
  BY <1>1, <1>2, <1>4, <1>5, <1>6, BeginsKeeps DEF new

-----------------------------------------------------------------------------
(***************************************************************************)
(* Each transaction that goes on has checked what it relies on             *)
(***************************************************************************)
\* A transaction with its locks is a right one.
LEMMA HasLocksRight ==
  ASSUME Inv, NEW w \in Workers, NEW op \in Operations, NEW stage, HasLocks(w, op, stage)
  PROVE  /\ txn[w] \in Transactions /\ Right(txn[w])
         /\ txn[w].op = op /\ txn[w].stage = stage /\ txn[w].need = <<>>
         /\ \A lock : Wants(txn[w], lock) => lock \in txn[w].held
         /\ Writing(txn[w]) \in Transactions /\ SameSubject(txn[w], Writing(txn[w]))
         /\ Writing(txn[w]).tutor = txn[w].tutor /\ Writing(txn[w]).value = txn[w].value
         /\ Writing(txn[w]).stage = "writing" /\ Writing(txn[w]).todo = txn[w].todo
         /\ Writing(txn[w]).seat = txn[w].seat
<1>1. txn[w].op = op /\ txn[w].stage = stage /\ txn[w].need = <<>>
  BY DEF HasLocks
<1>2. txn[w] \in Transactions /\ Right(txn[w])
  BY <1>1, ConstantsAssumption, BusyRight
<1> QED
  BY <1>1, <1>2 DEF Wants, Writing, SameSubject, Transactions

\* Of those that change a row without giving it a tutor.
LEMMA RowDecided ==
  ASSUME Inv, NEW w \in Workers, NEW op \in ChangesRow \ GivesTutor, HasLocks(w, op, "first"),
         NEW accepted, Decides(w, accepted, Writing(txn[w])),
         accepted =>
            /\ booking[txn[w].booking].status = IF op = "request_redemo" THEN "COMPLETED" ELSE "BOOKED"
            /\ op \in BeforeStart => ~booking[txn[w].booking].started
            /\ op = "start_booking" => ~booking[txn[w].booking].started /\ booking[txn[w].booking].tutor # None
            /\ op = "submit_report" => booking[txn[w].booking].started
  PROVE  Inv'
<1> DEFINE x == txn[w]
           new == Writing(x)
<1>1. op \in Operations /\ op \notin MakesBooking \cup GivesTutor \cup NamesTutor \cup WritesLink
      /\ op \notin {"end_class", "edit_class", "issue_invite", "revoke_invite"}
  BY DEF ChangesRow, GivesTutor, NamesTutor, WritesLink, Operations, MakesBooking
<1>2. /\ Right(x) /\ x.op = op
      /\ new \in Transactions /\ SameSubject(x, new) /\ new.value = x.value /\ new.tutor = x.tutor
      /\ new.stage = "writing"
  BY <1>1, HasLocksRight
<1> HIDE DEF new
<1>3. ShapedInvite(new) /\ ShapedRest(new) /\ LocksTutors(new)
  BY <1>1, <1>2
     DEF ShapedInvite, ShapedRest, LocksTutors, SameSubject, MakesBooking, GivesTutor, NamesTutor,
         Right,
         WritesLink
<1>4. /\ SeatChecked(new) /\ RedemoChecked(new) /\ TutorChecked(new) /\ ClassChecked(new)
      /\ AccountChecked(new) /\ InviteChecked(new)
  BY <1>1, <1>2
     DEF SeatChecked, RedemoChecked, TutorChecked, ClassChecked, AccountChecked, InviteChecked,
         SameSubject, MakesBooking, GivesTutor, NamesTutor
<1>5. accepted => RowChecked(new)
  BY <1>1, <1>2 DEF RowChecked, SameSubject, MakesBooking
<1> QED
  BY <1>1, <1>2, <1>3, <1>4, <1>5, DecidesKeeps DEF new

\* The check before a request for a Re-Demo keeps the invariant: if it passes, the Demo was
\* conducted.
LEMMA CheckRequestKeeps ==
  ASSUME Inv, NEW w \in Workers, CheckRequest(w)
  PROVE  Inv'
<1> DEFINE accepted == booking[txn[w].booking].status = "COMPLETED"
<1>1. HasLocks(w, "request_redemo", "first") /\ Decides(w, accepted, Writing(txn[w]))
  BY DEF CheckRequest
<1>2. "request_redemo" \in ChangesRow \ GivesTutor
  BY DEF ChangesRow, GivesTutor
<1>3. accepted =>
         /\ booking[txn[w].booking].status = "COMPLETED"
         /\ "request_redemo" \in BeforeStart => ~booking[txn[w].booking].started
  BY DEF BeforeStart
<1> HIDE DEF accepted
<1> QED
  BY <1>1, <1>2, <1>3, RowDecided

\* The check before a cancellation keeps the invariant: if it passes, the booking is live.
LEMMA CheckCancelKeeps ==
  ASSUME Inv, NEW w \in Workers, CheckCancel(w)
  PROVE  Inv'
<1> DEFINE accepted == booking[txn[w].booking].status = "BOOKED"
<1>1. HasLocks(w, "cancel_booking", "first") /\ Decides(w, accepted, Writing(txn[w]))
  BY DEF CheckCancel
<1>2. "cancel_booking" \in ChangesRow \ GivesTutor
  BY DEF ChangesRow, GivesTutor
<1>3. accepted =>
         /\ booking[txn[w].booking].status = "BOOKED"
         /\ "cancel_booking" \in BeforeStart => ~booking[txn[w].booking].started
  BY DEF BeforeStart
<1> HIDE DEF accepted
<1> QED
  BY <1>1, <1>2, <1>3, RowDecided

\* The check before a parent's answer keeps the invariant: if it passes, the booking is live and
\* not started.
LEMMA CheckConfirmationKeeps ==
  ASSUME Inv, NEW w \in Workers, CheckConfirmation(w)
  PROVE  Inv'
<1> DEFINE accepted == LET x == txn[w]
                           row == booking[x.booking]
                       IN  /\ row.status = "BOOKED" /\ ~row.started
                           /\ SlotStart[row.slot] > x.at
                           /\ row.answer # x.value
<1>1. HasLocks(w, "record_parent_confirmation", "first") /\ Decides(w, accepted, Writing(txn[w]))
  BY DEF CheckConfirmation
<1>2. "record_parent_confirmation" \in ChangesRow \ GivesTutor
  BY DEF ChangesRow, GivesTutor
<1>3. accepted =>
         /\ booking[txn[w].booking].status = "BOOKED"
         /\ "record_parent_confirmation" \in BeforeStart => ~booking[txn[w].booking].started
  BY DEF BeforeStart
<1> HIDE DEF accepted
<1> QED
  BY <1>1, <1>2, <1>3, RowDecided

\* The check before taking a tutor away keeps the invariant: if it passes, the booking is live and
\* not started.
LEMMA CheckUnassignKeeps ==
  ASSUME Inv, NEW w \in Workers, CheckUnassign(w)
  PROVE  Inv'
<1> DEFINE accepted == TutorChangeable(txn[w]) /\ booking[txn[w].booking].tutor # None
<1>1. HasLocks(w, "unassign_tutor", "first") /\ Decides(w, accepted, Writing(txn[w]))
  BY DEF CheckUnassign
<1>2. "unassign_tutor" \in ChangesRow \ GivesTutor
  BY DEF ChangesRow, GivesTutor
<1>3. accepted =>
         /\ booking[txn[w].booking].status = "BOOKED"
         /\ "unassign_tutor" \in BeforeStart => ~booking[txn[w].booking].started
  BY DEF BeforeStart, TutorChangeable
<1> HIDE DEF accepted
<1> QED
  BY <1>1, <1>2, <1>3, RowDecided

\* The check before a start keeps the invariant: if it passes, the booking is live.
LEMMA CheckStartKeeps ==
  ASSUME Inv, NEW w \in Workers, CheckStart(w)
  PROVE  Inv'
<1> DEFINE accepted == LET x == txn[w]
                           row == booking[x.booking]
                       IN  /\ row.tutor = x.tutor
                           /\ row.status = "BOOKED" /\ ~row.started
                           /\ now + StartEarly >= SlotStart[row.slot] /\ now < Ends(row.slot)
<1>1. HasLocks(w, "start_booking", "first") /\ Decides(w, accepted, Writing(txn[w]))
  BY DEF CheckStart
<1>2. "start_booking" \in ChangesRow \ GivesTutor /\ "start_booking" \in Operations
  BY DEF ChangesRow, GivesTutor, Operations
<1>4. txn[w].tutor \in Tutors /\ txn[w].tutor # None
  BY SMTT(30), <1>1, <1>2, HasLocksRight, ConstantsAssumption DEF Right, ShapedRest
<1>3. accepted =>
         /\ booking[txn[w].booking].status = "BOOKED"
         /\ ~booking[txn[w].booking].started /\ booking[txn[w].booking].tutor # None
  BY <1>4 DEF BeforeStart
<1> HIDE DEF accepted
<1> QED
  BY <1>1, <1>2, <1>3, RowDecided

\* The check before a report keeps the invariant: if it passes, the booking is live.
LEMMA CheckReportKeeps ==
  ASSUME Inv, NEW w \in Workers, CheckReport(w)
  PROVE  Inv'
<1> DEFINE accepted == LET row == booking[txn[w].booking]
                       IN  row.tutor = txn[w].tutor /\ row.status = "BOOKED" /\ row.started
<1>1. HasLocks(w, "submit_report", "first") /\ Decides(w, accepted, Writing(txn[w]))
  BY DEF CheckReport
<1>2. "submit_report" \in ChangesRow \ GivesTutor
  BY DEF ChangesRow, GivesTutor
<1>3. accepted =>
         /\ booking[txn[w].booking].status = "BOOKED"
         /\ "submit_report" \in BeforeStart => ~booking[txn[w].booking].started
         /\ booking[txn[w].booking].started
  BY DEF BeforeStart
<1> HIDE DEF accepted
<1> QED
  BY <1>1, <1>2, <1>3, RowDecided

\* The lowest free seat is one.
LEMMA LowestSeatFree ==
  ASSUME NEW s \in Slots, FreeSeats(s) # {}
  PROVE  LowestSeat(s) \in FreeSeats(s) /\ LowestSeat(s) \in Nat
<1>1. FreeSeats(s) \in SUBSET Nat
  BY ConstantsAssumption DEF FreeSeats
<1>2. \E n \in FreeSeats(s) : \A m \in FreeSeats(s) : n <= m
  BY <1>1, LeastNumber
<1> QED
  BY <1>1, <1>2 DEF LowestSeat

\* What the checks of a seat leave true.
LEMMA SeatDecided ==
  ASSUME Inv, NEW x \in Transactions, NEW s \in Slots, NEW l, OpenSeat(l, s, x.at, Moved(x)),
         x.lead = l, x.slot = s
  PROVE  /\ LowestSeat(s) \in FreeSeats(s) /\ LowestSeat(s) \in Nat
         /\ \A y : SameSubject(x, y) /\ y.seat = LowestSeat(s) => SeatChecked(y)
<1>1. /\ LowestSeat(s) \in FreeSeats(s) /\ LowestSeat(s) \in Nat
      /\ LiveBookings(l, SlotType[s], x.at) \subseteq Moved(x)
      /\ LeadCommitments(l, SlotStart[s]) \subseteq Moved(x)
  BY LowestSeatFree DEF OpenSeat
<1>2. ASSUME NEW y, SameSubject(x, y), y.seat = LowestSeat(s)
      PROVE  SeatChecked(y)
  BY <1>1, <1>2 DEF SeatChecked, SameSubject, Moved
<1> QED
  BY <1>1, <1>2

\* Given a seat, a transaction that is to write is the same but for it.
LEMMA SeatGiven ==
  ASSUME NEW x \in Transactions, NEW seat \in Nat
  PROVE  LET new == [Writing(x) EXCEPT !.seat = seat]
         IN  /\ new \in Transactions /\ SameSubject(x, new) /\ new.stage = "writing"
             /\ new.tutor = x.tutor /\ new.value = x.value /\ new.seat = seat
<1> DEFINE y == Writing(x)
<1>1. /\ y \in Transactions /\ SameSubject(x, y) /\ y.stage = "writing"
      /\ y.tutor = x.tutor /\ y.value = x.value
  BY DEF Writing, SameSubject, Transactions
<1> HIDE DEF y
<1>2. [y EXCEPT !.seat = seat] \in Transactions
  BY <1>1 DEF Transactions
<1>3. /\ SameSubject(x, [y EXCEPT !.seat = seat])
      /\ [y EXCEPT !.seat = seat].stage = "writing" /\ [y EXCEPT !.seat = seat].tutor = x.tutor
      /\ [y EXCEPT !.seat = seat].value = x.value /\ [y EXCEPT !.seat = seat].seat = seat
  BY <1>1 DEF SameSubject, Transactions
<1> QED
  BY <1>2, <1>3 DEF y

\* The check before a booking keeps the invariant: if it passes, the child has no other, is free
\* then, and a seat is.
LEMMA CheckCreateKeeps ==
  ASSUME Inv, NEW w \in Workers, CheckCreate(w)
  PROVE  Inv'
<1> DEFINE x == txn[w]
           accepted == /\ ~\E b \in Holding : booking[b].lead = x.lead /\ booking[b].slot = x.slot
                       /\ OpenSeat(x.lead, x.slot, x.at, {})
                       /\ WithinLimit(x.lead)
           new == [Writing(x) EXCEPT !.seat = LowestSeat(x.slot)]
<1>1. HasLocks(w, "create_booking", "first") /\ Decides(w, accepted, new)
  BY DEF CheckCreate
<1>2. "create_booking" \in Operations
  BY DEF Operations, MakesBooking
<1>3. Right(x) /\ x \in Transactions /\ x.op = "create_booking"
  BY <1>1, <1>2, HasLocksRight
<1>4. ASSUME accepted
      PROVE  /\ new \in Transactions /\ SameSubject(x, new)
             /\ ShapedInvite(new) /\ ShapedRest(new) /\ LocksTutors(new)
             /\ RowChecked(new) /\ SeatChecked(new) /\ RedemoChecked(new)
             /\ TutorChecked(new) /\ ClassChecked(new) /\ AccountChecked(new) /\ InviteChecked(new)
  <2>1. x.slot \in Slots /\ OpenSeat(x.lead, x.slot, x.at, Moved(x))
    BY <1>3, <1>4 DEF Right, ShapedBooking, MakesBooking, Moved
  <2>2. /\ LowestSeat(x.slot) \in Nat
        /\ \A y : SameSubject(x, y) /\ y.seat = LowestSeat(x.slot) => SeatChecked(y)
    BY <1>3, <2>1, SeatDecided
  <2>3. /\ new \in Transactions /\ SameSubject(x, new) /\ new.stage = "writing"
        /\ new.tutor = x.tutor /\ new.value = x.value /\ new.seat = LowestSeat(x.slot)
    BY <1>3, <2>2, SeatGiven
  <2> HIDE DEF new
  <2>4. ShapedInvite(new) /\ ShapedRest(new) /\ LocksTutors(new)
    BY <1>3, <2>3
       DEF ShapedInvite, ShapedRest, LocksTutors, SameSubject, GivesTutor, NamesTutor, Right,
           WritesLink
  <2>5. /\ RowChecked(new) /\ RedemoChecked(new) /\ TutorChecked(new) /\ ClassChecked(new)
        /\ AccountChecked(new) /\ InviteChecked(new)
    BY <1>3, <2>3
       DEF RowChecked, RedemoChecked, TutorChecked, ClassChecked, AccountChecked, InviteChecked,
           SameSubject, ChangesRow, GivesTutor
  <2> QED
    BY <2>2, <2>3, <2>4, <2>5
<1> HIDE DEF accepted, new
<1> QED
  BY <1>1, <1>2, <1>4, DecidesKeeps

\* The check before an invited Demo keeps the invariant: if it passes, the invitation is unused,
\* the child free and a seat too.
LEMMA CheckInvitedKeeps ==
  ASSUME Inv, NEW w \in Workers, CheckInvited(w)
  PROVE  Inv'
<1> DEFINE x == txn[w]
           accepted == /\ invite[x.invite].state = "ACTIVE"
                       /\ Invitable(invite[x.invite].diagnostic, x.at)
                       /\ OpenSeat(x.lead, x.slot, x.at, {})
                       /\ WithinLimit(x.lead)
           new == [Writing(x) EXCEPT !.seat = LowestSeat(x.slot)]
<1>1. HasLocks(w, "create_invited_demo_booking", "first") /\ Decides(w, accepted, new)
  BY DEF CheckInvited
<1>2. "create_invited_demo_booking" \in Operations
  BY DEF Operations, MakesBooking
<1>3. Right(x) /\ x \in Transactions /\ x.op = "create_invited_demo_booking"
  BY <1>1, <1>2, HasLocksRight
<1>4. ASSUME accepted
      PROVE  /\ new \in Transactions /\ SameSubject(x, new)
             /\ ShapedInvite(new) /\ ShapedRest(new) /\ LocksTutors(new)
             /\ RowChecked(new) /\ SeatChecked(new) /\ RedemoChecked(new)
             /\ TutorChecked(new) /\ ClassChecked(new) /\ AccountChecked(new) /\ InviteChecked(new)
  <2>1. x.slot \in Slots /\ OpenSeat(x.lead, x.slot, x.at, Moved(x))
    BY <1>3, <1>4 DEF Right, ShapedBooking, MakesBooking, Moved
  <2>2. /\ LowestSeat(x.slot) \in Nat
        /\ \A y : SameSubject(x, y) /\ y.seat = LowestSeat(x.slot) => SeatChecked(y)
    BY <1>3, <2>1, SeatDecided
  <2>3. /\ new \in Transactions /\ SameSubject(x, new) /\ new.stage = "writing"
        /\ new.tutor = x.tutor /\ new.value = x.value /\ new.seat = LowestSeat(x.slot)
    BY <1>3, <2>2, SeatGiven
  <2> HIDE DEF new
  <2>4. ShapedInvite(new) /\ ShapedRest(new) /\ LocksTutors(new)
    BY <1>3, <2>3
       DEF ShapedInvite, ShapedRest, LocksTutors, SameSubject, GivesTutor, NamesTutor, Right,
           WritesLink
  <2>5. /\ RowChecked(new) /\ RedemoChecked(new) /\ TutorChecked(new) /\ ClassChecked(new)
        /\ AccountChecked(new)
    BY <1>3, <2>3
       DEF RowChecked, RedemoChecked, TutorChecked, ClassChecked, AccountChecked,
           SameSubject, ChangesRow, GivesTutor
  <2>6. InviteChecked(new)
    BY <1>3, <1>4, <2>3 DEF InviteChecked, SameSubject
  <2> QED
    BY <2>2, <2>3, <2>4, <2>5, <2>6
<1> HIDE DEF accepted, new
<1> QED
  BY <1>1, <1>2, <1>4, DecidesKeeps

\* A tutor's locks are wanted once they are listed.
LEMMA TutorLocksWanted ==
  ASSUME NEW t \in Tutors
  PROVE  /\ TutorLocks(t) \in Seq(Locks)
         /\ \A x : x.need = TutorLocks(t) => Wants(x, ScheduleLock(t)) /\ Wants(x, AccountLock(t))
<1>1. TutorLocks(t) = <<ScheduleLock(t), AccountLock(t)>>
  BY DEF TutorLocks, ScheduleLock, AccountLock
<1> QED
  BY <1>1, LocksTyped, ListsTyped, ListsWanted

\* The check before a Re-Demo keeps the invariant: if it passes, there is no other for the Demo,
\* the child is free and a seat too.
LEMMA CheckRedemoRequestKeeps ==
  ASSUME Inv, NEW w \in Workers, CheckRedemoRequest(w)
  PROVE  Inv'
<1> DEFINE x == txn[w]
           accepted == RedemoOf(x.booking) = {} /\ x.tutor # booking[x.booking].tutor
           new == [x EXCEPT !.stage = "tutor", !.need = TutorLocks(x.tutor)]
<1>1. HasLocks(w, "schedule_redemo", "first") /\ Decides(w, accepted, new)
  BY DEF CheckRedemoRequest
<1>2. "schedule_redemo" \in Operations
  BY DEF Operations, MakesBooking
<1>3. /\ Right(x) /\ x \in Transactions /\ x.op = "schedule_redemo" /\ x.stage = "first" /\ x.need = <<>>
      /\ \A lock : Wants(x, lock) => lock \in x.held
  BY <1>1, <1>2, HasLocksRight
<1>4. ASSUME accepted
      PROVE  /\ new \in Transactions /\ SameSubject(x, new)
             /\ ShapedInvite(new) /\ ShapedRest(new) /\ LocksTutors(new)
             /\ RowChecked(new) /\ SeatChecked(new) /\ RedemoChecked(new)
             /\ TutorChecked(new) /\ ClassChecked(new) /\ AccountChecked(new) /\ InviteChecked(new)
  <2>1. x.tutor \in Tutors
    BY <1>3 DEF Right, ShapedRest, NamesTutor
  <2>2. /\ new \in Transactions /\ SameSubject(x, new) /\ new.stage = "tutor" /\ new.tutor = x.tutor
        /\ new.value = x.value /\ new.seat = x.seat /\ new.need = TutorLocks(x.tutor)
    BY <1>3, <2>1, TutorLocksWanted DEF SameSubject, Transactions
  <2> HIDE DEF new
  <2>3. ShapedInvite(new) /\ ShapedRest(new)
    BY <1>3, <2>2
       DEF ShapedInvite, ShapedRest, SameSubject, NamesTutor, Right, WritesLink, GivesTutor
  <2>4. LocksTutors(new)
    BY <1>3, <2>1, <2>2, TutorLocksWanted DEF LocksTutors, SameSubject, GivesTutor
  <2>5. /\ RowChecked(new) /\ SeatChecked(new) /\ TutorChecked(new) /\ ClassChecked(new)
        /\ AccountChecked(new) /\ InviteChecked(new)
    BY <1>3, <2>2
       DEF RowChecked, SeatChecked, TutorChecked, ClassChecked, AccountChecked, InviteChecked,
           SameSubject, MakesBooking, ChangesRow, GivesTutor
  <2>6. RedemoChecked(new)
    BY <1>3, <1>4, <2>2 DEF RedemoChecked, SameSubject
  <2> QED
    BY <2>2, <2>3, <2>4, <2>5, <2>6
<1> HIDE DEF accepted, new
<1> QED
  BY <1>1, <1>2, <1>4, DecidesKeeps

\* The check before a Re-Demo's tutor keeps the invariant: if it passes, the tutor is another one,
\* active and free.
LEMMA CheckRedemoTutorKeeps ==
  ASSUME Inv, NEW w \in Workers, CheckRedemoTutor(w)
  PROVE  Inv'
<1> DEFINE x == txn[w]
           accepted == /\ x.tutor \in active
                       /\ OpenSeat(x.lead, x.slot, x.at, {})
                       /\ TutorFree(x.tutor, SlotStart[x.slot], {})
           new == [Writing(x) EXCEPT !.seat = LowestSeat(x.slot), !.value = meetLink[x.tutor]]
<1>1. HasLocks(w, "schedule_redemo", "tutor") /\ Decides(w, accepted, new)
  BY DEF CheckRedemoTutor
<1>2. "schedule_redemo" \in Operations
  BY DEF Operations, MakesBooking
<1>3. /\ Right(x) /\ x \in Transactions /\ x.op = "schedule_redemo" /\ x.stage = "tutor" /\ x.need = <<>>
      /\ \A lock : Wants(x, lock) => lock \in x.held
  BY <1>1, <1>2, HasLocksRight
<1>4. ASSUME accepted
      PROVE  /\ new \in Transactions /\ SameSubject(x, new)
             /\ ShapedInvite(new) /\ ShapedRest(new) /\ LocksTutors(new)
             /\ RowChecked(new) /\ SeatChecked(new) /\ RedemoChecked(new)
             /\ TutorChecked(new) /\ ClassChecked(new) /\ AccountChecked(new) /\ InviteChecked(new)
  <2>1. /\ x.slot \in Slots /\ OpenSeat(x.lead, x.slot, x.at, Moved(x)) /\ x.tutor \in Tutors
        /\ meetLink[x.tutor] \in Links \cup {None}
    BY <1>3, <1>4 DEF Right, ShapedBooking, ShapedRest, MakesBooking, NamesTutor, Moved, Inv, TypeOK
  <2>2. /\ LowestSeat(x.slot) \in Nat
        /\ \A y : SameSubject(x, y) /\ y.seat = LowestSeat(x.slot) => SeatChecked(y)
    BY <1>3, <2>1, SeatDecided
  <2>3. /\ new \in Transactions /\ SameSubject(x, new) /\ new.stage = "writing"
        /\ new.tutor = x.tutor /\ new.value = meetLink[x.tutor] /\ new.seat = LowestSeat(x.slot)
    <3> DEFINE y == [Writing(x) EXCEPT !.seat = LowestSeat(x.slot)]
    <3>1. /\ y \in Transactions /\ SameSubject(x, y) /\ y.stage = "writing"
          /\ y.tutor = x.tutor /\ y.seat = LowestSeat(x.slot)
      BY <1>3, <2>2, SeatGiven
    <3>2. new = [y EXCEPT !.value = meetLink[x.tutor]]
      OBVIOUS
    <3> HIDE DEF y, new
    <3> QED
      BY <2>1, <3>1, <3>2 DEF SameSubject, Transactions
  <2> HIDE DEF new
  <2>4. ShapedInvite(new) /\ ShapedRest(new)
    BY <1>3, <2>1, <2>3 DEF ShapedInvite, ShapedRest, SameSubject, NamesTutor, Right
  <2>5. LocksTutors(new)
    BY <1>3, <2>3 DEF Right, LocksTutors, SameSubject, GivesTutor
  <2>6. /\ RowChecked(new) /\ ClassChecked(new) /\ AccountChecked(new) /\ InviteChecked(new)
    BY <1>3, <2>3
       DEF RowChecked, ClassChecked, AccountChecked, InviteChecked, SameSubject, MakesBooking,
           ChangesRow, GivesTutor
  <2>7. RedemoChecked(new)
    BY <1>3, <2>3 DEF Right, RedemoChecked, SameSubject
  <2>8. TutorChecked(new)
    BY <1>3, <1>4, <2>3 DEF TutorChecked, StartOf, LeftOut, NoBookingThen, TutorFree, SameSubject
  <2> QED
    BY <2>2, <2>3, <2>4, <2>5, <2>6, <2>7, <2>8
<1> HIDE DEF accepted, new
<1> QED
  BY <1>1, <1>2, <1>4, DecidesKeeps

\* The check before a move keeps the invariant: if it passes, the booking may move, the child is
\* free but for it, and a seat is too.
LEMMA CheckMoveKeeps ==
  ASSUME Inv, NEW w \in Workers, CheckMove(w)
  PROVE  Inv'
<1> DEFINE x == txn[w]
           tutor == booking[x.booking].tutor
           need == IF tutor = None THEN <<>> ELSE TutorLocks(tutor)
           accepted == /\ booking[x.booking].status = "BOOKED" /\ ~booking[x.booking].started
                       /\ OpenSeat(x.lead, x.slot, x.at, {x.booking})
           new == [x EXCEPT !.stage = "tutor", !.seat = LowestSeat(x.slot), !.tutor = tutor,
                             !.need = need]
<1>1. HasLocks(w, "reschedule_booking", "first") /\ Decides(w, accepted, new)
  BY DEF CheckMove
<1>2. "reschedule_booking" \in Operations
  BY DEF Operations, MakesBooking
<1>3. /\ Right(x) /\ x \in Transactions /\ x.op = "reschedule_booking" /\ x.stage = "first" /\ x.need = <<>>
      /\ \A lock : Wants(x, lock) => lock \in x.held
  BY <1>1, <1>2, HasLocksRight
<1>4. ASSUME accepted
      PROVE  /\ new \in Transactions /\ SameSubject(x, new)
             /\ ShapedInvite(new) /\ ShapedRest(new) /\ LocksTutors(new)
             /\ RowChecked(new) /\ SeatChecked(new) /\ RedemoChecked(new)
             /\ TutorChecked(new) /\ ClassChecked(new) /\ AccountChecked(new) /\ InviteChecked(new)
  <2>1. /\ x.slot \in Slots /\ OpenSeat(x.lead, x.slot, x.at, Moved(x))
        /\ x.booking \in Bookings /\ Exists(x.booking)
    BY <1>3, <1>4 DEF Right, ShapedBooking, MakesBooking, ChangesRow, Moved
  <2>2. tutor \in Tutors \cup {None}
    BY <2>1, RowTyped DEF BookingRows
  <2>3. need \in Seq(Locks)
    BY <2>2, TutorLocksWanted
  <2>10. tutor # None => need = TutorLocks(tutor)
    OBVIOUS
  <2> HIDE DEF tutor, need
  <2>4. /\ LowestSeat(x.slot) \in Nat
        /\ \A y : SameSubject(x, y) /\ y.seat = LowestSeat(x.slot) => SeatChecked(y)
    BY <1>3, <2>1, SeatDecided
  <2>5. /\ new \in Transactions /\ SameSubject(x, new) /\ new.stage = "tutor"
        /\ new.tutor = tutor /\ new.value = x.value /\ new.seat = LowestSeat(x.slot)
        /\ new.need = need
    BY ZenonT(60), <1>3, <2>2, <2>3, <2>4 DEF SameSubject, Transactions
  <2> HIDE DEF new
  <2>6. ShapedInvite(new) /\ ShapedRest(new)
    BY <1>3, <2>5
       DEF ShapedInvite, ShapedRest, SameSubject, NamesTutor, Right, WritesLink, GivesTutor
  <2>7. LocksTutors(new)
    BY <1>3, <2>2, <2>5, <2>10, TutorLocksWanted DEF LocksTutors, SameSubject, GivesTutor
  <2>8. /\ RedemoChecked(new) /\ TutorChecked(new) /\ ClassChecked(new) /\ AccountChecked(new)
        /\ InviteChecked(new)
    BY <1>3, <2>5
       DEF RedemoChecked, TutorChecked, ClassChecked, AccountChecked, InviteChecked, SameSubject,
           MakesBooking, ChangesRow, GivesTutor
  <2>9. RowChecked(new)
    BY <1>3, <1>4, <2>5 DEF RowChecked, SameSubject, tutor
  <2> QED
    BY <2>4, <2>5, <2>6, <2>7, <2>8, <2>9
<1> HIDE DEF accepted, new
<1> QED
  BY <1>1, <1>2, <1>4, DecidesKeeps

\* The check of a moved booking's tutor keeps the invariant: the tutor is free, under the
\* schedule's lock.
LEMMA CheckMoveTutorKeeps ==
  ASSUME Inv, NEW w \in Workers, CheckMoveTutor(w)
  PROVE  Inv'
<1> DEFINE x == txn[w]
           carried == /\ x.tutor # None /\ x.tutor \in active
                      /\ TutorFree(x.tutor, SlotStart[x.slot], {x.booking})
           accepted == TRUE
           new == [Writing(x) EXCEPT !.tutor = IF carried THEN @ ELSE None,
                                     !.value = IF carried THEN meetLink[x.tutor] ELSE None]
<1>1. HasLocks(w, "reschedule_booking", "tutor") /\ Decides(w, accepted, new)
  BY DEF CheckMoveTutor
<1>2. "reschedule_booking" \in Operations
  BY DEF Operations, MakesBooking
<1>3. /\ Right(x) /\ x \in Transactions /\ x.op = "reschedule_booking" /\ x.stage = "tutor" /\ x.need = <<>>
      /\ \A lock : Wants(x, lock) => lock \in x.held
  BY <1>1, <1>2, HasLocksRight
<1>4. ASSUME accepted
      PROVE  /\ new \in Transactions /\ SameSubject(x, new)
             /\ ShapedInvite(new) /\ ShapedRest(new) /\ LocksTutors(new)
             /\ RowChecked(new) /\ SeatChecked(new) /\ RedemoChecked(new)
             /\ TutorChecked(new) /\ ClassChecked(new) /\ AccountChecked(new) /\ InviteChecked(new)
  <2>1. /\ carried => x.tutor \in Tutors /\ meetLink[x.tutor] \in Links \cup {None}
        /\ carried => x.tutor # None /\ x.tutor \in active
        /\ carried => TutorFree(x.tutor, SlotStart[x.slot], {x.booking})
        /\ x.tutor \in Tutors \cup {None}
    BY <1>3 DEF Inv, TypeOK, Transactions
  <2> HIDE DEF carried
  <2>2. /\ new \in Transactions /\ SameSubject(x, new) /\ new.stage = "writing" /\ new.seat = x.seat
        /\ new.tutor = IF carried THEN x.tutor ELSE None
        /\ new.value = IF carried THEN meetLink[x.tutor] ELSE None
    BY ZenonT(60), <1>3, <2>1 DEF Writing, SameSubject, Transactions
  <2> HIDE DEF new
  <2>3. ShapedInvite(new) /\ ShapedRest(new)
    BY <1>3, <2>1, <2>2 DEF ShapedInvite, ShapedRest, SameSubject, NamesTutor, Right
  <2>4. LocksTutors(new)
    BY <1>3, <2>2 DEF Right, LocksTutors, SameSubject, GivesTutor
  <2>5. RowChecked(new) /\ SeatChecked(new)
    BY <1>3, <2>2 DEF Right, RowChecked, SeatChecked, SameSubject, ChangesRow, Moved
  <2>6. /\ RedemoChecked(new) /\ ClassChecked(new) /\ AccountChecked(new) /\ InviteChecked(new)
    BY <1>3, <2>2
       DEF RedemoChecked, ClassChecked, AccountChecked, InviteChecked, SameSubject, MakesBooking,
           ChangesRow, GivesTutor
  <2>7. TutorChecked(new)
    BY <1>3, <2>1, <2>2 DEF TutorChecked, StartOf, LeftOut, NoBookingThen, TutorFree, SameSubject
  <2> QED
    BY <2>2, <2>3, <2>4, <2>5, <2>6, <2>7
<1> HIDE DEF accepted, new
<1> QED
  BY <1>1, <1>2, <1>4, DecidesKeeps

\* The check before an assignment keeps the invariant: if it passes, the booking is live and not
\* started.
LEMMA CheckAssignableKeeps ==
  ASSUME Inv, NEW w \in Workers, CheckAssignable(w)
  PROVE  Inv'
<1> DEFINE x == txn[w]
           accepted == TutorChangeable(x)
           new == [x EXCEPT !.stage = "tutor", !.need = TutorLocks(x.tutor)]
<1>1. HasLocks(w, "assign_tutor", "first") /\ Decides(w, accepted, new)
  BY DEF CheckAssignable
<1>2. "assign_tutor" \in Operations
  BY DEF Operations, MakesBooking
<1>3. /\ Right(x) /\ x \in Transactions /\ x.op = "assign_tutor" /\ x.stage = "first" /\ x.need = <<>>
      /\ \A lock : Wants(x, lock) => lock \in x.held
  BY <1>1, <1>2, HasLocksRight
<1>4. ASSUME accepted
      PROVE  /\ new \in Transactions /\ SameSubject(x, new)
             /\ ShapedInvite(new) /\ ShapedRest(new) /\ LocksTutors(new)
             /\ RowChecked(new) /\ SeatChecked(new) /\ RedemoChecked(new)
             /\ TutorChecked(new) /\ ClassChecked(new) /\ AccountChecked(new) /\ InviteChecked(new)
  <2>1. x.tutor \in Tutors
    BY <1>3 DEF Right, ShapedRest, NamesTutor
  <2>2. /\ new \in Transactions /\ SameSubject(x, new) /\ new.stage = "tutor" /\ new.tutor = x.tutor
        /\ new.value = x.value /\ new.seat = x.seat /\ new.need = TutorLocks(x.tutor)
    BY <1>3, <2>1, TutorLocksWanted DEF SameSubject, Transactions
  <2> HIDE DEF new
  <2>3. ShapedInvite(new) /\ ShapedRest(new)
    BY <1>3, <2>2
       DEF ShapedInvite, ShapedRest, SameSubject, NamesTutor, Right, WritesLink, GivesTutor
  <2>4. LocksTutors(new)
    BY <1>3, <2>1, <2>2, TutorLocksWanted DEF LocksTutors, SameSubject, GivesTutor
  <2>5. /\ SeatChecked(new) /\ RedemoChecked(new) /\ TutorChecked(new) /\ ClassChecked(new)
        /\ AccountChecked(new) /\ InviteChecked(new)
    BY <1>3, <2>2
       DEF SeatChecked, RedemoChecked, TutorChecked, ClassChecked, AccountChecked, InviteChecked,
           SameSubject, MakesBooking, ChangesRow, GivesTutor
  <2>6. RowChecked(new)
    BY <1>3, <1>4, <2>2 DEF RowChecked, SameSubject, TutorChangeable
  <2> QED
    BY <2>2, <2>3, <2>4, <2>5, <2>6
<1> HIDE DEF accepted, new
<1> QED
  BY <1>1, <1>2, <1>4, DecidesKeeps

\* The check before an assigned tutor keeps the invariant: if it passes, the tutor is active and
\* free, and not the one of the Demo repeated.
LEMMA CheckAssignKeeps ==
  ASSUME Inv, NEW w \in Workers, CheckAssign(w)
  PROVE  Inv'
<1> DEFINE x == txn[w]
           accepted == /\ x.tutor \in active
                       /\ x.tutor # OriginalTutor(x.booking)
                       /\ x.tutor # booking[x.booking].tutor
                       /\ TutorFree(x.tutor, SlotStart[booking[x.booking].slot], {x.booking})
           new == [Writing(x) EXCEPT !.value = meetLink[x.tutor]]
<1>1. HasLocks(w, "assign_tutor", "tutor") /\ Decides(w, accepted, new)
  BY DEF CheckAssign
<1>2. "assign_tutor" \in Operations
  BY DEF Operations, MakesBooking
<1>3. /\ Right(x) /\ x \in Transactions /\ x.op = "assign_tutor" /\ x.stage = "tutor" /\ x.need = <<>>
      /\ \A lock : Wants(x, lock) => lock \in x.held
  BY <1>1, <1>2, HasLocksRight
<1>4. ASSUME accepted
      PROVE  /\ new \in Transactions /\ SameSubject(x, new)
             /\ ShapedInvite(new) /\ ShapedRest(new) /\ LocksTutors(new)
             /\ RowChecked(new) /\ SeatChecked(new) /\ RedemoChecked(new)
             /\ TutorChecked(new) /\ ClassChecked(new) /\ AccountChecked(new) /\ InviteChecked(new)
  <2>1. x.tutor \in Tutors /\ meetLink[x.tutor] \in Links \cup {None}
    BY <1>3 DEF Right, ShapedRest, NamesTutor, Inv, TypeOK
  <2>2. /\ new \in Transactions /\ SameSubject(x, new) /\ new.stage = "writing" /\ new.tutor = x.tutor
        /\ new.value = meetLink[x.tutor] /\ new.seat = x.seat
    BY <1>3, <2>1 DEF Writing, SameSubject, Transactions
  <2> HIDE DEF new
  <2>3. ShapedInvite(new) /\ ShapedRest(new)
    BY <1>3, <2>1, <2>2 DEF ShapedInvite, ShapedRest, SameSubject, NamesTutor, Right
  <2>4. LocksTutors(new)
    BY <1>3, <2>2 DEF Right, LocksTutors, SameSubject, GivesTutor
  <2>5. /\ SeatChecked(new) /\ RedemoChecked(new) /\ ClassChecked(new) /\ AccountChecked(new)
        /\ InviteChecked(new)
    BY <1>3, <2>2
       DEF SeatChecked, RedemoChecked, ClassChecked, AccountChecked, InviteChecked, SameSubject,
           MakesBooking, ChangesRow, GivesTutor
  <2>6. RowChecked(new)
    BY <1>3, <2>2 DEF Right, RowChecked, SameSubject
  <2>7. TutorChecked(new)
    BY <1>3, <1>4, <2>2 DEF TutorChecked, StartOf, LeftOut, NoBookingThen, TutorFree, SameSubject
  <2> QED
    BY <2>2, <2>3, <2>4, <2>5, <2>6, <2>7
<1> HIDE DEF accepted, new
<1> QED
  BY <1>1, <1>2, <1>4, DecidesKeeps

\* The check before a link keeps the invariant: the rows still to lock are bookings.
LEMMA CheckLinkKeeps ==
  ASSUME Inv, NEW w \in Workers, CheckLink(w)
  PROVE  Inv'
<1> DEFINE x == txn[w]
           changed == {b \in TakesLink(x.tutor, x.at) : booking[b].link # x.value}
           accepted == meetLink[x.tutor] # x.value
           new == [Writing(x) EXCEPT !.todo = changed,
                       !.need = LocksOf({b \in changed : BookingLock(b) \notin x.held})]
<1>1. HasLocks(w, "set_tutor_meet_link", "first") /\ Decides(w, accepted, new)
  BY DEF CheckLink
<1>2. "set_tutor_meet_link" \in Operations
  BY DEF Operations
<1>3. /\ Right(x) /\ x \in Transactions /\ x.op = "set_tutor_meet_link" /\ x.stage = "first" /\ x.need = <<>>
      /\ \A lock : Wants(x, lock) => lock \in x.held
  BY <1>1, <1>2, HasLocksRight
<1>4. ASSUME accepted
      PROVE  /\ new \in Transactions /\ SameSubject(x, new)
             /\ ShapedInvite(new) /\ ShapedRest(new) /\ LocksTutors(new)
             /\ RowChecked(new) /\ SeatChecked(new) /\ RedemoChecked(new)
             /\ TutorChecked(new) /\ ClassChecked(new) /\ AccountChecked(new) /\ InviteChecked(new)
  <2>1. changed \in SUBSET Bookings /\ {b \in changed : BookingLock(b) \notin x.held} \in SUBSET Bookings
    BY DEF TakesLink
  <2> HIDE DEF changed
  <2>2. LocksOf({b \in changed : BookingLock(b) \notin x.held}) \in Seq(Locks)
    BY <2>1, LocksOfTyped
  <2>3. /\ new \in Transactions /\ SameSubject(x, new) /\ new.stage = "writing" /\ new.tutor = x.tutor
        /\ new.value = x.value /\ new.seat = x.seat /\ new.todo = changed
    BY <1>3, <2>1, <2>2 DEF Writing, SameSubject, Transactions
  <2> HIDE DEF new
  <2>4. ShapedInvite(new) /\ ShapedRest(new)
    BY <1>3, <2>1, <2>3 DEF ShapedInvite, ShapedRest, SameSubject, NamesTutor, Right, WritesLink
  <2>5. LocksTutors(new)
    BY <1>3, <2>3 DEF LocksTutors, SameSubject, GivesTutor
  <2>6. /\ RowChecked(new) /\ SeatChecked(new) /\ RedemoChecked(new) /\ TutorChecked(new)
        /\ ClassChecked(new) /\ AccountChecked(new) /\ InviteChecked(new)
    BY <1>3, <2>3
       DEF RowChecked, SeatChecked, RedemoChecked, TutorChecked, ClassChecked, AccountChecked,
           InviteChecked, SameSubject, MakesBooking, ChangesRow, GivesTutor
  <2> QED
    BY <2>3, <2>4, <2>5, <2>6
<1> HIDE DEF accepted, new
<1> QED
  BY <1>1, <1>2, <1>4, DecidesKeeps

\* The check before closing an account keeps the invariant: if it passes, the tutor has no booking
\* to come.
LEMMA CheckAccountKeeps ==
  ASSUME Inv, NEW w \in Workers, CheckAccount(w)
  PROVE  Inv'
<1> DEFINE x == txn[w]
           accepted == x.flag \/ UpcomingAssignments(x.tutor) = {}
           new == Writing(x)
<1>1. HasLocks(w, "set_account_active", "first") /\ Decides(w, accepted, new)
  BY DEF CheckAccount
<1>2. "set_account_active" \in Operations
  BY DEF Operations
<1>3. /\ Right(x) /\ x \in Transactions /\ x.op = "set_account_active" /\ x.stage = "first" /\ x.need = <<>>
      /\ \A lock : Wants(x, lock) => lock \in x.held
  BY <1>1, <1>2, HasLocksRight
<1>4. ASSUME accepted
      PROVE  /\ new \in Transactions /\ SameSubject(x, new)
             /\ ShapedInvite(new) /\ ShapedRest(new) /\ LocksTutors(new)
             /\ RowChecked(new) /\ SeatChecked(new) /\ RedemoChecked(new)
             /\ TutorChecked(new) /\ ClassChecked(new) /\ AccountChecked(new) /\ InviteChecked(new)
  <2>1. /\ new \in Transactions /\ SameSubject(x, new) /\ new.stage = "writing" /\ new.tutor = x.tutor
        /\ new.value = x.value /\ new.seat = x.seat /\ new.todo = x.todo
    BY <1>3, HasLocksRight, <1>1, <1>2
  <2> HIDE DEF new
  <2>2. ShapedInvite(new) /\ ShapedRest(new)
    BY <1>3, <2>1
       DEF ShapedInvite, ShapedRest, SameSubject, NamesTutor, Right, WritesLink, GivesTutor
  <2>3. LocksTutors(new)
    BY <1>3, <2>1 DEF Right, LocksTutors, SameSubject, GivesTutor, Keeps
  <2>4. /\ RowChecked(new) /\ SeatChecked(new) /\ RedemoChecked(new) /\ TutorChecked(new)
        /\ ClassChecked(new) /\ InviteChecked(new)
    BY <1>3, <2>1
       DEF RowChecked, SeatChecked, RedemoChecked, TutorChecked, ClassChecked, InviteChecked,
           SameSubject, MakesBooking, ChangesRow, GivesTutor
  <2>5. AccountChecked(new)
    BY <1>3, <1>4, <2>1 DEF AccountChecked, SameSubject
  <2> QED
    BY <2>1, <2>2, <2>3, <2>4, <2>5
<1> HIDE DEF accepted, new
<1> QED
  BY <1>1, <1>2, <1>4, DecidesKeeps

\* The check before a class keeps the invariant: if it passes, the tutor is free.
LEMMA CheckClassKeeps ==
  ASSUME Inv, NEW w \in Workers, CheckClass(w)
  PROVE  Inv'
<1> DEFINE x == txn[w]
           accepted == TutorFree(x.tutor, x.class.start, {})
           new == Writing(x)
<1>1. HasLocks(w, "schedule_class", "first") /\ Decides(w, accepted, new)
  BY DEF CheckClass
<1>2. "schedule_class" \in Operations
  BY DEF Operations
<1>3. /\ Right(x) /\ x \in Transactions /\ x.op = "schedule_class" /\ x.stage = "first" /\ x.need = <<>>
      /\ \A lock : Wants(x, lock) => lock \in x.held
  BY <1>1, <1>2, HasLocksRight
<1>4. ASSUME accepted
      PROVE  /\ new \in Transactions /\ SameSubject(x, new)
             /\ ShapedInvite(new) /\ ShapedRest(new) /\ LocksTutors(new)
             /\ RowChecked(new) /\ SeatChecked(new) /\ RedemoChecked(new)
             /\ TutorChecked(new) /\ ClassChecked(new) /\ AccountChecked(new) /\ InviteChecked(new)
  <2>1. /\ new \in Transactions /\ SameSubject(x, new) /\ new.stage = "writing" /\ new.tutor = x.tutor
        /\ new.value = x.value /\ new.seat = x.seat /\ new.todo = x.todo
    BY <1>3, HasLocksRight, <1>1, <1>2
  <2> HIDE DEF new
  <2>2. ShapedInvite(new) /\ ShapedRest(new)
    BY <1>3, <2>1
       DEF ShapedInvite, ShapedRest, SameSubject, NamesTutor, Right, WritesLink, GivesTutor
  <2>3. LocksTutors(new)
    BY <1>3, <2>1 DEF Right, LocksTutors, SameSubject, GivesTutor, Keeps
  <2>4. /\ RowChecked(new) /\ SeatChecked(new) /\ RedemoChecked(new) /\ TutorChecked(new)
        /\ AccountChecked(new) /\ InviteChecked(new)
    BY <1>3, <2>1
       DEF RowChecked, SeatChecked, RedemoChecked, TutorChecked, AccountChecked, InviteChecked,
           SameSubject, MakesBooking, ChangesRow, GivesTutor
  <2>5. ClassChecked(new)
    BY <1>3, <1>4, <2>1 DEF ClassChecked, SameSubject
  <2> QED
    BY <2>1, <2>2, <2>3, <2>4, <2>5
<1> HIDE DEF accepted, new
<1> QED
  BY <1>1, <1>2, <1>4, DecidesKeeps

\* The check before a withdrawal keeps the invariant: if it passes, the invitation is unused.
LEMMA CheckRevokeKeeps ==
  ASSUME Inv, NEW w \in Workers, CheckRevoke(w)
  PROVE  Inv'
<1> DEFINE x == txn[w]
           accepted == invite[x.invite].state = "ACTIVE"
           new == Writing(x)
<1>1. HasLocks(w, "revoke_invite", "first") /\ Decides(w, accepted, new)
  BY DEF CheckRevoke
<1>2. "revoke_invite" \in Operations
  BY DEF Operations
<1>3. /\ Right(x) /\ x \in Transactions /\ x.op = "revoke_invite" /\ x.stage = "first" /\ x.need = <<>>
      /\ \A lock : Wants(x, lock) => lock \in x.held
  BY <1>1, <1>2, HasLocksRight
<1>4. ASSUME accepted
      PROVE  /\ new \in Transactions /\ SameSubject(x, new)
             /\ ShapedInvite(new) /\ ShapedRest(new) /\ LocksTutors(new)
             /\ RowChecked(new) /\ SeatChecked(new) /\ RedemoChecked(new)
             /\ TutorChecked(new) /\ ClassChecked(new) /\ AccountChecked(new) /\ InviteChecked(new)
  <2>1. /\ new \in Transactions /\ SameSubject(x, new) /\ new.stage = "writing" /\ new.tutor = x.tutor
        /\ new.value = x.value /\ new.seat = x.seat /\ new.todo = x.todo
    BY <1>3, HasLocksRight, <1>1, <1>2
  <2> HIDE DEF new
  <2>2. ShapedInvite(new) /\ ShapedRest(new)
    BY <1>3, <2>1
       DEF ShapedInvite, ShapedRest, SameSubject, NamesTutor, Right, WritesLink, GivesTutor
  <2>3. LocksTutors(new)
    BY <1>3, <2>1 DEF Right, LocksTutors, SameSubject, GivesTutor, Keeps
  <2>4. /\ RowChecked(new) /\ SeatChecked(new) /\ RedemoChecked(new) /\ TutorChecked(new)
        /\ ClassChecked(new) /\ AccountChecked(new)
    BY <1>3, <2>1
       DEF RowChecked, SeatChecked, RedemoChecked, TutorChecked, ClassChecked, AccountChecked,
           SameSubject, MakesBooking, ChangesRow, GivesTutor
  <2>5. InviteChecked(new)
    BY <1>3, <1>4, <2>1 DEF InviteChecked, SameSubject
  <2> QED
    BY <2>1, <2>2, <2>3, <2>4, <2>5
<1> HIDE DEF accepted, new
<1> QED
  BY <1>1, <1>2, <1>4, DecidesKeeps

\* The check before an invitation keeps the invariant: if it passes, the Demo may be invited to
\* again.
LEMMA CheckIssueKeeps ==
  ASSUME Inv, NEW w \in Workers, CheckIssue(w)
  PROVE  Inv'
<1> DEFINE x == txn[w]
           need == LET open == OpenInvites(x.booking)
                   IN  IF open = {} THEN <<>> ELSE <<InviteLock(CHOOSE i \in open : TRUE)>>
           accepted == Invitable(x.booking, x.at)
           new == [x EXCEPT !.stage = "invite", !.need = need]
<1>1. HasLocks(w, "issue_invite", "first") /\ Decides(w, accepted, new)
  BY DEF CheckIssue
<1>2. "issue_invite" \in Operations
  BY DEF Operations
<1>3. /\ Right(x) /\ x \in Transactions /\ x.op = "issue_invite" /\ x.stage = "first" /\ x.need = <<>>
      /\ \A lock : Wants(x, lock) => lock \in x.held
  BY <1>1, <1>2, HasLocksRight
<1>4. ASSUME accepted
      PROVE  /\ new \in Transactions /\ SameSubject(x, new)
             /\ ShapedInvite(new) /\ ShapedRest(new) /\ LocksTutors(new)
             /\ RowChecked(new) /\ SeatChecked(new) /\ RedemoChecked(new)
             /\ TutorChecked(new) /\ ClassChecked(new) /\ AccountChecked(new) /\ InviteChecked(new)
  <2>1. need \in Seq(Locks)
    <3>1. ASSUME OpenInvites(x.booking) # {}
          PROVE  <<InviteLock(CHOOSE i \in OpenInvites(x.booking) : TRUE)>> \in Seq(Locks)
      <4>1. (CHOOSE i \in OpenInvites(x.booking) : TRUE) \in Invites
        BY <3>1 DEF OpenInvites
      <4> QED
        BY <4>1, LocksTyped, ListsTyped
    <3>2. <<>> \in Seq(Locks)
      OBVIOUS
    <3> QED
      BY <3>1, <3>2
  <2> HIDE DEF need
  <2>2. /\ new \in Transactions /\ SameSubject(x, new) /\ new.stage = "invite" /\ new.tutor = x.tutor
        /\ new.value = x.value /\ new.seat = x.seat
    BY <1>3, <2>1 DEF SameSubject, Transactions
  <2> HIDE DEF new
  <2>3. ShapedInvite(new) /\ ShapedRest(new)
    BY <1>3, <2>2
       DEF ShapedInvite, ShapedRest, SameSubject, NamesTutor, Right, WritesLink, GivesTutor
  <2>4. LocksTutors(new)
    BY <1>3, <2>2 DEF LocksTutors, SameSubject, GivesTutor
  <2>5. /\ RowChecked(new) /\ SeatChecked(new) /\ RedemoChecked(new) /\ TutorChecked(new)
        /\ ClassChecked(new) /\ AccountChecked(new) /\ InviteChecked(new)
    BY <1>3, <2>2
       DEF RowChecked, SeatChecked, RedemoChecked, TutorChecked, ClassChecked, AccountChecked,
           InviteChecked, SameSubject, MakesBooking, ChangesRow, GivesTutor
  <2> QED
    BY <2>2, <2>3, <2>4, <2>5
<1> HIDE DEF accepted, new
<1> QED
  BY <1>1, <1>2, <1>4, DecidesKeeps

\* The check before an invitation keeps the invariant: if it passes, the Demo's open ones are the
\* ones it will replace.
LEMMA CheckIssueOpenKeeps ==
  ASSUME Inv, NEW w \in Workers, CheckIssueOpen(w)
  PROVE  Inv'
<1> DEFINE x == txn[w]
           accepted == \A i \in OpenInvites(x.booking) : invite[i].state = "EXPIRED"
           new == [Writing(x) EXCEPT !.todo = OpenInvites(x.booking)]
<1>1. HasLocks(w, "issue_invite", "invite") /\ Decides(w, accepted, new)
  BY DEF CheckIssueOpen
<1>2. "issue_invite" \in Operations
  BY DEF Operations
<1>3. /\ Right(x) /\ x \in Transactions /\ x.op = "issue_invite" /\ x.stage = "invite" /\ x.need = <<>>
      /\ \A lock : Wants(x, lock) => lock \in x.held
  BY <1>1, <1>2, HasLocksRight
<1>4. ASSUME accepted
      PROVE  /\ new \in Transactions /\ SameSubject(x, new)
             /\ ShapedInvite(new) /\ ShapedRest(new) /\ LocksTutors(new)
             /\ RowChecked(new) /\ SeatChecked(new) /\ RedemoChecked(new)
             /\ TutorChecked(new) /\ ClassChecked(new) /\ AccountChecked(new) /\ InviteChecked(new)
  <2>1. \A i \in OpenInvites(x.booking) : /\ i \in Invites /\ invite[i].state # "ABSENT"
                                             /\ invite[i].diagnostic = x.booking
                                             /\ invite[i].state # "USED"
    BY <1>4 DEF OpenInvites
  <2>2. OpenInvites(x.booking) \in SUBSET Invites
    BY <2>1
  <2>3. /\ new \in Transactions /\ SameSubject(x, new) /\ new.stage = "writing" /\ new.tutor = x.tutor
        /\ new.value = x.value /\ new.seat = x.seat /\ new.todo = OpenInvites(x.booking)
    BY <1>3, <2>2 DEF Writing, SameSubject, Transactions
  <2> HIDE DEF new
  <2>4. ShapedInvite(new) /\ ShapedRest(new)
    BY <1>3, <2>1, <2>3
       DEF ShapedInvite, ShapedRest, SameSubject, NamesTutor, Right, WritesLink, GivesTutor
  <2>5. LocksTutors(new)
    BY <1>3, <2>3 DEF LocksTutors, SameSubject, GivesTutor
  <2>6. /\ RowChecked(new) /\ SeatChecked(new) /\ RedemoChecked(new) /\ TutorChecked(new)
        /\ ClassChecked(new) /\ AccountChecked(new)
    BY <1>3, <2>3
       DEF RowChecked, SeatChecked, RedemoChecked, TutorChecked, ClassChecked, AccountChecked,
           SameSubject, MakesBooking, ChangesRow, GivesTutor
  <2>7. InviteChecked(new)
    BY <1>3, <2>1, <2>3 DEF InviteChecked, SameSubject
  <2> QED
    BY <2>3, <2>4, <2>5, <2>6, <2>7
<1> HIDE DEF accepted, new
<1> QED
  BY <1>1, <1>2, <1>4, DecidesKeeps

-----------------------------------------------------------------------------
(***************************************************************************)
(* Each transaction that commits leaves everything right                   *)
(***************************************************************************)
\* What is written as a transaction commits keeps the invariant.
LEMMA CommitKeeps ==
  ASSUME Inv, NEW w \in Workers, WrittenBy(w), TypeOK'
  PROVE  Inv'
<1>1. RowsTyped /\ RowsTyped'
  BY TypedRows DEF Inv, TypeOK, RowsTyped
<1>2. RowsRight'
  BY <1>1, RowsStayRight
<1>3. \A v \in Workers : txn'[v] = IF v = w THEN NoTxn ELSE txn[v]
  BY DEF WrittenBy, Inv, TypeOK
<1>4. LocksExclusive'
  <2>1. NoTxn.held = {}
    BY DEF NoTxn
  <2> QED
    BY <1>3, <2>1 DEF Inv, LocksExclusive
<1>5. TransactionsRight'
  <2>1. ASSUME NEW v \in Workers, NEW x, x = txn'[v], x # NoTxn
        PROVE  Right(x)'
    <3>1. v # w /\ x = txn[v]
      BY <1>3, <2>1
    <3>2. NotBy(v)
      BY <1>1, <3>1, WriterIsOther
    <3> QED
      BY <1>1, <2>1, <3>1, <3>2, RightStays
  <2> QED
    BY <2>1 DEF TransactionsRight
<1> QED
  BY <1>2, <1>4, <1>5 DEF Inv

\* A transaction that writes is a right one.
LEMMA WriterRight ==
  ASSUME Inv, NEW w \in Workers, NEW op \in Operations, Writes(w, op)
  PROVE  /\ txn[w] \in Transactions /\ Right(txn[w])
         /\ txn[w].op = op /\ txn[w].stage = "writing"
         /\ now' = now /\ txn' = [txn EXCEPT ![w] = NoTxn]
BY HasLocksRight DEF Writes

\* What is written of one row that is there, which is the one it checked.
LEMMA RowWritten ==
  ASSUME Inv, NEW w \in Workers, NEW op \in ChangesRow \ {"reschedule_booking"}, Writes(w, op),
         NEW row \in BookingRows, WriteBooking(txn[w].booking, row), UNCHANGED invite,
         Changed(w, txn[w].booking)
  PROVE  TypeOK' /\ WrittenBy(w)
<1>1. op \in Operations \ (MakesBooking \cup {"issue_invite"})
  BY DEF ChangesRow, Operations, MakesBooking
<1>2. /\ Right(txn[w]) /\ txn[w].op = op /\ txn[w].stage = "writing"
      /\ now' = now /\ txn' = [txn EXCEPT ![w] = NoTxn]
  BY <1>1, WriterRight
<1>3. txn[w].booking \in Bookings
  BY <1>2 DEF Right, ShapedBooking
<1>4. /\ booking' = [booking EXCEPT ![txn[w].booking] = row]
      /\ UNCHANGED <<closed, invite, active, meetLink, session>>
  BY DEF WriteBooking
<1>5. TypeOK'
  BY <1>2, <1>3, <1>4 DEF Inv, TypeOK
<1>6. \A b \in Bookings : b # txn[w].booking => Kept(b)
  BY <1>4 DEF Inv, TypeOK, Kept, SameBooking
<1>7. \A b \in Bookings : ~Made(w, b)
  BY <1>1, <1>2 DEF Made
<1>8. op \notin {"reschedule_booking", "create_invited_demo_booking", "issue_invite"}
  BY <1>1 DEF MakesBooking
<1>9. WrittenBy(w)
  BY <1>2, <1>4, <1>6, <1>7, <1>8 DEF WrittenBy
<1> QED
  BY <1>5, <1>9

\* A request for a Re-Demo writes the Demo it is for.
LEMMA WriteRequestIsWritten ==
  ASSUME Inv, NEW w \in Workers, WriteRequest(w)
  PROVE  TypeOK' /\ WrittenBy(w)
<1> DEFINE x == txn[w]
           row == [booking[x.booking] EXCEPT !.status = "REDEMO_REQUIRED"]
<1>1. Writes(w, "request_redemo") /\ WriteBooking(x.booking, row) /\ UNCHANGED invite
  BY DEF WriteRequest
<1>2. "request_redemo" \in Operations /\ "request_redemo" \in ChangesRow \ {"reschedule_booking"}
  BY DEF Operations, ChangesRow
<1>3. Right(x) /\ x \in Transactions /\ x.op = "request_redemo" /\ x.stage = "writing"
  BY <1>1, <1>2, WriterRight
<1>4. /\ x.booking \in Bookings /\ booking[x.booking] \in BookingRows
      /\ booking[x.booking].status = "COMPLETED"
  BY <1>2, <1>3, RowTyped DEF Right, ShapedBooking, RowChecked
<1>5. row \in BookingRows
  BY <1>3, <1>4 DEF BookingRows, Statuses
<1>6. booking'[x.booking] = row
  BY <1>1, <1>4 DEF WriteBooking, Inv, TypeOK
<1>7. Changed(w, x.booking)
  BY <1>2, <1>3, <1>4, <1>6 DEF Changed, SameBooking, BookingRows
<1> HIDE DEF row
<1> QED
  BY <1>1, <1>2, <1>5, <1>7, RowWritten

\* A cancellation writes the booking it has the lock of.
LEMMA WriteCancelIsWritten ==
  ASSUME Inv, NEW w \in Workers, WriteCancel(w)
  PROVE  TypeOK' /\ WrittenBy(w)
<1> DEFINE x == txn[w]
           row == [booking[x.booking] EXCEPT !.status = "CANCELLED"]
<1>1. Writes(w, "cancel_booking") /\ WriteBooking(x.booking, row) /\ UNCHANGED invite
  BY DEF WriteCancel
<1>2. "cancel_booking" \in Operations /\ "cancel_booking" \in ChangesRow \ {"reschedule_booking"}
  BY DEF Operations, ChangesRow
<1>3. Right(x) /\ x \in Transactions /\ x.op = "cancel_booking" /\ x.stage = "writing"
  BY <1>1, <1>2, WriterRight
<1>4. /\ x.booking \in Bookings /\ booking[x.booking] \in BookingRows
      /\ booking[x.booking].status = "BOOKED"
  BY <1>2, <1>3, RowTyped DEF Right, ShapedBooking, RowChecked
<1>5. row \in BookingRows
  BY <1>3, <1>4 DEF BookingRows, Statuses
<1>6. booking'[x.booking] = row
  BY <1>1, <1>4 DEF WriteBooking, Inv, TypeOK
<1>7. Changed(w, x.booking)
  BY <1>2, <1>3, <1>4, <1>6 DEF Changed, SameBooking, BookingRows
<1> HIDE DEF row
<1> QED
  BY <1>1, <1>2, <1>5, <1>7, RowWritten

\* A parent's answer writes the booking it is about.
LEMMA WriteConfirmationIsWritten ==
  ASSUME Inv, NEW w \in Workers, WriteConfirmation(w)
  PROVE  TypeOK' /\ WrittenBy(w)
<1> DEFINE x == txn[w]
           status == IF x.value = "CONFIRMED" THEN booking[x.booking].status ELSE "CANCELLED"
           row == [booking[x.booking] EXCEPT !.answer = x.value, !.status = status]
<1>1. Writes(w, "record_parent_confirmation") /\ WriteBooking(x.booking, row) /\ UNCHANGED invite
  BY DEF WriteConfirmation
<1>2. /\ "record_parent_confirmation" \in Operations
      /\ "record_parent_confirmation" \in ChangesRow \ {"reschedule_booking"}
  BY DEF Operations, ChangesRow
<1>3. Right(x) /\ x \in Transactions /\ x.op = "record_parent_confirmation" /\ x.stage = "writing"
  BY <1>1, <1>2, WriterRight
<1>4. /\ x.booking \in Bookings /\ booking[x.booking] \in BookingRows
      /\ booking[x.booking].status = "BOOKED"
  BY <1>2, <1>3, RowTyped DEF Right, ShapedBooking, RowChecked
<1>8. x.value \in {"CONFIRMED", "NOT_CONFIRMED"}
  BY <1>3 DEF Right, ShapedRest
<1>9. status = IF x.value = "CONFIRMED" THEN "BOOKED" ELSE "CANCELLED"
  BY <1>4
<1> HIDE DEF status
<1>10. status \in Statuses
  BY <1>9 DEF Statuses
<1>5. row \in BookingRows
  BY <1>4, <1>8, <1>10 DEF BookingRows
<1>6. booking'[x.booking] = row
  BY <1>1, <1>4 DEF WriteBooking, Inv, TypeOK
<1>7. Changed(w, x.booking)
  BY <1>2, <1>3, <1>4, <1>6, <1>8, <1>9 DEF Changed, SameBooking, BookingRows
<1> HIDE DEF row
<1> QED
  BY <1>1, <1>2, <1>5, <1>7, RowWritten

\* An assignment writes the booking it gives a tutor.
LEMMA WriteAssignIsWritten ==
  ASSUME Inv, NEW w \in Workers, WriteAssign(w)
  PROVE  TypeOK' /\ WrittenBy(w)
<1> DEFINE x == txn[w]
           row == [booking[x.booking] EXCEPT !.tutor = x.tutor, !.link = x.value]
<1>1. Writes(w, "assign_tutor") /\ WriteBooking(x.booking, row) /\ UNCHANGED invite
  BY DEF WriteAssign
<1>2. "assign_tutor" \in Operations /\ "assign_tutor" \in ChangesRow \ {"reschedule_booking"}
  BY DEF Operations, ChangesRow
<1>3. Right(x) /\ x \in Transactions /\ x.op = "assign_tutor" /\ x.stage = "writing"
  BY <1>1, <1>2, WriterRight
<1>4. /\ x.booking \in Bookings /\ booking[x.booking] \in BookingRows
      /\ booking[x.booking].status = "BOOKED"
  BY <1>2, <1>3, RowTyped DEF Right, ShapedBooking, RowChecked
<1>5. row \in BookingRows
  BY <1>3, <1>4 DEF BookingRows, Statuses, Right, ShapedRest, NamesTutor, WritesLink, GivesTutor
<1>6. booking'[x.booking] = row
  BY <1>1, <1>4 DEF WriteBooking, Inv, TypeOK
<1>7. Changed(w, x.booking)
  BY <1>2, <1>3, <1>4, <1>6
     DEF Changed, SameBooking, BookingRows, Right, ShapedRest, NamesTutor, WritesLink, GivesTutor
<1> HIDE DEF row
<1> QED
  BY <1>1, <1>2, <1>5, <1>7, RowWritten

\* Taking a tutor away writes the booking it leaves without.
LEMMA WriteUnassignIsWritten ==
  ASSUME Inv, NEW w \in Workers, WriteUnassign(w)
  PROVE  TypeOK' /\ WrittenBy(w)
<1> DEFINE x == txn[w]
           row == [booking[x.booking] EXCEPT !.tutor = None, !.link = None]
<1>1. Writes(w, "unassign_tutor") /\ WriteBooking(x.booking, row) /\ UNCHANGED invite
  BY DEF WriteUnassign
<1>2. "unassign_tutor" \in Operations /\ "unassign_tutor" \in ChangesRow \ {"reschedule_booking"}
  BY DEF Operations, ChangesRow
<1>3. Right(x) /\ x \in Transactions /\ x.op = "unassign_tutor" /\ x.stage = "writing"
  BY <1>1, <1>2, WriterRight
<1>4. /\ x.booking \in Bookings /\ booking[x.booking] \in BookingRows
      /\ booking[x.booking].status = "BOOKED"
  BY <1>2, <1>3, RowTyped DEF Right, ShapedBooking, RowChecked
<1>5. row \in BookingRows
  BY <1>3, <1>4 DEF BookingRows, Statuses
<1>6. booking'[x.booking] = row
  BY <1>1, <1>4 DEF WriteBooking, Inv, TypeOK
<1>7. Changed(w, x.booking)
  BY <1>2, <1>3, <1>4, <1>6 DEF Changed, SameBooking, BookingRows
<1> HIDE DEF row
<1> QED
  BY <1>1, <1>2, <1>5, <1>7, RowWritten

\* A start writes the booking it starts.
LEMMA WriteStartIsWritten ==
  ASSUME Inv, NEW w \in Workers, WriteStart(w)
  PROVE  TypeOK' /\ WrittenBy(w)
<1> DEFINE x == txn[w]
           row == [booking[x.booking] EXCEPT !.started = TRUE]
<1>1. Writes(w, "start_booking") /\ WriteBooking(x.booking, row) /\ UNCHANGED invite
  BY DEF WriteStart
<1>2. "start_booking" \in Operations /\ "start_booking" \in ChangesRow \ {"reschedule_booking"}
  BY DEF Operations, ChangesRow
<1>3. Right(x) /\ x \in Transactions /\ x.op = "start_booking" /\ x.stage = "writing"
  BY <1>1, <1>2, WriterRight
<1>4. /\ x.booking \in Bookings /\ booking[x.booking] \in BookingRows
      /\ booking[x.booking].status = "BOOKED"
  BY <1>2, <1>3, RowTyped DEF Right, ShapedBooking, RowChecked
<1>5. row \in BookingRows
  BY <1>3, <1>4 DEF BookingRows, Statuses
<1>6. booking'[x.booking] = row
  BY <1>1, <1>4 DEF WriteBooking, Inv, TypeOK
<1>7. Changed(w, x.booking)
  BY <1>2, <1>3, <1>4, <1>6 DEF Changed, SameBooking, BookingRows
<1> HIDE DEF row
<1> QED
  BY <1>1, <1>2, <1>5, <1>7, RowWritten

\* A report writes the booking it completes.
LEMMA WriteReportIsWritten ==
  ASSUME Inv, NEW w \in Workers, WriteReport(w)
  PROVE  TypeOK' /\ WrittenBy(w)
<1> DEFINE x == txn[w]
           row == [booking[x.booking] EXCEPT !.status = "COMPLETED"]
<1>1. Writes(w, "submit_report") /\ WriteBooking(x.booking, row) /\ UNCHANGED invite
  BY DEF WriteReport
<1>2. "submit_report" \in Operations /\ "submit_report" \in ChangesRow \ {"reschedule_booking"}
  BY DEF Operations, ChangesRow
<1>3. Right(x) /\ x \in Transactions /\ x.op = "submit_report" /\ x.stage = "writing"
  BY <1>1, <1>2, WriterRight
<1>4. /\ x.booking \in Bookings /\ booking[x.booking] \in BookingRows
      /\ booking[x.booking].status = "BOOKED"
  BY <1>2, <1>3, RowTyped DEF Right, ShapedBooking, RowChecked
<1>5. row \in BookingRows
  BY <1>3, <1>4 DEF BookingRows, Statuses
<1>6. booking'[x.booking] = row
  BY <1>1, <1>4 DEF WriteBooking, Inv, TypeOK
<1>7. Changed(w, x.booking)
  BY <1>2, <1>3, <1>4, <1>6 DEF Changed, SameBooking, BookingRows
<1> HIDE DEF row
<1> QED
  BY <1>1, <1>2, <1>5, <1>7, RowWritten
\* What is written of one row that is made, and of the invitation it uses.
LEMMA RowMade ==
  ASSUME Inv, NEW w \in Workers, NEW op \in MakesBooking \ {"reschedule_booking"}, Writes(w, op),
         NEW b \in Bookings, NEW row \in BookingRows, WriteBooking(b, row), Made(w, b),
         invite' \in [Invites -> InviteRows],
         \A i \in Invites : invite'[i] = invite[i] \/ Used(w, i),
         op = "create_invited_demo_booking" => Used(w, txn[w].invite)
  PROVE  TypeOK' /\ WrittenBy(w)
<1>1. op \in Operations \ (ChangesRow \cup {"issue_invite"})
  BY DEF ChangesRow, Operations, MakesBooking
<1>2. txn[w].op = op /\ now' = now /\ txn' = [txn EXCEPT ![w] = NoTxn]
  BY <1>1, WriterRight
<1>3. booking' = [booking EXCEPT ![b] = row] /\ UNCHANGED <<closed, active, meetLink, session>>
  BY DEF WriteBooking
<1>4. TypeOK'
  BY <1>2, <1>3 DEF Inv, TypeOK
<1>5. \A c \in Bookings : c # b => Kept(c) /\ ~Made(w, c)
  BY <1>3 DEF Inv, TypeOK, Kept, SameBooking, Made, Exists
<1>6. WrittenBy(w)
  BY <1>1, <1>2, <1>3, <1>5 DEF WrittenBy
<1> QED
  BY <1>4, <1>6

\* The row a transaction makes, as far as all that make one agree.
LEMMA NewBookingTyped ==
  ASSUME Inv, NEW w \in Workers, NEW op \in MakesBooking, Writes(w, op)
  PROVE  /\ NewBooking(txn[w]) \in BookingRows
         /\ \A row : row = NewBooking(txn[w]) =>
               /\ row.status = "BOOKED" /\ row.lead = txn[w].lead /\ row.slot = txn[w].slot
               /\ row.seat = txn[w].seat /\ row.started = FALSE /\ row.answer = "AWAITING"
               /\ row.tutor = None /\ row.from = None /\ row.redemoFor = None /\ row.via = None
<1>1. txn[w] \in Transactions /\ now \in Nat
  BY WriterRight DEF Operations, Inv, TypeOK
<1>2. /\ txn[w].lead \in Leads \cup {None} /\ txn[w].slot \in Slots \cup {None}
      /\ txn[w].seat \in Nat
  BY <1>1 DEF Transactions
<1>3. NewBooking(txn[w]) \in BookingRows
  BY <1>1, <1>2 DEF NewBooking, Blank, BookingRows, Statuses
<1>4. \A row : row = NewBooking(txn[w]) =>
         /\ row.status = "BOOKED" /\ row.lead = txn[w].lead /\ row.slot = txn[w].slot
         /\ row.seat = txn[w].seat /\ row.started = FALSE /\ row.answer = "AWAITING"
         /\ row.tutor = None /\ row.from = None /\ row.redemoFor = None /\ row.via = None
  BY DEF NewBooking, Blank
<1> QED
  BY <1>3, <1>4

\* A booking writes the one row it makes.
LEMMA WriteCreateIsWritten ==
  ASSUME Inv, NEW w \in Workers, WriteCreate(w)
  PROVE  TypeOK' /\ WrittenBy(w)
<1> DEFINE new == NewBooking(txn[w])
           row == [new EXCEPT !.via = "public_booking"]
<1>1. PICK b \in Bookings : IsNextBooking(b) /\ WriteBooking(b, row)
  BY DEF WriteCreate
<1>2. Writes(w, "create_booking") /\ UNCHANGED invite
  BY DEF WriteCreate
<1>3. /\ "create_booking" \in MakesBooking \ {"reschedule_booking"}
      /\ "create_booking" \notin GivesTutor
      /\ "create_booking" \in Operations
  BY DEF MakesBooking, GivesTutor, Operations
<1>4. txn[w].op = "create_booking" /\ txn[w].stage = "writing"
  BY <1>2, <1>3, WriterRight
<1>5. /\ new \in BookingRows
      /\ new.status = "BOOKED" /\ new.lead = txn[w].lead /\ new.slot = txn[w].slot
      /\ new.seat = txn[w].seat /\ new.started = FALSE /\ new.answer = "AWAITING"
      /\ new.tutor = None /\ new.from = None /\ new.redemoFor = None
  BY <1>2, <1>3, NewBookingTyped
<1> HIDE DEF new
<1>6. row \in BookingRows
  BY <1>5 DEF BookingRows
<1>7. booking'[b] = row
  BY <1>1 DEF WriteBooking, Inv, TypeOK
<1>8. Made(w, b)
  BY <1>1, <1>3, <1>4, <1>5, <1>7 DEF Made, IsNextBooking, BookingRows
<1>9. invite' \in [Invites -> InviteRows]
  BY <1>2 DEF Inv, TypeOK
<1> HIDE DEF row
<1> QED
  BY <1>1, <1>2, <1>3, <1>6, <1>8, <1>9, RowMade

\* An invited booking writes the row it makes and the invitation it uses.
LEMMA WriteInvitedIsWritten ==
  ASSUME Inv, NEW w \in Workers, WriteInvited(w)
  PROVE  TypeOK' /\ WrittenBy(w)
<1> DEFINE x == txn[w]
           new == NewBooking(x)
           row == [new EXCEPT !.via = "demo_invite"]
<1>1. PICK b \in Bookings :
         /\ IsNextBooking(b) /\ WriteBooking(b, row)
         /\ invite' = [invite EXCEPT ![x.invite].state = "USED", ![x.invite].booking = b]
  BY DEF WriteInvited
<1>2. Writes(w, "create_invited_demo_booking")
  BY DEF WriteInvited
<1>3. /\ "create_invited_demo_booking" \in MakesBooking \ {"reschedule_booking"}
      /\ "create_invited_demo_booking" \notin GivesTutor
      /\ "create_invited_demo_booking" \in Operations
  BY DEF MakesBooking, GivesTutor, Operations
<1>4. x.op = "create_invited_demo_booking" /\ x.stage = "writing" /\ Right(x)
  BY <1>2, <1>3, WriterRight
<1>5. /\ new \in BookingRows
      /\ new.status = "BOOKED" /\ new.lead = x.lead /\ new.slot = x.slot
      /\ new.seat = x.seat /\ new.started = FALSE /\ new.answer = "AWAITING"
      /\ new.tutor = None /\ new.from = None /\ new.redemoFor = None
  BY <1>2, <1>3, NewBookingTyped
<1> HIDE DEF new
<1>6. row \in BookingRows
  BY <1>5 DEF BookingRows
<1>7. booking'[b] = row
  BY <1>1 DEF WriteBooking, Inv, TypeOK
<1>8. Made(w, b)
  BY <1>1, <1>3, <1>4, <1>5, <1>7 DEF Made, IsNextBooking, BookingRows
<1>9. x.invite \in Invites /\ invite[x.invite] \in InviteRows /\ invite \in [Invites -> InviteRows]
  BY <1>4 DEF Right, ShapedInvite, Inv, TypeOK
<1>10. /\ \A i \in Invites \ {x.invite} : invite'[i] = invite[i]
       /\ invite'[x.invite] = [invite[x.invite] EXCEPT !.state = "USED", !.booking = b]
  BY <1>1, <1>9
<1>11. /\ invite'[x.invite].state = "USED" /\ invite'[x.invite].booking = b
       /\ invite'[x.invite].diagnostic = invite[x.invite].diagnostic
       /\ invite'[x.invite] \in InviteRows
  BY <1>9, <1>10 DEF InviteRows
<1>12. invite' \in [Invites -> InviteRows]
  BY <1>1, <1>9, <1>10, <1>11
<1>13. Used(w, x.invite)
  BY <1>4, <1>8, <1>11 DEF Used
<1> HIDE DEF row
<1> QED
  BY <1>1, <1>2, <1>3, <1>6, <1>8, <1>9, <1>10, <1>12, <1>13, RowMade

\* A Re-Demo writes the one row it makes.
LEMMA WriteRedemoIsWritten ==
  ASSUME Inv, NEW w \in Workers, WriteRedemo(w)
  PROVE  TypeOK' /\ WrittenBy(w)
<1> DEFINE x == txn[w]
           new == NewBooking(x)
           row == [new EXCEPT !.via = "redemo", !.tutor = x.tutor, !.link = x.value, !.redemoFor = x.booking]
<1>1. PICK b \in Bookings : IsNextBooking(b) /\ WriteBooking(b, row)
  BY DEF WriteRedemo
<1>2. Writes(w, "schedule_redemo") /\ UNCHANGED invite
  BY DEF WriteRedemo
<1>3. /\ "schedule_redemo" \in MakesBooking \ {"reschedule_booking"}
      /\ "schedule_redemo" \in GivesTutor
      /\ "schedule_redemo" \in Operations
  BY DEF MakesBooking, GivesTutor, Operations
<1>4. x.op = "schedule_redemo" /\ x.stage = "writing" /\ Right(x)
  BY <1>2, <1>3, WriterRight
<1>5. /\ new \in BookingRows
      /\ new.status = "BOOKED" /\ new.lead = x.lead /\ new.slot = x.slot
      /\ new.seat = x.seat /\ new.started = FALSE /\ new.answer = "AWAITING"
      /\ new.from = None
  BY <1>2, <1>3, NewBookingTyped
<1>6. x.tutor \in Tutors /\ x.value \in Links \cup {None} /\ x.booking \in Bookings
  BY <1>4 DEF Right, ShapedRest, ShapedBooking, NamesTutor, WritesLink, GivesTutor
<1> HIDE DEF new
<1>11. x.tutor \in Tutors \cup {None} /\ x.booking \in Bookings \cup {None}
  BY <1>6
<1>12. new \in BookingRows
  BY <1>5
<1>7. row \in BookingRows
  BY <1>6, <1>11, <1>12 DEF BookingRows
<1>8. booking'[b] = row
  BY <1>1 DEF WriteBooking, Inv, TypeOK
<1>9. Made(w, b)
  BY <1>1, <1>3, <1>4, <1>5, <1>8 DEF Made, IsNextBooking, BookingRows
<1>10. invite' \in [Invites -> InviteRows]
  BY <1>2 DEF Inv, TypeOK
<1> HIDE DEF row
<1> QED
  BY <1>1, <1>2, <1>3, <1>7, <1>9, <1>10, RowMade

\* A move writes two rows: the one moved, and its replacement.
LEMMA WriteMoveIsWritten ==
  ASSUME Inv, NEW w \in Workers, WriteMove(w)
  PROVE  TypeOK' /\ WrittenBy(w)
<1> DEFINE x == txn[w]
           new == NewBooking(x)
           request == booking[x.booking].redemoFor
           row == [new EXCEPT !.via = "reschedule", !.from = x.booking, !.tutor = x.tutor,
                              !.link = x.value, !.redemoFor = request]
           old == [booking[x.booking] EXCEPT !.status = "RESCHEDULED"]
<1>1. PICK b \in Bookings :
         /\ IsNextBooking(b)
         /\ booking' = [booking EXCEPT ![x.booking].status = "RESCHEDULED", ![b] = row]
  BY DEF WriteMove
<1>2. Writes(w, "reschedule_booking") /\ UNCHANGED <<closed, invite, active, meetLink, session>>
  BY DEF WriteMove
<1>3. "reschedule_booking" \in MakesBooking /\ "reschedule_booking" \in GivesTutor
      /\ "reschedule_booking" \in Operations /\ "reschedule_booking" \in ChangesRow
  BY DEF MakesBooking, GivesTutor, Operations, ChangesRow
<1>4. /\ x.op = "reschedule_booking" /\ x.stage = "writing" /\ Right(x) /\ x \in Transactions
      /\ now' = now /\ txn' = [txn EXCEPT ![w] = NoTxn]
  BY <1>2, <1>3, WriterRight
<1>5. /\ new \in BookingRows
      /\ new.status = "BOOKED" /\ new.lead = x.lead /\ new.slot = x.slot
      /\ new.seat = x.seat /\ new.started = FALSE /\ new.answer = "AWAITING"
  BY <1>2, <1>3, NewBookingTyped
<1>6. /\ x.value \in Links \cup {None} /\ x.booking \in Bookings /\ Exists(x.booking)
      /\ booking[x.booking].status = "BOOKED" /\ x.tutor \in {None, booking[x.booking].tutor}
  BY <1>3, <1>4 DEF Right, ShapedRest, ShapedBooking, WritesLink, RowChecked
<1>7. booking \in [Bookings -> BookingRows] /\ booking[x.booking] \in BookingRows
  BY <1>6 DEF Inv, TypeOK
<1>8. request \in Bookings \cup {None} /\ x.tutor \in Tutors \cup {None}
  BY <1>6, <1>7 DEF BookingRows
<1> HIDE DEF new, request
<1>9. row \in BookingRows /\ old \in BookingRows
  <2>1. x.booking \in Bookings \cup {None}
    BY <1>6
  <2>2. row \in BookingRows
    BY <1>5, <1>6, <1>8, <2>1 DEF BookingRows
  <2>3. old \in BookingRows
    BY <1>7 DEF BookingRows, Statuses
  <2> QED
    BY <2>2, <2>3
<1>10. b # x.booking /\ ~Exists(b)
  BY <1>1, <1>6 DEF IsNextBooking
<1>11. /\ booking'[b] = row /\ booking'[x.booking] = old
       /\ \A c \in Bookings \ {b, x.booking} : booking'[c] = booking[c]
       /\ booking' \in [Bookings -> BookingRows]
  BY <1>1, <1>6, <1>7, <1>9, <1>10
<1>12. Made(w, b)
  BY <1>3, <1>4, <1>5, <1>10, <1>11 DEF Made, BookingRows, request
<1>13. Changed(w, x.booking)
  BY <1>3, <1>4, <1>6, <1>7, <1>11 DEF Changed, SameBooking, BookingRows
<1>14. \A c \in Bookings : Kept(c) \/ c \in {b, x.booking}
  BY <1>11 DEF Kept, SameBooking
<1>15. \A c \in Bookings : Made(w, c) => c = b
  <2>1. ~Made(w, x.booking)
    BY <1>6 DEF Made
  <2>2. ASSUME NEW c \in Bookings \ {b, x.booking}
        PROVE  ~Made(w, c)
    BY <1>11 DEF Made, Exists
  <2> QED
    BY <2>1, <2>2
<1>16. WrittenBy(w)
  BY <1>2, <1>4, <1>6, <1>12, <1>13, <1>14, <1>15 DEF WrittenBy
<1>17. TypeOK'
  BY <1>2, <1>4, <1>11 DEF Inv, TypeOK
<1> QED
  BY <1>16, <1>17
\* What is written beside the bookings and their invitations.
LEMMA BookingsKeptWritten ==
  ASSUME Inv, NEW w \in Workers,
         now' = now, txn' = [txn EXCEPT ![w] = NoTxn], UNCHANGED invite, TypeOK',
         txn[w].op \notin MakesBooking \cup {"issue_invite"},
         \A b \in Bookings : Kept(b),
         \A t \in Tutors : (t \in active' <=> t \in active) \/ AccountSet(w, t),
         \A c \in Classes : session'[c] = session[c] \/ ClassSaved(w, c)
  PROVE  TypeOK' /\ WrittenBy(w)
<1>1. \A b \in Bookings : ~Made(w, b)
  BY DEF Made
<1>2. WrittenBy(w)
  BY <1>1 DEF WrittenBy, MakesBooking
<1> QED
  BY <1>2

\* A tutor's link writes the links of the tutor's bookings and nothing else of them.
LEMMA WriteLinkIsWritten ==
  ASSUME Inv, NEW w \in Workers, WriteLink(w)
  PROVE  TypeOK' /\ WrittenBy(w)
<1> DEFINE x == txn[w]
           refused == \E b \in x.todo : booking[b].tutor = None
<1>1. /\ Writes(w, "set_tutor_meet_link")
      /\ booking' = IF refused THEN booking
                    ELSE [b \in Bookings |-> IF b \in x.todo THEN [booking[b] EXCEPT !.link = x.value]
                                                             ELSE booking[b]]
      /\ meetLink' = IF refused THEN meetLink ELSE [meetLink EXCEPT ![x.tutor] = x.value]
      /\ UNCHANGED <<closed, invite, active, session>>
  BY DEF WriteLink
<1> HIDE DEF refused
<1>2. /\ "set_tutor_meet_link" \in Operations
      /\ "set_tutor_meet_link" \notin MakesBooking \cup {"issue_invite"}
  BY DEF Operations, MakesBooking
<1>3. /\ Right(x) /\ x.op = "set_tutor_meet_link"
      /\ now' = now /\ txn' = [txn EXCEPT ![w] = NoTxn]
  BY <1>1, <1>2, WriterRight
<1>4. x.value \in Links \cup {None} /\ booking \in [Bookings -> BookingRows]
  BY <1>3 DEF Right, ShapedRest, WritesLink, Inv, TypeOK
<1>5. \A b \in Bookings : [booking[b] EXCEPT !.link = x.value] \in BookingRows
  <2> SUFFICES ASSUME NEW b \in Bookings, NEW row \in BookingRows, NEW link \in Links \cup {None}
               PROVE  [row EXCEPT !.link = link] \in BookingRows
    BY <1>4
  <2> QED
    BY DEF BookingRows
<1>6. booking' \in [Bookings -> BookingRows] /\ meetLink' \in [Tutors -> Links \cup {None}]
  BY <1>1, <1>4, <1>5 DEF Inv, TypeOK
<1>7. TypeOK'
  BY <1>1, <1>3, <1>6 DEF Inv, TypeOK
<1>8. ASSUME NEW b \in Bookings
      PROVE  Kept(b)
  <2>1. booking'[b] = booking[b] \/ booking'[b] = [booking[b] EXCEPT !.link = x.value]
    BY <1>1
  <2> QED
    BY <1>4, <2>1 DEF Kept, SameBooking, BookingRows
<1> QED
  BY <1>1, <1>2, <1>3, <1>7, <1>8, BookingsKeptWritten

\* Closing or opening slots writes no booking, invitation, account or class.
LEMMA WriteSlotsClosedIsWritten ==
  ASSUME Inv, NEW w \in Workers, WriteSlotsClosed(w)
  PROVE  TypeOK' /\ WrittenBy(w)
<1> DEFINE x == txn[w]
<1>1. /\ HasLocks(w, "set_slots_closed", "first")
      /\ closed' = [s \in Slots |-> IF s \in x.todo THEN x.flag ELSE closed[s]]
      /\ now' = now /\ txn' = [txn EXCEPT ![w] = NoTxn]
      /\ UNCHANGED <<booking, invite, active, meetLink, session>>
  BY DEF WriteSlotsClosed
<1>2. /\ "set_slots_closed" \in Operations
      /\ "set_slots_closed" \notin MakesBooking \cup {"issue_invite"}
  BY DEF Operations, MakesBooking
<1>3. x.op = "set_slots_closed" /\ x \in Transactions
  BY <1>1, <1>2, HasLocksRight
<1>4. x.flag \in BOOLEAN
  BY <1>3 DEF Transactions
<1>5. closed' \in [Slots -> BOOLEAN]
  BY <1>1, <1>4 DEF Inv, TypeOK
<1>6. TypeOK'
  BY <1>1, <1>5 DEF Inv, TypeOK
<1>7. \A b \in Bookings : Kept(b)
  BY <1>1 DEF Kept, SameBooking
<1> QED
  BY <1>1, <1>2, <1>3, <1>6, <1>7, BookingsKeptWritten

\* Opening or closing an account writes that account.
LEMMA WriteAccountIsWritten ==
  ASSUME Inv, NEW w \in Workers, WriteAccount(w)
  PROVE  TypeOK' /\ WrittenBy(w)
<1> DEFINE x == txn[w]
<1>1. /\ Writes(w, "set_account_active")
      /\ active' = IF x.flag THEN active \cup {x.tutor} ELSE active \ {x.tutor}
      /\ UNCHANGED <<booking, closed, invite, meetLink, session>>
  BY DEF WriteAccount
<1>2. /\ "set_account_active" \in Operations
      /\ "set_account_active" \notin MakesBooking \cup {"issue_invite"}
  BY DEF Operations, MakesBooking
<1>3. /\ Right(x) /\ x \in Transactions /\ x.op = "set_account_active" /\ x.stage = "writing"
      /\ now' = now /\ txn' = [txn EXCEPT ![w] = NoTxn]
  BY <1>1, <1>2, WriterRight
<1>4. x.tutor \in Tutors /\ x.flag \in BOOLEAN
  BY <1>3 DEF Right, ShapedRest, NamesTutor, Transactions
<1>5. TypeOK'
  BY <1>1, <1>3, <1>4 DEF Inv, TypeOK
<1>6. \A b \in Bookings : Kept(b)
  BY <1>1 DEF Kept, SameBooking
<1>7. \A t \in Tutors : (t \in active' <=> t \in active) \/ AccountSet(w, t)
  BY <1>1, <1>3, <1>4 DEF AccountSet
<1> QED
  BY <1>1, <1>2, <1>3, <1>5, <1>6, <1>7, BookingsKeptWritten

\* A class is saved whole as it was read.
LEMMA WriteSessionIsWritten ==
  ASSUME Inv, NEW w \in Workers, WriteSession(w), txn[w] \in Transactions,
         \/ txn[w].op = "schedule_class" /\ txn[w].stage = "writing"
         \/ txn[w].op \in {"end_class", "edit_class"}
  PROVE  TypeOK' /\ WrittenBy(w)
<1>1. /\ now' = now /\ txn' = [txn EXCEPT ![w] = NoTxn]
      /\ session' = [c \in Classes |-> IF c \in txn[w].todo THEN txn[w].class ELSE session[c]]
      /\ UNCHANGED <<booking, closed, invite, active, meetLink>>
  BY DEF WriteSession
<1>2. txn[w].class \in SessionRows
  BY DEF Transactions
<1>3. TypeOK'
  BY <1>1, <1>2 DEF Inv, TypeOK
<1>4. \A b \in Bookings : Kept(b)
  BY <1>1 DEF Kept, SameBooking
<1>5. \A c \in Classes : session'[c] = session[c] \/ ClassSaved(w, c)
  BY <1>1 DEF ClassSaved
<1>6. txn[w].op \notin MakesBooking \cup {"issue_invite"}
  BY DEF MakesBooking
<1> QED
  BY <1>1, <1>3, <1>4, <1>5, <1>6, BookingsKeptWritten

\* Scheduling a class writes the class.
LEMMA WriteClassIsWritten ==
  ASSUME Inv, NEW w \in Workers, WriteClass(w)
  PROVE  TypeOK' /\ WrittenBy(w)
<1>1. HasLocks(w, "schedule_class", "writing") /\ WriteSession(w)
  BY DEF WriteClass
<1>2. txn[w] \in Transactions /\ txn[w].op = "schedule_class" /\ txn[w].stage = "writing"
  BY ZenonT(60), <1>1, HasLocksRight DEF Operations
<1> QED
  BY <1>1, <1>2, WriteSessionIsWritten

\* A class saved whole, from a row read without a lock, writes that class only.
LEMMA SaveClassIsWritten ==
  ASSUME Inv, NEW w \in Workers, SaveClass(w)
  PROVE  TypeOK' /\ WrittenBy(w)
<1>1. txn[w].op \in {"end_class", "edit_class"} /\ WriteSession(w)
  BY DEF SaveClass
<1>2. txn[w] \in Transactions
  BY <1>1, ConstantsAssumption, BusyRight DEF Operations
<1> QED
  BY <1>1, <1>2, WriteSessionIsWritten

\* A withdrawal writes its invitation.
LEMMA WriteRevokeIsWritten ==
  ASSUME Inv, NEW w \in Workers, WriteRevoke(w)
  PROVE  TypeOK' /\ WrittenBy(w)
<1> DEFINE x == txn[w]
<1>1. /\ Writes(w, "revoke_invite")
      /\ invite' = [invite EXCEPT ![x.invite].state = "REVOKED"]
      /\ UNCHANGED <<booking, closed, active, meetLink, session>>
  BY DEF WriteRevoke
<1>2. "revoke_invite" \in Operations /\ "revoke_invite" \notin MakesBooking \cup {"issue_invite"}
  BY DEF Operations, MakesBooking
<1>3. /\ Right(x) /\ x.op = "revoke_invite" /\ x.stage = "writing"
      /\ now' = now /\ txn' = [txn EXCEPT ![w] = NoTxn]
  BY <1>1, <1>2, WriterRight
<1>4. x.invite \in Invites /\ invite[x.invite] \in InviteRows /\ invite \in [Invites -> InviteRows]
  BY <1>3 DEF Right, ShapedInvite, Inv, TypeOK
<1>5. /\ \A i \in Invites \ {x.invite} : invite'[i] = invite[i]
      /\ invite'[x.invite] = [invite[x.invite] EXCEPT !.state = "REVOKED"]
  BY <1>1, <1>4
<1>6. invite'[x.invite] \in InviteRows /\ invite'[x.invite].state = "REVOKED" /\ SameInvite(x.invite)
  BY <1>4, <1>5 DEF InviteRows, SameInvite
<1>7. TypeOK'
  BY <1>1, <1>3, <1>4, <1>6 DEF Inv, TypeOK
<1>8. \A b \in Bookings : Kept(b) /\ ~Made(w, b)
  BY <1>1, <1>2, <1>3 DEF Kept, SameBooking, Made
<1>9. Revoked(w, x.invite)
  BY <1>3, <1>6 DEF Revoked
<1>10. WrittenBy(w)
  BY <1>1, <1>2, <1>3, <1>5, <1>8, <1>9 DEF WrittenBy, MakesBooking
<1> QED
  BY <1>7, <1>10

\* An invitation's issue writes the new one and those it replaces.
LEMMA WriteIssueIsWritten ==
  ASSUME Inv, NEW w \in Workers, WriteIssue(w)
  PROVE  TypeOK' /\ WrittenBy(w)
<1> DEFINE x == txn[w]
           issued == [NoInvite EXCEPT !.state = "ACTIVE", !.diagnostic = x.booking]
<1>1. PICK new \in Invites :
         /\ IsNextInvite(new)
         /\ invite' = [i \in Invites |-> IF i \in x.todo THEN [invite[i] EXCEPT !.state = "REPLACED"]
                                         ELSE IF i = new THEN issued ELSE invite[i]]
  BY DEF WriteIssue
<1>2. Writes(w, "issue_invite") /\ UNCHANGED <<booking, closed, active, meetLink, session>>
  BY DEF WriteIssue
<1>3. "issue_invite" \in Operations /\ "issue_invite" \notin MakesBooking
  BY DEF Operations, MakesBooking
<1>4. /\ Right(x) /\ x.op = "issue_invite" /\ x.stage = "writing"
      /\ now' = now /\ txn' = [txn EXCEPT ![w] = NoTxn]
  BY <1>2, <1>3, WriterRight
<1>5. /\ x.booking \in Bookings /\ invite \in [Invites -> InviteRows]
      /\ \A i \in x.todo : i \in Invites /\ invite[i].state # "ABSENT"
  BY <1>4 DEF Right, ShapedBooking, ShapedInvite, Inv, TypeOK
<1>6. /\ issued \in InviteRows /\ issued.state = "ACTIVE"
      /\ issued = [NoInvite EXCEPT !.state = "ACTIVE", !.diagnostic = x.booking]
  BY <1>5 DEF NoInvite, InviteRows
<1> HIDE DEF issued
<1>7. new \notin x.todo /\ invite[new] = NoInvite
  BY <1>1, <1>5 DEF IsNextInvite, Inv, RowsRight, InvitesReal
<1>8. \A i \in Invites : [invite[i] EXCEPT !.state = "REPLACED"] \in InviteRows
  <2> SUFFICES ASSUME NEW row \in InviteRows
               PROVE  [row EXCEPT !.state = "REPLACED"] \in InviteRows
    BY <1>5
  <2> QED
    BY DEF InviteRows
<1>9. invite' \in [Invites -> InviteRows]
  BY <1>1, <1>5, <1>6, <1>8
<1>10. TypeOK'
  BY <1>2, <1>4, <1>9 DEF Inv, TypeOK
<1>11. \A b \in Bookings : Kept(b) /\ ~Made(w, b)
  BY <1>2, <1>3, <1>4 DEF Kept, SameBooking, Made
<1>12. ASSUME NEW i \in x.todo
       PROVE  Replaced(w, i)
  <2>1. invite'[i] = [invite[i] EXCEPT !.state = "REPLACED"] /\ invite[i] \in InviteRows
    BY <1>1, <1>5
  <2> QED
    BY <1>4, <2>1 DEF Replaced, SameInvite, InviteRows
<1>13. Issued(w, new)
  BY <1>1, <1>4, <1>6, <1>7 DEF Issued
<1>14. \A i \in Invites : i \notin x.todo /\ i # new => invite'[i] = invite[i]
  BY <1>1
<1>15. ASSUME NEW i \in Invites, Issued(w, i)
       PROVE  i = new
  <2>1. invite[i] = NoInvite /\ invite'[i].state = "ACTIVE" /\ NoInvite.state = "ABSENT"
    BY <1>15 DEF Issued, NoInvite
  <2> QED
    BY <1>5, <1>14, <2>1
<1>16. WrittenBy(w)
  BY <1>2, <1>3, <1>4, <1>11, <1>12, <1>13, <1>14, <1>15 DEF WrittenBy, MakesBooking
<1> QED
  BY <1>10, <1>16
\* Whatever commits.
LEMMA CommitWritten ==
  ASSUME Inv, NEW w \in Workers, Commits(w)
  PROVE  TypeOK' /\ WrittenBy(w)
BY WriteCreateIsWritten, WriteInvitedIsWritten, WriteRedemoIsWritten, WriteRequestIsWritten,
   WriteMoveIsWritten,
   WriteCancelIsWritten, WriteConfirmationIsWritten, WriteAssignIsWritten, WriteUnassignIsWritten,
   WriteStartIsWritten,
   WriteReportIsWritten, WriteLinkIsWritten, WriteSlotsClosedIsWritten, WriteAccountIsWritten,
   WriteClassIsWritten,
   SaveClassIsWritten, WriteIssueIsWritten, WriteRevokeIsWritten DEF Commits

-----------------------------------------------------------------------------
(***************************************************************************)
(* The clock, and everything                                               *)
(***************************************************************************)
\* As time passes fewer bookings are live.
LEMMA TickKeeps ==
  ASSUME Inv, Tick
  PROVE  Inv'
<1>1. /\ now \in Nat /\ now' \in Nat /\ now < now'
      /\ UNCHANGED <<booking, closed, invite, active, meetLink, session, txn>>
  BY ConstantsAssumption DEF Tick, rows, Inv, TypeOK
<1>2. TypeOK' /\ RowsTyped'
  BY <1>1 DEF Inv, TypeOK, RowsTyped
<1>3. \A b : (Exists(b)' <=> Exists(b)) /\ Type(b)' = Type(b) /\ OriginalTutor(b)' = OriginalTutor(b)
  BY <1>1 DEF Exists, Type, OriginalTutor
<1>4. Booked' = Booked /\ Holding' = Holding
  BY <1>1 DEF Booked, Holding
<1>5. \A b \in Bookings : IsLive(b, now)' => IsLive(b, now)
  <2> SUFFICES ASSUME NEW b \in Booked, Ends(booking[b].slot) > now'
               PROVE  Ends(booking[b].slot) > now
    BY <1>1, <1>4 DEF IsLive, Ends
  <2>1. booking[b].slot \in Slots
    BY RowTyped DEF Booked, Exists
  <2>2. Ends(booking[b].slot) \in Nat
    BY <2>1, ConstantsAssumption DEF Ends
  <2> QED
    BY <1>1, <2>2
<1>6. RowsRight'
  <2>1. BookingsReal' /\ InvitesReal' /\ ClassesReal'
    BY <1>1, <1>3 DEF Inv, RowsRight, BookingsReal, InvitesReal, ClassesReal
  <2>2. OneHolderPerSeat' /\ (NoEdits => TutorInOnePlace')
    BY <1>1, <1>4 DEF Inv, RowsRight, OneHolderPerSeat, TutorInOnePlace
  <2>3. LeadInOnePlace'
    <3> SUFFICES ASSUME NEW b \in Booked, NEW c \in Booked, b # c, booking[b].lead = booking[c].lead
                 PROVE  /\ ~Overlap(SlotStart[booking[b].slot], SlotStart[booking[c].slot])
                        /\ Type(b) = Type(c) => ~(IsLive(b, now)' /\ IsLive(c, now)')
      BY <1>1, <1>3, <1>4 DEF LeadInOnePlace
    <3> QED
      BY <1>5 DEF Inv, RowsRight, LeadInOnePlace, Booked
  <2>4. LiveHasActiveTutor'
    BY <1>1, <1>5 DEF Inv, RowsRight, LiveHasActiveTutor
  <2>5. MovedIsReplaced' /\ InviteUsedOnce'
    BY <1>1 DEF Inv, RowsRight, MovedIsReplaced, InviteUsedOnce
  <2>6. OneRedemoPerRequest'
    BY <1>1, <1>3, <1>4 DEF Inv, RowsRight, OneRedemoPerRequest
  <2> QED
    BY <2>1, <2>2, <2>3, <2>4, <2>5, <2>6 DEF RowsRight, NoEdits
<1>7. TransactionsRight'
  <2>1. ASSUME NEW v \in Workers, NEW x, x = txn'[v], x # NoTxn
        PROVE  Right(x)'
    <3>1. NotBy(v)
      BY <1>1 DEF NotBy, Kept, SameBooking
    <3> QED
      BY <1>1, <1>2, <2>1, <3>1, RightStays
  <2> QED
    BY <2>1 DEF TransactionsRight
<1>8. LocksExclusive'
  BY <1>1 DEF Inv, LocksExclusive
<1> QED
  BY <1>2, <1>6, <1>7, <1>8 DEF Inv

\* The expiry of an invitation keeps the invariant: a used one does not expire.
LEMMA ExpireInviteKeeps ==
  ASSUME Inv, NEW i \in Invites, ExpireInvite(i)
  PROVE  Inv'
<1>1. /\ invite[i].state = "ACTIVE" /\ invite' = [invite EXCEPT ![i].state = "EXPIRED"]
      /\ UNCHANGED <<now, booking, closed, active, meetLink, session, txn>>
  BY DEF ExpireInvite
<1>2. invite \in [Invites -> InviteRows] /\ invite[i] \in InviteRows
  BY DEF Inv, TypeOK
<1>3. /\ \A j \in Invites \ {i} : invite'[j] = invite[j]
      /\ invite'[i] = [invite[i] EXCEPT !.state = "EXPIRED"]
  BY <1>1, <1>2
<1>4. invite'[i] \in InviteRows /\ Expired(i)
  BY <1>1, <1>2, <1>3 DEF InviteRows, Expired, SameInvite
<1>5. TypeOK' /\ RowsTyped'
  BY <1>1, <1>2, <1>4 DEF Inv, TypeOK, RowsTyped
<1>6. \A b : (Exists(b)' <=> Exists(b)) /\ Type(b)' = Type(b) /\ OriginalTutor(b)' = OriginalTutor(b)
  BY <1>1 DEF Exists, Type, OriginalTutor
<1>7. Booked' = Booked /\ Holding' = Holding
  BY <1>1 DEF Booked, Holding
<1>8. \A b, at : IsLive(b, at)' <=> IsLive(b, at)
  BY <1>1, <1>7 DEF IsLive
<1>9. RowsRight'
  <2>1. BookingsReal' /\ ClassesReal'
    BY <1>1, <1>6 DEF Inv, RowsRight, BookingsReal, ClassesReal
  <2>2. OneHolderPerSeat' /\ (NoEdits => TutorInOnePlace')
    BY <1>1, <1>7 DEF Inv, RowsRight, OneHolderPerSeat, TutorInOnePlace
  <2>3. LeadInOnePlace' /\ LiveHasActiveTutor'
    BY <1>1, <1>6, <1>7, <1>8 DEF Inv, RowsRight, LeadInOnePlace, LiveHasActiveTutor
  <2>4. MovedIsReplaced'
    BY <1>1 DEF Inv, RowsRight, MovedIsReplaced
  <2>5. OneRedemoPerRequest'
    BY <1>1, <1>6, <1>7 DEF Inv, RowsRight, OneRedemoPerRequest
  <2>6. InvitesReal'
    <3>1. invite[i] # NoInvite
      BY <1>1 DEF NoInvite
    <3> QED
      BY <1>1, <1>3, <1>4, <1>6, <3>1 DEF Inv, RowsRight, InvitesReal, Expired, SameInvite
  <2>7. InviteUsedOnce'
    <3>1. \A j \in Invites : /\ invite'[j].booking = invite[j].booking
                             /\ invite'[j].diagnostic = invite[j].diagnostic
                             /\ invite'[j].state = "USED" <=> invite[j].state = "USED"
                             /\ invite'[j].state \in {"ACTIVE", "EXPIRED"} <=> invite[j].state \in {"ACTIVE", "EXPIRED"}
      BY <1>1, <1>3, <1>4 DEF Expired, SameInvite
    <3>2. {j \in Invites : invite'[j].state = "USED"} = {j \in Invites : invite[j].state = "USED"}
      BY <3>1
    <3>3. /\ Cardinality({b \in Bookings : booking[b].via = "demo_invite"})
             = Cardinality({j \in Invites : invite[j].state = "USED"})
          /\ \A j, k \in Invites : j # k =>
                /\ invite[j].booking = invite[k].booking => invite[j].booking = None
                /\ {invite[j].state, invite[k].state} \subseteq {"ACTIVE", "EXPIRED"} =>
                      invite[j].diagnostic # invite[k].diagnostic
      BY DEF Inv, RowsRight, InviteUsedOnce
    <3>4. ASSUME NEW j \in Invites, NEW k \in Invites, j # k
          PROVE  /\ invite'[j].booking = invite'[k].booking => invite'[j].booking = None
                 /\ {invite'[j].state, invite'[k].state} \subseteq {"ACTIVE", "EXPIRED"} =>
                       invite'[j].diagnostic # invite'[k].diagnostic
      BY <3>1, <3>3, <3>4
    <3>5. Cardinality({b \in Bookings : booking'[b].via = "demo_invite"})
            = Cardinality({j \in Invites : invite'[j].state = "USED"})
      BY <1>1, <3>2, <3>3
    <3> QED
      BY <3>4, <3>5 DEF InviteUsedOnce
  <2> QED
    BY <2>1, <2>2, <2>3, <2>4, <2>5, <2>6, <2>7 DEF RowsRight, NoEdits
<1>10. TransactionsRight'
  <2>1. ASSUME NEW v \in Workers, NEW x, x = txn'[v], x # NoTxn
        PROVE  Right(x)'
    <3>1. now <= now'
      BY <1>1 DEF Inv, TypeOK
    <3>2. NotBy(v)
      BY <1>1, <1>3, <1>4, <3>1 DEF NotBy, Kept, SameBooking
    <3> QED
      BY <1>1, <1>5, <2>1, <3>2, RightStays
  <2> QED
    BY <2>1 DEF TransactionsRight
<1>11. LocksExclusive'
  BY <1>1 DEF Inv, LocksExclusive
<1> QED
  BY <1>5, <1>9, <1>10, <1>11 DEF Inv

\* What an instance begins with is right.
LEMMA BeginsRight ==
  ASSUME Init
  PROVE  Inv
<1>1. PICK start \in AtStart :
         booking = start.booking /\ invite = start.invite /\ session = start.session
  BY DEF Init
<1>2. /\ now \in Moments /\ closed = [s \in Slots |-> FALSE] /\ active = Tutors
      /\ meetLink = [t \in Tutors |-> None] /\ txn = [w \in Workers |-> NoTxn]
  BY DEF Init
<1>3. /\ booking \in [Bookings -> BookingRows] /\ invite \in [Invites -> InviteRows]
      /\ session \in [Classes -> SessionRows]
  BY <1>1, ConstantsAssumption
<1>4. TypeOK
  BY <1>2, <1>3, ConstantsAssumption DEF TypeOK
<1>5. RealRows(start)
  BY <1>1, StartAssumption
<1>6. RowsRight
  <2>1. /\ \A b \in Bookings : booking[b] = Blank \/ (Exists(b) /\ RealRow(booking[b], booking))
        /\ MovedIsReplaced
    BY <1>1, <1>5 DEF RealRows, Exists, MovedIsReplaced
  <2>2. BookingsReal
    BY <2>1 DEF BookingsReal, Exists, Blank
  <2>3. /\ \A b \in Holding :
              /\ booking[b].seat \in 1 .. Capacity[booking[b].slot]
              /\ booking[b].redemoFor # None /\ booking[b].tutor # None =>
                    booking[b].tutor # booking[booking[b].redemoFor].tutor
        /\ \A b, c \in Holding : b # c =>
              /\ booking[b].slot = booking[c].slot => booking[b].seat # booking[c].seat
              /\ booking[b].redemoFor = booking[c].redemoFor => booking[b].redemoFor = None
              /\ booking[b].tutor = booking[c].tutor /\ booking[b].tutor # None =>
                    ~Overlap(SlotStart[booking[b].slot], SlotStart[booking[c].slot])
              /\ booking[b].lead = booking[c].lead /\ b \in Booked /\ c \in Booked =>
                    /\ ~Overlap(SlotStart[booking[b].slot], SlotStart[booking[c].slot])
                    /\ Type(b) = Type(c) =>
                          \A time \in Moments : ~(Ends(booking[b].slot) > time /\ Ends(booking[c].slot) > time)
    BY <1>1, <1>5 DEF RealRows, Holding, Booked, Type, Ends
  <2>4. OneHolderPerSeat
    BY <2>3 DEF OneHolderPerSeat
  <2>5. OneRedemoPerRequest
    BY <2>3 DEF OneRedemoPerRequest, OriginalTutor
  <2>6. Booked \subseteq Holding
    BY DEF Booked, Holding, HOLDS_SEAT
  <2>7. LeadInOnePlace
    BY <1>2, <2>3, <2>6 DEF LeadInOnePlace, IsLive
  <2>8. LiveHasActiveTutor
    BY <1>2, <1>3 DEF LiveHasActiveTutor, BookingRows
  <2>9. ClassesReal /\ \A c \in Classes : session[c].status = "SCHEDULED" =>
          \A b \in Holding : booking[b].tutor = session[c].tutor =>
              ~Overlap(session[c].start, SlotStart[booking[b].slot])
    BY <1>1, <1>5 DEF RealRows, ClassesReal, Holding
  <2>10. TutorInOnePlace
    BY <2>3, <2>9 DEF TutorInOnePlace
  <2>11. InvitesReal /\ InviteUsedOnce
    BY <1>1, <1>5 DEF RealRows, InvitesReal, InviteUsedOnce, Exists
  <2> QED
    BY <2>1, <2>2, <2>4, <2>5, <2>7, <2>8, <2>9, <2>10, <2>11 DEF RowsRight
<1>7. LocksExclusive
  BY <1>2 DEF LocksExclusive, NoTxn
<1>8. TransactionsRight
  BY <1>2 DEF TransactionsRight
<1> QED
  BY <1>4, <1>6, <1>7, <1>8 DEF Inv

\* Every step keeps what is right.
LEMMA NextKeeps ==
  ASSUME Inv, Next
  PROVE  Inv'
<1>1. ASSUME NEW w \in Workers, BeginsBooking(w)
      PROVE  Inv'
  BY <1>1, CreateBookingKeeps, CreateInvitedDemoBookingKeeps, ScheduleRedemoKeeps DEF BeginsBooking
<1>2. ASSUME NEW w \in Workers, BeginsChange(w)
      PROVE  Inv'
  BY <1>2, RequestRedemoKeeps, CancelBookingKeeps, UnassignTutorKeeps, IssueInviteKeeps,
     RescheduleBookingKeeps, RecordParentConfirmationKeeps, AssignTutorKeeps, StartBookingKeeps,
     SubmitReportKeeps DEF BeginsChange
<1>3. ASSUME NEW w \in Workers, BeginsOther(w)
      PROVE  Inv'
  BY <1>3, SetSlotsClosedKeeps, SetTutorMeetLinkKeeps, SetAccountActiveKeeps, ScheduleClassKeeps,
     EndClassKeeps, EditClassKeeps, RevokeInviteKeeps DEF BeginsOther
<1>4. ASSUME NEW w \in Workers, Checks(w)
      PROVE  Inv'
  BY <1>4, CheckCreateKeeps, CheckInvitedKeeps, CheckRedemoRequestKeeps, CheckRedemoTutorKeeps,
     CheckRequestKeeps, CheckMoveKeeps, CheckMoveTutorKeeps, CheckCancelKeeps,
     CheckConfirmationKeeps,
     CheckAssignableKeeps, CheckAssignKeeps, CheckUnassignKeeps, CheckStartKeeps, CheckReportKeeps,
     CheckLinkKeeps, CheckAccountKeeps, CheckClassKeeps, CheckIssueKeeps, CheckIssueOpenKeeps,
     CheckRevokeKeeps DEF Checks
<1>5. ASSUME NEW w \in Workers, Commits(w)
      PROVE  Inv'
  BY <1>5, CommitWritten, CommitKeeps
<1> QED
  BY <1>1, <1>2, <1>3, <1>4, <1>5, TakeLockKeeps, LockTimesOutKeeps, TickKeeps, ExpireInviteKeeps
     DEF Next

\* So does a step of nothing.
LEMMA StutterKeeps ==
  ASSUME Inv, UNCHANGED vars
  PROVE  Inv'
<1>1. UNCHANGED <<now, booking, closed, invite, active, meetLink, session, txn>>
  BY DEF vars, rows
<1>2. TypeOK' /\ LocksExclusive'
  BY <1>1 DEF Inv, TypeOK, LocksExclusive
<1>3. RowsRight' /\ TransactionsRight'
  BY <1>1, UnwrittenStays DEF Inv, TransactionsRight
<1> QED
  BY <1>2, <1>3 DEF Inv
-----------------------------------------------------------------------------
(***************************************************************************)
(* What always holds                                                       *)
(***************************************************************************)
\* The inductive invariant.
THEOREM Invariant == Spec => []Inv
<1>1. Init => Inv
  BY BeginsRight
<1>2. Inv /\ [Next]_vars => Inv'
  BY NextKeeps, StutterKeeps
<1> QED
  BY <1>1, <1>2, PTL DEF Spec

\* Every variable holds what its rows may hold.
THEOREM AlwaysTyped == Spec => []TypeOK
<1>1. Inv => TypeOK
  BY DEF Inv
<1> QED
  BY <1>1, Invariant, PTL

\* No seat is had twice, and no slot holds more bookings than it has seats, whatever is booked,
\* moved, cancelled and closed at once.
THEOREM SeatsHeldOnce == Spec => []OneHolderPerSeat
<1>1. Inv => OneHolderPerSeat
  BY DEF Inv, RowsRight
<1> QED
  BY <1>1, Invariant, PTL

\* No child has two live bookings of a type, or is in two places at once.
THEOREM LeadsInOnePlace == Spec => []LeadInOnePlace
<1>1. Inv => LeadInOnePlace
  BY DEF Inv, RowsRight
<1> QED
  BY <1>1, Invariant, PTL

\* No tutor is in two places at once, bookings of both types and classes together, where no class
\* is saved whole as it was read before: the one writer that goes without the tutor's lock.
THEOREM TutorsInOnePlace ==
  ASSUME "edit_class" \notin Ops
  PROVE  Spec => []TutorInOnePlace
<1>1. Inv => TutorInOnePlace
  BY DEF Inv, RowsRight, NoEdits
<1> QED
  BY <1>1, Invariant, PTL

\* A booking that is to be taught is never left on an account that was deactivated.
THEOREM LiveHaveActiveTutors == Spec => []LiveHasActiveTutor
<1>1. Inv => LiveHasActiveTutor
  BY DEF Inv, RowsRight
<1> QED
  BY <1>1, Invariant, PTL

\* A booking that was moved has one replacement, and no other booking has any.
THEOREM MovedAreReplaced == Spec => []MovedIsReplaced
<1>1. Inv => MovedIsReplaced
  BY DEF Inv, RowsRight
<1> QED
  BY <1>1, Invariant, PTL

\* An invitation books one Demo, and a Diagnostic has one open invitation at most.
THEOREM InvitesUsedOnce == Spec => []InviteUsedOnce
<1>1. Inv => InviteUsedOnce
  BY DEF Inv, RowsRight
<1> QED
  BY <1>1, Invariant, PTL

\* A request has one Re-Demo at a time, and never by the tutor of the Demo it repeats.
THEOREM OneRedemoEach == Spec => []OneRedemoPerRequest
<1>1. Inv => OneRedemoPerRequest
  BY DEF Inv, RowsRight
<1> QED
  BY <1>1, Invariant, PTL

\* Only commits write bookings and accounts, and only the clock moves.
LEMMA OnlyCommitsWrite ==
  ASSUME Next
  PROVE  (\E w \in Workers : Commits(w)) \/ Tick \/ UNCHANGED <<now, active, booking>>
<1>1. ASSUME NEW w \in Workers, NEW x, Begins(w, x)
      PROVE  UNCHANGED <<now, active, booking>>
  BY <1>1 DEF Begins, rows
<1>2. ASSUME NEW w \in Workers, BeginsBooking(w)
      PROVE  UNCHANGED <<now, active, booking>>
  BY <1>1, <1>2 DEF BeginsBooking, CreateBooking, CreateInvitedDemoBooking, ScheduleRedemo
<1>3. ASSUME NEW w \in Workers, BeginsChange(w)
      PROVE  UNCHANGED <<now, active, booking>>
  BY <1>1, <1>3 DEF BeginsChange, RequestRedemo, CancelBooking, UnassignTutor, IssueInvite,
     RescheduleBooking, RecordParentConfirmation, AssignTutor, StartBooking, SubmitReport
<1>4. ASSUME NEW w \in Workers, BeginsOther(w)
      PROVE  UNCHANGED <<now, active, booking>>
  BY <1>1, <1>4 DEF BeginsOther, SetSlotsClosed, SetTutorMeetLink, SetAccountActive, ScheduleClass,
     EndClass, EditClass, RevokeInvite
<1>5. ASSUME NEW w \in Workers, Checks(w)
      PROVE  UNCHANGED <<now, active, booking>>
  BY <1>5
     DEF Checks, Decides, rows, CheckCreate, CheckInvited, CheckRedemoRequest, CheckRedemoTutor,
     CheckRequest, CheckMove, CheckMoveTutor, CheckCancel, CheckConfirmation, CheckAssignable,
     CheckAssign, CheckUnassign, CheckStart, CheckReport, CheckLink, CheckAccount, CheckClass,
     CheckIssue, CheckIssueOpen, CheckRevoke
<1> QED
  BY <1>2, <1>3, <1>4, <1>5 DEF Next, TakeLock, LockTimesOut, ExpireInvite, rows

\* Once its tutor has started it a booking keeps its tutor, and is neither moved nor cancelled by a
\* parent's Not Confirmed, however early the start.
THEOREM StartedAreKept == Spec => StartedStays
<1> DEFINE Keeping ==
             \A b \in Bookings :
                 booking[b].started =>
                     /\ booking'[b].tutor = booking[b].tutor /\ booking'[b].started
                     /\ booking'[b].status # "RESCHEDULED"
                     /\ booking'[b].answer # "NOT_CONFIRMED"
<1>1. ASSUME Inv, Inv', NEW b \in Bookings, booking[b].started,
             Kept(b) \/ \E w \in Workers : Made(w, b) \/ Changed(w, b)
      PROVE  /\ booking'[b].tutor = booking[b].tutor /\ booking'[b].started
             /\ booking'[b].status # "RESCHEDULED"
             /\ booking'[b].answer # "NOT_CONFIRMED"
  <2>1. Exists(b)
    BY <1>1 DEF Inv, RowsRight, BookingsReal
  <2>2. RowsTyped'
    BY <1>1, TypedRows DEF Inv, TypeOK, RowsTyped
  <2>3. Exists(b)'
    BY <1>1, <2>1, <2>2, RowsStay
  <2>4. RealRow(booking'[b], booking')
    BY <1>1, <2>3 DEF Inv, RowsRight, BookingsReal, RealRow, Exists
  <2>5. booking'[b].tutor = booking[b].tutor /\ booking'[b].started
    <3>1. CASE Kept(b)
      BY <1>1, <3>1 DEF Kept
    <3>2. ASSUME NEW w \in Workers, Changed(w, b)
          PROVE  booking'[b].tutor = booking[b].tutor /\ booking'[b].started
      <4>1. Right(txn[w]) /\ txn[w].op \in ChangesRow /\ txn[w].stage = "writing" /\ txn[w].booking = b
        BY <1>1, <3>2, ChangerHolds DEF Changed
      <4>2. txn[w].op \notin BeforeStart
        BY <1>1, <4>1 DEF Right, RowChecked
      <4> QED
        BY <1>1, <3>2, <4>2 DEF Changed, BeforeStart
    <3> QED
      BY <1>1, <2>1, <3>1, <3>2 DEF Made
  <2> QED
    BY <2>4, <2>5 DEF RealRow
<1>2. Inv /\ Inv' /\ Next => Keeping
  <2>1. ASSUME Inv, Inv', UNCHANGED booking
        PROVE  Keeping
    BY <1>1, <2>1 DEF Kept, SameBooking
  <2>2. ASSUME Inv, Inv', NEW w \in Workers, Commits(w)
        PROVE  Keeping
    <3>1. WrittenBy(w)
      BY <2>2, CommitWritten
    <3> QED
      BY <1>1, <2>2, <3>1 DEF WrittenBy
  <2> QED
    BY <2>1, <2>2, OnlyCommitsWrite DEF Tick, rows
<1>3. Inv /\ Inv' /\ [Next]_vars => [Keeping]_vars
  BY <1>2
<1>4. StartedStays <=> [][Keeping]_vars
  BY DEF StartedStays
<1> QED
  BY <1>3, <1>4, Invariant, PTL DEF Spec

-----------------------------------------------------------------------------
(***************************************************************************)
(* What the appointment book promises                                      *)
(***************************************************************************)
\* An entry is read off its row.
LEMMA EntryFacts ==
  ASSUME Inv
  PROVE  /\ \A b \in Bookings :
               /\ Entries[b].status = booking[b].status /\ Entries[b].child = booking[b].lead
               /\ Entries[b].slot = booking[b].slot /\ Entries[b].seat = booking[b].seat
               /\ Entries[b].tutor = booking[b].tutor /\ Entries[b].started = booking[b].started
               /\ Entries[b].answer = booking[b].answer /\ Entries[b].redemoFor = booking[b].redemoFor
         /\ Book!Held = Holding /\ Book!Booked = Booked
         /\ \A b \in Bookings : Book!Open(b) <=> b \in Booked /\ ~booking[b].started
         /\ \A b \in Bookings : Book!ToCome(b) <=> IsLive(b, now)
         /\ \A b \in Bookings : Book!FirstTutor(b) = OriginalTutor(b)
<1>1. \A b \in Bookings :
         /\ Entries[b].status = booking[b].status /\ Entries[b].child = booking[b].lead
         /\ Entries[b].slot = booking[b].slot /\ Entries[b].seat = booking[b].seat
         /\ Entries[b].tutor = booking[b].tutor /\ Entries[b].started = booking[b].started
         /\ Entries[b].answer = booking[b].answer /\ Entries[b].redemoFor = booking[b].redemoFor
  BY DEF Entries, EntryOf
<1>2. Book!Held = Holding
  BY <1>1 DEF Book!Held, Holding, HOLDS_SEAT, CONDUCTED
<1>3. Book!Booked = Booked
  BY <1>1, <1>2 DEF Book!Booked, Booked, Holding, HOLDS_SEAT
<1>4. \A b \in Bookings : Book!Open(b) <=> b \in Booked /\ ~booking[b].started
  BY <1>1, <1>3 DEF Book!Open
<1>5. \A b \in Bookings : Book!ToCome(b) <=> IsLive(b, now)
  BY <1>1, <1>3 DEF Book!ToCome, IsLive, Ends
<1>6. \A b \in Bookings : Book!FirstTutor(b) = OriginalTutor(b)
  <2>1. \A b \in Bookings : booking[b].redemoFor \in Bookings \cup {None}
    BY DEF Inv, TypeOK, BookingRows
  <2> QED
    BY <1>1, <2>1 DEF Book!FirstTutor, OriginalTutor
<1> QED
  BY <1>1, <1>2, <1>3, <1>4, <1>5, <1>6

\* A seat that is free of bookings is free in the book.
LEMMA SeatInBook ==
  ASSUME Inv, NEW s \in Slots, NEW n \in FreeSeats(s)
  PROVE  Book!SeatFree(s, n)
BY EntryFacts DEF Book!SeatFree, FreeSeats, Holding

\* A child found free is free in the book, later too.
LEMMA ChildInBook ==
  ASSUME Inv, NEW l \in Leads, NEW s \in Slots, NEW at \in Nat, at <= now, NEW except,
         LiveBookings(l, SlotType[s], at) \subseteq except, LeadCommitments(l, SlotStart[s]) \subseteq except
  PROVE  Book!ChildFree(l, s, except)
<1> SUFFICES ASSUME NEW b \in Booked \ except, booking[b].lead = l
             PROVE  /\ ~Book!Clash(booking[b].slot, s)
                    /\ ~(SlotType[booking[b].slot] = SlotType[s] /\ IsLive(b, now))
  BY EntryFacts DEF Book!ChildFree, Booked
<1>1. b \in Bookings /\ booking[b].slot \in Slots
  BY RowTyped DEF Booked, Exists
<1>2. ~Overlap(SlotStart[booking[b].slot], SlotStart[s])
  BY <1>1 DEF LeadCommitments
<1>3. Ends(booking[b].slot) \in Nat /\ now \in Nat
  BY <1>1, ConstantsAssumption DEF Ends, Inv, TypeOK
<1>4. IsLive(b, now) => IsLive(b, at)
  BY <1>3 DEF IsLive
<1>5. SlotType[booking[b].slot] = SlotType[s] => ~IsLive(b, at)
  BY <1>1 DEF LiveBookings, Type
<1> QED
  BY <1>2, <1>4, <1>5 DEF Book!Clash, Overlap

\* A tutor found free is free in the book.
LEMMA TutorInBook ==
  ASSUME Inv, NEW t \in active, NEW s \in Slots, NEW except, NoBookingThen(t, SlotStart[s], except)
  PROVE  Book!TutorFree(t, s, except)
BY EntryFacts DEF Book!TutorFree, Book!Clash, NoBookingThen, Overlap, Holding

\* The entries are functions of the rows.
LEMMA EntryWritten ==
  ASSUME Inv, NEW b \in Bookings, NEW row, booking' = [booking EXCEPT ![b] = row]
  PROVE  Entries' = [Entries EXCEPT ![b] = EntryOf(row)]
BY DEF Entries, Inv, TypeOK

\* What is made has a new entry.
LEMMA EntryMade ==
  ASSUME NEW row, row.status = "BOOKED", row.started = FALSE, row.answer = "AWAITING"
  PROVE  EntryOf(row) = Book!Card(row.lead, row.slot, row.seat, row.tutor, row.from, row.redemoFor)
BY DEF EntryOf, Book!Card

\* A transaction that makes a booking has its seat and its child.
LEMMA MakerInBook ==
  ASSUME Inv, NEW w \in Workers, NEW op \in MakesBooking, Writes(w, op)
  PROVE  LET x == txn[w] IN
         /\ x \in Transactions /\ Right(x) /\ x.op = op /\ x.stage = "writing"
         /\ now' = now
         /\ x.lead \in Leads /\ x.slot \in Slots /\ x.seat \in 1 .. Capacity[x.slot]
         /\ Book!SeatFree(x.slot, x.seat) /\ Book!ChildFree(x.lead, x.slot, Moved(x))
<1> DEFINE x == txn[w]
<1>1. op \in Operations
  BY DEF Operations
<1>2. x \in Transactions /\ Right(x) /\ x.op = op /\ x.stage = "writing" /\ now' = now
  BY <1>1, WriterRight
<1> HIDE DEF x
<1>3. /\ x.lead \in Leads /\ x.slot \in Slots
      /\ x.seat \in FreeSeats(x.slot)
      /\ LiveBookings(x.lead, SlotType[x.slot], x.at) \subseteq Moved(x)
      /\ LeadCommitments(x.lead, SlotStart[x.slot]) \subseteq Moved(x)
  BY <1>2 DEF Right, ShapedBooking, SeatChecked
<1>4. x.at \in Nat /\ x.at <= now
  BY <1>2 DEF Right, ShapedRest, Transactions
<1>5. Book!SeatFree(x.slot, x.seat) /\ Book!ChildFree(x.lead, x.slot, Moved(x))
  BY <1>3, <1>4, SeatInBook, ChildInBook
<1>6. x.seat \in 1 .. Capacity[x.slot]
  BY <1>3 DEF FreeSeats
<1> QED
  BY <1>2, <1>3, <1>5, <1>6 DEF x

\* One with no tutor is made in the book as it is in the rows.
LEMMA MadeInBook ==
  ASSUME Inv, NEW w \in Workers, NEW op \in MakesBooking \ GivesTutor, Writes(w, op),
         NEW b \in Bookings, ~Exists(b), NEW via \in {"public_booking", "demo_invite"},
         WriteBooking(b, [NewBooking(txn[w]) EXCEPT !.via = via])
  PROVE  Book!NextOf(b)
<1> DEFINE x == txn[w]
           row == [NewBooking(x) EXCEPT !.via = via]
<1>1. /\ x.op = op /\ now' = now /\ x.lead \in Leads /\ x.slot \in Slots /\ x.seat \in 1 .. Capacity[x.slot]
      /\ Book!SeatFree(x.slot, x.seat) /\ Book!ChildFree(x.lead, x.slot, Moved(x))
  BY MakerInBook
<1>2. Moved(x) = {}
  BY <1>1 DEF Moved, GivesTutor
<1>3. /\ NewBooking(x) \in BookingRows
      /\ NewBooking(x).status = "BOOKED" /\ NewBooking(x).lead = x.lead /\ NewBooking(x).slot = x.slot
      /\ NewBooking(x).seat = x.seat /\ NewBooking(x).started = FALSE /\ NewBooking(x).answer = "AWAITING"
      /\ NewBooking(x).tutor = None /\ NewBooking(x).from = None /\ NewBooking(x).redemoFor = None
  BY NewBookingTyped
<1>4. /\ row.status = "BOOKED" /\ row.lead = x.lead /\ row.slot = x.slot /\ row.seat = x.seat
      /\ row.started = FALSE /\ row.answer = "AWAITING"
      /\ row.tutor = None /\ row.from = None /\ row.redemoFor = None
  BY <1>3 DEF BookingRows
<1>5. booking' = [booking EXCEPT ![b] = row] /\ active' = active
  BY DEF WriteBooking
<1> HIDE DEF row
<1>6. Entries' = [Entries EXCEPT ![b] = Book!Card(x.lead, x.slot, x.seat, None, None, None)]
  <2>1. EntryOf(row) = Book!Card(row.lead, row.slot, row.seat, row.tutor, row.from, row.redemoFor)
    BY <1>4, EntryMade
  <2>2. EntryOf(row) = Book!Card(x.lead, x.slot, x.seat, None, None, None)
    BY <1>4, <2>1
  <2>3. Entries' = [Entries EXCEPT ![b] = EntryOf(row)]
    BY <1>5, EntryWritten
  <2> QED
    BY <2>2, <2>3
<1>7. Entries[b].status = "ABSENT"
  BY EntryFacts DEF Exists
<1>8. Book!Make(b, x.lead, x.slot, x.seat)
  BY <1>1, <1>2, <1>5, <1>6, <1>7 DEF Book!Make, Book!Writes
<1> QED
  BY <1>1, <1>8 DEF Book!NextOf

\* A parent's booking is made.
LEMMA CreateInBook ==
  ASSUME Inv, NEW w \in Workers, WriteCreate(w)
  PROVE  \E b \in Bookings : Book!NextOf(b)
<1>1. "create_booking" \in MakesBooking \ GivesTutor
  BY DEF MakesBooking, GivesTutor
<1> QED
  BY <1>1, MadeInBook DEF WriteCreate, IsNextBooking

\* So is an invited Demo.
LEMMA InvitedInBook ==
  ASSUME Inv, NEW w \in Workers, WriteInvited(w)
  PROVE  \E b \in Bookings : Book!NextOf(b)
<1>1. "create_invited_demo_booking" \in MakesBooking \ GivesTutor
  BY DEF MakesBooking, GivesTutor
<1> QED
  BY <1>1, MadeInBook DEF WriteInvited, IsNextBooking

\* A Re-Demo is one in the book: of the same child, by another tutor, the only one.
LEMMA RedemoInBook ==
  ASSUME Inv, NEW w \in Workers, WriteRedemo(w)
  PROVE  \E b \in Bookings : Book!NextOf(b)
<1> DEFINE x == txn[w]
           row == [NewBooking(x) EXCEPT !.via = "redemo", !.tutor = x.tutor, !.link = x.value,
                                        !.redemoFor = x.booking]
<1>1. PICK b \in Bookings : IsNextBooking(b) /\ WriteBooking(b, row)
  BY DEF WriteRedemo
<1>2. Writes(w, "schedule_redemo") /\ "schedule_redemo" \in MakesBooking /\ "schedule_redemo" \in GivesTutor
  BY DEF WriteRedemo, MakesBooking, GivesTutor
<1>3. /\ x.op = "schedule_redemo" /\ x.stage = "writing" /\ Right(x)
      /\ now' = now /\ x.lead \in Leads /\ x.slot \in Slots /\ x.seat \in 1 .. Capacity[x.slot]
      /\ Book!SeatFree(x.slot, x.seat) /\ Book!ChildFree(x.lead, x.slot, Moved(x))
  BY <1>2, MakerInBook
<1>4. Moved(x) = {}
  BY <1>3 DEF Moved
<1>5. /\ x.booking \in Bookings /\ booking[x.booking].status = "REDEMO_REQUIRED"
      /\ x.lead = booking[x.booking].lead /\ SlotType[x.slot] = "DEMO"
      /\ x.tutor \in Tutors /\ x.tutor # None
  BY <1>3, ConstantsAssumption DEF Right, ShapedBooking, ShapedRest, NamesTutor
<1>6. RedemoOf(x.booking) = {} /\ x.tutor # booking[x.booking].tutor
  BY <1>3 DEF Right, RedemoChecked
<1>7. x.tutor \in active /\ NoBookingThen(x.tutor, SlotStart[x.slot], {})
  BY <1>2, <1>3, <1>5 DEF Right, TutorChecked, StartOf, LeftOut
<1>8. Book!TutorFree(x.tutor, x.slot, {})
  BY <1>3, <1>7, TutorInBook
<1>9. /\ NewBooking(x) \in BookingRows
      /\ NewBooking(x).status = "BOOKED" /\ NewBooking(x).lead = x.lead /\ NewBooking(x).slot = x.slot
      /\ NewBooking(x).seat = x.seat /\ NewBooking(x).started = FALSE /\ NewBooking(x).answer = "AWAITING"
      /\ NewBooking(x).from = None
  BY <1>2, NewBookingTyped
<1>10. /\ row.status = "BOOKED" /\ row.lead = x.lead /\ row.slot = x.slot /\ row.seat = x.seat
       /\ row.started = FALSE /\ row.answer = "AWAITING"
       /\ row.tutor = x.tutor /\ row.from = None /\ row.redemoFor = x.booking
  BY <1>9 DEF BookingRows
<1>11. booking' = [booking EXCEPT ![b] = row] /\ active' = active
  BY <1>1 DEF WriteBooking
<1> HIDE DEF row
<1>12. Entries' = [Entries EXCEPT ![b] = Book!Card(x.lead, x.slot, x.seat, x.tutor, None, x.booking)]
  <2>1. EntryOf(row) = Book!Card(row.lead, row.slot, row.seat, row.tutor, row.from, row.redemoFor)
    BY <1>10, EntryMade
  <2>2. EntryOf(row) = Book!Card(x.lead, x.slot, x.seat, x.tutor, None, x.booking)
    BY <1>10, <2>1
  <2>3. Entries' = [Entries EXCEPT ![b] = EntryOf(row)]
    BY <1>11, EntryWritten
  <2> QED
    BY <2>2, <2>3
<1>13. /\ Entries[b].status = "ABSENT"
       /\ Entries[x.booking].status = "REDEMO_REQUIRED" /\ Entries[x.booking].child = x.lead
       /\ x.tutor # Entries[x.booking].tutor
  BY <1>1, <1>5, <1>6, EntryFacts DEF IsNextBooking, Exists
<1>14. \A c \in Book!Held : Entries[c].redemoFor # x.booking
  BY <1>6, EntryFacts DEF RedemoOf, Holding
<1>15. Book!Repeat(b, x.booking, x.slot, x.seat, x.tutor)
  BY <1>3, <1>4, <1>5, <1>8, <1>11, <1>12, <1>13, <1>14 DEF Book!Repeat, Book!Writes
<1> QED
  BY <1>3, <1>5, <1>15 DEF Book!NextOf

\* A move is one step in the book: the old entry is moved, and the new one names it.
LEMMA MoveInBook ==
  ASSUME Inv, NEW w \in Workers, WriteMove(w)
  PROVE  \E b \in Bookings : Book!NextOf(b)
<1> DEFINE x == txn[w]
           request == booking[x.booking].redemoFor
           row == [NewBooking(x) EXCEPT !.via = "reschedule", !.from = x.booking, !.tutor = x.tutor,
                              !.link = x.value, !.redemoFor = request]
           old == [booking[x.booking] EXCEPT !.status = "RESCHEDULED"]
<1>1. PICK b \in Bookings :
         /\ IsNextBooking(b)
         /\ booking' = [booking EXCEPT ![x.booking].status = "RESCHEDULED", ![b] = row]
  BY DEF WriteMove
<1>2. /\ Writes(w, "reschedule_booking") /\ active' = active
      /\ "reschedule_booking" \in MakesBooking /\ "reschedule_booking" \in GivesTutor
      /\ "reschedule_booking" \in ChangesRow /\ "reschedule_booking" \in BeforeStart
  BY DEF WriteMove, MakesBooking, GivesTutor, ChangesRow, BeforeStart
<1>3. /\ x.op = "reschedule_booking" /\ x.stage = "writing" /\ Right(x) /\ x \in Transactions
      /\ now' = now /\ x.lead \in Leads /\ x.slot \in Slots /\ x.seat \in 1 .. Capacity[x.slot]
      /\ Book!SeatFree(x.slot, x.seat) /\ Book!ChildFree(x.lead, x.slot, Moved(x))
  BY <1>2, MakerInBook
<1>4. Moved(x) = {x.booking}
  BY <1>3 DEF Moved
<1>5. /\ x.booking \in Bookings /\ x.lead = booking[x.booking].lead
      /\ SlotType[x.slot] = SlotType[booking[x.booking].slot]
      /\ booking[x.booking].status = "BOOKED" /\ ~booking[x.booking].started
      /\ x.tutor \in {None, booking[x.booking].tutor}
  BY <1>2, <1>3 DEF Right, ShapedBooking, RowChecked, Type
<1>6. x.tutor # None => Book!TutorFree(x.tutor, x.slot, {x.booking})
  <2>1. x.tutor # None => x.tutor \in active /\ NoBookingThen(x.tutor, SlotStart[x.slot], {x.booking})
    BY <1>2, <1>3 DEF Right, TutorChecked, StartOf, LeftOut
  <2> QED
    BY <1>3, <2>1, TutorInBook
<1>7. /\ NewBooking(x) \in BookingRows
      /\ NewBooking(x).status = "BOOKED" /\ NewBooking(x).lead = x.lead /\ NewBooking(x).slot = x.slot
      /\ NewBooking(x).seat = x.seat /\ NewBooking(x).started = FALSE /\ NewBooking(x).answer = "AWAITING"
  BY <1>2, NewBookingTyped
<1>8. /\ row.status = "BOOKED" /\ row.lead = x.lead /\ row.slot = x.slot /\ row.seat = x.seat
      /\ row.started = FALSE /\ row.answer = "AWAITING"
      /\ row.tutor = x.tutor /\ row.from = x.booking /\ row.redemoFor = request
  BY <1>7 DEF BookingRows
<1>9. /\ booking \in [Bookings -> BookingRows] /\ b # x.booking
  BY <1>1, <1>5 DEF Inv, TypeOK, IsNextBooking, Exists
<1>10. booking' = [[booking EXCEPT ![x.booking] = old] EXCEPT ![b] = row]
  BY <1>1, <1>9
<1>11. EntryOf(old) = [Entries[x.booking] EXCEPT !.status = "RESCHEDULED"]
  BY <1>5, <1>9 DEF EntryOf, Entries, BookingRows
<1> HIDE DEF row, old
<1>12. EntryOf(row) = Book!Card(x.lead, x.slot, x.seat, x.tutor, x.booking, request)
  BY <1>8, EntryMade
<1>13. Entries' = [[Entries EXCEPT ![x.booking] = EntryOf(old)] EXCEPT ![b] = EntryOf(row)]
  BY <1>5, <1>9, <1>10 DEF Entries
<1>14. /\ Entries[b].status = "ABSENT" /\ Entries[x.booking].child = x.lead
       /\ Entries[x.booking].tutor = booking[x.booking].tutor /\ Entries[x.booking].redemoFor = request
       /\ Entries[x.booking].slot = booking[x.booking].slot
       /\ Book!Open(x.booking)
  BY <1>1, <1>5, EntryFacts DEF IsNextBooking, Exists, Booked
<1> HIDE DEF request
<1>15. Entries' = [Entries EXCEPT ![x.booking].status = "RESCHEDULED",
                                 ![b] = Book!Card(Entries[x.booking].child, x.slot, x.seat, x.tutor, x.booking,
                                                  Entries[x.booking].redemoFor)]
  BY <1>5, <1>9, <1>11, <1>12, <1>13, <1>14 DEF Entries
<1>16. Book!Move(b, x.booking, x.slot, x.seat, x.tutor)
  BY <1>2, <1>3, <1>4, <1>5, <1>6, <1>14, <1>15 DEF Book!Move, Book!Writes
<1>17. x.tutor \in Tutors \cup {None}
  BY <1>3 DEF Transactions
<1> QED
  BY <1>3, <1>5, <1>16, <1>17 DEF Book!NextOf

\* A transaction that changes a row that is there may, in the book as well.
LEMMA ChangerInBook ==
  ASSUME Inv, NEW w \in Workers, NEW op \in ChangesRow, Writes(w, op)
  PROVE  LET x == txn[w] IN
         /\ Right(x) /\ x.op = op /\ x.stage = "writing"
         /\ x.booking \in Bookings /\ booking[x.booking] \in BookingRows
         /\ op # "request_redemo" => x.booking \in Book!Booked
         /\ op \in BeforeStart \cup {"start_booking"} => Book!Open(x.booking)
<1> DEFINE x == txn[w]
<1>1. op \in Operations
  BY DEF Operations, ChangesRow, MakesBooking
<1>2. Right(x) /\ x.op = op /\ x.stage = "writing"
  BY <1>1, WriterRight
<1> HIDE DEF x
<1>3. x.booking \in Bookings /\ booking[x.booking] \in BookingRows
  BY <1>2, RowTyped DEF Right, ShapedBooking
<1>4. op # "request_redemo" => x.booking \in Booked
  BY <1>2, <1>3 DEF Right, RowChecked, Booked
<1>5. op \in BeforeStart \cup {"start_booking"} => op # "request_redemo" /\ ~booking[x.booking].started
  BY <1>2 DEF Right, RowChecked, BeforeStart
<1>6. /\ op # "request_redemo" => x.booking \in Book!Booked
      /\ op \in BeforeStart \cup {"start_booking"} => Book!Open(x.booking)
  BY <1>3, <1>4, <1>5, EntryFacts
<1> QED
  BY <1>2, <1>3, <1>6 DEF x

\* What is written of its row is all that is written in the book.
LEMMA RowInBook ==
  ASSUME Inv, NEW w \in Workers, NEW op \in ChangesRow, Writes(w, op),
         NEW b \in Bookings, NEW row, WriteBooking(b, row)
  PROVE  Book!Writes([Entries EXCEPT ![b] = EntryOf(row)])
<1>1. Entries' = [Entries EXCEPT ![b] = EntryOf(row)]
  BY EntryWritten DEF WriteBooking
<1> QED
  BY <1>1 DEF Book!Writes, Writes, WriteBooking

\* A completed Demo is needed again.
LEMMA RequestInBook ==
  ASSUME Inv, NEW w \in Workers, WriteRequest(w)
  PROVE  \E b \in Bookings : Book!NextOf(b)
<1> DEFINE x == txn[w]
           row == [booking[x.booking] EXCEPT !.status = "REDEMO_REQUIRED"]
<1>1. Writes(w, "request_redemo") /\ WriteBooking(x.booking, row) /\ "request_redemo" \in ChangesRow
  BY DEF WriteRequest, ChangesRow
<1>2. /\ Right(x) /\ x.op = "request_redemo" /\ x.stage = "writing"
      /\ x.booking \in Bookings /\ booking[x.booking] \in BookingRows
  BY <1>1, ChangerInBook
<1>3. EntryOf(row) = [Entries[x.booking] EXCEPT !.status = "REDEMO_REQUIRED"]
  BY <1>2 DEF EntryOf, Entries, BookingRows
<1> HIDE DEF row
<1>4. Book!Writes([Entries EXCEPT ![x.booking] = EntryOf(row)])
  BY <1>1, <1>2, RowInBook
<1>5. Entries[x.booking].status = "COMPLETED" /\ SlotType[Entries[x.booking].slot] = "DEMO"
  <2>1. booking[x.booking].status = "COMPLETED" /\ SlotType[booking[x.booking].slot] = "DEMO"
    BY <1>1, <1>2 DEF Right, RowChecked, ShapedBooking, Type
  <2> QED
    BY <1>2, <2>1, EntryFacts
<1>6. Book!AskAgain(x.booking)
  BY <1>3, <1>4, <1>5 DEF Book!AskAgain
<1> QED
  BY <1>2, <1>6 DEF Book!NextOf

\* What is cancelled is booked.
LEMMA CancelInBook ==
  ASSUME Inv, NEW w \in Workers, WriteCancel(w)
  PROVE  \E b \in Bookings : Book!NextOf(b)
<1> DEFINE x == txn[w]
           row == [booking[x.booking] EXCEPT !.status = "CANCELLED"]
<1>1. Writes(w, "cancel_booking") /\ WriteBooking(x.booking, row) /\ "cancel_booking" \in ChangesRow
  BY DEF WriteCancel, ChangesRow
<1>2. /\ Right(x) /\ x.op = "cancel_booking" /\ x.stage = "writing"
      /\ x.booking \in Bookings /\ booking[x.booking] \in BookingRows
  BY <1>1, ChangerInBook
<1>3. EntryOf(row) = [Entries[x.booking] EXCEPT !.status = "CANCELLED"]
  BY <1>2 DEF EntryOf, Entries, BookingRows
<1> HIDE DEF row
<1>4. Book!Writes([Entries EXCEPT ![x.booking] = EntryOf(row)])
  BY <1>1, <1>2, RowInBook
<1>5. x.booking \in Book!Booked
  BY <1>1, ChangerInBook
<1>6. Book!Cancel(x.booking)
  BY <1>3, <1>4, <1>5 DEF Book!Cancel
<1> QED
  BY <1>2, <1>6 DEF Book!NextOf

\* What a parent answers for has not begun.
LEMMA AnswerInBook ==
  ASSUME Inv, NEW w \in Workers, WriteConfirmation(w)
  PROVE  \E b \in Bookings : Book!NextOf(b)
<1> DEFINE x == txn[w]
           old == booking[x.booking]
           answered == [old EXCEPT !.answer = x.value]
           row == [old EXCEPT !.answer = x.value, !.status = IF x.value = "CONFIRMED" THEN @ ELSE "CANCELLED"]
<1>1. /\ Writes(w, "record_parent_confirmation") /\ WriteBooking(x.booking, row)
      /\ "record_parent_confirmation" \in ChangesRow /\ "record_parent_confirmation" \in BeforeStart
  BY DEF WriteConfirmation, ChangesRow, BeforeStart
<1>2. /\ Right(x) /\ x.op = "record_parent_confirmation" /\ x.stage = "writing"
      /\ x.booking \in Bookings /\ old \in BookingRows
      /\ Book!Open(x.booking)
  BY <1>1, ChangerInBook
<1>3. x.value \in {"CONFIRMED", "NOT_CONFIRMED"}
  BY <1>2 DEF Right, ShapedRest
<1>4. ASSUME NEW some \in BookingRows, NEW value
      PROVE  /\ EntryOf([some EXCEPT !.answer = value]) = [EntryOf(some) EXCEPT !.answer = value]
             /\ EntryOf([some EXCEPT !.status = value]) = [EntryOf(some) EXCEPT !.status = value]
  BY <1>4 DEF EntryOf, BookingRows
<1>5. Entries[x.booking] = EntryOf(old)
  BY <1>2 DEF Entries
<1>6. answered \in BookingRows /\ EntryOf(answered) = [Entries[x.booking] EXCEPT !.answer = x.value]
  <2>1. answered \in BookingRows
    BY <1>2, <1>3 DEF BookingRows
  <2> QED
    BY ZenonT(60), <1>2, <1>4, <1>5, <2>1
<1>7. row = IF x.value = "CONFIRMED" THEN answered ELSE [answered EXCEPT !.status = "CANCELLED"]
  BY <1>2, <1>3 DEF BookingRows
<1> HIDE DEF row, old, answered
<1>8. Book!Writes([Entries EXCEPT ![x.booking] = EntryOf(row)])
  BY <1>1, <1>2, RowInBook
<1>9. CASE x.value = "CONFIRMED"
  <2>1. Book!Confirm(x.booking)
    BY <1>2, <1>6, <1>7, <1>8, <1>9 DEF Book!Confirm
  <2> QED
    BY <1>2, <2>1 DEF Book!NextOf
<1>10. CASE x.value = "NOT_CONFIRMED"
  <2>1. EntryOf(row) = [EntryOf(answered) EXCEPT !.status = "CANCELLED"]
    BY <1>4, <1>6, <1>7, <1>10
  <2>2. [Entries EXCEPT ![x.booking] = EntryOf(row)]
          = [Entries EXCEPT ![x.booking].answer = "NOT_CONFIRMED", ![x.booking].status = "CANCELLED"]
    BY <1>2, <1>6, <1>10, <2>1 DEF Entries
  <2>3. Book!Decline(x.booking)
    BY <1>2, <1>8, <2>2 DEF Book!Decline
  <2> QED
    BY <1>2, <2>3 DEF Book!NextOf
<1> QED
  BY <1>3, <1>9, <1>10

\* A tutor given is free then, teaches, and did not give the Demo that is repeated.
LEMMA AssignInBook ==
  ASSUME Inv, NEW w \in Workers, WriteAssign(w)
  PROVE  \E b \in Bookings : Book!NextOf(b)
<1> DEFINE x == txn[w]
           row == [booking[x.booking] EXCEPT !.tutor = x.tutor, !.link = x.value]
<1>1. Writes(w, "assign_tutor") /\ WriteBooking(x.booking, row) /\ "assign_tutor" \in ChangesRow
  BY DEF WriteAssign, ChangesRow
<1>2. /\ Right(x) /\ x.op = "assign_tutor" /\ x.stage = "writing"
      /\ x.booking \in Bookings /\ booking[x.booking] \in BookingRows
  BY <1>1, ChangerInBook
<1>3. EntryOf(row) = [Entries[x.booking] EXCEPT !.tutor = x.tutor]
  BY <1>2 DEF EntryOf, Entries, BookingRows
<1> HIDE DEF row
<1>4. Book!Writes([Entries EXCEPT ![x.booking] = EntryOf(row)])
  BY <1>1, <1>2, RowInBook
<1>5. Book!Open(x.booking)
  <2>1. "assign_tutor" \in BeforeStart
    BY DEF BeforeStart
  <2> QED
    BY <1>1, <2>1, ChangerInBook
<1>6. /\ x.tutor \in Tutors /\ x.tutor \in active /\ x.tutor # OriginalTutor(x.booking)
      /\ NoBookingThen(x.tutor, SlotStart[booking[x.booking].slot], {x.booking})
  <2>1. x.tutor \in Tutors /\ x.tutor # None
    BY <1>2, ConstantsAssumption DEF Right, ShapedRest, NamesTutor
  <2> QED
    BY <1>2, <2>1 DEF Right, TutorChecked, GivesTutor, StartOf, LeftOut
<1>7. booking[x.booking].slot \in Slots
  BY <1>2, RowTyped DEF Right, ShapedBooking, ChangesRow
<1>8. /\ Book!TutorFree(x.tutor, Entries[x.booking].slot, {x.booking})
      /\ x.tutor # Book!FirstTutor(x.booking)
  BY <1>2, <1>6, <1>7, TutorInBook, EntryFacts
<1>9. Book!Assign(x.booking, x.tutor)
  BY <1>3, <1>4, <1>5, <1>8 DEF Book!Assign
<1> QED
  BY <1>2, <1>6, <1>9 DEF Book!NextOf

\* A tutor is taken away before it begins.
LEMMA UnassignInBook ==
  ASSUME Inv, NEW w \in Workers, WriteUnassign(w)
  PROVE  \E b \in Bookings : Book!NextOf(b)
<1> DEFINE x == txn[w]
           row == [booking[x.booking] EXCEPT !.tutor = None, !.link = None]
<1>1. Writes(w, "unassign_tutor") /\ WriteBooking(x.booking, row) /\ "unassign_tutor" \in ChangesRow
  BY DEF WriteUnassign, ChangesRow
<1>2. /\ Right(x) /\ x.op = "unassign_tutor" /\ x.stage = "writing"
      /\ x.booking \in Bookings /\ booking[x.booking] \in BookingRows
  BY <1>1, ChangerInBook
<1>3. EntryOf(row) = [Entries[x.booking] EXCEPT !.tutor = None]
  BY <1>2 DEF EntryOf, Entries, BookingRows
<1> HIDE DEF row
<1>4. Book!Writes([Entries EXCEPT ![x.booking] = EntryOf(row)])
  BY <1>1, <1>2, RowInBook
<1>5. Book!Open(x.booking)
  <2>1. "unassign_tutor" \in BeforeStart
    BY DEF BeforeStart
  <2> QED
    BY <1>1, <2>1, ChangerInBook
<1>6. Book!Unassign(x.booking)
  BY <1>3, <1>4, <1>5 DEF Book!Unassign
<1> QED
  BY <1>2, <1>6 DEF Book!NextOf

\* What begins has a tutor, and has not begun.
LEMMA StartInBook ==
  ASSUME Inv, NEW w \in Workers, WriteStart(w)
  PROVE  \E b \in Bookings : Book!NextOf(b)
<1> DEFINE x == txn[w]
           row == [booking[x.booking] EXCEPT !.started = TRUE]
<1>1. Writes(w, "start_booking") /\ WriteBooking(x.booking, row) /\ "start_booking" \in ChangesRow
  BY DEF WriteStart, ChangesRow
<1>2. /\ Right(x) /\ x.op = "start_booking" /\ x.stage = "writing"
      /\ x.booking \in Bookings /\ booking[x.booking] \in BookingRows
  BY <1>1, ChangerInBook
<1>3. EntryOf(row) = [Entries[x.booking] EXCEPT !.started = TRUE]
  <2>1. ASSUME NEW old \in BookingRows, NEW new
        PROVE  EntryOf([old EXCEPT !.started = new]) = [EntryOf(old) EXCEPT !.started = new]
    BY <2>1 DEF EntryOf, BookingRows
  <2>2. Entries[x.booking] = EntryOf(booking[x.booking])
    BY <1>2 DEF Entries
  <2> QED
    BY <1>2, <2>1, <2>2
<1> HIDE DEF row
<1>4. Book!Writes([Entries EXCEPT ![x.booking] = EntryOf(row)])
  BY <1>1, <1>2, RowInBook
<1>5. Book!Open(x.booking)
  BY <1>1, ChangerInBook
<1>6. Entries[x.booking].tutor # None
  BY <1>1, <1>2, EntryFacts DEF Right, RowChecked
<1>7. Book!Begin(x.booking)
  BY <1>3, <1>4, <1>5, <1>6 DEF Book!Begin
<1> QED
  BY <1>2, <1>7 DEF Book!NextOf

\* What is reported on has begun.
LEMMA ReportInBook ==
  ASSUME Inv, NEW w \in Workers, WriteReport(w)
  PROVE  \E b \in Bookings : Book!NextOf(b)
<1> DEFINE x == txn[w]
           row == [booking[x.booking] EXCEPT !.status = "COMPLETED"]
<1>1. Writes(w, "submit_report") /\ WriteBooking(x.booking, row) /\ "submit_report" \in ChangesRow
  BY DEF WriteReport, ChangesRow
<1>2. /\ Right(x) /\ x.op = "submit_report" /\ x.stage = "writing"
      /\ x.booking \in Bookings /\ booking[x.booking] \in BookingRows
  BY <1>1, ChangerInBook
<1>3. EntryOf(row) = [Entries[x.booking] EXCEPT !.status = "COMPLETED"]
  BY <1>2 DEF EntryOf, Entries, BookingRows
<1> HIDE DEF row
<1>4. Book!Writes([Entries EXCEPT ![x.booking] = EntryOf(row)])
  BY <1>1, <1>2, RowInBook
<1>5. x.booking \in Book!Booked
  BY <1>1, ChangerInBook
<1>6. Entries[x.booking].started
  BY <1>1, <1>2, EntryFacts DEF Right, RowChecked
<1>7. Book!Report(x.booking)
  BY <1>3, <1>4, <1>5, <1>6 DEF Book!Report
<1> QED
  BY <1>2, <1>7 DEF Book!NextOf

\* No account is closed that a booking to come is left with.
LEMMA AccountInBook ==
  ASSUME Inv, NEW w \in Workers, WriteAccount(w)
  PROVE  \E t \in Tutors : Book!Reinstate(t) \/ Book!Retire(t)
<1> DEFINE x == txn[w]
<1>1. /\ Writes(w, "set_account_active") /\ UNCHANGED booking
      /\ active' = IF x.flag THEN active \cup {x.tutor} ELSE active \ {x.tutor}
  BY DEF WriteAccount
<1>2. "set_account_active" \in Operations
  BY DEF Operations
<1>3. /\ Right(x) /\ x \in Transactions /\ x.op = "set_account_active" /\ x.stage = "writing"
      /\ now' = now
  BY <1>1, <1>2, WriterRight
<1>4. x.tutor \in Tutors /\ x.flag \in BOOLEAN
  BY <1>3 DEF Right, ShapedRest, NamesTutor, Transactions
<1>5. Entries' = Entries
  BY <1>1 DEF Entries
<1>6. CASE x.flag
  BY <1>1, <1>3, <1>4, <1>5, <1>6 DEF Book!Reinstate
<1>7. CASE ~x.flag
  <2>1. UpcomingAssignments(x.tutor) = {}
    BY <1>3, <1>7 DEF Right, AccountChecked
  <2>2. \A a \in Bookings : Book!ToCome(a) => Entries[a].tutor # x.tutor
    BY <2>1, EntryFacts DEF UpcomingAssignments
  <2> QED
    BY <1>1, <1>3, <1>4, <1>5, <1>7, <2>2 DEF Book!Retire
<1> QED
  BY <1>6, <1>7

\* Links, slots closed, invitations and classes are not in the book.
LEMMA OthersNotInBook ==
  ASSUME Inv, NEW w \in Workers,
         \/ WriteLink(w) \/ WriteSlotsClosed(w) \/ WriteClass(w) \/ SaveClass(w)
         \/ WriteIssue(w) \/ WriteRevoke(w)
  PROVE  UNCHANGED Book!bookVars
<1>1. CASE WriteLink(w)
  <2> DEFINE x == txn[w]
             refused == \E b \in x.todo : booking[b].tutor = None
  <2>1. /\ UNCHANGED <<now, active>>
        /\ booking' = IF refused THEN booking
                      ELSE [b \in Bookings |-> IF b \in x.todo THEN [booking[b] EXCEPT !.link = x.value]
                                                               ELSE booking[b]]
    BY <1>1 DEF WriteLink, Writes
  <2> HIDE DEF refused, x
  <2>2. ASSUME NEW row \in BookingRows
        PROVE  EntryOf([row EXCEPT !.link = x.value]) = EntryOf(row)
    BY <2>2 DEF EntryOf, BookingRows
  <2>3. \A b \in Bookings : booking[b] \in BookingRows
    BY DEF Inv, TypeOK
  <2>4. \A b \in Bookings : EntryOf(booking'[b]) = EntryOf(booking[b])
    BY <2>1, <2>2, <2>3
  <2> QED
    BY <2>1, <2>4 DEF Entries, Book!bookVars
<1>2. CASE WriteSlotsClosed(w) \/ WriteClass(w) \/ SaveClass(w) \/ WriteIssue(w) \/ WriteRevoke(w)
  <2>1. UNCHANGED <<now, active, booking>>
    BY <1>2 DEF WriteSlotsClosed, WriteClass, SaveClass, WriteSession, WriteIssue, WriteRevoke, Writes
  <2> QED
    BY <2>1 DEF Entries, Book!bookVars
<1> QED
  BY <1>1, <1>2

\* What a transaction commits is one step in the book, or none.
LEMMA CommitInBook ==
  ASSUME Inv, NEW w \in Workers, Commits(w)
  PROVE  [Book!NextAppointments]_(Book!bookVars)
<1>1. CASE \E b \in Bookings : Book!NextOf(b)
  <2>1. CASE Entries' = Entries
    <3>1. ASSUME NEW new, Book!Writes(new)
          PROVE  UNCHANGED <<now, active>>
      BY <3>1 DEF Book!Writes
    <3>2. ASSUME NEW a, NEW b, NEW c, NEW s, NEW n, NEW t,
                 Book!Make(a, c, s, n) \/ Book!Repeat(a, b, s, n, t) \/ Book!Move(a, b, s, n, t)
          PROVE  UNCHANGED <<now, active>>
      BY <3>1, <3>2 DEF Book!Make, Book!Repeat, Book!Move
    <3>3. ASSUME NEW a, NEW t,
                 \/ Book!Cancel(a) \/ Book!Confirm(a) \/ Book!Decline(a)
                 \/ Book!Unassign(a) \/ Book!Begin(a) \/ Book!Report(a) \/ Book!AskAgain(a)
                 \/ Book!Assign(a, t)
          PROVE  UNCHANGED <<now, active>>
      BY <3>1, <3>3 DEF Book!Cancel, Book!Confirm, Book!Decline, Book!Unassign, Book!Begin,
         Book!Report, Book!AskAgain, Book!Assign
    <3>4. UNCHANGED <<now, active>>
      BY <1>1, <3>2, <3>3 DEF Book!NextOf
    <3> QED
      BY <2>1, <3>4 DEF Book!bookVars
  <2>2. CASE Entries' # Entries
    BY <1>1, <2>2 DEF Book!NextAppointments
  <2> QED
    BY <2>1, <2>2
<1>2. CASE WriteAccount(w)
  BY <1>2, AccountInBook DEF Book!NextAppointments
<1>3. CASE \/ WriteLink(w) \/ WriteSlotsClosed(w) \/ WriteClass(w) \/ SaveClass(w)
           \/ WriteIssue(w) \/ WriteRevoke(w)
  BY <1>3, OthersNotInBook
<1>4. (\E b \in Bookings : Book!NextOf(b)) \/ WriteAccount(w)
         \/ WriteLink(w) \/ WriteSlotsClosed(w) \/ WriteClass(w) \/ SaveClass(w)
         \/ WriteIssue(w) \/ WriteRevoke(w)
  BY CreateInBook, InvitedInBook, RedemoInBook, RequestInBook, MoveInBook, CancelInBook, AnswerInBook,
     AssignInBook, UnassignInBook, StartInBook, ReportInBook DEF Commits
<1> QED
  BY <1>1, <1>2, <1>3, <1>4

\* What an instance begins with is a book in which nothing is had twice.
LEMMA BeginsAsBook ==
  ASSUME Init
  PROVE  Book!InitAppointments
<1>1. Inv /\ active = Tutors
  BY BeginsRight DEF Init
<1>2. PICK start \in AtStart : booking = start.booking
  BY DEF Init
<1>3. RealRows(start)
  BY StartAssumption
<1>4. \A b, c \in Holding :
         b # c /\ booking[b].tutor = booking[c].tutor /\ booking[b].tutor # None
         => ~Overlap(SlotStart[booking[b].slot], SlotStart[booking[c].slot])
  BY <1>2, <1>3 DEF RealRows, Holding
<1>5. ASSUME NEW b \in Holding, NEW c \in Holding \ {b}
      PROVE  /\ booking[b].seat \in 1 .. Capacity[booking[b].slot]
             /\ booking[b].slot = booking[c].slot => booking[b].seat # booking[c].seat
             /\ booking[b].tutor = booking[c].tutor /\ booking[b].tutor # None =>
                   ~Book!Clash(booking[b].slot, booking[c].slot)
             /\ booking[b].lead = booking[c].lead /\ {b, c} \subseteq Booked =>
                   /\ ~Book!Clash(booking[b].slot, booking[c].slot)
                   /\ SlotType[booking[b].slot] = SlotType[booking[c].slot] =>
                         ~(IsLive(b, now) /\ IsLive(c, now))
  BY <1>1, <1>4, <1>5
     DEF Inv, RowsRight, OneHolderPerSeat, LeadInOnePlace, Book!Clash, Overlap, Type
<1>6. Holding \subseteq Bookings /\ \A b \in Holding : booking[b].seat \in 1 .. Capacity[booking[b].slot]
  BY <1>1 DEF Holding, Inv, RowsRight, OneHolderPerSeat
<1>7. Book!NoneTwice
  BY <1>1, <1>5, <1>6, EntryFacts DEF Book!NoneTwice
<1> QED
  BY <1>1, <1>7 DEF Book!InitAppointments

\* Whatever transactions run at once, on what they read before, their bookings come about as one
\* clerk writes appointments who looks everything up in the book as each is written: no seat, child
\* or tutor twice, nothing changed that another changed first, no account closed under a booking.
THEOREM AppointmentsAsPromised == Spec => ImplementsAppointments
<1>1. Init => Book!InitAppointments
  BY BeginsAsBook
<1>2. ASSUME Inv, [Next]_vars
      PROVE  [Book!NextAppointments]_(Book!bookVars)
  <2>1. CASE UNCHANGED <<now, active, booking>>
    BY <2>1 DEF Entries, Book!bookVars
  <2>2. CASE Tick
    <3>1. now' > now /\ UNCHANGED <<active, booking>>
      BY <1>2, <2>2, ConstantsAssumption DEF Tick, rows, Inv, TypeOK
    <3> QED
      BY <3>1 DEF Book!NextAppointments, Book!Passes, Entries
  <2>3. CASE \E w \in Workers : Commits(w)
    BY <1>2, <2>3, CommitInBook
  <2>4. UNCHANGED vars => UNCHANGED <<now, active, booking>>
    BY DEF vars, rows
  <2> QED
    BY <1>2, <2>1, <2>2, <2>3, <2>4, OnlyCommitsWrite
<1>3. Inv /\ [Next]_vars => [Book!NextAppointments]_(Book!bookVars)
  BY <1>2
<1> QED
  BY <1>1, <1>3, Invariant, PTL DEF Spec, ImplementsAppointments, Book!SpecAppointments
-----------------------------------------------------------------------------
(***************************************************************************)
(* Locks are taken in one order                                            *)
(***************************************************************************)
\* Where each lock comes.
LEMMA LockClasses ==
  /\ \A s : Class(SlotLock(s)) = 0 /\ SlotLock(s)[2] = s
  /\ \A l : Class(LeadLock(l)) = 1
  /\ \A b : Class(BookingLock(b)) = 2 /\ Class(RequestLock(b)) = 2
  /\ \A i : Class(InviteLock(i)) = 2
  /\ \A t : Class(ScheduleLock(t)) = 3 /\ Class(AccountLock(t)) = 4
BY DEF Class, SlotLock, LeadLock, BookingLock, RequestLock, InviteLock, ScheduleLock, AccountLock

\* A lock has a class, and one of the first is a slot's.
LEMMA ClassTyped ==
  ASSUME NEW lock \in Locks
  PROVE  Class(lock) \in 0 .. 4 /\ (Class(lock) = 0 => lock[2] \in Slots)
<1>1. /\ lock \in ({"slot"} \X Slots) \/ lock \in ({"lead"} \X Leads)
         \/ lock \in ({"booking", "request"} \X Bookings) \/ lock \in ({"invite"} \X Invites)
         \/ lock \in ({"schedule", "account"} \X Tutors)
  BY DEF Locks
<1> QED
  BY <1>1 DEF Class

\* A transaction that needs no lock is in order.
LEMMA NothingNeeded ==
  ASSUME NEW x, x.need = <<>>, x.held = {} \/ x.stage # "first"
  PROVE  Ordered(x)
BY DEF Ordered

\* The others go on as they were.
LEMMA OneMoves ==
  ASSUME Inv, \A v \in Workers : Ordered(txn[v]), NEW w \in Workers, NEW new,
         txn' = [txn EXCEPT ![w] = new], Ordered(new)
  PROVE  \A v \in Workers : Ordered(txn'[v])
BY DEF Inv, TypeOK

\* Lists of one, two and three locks in order.
LEMMA OneLock ==
  ASSUME NEW x, NEW a, x.held = {}, x.need = <<a>>,
         x.op \in GivesTutor \cup {"issue_invite"} => Class(a) <= 1, Class(a) \in 0 .. 4
  PROVE  Ordered(x)
<1>1. \A i \in DOMAIN x.need : i = 1 /\ x.need[i] = a
  OBVIOUS
<1> QED
  BY <1>1 DEF Ordered

\* Two locks, one before the other, are in order, whatever else is true of the transaction.
LEMMA TwoLocks ==
  ASSUME NEW x, NEW a, NEW b, x.held = {}, x.need = <<a, b>>, x.op # "issue_invite",
         Class(a) = 0, Class(b) \in 1 .. 2
  PROVE  Ordered(x)
<1>1. \A i \in DOMAIN x.need : (i = 1 /\ x.need[i] = a) \/ (i = 2 /\ x.need[i] = b)
  <2>1. DOMAIN x.need = 1 .. 2 /\ x.need[1] = a /\ x.need[2] = b
    OBVIOUS
  <2> QED
    BY <2>1
<1> QED
  BY <1>1 DEF Ordered, Before

\* Three locks, each before the next, are in order.
LEMMA ThreeLocks ==
  ASSUME NEW x, NEW a, NEW b, NEW c, x.held = {}, x.need = <<a, b, c>>, x.op # "issue_invite",
         Class(a) = 0, Class(b) = 1, Class(c) = 2
  PROVE  Ordered(x)
<1>1. DOMAIN x.need = 1 .. 3 /\ x.need[1] = a /\ x.need[2] = b /\ x.need[3] = c
  OBVIOUS
<1>2. \A i \in DOMAIN x.need : i = 1 \/ i = 2 \/ i = 3
  BY <1>1
<1> QED
  BY <1>1, <1>2 DEF Ordered, Before

\* At the beginning of the booking of a child, the locks needed are in order.
LEMMA CreateBookingOrdered ==
  ASSUME Inv, \A v \in Workers : Ordered(txn[v]), NEW w \in Workers, NEW l \in Leads,
         NEW s \in Slots,
         CreateBooking(w, l, s)
  PROVE  \A v \in Workers : Ordered(txn'[v])
<1> DEFINE x == [NoTxn EXCEPT !.op = "create_booking", !.lead = l, !.slot = s,
                              !.need = <<SlotLock(s), LeadLock(l)>>]
           new == [x EXCEPT !.stage = "first", !.at = now]
<1>1. Begins(w, x)
  BY DEF CreateBooking
<1>2. new.op = "create_booking" /\ new.held = {} /\ new.need = <<SlotLock(s), LeadLock(l)>>
  BY DEF NoTxn, BookingLocks, ScheduleLock, AccountLock
<1> HIDE DEF new
<1>3. Ordered(new)
  BY <1>2, LockClasses, TwoLocks DEF GivesTutor
<1> QED
  BY <1>1, <1>3, OneMoves DEF Begins, new

\* At the beginning of the booking of an invited Demo, the locks needed are in order.
LEMMA CreateInvitedDemoBookingOrdered ==
  ASSUME Inv, \A v \in Workers : Ordered(txn[v]), NEW w \in Workers, NEW i \in Invites,
         NEW s \in Slots,
         CreateInvitedDemoBooking(w, i, s)
  PROVE  \A v \in Workers : Ordered(txn'[v])
<1> DEFINE x == [NoTxn EXCEPT !.op = "create_invited_demo_booking", !.invite = i, !.slot = s,
                    !.lead = InviteLead(i),
                    !.need = <<SlotLock(s), LeadLock(InviteLead(i)), InviteLock(i)>>]
           new == [x EXCEPT !.stage = "first", !.at = now]
<1>1. Begins(w, x)
  BY DEF CreateInvitedDemoBooking
<1>2. /\ new.op = "create_invited_demo_booking" /\ new.held = {}
      /\ new.need = <<SlotLock(s), LeadLock(InviteLead(i)), InviteLock(i)>>
  BY DEF NoTxn, BookingLocks, ScheduleLock, AccountLock
<1> HIDE DEF new
<1>3. Ordered(new)
  BY <1>2, LockClasses, ThreeLocks DEF GivesTutor
<1> QED
  BY <1>1, <1>3, OneMoves DEF Begins, new

\* At the beginning of the scheduling of a Re-Demo, the locks needed are in order.
LEMMA ScheduleRedemoOrdered ==
  ASSUME Inv, \A v \in Workers : Ordered(txn[v]), NEW w \in Workers, NEW d \in Bookings,
         NEW t \in Tutors, NEW s \in Slots,
         ScheduleRedemo(w, d, t, s)
  PROVE  \A v \in Workers : Ordered(txn'[v])
<1> DEFINE x == [NoTxn EXCEPT !.op = "schedule_redemo", !.booking = d, !.tutor = t, !.slot = s,
                    !.lead = booking[d].lead,
                    !.need = <<SlotLock(s), LeadLock(booking[d].lead), RequestLock(d)>>]
           new == [x EXCEPT !.stage = "first", !.at = now]
<1>1. Begins(w, x)
  BY DEF ScheduleRedemo
<1>2. /\ new.op = "schedule_redemo" /\ new.held = {}
      /\ new.need = <<SlotLock(s), LeadLock(booking[d].lead), RequestLock(d)>>
  BY DEF NoTxn, BookingLocks, ScheduleLock, AccountLock
<1> HIDE DEF new
<1>3. Ordered(new)
  BY <1>2, LockClasses, ThreeLocks DEF GivesTutor
<1> QED
  BY <1>1, <1>3, OneMoves DEF Begins, new

\* At the beginning of a request for a Re-Demo, the locks needed are in order.
LEMMA RequestRedemoOrdered ==
  ASSUME Inv, \A v \in Workers : Ordered(txn[v]), NEW w \in Workers, NEW b \in Bookings,
         RequestRedemo(w, b)
  PROVE  \A v \in Workers : Ordered(txn'[v])
<1> DEFINE x == [NoTxn EXCEPT !.op = "request_redemo", !.booking = b,
                    !.need = <<SlotLock(booking[b].slot), LeadLock(booking[b].lead), BookingLock(b)>>]
           new == [x EXCEPT !.stage = "first", !.at = now]
<1>1. Begins(w, x)
  BY DEF RequestRedemo
<1>2. /\ new.op = "request_redemo" /\ new.held = {}
      /\ new.need = <<SlotLock(booking[b].slot), LeadLock(booking[b].lead), BookingLock(b)>>
  BY DEF NoTxn, BookingLocks, ScheduleLock, AccountLock
<1> HIDE DEF new
<1>3. Ordered(new)
  BY <1>2, LockClasses, ThreeLocks DEF GivesTutor
<1> QED
  BY <1>1, <1>3, OneMoves DEF Begins, new

\* At the beginning of a cancellation, the locks needed are in order.
LEMMA CancelBookingOrdered ==
  ASSUME Inv, \A v \in Workers : Ordered(txn[v]), NEW w \in Workers, NEW b \in Bookings,
         CancelBooking(w, b)
  PROVE  \A v \in Workers : Ordered(txn'[v])
<1> DEFINE x == [NoTxn EXCEPT !.op = "cancel_booking", !.booking = b, !.need = BookingLocks(b)]
           new == [x EXCEPT !.stage = "first", !.at = now]
<1>1. Begins(w, x)
  BY DEF CancelBooking
<1>2. /\ new.op = "cancel_booking" /\ new.held = {}
      /\ new.need = <<SlotLock(booking[b].slot), BookingLock(b)>>
  BY DEF NoTxn, BookingLocks, ScheduleLock, AccountLock
<1> HIDE DEF new
<1>3. Ordered(new)
  BY <1>2, LockClasses, TwoLocks DEF GivesTutor
<1> QED
  BY <1>1, <1>3, OneMoves DEF Begins, new

\* At the beginning of the taking away of a tutor, the locks needed are in order.
LEMMA UnassignTutorOrdered ==
  ASSUME Inv, \A v \in Workers : Ordered(txn[v]), NEW w \in Workers, NEW b \in Bookings,
         UnassignTutor(w, b)
  PROVE  \A v \in Workers : Ordered(txn'[v])
<1> DEFINE x == [NoTxn EXCEPT !.op = "unassign_tutor", !.booking = b, !.need = BookingLocks(b)]
           new == [x EXCEPT !.stage = "first", !.at = now]
<1>1. Begins(w, x)
  BY DEF UnassignTutor
<1>2. /\ new.op = "unassign_tutor" /\ new.held = {}
      /\ new.need = <<SlotLock(booking[b].slot), BookingLock(b)>>
  BY DEF NoTxn, BookingLocks, ScheduleLock, AccountLock
<1> HIDE DEF new
<1>3. Ordered(new)
  BY <1>2, LockClasses, TwoLocks DEF GivesTutor
<1> QED
  BY <1>1, <1>3, OneMoves DEF Begins, new

\* At the beginning of the recording of a parent's answer, the locks needed are in order.
LEMMA RecordParentConfirmationOrdered ==
  ASSUME Inv, \A v \in Workers : Ordered(txn[v]), NEW w \in Workers, NEW b \in Bookings,
         NEW answer \in {"CONFIRMED", "NOT_CONFIRMED"},
         RecordParentConfirmation(w, b, answer)
  PROVE  \A v \in Workers : Ordered(txn'[v])
<1> DEFINE x == [NoTxn EXCEPT !.op = "record_parent_confirmation", !.booking = b,
                !.value = answer, !.need = BookingLocks(b)]
           new == [x EXCEPT !.stage = "first", !.at = now]
<1>1. Begins(w, x)
  BY DEF RecordParentConfirmation
<1>2. /\ new.op = "record_parent_confirmation" /\ new.held = {}
      /\ new.need = <<SlotLock(booking[b].slot), BookingLock(b)>>
  BY DEF NoTxn, BookingLocks, ScheduleLock, AccountLock
<1> HIDE DEF new
<1>3. Ordered(new)
  BY <1>2, LockClasses, TwoLocks DEF GivesTutor
<1> QED
  BY <1>1, <1>3, OneMoves DEF Begins, new

\* At the beginning of the assignment of a tutor, the locks needed are in order.
LEMMA AssignTutorOrdered ==
  ASSUME Inv, \A v \in Workers : Ordered(txn[v]), NEW w \in Workers, NEW b \in Bookings,
         NEW t \in Tutors,
         AssignTutor(w, b, t)
  PROVE  \A v \in Workers : Ordered(txn'[v])
<1> DEFINE x == [NoTxn EXCEPT !.op = "assign_tutor", !.booking = b, !.tutor = t,
                !.need = BookingLocks(b)]
           new == [x EXCEPT !.stage = "first", !.at = now]
<1>1. Begins(w, x)
  BY DEF AssignTutor
<1>2. /\ new.op = "assign_tutor" /\ new.held = {}
      /\ new.need = <<SlotLock(booking[b].slot), BookingLock(b)>>
  BY DEF NoTxn, BookingLocks, ScheduleLock, AccountLock
<1> HIDE DEF new
<1>3. Ordered(new)
  BY <1>2, LockClasses, TwoLocks DEF GivesTutor
<1> QED
  BY <1>1, <1>3, OneMoves DEF Begins, new

\* At the beginning of the start of a booking, the locks needed are in order.
LEMMA StartBookingOrdered ==
  ASSUME Inv, \A v \in Workers : Ordered(txn[v]), NEW w \in Workers, NEW b \in Bookings,
         NEW t \in Tutors,
         StartBooking(w, b, t)
  PROVE  \A v \in Workers : Ordered(txn'[v])
<1> DEFINE x == [NoTxn EXCEPT !.op = "start_booking", !.booking = b, !.tutor = t,
                !.need = BookingLocks(b)]
           new == [x EXCEPT !.stage = "first", !.at = now]
<1>1. Begins(w, x)
  BY DEF StartBooking
<1>2. /\ new.op = "start_booking" /\ new.held = {}
      /\ new.need = <<SlotLock(booking[b].slot), BookingLock(b)>>
  BY DEF NoTxn, BookingLocks, ScheduleLock, AccountLock
<1> HIDE DEF new
<1>3. Ordered(new)
  BY <1>2, LockClasses, TwoLocks DEF GivesTutor
<1> QED
  BY <1>1, <1>3, OneMoves DEF Begins, new

\* At the beginning of the submission of a report, the locks needed are in order.
LEMMA SubmitReportOrdered ==
  ASSUME Inv, \A v \in Workers : Ordered(txn[v]), NEW w \in Workers, NEW b \in Bookings,
         NEW t \in Tutors,
         SubmitReport(w, b, t)
  PROVE  \A v \in Workers : Ordered(txn'[v])
<1> DEFINE x == [NoTxn EXCEPT !.op = "submit_report", !.booking = b, !.tutor = t,
                !.need = BookingLocks(b)]
           new == [x EXCEPT !.stage = "first", !.at = now]
<1>1. Begins(w, x)
  BY DEF SubmitReport
<1>2. /\ new.op = "submit_report" /\ new.held = {}
      /\ new.need = <<SlotLock(booking[b].slot), BookingLock(b)>>
  BY DEF NoTxn, BookingLocks, ScheduleLock, AccountLock
<1> HIDE DEF new
<1>3. Ordered(new)
  BY <1>2, LockClasses, TwoLocks DEF GivesTutor
<1> QED
  BY <1>1, <1>3, OneMoves DEF Begins, new

\* At the beginning of the issue of an invitation, the locks needed are in order.
LEMMA IssueInviteOrdered ==
  ASSUME Inv, \A v \in Workers : Ordered(txn[v]), NEW w \in Workers, NEW b \in Bookings,
         IssueInvite(w, b)
  PROVE  \A v \in Workers : Ordered(txn'[v])
<1> DEFINE x == [NoTxn EXCEPT !.op = "issue_invite", !.booking = b,
                !.need = <<LeadLock(booking[b].lead)>>]
           new == [x EXCEPT !.stage = "first", !.at = now]
<1>1. Begins(w, x)
  BY DEF IssueInvite
<1>2. new.op = "issue_invite" /\ new.held = {} /\ new.need = <<LeadLock(booking[b].lead)>>
  BY DEF NoTxn, BookingLocks, ScheduleLock, AccountLock
<1> HIDE DEF new
<1>3. Ordered(new)
  BY <1>2, LockClasses, OneLock DEF GivesTutor
<1> QED
  BY <1>1, <1>3, OneMoves DEF Begins, new

\* At the beginning of the withdrawal of an invitation, the locks needed are in order.
LEMMA RevokeInviteOrdered ==
  ASSUME Inv, \A v \in Workers : Ordered(txn[v]), NEW w \in Workers, NEW i \in Invites,
         RevokeInvite(w, i)
  PROVE  \A v \in Workers : Ordered(txn'[v])
<1> DEFINE x == [NoTxn EXCEPT !.op = "revoke_invite", !.invite = i, !.need = <<InviteLock(i)>>]
           new == [x EXCEPT !.stage = "first", !.at = now]
<1>1. Begins(w, x)
  BY DEF RevokeInvite
<1>2. new.op = "revoke_invite" /\ new.held = {} /\ new.need = <<InviteLock(i)>>
  BY DEF NoTxn, BookingLocks, ScheduleLock, AccountLock
<1> HIDE DEF new
<1>3. Ordered(new)
  BY <1>2, LockClasses, OneLock DEF GivesTutor
<1> QED
  BY <1>1, <1>3, OneMoves DEF Begins, new

\* At the beginning of the opening or closing of an account, the locks needed are in order.
LEMMA SetAccountActiveOrdered ==
  ASSUME Inv, \A v \in Workers : Ordered(txn[v]), NEW w \in Workers, NEW t \in Tutors,
         NEW on \in BOOLEAN,
         SetAccountActive(w, t, on)
  PROVE  \A v \in Workers : Ordered(txn'[v])
<1> DEFINE x == [NoTxn EXCEPT !.op = "set_account_active", !.tutor = t, !.flag = on,
                              !.need = <<<<"account", t>>>>]
           new == [x EXCEPT !.stage = "first", !.at = now]
<1>1. Begins(w, x)
  BY DEF SetAccountActive
<1>2. new.op = "set_account_active" /\ new.held = {} /\ new.need = <<AccountLock(t)>>
  BY DEF NoTxn, BookingLocks, ScheduleLock, AccountLock
<1> HIDE DEF new
<1>3. Ordered(new)
  BY <1>2, LockClasses, OneLock DEF GivesTutor
<1> QED
  BY <1>1, <1>3, OneMoves DEF Begins, new

\* At the beginning of the scheduling of a class, the locks needed are in order.
LEMMA ScheduleClassOrdered ==
  ASSUME Inv, \A v \in Workers : Ordered(txn[v]), NEW w \in Workers, NEW c \in Classes,
         NEW t \in Tutors, NEW start,
         ScheduleClass(w, c, t, start)
  PROVE  \A v \in Workers : Ordered(txn'[v])
<1> DEFINE x == [NoTxn EXCEPT !.op = "schedule_class", !.tutor = t, !.todo = {c},
                 !.need = <<<<"schedule", t>>>>,
                 !.class = [status |-> "SCHEDULED", tutor |-> t, start |-> start]]
           new == [x EXCEPT !.stage = "first", !.at = now]
<1>1. Begins(w, x)
  BY DEF ScheduleClass
<1>2. new.op = "schedule_class" /\ new.held = {} /\ new.need = <<ScheduleLock(t)>>
  BY DEF NoTxn, BookingLocks, ScheduleLock, AccountLock
<1> HIDE DEF new
<1>3. Ordered(new)
  BY <1>2, LockClasses, OneLock DEF GivesTutor
<1> QED
  BY <1>1, <1>3, OneMoves DEF Begins, new

\* The slots of one type are listed by their times.
LEMMA SetSlotsClosedOrdered ==
  ASSUME Inv, \A v \in Workers : Ordered(txn[v]), NEW w \in Workers, NEW ss \in SUBSET Slots,
         NEW close,
         SetSlotsClosed(w, ss, close)
  PROVE  \A v \in Workers : Ordered(txn'[v])
<1> DEFINE need == SlotLocks(ss)
           x == [NoTxn EXCEPT !.op = "set_slots_closed", !.todo = ss, !.flag = close, !.need = need]
           new == [x EXCEPT !.stage = "first", !.at = now]
<1>1. Begins(w, x) /\ \A s, c \in ss : SlotType[s] = SlotType[c]
  BY DEF SetSlotsClosed
<1>2. \A s, c \in ss : s # c => SlotStart[s] # SlotStart[c]
  BY <1>1, ConstantsAssumption
<1>3. \A i, j \in DOMAIN need : i < j => Before(need[i], need[j])
  BY <1>2, SlotLocksList, LockClasses DEF Before
<1> HIDE DEF need
<1>4. new.op = "set_slots_closed" /\ new.held = {} /\ new.need = need
  BY DEF NoTxn
<1> HIDE DEF new
<1>5. Ordered(new)
  BY <1>3, <1>4 DEF Ordered, GivesTutor
<1> QED
  BY <1>1, <1>5, OneMoves DEF Begins, new

\* A list to which two are added.
LEMMA PairAdded ==
  ASSUME NEW S, NEW a \in Seq(S), NEW b \in Seq(S), Len(b) = 2
  PROVE  /\ Len(a) \in Nat /\ DOMAIN a = 1 .. Len(a) /\ DOMAIN (a \o b) = 1 .. Len(a) + 2
         /\ \A i \in 1 .. Len(a) + 2 : (a \o b)[i] = IF i <= Len(a) THEN a[i] ELSE b[i - Len(a)]
<1>1. /\ Len(a \o b) = Len(a) + Len(b) /\ a \o b \in Seq(S) /\ Len(a) \in Nat
      /\ \A i \in 1 .. Len(a) + Len(b) : (a \o b)[i] = IF i <= Len(a) THEN a[i] ELSE b[i - Len(a)]
  <2>1. Len(a \o b) = Len(a) + Len(b) /\ a \o b \in Seq(S)
    BY ConcatProperties, Zenon
  <2>2. \A i \in 1 .. Len(a) + Len(b) : (a \o b)[i] = IF i <= Len(a) THEN a[i] ELSE b[i - Len(a)]
    BY ConcatProperties, Zenon
  <2>3. Len(a) \in Nat
    OBVIOUS
  <2> QED
    BY <2>1, <2>2, <2>3
<1>2. DOMAIN (a \o b) = 1 .. Len(a \o b) /\ DOMAIN a = 1 .. Len(a)
  BY <1>1
<1> QED
  BY <1>1, <1>2

\* A move's slots are listed by their times, then its lead and its row.
LEMMA RescheduleBookingOrdered ==
  ASSUME Inv, \A v \in Workers : Ordered(txn[v]), NEW w \in Workers, NEW b \in Bookings,
         NEW s \in Slots,
         RescheduleBooking(w, b, s)
  PROVE  \A v \in Workers : Ordered(txn'[v])
<1> DEFINE slots == SlotLocks({booking[b].slot, s})
           after == <<LeadLock(booking[b].lead), BookingLock(b)>>
           need == slots \o after
           x == [NoTxn EXCEPT !.op = "reschedule_booking", !.booking = b, !.slot = s,
                              !.lead = booking[b].lead, !.need = need]
           new == [x EXCEPT !.stage = "first", !.at = now]
<1>1. Begins(w, x) /\ Exists(b) /\ s # booking[b].slot /\ SlotType[s] = SlotType[booking[b].slot]
  BY DEF RescheduleBooking, Type
<1>2. {booking[b].slot, s} \in SUBSET Slots
  BY <1>1, RowTyped
<1>3. \A a, c \in {booking[b].slot, s} : a # c => SlotStart[a] # SlotStart[c]
  BY <1>1, <1>2, ConstantsAssumption
<1>4. /\ slots \in Seq(Locks)
      /\ \A i, j \in DOMAIN slots : i < j => Before(slots[i], slots[j])
      /\ \A i \in DOMAIN slots : Class(slots[i]) = 0
  <2>1. /\ slots \in Seq(Locks)
        /\ \A i \in DOMAIN slots : \E a \in {booking[b].slot, s} : slots[i] = SlotLock(a)
        /\ \A i, j \in DOMAIN slots : i < j =>
              \E a, c \in {booking[b].slot, s} : /\ slots[i] = SlotLock(a) /\ slots[j] = SlotLock(c)
                                                /\ SlotStart[a] < SlotStart[c]
    <3> DEFINE ss == {booking[b].slot, s}
    <3>1. ss \in SUBSET Slots /\ \A a, c \in ss : a # c => SlotStart[a] # SlotStart[c]
      BY <1>2, <1>3
    <3> HIDE DEF ss
    <3>2. /\ SlotLocks(ss) \in Seq(Locks)
          /\ \A i \in DOMAIN SlotLocks(ss) : \E a \in ss : SlotLocks(ss)[i] = SlotLock(a)
          /\ \A i, j \in DOMAIN SlotLocks(ss) : i < j =>
                \E a, c \in ss : /\ SlotLocks(ss)[i] = SlotLock(a) /\ SlotLocks(ss)[j] = SlotLock(c)
                                 /\ SlotStart[a] < SlotStart[c]
      BY <3>1, SlotLocksList
    <3> QED
      BY <3>2 DEF ss
  <2> HIDE DEF slots
  <2> QED
    BY <2>1, LockClasses DEF Before
<1>5. /\ after \in Seq(Locks) /\ DOMAIN after = 1 .. 2 /\ Len(after) = 2
      /\ Class(after[1]) = 1 /\ Class(after[2]) = 2
  BY <1>1, RowTyped, ListsTyped, LockClasses
<1> HIDE DEF slots, after
<1>6. /\ Len(slots) \in Nat /\ DOMAIN slots = 1 .. Len(slots) /\ DOMAIN need = 1 .. Len(slots) + 2
      /\ \A i \in 1 .. Len(slots) + 2 : need[i] = IF i <= Len(slots) THEN slots[i] ELSE after[i - Len(slots)]
  BY <1>4, <1>5, PairAdded
<1> HIDE DEF need
<1>7. \A i \in DOMAIN need : \/ i \in DOMAIN slots /\ need[i] = slots[i] /\ Class(need[i]) = 0
                             \/ i = Len(slots) + 1 /\ Class(need[i]) = 1
                             \/ i = Len(slots) + 2 /\ Class(need[i]) = 2
  <2> SUFFICES ASSUME NEW i \in DOMAIN need
               PROVE  \/ i \in DOMAIN slots /\ need[i] = slots[i] /\ Class(need[i]) = 0
                      \/ i = Len(slots) + 1 /\ Class(need[i]) = 1
                      \/ i = Len(slots) + 2 /\ Class(need[i]) = 2
    OBVIOUS
  <2>1. CASE i <= Len(slots)
    BY <1>4, <1>6, <2>1
  <2>2. CASE i = Len(slots) + 1
    <3>1. ~(i <= Len(slots)) /\ i - Len(slots) = 1
      BY <1>6, <2>2
    <3> QED
      BY <1>5, <1>6, <2>2, <3>1
  <2>3. CASE i = Len(slots) + 2
    <3>1. ~(i <= Len(slots)) /\ i - Len(slots) = 2
      BY <1>6, <2>3
    <3> QED
      BY <1>5, <1>6, <2>3, <3>1
  <2> QED
    BY <1>6, <2>1, <2>2, <2>3
<1>8. ASSUME NEW i \in DOMAIN need, NEW j \in DOMAIN need, i < j
      PROVE  Before(need[i], need[j])
  <2>1. CASE Class(need[j]) = 0
    <3>1. i \in DOMAIN slots /\ j \in DOMAIN slots /\ need[i] = slots[i] /\ need[j] = slots[j]
      BY <1>6, <1>7, <1>8, <2>1
    <3> QED
      BY <1>4, <1>8, <3>1
  <2>2. CASE Class(need[j]) # 0
    <3>1. Class(need[i]) < Class(need[j])
      BY <1>6, <1>7, <1>8, <2>2
    <3> QED
      BY <3>1 DEF Before
  <2> QED
    BY <2>1, <2>2
<1>9. \A i \in DOMAIN need : Class(need[i]) <= 2
  BY <1>7
<1>10. new.op = "reschedule_booking" /\ new.held = {} /\ new.need = need
  BY DEF NoTxn
<1> HIDE DEF new
<1>11. Ordered(new)
  BY <1>8, <1>9, <1>10 DEF Ordered
<1> QED
  BY <1>1, <1>11, OneMoves DEF Begins, new

\* At the beginning of the end of a class, the locks needed are in order.
LEMMA EndClassOrdered ==
  ASSUME Inv, \A v \in Workers : Ordered(txn[v]), NEW w \in Workers, NEW c \in Classes,
         EndClass(w, c)
  PROVE  \A v \in Workers : Ordered(txn'[v])
<1> DEFINE x == [NoTxn EXCEPT !.op = "end_class", !.todo = {c},
                !.class = [session[c] EXCEPT !.status = "ENDED"]]
           new == [x EXCEPT !.stage = "first", !.at = now]
<1>1. Begins(w, x)
  BY DEF EndClass
<1>2. new.held = {} /\ new.need = <<>>
  BY DEF NoTxn
<1> HIDE DEF new
<1>3. Ordered(new)
  BY <1>2, NothingNeeded
<1> QED
  BY <1>1, <1>3, OneMoves DEF Begins, new

\* At the beginning of the editing of a class, the locks needed are in order.
LEMMA EditClassOrdered ==
  ASSUME Inv, \A v \in Workers : Ordered(txn[v]), NEW w \in Workers, NEW c \in Classes,
         EditClass(w, c)
  PROVE  \A v \in Workers : Ordered(txn'[v])
<1> DEFINE x == [NoTxn EXCEPT !.op = "edit_class", !.todo = {c}, !.class = session[c]]
           new == [x EXCEPT !.stage = "first", !.at = now]
<1>1. Begins(w, x)
  BY DEF EditClass
<1>2. new.held = {} /\ new.need = <<>>
  BY DEF NoTxn
<1> HIDE DEF new
<1>3. Ordered(new)
  BY <1>2, NothingNeeded
<1> QED
  BY <1>1, <1>3, OneMoves DEF Begins, new
\* A lock taken is the first of those still needed.
LEMMA TakeLockOrdered ==
  ASSUME Inv, \A v \in Workers : Ordered(txn[v]), NEW w \in Workers, TakeLock(w)
  PROVE  \A v \in Workers : Ordered(txn'[v])
<1> DEFINE x == txn[w]
           lock == Head(x.need)
           new == [x EXCEPT !.need = Tail(@), !.held = @ \cup {lock}]
<1>1. txn' = [txn EXCEPT ![w] = new] /\ x.need # <<>>
  BY DEF TakeLock, Inv, TypeOK
<1>2. x \in Transactions /\ x.need \in Seq(Locks)
  BY <1>1 DEF Inv, TypeOK, NoTxn, Transactions
<1>3. /\ new.op = x.op /\ new.stage = x.stage
      /\ new.need = Tail(x.need) /\ new.held = x.held \cup {lock}
  BY <1>2 DEF Transactions
<1>4. /\ 1 \in DOMAIN x.need /\ lock = x.need[1]
      /\ \A i \in DOMAIN Tail(x.need) :
            i + 1 \in DOMAIN x.need /\ Tail(x.need)[i] = x.need[i + 1] /\ i \in Nat /\ i > 0
  <2>1. /\ Len(Tail(x.need)) = Len(x.need) - 1 /\ Tail(x.need) \in Seq(Locks) /\ lock = x.need[1]
        /\ \A i \in 1 .. Len(Tail(x.need)) : Tail(x.need)[i] = x.need[i + 1]
    BY <1>1, <1>2, HeadTailProperties
  <2>2. /\ Len(x.need) \in Nat /\ Len(x.need) # 0 /\ DOMAIN x.need = 1 .. Len(x.need)
        /\ DOMAIN Tail(x.need) = 1 .. Len(Tail(x.need))
    BY <1>1, <1>2, <2>1
  <2> HIDE DEF x
  <2> QED
    BY <2>1, <2>2
<1> HIDE DEF new
<1>5. Ordered(x)
  OBVIOUS
<1>6. Ordered(new)
  <2>1. ASSUME NEW i \in DOMAIN new.need, NEW j \in DOMAIN new.need, i < j
        PROVE  Before(new.need[i], new.need[j])
    <3>1. /\ i + 1 \in DOMAIN x.need /\ new.need[i] = x.need[i + 1]
          /\ j + 1 \in DOMAIN x.need /\ new.need[j] = x.need[j + 1] /\ i + 1 < j + 1
      BY <1>3, <1>4, <2>1
    <3> QED
      BY <1>5, <3>1 DEF Ordered
  <2>2. ASSUME NEW held \in new.held, NEW i \in DOMAIN new.need
        PROVE  Before(held, new.need[i])
    <3>1. i + 1 \in DOMAIN x.need /\ new.need[i] = x.need[i + 1] /\ 1 < i + 1
      BY <1>3, <1>4
    <3> QED
      BY <1>3, <1>4, <1>5, <3>1 DEF Ordered
  <2>3. ASSUME new.stage = "first", new.op \in GivesTutor
        PROVE  (\A held \in new.held : Class(held) <= 2) /\ \A i \in DOMAIN new.need : Class(new.need[i]) <= 2
    BY <1>3, <1>4, <1>5, <2>3 DEF Ordered
  <2>4. ASSUME new.stage = "first", new.op = "issue_invite"
        PROVE  (\A held \in new.held : Class(held) <= 1) /\ \A i \in DOMAIN new.need : Class(new.need[i]) <= 1
    BY <1>3, <1>4, <1>5, <2>4 DEF Ordered
  <2> QED
    BY <2>1, <2>2, <2>3, <2>4 DEF Ordered
<1> QED
  BY <1>1, <1>6, OneMoves

\* A transaction that ends, and one that goes on and needs nothing more.
LEMMA EndsOrdered ==
  ASSUME Inv, \A v \in Workers : Ordered(txn[v]), NEW w \in Workers, NEW new,
         txn' = [txn EXCEPT ![w] = new], new = NoTxn \/ (new.need = <<>> /\ new.stage # "first")
  PROVE  \A v \in Workers : Ordered(txn'[v])
<1>1. Ordered(new)
  BY NothingNeeded DEF NoTxn
<1> QED
  BY <1>1, OneMoves

\* Most checks are the last before the transaction writes.
LEMMA ChecksOrdered ==
  ASSUME Inv, \A v \in Workers : Ordered(txn[v]), NEW w \in Workers, NEW op, NEW stage,
         HasLocks(w, op, stage), NEW new, txn' = [txn EXCEPT ![w] = new],
         \/ new = NoTxn \/ new = Writing(txn[w])
         \/ \E seat : new = [Writing(txn[w]) EXCEPT !.seat = seat]
         \/ \E value : new = [Writing(txn[w]) EXCEPT !.value = value]
         \/ \E todo : new = [Writing(txn[w]) EXCEPT !.todo = todo]
         \/ \E seat, value : new = [Writing(txn[w]) EXCEPT !.seat = seat, !.value = value]
         \/ \E tutor, value : new = [Writing(txn[w]) EXCEPT !.tutor = tutor, !.value = value]
  PROVE  \A v \in Workers : Ordered(txn'[v])
<1>1. txn[w] \in Transactions \cup {NoTxn} /\ txn[w].need = <<>>
  BY DEF HasLocks, Inv, TypeOK
<1>2. Writing(txn[w]).need = <<>> /\ Writing(txn[w]).stage = "writing"
  BY <1>1 DEF Writing, Transactions, NoTxn
<1>3. new = NoTxn \/ (new.need = <<>> /\ new.stage # "first")
  BY <1>1, <1>2 DEF Writing, Transactions, NoTxn
<1> QED
  BY <1>3, EndsOrdered

\* After the check before a booking, the locks still needed are in order.
LEMMA CheckCreateOrdered ==
  ASSUME Inv, \A v \in Workers : Ordered(txn[v]), NEW w \in Workers, CheckCreate(w)
  PROVE  \A v \in Workers : Ordered(txn'[v])
<1>1. HasLocks(w, "create_booking", "first")
  BY DEF CheckCreate
<1>2. PICK accepted \in BOOLEAN :
         txn' = [txn EXCEPT ![w] =
            IF accepted THEN [Writing(txn[w]) EXCEPT !.seat = LowestSeat(txn[w].slot)] ELSE NoTxn]
  BY DEF CheckCreate, Decides
<1> QED
  BY <1>1, <1>2, ChecksOrdered

\* After the check before an invited Demo, the locks still needed are in order.
LEMMA CheckInvitedOrdered ==
  ASSUME Inv, \A v \in Workers : Ordered(txn[v]), NEW w \in Workers, CheckInvited(w)
  PROVE  \A v \in Workers : Ordered(txn'[v])
<1>1. HasLocks(w, "create_invited_demo_booking", "first")
  BY DEF CheckInvited
<1>2. PICK accepted \in BOOLEAN :
         txn' = [txn EXCEPT ![w] =
            IF accepted THEN [Writing(txn[w]) EXCEPT !.seat = LowestSeat(txn[w].slot)] ELSE NoTxn]
  BY DEF CheckInvited, Decides
<1> QED
  BY <1>1, <1>2, ChecksOrdered

\* After the check before a Re-Demo's tutor, the locks still needed are in order.
LEMMA CheckRedemoTutorOrdered ==
  ASSUME Inv, \A v \in Workers : Ordered(txn[v]), NEW w \in Workers, CheckRedemoTutor(w)
  PROVE  \A v \in Workers : Ordered(txn'[v])
<1>1. HasLocks(w, "schedule_redemo", "tutor")
  BY DEF CheckRedemoTutor
<1>2. PICK accepted \in BOOLEAN :
         txn' = [txn EXCEPT ![w] =
            IF accepted THEN [Writing(txn[w]) EXCEPT !.seat = LowestSeat(txn[w].slot), !.value = meetLink[txn[w].tutor]]
            ELSE NoTxn]
  BY DEF CheckRedemoTutor, Decides
<1> QED
  BY <1>1, <1>2, ChecksOrdered

\* After the check before a request for a Re-Demo, the locks still needed are in order.
LEMMA CheckRequestOrdered ==
  ASSUME Inv, \A v \in Workers : Ordered(txn[v]), NEW w \in Workers, CheckRequest(w)
  PROVE  \A v \in Workers : Ordered(txn'[v])
<1>1. HasLocks(w, "request_redemo", "first")
  BY DEF CheckRequest
<1>2. PICK accepted \in BOOLEAN :
         txn' = [txn EXCEPT ![w] =
            IF accepted THEN Writing(txn[w]) ELSE NoTxn]
  BY DEF CheckRequest, Decides
<1> QED
  BY <1>1, <1>2, ChecksOrdered

\* After the check before a cancellation, the locks still needed are in order.
LEMMA CheckCancelOrdered ==
  ASSUME Inv, \A v \in Workers : Ordered(txn[v]), NEW w \in Workers, CheckCancel(w)
  PROVE  \A v \in Workers : Ordered(txn'[v])
<1>1. HasLocks(w, "cancel_booking", "first")
  BY DEF CheckCancel
<1>2. PICK accepted \in BOOLEAN :
         txn' = [txn EXCEPT ![w] =
            IF accepted THEN Writing(txn[w]) ELSE NoTxn]
  BY DEF CheckCancel, Decides
<1> QED
  BY <1>1, <1>2, ChecksOrdered

\* After the check before a parent's answer, the locks still needed are in order.
LEMMA CheckConfirmationOrdered ==
  ASSUME Inv, \A v \in Workers : Ordered(txn[v]), NEW w \in Workers, CheckConfirmation(w)
  PROVE  \A v \in Workers : Ordered(txn'[v])
<1>1. HasLocks(w, "record_parent_confirmation", "first")
  BY DEF CheckConfirmation
<1>2. PICK accepted \in BOOLEAN :
         txn' = [txn EXCEPT ![w] =
            IF accepted THEN Writing(txn[w]) ELSE NoTxn]
  BY DEF CheckConfirmation, Decides
<1> QED
  BY <1>1, <1>2, ChecksOrdered

\* After the check before an assigned tutor, the locks still needed are in order.
LEMMA CheckAssignOrdered ==
  ASSUME Inv, \A v \in Workers : Ordered(txn[v]), NEW w \in Workers, CheckAssign(w)
  PROVE  \A v \in Workers : Ordered(txn'[v])
<1>1. HasLocks(w, "assign_tutor", "tutor")
  BY DEF CheckAssign
<1>2. PICK accepted \in BOOLEAN :
         txn' = [txn EXCEPT ![w] =
            IF accepted THEN [Writing(txn[w]) EXCEPT !.value = meetLink[txn[w].tutor]] ELSE NoTxn]
  BY DEF CheckAssign, Decides
<1> QED
  BY <1>1, <1>2, ChecksOrdered

\* After the check before taking a tutor away, the locks still needed are in order.
LEMMA CheckUnassignOrdered ==
  ASSUME Inv, \A v \in Workers : Ordered(txn[v]), NEW w \in Workers, CheckUnassign(w)
  PROVE  \A v \in Workers : Ordered(txn'[v])
<1>1. HasLocks(w, "unassign_tutor", "first")
  BY DEF CheckUnassign
<1>2. PICK accepted \in BOOLEAN :
         txn' = [txn EXCEPT ![w] =
            IF accepted THEN Writing(txn[w]) ELSE NoTxn]
  BY DEF CheckUnassign, Decides
<1> QED
  BY <1>1, <1>2, ChecksOrdered

\* After the check before a start, the locks still needed are in order.
LEMMA CheckStartOrdered ==
  ASSUME Inv, \A v \in Workers : Ordered(txn[v]), NEW w \in Workers, CheckStart(w)
  PROVE  \A v \in Workers : Ordered(txn'[v])
<1>1. HasLocks(w, "start_booking", "first")
  BY DEF CheckStart
<1>2. PICK accepted \in BOOLEAN :
         txn' = [txn EXCEPT ![w] =
            IF accepted THEN Writing(txn[w]) ELSE NoTxn]
  BY DEF CheckStart, Decides
<1> QED
  BY <1>1, <1>2, ChecksOrdered

\* After the check before a report, the locks still needed are in order.
LEMMA CheckReportOrdered ==
  ASSUME Inv, \A v \in Workers : Ordered(txn[v]), NEW w \in Workers, CheckReport(w)
  PROVE  \A v \in Workers : Ordered(txn'[v])
<1>1. HasLocks(w, "submit_report", "first")
  BY DEF CheckReport
<1>2. PICK accepted \in BOOLEAN :
         txn' = [txn EXCEPT ![w] =
            IF accepted THEN Writing(txn[w]) ELSE NoTxn]
  BY DEF CheckReport, Decides
<1> QED
  BY <1>1, <1>2, ChecksOrdered

\* After the check before closing an account, the locks still needed are in order.
LEMMA CheckAccountOrdered ==
  ASSUME Inv, \A v \in Workers : Ordered(txn[v]), NEW w \in Workers, CheckAccount(w)
  PROVE  \A v \in Workers : Ordered(txn'[v])
<1>1. HasLocks(w, "set_account_active", "first")
  BY DEF CheckAccount
<1>2. PICK accepted \in BOOLEAN :
         txn' = [txn EXCEPT ![w] =
            IF accepted THEN Writing(txn[w]) ELSE NoTxn]
  BY DEF CheckAccount, Decides
<1> QED
  BY <1>1, <1>2, ChecksOrdered

\* After the check before a class, the locks still needed are in order.
LEMMA CheckClassOrdered ==
  ASSUME Inv, \A v \in Workers : Ordered(txn[v]), NEW w \in Workers, CheckClass(w)
  PROVE  \A v \in Workers : Ordered(txn'[v])
<1>1. HasLocks(w, "schedule_class", "first")
  BY DEF CheckClass
<1>2. PICK accepted \in BOOLEAN :
         txn' = [txn EXCEPT ![w] =
            IF accepted THEN Writing(txn[w]) ELSE NoTxn]
  BY DEF CheckClass, Decides
<1> QED
  BY <1>1, <1>2, ChecksOrdered

\* After the check before an invitation, the locks still needed are in order.
LEMMA CheckIssueOpenOrdered ==
  ASSUME Inv, \A v \in Workers : Ordered(txn[v]), NEW w \in Workers, CheckIssueOpen(w)
  PROVE  \A v \in Workers : Ordered(txn'[v])
<1>1. HasLocks(w, "issue_invite", "invite")
  BY DEF CheckIssueOpen
<1>2. PICK accepted \in BOOLEAN :
         txn' = [txn EXCEPT ![w] =
            IF accepted THEN [Writing(txn[w]) EXCEPT !.todo = OpenInvites(txn[w].booking)]
            ELSE NoTxn]
  BY DEF CheckIssueOpen, Decides
<1> QED
  BY <1>1, <1>2, ChecksOrdered

\* After the check before a withdrawal, the locks still needed are in order.
LEMMA CheckRevokeOrdered ==
  ASSUME Inv, \A v \in Workers : Ordered(txn[v]), NEW w \in Workers, CheckRevoke(w)
  PROVE  \A v \in Workers : Ordered(txn'[v])
<1>1. HasLocks(w, "revoke_invite", "first")
  BY DEF CheckRevoke
<1>2. PICK accepted \in BOOLEAN :
         txn' = [txn EXCEPT ![w] =
            IF accepted THEN Writing(txn[w]) ELSE NoTxn]
  BY DEF CheckRevoke, Decides
<1> QED
  BY <1>1, <1>2, ChecksOrdered
\* After the check before a moved booking's tutor, the locks still needed are in order.
LEMMA CheckMoveTutorOrdered ==
  ASSUME Inv, \A v \in Workers : Ordered(txn[v]), NEW w \in Workers, CheckMoveTutor(w)
  PROVE  \A v \in Workers : Ordered(txn'[v])
<1>1. HasLocks(w, "reschedule_booking", "tutor")
  BY DEF CheckMoveTutor
<1>2. PICK tutor, value : txn' = [txn EXCEPT ![w] = [Writing(txn[w]) EXCEPT !.tutor = tutor, !.value = value]]
  BY DEF CheckMoveTutor, Decides
<1> QED
  BY <1>1, <1>2, ChecksOrdered

\* A tutor's locks come after all that is locked before a tutor is.
LEMMA TutorLocksOrdered ==
  ASSUME NEW x, Ordered(x), x.stage = "first", x.op \in GivesTutor,
         NEW new, new.held = x.held, new.stage = "tutor",
         new.need = <<>> \/ \E t : new.need = TutorLocks(t)
  PROVE  Ordered(new)
<1>1. \A held \in new.held : Class(held) <= 2
  BY DEF Ordered
<1>2. CASE new.need = <<>>
  BY <1>2, NothingNeeded
<1>3. ASSUME NEW t, new.need = TutorLocks(t)
      PROVE  Ordered(new)
  <2>1. new.need = <<ScheduleLock(t), AccountLock(t)>>
    BY <1>3 DEF TutorLocks, ScheduleLock, AccountLock
  <2>2. DOMAIN new.need = 1 .. 2 /\ new.need[1] = ScheduleLock(t) /\ new.need[2] = AccountLock(t)
    BY <2>1
  <2>3. \A i \in DOMAIN new.need : i = 1 \/ i = 2
    BY <2>2
  <2>4. ASSUME NEW held \in new.held
        PROVE  Class(held) < 3 /\ Class(held) < 4
    <3>1. Class(held) <= 2
      BY <1>1, <2>4
    <3> QED
      BY <3>1 DEF Class
  <2> QED
    BY <2>2, <2>3, <2>4, LockClasses DEF Ordered, Before
<1> QED
  BY <1>2, <1>3

\* After the check before a Re-Demo, the locks still needed are in order.
LEMMA CheckRedemoRequestOrdered ==
  ASSUME Inv, \A v \in Workers : Ordered(txn[v]), NEW w \in Workers, CheckRedemoRequest(w)
  PROVE  \A v \in Workers : Ordered(txn'[v])
<1> DEFINE x == txn[w]
           new == [x EXCEPT !.stage = "tutor", !.need = TutorLocks(x.tutor)]
<1>1. x.op = "schedule_redemo" /\ x.stage = "first"
  BY DEF CheckRedemoRequest, HasLocks
<1>2. PICK accepted \in BOOLEAN : txn' = [txn EXCEPT ![w] = IF accepted THEN new ELSE NoTxn]
  BY DEF CheckRedemoRequest, Decides
<1>3. new.held = x.held /\ new.stage = "tutor" /\ new.need = TutorLocks(x.tutor)
  BY DEF Inv, TypeOK, Transactions, NoTxn
<1> HIDE DEF new
<1>4. Ordered(new)
  BY <1>1, <1>3, TutorLocksOrdered DEF GivesTutor
<1> QED
  BY <1>2, <1>4, OneMoves, EndsOrdered

\* After the check before a move, the locks still needed are in order.
LEMMA CheckMoveOrdered ==
  ASSUME Inv, \A v \in Workers : Ordered(txn[v]), NEW w \in Workers, CheckMove(w)
  PROVE  \A v \in Workers : Ordered(txn'[v])
<1> DEFINE x == txn[w]
           tutor == booking[x.booking].tutor
           need == IF tutor = None THEN <<>> ELSE TutorLocks(tutor)
           new == [x EXCEPT !.stage = "tutor", !.seat = LowestSeat(x.slot), !.tutor = tutor, !.need = need]
<1>1. x.op = "reschedule_booking" /\ x.stage = "first"
  BY DEF CheckMove, HasLocks
<1>2. PICK accepted \in BOOLEAN : txn' = [txn EXCEPT ![w] = IF accepted THEN new ELSE NoTxn]
  BY DEF CheckMove, Decides
<1>3. need = <<>> \/ need = TutorLocks(tutor)
  OBVIOUS
<1> HIDE DEF tutor, need
<1>4. new.held = x.held /\ new.stage = "tutor" /\ new.need = need
  BY DEF Inv, TypeOK, Transactions, NoTxn
<1> HIDE DEF new
<1>5. Ordered(new)
  BY <1>1, <1>3, <1>4, TutorLocksOrdered DEF GivesTutor
<1> QED
  BY <1>2, <1>5, OneMoves, EndsOrdered

\* After the check before an assignment, the locks still needed are in order.
LEMMA CheckAssignableOrdered ==
  ASSUME Inv, \A v \in Workers : Ordered(txn[v]), NEW w \in Workers, CheckAssignable(w)
  PROVE  \A v \in Workers : Ordered(txn'[v])
<1> DEFINE x == txn[w]
           new == [x EXCEPT !.stage = "tutor", !.need = TutorLocks(x.tutor)]
<1>1. x.op = "assign_tutor" /\ x.stage = "first"
  BY DEF CheckAssignable, HasLocks
<1>2. PICK accepted \in BOOLEAN : txn' = [txn EXCEPT ![w] = IF accepted THEN new ELSE NoTxn]
  BY DEF CheckAssignable, Decides
<1>3. new.held = x.held /\ new.stage = "tutor" /\ new.need = TutorLocks(x.tutor)
  BY DEF Inv, TypeOK, Transactions, NoTxn
<1> HIDE DEF new
<1>4. Ordered(new)
  BY <1>1, <1>3, TutorLocksOrdered DEF GivesTutor
<1> QED
  BY <1>2, <1>4, OneMoves, EndsOrdered

\* An invitation is locked after its lead.
LEMMA CheckIssueOrdered ==
  ASSUME Inv, \A v \in Workers : Ordered(txn[v]), NEW w \in Workers, CheckIssue(w)
  PROVE  \A v \in Workers : Ordered(txn'[v])
<1> DEFINE x == txn[w]
           need == LET open == OpenInvites(x.booking)
                   IN  IF open = {} THEN <<>> ELSE <<InviteLock(CHOOSE i \in open : TRUE)>>
           new == [x EXCEPT !.stage = "invite", !.need = need]
<1>1. x.op = "issue_invite" /\ x.stage = "first"
  BY DEF CheckIssue, HasLocks
<1>2. PICK accepted \in BOOLEAN : txn' = [txn EXCEPT ![w] = IF accepted THEN new ELSE NoTxn]
  BY DEF CheckIssue, Decides
<1>3. need = <<>> \/ \E i : need = <<InviteLock(i)>>
  OBVIOUS
<1> HIDE DEF need
<1>4. new.held = x.held /\ new.stage = "invite" /\ new.need = need
  BY DEF Inv, TypeOK, Transactions, NoTxn
<1> HIDE DEF new
<1>5. Ordered(new)
  <2>1. CASE need = <<>>
    BY <1>4, <2>1, NothingNeeded
  <2>2. ASSUME NEW i, need = <<InviteLock(i)>>
        PROVE  Ordered(new)
    <3>1. \A n \in DOMAIN new.need : n = 1 /\ Class(new.need[n]) = 2
      <4>1. DOMAIN new.need = 1 .. 1 /\ new.need[1] = InviteLock(i)
        BY <1>4, <2>2
      <4> QED
        BY <4>1, LockClasses
    <3>2. ASSUME NEW held \in new.held
          PROVE  Class(held) < 2
      <4>1. Class(held) <= 1
        BY <1>1, <1>4, <3>2 DEF Ordered
      <4> QED
        BY <4>1 DEF Class
    <3> QED
      BY <1>4, <3>1, <3>2 DEF Ordered, Before
  <2> QED
    BY <1>3, <2>1, <2>2
<1> QED
  BY <1>2, <1>5, OneMoves, EndsOrdered
\* Every step keeps the order, where no tutor's link is set: that one locks rows again as it saves.
LEMMA NextOrdered ==
  ASSUME Inv, Next, "set_tutor_meet_link" \notin Ops, \A v \in Workers : Ordered(txn[v])
  PROVE  \A v \in Workers : Ordered(txn'[v])
<1>1. ASSUME NEW w \in Workers, BeginsBooking(w)
      PROVE  \A v \in Workers : Ordered(txn'[v])
  BY <1>1, CreateBookingOrdered, CreateInvitedDemoBookingOrdered, ScheduleRedemoOrdered
     DEF BeginsBooking
<1>2. ASSUME NEW w \in Workers, BeginsChange(w)
      PROVE  \A v \in Workers : Ordered(txn'[v])
  BY <1>2, RequestRedemoOrdered, CancelBookingOrdered, UnassignTutorOrdered, IssueInviteOrdered,
     RescheduleBookingOrdered, RecordParentConfirmationOrdered, AssignTutorOrdered,
     StartBookingOrdered,
     SubmitReportOrdered DEF BeginsChange
<1>3. ASSUME NEW w \in Workers, BeginsOther(w)
      PROVE  \A v \in Workers : Ordered(txn'[v])
  <2>1. ~\E t \in Tutors, link \in Links \cup {None} : SetTutorMeetLink(w, t, link)
    BY DEF SetTutorMeetLink, Begins, NoTxn
  <2> QED
    BY <1>3, <2>1, SetSlotsClosedOrdered, SetAccountActiveOrdered, ScheduleClassOrdered,
       EndClassOrdered, EditClassOrdered, RevokeInviteOrdered DEF BeginsOther
<1>4. ASSUME NEW w \in Workers, Checks(w)
      PROVE  \A v \in Workers : Ordered(txn'[v])
  <2>1. ~CheckLink(w)
    <3>1. ASSUME HasLocks(w, "set_tutor_meet_link", "first")
          PROVE  FALSE
      BY <3>1, HasLocksRight DEF Operations, Right, ShapedRest
    <3> QED
      BY <3>1 DEF CheckLink
  <2> QED
    BY <1>4, <2>1, CheckCreateOrdered, CheckInvitedOrdered, CheckRedemoRequestOrdered,
       CheckRedemoTutorOrdered, CheckRequestOrdered, CheckMoveOrdered, CheckMoveTutorOrdered,
       CheckCancelOrdered, CheckConfirmationOrdered, CheckAssignableOrdered, CheckAssignOrdered,
       CheckUnassignOrdered, CheckStartOrdered, CheckReportOrdered, CheckAccountOrdered,
       CheckClassOrdered, CheckIssueOrdered, CheckIssueOpenOrdered, CheckRevokeOrdered DEF Checks
<1>5. ASSUME NEW w \in Workers, txn' = [txn EXCEPT ![w] = NoTxn]
      PROVE  \A v \in Workers : Ordered(txn'[v])
  BY <1>5, EndsOrdered
<1>6. ASSUME NEW w \in Workers, Commits(w)
      PROVE  \A v \in Workers : Ordered(txn'[v])
  <2>1. txn' = [txn EXCEPT ![w] = NoTxn]
    BY <1>6, CommitWritten DEF WrittenBy
  <2> QED
    BY <1>5, <2>1
<1>7. CASE Tick \/ \E i \in Invites : ExpireInvite(i)
  BY <1>7 DEF Tick, ExpireInvite
<1>8. ASSUME NEW w \in Workers, TakeLock(w) \/ LockTimesOut(w)
      PROVE  \A v \in Workers : Ordered(txn'[v])
  BY <1>5, <1>8, TakeLockOrdered DEF LockTimesOut
<1> QED
  BY <1>1, <1>2, <1>3, <1>4, <1>6, <1>7, <1>8 DEF Next

\* Who waits for another needs a lock that comes before what the other needs, if it needs any.
LEMMA WaitsUpward ==
  ASSUME TypeOK, \A v \in Workers : Ordered(txn[v]),
         NEW v \in Workers, NEW w \in Workers, WaitsFor(v, w), txn[w].need # <<>>
  PROVE  /\ Head(txn[v].need) \in Locks /\ Head(txn[w].need) \in Locks
         /\ Before(Head(txn[v].need), Head(txn[w].need))
<1>1. txn[v].need \in Seq(Locks) /\ txn[w].need \in Seq(Locks) /\ txn[v].need # <<>>
  BY DEF WaitsFor, TypeOK, Transactions, NoTxn
<1>2. Head(txn[v].need) \in Locks /\ Head(txn[w].need) \in Locks
  BY <1>1
<1>3. 1 \in DOMAIN txn[w].need /\ Head(txn[w].need) = txn[w].need[1]
  BY <1>1
<1> QED
  BY <1>2, <1>3 DEF WaitsFor, Ordered

\* Locks that come later have greater classes, and slots that come later have fewer after them: of
\* any set one waits for a lock that none of the others does, or a later one.
LEMMA OrderedNeverWaitInCircle ==
  ASSUME TypeOK, \A v \in Workers : Ordered(txn[v])
  PROVE  NoCircularWait
<1> SUFFICES ASSUME NEW set \in (SUBSET Workers) \ {{}},
                    \A v \in set : \E w \in set \ {v} : WaitsFor(v, w)
             PROVE  FALSE
  BY Zenon DEF NoCircularWait
<1> set \subseteq Workers /\ set # {}
  OBVIOUS
<1> DEFINE head(v) == Head(txn[v].need)
           after(s) == {c \in Slots : SlotStart[s] < SlotStart[c]}
<1>1. \A v \in set : txn[v].need # <<>>
  BY DEF WaitsFor
<1>2. \A v \in set : \E w \in set : /\ head(v) \in Locks /\ head(w) \in Locks
                                    /\ Before(head(v), head(w))
  BY <1>1, WaitsUpward
<1> HIDE DEF head
<1>3. PICK top \in set : \A w \in set : Class(head(w)) <= Class(head(top))
  <2> DEFINE below == {4 - Class(head(v)) : v \in set}
  <2>1. \A v \in set : Class(head(v)) \in 0 .. 4
    BY <1>2, ClassTyped
  <2>2. below \in SUBSET Nat /\ below # {}
    BY <2>1
  <2>3. PICK n \in below : \A m \in below : n <= m
    <3> HIDE DEF below
    <3> QED
      BY <2>2, LeastNumber
  <2>4. PICK v \in set : n = 4 - Class(head(v))
    OBVIOUS
  <2>5. ASSUME NEW w \in set
        PROVE  Class(head(w)) <= Class(head(v))
    <3>1. 4 - Class(head(v)) <= 4 - Class(head(w))
      BY <2>3, <2>4
    <3> QED
      BY <2>1, <3>1
  <2> QED
    BY <2>5
<1>4. Class(head(top)) = 0
  <2>1. PICK w \in set : head(top) \in Locks /\ head(w) \in Locks /\ Before(head(top), head(w))
    BY <1>2
  <2> QED
    BY <1>3, <2>1, ClassTyped DEF Before
<1>5. ASSUME NEW v \in set
      PROVE  Class(head(v)) = 0 /\ head(v)[2] \in Slots
  <2>1. head(v) \in Locks
    BY <1>2
  <2>2. Class(head(v)) \in 0 .. 4
    BY <2>1, ClassTyped
  <2>3. Class(head(v)) <= 0
    BY <1>3, <1>4
  <2>4. Class(head(v)) = 0
    BY <2>2, <2>3
  <2> QED
    BY <2>1, <2>4, ClassTyped
<1>6. \A v \in set : \E w \in set : SlotStart[head(v)[2]] < SlotStart[head(w)[2]]
  BY <1>2, <1>5 DEF Before
<1>7. \A s \in Slots : IsFiniteSet(after(s)) /\ Cardinality(after(s)) \in Nat
  BY ConstantsAssumption, FS_Subset, FS_CardinalityType
<1>8. ASSUME NEW s \in Slots, NEW c \in Slots, SlotStart[s] < SlotStart[c]
      PROVE  Cardinality(after(c)) < Cardinality(after(s))
  <2>1. SlotStart[s] \in Nat /\ SlotStart[c] \in Nat /\ \A d \in Slots : SlotStart[d] \in Nat
    BY ConstantsAssumption
  <2>2. after(c) \subseteq after(s) /\ c \in after(s) /\ c \notin after(c)
    BY <1>8, <2>1
  <2>3. Cardinality(after(c)) <= Cardinality(after(s)) /\ Cardinality(after(c)) # Cardinality(after(s))
    BY <1>7, <2>2, FS_Subset
  <2> HIDE DEF after
  <2> QED
    BY <1>7, <2>3
<1> HIDE DEF after
<1>9. PICK last \in set : \A w \in set : Cardinality(after(head(last)[2])) <= Cardinality(after(head(w)[2]))
  <2> DEFINE counts == {Cardinality(after(head(v)[2])) : v \in set}
  <2>1. counts \in SUBSET Nat /\ counts # {}
    BY <1>5, <1>7
  <2>2. PICK n \in counts : \A m \in counts : n <= m
    <3> HIDE DEF counts
    <3> QED
      BY <2>1, LeastNumber
  <2> QED
    BY <2>2
<1>10. PICK w \in set : SlotStart[head(last)[2]] < SlotStart[head(w)[2]]
  BY <1>6
<1>11. Cardinality(after(head(w)[2])) < Cardinality(after(head(last)[2]))
  BY <1>5, <1>8, <1>10
<1> QED
  BY <1>5, <1>7, <1>9, <1>11

\* Transactions never wait for each other in a circle, of whatever length: but for the setting of a
\* tutor's link, which locks rows again after the account.
THEOREM NeverCircularWait ==
  ASSUME "set_tutor_meet_link" \notin Ops
  PROVE  Spec => []NoCircularWait
<1>1. Init => OrderInv
  <2>1. ASSUME NEW x, x = NoTxn
        PROVE  Ordered(x)
    BY <2>1, NothingNeeded DEF NoTxn
  <2> QED
    BY <2>1 DEF Init, OrderInv
<1>2. Inv /\ OrderInv /\ [Next]_vars => OrderInv'
  <2>1. CASE UNCHANGED vars
    BY <2>1 DEF vars, OrderInv
  <2>2. ASSUME Inv, OrderInv, Next
        PROVE  OrderInv'
    BY <2>2, NextOrdered DEF OrderInv
  <2> QED
    BY <2>1, <2>2
<1>3. Inv /\ OrderInv => NoCircularWait
  BY OrderedNeverWaitInCircle DEF Inv, OrderInv
<1> QED
  BY <1>1, <1>2, <1>3, Invariant, PTL DEF Spec
=============================================================================
