------------------------------ MODULE Bookings ------------------------------
(***************************************************************************)
(* Bookings of Diagnostics and Demos: src/backend/bookings.  Parents book  *)
(* seats in slots, staff move and cancel the bookings, give them tutors,   *)
(* invite to Demos and schedule Re-Demos, tutors start them and report on  *)
(* them, and classes are scheduled for the same tutors.                    *)
(*                                                                         *)
(* Every operation is a transaction of a worker: it begins by what the     *)
(* code reads before its locks, takes its row and advisory locks one at a  *)
(* time, checks, writes, and frees its locks as it commits.  What another  *)
(* transaction does between two of those steps is seen or not as           *)
(* PostgreSQL's READ COMMITTED shows it.  No index refuses anything here:  *)
(* that the locks alone keep the rules is what is checked.                 *)
(***************************************************************************)
EXTENDS Integers, Sequences, FiniteSets

CONSTANTS
    Workers,    \* what runs transactions: request handlers
    Bookings,   \* keys of booking rows of both types, numbers, in the order they are made
    Invites,    \* keys of Demo invitations, numbers
    Classes,    \* keys of Sessions
    Leads, Slots, Tutors,
    Links,      \* Google Meet links
    None,
    SlotType,   \* [Slots -> {"DIAGNOSTIC", "DEMO"}]
    SlotStart,  \* [Slots -> Nat]
    Capacity,   \* [Slots -> Nat]: BookingSlot.capacity
    Phone,      \* of each lead; siblings share one
    DailyLimit, \* BOOKING_PHONE_DAILY_LIMIT
    SlotLength, \* SLOT_MINUTES: how long slots and classes last
    StartEarly, \* START_EARLY
    DayLength,
    Moments,    \* the times the clock shows: those the code compares with
    Ops,        \* the operations of an instance
    AtStart     \* the rows there may be when it begins

MakesBooking == {"create_booking", "create_invited_demo_booking", "schedule_redemo", "reschedule_booking"}
Operations ==
    MakesBooking \cup
    {"request_redemo", "cancel_booking", "record_parent_confirmation", "assign_tutor",
     "unassign_tutor", "start_booking", "submit_report", "set_tutor_meet_link", "set_slots_closed",
     "set_account_active", "schedule_class", "end_class", "edit_class", "issue_invite",
     "revoke_invite"}

BookingTypes == {"DIAGNOSTIC", "DEMO"}
Statuses == {"ABSENT", "BOOKED", "COMPLETED", "REDEMO_REQUIRED", "CANCELLED", "RESCHEDULED"}
CONDUCTED == {"COMPLETED", "REDEMO_REQUIRED"}
HOLDS_SEAT == CONDUCTED \cup {"BOOKED"}

\* A booking row; the request a Re-Demo is for (redemo_for) is named by the one Demo it is about
Blank == [status |-> "ABSENT", lead |-> None, slot |-> None, seat |-> 0, via |-> None,
          made |-> 0, tutor |-> None, link |-> None, started |-> FALSE, answer |-> "AWAITING",
          from |-> None, redemoFor |-> None]

BookingRows ==
    [status : Statuses, lead : Leads \cup {None}, slot : Slots \cup {None}, seat : Nat,
     via : {None, "public_booking", "demo_invite", "redemo", "reschedule"},
     made : Nat, tutor : Tutors \cup {None}, link : Links \cup {None}, started : BOOLEAN,
     answer : {"AWAITING", "CONFIRMED", "NOT_CONFIRMED"},
     from : Bookings \cup {None}, redemoFor : Bookings \cup {None}]

NoInvite == [state |-> "ABSENT", diagnostic |-> None, booking |-> None]

InviteRows ==
    [state : {"ABSENT", "ACTIVE", "EXPIRED", "USED", "REVOKED", "REPLACED"},
     diagnostic : Bookings \cup {None}, booking : Bookings \cup {None}]

NoSession == [status |-> "ABSENT", tutor |-> None, start |-> 0]

SessionRows == [status : {"ABSENT", "SCHEDULED", "ENDED"}, tutor : Tutors \cup {None}, start : Nat]

\* Half-open windows of one length: touching ones do not overlap
Overlap(start, other) == start < other + SlotLength /\ other < start + SlotLength

\* A row of a lead and a slot, whose Re-Demo request, if it is one's, is a Demo's that needs another
RealRow(row, bookings) ==
    /\ row.lead \in Leads /\ row.slot \in Slots
    /\ row.answer = "NOT_CONFIRMED" => row.status = "CANCELLED" /\ ~row.started
    /\ row.started => row.status # "RESCHEDULED"
    /\ row.redemoFor # None => bookings[row.redemoFor].status = "REDEMO_REQUIRED"

\* The rows an instance begins with are some the code can have left: its rules hold of them
RealRows(start) ==
    LET row == start.booking
        inv == start.invite
        class == start.session
        holding == {b \in Bookings : row[b].status \in HOLDS_SEAT}
        at(b) == SlotStart[row[b].slot]
        live(b, time) == at(b) + SlotLength > time
    IN
    /\ \A b \in Bookings :
          /\ row[b] = Blank \/ (row[b].status # "ABSENT" /\ RealRow(row[b], row))
          /\ Cardinality({c \in Bookings : row[c].from = b})
                = IF row[b].status = "RESCHEDULED" THEN 1 ELSE 0
    /\ \A b \in holding :
          /\ row[b].seat \in 1 .. Capacity[row[b].slot]
          /\ row[b].redemoFor # None /\ row[b].tutor # None => row[b].tutor # row[row[b].redemoFor].tutor
    /\ \A b, c \in holding : b # c =>
          /\ row[b].slot = row[c].slot => row[b].seat # row[c].seat
          /\ row[b].redemoFor = row[c].redemoFor => row[b].redemoFor = None
          /\ row[b].tutor = row[c].tutor /\ row[b].tutor # None => ~Overlap(at(b), at(c))
          /\ row[b].lead = row[c].lead /\ row[b].status = "BOOKED" /\ row[c].status = "BOOKED" =>
                /\ ~Overlap(at(b), at(c))
                /\ SlotType[row[b].slot] = SlotType[row[c].slot] =>
                      \A time \in Moments : ~(live(b, time) /\ live(c, time))
    /\ \A i \in Invites :
          /\ inv[i] = NoInvite \/ (inv[i].state # "ABSENT" /\ inv[i].diagnostic \in Bookings
                                     /\ row[inv[i].diagnostic].status # "ABSENT")
          /\ inv[i].booking # None => row[inv[i].booking].status # "ABSENT"
    /\ \A i, j \in Invites : i # j =>
          /\ inv[i].booking = inv[j].booking => inv[i].booking = None
          /\ {inv[i].state, inv[j].state} \subseteq {"ACTIVE", "EXPIRED"} =>
                inv[i].diagnostic # inv[j].diagnostic
    /\ Cardinality({b \in Bookings : row[b].via = "demo_invite"})
          = Cardinality({i \in Invites : inv[i].state = "USED"})
    /\ \A c \in Classes : class[c].status = "SCHEDULED" =>
          /\ class[c].tutor \in Tutors
          /\ \A b \in holding : row[b].tutor = class[c].tutor => ~Overlap(class[c].start, at(b))

ASSUME ConstantsAssumption ==
    /\ IsFiniteSet(Workers) /\ IsFiniteSet(Bookings) /\ IsFiniteSet(Invites) /\ IsFiniteSet(Slots)
    /\ Bookings \subseteq Nat /\ Invites \subseteq Nat
    /\ None \notin Bookings \cup Invites \cup Leads \cup Slots \cup Tutors \cup Links
    /\ Ops \subseteq Operations /\ None \notin Operations \cup {"demo_invite"}
    /\ SlotType \in [Slots -> BookingTypes]
    /\ SlotStart \in [Slots -> Nat]
    /\ \A s, c \in Slots : s # c /\ SlotType[s] = SlotType[c] => SlotStart[s] # SlotStart[c]
    /\ Capacity \in [Slots -> Nat]
    /\ {SlotLength, StartEarly, DayLength, DailyLimit} \subseteq Nat
    /\ Moments # {} /\ Moments \subseteq Nat
    /\ StartEarly < SlotLength /\ SlotLength < DayLength
    /\ AtStart \subseteq [booking : [Bookings -> BookingRows], invite : [Invites -> InviteRows],
                          session : [Classes -> SessionRows]]

ASSUME StartAssumption == \A start \in AtStart : RealRows(start)

VARIABLES
    now,      \* the clock
    booking,  \* DiagnosticBooking and DemoBooking rows
    closed,   \* BookingSlot.closed_at
    invite,   \* DemoInvite rows
    active,   \* accounts that are active tutors (is_assignable_tutor)
    meetLink, \* User.tutor_meet_link
    session,  \* Session rows, as far as a tutor's time goes
    txn       \* what each worker's transaction is doing

rows == <<booking, closed, invite, active, meetLink, session>>
vars == <<now, rows, txn>>

\* No transaction: its operation, whom and what it is about, the clock it read first, the locks
\* it has and has still to take, and what it has decided
NoTxn == [op |-> None, stage |-> None, lead |-> None, slot |-> None, booking |-> None,
          tutor |-> None, invite |-> None, value |-> None, flag |-> FALSE, class |-> NoSession,
          at |-> 0, need |-> <<>>, held |-> {}, seat |-> 0, todo |-> {}]

Init ==
    /\ now \in Moments /\ \A time \in Moments : now <= time
    /\ \E start \in AtStart :
          booking = start.booking /\ invite = start.invite /\ session = start.session
    /\ closed = [s \in Slots |-> FALSE]
    /\ active = Tutors
    /\ meetLink = [t \in Tutors |-> None]
    /\ txn = [w \in Workers |-> NoTxn]

(***************************************************************************)
(* What the code reads                                                     *)
(***************************************************************************)
Ends(s) == SlotStart[s] + SlotLength

Day(time) == time \div DayLength

\* booking_window: the seven days from tomorrow
Offered(s) == Day(SlotStart[s]) \in Day(now) + 1 .. Day(now) + 7

Exists(b) == booking[b].status # "ABSENT"

Type(b) == SlotType[booking[b].slot]

Holding == {b \in Bookings : booking[b].status \in HOLDS_SEAT}

Booked == {b \in Bookings : booking[b].status = "BOOKED"}

IsLive(b, at) == b \in Booked /\ Ends(booking[b].slot) > at

LiveBookings(l, type, at) == {b \in Bookings : IsLive(b, at) /\ booking[b].lead = l /\ Type(b) = type}

LeadCommitments(l, start) ==
    {b \in Booked : booking[b].lead = l /\ Overlap(SlotStart[booking[b].slot], start)}

FreeSeats(s) ==
    {n \in 1 .. Capacity[s] : \A b \in Holding : ~(booking[b].slot = s /\ booking[b].seat = n)}

LowestSeat(s) == CHOOSE n \in FreeSeats(s) : \A m \in FreeSeats(s) : n <= m

\* _open_seat, and the same checks of a move, which leaves the booking being moved out
OpenSeat(l, s, at, except) ==
    /\ LiveBookings(l, SlotType[s], at) \subseteq except
    /\ LeadCommitments(l, SlotStart[s]) \subseteq except
    /\ ~closed[s]
    /\ FreeSeats(s) # {}

\* _bookings_since, of the last day
MadeToday(phone) ==
    {b \in Bookings : Exists(b) /\ Phone[booking[b].lead] = phone /\ booking[b].made + DayLength >= now}

WithinLimit(l) == Cardinality(MadeToday(Phone[l])) < DailyLimit

\* find_tutor_conflict finds none
TutorFree(t, start, except) ==
    /\ \A c \in Classes : session[c].status = "SCHEDULED" /\ session[c].tutor = t => ~Overlap(session[c].start, start)
    /\ \A b \in Holding \ except : booking[b].tutor = t => ~Overlap(SlotStart[booking[b].slot], start)

UpcomingAssignments(t) == {b \in Bookings : IsLive(b, now) /\ booking[b].tutor = t}

HeldDemos(l, at) ==
    {b \in Holding : /\ booking[b].lead = l /\ Type(b) = "DEMO"
                     /\ b \in Booked => booking[b].started \/ IsLive(b, at)}

\* The first booking of a chain of moves: bookings are numbered as they are made
Origin[b \in Bookings] == IF booking[b].from = None THEN b ELSE Origin[booking[b].from]

InviteLead(i) == booking[invite[i].diagnostic].lead

\* invited_demo_pending: what an invitation booked, or was moved to, is still booked
InvitedDemoPending(l) ==
    \E i \in Invites, b \in Booked :
        invite[i].state = "USED" /\ InviteLead(i) = l /\ Origin[b] = invite[i].booking

\* demo_invite_refusal objects to nothing; a report comes with completing the Diagnostic
Invitable(diagnostic, at) ==
    /\ booking[diagnostic].status = "COMPLETED"
    /\ HeldDemos(booking[diagnostic].lead, at) = {}
    /\ ~InvitedDemoPending(booking[diagnostic].lead)

\* redemo_refusal
RedemoOf(d) == {b \in Holding : booking[b].redemoFor = d}

-----------------------------------------------------------------------------
(***************************************************************************)
(* Transactions                                                            *)
(***************************************************************************)
SlotLock(s) == <<"slot", s>>
LeadLock(l) == <<"lead", l>>
InviteLock(i) == <<"invite", i>>
RequestLock(d) == <<"request", d>>
BookingLock(b) == <<"booking", b>>
TutorLocks(t) == <<<<"schedule", t>>, <<"account", t>>>>
BookingLocks(b) == <<SlotLock(booking[b].slot), BookingLock(b)>>

\* In time order
SlotLocks(ss) ==
    [n \in 1 .. Cardinality(ss) |->
        SlotLock(CHOOSE s \in ss : Cardinality({c \in ss : SlotStart[c] <= SlotStart[s]}) = n)]

Begins(w, x) ==
    /\ txn[w] = NoTxn
    /\ x.op \in Ops
    /\ txn' = [txn EXCEPT ![w] = [x EXCEPT !.stage = "first", !.at = now]]
    /\ UNCHANGED <<now, rows>>

Free(lock, w) == \A other \in Workers \ {w} : lock \notin txn[other].held

TakeLock(w) ==
    /\ txn[w].need # <<>>
    /\ Free(Head(txn[w].need), w)
    /\ txn' = [txn EXCEPT ![w].need = Tail(@), ![w].held = @ \cup {Head(txn[w].need)}]
    /\ UNCHANGED <<now, rows>>

\* LOCK_TIMEOUT, or a deadlock PostgreSQL breaks: BookingBusy, and nothing is written
LockTimesOut(w) ==
    /\ txn[w].need # <<>>
    /\ ~Free(Head(txn[w].need), w)
    /\ txn' = [txn EXCEPT ![w] = NoTxn]
    /\ UNCHANGED <<now, rows>>

HasLocks(w, op, stage) == txn[w].op = op /\ txn[w].stage = stage /\ txn[w].need = <<>>

\* Goes on as decided, or is refused
Decides(w, accepted, decided) ==
    /\ txn' = [txn EXCEPT ![w] = IF accepted THEN decided ELSE NoTxn]
    /\ UNCHANGED <<now, rows>>

Writes(w, op) ==
    /\ HasLocks(w, op, "writing")
    /\ txn' = [txn EXCEPT ![w] = NoTxn]
    /\ UNCHANGED now

Writing(x) == [x EXCEPT !.stage = "writing"]

\* Bound: a row is left for each transaction that is to make one
RoomForBooking ==
    Cardinality({w \in Workers : txn[w].op \in MakesBooking}) < Cardinality({b \in Bookings : ~Exists(b)})

IsNextBooking(b) == ~Exists(b) /\ \A c \in Bookings : c < b => Exists(c)

WriteBooking(b, new) ==
    /\ booking' = [booking EXCEPT ![b] = new]
    /\ UNCHANGED <<closed, active, meetLink, session>>

-----------------------------------------------------------------------------
(***************************************************************************)
(* Making bookings                                                         *)
(***************************************************************************)
\* Mutant of CreateBooking: the slot is not locked
CreateBookingByLead(w, l, s) ==
    /\ Offered(s) /\ RoomForBooking
    /\ Begins(w, [NoTxn EXCEPT !.op = "create_booking", !.lead = l, !.slot = s,
                               !.need = <<LeadLock(l)>>])

\* Mutant of CreateBooking: the lead is not locked
CreateBookingBySlot(w, l, s) ==
    /\ Offered(s) /\ RoomForBooking
    /\ Begins(w, [NoTxn EXCEPT !.op = "create_booking", !.lead = l, !.slot = s,
                               !.need = <<SlotLock(s)>>])

CreateBooking(w, l, s) ==
    /\ Offered(s)
    /\ RoomForBooking
    /\ Begins(w, [NoTxn EXCEPT !.op = "create_booking", !.lead = l, !.slot = s,
                               !.need = <<SlotLock(s), LeadLock(l)>>])

\* A lead that already holds a booking in the slot gets that one
CheckCreate(w) ==
    LET x == txn[w]
    IN  /\ HasLocks(w, "create_booking", "first")
        /\ Decides(w, /\ ~\E b \in Holding : booking[b].lead = x.lead /\ booking[b].slot = x.slot
                      /\ OpenSeat(x.lead, x.slot, x.at, {})
                      /\ WithinLimit(x.lead),
                   [Writing(x) EXCEPT !.seat = LowestSeat(x.slot)])

NewBooking(x) == [Blank EXCEPT !.status = "BOOKED", !.lead = x.lead, !.slot = x.slot,
                               !.seat = x.seat, !.made = now]

WriteCreate(w) ==
    /\ Writes(w, "create_booking")
    /\ \E b \in Bookings :
          /\ IsNextBooking(b)
          /\ WriteBooking(b, [NewBooking(txn[w]) EXCEPT !.via = "public_booking"])
    /\ UNCHANGED invite

CreateInvitedDemoBooking(w, i, s) ==
    /\ invite[i].state = "ACTIVE"
    /\ SlotType[s] = "DEMO" /\ Offered(s)
    /\ RoomForBooking
    /\ Begins(w, [NoTxn EXCEPT !.op = "create_invited_demo_booking", !.invite = i, !.slot = s,
                               !.lead = InviteLead(i),
                               !.need = <<SlotLock(s), LeadLock(InviteLead(i)), InviteLock(i)>>])

\* Mutant of CheckInvited: the invitation's state, read before its lock, is trusted
CheckInvitedTrusting(w) ==
    LET x == txn[w]
    IN  /\ HasLocks(w, "create_invited_demo_booking", "first")
        /\ Decides(w, /\ Invitable(invite[x.invite].diagnostic, x.at)
                      /\ OpenSeat(x.lead, x.slot, x.at, {}) /\ WithinLimit(x.lead),
                   [Writing(x) EXCEPT !.seat = LowestSeat(x.slot)])

CheckInvited(w) ==
    LET x == txn[w]
    IN  /\ HasLocks(w, "create_invited_demo_booking", "first")
        /\ Decides(w, /\ invite[x.invite].state = "ACTIVE"
                      /\ Invitable(invite[x.invite].diagnostic, x.at)
                      /\ OpenSeat(x.lead, x.slot, x.at, {})
                      /\ WithinLimit(x.lead),
                   [Writing(x) EXCEPT !.seat = LowestSeat(x.slot)])

WriteInvited(w) ==
    /\ Writes(w, "create_invited_demo_booking")
    /\ \E b \in Bookings :
          /\ IsNextBooking(b)
          /\ WriteBooking(b, [NewBooking(txn[w]) EXCEPT !.via = "demo_invite"])
          /\ invite' = [invite EXCEPT ![txn[w].invite].state = "USED", ![txn[w].invite].booking = b]

ScheduleRedemo(w, d, t, s) ==
    /\ booking[d].status = "REDEMO_REQUIRED"
    /\ SlotType[s] = "DEMO" /\ Offered(s)
    /\ RoomForBooking
    /\ Begins(w, [NoTxn EXCEPT !.op = "schedule_redemo", !.booking = d, !.tutor = t, !.slot = s,
                               !.lead = booking[d].lead,
                               !.need = <<SlotLock(s), LeadLock(booking[d].lead), RequestLock(d)>>])

\* Mutant of CheckRedemoRequest: a Re-Demo booked already is not looked for
CheckRedemoRequestAgain(w) ==
    LET x == txn[w]
    IN  /\ HasLocks(w, "schedule_redemo", "first")
        /\ Decides(w, x.tutor # booking[x.booking].tutor,
                   [x EXCEPT !.stage = "tutor", !.need = TutorLocks(x.tutor)])

CheckRedemoRequest(w) ==
    LET x == txn[w]
    IN  /\ HasLocks(w, "schedule_redemo", "first")
        /\ Decides(w, RedemoOf(x.booking) = {} /\ x.tutor # booking[x.booking].tutor,
                   [x EXCEPT !.stage = "tutor", !.need = TutorLocks(x.tutor)])

CheckRedemoTutor(w) ==
    LET x == txn[w]
    IN  /\ HasLocks(w, "schedule_redemo", "tutor")
        /\ Decides(w, /\ x.tutor \in active
                      /\ OpenSeat(x.lead, x.slot, x.at, {})
                      /\ TutorFree(x.tutor, SlotStart[x.slot], {}),
                   [Writing(x) EXCEPT !.seat = LowestSeat(x.slot), !.value = meetLink[x.tutor]])

WriteRedemo(w) ==
    /\ Writes(w, "schedule_redemo")
    /\ \E b \in Bookings :
          /\ IsNextBooking(b)
          /\ WriteBooking(b, [NewBooking(txn[w]) EXCEPT
                !.via = "redemo", !.tutor = txn[w].tutor, !.link = txn[w].value,
                !.redemoFor = txn[w].booking])
    /\ UNCHANGED invite

RequestRedemo(w, b) ==
    /\ Exists(b) /\ Type(b) = "DEMO"
    /\ Begins(w, [NoTxn EXCEPT !.op = "request_redemo", !.booking = b,
          !.need = <<SlotLock(booking[b].slot), LeadLock(booking[b].lead), BookingLock(b)>>])

CheckRequest(w) ==
    /\ HasLocks(w, "request_redemo", "first")
    /\ Decides(w, booking[txn[w].booking].status = "COMPLETED", Writing(txn[w]))

WriteRequest(w) ==
    /\ Writes(w, "request_redemo")
    /\ WriteBooking(txn[w].booking, [booking[txn[w].booking] EXCEPT !.status = "REDEMO_REQUIRED"])
    /\ UNCHANGED invite

-----------------------------------------------------------------------------
(***************************************************************************)
(* Moving, cancelling, confirming                                          *)
(***************************************************************************)
\* Mutant of RescheduleBooking: the booking's own slot is locked first
RescheduleOldFirst(w, b, s) ==
    /\ Exists(b)
    /\ s # booking[b].slot /\ SlotType[s] = Type(b) /\ Offered(s)
    /\ RoomForBooking
    /\ Begins(w, [NoTxn EXCEPT !.op = "reschedule_booking", !.booking = b, !.slot = s,
          !.lead = booking[b].lead,
          !.need = <<SlotLock(booking[b].slot), SlotLock(s), LeadLock(booking[b].lead), BookingLock(b)>>])

RescheduleBooking(w, b, s) ==
    /\ Exists(b)
    /\ s # booking[b].slot /\ SlotType[s] = Type(b) /\ Offered(s)
    /\ RoomForBooking
    /\ Begins(w, [NoTxn EXCEPT !.op = "reschedule_booking", !.booking = b, !.slot = s,
          !.lead = booking[b].lead,
          !.need = SlotLocks({booking[b].slot, s}) \o <<LeadLock(booking[b].lead), BookingLock(b)>>])

\* Mutant of CheckMove: a booking already moved or cancelled is moved
CheckMoveAny(w) ==
    LET x == txn[w]
        old == booking[x.booking]
    IN  /\ HasLocks(w, "reschedule_booking", "first")
        /\ Decides(w, ~old.started /\ OpenSeat(x.lead, x.slot, x.at, {x.booking}),
                   [x EXCEPT !.stage = "tutor", !.seat = LowestSeat(x.slot), !.tutor = old.tutor,
                             !.need = IF old.tutor = None THEN <<>> ELSE TutorLocks(old.tutor)])

\* The tutor is locked only once the booking that names them is
CheckMove(w) ==
    LET x == txn[w]
        old == booking[x.booking]
    IN  /\ HasLocks(w, "reschedule_booking", "first")
        /\ Decides(w, /\ old.status = "BOOKED" /\ ~old.started
                      /\ OpenSeat(x.lead, x.slot, x.at, {x.booking}),
                   [x EXCEPT !.stage = "tutor", !.seat = LowestSeat(x.slot), !.tutor = old.tutor,
                             !.need = IF old.tutor = None THEN <<>> ELSE TutorLocks(old.tutor)])

\* A tutor not active, or not free, stays behind
CheckMoveTutor(w) ==
    LET x == txn[w]
        carried == /\ x.tutor # None /\ x.tutor \in active
                   /\ TutorFree(x.tutor, SlotStart[x.slot], {x.booking})
    IN  /\ HasLocks(w, "reschedule_booking", "tutor")
        /\ Decides(w, TRUE, [Writing(x) EXCEPT !.tutor = IF carried THEN @ ELSE None,
                                               !.value = IF carried THEN meetLink[x.tutor] ELSE None])

WriteMove(w) ==
    LET x == txn[w]
        old == booking[x.booking]
    IN  /\ Writes(w, "reschedule_booking")
        /\ \E b \in Bookings :
              /\ IsNextBooking(b)
              /\ booking' = [booking EXCEPT
                    ![x.booking].status = "RESCHEDULED",
                    ![b] = [NewBooking(x) EXCEPT
                        !.via = "reschedule", !.from = x.booking, !.tutor = x.tutor,
                        !.link = x.value, !.redemoFor = old.redemoFor]]
        /\ UNCHANGED <<closed, invite, active, meetLink, session>>

CancelBooking(w, b) ==
    /\ Exists(b)
    /\ Begins(w, [NoTxn EXCEPT !.op = "cancel_booking", !.booking = b, !.need = BookingLocks(b)])

CheckCancel(w) ==
    /\ HasLocks(w, "cancel_booking", "first")
    /\ Decides(w, booking[txn[w].booking].status = "BOOKED", Writing(txn[w]))

WriteCancel(w) ==
    /\ Writes(w, "cancel_booking")
    /\ WriteBooking(txn[w].booking, [booking[txn[w].booking] EXCEPT !.status = "CANCELLED"])
    /\ UNCHANGED invite

RecordParentConfirmation(w, b, answer) ==
    /\ Exists(b)
    /\ Begins(w, [NoTxn EXCEPT !.op = "record_parent_confirmation", !.booking = b, !.value = answer,
                               !.need = BookingLocks(b)])

CheckConfirmation(w) ==
    LET x == txn[w]
        row == booking[x.booking]
    IN  /\ HasLocks(w, "record_parent_confirmation", "first")
        /\ Decides(w, /\ row.status = "BOOKED" /\ ~row.started
                      /\ SlotStart[row.slot] > x.at
                      /\ row.answer # x.value,
                   Writing(x))

WriteConfirmation(w) ==
    LET x == txn[w]
    IN  /\ Writes(w, "record_parent_confirmation")
        /\ WriteBooking(x.booking, [booking[x.booking] EXCEPT
              !.answer = x.value, !.status = IF x.value = "CONFIRMED" THEN @ ELSE "CANCELLED"])
        /\ UNCHANGED invite

-----------------------------------------------------------------------------
(***************************************************************************)
(* Tutors: assigning, starting, reporting, their links                     *)
(***************************************************************************)
\* _check_tutor_changeable raises nothing
TutorChangeable(x) ==
    LET row == booking[x.booking]
    IN  row.status = "BOOKED" /\ ~row.started /\ Ends(row.slot) > x.at

AssignTutor(w, b, t) ==
    /\ Exists(b)
    /\ Begins(w, [NoTxn EXCEPT !.op = "assign_tutor", !.booking = b, !.tutor = t,
                               !.need = BookingLocks(b)])

\* Mutant of CheckAssignable: the tutor's schedule is not locked
CheckAssignableByAccount(w) ==
    /\ HasLocks(w, "assign_tutor", "first")
    /\ Decides(w, TutorChangeable(txn[w]),
               [txn[w] EXCEPT !.stage = "tutor", !.need = <<<<"account", txn[w].tutor>>>>])

CheckAssignable(w) ==
    /\ HasLocks(w, "assign_tutor", "first")
    /\ Decides(w, TutorChangeable(txn[w]),
               [txn[w] EXCEPT !.stage = "tutor", !.need = TutorLocks(txn[w].tutor)])

OriginalTutor(b) ==
    IF booking[b].redemoFor = None THEN None ELSE booking[booking[b].redemoFor].tutor

CheckAssign(w) ==
    LET x == txn[w]
        row == booking[x.booking]
    IN  /\ HasLocks(w, "assign_tutor", "tutor")
        /\ Decides(w, /\ x.tutor \in active
                      /\ x.tutor # OriginalTutor(x.booking)
                      /\ x.tutor # row.tutor
                      /\ TutorFree(x.tutor, SlotStart[row.slot], {x.booking}),
                   [Writing(x) EXCEPT !.value = meetLink[x.tutor]])

WriteAssign(w) ==
    LET x == txn[w]
    IN  /\ Writes(w, "assign_tutor")
        /\ WriteBooking(x.booking, [booking[x.booking] EXCEPT !.tutor = x.tutor, !.link = x.value])
        /\ UNCHANGED invite

UnassignTutor(w, b) ==
    /\ Exists(b)
    /\ Begins(w, [NoTxn EXCEPT !.op = "unassign_tutor", !.booking = b, !.need = BookingLocks(b)])

CheckUnassign(w) ==
    /\ HasLocks(w, "unassign_tutor", "first")
    /\ Decides(w, TutorChangeable(txn[w]) /\ booking[txn[w].booking].tutor # None, Writing(txn[w]))

WriteUnassign(w) ==
    /\ Writes(w, "unassign_tutor")
    /\ WriteBooking(txn[w].booking, [booking[txn[w].booking] EXCEPT !.tutor = None, !.link = None])
    /\ UNCHANGED invite

\* Mutant of StartBooking: nothing is locked
StartBookingUnlocked(w, b, t) ==
    /\ Exists(b)
    /\ Begins(w, [NoTxn EXCEPT !.op = "start_booking", !.booking = b, !.tutor = t])

StartBooking(w, b, t) ==
    /\ Exists(b)
    /\ Begins(w, [NoTxn EXCEPT !.op = "start_booking", !.booking = b, !.tutor = t,
                               !.need = BookingLocks(b)])

\* The clock is read under the locks
CheckStart(w) ==
    LET x == txn[w]
        row == booking[x.booking]
    IN  /\ HasLocks(w, "start_booking", "first")
        /\ Decides(w, /\ row.tutor = x.tutor
                      /\ row.status = "BOOKED" /\ ~row.started
                      /\ now + StartEarly >= SlotStart[row.slot] /\ now < Ends(row.slot),
                   Writing(x))

WriteStart(w) ==
    /\ Writes(w, "start_booking")
    /\ WriteBooking(txn[w].booking, [booking[txn[w].booking] EXCEPT !.started = TRUE])
    /\ UNCHANGED invite

SubmitReport(w, b, t) ==
    /\ Exists(b)
    /\ Begins(w, [NoTxn EXCEPT !.op = "submit_report", !.booking = b, !.tutor = t,
                               !.need = BookingLocks(b)])

CheckReport(w) ==
    LET row == booking[txn[w].booking]
    IN  /\ HasLocks(w, "submit_report", "first")
        /\ Decides(w, row.tutor = txn[w].tutor /\ row.status = "BOOKED" /\ row.started, Writing(txn[w]))

\* Mutant of WriteReport: the report's status is saved as the booking's
WriteReportStatus(w) ==
    /\ Writes(w, "submit_report")
    /\ WriteBooking(txn[w].booking, [booking[txn[w].booking] EXCEPT !.status = "SUBMITTED"])
    /\ UNCHANGED invite

WriteReport(w) ==
    /\ Writes(w, "submit_report")
    /\ WriteBooking(txn[w].booking, [booking[txn[w].booking] EXCEPT !.status = "COMPLETED"])
    /\ UNCHANGED invite

\* The live bookings a new link reaches, by id
TakesLink(t, at) == {b \in Bookings : IsLive(b, at) /\ ~booking[b].started /\ booking[b].tutor = t}

LocksOf(bs) ==
    [n \in 1 .. Cardinality(bs) |->
        BookingLock(CHOOSE b \in bs : Cardinality({c \in bs : c <= b}) = n)]

SetTutorMeetLink(w, t, link) ==
    Begins(w, [NoTxn EXCEPT !.op = "set_tutor_meet_link", !.tutor = t, !.value = link,
                            !.need = LocksOf(TakesLink(t, now)) \o <<<<"account", t>>>>])

\* The bookings are read again, and the rows not locked yet are locked as they are saved
CheckLink(w) ==
    LET x == txn[w]
        changed == {b \in TakesLink(x.tutor, x.at) : booking[b].link # x.value}
    IN  /\ HasLocks(w, "set_tutor_meet_link", "first")
        /\ Decides(w, meetLink[x.tutor] # x.value,
                   [Writing(x) EXCEPT !.todo = changed,
                       !.need = LocksOf({b \in changed : BookingLock(b) \notin x.held})])

\* A CHECK allows no link without a tutor: then nothing is written
WriteLink(w) ==
    LET x == txn[w]
        refused == \E b \in x.todo : booking[b].tutor = None
    IN  /\ Writes(w, "set_tutor_meet_link")
        /\ booking' = IF refused THEN booking
                      ELSE [b \in Bookings |-> IF b \in x.todo THEN [booking[b] EXCEPT !.link = x.value]
                                                               ELSE booking[b]]
        /\ meetLink' = IF refused THEN meetLink ELSE [meetLink EXCEPT ![x.tutor] = x.value]
        /\ UNCHANGED <<closed, invite, active, session>>

-----------------------------------------------------------------------------
(***************************************************************************)
(* Slots, accounts, classes                                                *)
(***************************************************************************)
\* Slots of one type and date, today or later
SetSlotsClosed(w, ss, close) ==
    /\ \A s, c \in ss : SlotType[s] = SlotType[c] /\ Day(SlotStart[s]) = Day(SlotStart[c])
    /\ \A s \in ss : Day(SlotStart[s]) >= Day(now)
    /\ Begins(w, [NoTxn EXCEPT !.op = "set_slots_closed", !.todo = ss, !.flag = close,
                               !.need = SlotLocks(ss)])

WriteSlotsClosed(w) ==
    LET x == txn[w]
    IN  /\ HasLocks(w, "set_slots_closed", "first")
        /\ closed' = [s \in Slots |-> IF s \in x.todo THEN x.flag ELSE closed[s]]
        /\ txn' = [txn EXCEPT ![w] = NoTxn]
        /\ UNCHANGED <<now, booking, invite, active, meetLink, session>>

\* Mutant of SetAccountActive: the account is not locked
SetAccountActiveUnlocked(w, t, on) ==
    Begins(w, [NoTxn EXCEPT !.op = "set_account_active", !.tutor = t, !.flag = on])

SetAccountActive(w, t, on) ==
    Begins(w, [NoTxn EXCEPT !.op = "set_account_active", !.tutor = t, !.flag = on,
                            !.need = <<<<"account", t>>>>])

CheckAccount(w) ==
    /\ HasLocks(w, "set_account_active", "first")
    /\ Decides(w, txn[w].flag \/ UpcomingAssignments(txn[w].tutor) = {}, Writing(txn[w]))

WriteAccount(w) ==
    LET x == txn[w]
    IN  /\ Writes(w, "set_account_active")
        /\ active' = IF x.flag THEN active \cup {x.tutor} ELSE active \ {x.tutor}
        /\ UNCHANGED <<booking, closed, invite, meetLink, session>>

ScheduleClass(w, c, t, start) ==
    /\ session[c].status = "ABSENT"
    /\ \A v \in Workers : c \notin txn[v].todo
    /\ Begins(w, [NoTxn EXCEPT
          !.op = "schedule_class", !.tutor = t, !.todo = {c}, !.need = <<<<"schedule", t>>>>,
          !.class = [status |-> "SCHEDULED", tutor |-> t, start |-> start]])

CheckClass(w) ==
    /\ HasLocks(w, "schedule_class", "first")
    /\ Decides(w, TutorFree(txn[w].tutor, txn[w].class.start, {}), Writing(txn[w]))

WriteSession(w) ==
    /\ txn' = [txn EXCEPT ![w] = NoTxn]
    /\ session' = [c \in Classes |-> IF c \in txn[w].todo THEN txn[w].class ELSE session[c]]
    /\ UNCHANGED <<now, booking, closed, invite, active, meetLink>>

WriteClass(w) == HasLocks(w, "schedule_class", "writing") /\ WriteSession(w)

\* A class is read, changed and saved whole, with no lock unless its time or tutor changes
EndClass(w, c) ==
    /\ session[c].status = "SCHEDULED"
    /\ Begins(w, [NoTxn EXCEPT !.op = "end_class", !.todo = {c},
                               !.class = [session[c] EXCEPT !.status = "ENDED"]])

EditClass(w, c) ==
    /\ session[c].status # "ABSENT"
    /\ Begins(w, [NoTxn EXCEPT !.op = "edit_class", !.todo = {c}, !.class = session[c]])

SaveClass(w) == txn[w].op \in {"end_class", "edit_class"} /\ WriteSession(w)

-----------------------------------------------------------------------------
(***************************************************************************)
(* Demo invitations                                                        *)
(***************************************************************************)
\* A Diagnostic's open invitation: neither used, revoked nor replaced
OpenInvites(diagnostic) ==
    {i \in Invites : invite[i].state \in {"ACTIVE", "EXPIRED"} /\ invite[i].diagnostic = diagnostic}

\* Bound: a row is left for each transaction that may make one
RoomForInvite ==
    Cardinality({w \in Workers : txn[w].op = "issue_invite"})
        < Cardinality({i \in Invites : invite[i].state = "ABSENT"})

IsNextInvite(i) ==
    invite[i].state = "ABSENT" /\ \A j \in Invites : j < i => invite[j].state # "ABSENT"

IssueInvite(w, b) ==
    /\ Exists(b) /\ Type(b) = "DIAGNOSTIC"
    /\ RoomForInvite
    /\ Begins(w, [NoTxn EXCEPT !.op = "issue_invite", !.booking = b,
                               !.need = <<LeadLock(booking[b].lead)>>])

CheckIssue(w) ==
    LET x == txn[w]
    IN  /\ HasLocks(w, "issue_invite", "first")
        /\ Decides(w, Invitable(x.booking, x.at),
                   [x EXCEPT !.stage = "invite",
                             !.need = LET open == OpenInvites(x.booking)
                                      IN  IF open = {} THEN <<>>
                                          ELSE <<InviteLock(CHOOSE i \in open : TRUE)>>])

\* An active one is given again; an expired one is replaced
CheckIssueOpen(w) ==
    /\ HasLocks(w, "issue_invite", "invite")
    /\ Decides(w, \A i \in OpenInvites(txn[w].booking) : invite[i].state = "EXPIRED",
               [Writing(txn[w]) EXCEPT !.todo = OpenInvites(txn[w].booking)])

WriteIssue(w) ==
    /\ Writes(w, "issue_invite")
    /\ \E new \in Invites :
          /\ IsNextInvite(new)
          /\ invite' = [i \in Invites |->
                IF i \in txn[w].todo THEN [invite[i] EXCEPT !.state = "REPLACED"]
                ELSE IF i = new THEN [NoInvite EXCEPT !.state = "ACTIVE", !.diagnostic = txn[w].booking]
                ELSE invite[i]]
    /\ UNCHANGED <<booking, closed, active, meetLink, session>>

RevokeInvite(w, i) ==
    /\ invite[i].state # "ABSENT"
    /\ Begins(w, [NoTxn EXCEPT !.op = "revoke_invite", !.invite = i, !.need = <<InviteLock(i)>>])

CheckRevoke(w) ==
    /\ HasLocks(w, "revoke_invite", "first")
    /\ Decides(w, invite[txn[w].invite].state = "ACTIVE", Writing(txn[w]))

WriteRevoke(w) ==
    /\ Writes(w, "revoke_invite")
    /\ invite' = [invite EXCEPT ![txn[w].invite].state = "REVOKED"]
    /\ UNCHANGED <<booking, closed, active, meetLink, session>>

-----------------------------------------------------------------------------
(***************************************************************************)
(* The clock, and everything                                               *)
(***************************************************************************)
\* Moments are minutes apart and a transaction takes seconds (LOCK_TIMEOUT): it sees one at most
Tick ==
    /\ \A w \in Workers : txn[w] = NoTxn \/ txn[w].at = now
    /\ \E time \in Moments :
          /\ now < time /\ \A other \in Moments : now < other => time <= other
          /\ now' = time
    /\ UNCHANGED <<rows, txn>>

\* Seven days pass
ExpireInvite(i) ==
    /\ "issue_invite" \in Ops
    /\ invite[i].state = "ACTIVE"
    /\ invite' = [invite EXCEPT ![i].state = "EXPIRED"]
    /\ UNCHANGED <<now, booking, closed, active, meetLink, session, txn>>

BeginsBooking(w) ==
    \/ \E l \in Leads, s \in Slots : CreateBooking(w, l, s)
    \/ \E i \in Invites, s \in Slots : CreateInvitedDemoBooking(w, i, s)
    \/ \E d \in Bookings, t \in Tutors, s \in Slots : ScheduleRedemo(w, d, t, s)

BeginsChange(w) ==
    \E b \in Bookings :
        \/ RequestRedemo(w, b) \/ CancelBooking(w, b) \/ UnassignTutor(w, b) \/ IssueInvite(w, b)
        \/ \E s \in Slots : RescheduleBooking(w, b, s)
        \/ \E answer \in {"CONFIRMED", "NOT_CONFIRMED"} : RecordParentConfirmation(w, b, answer)
        \/ \E t \in Tutors : AssignTutor(w, b, t) \/ StartBooking(w, b, t) \/ SubmitReport(w, b, t)

BeginsOther(w) ==
    \/ \E ss \in SUBSET Slots \ {{}}, close \in BOOLEAN : SetSlotsClosed(w, ss, close)
    \/ \E t \in Tutors, link \in Links \cup {None} : SetTutorMeetLink(w, t, link)
    \/ \E t \in Tutors, on \in BOOLEAN : SetAccountActive(w, t, on)
    \/ \E c \in Classes, t \in Tutors, s \in Slots : ScheduleClass(w, c, t, SlotStart[s])
    \/ \E c \in Classes : EndClass(w, c) \/ EditClass(w, c)
    \/ \E i \in Invites : RevokeInvite(w, i)

Checks(w) ==
    \/ CheckCreate(w) \/ CheckInvited(w) \/ CheckRedemoRequest(w) \/ CheckRedemoTutor(w)
    \/ CheckRequest(w) \/ CheckMove(w) \/ CheckMoveTutor(w) \/ CheckCancel(w)
    \/ CheckConfirmation(w) \/ CheckAssignable(w) \/ CheckAssign(w) \/ CheckUnassign(w)
    \/ CheckStart(w) \/ CheckReport(w) \/ CheckLink(w) \/ CheckAccount(w) \/ CheckClass(w)
    \/ CheckIssue(w) \/ CheckIssueOpen(w) \/ CheckRevoke(w)

Commits(w) ==
    \/ WriteCreate(w) \/ WriteInvited(w) \/ WriteRedemo(w) \/ WriteRequest(w) \/ WriteMove(w)
    \/ WriteCancel(w) \/ WriteConfirmation(w) \/ WriteAssign(w) \/ WriteUnassign(w)
    \/ WriteStart(w) \/ WriteReport(w) \/ WriteLink(w) \/ WriteSlotsClosed(w) \/ WriteAccount(w)
    \/ WriteClass(w) \/ SaveClass(w) \/ WriteIssue(w) \/ WriteRevoke(w)

Next ==
    \/ \E w \in Workers :
          \/ BeginsBooking(w) \/ BeginsChange(w) \/ BeginsOther(w)
          \/ TakeLock(w) \/ LockTimesOut(w) \/ Checks(w) \/ Commits(w)
    \/ Tick
    \/ \E i \in Invites : ExpireInvite(i)

Spec == Init /\ [][Next]_vars

-----------------------------------------------------------------------------
(***************************************************************************)
(* Properties                                                              *)
(***************************************************************************)
Locks ==
    ({"slot"} \X Slots) \cup ({"lead"} \X Leads) \cup ({"booking", "request"} \X Bookings)
        \cup ({"invite"} \X Invites) \cup ({"schedule", "account"} \X Tutors)

Transactions ==
    [op : Operations, stage : {"first", "tutor", "invite", "writing"}, lead : Leads \cup {None},
     slot : Slots \cup {None}, booking : Bookings \cup {None}, tutor : Tutors \cup {None},
     invite : Invites \cup {None}, value : Links \cup {None, "CONFIRMED", "NOT_CONFIRMED"},
     flag : BOOLEAN, class : SessionRows, at : Nat, need : Seq(Locks), held : SUBSET Locks,
     seat : Nat, todo : SUBSET (Bookings \cup Classes \cup Invites \cup Slots)]

\* Every variable holds what its rows may hold.
TypeOK ==
    /\ now \in Nat
    /\ booking \in [Bookings -> BookingRows]
    /\ closed \in [Slots -> BOOLEAN]
    /\ invite \in [Invites -> InviteRows]
    /\ active \subseteq Tutors
    /\ meetLink \in [Tutors -> Links \cup {None}]
    /\ session \in [Classes -> SessionRows]
    /\ txn \in [Workers -> Transactions \cup {NoTxn}]

(* A slot never holds more bookings than its seats, and no seat two: "the lock is what keeps the *)
(* count right" (booking_service.py), with parents, moves and closures at once, and the          *)
(* partial unique index on slot and seat never has to refuse one.                                *)
OneHolderPerSeat ==
    \A b, c \in Holding :
        /\ booking[b].seat \in 1 .. Capacity[booking[b].slot]
        /\ b # c /\ booking[b].slot = booking[c].slot => booking[b].seat # booking[c].seat

(* "One live booking per child and type" (Q26), and no child in two places at once across both   *)
(* types, though requests for different slots and types, invitations, Re-Demos and moves of      *)
(* bookings whose slot has ended lock different slots.                                           *)
LeadInOnePlace ==
    \A b, c \in Booked :
        b # c /\ booking[b].lead = booking[c].lead =>
            /\ ~Overlap(SlotStart[booking[b].slot], SlotStart[booking[c].slot])
            /\ Type(b) = Type(c) => ~(IsLive(b, now) /\ IsLive(c, now))

(* "Tuition is one-to-one": a tutor is never in two places, bookings of both types and           *)
(* scheduled classes together, although these are different tables with different locks.         *)
TutorInOnePlace ==
    /\ \A b, c \in Holding :
          b # c /\ booking[b].tutor = booking[c].tutor /\ booking[b].tutor # None
          => ~Overlap(SlotStart[booking[b].slot], SlotStart[booking[c].slot])
    /\ \A b \in Holding, c \in Classes :
          session[c].status = "SCHEDULED" /\ session[c].tutor = booking[b].tutor
          => ~Overlap(session[c].start, SlotStart[booking[b].slot])

(* A booking to be taught is never left on an account that cannot teach it: deactivation and     *)
(* every way a booking gets a tutor meet on the account's row.                                   *)
LiveHasActiveTutor ==
    \A b \in Bookings : IsLive(b, now) /\ booking[b].tutor # None => booking[b].tutor \in active

(* Once its tutor has started it, however early, a booking keeps its tutor, is not moved, and is *)
(* not cancelled by a Not Confirmed, which "must never cancel a class its tutor has begun": a    *)
(* Start racing any of these, or a report, is ordered with it by the booking's lock.             *)
StartedStays ==
    [][\A b \in Bookings :
          booking[b].started =>
              /\ booking'[b].tutor = booking[b].tutor /\ booking'[b].started
              /\ booking'[b].status # "RESCHEDULED"
              /\ booking'[b].answer # "NOT_CONFIRMED"]_vars

\* What the appointment book says of a row: its link, and how and when it was made, are not in it
EntryOf(row) ==
    [status |-> row.status, child |-> row.lead, slot |-> row.slot, seat |-> row.seat,
     tutor |-> row.tutor, started |-> row.started, answer |-> row.answer, from |-> row.from,
     redemoFor |-> row.redemoFor]

Entries == [b \in Bookings |-> EntryOf(booking[b])]

Book == INSTANCE AppointmentBook WITH
    Appointments <- Bookings, Children <- Leads, Kind <- SlotType, Repeats <- "DEMO",
    Start <- SlotStart, Length <- SlotLength, Seats <- Capacity,
    time <- now, teaching <- active, card <- Entries

(* Transactions that run at once, each on what it read and checked many steps before, write what *)
(* AppointmentBook does in one step that looks everything up anew: no seat, child or tutor taken *)
(* meanwhile, no booking begun, moved, cancelled or reported meanwhile, no account retired.      *)
ImplementsAppointments == Book!SpecAppointments

(* A booking that was moved has its replacement, and one only: its chain neither breaks nor      *)
(* forks, whatever becomes of either.                                                            *)
MovedIsReplaced ==
    \A b \in Bookings :
        LET replacements == {c \in Bookings : booking[c].from = b}
        IN  Cardinality(replacements) = IF booking[b].status = "RESCHEDULED" THEN 1 ELSE 0

(* An invitation books one Demo, and what it booked names no other invitation: two uses of one   *)
(* link queue on the lead.  A Diagnostic has one open invitation at most: "two sends for one     *)
(* Diagnostic queue".                                                                            *)
InviteUsedOnce ==
    /\ Cardinality({b \in Bookings : booking[b].via = "demo_invite"})
        = Cardinality({i \in Invites : invite[i].state = "USED"})
    /\ \A i, j \in Invites : i # j =>
          /\ invite[i].booking = invite[j].booking => invite[i].booking = None
          /\ {invite[i].state, invite[j].state} \subseteq {"ACTIVE", "EXPIRED"} =>
                invite[i].diagnostic # invite[j].diagnostic

(* A request's Re-Demo is booked or taught once at a time, however many schedule it at once and  *)
(* wherever the Re-Demo is moved; and never by the tutor of the Demo it repeats, in a chain of   *)
(* Re-Demos too.                                                                                 *)
OneRedemoPerRequest ==
    /\ \A b, c \in Holding : b # c /\ booking[b].redemoFor = booking[c].redemoFor => booking[b].redemoFor = None
    /\ \A b \in Holding : booking[b].tutor # None => booking[b].tutor # OriginalTutor(b)

\* v waits for a lock that w has
WaitsFor(v, w) == txn[v].need # <<>> /\ Head(txn[v].need) \in txn[w].held

(* Transactions never wait for each other in a circle, that is no set of them all wait for others *)
(* of the set: every one takes its locks in the order slots by time, lead, invitation or request  *)
(* or booking, tutor's schedule, tutor's account.                                                 *)
NoCircularWait ==
    \A set \in (SUBSET Workers) \ {{}} : ~\A v \in set : \E w \in set \ {v} : WaitsFor(v, w)

=============================================================================
