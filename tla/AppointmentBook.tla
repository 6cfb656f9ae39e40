-------------------------- MODULE AppointmentBook ---------------------------
(***************************************************************************)
(* What a book of appointments promises, kept by one clerk who does one    *)
(* thing at a time: every seat, child and tutor is looked up in the book   *)
(* and the card written in the same step.  There are no transactions here, *)
(* no locks and nothing read before: Bookings implements it with all of    *)
(* them.                                                                   *)
(***************************************************************************)
EXTENDS Integers

CONSTANTS
    Appointments, Children, Slots, Tutors, None,
    Kind,    \* [Slots -> the kinds of appointment]: a child has one to come of each
    Repeats, \* the kind that can be needed again
    Start, Length, Seats

VARIABLES
    time,
    teaching, \* the tutors who may be given appointments
    card      \* card[a]: what the book says of appointment a

bookVars == <<time, teaching, card>>

Card(c, s, n, t, from, again) ==
    [status |-> "BOOKED", child |-> c, slot |-> s, seat |-> n, tutor |-> t, started |-> FALSE,
     answer |-> "AWAITING", from |-> from, redemoFor |-> again]

\* Whose seat is had, and who is still to come
Held == {a \in Appointments : card[a].status \in {"BOOKED", "COMPLETED", "REDEMO_REQUIRED"}}
Booked == {a \in Held : card[a].status = "BOOKED"}

Clash(s, u) == Start[s] < Start[u] + Length /\ Start[u] < Start[s] + Length

ToCome(a) == a \in Booked /\ Start[card[a].slot] + Length > time

SeatFree(s, n) == n \in 1 .. Seats[s] /\ \A a \in Held : ~(card[a].slot = s /\ card[a].seat = n)

\* The child is nowhere else then, and has no other of its kind to come
ChildFree(c, s, except) ==
    \A a \in Booked \ except : card[a].child = c =>
        ~Clash(card[a].slot, s) /\ ~(Kind[card[a].slot] = Kind[s] /\ ToCome(a))

TutorFree(t, s, except) ==
    t \in teaching /\ \A a \in Held \ except : card[a].tutor = t => ~Clash(card[a].slot, s)

\* Nobody has begun it, so its tutor, its slot and the parent's answer may change
Open(a) == a \in Booked /\ ~card[a].started

\* The tutor of the appointment that a repeats
FirstTutor(a) == IF card[a].redemoFor = None THEN None ELSE card[card[a].redemoFor].tutor

\* Seats, children and tutors are had once
NoneTwice ==
    \A a \in Held :
        /\ card[a].seat \in 1 .. Seats[card[a].slot]
        /\ \A b \in Held \ {a} :
              /\ card[a].slot = card[b].slot => card[a].seat # card[b].seat
              /\ card[a].tutor = card[b].tutor /\ card[a].tutor # None => ~Clash(card[a].slot, card[b].slot)
              /\ card[a].child = card[b].child /\ {a, b} \subseteq Booked =>
                    /\ ~Clash(card[a].slot, card[b].slot)
                    /\ Kind[card[a].slot] = Kind[card[b].slot] => ~(ToCome(a) /\ ToCome(b))

InitAppointments == teaching = Tutors /\ NoneTwice

Writes(new) == card' = new /\ UNCHANGED <<time, teaching>>

Make(a, c, s, n) ==
    /\ card[a].status = "ABSENT" /\ SeatFree(s, n) /\ ChildFree(c, s, {})
    /\ Writes([card EXCEPT ![a] = Card(c, s, n, None, None, None)])

\* A Demo that is needed again is given again once, by another tutor
Repeat(a, d, s, n, t) ==
    /\ card[a].status = "ABSENT" /\ SeatFree(s, n) /\ ChildFree(card[d].child, s, {})
    /\ card[d].status = "REDEMO_REQUIRED" /\ Kind[s] = Repeats
    /\ \A b \in Held : card[b].redemoFor # d
    /\ TutorFree(t, s, {}) /\ t # card[d].tutor
    /\ Writes([card EXCEPT ![a] = Card(card[d].child, s, n, t, None, d)])

\* To another slot of its kind, with its tutor or with none; the old card stays and the new one names it
Move(a, b, s, n, t) ==
    /\ Open(b) /\ card[a].status = "ABSENT"
    /\ Kind[s] = Kind[card[b].slot] /\ SeatFree(s, n) /\ ChildFree(card[b].child, s, {b})
    /\ t = None \/ (t = card[b].tutor /\ TutorFree(t, s, {b}))
    /\ Writes([card EXCEPT ![b].status = "RESCHEDULED",
                           ![a] = Card(card[b].child, s, n, t, b, card[b].redemoFor)])

Cancel(a) == a \in Booked /\ Writes([card EXCEPT ![a].status = "CANCELLED"])

Confirm(a) == Open(a) /\ Writes([card EXCEPT ![a].answer = "CONFIRMED"])

Decline(a) ==
    Open(a) /\ Writes([card EXCEPT ![a].answer = "NOT_CONFIRMED", ![a].status = "CANCELLED"])

Assign(a, t) ==
    /\ Open(a) /\ TutorFree(t, card[a].slot, {a}) /\ t # FirstTutor(a)
    /\ Writes([card EXCEPT ![a].tutor = t])

Unassign(a) == Open(a) /\ Writes([card EXCEPT ![a].tutor = None])

Begin(a) == Open(a) /\ card[a].tutor # None /\ Writes([card EXCEPT ![a].started = TRUE])

\* Taught, and reported on
Report(a) == a \in Booked /\ card[a].started /\ Writes([card EXCEPT ![a].status = "COMPLETED"])

AskAgain(a) ==
    /\ card[a].status = "COMPLETED" /\ Kind[card[a].slot] = Repeats
    /\ Writes([card EXCEPT ![a].status = "REDEMO_REQUIRED"])

Reinstate(t) == teaching' = teaching \cup {t} /\ UNCHANGED <<time, card>>

Retire(t) ==
    /\ \A a \in Appointments : ToCome(a) => card[a].tutor # t
    /\ teaching' = teaching \ {t} /\ UNCHANGED <<time, card>>

Passes == time' > time /\ UNCHANGED <<teaching, card>>

NextOf(a) ==
    \/ \E s \in Slots : \E n \in 1 .. Seats[s] :
          \/ \E c \in Children : Make(a, c, s, n)
          \/ \E b \in Appointments, t \in Tutors \cup {None} : Repeat(a, b, s, n, t) \/ Move(a, b, s, n, t)
    \/ Cancel(a) \/ Confirm(a) \/ Decline(a)
    \/ Unassign(a) \/ Begin(a) \/ Report(a) \/ AskAgain(a)
    \/ \E t \in Tutors : Assign(a, t)

NextAppointments ==
    \/ card' # card /\ \E a \in Appointments : NextOf(a)
    \/ \E t \in Tutors : Reinstate(t) \/ Retire(t)
    \/ Passes

SpecAppointments == InitAppointments /\ [][NextAppointments]_bookVars
=============================================================================
