------------------------------ MODULE MCLocks -------------------------------
(***************************************************************************)
(* Instances for TLC of the modules whose transactions lock row by row:    *)
(* Tuition, and the messages of one lead in MessageLocks.  They meet in no *)
(* row, so one of them moves and the other has nothing asked of it.        *)
(***************************************************************************)
EXTENDS Tuition, MessageLocks, TLC

CONSTANTS w1, w2, m1, m2, t1, t2, movedDemo, newDemo, diagnostic, ackEarlier, ackLater, askLater, ackOther

VARIABLE part  \* which of them moves

(***************************************************************************)
(* Tuition: two students, the first of t1 and the second of t1 or t2, in   *)
(* situations that each allow some operations                              *)
(***************************************************************************)
Time(start, end) == [start |-> start, end |-> end]

\* One over, two that overlap, and one that touches the second
Past == Time(0, 1)
Early == Time(2, 4)
Midway == Time(3, 5)
Late == Time(5, 6)
Times == {Early, Midway, Late}

Asked == {<<Early>>, <<Midway>>, <<Midway, Late>>}

Change(status, time) == [status |-> status, time |-> time]

\* Cancelled, taught, put back, moved; and put back or taught at another time
Changed == {Change("CANCELLED", None), Change("ATTENDED", None), Change("SCHEDULED", None),
            Change("SCHEDULED", Early), Change("SCHEDULED", Midway), Change("ATTENDED", Late)}

To(m, t) == [mentor |-> m, tutor |-> t]

HandedTo == {To(m1, t2), To(m2, t1), To(None, t2)}

Quotas == [s \in Students |-> 6]
LateExam == [s \in Students |-> IF s = 2 THEN {Late} ELSE {}]

Class(status, s, t, time) ==
    [NoClass EXCEPT !.status = status, !.student = s, !.tutor = t, !.start = time.start, !.end = time.end]

InSeries(n, s, t, time) == [Class("SCHEDULED", s, t, time) EXCEPT !.series = 1, !.number = n]

Enrolled(t) == [s \in Students |-> [status |-> "ACTIVE", mentor |-> m1, tutor |-> IF s = 1 THEN t1 ELSE t]]

Situation(classes, t, booked, may, count) ==
    [session |-> [c \in Classes |-> IF c \in DOMAIN classes THEN classes[c] ELSE NoClass],
     student |-> Enrolled(t), bookings |-> booked, ops |-> may, left |-> count]

\* Nothing is scheduled yet, for two students of one tutor
Starting == Situation(<<>>, t1, {}, {"create", "assign_booking"}, 4)

\* A class to be taught and one cancelled at an overlapping time
Changing == Situation(<<Class("SCHEDULED", 1, t1, Early), Class("CANCELLED", 2, t1, Midway)>>, t2, {},
                      {"create", "update_session", "change_tutor"}, 3)

\* Each student has a class, and a tutor of their own
HandingOver == Situation(<<Class("SCHEDULED", 1, t1, Early), Class("SCHEDULED", 2, t2, Late)>>, t2, {},
                         {"create", "update_session", "reassign"}, 3)

\* Both students leave their tutor at once
HandingAll == Situation(<<Class("SCHEDULED", 1, t1, Early), Class("SCHEDULED", 2, t1, Late)>>, t1, {},
                        {"create", "update_session", "reassign_all"}, 2)

\* A class is missed and made up for
MakingUp == Situation(<<InSeries(1, 1, t1, Early), InSeries(2, 1, t1, Late)>>, t1, {},
                      {"create", "cancel_series", "update_session"}, 3)

\* Staff leave; t2 has bookings at the time of a class that is over, and late
Leaving == Situation(<<Class("SCHEDULED", 1, t1, Early), Class("SCHEDULED", 1, t1, Past)>>, t2,
                     {[tutor |-> t2, start |-> 0, end |-> 1], [tutor |-> t2, start |-> 5, end |-> 6]},
                     {"reassign", "reassign_all", "deactivate", "reactivate", "assign_booking"}, 3)

\* Profiles and links are edited
Editing == Situation(<<Class("SCHEDULED", 1, t1, Early)>>, t1, {}, {"edit_session", "edit_student", "create"}, 5)

Untaught == Situation(<<>>, t1, {}, {}, 0)

Situations == {Starting, Changing, HandingOver, HandingAll, MakingUp, Leaving, Editing, Untaught}

(***************************************************************************)
(* MessageLocks: a Demo that was moved, the Demo it was moved to, and, in  *)
(* some situations, a Diagnostic                                           *)
(***************************************************************************)
EachAbout ==
    (ackEarlier :> movedDemo) @@ (ackLater :> newDemo) @@ (askLater :> newDemo) @@ (ackOther :> diagnostic)
Moved == <<movedDemo, newDemo>>

Each(first, next, asking, another) ==
    (ackEarlier :> first) @@ (ackLater :> next) @@ (askLater :> asking) @@ (ackOther :> another)

\* Every order of the ids of the chain's messages, and some of all four
ChainOrders == {<<ackOther>> \o order : order \in SetToSeqs({ackEarlier, ackLater, askLater})}
SomeOrders == {<<ackEarlier, ackLater, askLater, ackOther>>, <<ackOther, askLater, ackLater, ackEarlier>>,
               <<ackLater, ackOther, ackEarlier, askLater>>, <<askLater, ackEarlier, ackOther, ackLater>>}

\* r: the messages and steps, and what the provider answers the sender of the first
Lead(r, orders, may, count) ==
    {[message |-> r.message, step |-> r.step, answer |-> Each(r.answer, "NONE", "NONE", "NONE"),
      standing |-> (movedDemo :> "MOVED") @@ (newDemo :> "BOOKED")
                     @@ (diagnostic :> IF r.message[ackOther] = "CANCELLED" THEN "CANCELLED" ELSE "BOOKED"),
      ended |-> {}, ids |-> order, taskIds |-> <<ackEarlier, ackLater, askLater, ackOther>>,
      ops |-> may, left |-> count] : order \in orders}

InFlight(answered, another) ==
    [message |-> Each("CLAIMED", "WAITING", "PENDING", another), answer |-> answered,
     step |-> Each("CANCELLED", "OPEN", "OPEN", IF another = "CANCELLED" THEN "CANCELLED" ELSE "OPEN")]

Taken ==
    [message |-> Each("TAKEN", "CANCELLED", "PENDING", "CANCELLED"), answer |-> "NONE",
     step |-> Each("DONE", "SETTLED", "OPEN", "CANCELLED")]

\* The first acknowledgement's sender comes back, with another of the lead's bookings or without;
\* or what it sent fails delivery
Recording == UNION {Lead(InFlight(a, "CANCELLED"), ChainOrders, {"record", "recover", "close", "confirm", "claim"}, 3) :
                       a \in ProviderAnswers}
Transferring == UNION {Lead(InFlight(a, "PENDING"), SomeOrders, {"record", "owner", "contact", "refresh", "confirm"}, 2) :
                          a \in ProviderAnswers}
Expiring == Lead(InFlight("REFUSED", "PENDING"), SomeOrders, {"record", "expire", "owner", "contact", "confirm"}, 2)
Reporting == Lead(Taken, ChainOrders, {"report", "claim", "record", "close", "confirm", "refresh"}, 3)
Unwritten == Lead(Taken, {<<ackEarlier, ackLater, askLater, ackOther>>}, {}, 0)

LeadSituations == Recording \cup Transferring \cup Expiring \cup Reporting \cup Unwritten

-----------------------------------------------------------------------------
InitLocks ==
    /\ Init /\ InitMessages
    /\ part \in {"tuition", "messages"}
    /\ part = "tuition" <=> ops # {}
    /\ part = "messages" <=> mayRun # {}

NextLocks ==
    /\ UNCHANGED part
    /\ \/ part = "tuition" /\ Next /\ UNCHANGED messageVars
       \/ part = "messages" /\ NextMessages /\ UNCHANGED vars

SpecLocks == InitLocks /\ [][NextLocks]_<<vars, messageVars, part>>

WorkerSymmetry == Permutations(Workers)
=============================================================================
