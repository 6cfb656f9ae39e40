---------------------------- MODULE MCBookings ----------------------------
(***************************************************************************)
(* Instances of Bookings for TLC.                                          *)
(***************************************************************************)
EXTENDS Bookings, TLC

CONSTANTS w1, w2, l1, l2, t1, t2, k1, pastExam, pastDemo, missed, exam, demo, later

\* Days of four hours: the past slots on the first day, exam and demo overlapping on the third, and
\* later on the fourth; the clock begins on the second
Types == [s \in Slots |-> IF s \in {exam, pastExam} THEN "DIAGNOSTIC" ELSE "DEMO"]
Starts == [s \in Slots |->
    CASE s \in {pastExam, pastDemo} -> 0 [] s = missed -> 2 [] s = exam -> 8 [] s = demo -> 9
      [] OTHER -> 13]

OneSeat == [s \in Slots |-> 1]
Siblings == [l \in Leads |-> "phone"]

\* Bookings in the database when an instance begins, each to come or taught
Row(l, s, seat) == [Blank EXCEPT !.status = "BOOKED", !.lead = l, !.slot = s, !.seat = seat,
                                 !.via = "public_booking"]
Taught(l, s, t) == [Row(l, s, 1) EXCEPT !.status = "COMPLETED", !.tutor = t, !.started = TRUE]

Rows(made) ==
    [booking |-> [b \in Bookings |-> IF b \in DOMAIN made THEN made[b] ELSE Blank],
     invite |-> [i \in Invites |-> NoInvite],
     session |-> [c \in Classes |-> NoSession]]

NoRows == {Rows(<<>>)}
TwoRows == {Rows(<<Row(l1, exam, 1), Row(l2, demo, 1)>>)}

\* Nothing is booked, or a child missed a Demo
MissedRow == NoRows \cup {Rows(<<Row(l, missed, 1)>>) : l \in Leads}

\* A booking that has its tutor, who has a class after the last slot
AssignedRow == {[Rows(<<[Row(l1, demo, 1) EXCEPT !.tutor = t1]>>) EXCEPT
    !.session = [c \in Classes |-> [status |-> "SCHEDULED", tutor |-> t1, start |-> Starts[later] + SlotLength]]]}

\* A Diagnostic taught, or a Demo taught, or one that needs another and the Re-Demo missed
TaughtRow ==
    {Rows(<<Taught(l1, pastExam, t1)>>),
     Rows(<<Taught(l1, pastDemo, t1)>>),
     Rows(<<[Taught(l1, pastDemo, t1) EXCEPT !.status = "REDEMO_REQUIRED"],
            [Row(l1, missed, 1) EXCEPT !.via = "redemo", !.tutor = t2, !.redemoFor = 1]>>)}

ChildOps == {"create_booking", "reschedule_booking", "set_slots_closed"}
TutorOps == {"assign_tutor", "unassign_tutor", "reschedule_booking", "schedule_class", "end_class",
             "set_account_active"}
StartOps == {"start_booking", "record_parent_confirmation", "reschedule_booking", "submit_report",
             "cancel_booking", "set_tutor_meet_link", "edit_class"}
AfterOps == {"issue_invite", "revoke_invite", "create_invited_demo_booking", "cancel_booking",
             "reschedule_booking", "request_redemo", "schedule_redemo", "assign_tutor"}

WorkerSymmetry == Permutations(Workers)
LeadSymmetry == Permutations(Workers) \cup Permutations(Leads)
TutorSymmetry == Permutations(Workers) \cup Permutations(Tutors)
=============================================================================
