----------------------------- MODULE MCRecords ------------------------------
(***************************************************************************)
(* Instances for TLC of the modules that share nothing but the database:   *)
(* Accounts, Enrolment, Schoolwork and Reports.  One of them moves, and    *)
(* the others have nothing asked of them.                                  *)
(***************************************************************************)
EXTENDS Accounts, Enrolment, Schoolwork, Reports

CONSTANTS root, second, other, grantOne, grantTwo, child1, child2, lesson, extra, chapter

VARIABLE part  \* which of them moves

(***************************************************************************)
(* Accounts: someone guesses, managers manage, and forms are open          *)
(***************************************************************************)
AllowedFor ==
    [r \in StaffRoles |-> CASE r = Admin -> {grantOne, grantTwo} [] r = "TUTOR" -> {grantOne} [] OTHER -> {grantTwo}]

Has(role) == [exists |-> TRUE, role |-> role, active |-> TRUE, password |-> 1,
              mustChange |-> FALSE, failures |-> 0, lockedUntil |-> 0]
NotYet == [Has("TUTOR") EXCEPT !.exists = FALSE, !.active = FALSE, !.password = 0]

Team(r1, r2, r3, may, time, count) ==
    [account |-> [u \in Users |-> CASE u = root -> r1 [] u = second -> r2 [] OTHER -> r3],
     asked |-> may, clock |-> time, left |-> count]

Guessing == Team(Has("ADMIN"), Has("TUTOR"), NotYet, {"sign_in", "change_password", "reset_password"}, 2, 4)
Managing == Team(Has("ADMIN"), Has("ADMIN"), Has("TUTOR"),
                 {"create", "role", "deactivate", "reactivate", "permissions"}, 3, 3)
Forms == Team(Has("ADMIN"), Has("TUTOR"), NotYet,
              {"admin_form", "set_password", "change_password", "reset_password"}, 3, 3)
QuietTeam == Team(Has("ADMIN"), NotYet, NotYet, {}, 3, 0)

\* A form opened while the account was free of wrong passwords, or while it was locked with a temporary one
PostedForms == {NothingPosted, [mustChange |-> TRUE, failures |-> MaxFailures, lockedUntil |-> MaxClock + Lockout]}

TeamsAtStart == {Guessing, Managing, Forms, QuietTeam}

(***************************************************************************)
(* Enrolment: invitations cross sign-ins, and syncs cross edits            *)
(***************************************************************************)
CellSet == {Blank, -1, 2}

Nobodys == [c \in Children |-> [parent |-> None, quota |-> 0]]
Uninvited == [i \in Invitations |-> NoInvitation]

\* The first child is enrolled
AParent == CHOOSE p \in Parents : TRUE
OneEnrolled == [Nobodys EXCEPT ![child1] = [parent |-> AParent, quota |-> 2]]
OneAccepted == [Uninvited EXCEPT ![1] = [status |-> "ACCEPTED", parent |-> AParent, child |-> child1, quota |-> 2]]

Sheet(invited, enrolled, first, next, may, count, changes) ==
    [invitation |-> invited, pupil |-> enrolled, sheet |-> [c \in Children |-> IF c = child1 THEN first ELSE next],
     asked |-> may, left |-> count, edits |-> changes]

Inviting == Sheet(Uninvited, Nobodys, <<2>>, <<>>, {"invite", "change_email", "withdraw", "sign_in_parent"}, 4, 0)
Syncing == Sheet(OneAccepted, OneEnrolled, <<2>>, <<Blank>>, {"invite", "sign_in_parent", "sync_one", "hourly"}, 3, 1)
QuietSheet == Sheet(Uninvited, Nobodys, <<>>, <<>>, {}, 0, 0)

SheetsAtStart == {Inviting, Syncing, QuietSheet}

(***************************************************************************)
(* Schoolwork: homework, an additional exam, and a chapter exam            *)
(***************************************************************************)
Work(attended, homework, may, count) ==
    [class |-> [c \in Classes |-> [status |-> IF attended THEN "ATTENDED" ELSE "SCHEDULED", link |-> attended]],
     work |-> [p \in Pieces |-> [status |-> IF p = lesson THEN homework ELSE "ABSENT", score |-> 0]],
     exam |-> [e \in Exams |-> [status |-> "ABSENT", score |-> 0]],
     asks |-> may, left |-> count]

Attending == Work(FALSE, "ABSENT", {"edit_class", "upload_homework", "submit"}, 3)
Submitting == Work(TRUE, "ASSIGNED", {"submit", "score", "set_extra"}, 4)
Examining == Work(FALSE, "ABSENT", {"schedule_exam", "change_exam", "record_result"}, 4)
QuietWork == Work(FALSE, "ABSENT", {}, 0)

WorksAtStart == {Attending, Submitting, Examining, QuietWork}

-----------------------------------------------------------------------------
recordVars == <<accountVars, enrolmentVars, schoolVars, reportVars, part>>

InitRecords ==
    /\ InitAccounts /\ InitEnrolment /\ InitSchoolwork /\ InitReports
    /\ part \in {"accounts", "enrolment", "schoolwork", "reports"}
    /\ part = "accounts" <=> asked # {}
    /\ part = "enrolment" <=> comes # {}
    /\ part = "schoolwork" <=> asks # {}
    /\ part # "reports" => visit.author = NoOne

NextRecords ==
    /\ UNCHANGED part
    /\ \/ part = "accounts" /\ NextAccounts /\ UNCHANGED <<enrolmentVars, schoolVars, reportVars>>
       \/ part = "enrolment" /\ NextEnrolment /\ UNCHANGED <<accountVars, schoolVars, reportVars>>
       \/ part = "schoolwork" /\ NextSchoolwork /\ UNCHANGED <<accountVars, enrolmentVars, reportVars>>
       \/ part = "reports" /\ NextReports /\ UNCHANGED <<accountVars, enrolmentVars, schoolVars>>

(* The rows of every part are what they may be.                            *)
RecordsTyped == AccountsTyped /\ EnrolmentTyped /\ SchoolworkTyped /\ ReportsTyped

SpecRecords == InitRecords /\ [][NextRecords]_recordVars /\ HourlySyncs
=============================================================================
