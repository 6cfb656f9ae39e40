----------------------------- MODULE Enrolment ------------------------------
(***************************************************************************)
(* Enrolling students: invitations to a child's parent (invitations), the  *)
(* parent's sign-in with Google that redeems them (accounts), and the      *)
(* class quota read from the enrolment sheet (students/quota_sync.py).     *)
(*                                                                         *)
(* Nothing here takes a lock: a task reads, and writes later, what others  *)
(* may have changed or withdrawn meanwhile.  The database keeps emails and *)
(* student codes unique, and a sign-in that would break that is undone.    *)
(***************************************************************************)
EXTENDS Integers, FiniteSets, Sequences, Functions

CONSTANTS
    Tasks,          \* what handles requests
    Parents,        \* email addresses
    Children,       \* student codes
    Invitations,    \* ids of Invitation rows
    Cells,          \* what a row of the sheet may say was paid for: numbers, Blank, or Words
    Blank, Words,
    None,
    EnrolmentAtStart \* who is invited and enrolled when it begins, what the sheet says, and what may then come

EnrolmentOps == {"invite", "change_email", "withdraw", "sign_in_parent", "sync_one", "hourly"}

InvitationRows ==
    [status : {"ABSENT", "WITHDRAWN", "PENDING", "ACCEPTED"}, parent : Parents \cup {None},
     child : Children \cup {None}, quota : Nat]

PupilRows == [parent : Parents \cup {None}, quota : Nat]

ASSUME EnrolmentAssumption ==
    /\ None \notin Parents \cup Children \cup Invitations \cup Nat \cup EnrolmentOps
    /\ None \notin {"read", "found", "known", "new", "fetched", "decided"}
    /\ Cells \subseteq Int \cup {Blank, Words} /\ {Blank, Words} \cap Int = {}
    /\ EnrolmentAtStart \subseteq [invitation : [Invitations -> InvitationRows], pupil : [Children -> PupilRows],
                                   sheet : [Children -> Seq(Cells)], asked : SUBSET EnrolmentOps,
                                   left : Nat, edits : Nat]
    /\ \A start \in EnrolmentAtStart :
          /\ \A i \in Invitations : LET row == start.invitation[i] IN
                IF row.status \in {"PENDING", "ACCEPTED"} THEN row.parent \in Parents /\ row.child \in Children
                ELSE row.parent = None /\ row.child = None
          /\ \A c \in Children : start.pupil[c].parent # None <=>
                \E i \in Invitations : start.invitation[i].status = "ACCEPTED" /\ start.invitation[i].child = c
          /\ \A c \in Children : start.pupil[c].parent # None =>
                \E i \in Invitations : start.invitation[i].child = c /\ start.invitation[i].parent = start.pupil[c].parent

VARIABLES
    invitation, \* Invitation rows
    parents,    \* those who have a student account
    pupil,      \* Student rows: whose child it is, None when not enrolled, and total_class_quota
    sheet,      \* the rows of the enrolment sheet for each child
    task,       \* what each task is doing
    hourly,     \* the run of the quota sync
    ever,       \* the [parent, child] ever invited
    edits,      \* bound: how often the sheet may still be edited
    comes,      \* what comes in this instance: chosen at the start, never changed
    comesLeft   \* bound: how many may still come

rowVars == <<invitation, parents, pupil>>
enrolmentVars == <<rowVars, sheet, task, hourly, ever, edits, comes, comesLeft>>

NoInvitation == [status |-> "ABSENT", parent |-> None, child |-> None, quota |-> 0]

FreeTask == [op |-> None, stage |-> None, parent |-> None, child |-> None, id |-> None,
             row |-> NoInvitation, quota |-> None, found |-> {}, mine |-> {}]

NotRunning == [stage |-> None, read |-> <<>>, quotas |-> <<>>]

InitEnrolment ==
    /\ \E start \in EnrolmentAtStart :
          /\ invitation = start.invitation /\ pupil = start.pupil
          /\ sheet = start.sheet /\ comes = start.asked
          /\ comesLeft = start.left /\ edits = start.edits
    /\ parents = {pupil[c].parent : c \in Children} \ {None}
    /\ task = [t \in Tasks |-> FreeTask]
    /\ hourly = NotRunning
    /\ ever = {[parent |-> invitation[i].parent, child |-> invitation[i].child] :
                  i \in {i \in Invitations : invitation[i].status # "ABSENT"}}

(***************************************************************************)
(* What the code reads                                                     *)
(***************************************************************************)
\* group_paid_classes_by_code: blank cells and words do not count
NumbersOf(rows) == {i \in DOMAIN rows : rows[i] \notin {Blank, Words}}

\* mutant: the sum as it is
SumOf(rows) == IF NumbersOf(rows) = {} THEN None ELSE SumFunctionOnSet(rows, NumbersOf(rows))

\* _reduce_values: the sum, never below zero; None when no row states a number
QuotaOf(rows) ==
    LET sum == SumFunctionOnSet(rows, NumbersOf(rows))
    IN IF NumbersOf(rows) = {} THEN None ELSE IF sum < 0 THEN 0 ELSE sum

Enrolled(c) == pupil[c].parent # None

Pending == {i \in Invitations : invitation[i].status = "PENDING"}

InvitationsOf(p, c) == {i \in Invitations : invitation[i].parent = p /\ invitation[i].child = c}

Starts(t, request) ==
    /\ task[t] = FreeTask
    /\ request.op \in comes /\ comesLeft > 0
    /\ task' = [task EXCEPT ![t] = request]
    /\ comesLeft' = comesLeft - 1

Is(t, op, stage) == task[t].op = op /\ task[t].stage = stage

Ends(t) == task' = [task EXCEPT ![t] = FreeTask]

-----------------------------------------------------------------------------
(***************************************************************************)
(* Inviting (InvitationView)                                               *)
(***************************************************************************)
\* The child is not enrolled; the sheet is read, or cannot be, and a child it does not number has no class
Invite(t) ==
    /\ \E p \in Parents, c \in Children, fails \in BOOLEAN :
          /\ ~ Enrolled(c)
          /\ Starts(t, [FreeTask EXCEPT !.op = "invite", !.stage = "read", !.parent = p, !.child = c,
                                        !.quota = IF fails \/ QuotaOf(sheet[c]) = None THEN 0 ELSE QuotaOf(sheet[c])])
    /\ UNCHANGED <<rowVars, sheet, hourly, ever, edits, comes>>

\* The invitation this parent has for this child is read, if there is one; it must not have been accepted
FindInvitation(t) ==
    LET r == task[t] IN
    /\ Is(t, "invite", "read")
    /\ IF InvitationsOf(r.parent, r.child) = {}
         THEN task' = [task EXCEPT ![t].stage = "found"]
         ELSE \E i \in InvitationsOf(r.parent, r.child) :
                 IF invitation[i].status = "ACCEPTED"
                   THEN Ends(t)
                   ELSE task' = [task EXCEPT ![t].stage = "found", ![t].id = i]
    /\ UNCHANGED <<rowVars, sheet, hourly, ever, edits, comes, comesLeft>>

\* It is saved whole, as pending, whatever it has become; or a new one is made
SaveInvitation(t) ==
    LET r == task[t] IN
    /\ Is(t, "invite", "found")
    /\ \E i \in Invitations :
          /\ IF r.id = None THEN invitation[i] = NoInvitation ELSE i = r.id
          /\ invitation' = [invitation EXCEPT ![i] = [status |-> "PENDING", parent |-> r.parent,
                                                      child |-> r.child, quota |-> r.quota]]
    /\ ever' = ever \cup {[parent |-> r.parent, child |-> r.child]}
    /\ Ends(t)
    /\ UNCHANGED <<parents, pupil, sheet, hourly, edits, comes, comesLeft>>

\* A pending invitation is to go to another address, without another one for the child
ChangeEmail(t) ==
    /\ \E i \in Pending, p \in Parents :
          /\ InvitationsOf(p, invitation[i].child) \ {i} = {}
          /\ Starts(t, [FreeTask EXCEPT !.op = "change_email", !.id = i, !.parent = p, !.row = invitation[i]])
    /\ UNCHANGED <<rowVars, sheet, hourly, ever, edits, comes>>

\* The row is saved whole, as it was read
SaveEmail(t) ==
    LET r == task[t] IN
    /\ r.op = "change_email"
    /\ invitation' = [invitation EXCEPT ![r.id] = [r.row EXCEPT !.parent = r.parent]]
    /\ ever' = ever \cup {[parent |-> r.parent, child |-> r.row.child]}
    /\ Ends(t)
    /\ UNCHANGED <<parents, pupil, sheet, hourly, edits, comes, comesLeft>>

Withdraw(t) ==
    /\ \E i \in Pending : Starts(t, [FreeTask EXCEPT !.op = "withdraw", !.id = i])
    /\ UNCHANGED <<rowVars, sheet, hourly, ever, edits, comes>>

DeleteInvitation(t) ==
    /\ task[t].op = "withdraw"
    /\ invitation' = [invitation EXCEPT ![task[t].id] = [NoInvitation EXCEPT !.status = "WITHDRAWN"]]
    /\ Ends(t)
    /\ UNCHANGED <<parents, pupil, sheet, hourly, ever, edits, comes, comesLeft>>

(***************************************************************************)
(* A parent signs in with Google (GoogleLoginView)                         *)
(***************************************************************************)
ChildrenOf(p) == {c \in Children : pupil[c].parent = p}

\* mutant: whoever they are for
PendingOfAll(p) == Pending

PendingOf(p) == {i \in Pending : invitation[i].parent = p}

\* Only a parent with an invitation, pending if it is their first sign-in; their pending ones are read
SignInParent(t) ==
    /\ \E p \in Parents :
          /\ \E i \in Invitations : invitation[i].parent = p
          /\ p \in parents \/ PendingOf(p) # {}
          /\ Starts(t, [FreeTask EXCEPT !.op = "sign_in_parent", !.stage = IF p \in parents THEN "known" ELSE "new",
                                        !.parent = p, !.found = {<<i, invitation[i]>> : i \in PendingOf(p)},
                                        !.mine = ChildrenOf(p)])
    /\ UNCHANGED <<rowVars, sheet, hourly, ever, edits, comes>>

\* The children they are for and that are not this parent's already
NewChildren(r, mine) == {f[2].child : f \in r.found} \ mine

\* The database refuses a second account, a student code already enrolled, and to mark what was withdrawn
Refused(r, mine) ==
    \/ r.stage = "new" /\ r.parent \in parents
    \/ \E c \in NewChildren(r, mine) : Enrolled(c)
    \/ \E f \in r.found : invitation[f[1]].status = "WITHDRAWN"

Accepted(r) ==
    [i \in Invitations |-> IF \E f \in r.found : f[1] = i THEN [invitation[i] EXCEPT !.status = "ACCEPTED"]
                           ELSE invitation[i]]

\* Each new child starts with the quota of an invitation for it, as it was read
Enrols(r, new) ==
    \E quotas \in [new -> {f[2].quota : f \in r.found}] :
        /\ \A c \in new : \E f \in r.found : f[2].child = c /\ f[2].quota = quotas[c]
        /\ pupil' = [c \in Children |-> IF c \in new THEN [parent |-> r.parent, quota |-> quotas[c]] ELSE pupil[c]]

Redeem(t) ==
    LET r == task[t] IN
    /\ r.op = "sign_in_parent"
    /\ ~ Refused(r, ChildrenOf(r.parent))
    /\ parents' = parents \cup {r.parent}
    /\ Enrols(r, NewChildren(r, ChildrenOf(r.parent)))
    /\ invitation' = Accepted(r)
    /\ Ends(t)
    /\ UNCHANGED <<sheet, hourly, ever, edits, comes, comesLeft>>

\* All of the sign-in's transaction is undone, and it answers with an error; what the parent already
\* had may have been looked at before another sign-in of theirs enrolled more
UndoSignIn(t) ==
    /\ task[t].op = "sign_in_parent"
    /\ Refused(task[t], task[t].mine)
    /\ Ends(t)
    /\ UNCHANGED <<rowVars, sheet, hourly, ever, edits, comes, comesLeft>>

(***************************************************************************)
(* The class quota                                                         *)
(***************************************************************************)
\* sync_one_student_quota: the student is read, and the sheet after that
SyncOne(t) ==
    /\ \E c \in Children :
          /\ Enrolled(c)
          /\ Starts(t, [FreeTask EXCEPT !.op = "sync_one", !.stage = "read", !.child = c, !.row = pupil[c]])
    /\ UNCHANGED <<rowVars, sheet, hourly, ever, edits, comes>>

\* The sheet cannot be read, states no number, or the one the student was read with: nothing is written
FetchOne(t) ==
    LET r == task[t] quota == QuotaOf(sheet[r.child]) IN
    /\ Is(t, "sync_one", "read")
    /\ \/ Ends(t)
       \/ /\ quota \notin {None, r.row.quota}
          /\ task' = [task EXCEPT ![t].stage = "fetched", ![t].quota = quota]
    /\ UNCHANGED <<rowVars, sheet, hourly, ever, edits, comes, comesLeft>>

WriteOne(t) ==
    /\ Is(t, "sync_one", "fetched")
    /\ pupil' = [pupil EXCEPT ![task[t].child].quota = task[t].quota]
    /\ Ends(t)
    /\ UNCHANGED <<invitation, parents, sheet, hourly, ever, edits, comes, comesLeft>>

\* sync_student_quotas_from_sheet: all of the sheet is read, or the run ends with nothing written
FetchSheet ==
    /\ "hourly" \in comes
    /\ hourly = NotRunning
    /\ hourly' = [NotRunning EXCEPT !.stage = "fetched", !.read = sheet]
    /\ UNCHANGED <<rowVars, sheet, task, ever, edits, comes, comesLeft>>

\* mutant: a quota is only ever raised
DifferingUp(read) == {c \in Children : Enrolled(c) /\ QuotaOf(read[c]) # None /\ QuotaOf(read[c]) > pupil[c].quota}

\* The students are read after it, and those the sheet states another number for are to change
Differing(read) == {c \in Children : Enrolled(c) /\ QuotaOf(read[c]) \notin {None, pupil[c].quota}}

ReadStudents ==
    /\ hourly.stage = "fetched"
    /\ hourly' = [NotRunning EXCEPT !.stage = "decided",
                                    !.quotas = [c \in Differing(hourly.read) |-> QuotaOf(hourly.read[c])]]
    /\ UNCHANGED <<rowVars, sheet, task, ever, edits, comes, comesLeft>>

\* One transaction: all of them, whatever their quota has become
WriteQuotas ==
    /\ hourly.stage = "decided"
    /\ pupil' = [c \in Children |-> IF c \in DOMAIN hourly.quotas THEN [pupil[c] EXCEPT !.quota = hourly.quotas[c]]
                                     ELSE pupil[c]]
    /\ hourly' = NotRunning
    /\ UNCHANGED <<invitation, parents, sheet, task, ever, edits, comes, comesLeft>>

\* Someone edits a row of the sheet, adds one or removes one
EditSheet ==
    /\ edits > 0
    /\ \E c \in Children :
          \E rows \in UNION {{Append(sheet[c], cell), <<cell>>, <<>>} : cell \in Cells} :
              /\ rows # sheet[c] /\ Len(rows) <= 2
              /\ sheet' = [sheet EXCEPT ![c] = rows]
    /\ edits' = edits - 1
    /\ UNCHANGED <<rowVars, task, hourly, ever, comes, comesLeft>>

NextEnrolment ==
    \/ FetchSheet \/ ReadStudents \/ WriteQuotas \/ EditSheet
    \/ \E t \in Tasks :
          \/ Invite(t) \/ FindInvitation(t) \/ SaveInvitation(t)
          \/ ChangeEmail(t) \/ SaveEmail(t) \/ Withdraw(t) \/ DeleteInvitation(t)
          \/ SignInParent(t) \/ Redeem(t) \/ UndoSignIn(t)
          \/ SyncOne(t) \/ FetchOne(t) \/ WriteOne(t)

SpecEnrolment == InitEnrolment /\ [][NextEnrolment]_enrolmentVars

\* Celery beat starts a run every hour, and a run has a time limit; requests are answered
HourlySyncs ==
    /\ WF_enrolmentVars(FetchSheet \/ ReadStudents \/ WriteQuotas)
    /\ \A t \in Tasks : WF_enrolmentVars(Redeem(t) \/ UndoSignIn(t) \/ FetchOne(t) \/ WriteOne(t))

FairEnrolment == SpecEnrolment /\ HourlySyncs

-----------------------------------------------------------------------------
(***************************************************************************)
(* Properties                                                              *)
(***************************************************************************)
EnrolmentTyped ==
    /\ invitation \in [Invitations -> InvitationRows]
    /\ parents \subseteq Parents
    /\ pupil \in [Children -> PupilRows]
    /\ \A c \in Children : sheet[c] \in Seq(Cells)
    /\ \A t \in Tasks : task[t].row \in InvitationRows \cup PupilRows

(* A child is enrolled for a parent who was invited for it and has an      *)
(* account, or not at all, and an accepted invitation has enrolled its     *)
(* child: though invitations be sent again, redirected and withdrawn while *)
(* they are redeemed, and be redeemed by two sign-ins at once.             *)
EnrolledByInvitation ==
    /\ \A c \in Children : Enrolled(c) =>
          /\ pupil[c].parent \in parents
          /\ [parent |-> pupil[c].parent, child |-> c] \in ever
    /\ \A i \in Invitations : invitation[i].status = "ACCEPTED" => Enrolled(invitation[i].child)

(* Once the sheet is left alone, every enrolled student has the quota that *)
(* it states for them, whatever was being written from older readings.     *)
QuotaFollowsSheet ==
    <>[]("hourly" \in comes => \A c \in Children :
            Enrolled(c) /\ QuotaOf(sheet[c]) # None => pupil[c].quota = QuotaOf(sheet[c]))
=============================================================================
