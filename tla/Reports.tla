------------------------------ MODULE Reports -------------------------------
(***************************************************************************)
(* The assessment report of one booking (reports/services.py): the tutor   *)
(* submits it, which completes the booking, and edits it later, from pages *)
(* that may be open at once, each made from the version it was opened at.  *)
(*                                                                         *)
(* Every write of the booking or its report locks the slot, the booking    *)
(* and, for an edit, the report's row, in that order: one lock here.       *)
(***************************************************************************)
EXTENDS Integers, FiniteSets, Sequences

CONSTANTS
    Pages,       \* the open forms of the tutors
    Authors,     \* the tutors the booking may be assigned to
    Texts,       \* what a tutor may write
    Unwritten,
    NoOne,
    MaxVersions  \* bound: versions a report may have

ASSUME ReportsAssumption ==
    /\ Unwritten \notin Texts
    /\ NoOne \notin Authors \cup Pages
    /\ MaxVersions \in Nat

VARIABLES
    visit,      \* the booking: its status, tutor, and whether the tutor has started it
    report,     \* the report's row, version 0 when there is none
    revisions,  \* the rows of report.revisions, each with what its author had been shown
    page,       \* each page: whose it is, the version and text it was opened at, and what is being saved
    locked      \* the pages whose requests have checked, and have the locks

reportVars == <<visit, report, revisions, page, locked>>

Shut == [author |-> NoOne, version |-> 0, shown |-> Unwritten, draft |-> Unwritten, sent |-> FALSE]

InitReports ==
    /\ visit \in [status : {"BOOKED"}, author : Authors \cup {NoOne}, started : {FALSE}]
    /\ report = [version |-> 0, text |-> Unwritten]
    /\ revisions = {}
    /\ page = [p \in Pages |-> Shut]
    /\ locked = {}

-----------------------------------------------------------------------------
Open(p) == page[p].author # NoOne

\* A tutor opens the booking they are assigned: the report as it is, if there is one
OpenPage(p) ==
    /\ ~ page[p].sent
    /\ visit.author # NoOne
    /\ page' = [page EXCEPT ![p] = [author |-> visit.author, version |-> report.version, shown |-> report.text,
                                    draft |-> Unwritten, sent |-> FALSE]]
    /\ UNCHANGED <<visit, report, revisions, locked>>

\* A submit is sent from a page without a report, an edit, with its version, from one with a report;
\* when no answer came, or Busy, it may be sent again as it was or as it has become
SendPage(p) ==
    /\ Open(p) /\ ~ page[p].sent
    /\ report.version < MaxVersions
    /\ \E text \in Texts : page' = [page EXCEPT ![p].draft = text, ![p].sent = TRUE]
    /\ UNCHANGED <<visit, report, revisions, locked>>

\* mutant: whose page it is is not compared
MaySubmitAnyone(p) == report.version = 0 /\ visit.status = "BOOKED" /\ visit.started

\* submit_report's checks
MaySubmit(p) ==
    /\ visit.author = page[p].author
    /\ report.version = 0
    /\ visit.status = "BOOKED" /\ visit.started

\* mutant: the versions are not compared
MayEditAny(p) ==
    /\ visit.author = page[p].author
    /\ report.version # 0
    /\ page[p].draft # report.text

\* edit_report's: no other version than the one the page shows, and something is changed
MayEdit(p) ==
    /\ visit.author = page[p].author
    /\ report.version # 0
    /\ page[p].version = report.version
    /\ page[p].draft # report.text

MaySave(p) == IF page[p].version = 0 THEN MaySubmit(p) ELSE MayEdit(p)

\* The locks are had, and everything is read under them; a refused page stays as it is
LockFree == locked = {}

CheckSave(p) ==
    /\ page[p].sent /\ p \notin locked
    /\ LockFree
    /\ IF MaySave(p)
         THEN locked' = locked \cup {p} /\ UNCHANGED page
         ELSE page' = [page EXCEPT ![p].sent = FALSE] /\ UNCHANGED locked
    /\ UNCHANGED <<visit, report, revisions>>

\* LOCK_TIMEOUT, or a deadlock: ReportBusy
BusySave(p) ==
    /\ page[p].sent /\ p \notin locked /\ ~ LockFree
    /\ page' = [page EXCEPT ![p].sent = FALSE]
    /\ UNCHANGED <<visit, report, revisions, locked>>

\* The server stops, or its connection fails, before the transaction commits
FailSave(p) ==
    /\ p \in locked
    /\ locked' = locked \ {p}
    /\ page' = [page EXCEPT ![p].sent = FALSE]
    /\ UNCHANGED <<visit, report, revisions>>

Revision(p) == [version |-> report.version + 1, text |-> page[p].draft, over |-> page[p].shown, author |-> page[p].author]

\* The transaction commits, and the page shows the version saved, or its answer is lost
CommitSave(p) ==
    /\ p \in locked
    /\ report' = [version |-> report.version + 1, text |-> page[p].draft]
    /\ revisions' = revisions \cup {Revision(p)}
    /\ visit' = [visit EXCEPT !.status = "COMPLETED"]
    /\ locked' = locked \ {p}
    /\ \E answered \in BOOLEAN :
          page' = [page EXCEPT ![p] = IF answered
                                        THEN [@ EXCEPT !.version = report.version + 1, !.shown = page[p].draft, !.sent = FALSE]
                                        ELSE [@ EXCEPT !.sent = FALSE]]

\* bookings.booking_service, under the booking's lock: the tutor starts it, until then another may be
\* assigned, or nobody; it may be cancelled, or moved, until it is completed
StartVisit ==
    /\ LockFree
    /\ visit.status = "BOOKED" /\ ~ visit.started /\ visit.author # NoOne
    /\ visit' = [visit EXCEPT !.started = TRUE]
    /\ UNCHANGED <<report, revisions, page, locked>>

AssignVisit ==
    /\ LockFree
    /\ visit.status = "BOOKED" /\ ~ visit.started
    /\ \E author \in Authors \cup {NoOne} : visit' = [visit EXCEPT !.author = author]
    /\ UNCHANGED <<report, revisions, page, locked>>

CancelVisit ==
    /\ LockFree
    /\ visit.status = "BOOKED"
    /\ visit' = [visit EXCEPT !.status = "CANCELLED"]
    /\ UNCHANGED <<report, revisions, page, locked>>

NextReports ==
    \/ StartVisit \/ AssignVisit \/ CancelVisit
    \/ \E p \in Pages : OpenPage(p) \/ SendPage(p) \/ CheckSave(p) \/ BusySave(p) \/ FailSave(p) \/ CommitSave(p)

SpecReports == InitReports /\ [][NextReports]_reportVars

-----------------------------------------------------------------------------
PageRows == [author : Authors \cup {NoOne}, version : Nat, shown : Texts \cup {Unwritten},
             draft : Texts \cup {Unwritten}, sent : BOOLEAN]

RevisionRows == [version : Nat \ {0}, text : Texts, over : Texts \cup {Unwritten}, author : Authors]

ReportsTyped ==
    /\ visit \in [status : {"BOOKED", "COMPLETED", "CANCELLED"}, author : Authors \cup {NoOne}, started : BOOLEAN]
    /\ report \in [version : Nat, text : Texts \cup {Unwritten}]
    /\ revisions \subseteq RevisionRows
    /\ page \in [Pages -> PageRows]
    /\ locked \subseteq Pages

\* The revision a version of the report has, and what the revisions say of the report's history
RevisionOf(n) == CHOOSE r \in revisions : r.version = n

Versions == [n \in 1 .. report.version |-> [text |-> RevisionOf(n).text, over |-> RevisionOf(n).over]]

(* The report and its revisions are what ReportHistory promises: two edits *)
(* never overwrite each other unseen, whichever page each is made from,    *)
(* whenever it is sent again, and no revision is changed or lost.          *)
History == INSTANCE ReportHistory WITH history <- Versions

ImplementsHistory == History!SpecHistory

(* A booking is completed with its report, all of it or none; every        *)
(* version of it is by the tutor the booking has, though another was       *)
(* assigned while a page was open.                                         *)
CompletedWithReport ==
    /\ visit.status = "COMPLETED" <=> report.version > 0
    /\ {r.version : r \in revisions} = 1 .. report.version
    /\ \A r \in revisions : r.author = visit.author
=============================================================================
