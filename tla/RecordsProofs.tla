---------------------------- MODULE RecordsProofs ----------------------------
(***************************************************************************)
(* What TLAPS proves of Reports, for any pages, authors, texts and number  *)
(* of versions: its type, that a booking is completed with its report, and *)
(* that a report is the history of versions ReportHistory specifies; and   *)
(* that each of the four parts that share only the database does together  *)
(* with the others what it does alone, so that what is proved of it holds. *)
(***************************************************************************)
EXTENDS MCRecords, AccountsProofs, EnrolmentProofs, SchoolworkProofs, SequenceTheorems, TLAPS

\* What was checked is still so when it is saved: only one page has the locks
CheckedStays ==
    /\ \A p \in Pages : page[p].sent => page[p].author \in Authors /\ page[p].draft \in Texts
    /\ \A p \in locked : page[p].sent /\ MaySave(p)
    /\ \A p, q \in locked : p = q

\* A page that shows the latest version shows what it says
PagesAgree ==
    \A p \in Pages :
        /\ page[p].version <= report.version
        /\ page[p].version = report.version => page[p].shown = report.text

\* There is one revision of each version, and the latest says what the report says
RevisionsAgree ==
    /\ \A r, s \in revisions : r.version = s.version => r = s
    /\ report.version = 0 => report.text = Unwritten
    /\ report.version > 0 => \E r \in revisions : r.version = report.version /\ r.text = report.text

ReportInv ==
    /\ ReportsTyped
    /\ CheckedStays
    /\ PagesAgree
    /\ CompletedWithReport
    /\ RevisionsAgree
-----------------------------------------------------------------------------
\* Nothing is written, opened or locked when it begins.
LEMMA InitKeeps == InitReports => ReportInv
<1> SUFFICES ASSUME InitReports
             PROVE  ReportInv
  OBVIOUS
<1>1. ReportsTyped
  BY ReportsAssumption DEF InitReports, ReportsTyped, Shut, PageRows
<1>2. CheckedStays /\ PagesAgree
  BY DEF InitReports, CheckedStays, PagesAgree, Shut
<1>3. CompletedWithReport /\ RevisionsAgree
  BY DEF InitReports, CompletedWithReport, RevisionsAgree
<1> QED
  BY <1>1, <1>2, <1>3 DEF ReportInv

\* A page that has no locks may be opened, sent or refused: nothing else changes.
LEMMA PageAloneKeeps ==
  ASSUME ReportInv, NEW p \in Pages, p \notin locked,
         UNCHANGED <<visit, report, revisions, locked>>,
         NEW new \in PageRows,
         page' = [page EXCEPT ![p] = new],
         new.sent => new.author \in Authors /\ new.draft \in Texts,
         new.version <= report.version,
         new.version = report.version => new.shown = report.text
  PROVE  ReportInv'
<1>1. ReportsTyped'
  BY DEF ReportInv, ReportsTyped
<1>2. page \in [Pages -> PageRows]
  BY DEF ReportInv, ReportsTyped
<1>3. locked \subseteq Pages
  BY DEF ReportInv, ReportsTyped
<1>4. \A q \in Pages : page'[q] = IF q = p THEN new ELSE page[q]
  BY <1>2
<1>5. CheckedStays'
  BY <1>3, <1>4 DEF ReportInv, CheckedStays, MaySave, MaySubmit, MayEdit
<1>6. PagesAgree'
  BY <1>4 DEF ReportInv, PagesAgree
<1>7. CompletedWithReport' /\ RevisionsAgree'
  BY DEF ReportInv, CompletedWithReport, RevisionsAgree
<1> QED
  BY <1>1, <1>5, <1>6, <1>7 DEF ReportInv

LEMMA OpenKeeps ==
  ASSUME ReportInv, NEW p \in Pages, OpenPage(p)
  PROVE  ReportInv'
<1> DEFINE new == [author |-> visit.author, version |-> report.version, shown |-> report.text,
                   draft |-> Unwritten, sent |-> FALSE]
<1>1. p \notin locked
  BY DEF OpenPage, ReportInv, CheckedStays
<1>2. new \in PageRows
  BY DEF ReportInv, ReportsTyped, PageRows
<1>3. report.version \in Nat
  BY DEF ReportInv, ReportsTyped
<1>4. /\ ~ new.sent /\ new.version = report.version /\ new.shown = report.text
      /\ page' = [page EXCEPT ![p] = new]
  BY DEF OpenPage
<1>5. UNCHANGED <<visit, report, revisions, locked>>
  BY DEF OpenPage
<1> HIDE DEF new
<1>6. /\ new.sent => new.author \in Authors /\ new.draft \in Texts
      /\ new.version <= report.version
      /\ new.version = report.version => new.shown = report.text
  BY <1>3, <1>4
<1> QED
  BY <1>1, <1>2, <1>4, <1>5, <1>6, PageAloneKeeps

LEMMA SendPageKeeps ==
  ASSUME ReportInv, NEW p \in Pages, SendPage(p)
  PROVE  ReportInv'
<1>1. PICK text \in Texts : page' = [page EXCEPT ![p].draft = text, ![p].sent = TRUE]
  BY DEF SendPage
<1> DEFINE new == [page[p] EXCEPT !.draft = text, !.sent = TRUE]
<1>2. page \in [Pages -> PageRows]
  BY DEF ReportInv, ReportsTyped
<1>3. page' = [page EXCEPT ![p] = new]
  BY <1>1, <1>2
<1>4. new \in PageRows
  BY <1>2 DEF PageRows
<1>5. /\ new.author \in Authors /\ new.draft \in Texts
      /\ new.version <= report.version
      /\ new.version = report.version => new.shown = report.text
  BY <1>2 DEF SendPage, Open, ReportInv, ReportsTyped, PagesAgree, PageRows
<1>6. p \notin locked
  BY DEF SendPage, ReportInv, CheckedStays
<1> HIDE DEF new
<1> QED
  BY <1>3, <1>4, <1>5, <1>6, PageAloneKeeps DEF SendPage

\* A page refused, or told to try again, is as it was.
LEMMA RefusedKeeps ==
  ASSUME ReportInv, NEW p \in Pages, p \notin locked,
         UNCHANGED <<visit, report, revisions, locked>>, page' = [page EXCEPT ![p].sent = FALSE]
  PROVE  ReportInv'
<1> DEFINE new == [page[p] EXCEPT !.sent = FALSE]
<1>1. page \in [Pages -> PageRows]
  BY DEF ReportInv, ReportsTyped
<1>2. page' = [page EXCEPT ![p] = new]
  BY <1>1
<1>3. new \in PageRows
  BY <1>1 DEF PageRows
<1>4. /\ ~ new.sent
      /\ new.version <= report.version
      /\ new.version = report.version => new.shown = report.text
  BY <1>1 DEF ReportInv, PagesAgree
<1> HIDE DEF new
<1> QED
  BY <1>2, <1>3, <1>4, PageAloneKeeps

\* The page that checked is the only one with the locks.
LEMMA CheckKeeps ==
  ASSUME ReportInv, NEW p \in Pages, CheckSave(p)
  PROVE  ReportInv'
<1>1. CASE MaySave(p)
  <2>1. locked' = {p} /\ UNCHANGED <<visit, report, revisions, page>>
    BY <1>1 DEF CheckSave, LockFree
  <2>2. ReportsTyped'
    BY <2>1 DEF ReportInv, ReportsTyped
  <2>3. CheckedStays'
    BY <2>1, <1>1 DEF CheckSave, ReportInv, CheckedStays, MaySave, MaySubmit, MayEdit
  <2>4. PagesAgree' /\ CompletedWithReport' /\ RevisionsAgree'
    BY <2>1 DEF ReportInv, PagesAgree, CompletedWithReport, RevisionsAgree
  <2> QED
    BY <2>2, <2>3, <2>4 DEF ReportInv
<1>2. CASE ~ MaySave(p)
  BY <1>2, RefusedKeeps DEF CheckSave
<1> QED
  BY <1>1, <1>2

LEMMA BusyKeeps ==
  ASSUME ReportInv, NEW p \in Pages, BusySave(p)
  PROVE  ReportInv'
BY RefusedKeeps DEF BusySave

\* A transaction undone frees its locks.
LEMMA FailKeeps ==
  ASSUME ReportInv, NEW p \in Pages, FailSave(p)
  PROVE  ReportInv'
<1>1. page \in [Pages -> PageRows]
  BY DEF ReportInv, ReportsTyped
<1>2. locked' = {}
  BY DEF FailSave, ReportInv, CheckedStays
<1>3. ReportsTyped'
  <2> DEFINE new == [page[p] EXCEPT !.sent = FALSE]
  <2>1. new \in PageRows /\ page' = [page EXCEPT ![p] = new]
    BY <1>1 DEF FailSave, PageRows, ReportInv, ReportsTyped
  <2> HIDE DEF new
  <2>2. page' \in [Pages -> PageRows]
    BY <2>1, <1>1
  <2> QED
    BY <2>2, <1>2 DEF FailSave, ReportInv, ReportsTyped
<1>4. CheckedStays'
  BY <1>1, <1>2 DEF FailSave, ReportInv, CheckedStays
<1>5. PagesAgree'
  BY <1>1 DEF FailSave, ReportInv, PagesAgree
<1>6. CompletedWithReport' /\ RevisionsAgree'
  BY DEF FailSave, ReportInv, CompletedWithReport, RevisionsAgree
<1> QED
  BY <1>3, <1>4, <1>5, <1>6 DEF ReportInv

\* What a page with the locks saves: a text, over the one the report has.
LEMMA CommitSaveFacts ==
  ASSUME ReportInv, NEW p \in Pages, p \in locked
  PROVE  /\ page[p].author = visit.author /\ page[p].author \in Authors
         /\ page[p].draft \in Texts /\ page[p].draft # report.text
         /\ page[p].version = report.version /\ page[p].shown = report.text
         /\ report.version \in Nat /\ report.text \in Texts \cup {Unwritten}
         /\ visit.status # "CANCELLED"
<1>1. page[p].sent /\ MaySave(p)
  BY DEF ReportInv, CheckedStays
<1>2. page[p].author \in Authors /\ page[p].draft \in Texts
  BY <1>1 DEF ReportInv, CheckedStays
<1>3. report.version \in Nat /\ report.text \in Texts \cup {Unwritten}
  BY DEF ReportInv, ReportsTyped
<1>4. page[p].version = report.version /\ page[p].author = visit.author
  BY <1>1 DEF MaySave, MaySubmit, MayEdit
<1>5. page[p].shown = report.text
  BY <1>4 DEF ReportInv, PagesAgree
<1>6. page[p].draft # report.text
  <2>1. CASE report.version = 0
    BY <2>1, <1>2, ReportsAssumption DEF ReportInv, RevisionsAgree
  <2>2. CASE report.version # 0
    BY <2>2, <1>1, <1>4 DEF MaySave, MayEdit
  <2> QED
    BY <2>1, <2>2
<1>7. visit.status # "CANCELLED"
  BY <1>1, <1>3, <1>4 DEF MaySave, MaySubmit, MayEdit, ReportInv, CompletedWithReport
<1> QED
  BY <1>2, <1>3, <1>4, <1>5, <1>6, <1>7

\* One revision is added, of the version after the latest.
LEMMA CommitSaveKeeps ==
  ASSUME ReportInv, NEW p \in Pages, CommitSave(p)
  PROVE  ReportInv'
<1>1. page \in [Pages -> PageRows]
  BY DEF ReportInv, ReportsTyped
<1>2. /\ page[p].author = visit.author /\ page[p].author \in Authors
      /\ page[p].draft \in Texts /\ page[p].draft # report.text
      /\ page[p].version = report.version /\ page[p].shown = report.text
      /\ report.version \in Nat /\ report.text \in Texts \cup {Unwritten}
  BY CommitSaveFacts DEF CommitSave
<1>3. locked' = {}
  BY DEF CommitSave, ReportInv, CheckedStays
<1>4. report'.version = report.version + 1 /\ report'.text = page[p].draft
  BY DEF CommitSave
<1>5. visit'.status = "COMPLETED" /\ visit'.author = visit.author /\ visit'.started = visit.started
  BY DEF CommitSave, ReportInv, ReportsTyped
<1>6. Revision(p) \in RevisionRows
  BY <1>2 DEF Revision, RevisionRows
<1>7. PICK new \in PageRows :
         /\ page' = [page EXCEPT ![p] = new]
         /\ new.author = page[p].author /\ new.draft = page[p].draft
         /\ \/ new.version = page[p].version /\ new.shown = page[p].shown
            \/ new.version = report.version + 1 /\ new.shown = page[p].draft
         /\ ~ new.sent
  <2> DEFINE saved == [page[p] EXCEPT !.version = report.version + 1, !.shown = page[p].draft, !.sent = FALSE]
             unanswered == [page[p] EXCEPT !.sent = FALSE]
  <2>1. page' = [page EXCEPT ![p] = saved] \/ page' = [page EXCEPT ![p] = unanswered]
    BY <1>1 DEF CommitSave
  <2>2. saved \in PageRows /\ unanswered \in PageRows
    <3>1. page[p] \in PageRows /\ report.version + 1 \in Nat
      BY <1>1, <1>2
    <3>2. page[p].draft \in Texts \cup {Unwritten}
      BY <1>2
    <3> QED
      BY <3>1, <3>2 DEF PageRows
  <2>3. /\ saved.author = page[p].author /\ saved.draft = page[p].draft
        /\ saved.version = report.version + 1 /\ saved.shown = page[p].draft /\ ~ saved.sent
    BY <1>1 DEF PageRows
  <2>4. /\ unanswered.author = page[p].author /\ unanswered.draft = page[p].draft
        /\ unanswered.version = page[p].version /\ unanswered.shown = page[p].shown /\ ~ unanswered.sent
    BY <1>1 DEF PageRows
  <2> HIDE DEF saved, unanswered
  <2> QED
    BY <2>1, <2>2, <2>3, <2>4
<1>8. /\ page' \in [Pages -> PageRows]
      /\ \A q \in Pages : page'[q] = IF q = p THEN new ELSE page[q]
  BY <1>1, <1>7
<1>9. ReportsTyped'
  BY <1>2, <1>3, <1>6, <1>8 DEF CommitSave, ReportInv, ReportsTyped
<1>10. CheckedStays'
  BY <1>2, <1>3, <1>7, <1>8 DEF ReportInv, CheckedStays
<1>11. PagesAgree'
  BY <1>1, <1>2, <1>4, <1>7, <1>8 DEF ReportInv, PagesAgree, PageRows
<1>12. revisions' = revisions \cup {Revision(p)}
  BY DEF CommitSave
<1>13. /\ Revision(p).version = report.version + 1 /\ Revision(p).text = page[p].draft
       /\ Revision(p).author = visit.author
  BY <1>2 DEF Revision
<1>14. \A r \in revisions : r.version \in 1 .. report.version
  BY DEF ReportInv, CompletedWithReport
<1>15. CompletedWithReport'
  <2>1. {r.version : r \in revisions'} = {r.version : r \in revisions} \cup {report.version + 1}
    BY <1>12, <1>13
  <2>2. {r.version : r \in revisions} = 1 .. report.version
    BY DEF ReportInv, CompletedWithReport
  <2>3. {r.version : r \in revisions'} = 1 .. report'.version
    BY <2>1, <2>2, <1>2, <1>4
  <2>4. \A r \in revisions' : r.author = visit'.author
    BY <1>5, <1>12, <1>13 DEF ReportInv, CompletedWithReport
  <2> QED
    BY <2>3, <2>4, <1>2, <1>4, <1>5 DEF CompletedWithReport
<1>16. RevisionsAgree'
  BY <1>2, <1>4, <1>12, <1>13, <1>14 DEF ReportInv, RevisionsAgree
<1> QED
  BY <1>9, <1>10, <1>11, <1>15, <1>16 DEF ReportInv

\* The booking changes hands, starts and ends under its lock, while it has no report.
LEMMA VisitKeeps ==
  ASSUME ReportInv, StartVisit \/ AssignVisit \/ CancelVisit
  PROVE  ReportInv'
<1>1. /\ locked = {} /\ visit.status = "BOOKED" /\ UNCHANGED <<report, revisions, page, locked>>
      /\ visit' \in [status : {"BOOKED", "CANCELLED"}, author : Authors \cup {NoOne}, started : BOOLEAN]
  BY DEF StartVisit, AssignVisit, CancelVisit, LockFree, ReportInv, ReportsTyped
<1>2. ReportsTyped'
  BY <1>1 DEF ReportInv, ReportsTyped
<1>3. CheckedStays' /\ PagesAgree' /\ RevisionsAgree'
  BY <1>1 DEF ReportInv, CheckedStays, PagesAgree, RevisionsAgree
<1>4. report.version = 0
  BY <1>1 DEF ReportInv, ReportsTyped, CompletedWithReport
<1>5. revisions = {}
  BY <1>4 DEF ReportInv, CompletedWithReport
<1>6. CompletedWithReport'
  BY <1>1, <1>4, <1>5 DEF CompletedWithReport
<1> QED
  BY <1>2, <1>3, <1>6 DEF ReportInv

\* Every step keeps the invariant.
LEMMA StepKeeps == ReportInv /\ [NextReports]_reportVars => ReportInv'
<1> SUFFICES ASSUME ReportInv, [NextReports]_reportVars
             PROVE  ReportInv'
  OBVIOUS
<1>1. CASE UNCHANGED reportVars
  BY <1>1 DEF reportVars, ReportInv, ReportsTyped, CheckedStays, PagesAgree, CompletedWithReport, RevisionsAgree,
              MaySave, MaySubmit, MayEdit
<1>2. CASE StartVisit \/ AssignVisit \/ CancelVisit
  BY <1>2, VisitKeeps
<1>3. ASSUME NEW p \in Pages,
             OpenPage(p) \/ SendPage(p) \/ CheckSave(p) \/ BusySave(p) \/ FailSave(p) \/ CommitSave(p)
      PROVE  ReportInv'
  BY <1>3, OpenKeeps, SendPageKeeps, CheckKeeps, BusyKeeps, FailKeeps, CommitSaveKeeps
<1> QED
  BY <1>1, <1>2, <1>3 DEF NextReports

(* The rows of a report, its revisions and its pages are what the code     *)
(* takes them to be, however its tutors save and are replaced.             *)
THEOREM ReportsTypeCorrect == SpecReports => []ReportsTyped
<1>1. SpecReports => []ReportInv
  BY InitKeeps, StepKeeps, PTL DEF SpecReports
<1>2. ReportInv => ReportsTyped
  BY DEF ReportInv
<1> QED
  BY <1>1, <1>2, PTL

(* A booking is completed exactly when it has a report, with a revision of *)
(* each version, all by the tutor the booking has.                         *)
THEOREM ReportCompletes == SpecReports => []CompletedWithReport
<1>1. SpecReports => []ReportInv
  BY InitKeeps, StepKeeps, PTL DEF SpecReports
<1>2. ReportInv => CompletedWithReport
  BY DEF ReportInv
<1> QED
  BY <1>1, <1>2, PTL

-----------------------------------------------------------------------------
HistoryRows == [text : Texts, over : Texts \cup {Unwritten}]

\* Of each version there is one revision, and RevisionOf finds it.
LEMMA RevisionFound ==
  ASSUME ReportInv, NEW n \in 1 .. report.version
  PROVE  RevisionOf(n) \in revisions /\ RevisionOf(n).version = n
<1>1. \E r \in revisions : r.version = n
  BY DEF ReportInv, CompletedWithReport
<1> QED
  BY <1>1 DEF RevisionOf

\* The versions are a sequence, and the last says what the report says.
LEMMA VersionsFacts ==
  ASSUME ReportInv
  PROVE  /\ report.version \in Nat
         /\ Versions \in Seq(HistoryRows) /\ Len(Versions) = report.version
         /\ (IF Versions = <<>> THEN Unwritten ELSE Versions[Len(Versions)].text) = report.text
<1>1. report.version \in Nat
  BY DEF ReportInv, ReportsTyped
<1>2. \A n \in 1 .. report.version : [text |-> RevisionOf(n).text, over |-> RevisionOf(n).over] \in HistoryRows
  BY RevisionFound DEF ReportInv, ReportsTyped, RevisionRows, HistoryRows
<1>3. Versions \in [1 .. report.version -> HistoryRows]
  BY <1>2 DEF Versions
<1>4. Versions \in Seq(HistoryRows) /\ Len(Versions) = report.version
  BY <1>1, <1>3
<1>5. CASE report.version = 0
  <2>1. Versions = <<>>
    BY <1>4, <1>5, EmptySeq
  <2>2. report.text = Unwritten
    BY <1>5 DEF ReportInv, RevisionsAgree
  <2> QED
    BY <1>1, <1>4, <2>1, <2>2
<1>6. CASE report.version > 0
  <2>1. report.version \in 1 .. report.version
    BY <1>1, <1>6
  <2>2. Versions # <<>> /\ Versions[report.version].text = RevisionOf(report.version).text
    BY <1>1, <1>4, <1>6, <2>1 DEF Versions
  <2>3. RevisionOf(report.version).text = report.text
    BY <1>6, <2>1, RevisionFound DEF ReportInv, RevisionsAgree
  <2> QED
    BY <1>1, <1>4, <2>2, <2>3
<1> QED
  BY <1>1, <1>4, <1>5, <1>6

\* Each revision is in the history, at its version.
LEMMA RevisionInHistory ==
  ReportInv => \A r \in revisions : /\ r.version \in 1 .. report.version
                                   /\ Versions[r.version] = [text |-> r.text, over |-> r.over]
<1> SUFFICES ASSUME ReportInv, NEW r \in revisions
             PROVE  r.version \in 1 .. report.version /\ Versions[r.version] = [text |-> r.text, over |-> r.over]
  OBVIOUS
<1>1. r.version \in 1 .. report.version
  BY DEF ReportInv, CompletedWithReport
<1>2. RevisionOf(r.version) = r
  BY <1>1, RevisionFound DEF ReportInv, RevisionsAgree
<1> QED
  BY <1>1, <1>2 DEF Versions

\* A commit writes the next version, over the one before it.
LEMMA CommitWrites ==
  ASSUME ReportInv, NEW p \in Pages, CommitSave(p)
  PROVE  Versions' = Append(Versions, [text |-> page[p].draft, over |-> page[p].shown])
<1> DEFINE new == [text |-> page[p].draft, over |-> page[p].shown]
<1>1. ReportInv'
  BY CommitSaveKeeps
<1>2. /\ Versions \in Seq(HistoryRows) /\ Len(Versions) = report.version /\ report.version \in Nat
      /\ Versions' \in Seq(HistoryRows) /\ Len(Versions') = report'.version
  <2>1. Versions \in Seq(HistoryRows) /\ Len(Versions) = report.version /\ report.version \in Nat
    BY VersionsFacts
  <2>2. ReportInv' => (Versions \in Seq(HistoryRows) /\ Len(Versions) = report.version)'
    BY VersionsFacts, PTL
  <2> QED
    BY <1>1, <2>1, <2>2
<1>3. new \in HistoryRows
  BY CommitSaveFacts DEF CommitSave, HistoryRows
<1>4. report'.version = report.version + 1 /\ revisions' = revisions \cup {Revision(p)}
  BY DEF CommitSave
<1>5. /\ Revision(p).version = report.version + 1
      /\ Revision(p).text = page[p].draft /\ Revision(p).over = page[p].shown
  BY DEF Revision
<1>6. \A r \in revisions' : Versions'[r.version] = [text |-> r.text, over |-> r.over]
  <2>1. ReportInv' => (\A r \in revisions : /\ r.version \in 1 .. report.version
                                          /\ Versions[r.version] = [text |-> r.text, over |-> r.over])'
    BY RevisionInHistory, PTL
  <2> QED
    BY <1>1, <2>1
<1>7. ASSUME NEW n \in 1 .. report.version
      PROVE  Versions'[n] = Versions[n]
  <2>1. RevisionOf(n) \in revisions /\ RevisionOf(n).version = n
    BY RevisionFound
  <2>2. Versions[n] = [text |-> RevisionOf(n).text, over |-> RevisionOf(n).over]
    BY <2>1, RevisionInHistory
  <2> QED
    BY <1>4, <1>6, <2>1, <2>2
<1>8. Versions'[report.version + 1] = new
  BY <1>4, <1>5, <1>6
<1> QED
  BY <1>2, <1>3, <1>4, <1>7, <1>8, AppendProperties, SeqEqual

\* Nothing else touches the history.
LEMMA HistoryStep ==
  ReportInv /\ [NextReports]_reportVars => [History!NextHistory]_Versions
<1> SUFFICES ASSUME ReportInv, [NextReports]_reportVars
             PROVE  [History!NextHistory]_Versions
  OBVIOUS
<1>1. CASE UNCHANGED <<report, revisions>>
  BY <1>1 DEF Versions, RevisionOf
<1>2. ASSUME NEW p \in Pages, CommitSave(p)
      PROVE  History!NextHistory
  <2>1. page[p].draft \in Texts /\ page[p].draft # report.text /\ page[p].shown = report.text
    BY <1>2, CommitSaveFacts DEF CommitSave
  <2>2. History!Latest = report.text
    BY VersionsFacts DEF History!Latest
  <2>3. Versions' = Append(Versions, [text |-> page[p].draft, over |-> History!Latest])
    BY <1>2, <2>1, <2>2, CommitWrites
  <2>4. History!WriteVersion(page[p].draft)
    BY <2>1, <2>2, <2>3 DEF History!WriteVersion
  <2> QED
    BY <2>1, <2>4 DEF History!NextHistory
<1>3. NextReports => UNCHANGED <<report, revisions>> \/ \E p \in Pages : CommitSave(p)
  BY DEF NextReports, StartVisit, AssignVisit, CancelVisit, OpenPage, SendPage, CheckSave, BusySave, FailSave
<1>4. CASE NextReports
  BY <1>1, <1>2, <1>3, <1>4
<1>5. CASE UNCHANGED reportVars
  BY <1>1, <1>5 DEF reportVars
<1> QED
  BY <1>4, <1>5

(* A report is what ReportHistory promises: each version is written over   *)
(* the one before it by a tutor who had been shown that one, and no        *)
(* version is changed or lost, from however many pages it is edited.       *)
THEOREM ReportImplementsHistory == SpecReports => ImplementsHistory
<1>1. InitReports => History!InitHistory
  <2> SUFFICES ASSUME InitReports
               PROVE  Versions = <<>>
    BY DEF History!InitHistory
  <2>1. ReportInv /\ report.version = 0
    BY InitKeeps DEF InitReports
  <2> QED
    BY <2>1, VersionsFacts, EmptySeq
<1>2. SpecReports => []ReportInv
  BY InitKeeps, StepKeeps, PTL DEF SpecReports
<1> QED
  BY <1>1, <1>2, HistoryStep, PTL DEF SpecReports, ImplementsHistory, History!SpecHistory

(***************************************************************************)
(* The parts together                                                      *)
(***************************************************************************)
(* Whichever part moves, each of them makes steps of its own or none: the  *)
(* accounts, the enrolments, the schoolwork and the reports.               *)
THEOREM PartsKeepTheirWays == SpecRecords => SpecAccounts /\ SpecEnrolment /\ SpecSchoolwork /\ SpecReports
<1>1. InitRecords => InitAccounts /\ InitEnrolment /\ InitSchoolwork /\ InitReports
  BY DEF InitRecords
<1>2. [NextRecords]_recordVars => /\ [NextAccounts]_accountVars /\ [NextEnrolment]_enrolmentVars
                                  /\ [NextSchoolwork]_schoolVars /\ [NextReports]_reportVars
  BY DEF NextRecords, recordVars
<1> QED
  BY <1>1, <1>2, PTL DEF SpecRecords, SpecAccounts, SpecEnrolment, SpecSchoolwork, SpecReports

(* The rows of all four parts are what they may be.                        *)
THEOREM RecordsTypeCorrect == SpecRecords => []RecordsTyped
<1>1. AccountsTyped /\ EnrolmentTyped /\ SchoolworkTyped /\ ReportsTyped => RecordsTyped
  BY DEF RecordsTyped
<1> QED
  BY <1>1, PartsKeepTheirWays, AccountsTypeCorrect, EnrolmentTypeCorrect, SchoolworkTypeCorrect, ReportsTypeCorrect, PTL
=============================================================================
