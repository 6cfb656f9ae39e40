----------------------------- MODULE Schoolwork -----------------------------
(***************************************************************************)
(* Homework, additional exams and chapter exams (homework, exams, and the  *)
(* part of sessions that assigns homework).                                *)
(*                                                                         *)
(* A class's homework and an additional exam live the same life: assigned, *)
(* submitted once with files, scored once, each under a lock of its row.   *)
(* Classes and chapter exams are read without a lock and saved whole.  The *)
(* bytes of a file are in the file store, which no transaction undoes.     *)
(***************************************************************************)
EXTENDS Integers, FiniteSets

CONSTANTS
    Servers,           \* what handles requests
    Classes,           \* classes; the homework of each is the piece of its name
    Extras,            \* additional exams
    Exams,             \* chapter exams
    LastPart,          \* how many files an upload has
    Nothing,
    SchoolworkAtStart  \* the rows there are when it begins, what may then be asked, and how often

SchoolworkOps == {"edit_class", "upload_homework", "submit", "score", "set_extra", "schedule_exam", "change_exam", "record_result"}

Pieces == Classes \cup Extras

Parts == 1 .. LastPart

ClassStatuses == {"SCHEDULED", "ATTENDED", "CANCELLED"}
ClassContents == [status : ClassStatuses, link : BOOLEAN]

\* score is 0, or the number of the request that gave it
PieceRows == [status : {"ABSENT", "ASSIGNED", "SUBMITTED", "SCORED"}, score : Nat]
ExamRows == [status : {"ABSENT"} \cup ClassStatuses, score : Nat]

\* A file row and its bytes have one name: what it belongs to, and its place in which request's upload
FileRows == [of : Pieces \cup Exams, kind : {"question", "answer"}, batch : Nat, part : Parts]

ASSUME SchoolworkAssumption ==
    /\ Classes \cap Extras = {} /\ Pieces \cap Exams = {}
    /\ LastPart \in Nat \ {0}
    /\ Nothing \notin Pieces \cup Exams /\ Nothing \notin BOOLEAN /\ Nothing \notin ClassStatuses \cup SchoolworkOps
    /\ Nothing \notin {"read", "saved", "storing", "removing", "removed"}
    /\ SchoolworkAtStart \subseteq
          [class : [Classes -> ClassContents], work : [Pieces -> PieceRows], exam : [Exams -> ExamRows],
           asks : SUBSET SchoolworkOps, left : Nat]
    /\ \A start \in SchoolworkAtStart :
          /\ \A p \in Pieces : start.work[p].status \in {"ABSENT", "ASSIGNED"} /\ start.work[p].score = 0
          /\ \A c \in Classes : start.class[c] = [status |-> "ATTENDED", link |-> TRUE] => start.work[c].status = "ASSIGNED"
          /\ \A e \in Exams : start.exam[e].status \in {"ABSENT", "SCHEDULED"} /\ start.exam[e].score = 0

VARIABLES
    class,     \* Session rows: status, and whether there is homework content
    work,      \* Homework rows, by class, and AdditionalExam rows
    exam,      \* Exam rows
    files,     \* HomeworkFile, AdditionalExamFile and ExamFile rows
    bytes,     \* what the file store has
    serving,   \* what each server is doing
    unsynced,  \* the classes whose status changed under an upload, or whose request stopped before its sync
    over,      \* the exams that had a result recorded or were cancelled
    asks,      \* the requests of this instance: chosen at the start, never changed
    asksLeft   \* bound: how many of them may still come, each with its number

schoolVars == <<class, work, exam, files, bytes, serving, unsynced, over, asks, asksLeft>>

Waiting == [op |-> Nothing, stage |-> Nothing, of |-> Nothing, number |-> 0, row |-> Nothing, ask |-> Nothing,
            stores |-> FALSE, stored |-> {}, removes |-> {}]

InitSchoolwork ==
    /\ \E start \in SchoolworkAtStart :
          /\ class = start.class /\ work = start.work /\ exam = start.exam
          /\ asks = start.asks /\ asksLeft = start.left
    /\ files = {} /\ bytes = {}
    /\ serving = [s \in Servers |-> Waiting]
    /\ unsynced = {} /\ over = {}

Doing(s, op, stage) == serving[s].op = op /\ serving[s].stage = stage

Accepts(s, request) ==
    /\ serving[s] = Waiting
    /\ request.op \in asks /\ asksLeft > 0
    /\ serving' = [serving EXCEPT ![s] = [request EXCEPT !.number = asksLeft]]
    /\ asksLeft' = asksLeft - 1

Answers(s) == serving' = [serving EXCEPT ![s] = Waiting]

FilesOf(x, kind) == {f \in files : f.of = x /\ f.kind = kind}

\* The row lock of a piece of work, of whoever is storing the files submitted for it
PieceFree(p) == \A s \in Servers : serving[s].of # p \/ ~ Doing(s, "submit", "storing")

-----------------------------------------------------------------------------
(***************************************************************************)
(* The class and its homework content (SessionsView.put, the upload view)  *)
(***************************************************************************)
\* assert_assignment_editable
AssignmentEditable(c) == work[c].status \in {"ABSENT", "ASSIGNED"}

\* What is not asked for is left out: a status, a link put there or cleared, or neither
ClassAsks == [status : ClassStatuses \cup {Nothing}, link : BOOLEAN \cup {Nothing}]

ReadClass(s) ==
    /\ \E c \in Classes, ask \in ClassAsks :
          /\ ask.link # Nothing => AssignmentEditable(c)
          /\ Accepts(s, [Waiting EXCEPT !.op = "edit_class", !.stage = "read", !.of = c, !.row = class[c], !.ask = ask])
    /\ UNCHANGED <<class, work, exam, files, bytes, unsynced, over, asks>>

ReadForUpload(s) ==
    /\ \E c \in Classes :
          /\ class[c].status # "CANCELLED"
          /\ AssignmentEditable(c)
          /\ Accepts(s, [Waiting EXCEPT !.op = "upload_homework", !.stage = "read", !.of = c, !.row = class[c],
                                        !.ask = [status |-> Nothing, link |-> TRUE]])
    /\ UNCHANGED <<class, work, exam, files, bytes, unsynced, over, asks>>

\* The class as this request has it in memory
InMemory(r) ==
    [status |-> IF r.ask.status = Nothing THEN r.row.status ELSE r.ask.status,
     link |-> IF r.ask.link = Nothing THEN r.row.link ELSE r.ask.link]

\* mutant: only the columns asked for are saved
SavedColumns(r) ==
    [status |-> IF r.ask.status = Nothing THEN class[r.of].status ELSE r.ask.status,
     link |-> IF r.ask.link = Nothing THEN class[r.of].link ELSE r.ask.link]

\* The whole row is saved, as it was read but for what is asked
SavedWhole(r) == InMemory(r)

SaveClass(s) ==
    LET r == serving[s] IN
    /\ Doing(s, "edit_class", "read")
    /\ class' = [class EXCEPT ![r.of] = SavedWhole(r)]
    /\ serving' = [serving EXCEPT ![s].stage = "saved"]
    /\ UNCHANGED <<work, exam, files, bytes, unsynced, over, asks, asksLeft>>

\* The upload saves the link only
SaveUpload(s) ==
    LET r == serving[s] IN
    /\ Doing(s, "upload_homework", "read")
    /\ class' = [class EXCEPT ![r.of].link = TRUE]
    /\ unsynced' = IF class[r.of].status = r.row.status THEN unsynced ELSE unsynced \cup {r.of}
    /\ serving' = [serving EXCEPT ![s].stage = "saved"]
    /\ UNCHANGED <<work, exam, files, bytes, over, asks, asksLeft>>

\* sync_homework_for_session, of the class in memory, after the transaction
Syncs(r) == (r.ask.link # Nothing \/ r.ask.status = "ATTENDED") /\ InMemory(r) = [status |-> "ATTENDED", link |-> TRUE]

SyncHomework(s) ==
    LET r == serving[s] IN
    /\ r.stage = "saved"
    /\ work' = IF Syncs(r) /\ work[r.of].status = "ABSENT" THEN [work EXCEPT ![r.of].status = "ASSIGNED"] ELSE work
    /\ Answers(s)
    /\ UNCHANGED <<class, exam, files, bytes, unsynced, over, asks, asksLeft>>

(***************************************************************************)
(* Files (store_*_files, discard_file_bytes)                               *)
(***************************************************************************)
KindOf(r) == IF r.op = "submit" THEN "answer" ELSE "question"

Upload(r) == {[of |-> r.of, kind |-> KindOf(r), batch |-> r.number, part |-> n] : n \in Parts}

\* One by one, the bytes of a file are stored, and its row is made in the transaction
StoreFile(s) ==
    LET r == serving[s] n == Cardinality(r.stored) + 1 IN
    /\ r.stage = "storing" /\ r.stores /\ n \in Parts
    /\ \E f \in Upload(r) :
          /\ f.part = n
          /\ bytes' = bytes \cup {f}
          /\ serving' = [serving EXCEPT ![s].stored = @ \cup {f}]
    /\ UNCHANGED <<class, work, exam, files, unsynced, over, asks, asksLeft>>

Stored(r) == r.stage = "storing" /\ (r.stores => r.stored = Upload(r))

\* The transaction fails.  What was stored is known, and discarded, only when all of it was
FailStoring(s) ==
    LET r == serving[s] IN
    /\ r.stage = "storing"
    /\ bytes' = IF Stored(r) THEN bytes \ r.stored ELSE bytes
    /\ Answers(s)
    /\ UNCHANGED <<class, work, exam, files, unsynced, over, asks, asksLeft>>

\* The server stops.  A transaction it was in is undone; bytes stay as they are
Stop(s) ==
    LET r == serving[s] IN
    /\ r # Waiting
    /\ unsynced' = IF r.stage = "saved" THEN unsynced \cup {r.of} ELSE unsynced
    /\ Answers(s)
    /\ UNCHANGED <<class, work, exam, files, bytes, over, asks, asksLeft>>

(***************************************************************************)
(* A piece of work: homework or an additional exam                         *)
(***************************************************************************)
\* AdditionalExamView.post: the row and its question paper in one transaction
SetExtra(s) ==
    /\ \E x \in Extras :
          /\ work[x].status = "ABSENT" /\ \A other \in Servers : serving[other].of # x
          /\ Accepts(s, [Waiting EXCEPT !.op = "set_extra", !.stage = "storing", !.of = x, !.stores = TRUE])
    /\ UNCHANGED <<class, work, exam, files, bytes, unsynced, over, asks>>

CommitExtra(s) ==
    LET r == serving[s] IN
    /\ r.op = "set_extra" /\ Stored(r)
    /\ work' = [work EXCEPT ![r.of].status = "ASSIGNED"]
    /\ files' = files \cup r.stored
    /\ Answers(s)
    /\ UNCHANGED <<class, exam, bytes, unsynced, over, asks, asksLeft>>

\* mutant: the row is not locked
MaySubmitUnlocked(p) == work[p].status = "ASSIGNED"

\* The student submits: the row is locked, and must be ASSIGNED still
MaySubmitWork(p) == PieceFree(p) /\ work[p].status = "ASSIGNED"

Submit(s) ==
    /\ \E p \in Pieces :
          /\ MaySubmitWork(p)
          /\ Accepts(s, [Waiting EXCEPT !.op = "submit", !.stage = "storing", !.of = p, !.stores = TRUE])
    /\ UNCHANGED <<class, work, exam, files, bytes, unsynced, over, asks>>

CommitSubmit(s) ==
    LET r == serving[s] IN
    /\ r.op = "submit" /\ Stored(r)
    /\ work' = [work EXCEPT ![r.of].status = "SUBMITTED"]
    /\ files' = files \cup r.stored
    /\ Answers(s)
    /\ UNCHANGED <<class, exam, bytes, unsynced, over, asks, asksLeft>>

\* A scorer's request first reads the row without a lock
ReadForScore(s) ==
    /\ \E p \in Pieces :
          /\ work[p].status = "SUBMITTED"
          /\ Accepts(s, [Waiting EXCEPT !.op = "score", !.stage = "read", !.of = p])
    /\ UNCHANGED <<class, work, exam, files, bytes, unsynced, over, asks>>

\* mutant: it is not looked at again
MayScoreUnread(p) == TRUE

\* and again under it
MayScore(p) == work[p].status = "SUBMITTED"

Score(s) ==
    LET r == serving[s] IN
    /\ Doing(s, "score", "read")
    /\ PieceFree(r.of)
    /\ work' = IF MayScore(r.of) THEN [work EXCEPT ![r.of] = [status |-> "SCORED", score |-> r.number]] ELSE work
    /\ Answers(s)
    /\ UNCHANGED <<class, exam, files, bytes, unsynced, over, asks, asksLeft>>

(***************************************************************************)
(* A chapter exam (ExamsView, ExamResultView)                              *)
(***************************************************************************)
\* Its time is checked against classes and exams without a lock; times are left out here
ScheduleExam(s) ==
    /\ serving[s] = Waiting /\ "schedule_exam" \in asks /\ asksLeft > 0
    /\ \E e \in Exams :
          /\ exam[e].status = "ABSENT"
          /\ exam' = [exam EXCEPT ![e].status = "SCHEDULED"]
    /\ asksLeft' = asksLeft - 1
    /\ UNCHANGED <<class, work, files, bytes, serving, unsynced, over, asks>>

\* put: one that is scheduled is moved, or cancelled
ReadForChange(s) ==
    /\ \E e \in Exams, status \in {"SCHEDULED", "CANCELLED"} :
          /\ exam[e].status = "SCHEDULED"
          /\ Accepts(s, [Waiting EXCEPT !.op = "change_exam", !.stage = "read", !.of = e, !.row = exam[e], !.ask = status])
    /\ UNCHANGED <<class, work, exam, files, bytes, unsynced, over, asks>>

\* The whole row is saved, as it was read but for what is asked
SaveChangeOfExam(s) ==
    LET r == serving[s] IN
    /\ Doing(s, "change_exam", "read")
    /\ exam' = [exam EXCEPT ![r.of] = [r.row EXCEPT !.status = r.ask]]
    /\ over' = IF r.ask = "CANCELLED" THEN over \cup {r.of} ELSE over
    /\ Answers(s)
    /\ UNCHANGED <<class, work, files, bytes, unsynced, asks, asksLeft>>

\* A result is recorded or edited, with question papers to add or not, and some to remove
ReadForResult(s) ==
    /\ \E e \in Exams, stores \in BOOLEAN : \E removes \in SUBSET FilesOf(e, "question") :
          /\ exam[e].status \in {"SCHEDULED", "ATTENDED"}
          /\ Accepts(s, [Waiting EXCEPT !.op = "record_result", !.stage = "storing", !.of = e, !.row = exam[e],
                                        !.stores = stores, !.removes = removes])
    /\ UNCHANGED <<class, work, exam, files, bytes, unsynced, over, asks>>

SaveResult(s) ==
    LET r == serving[s] IN
    /\ r.op = "record_result" /\ Stored(r)
    /\ exam' = [exam EXCEPT ![r.of] = [status |-> "ATTENDED", score |-> r.number]]
    /\ files' = files \cup r.stored
    /\ over' = over \cup {r.of}
    /\ serving' = [serving EXCEPT ![s].stage = "removing", ![s].stored = {}]
    /\ UNCHANGED <<class, work, bytes, unsynced, asks, asksLeft>>

\* post_delete: the bytes go before the transaction that deletes the row commits
RemoveBytes(s) ==
    LET r == serving[s] IN
    /\ Doing(s, "record_result", "removing")
    /\ \E f \in r.removes :
          /\ bytes' = bytes \ {f}
          /\ serving' = [serving EXCEPT ![s].stage = "removed", ![s].stored = {f}, ![s].removes = @ \ {f}]
    /\ UNCHANGED <<class, work, exam, files, unsynced, over, asks, asksLeft>>

RemoveRow(s) ==
    /\ Doing(s, "record_result", "removed")
    /\ files' = files \ serving[s].stored
    /\ serving' = [serving EXCEPT ![s].stage = "removing", ![s].stored = {}]
    /\ UNCHANGED <<class, work, exam, bytes, unsynced, over, asks, asksLeft>>

AnswerResult(s) ==
    /\ Doing(s, "record_result", "removing") /\ serving[s].removes = {}
    /\ Answers(s)
    /\ UNCHANGED <<class, work, exam, files, bytes, unsynced, over, asks, asksLeft>>

-----------------------------------------------------------------------------
NextSchoolwork ==
    \E s \in Servers :
        \/ ReadClass(s) \/ ReadForUpload(s) \/ SaveClass(s) \/ SaveUpload(s) \/ SyncHomework(s)
        \/ StoreFile(s) \/ FailStoring(s) \/ Stop(s)
        \/ SetExtra(s) \/ CommitExtra(s) \/ Submit(s) \/ CommitSubmit(s) \/ ReadForScore(s) \/ Score(s)
        \/ ScheduleExam(s) \/ ReadForChange(s) \/ SaveChangeOfExam(s)
        \/ ReadForResult(s) \/ SaveResult(s) \/ RemoveBytes(s) \/ RemoveRow(s) \/ AnswerResult(s)

SpecSchoolwork == InitSchoolwork /\ [][NextSchoolwork]_schoolVars

-----------------------------------------------------------------------------
(***************************************************************************)
(* Properties                                                              *)
(***************************************************************************)
Handed(p) == work[p].status \in {"SUBMITTED", "SCORED"}

SchoolworkTyped ==
    /\ class \in [Classes -> ClassContents]
    /\ work \in [Pieces -> PieceRows]
    /\ exam \in [Exams -> ExamRows]
    /\ files \subseteq FileRows /\ bytes \subseteq FileRows
    /\ \A s \in Servers : serving[s].number \in Nat /\ serving[s].stored \subseteq FileRows /\ serving[s].removes \subseteq FileRows
    /\ unsynced \subseteq Classes /\ over \subseteq Exams
    /\ asks \subseteq SchoolworkOps /\ asksLeft \in Nat

(* A piece of work that was submitted has every file of one upload, and a  *)
(* piece that was not has none, though it be submitted twice at once and   *)
(* storing fail halfway; and each file has its bytes, whatever failed.     *)
SubmissionWhole ==
    /\ \A p \in Pieces :
          IF Handed(p)
            THEN \E f \in files : FilesOf(p, "answer") = {[of |-> p, kind |-> "answer", batch |-> f.batch, part |-> n] : n \in Parts}
            ELSE FilesOf(p, "answer") = {}
    /\ \A f \in files : f.of \in Pieces => f \in bytes

(* What was submitted, and the score it was given, never change: of two    *)
(* parents who submit, or two tutors who score, at once, one is refused.   *)
MarkedOnce ==
    [][\A p \in Pieces :
          /\ Handed(p) => Handed(p)' /\ FilesOf(p, "answer")' = FilesOf(p, "answer")
          /\ work[p].status = "SCORED" => work'[p] = work[p]]_schoolVars

(* An attended class with homework content has its homework once nobody is *)
(* handling it, however edits of its status and of its content cross; but  *)
(* an upload that the status changed under, or a stop before the sync, may *)
(* leave it without.                                                       *)
HomeworkAssigned ==
    \A c \in Classes \ unsynced :
        class[c] = [status |-> "ATTENDED", link |-> TRUE] /\ (\A s \in Servers : serving[s].of # c)
            => work[c].status # "ABSENT"

(* "Lifecycle SCHEDULED -> ATTENDED | CANCELLED" (exams/models.py:9): an   *)
(* exam that had its result recorded, or was cancelled, is never again one *)
(* that is to be held.                                                     *)
ExamStaysOver == \A e \in over : exam[e].status # "SCHEDULED"
=============================================================================
