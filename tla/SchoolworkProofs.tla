-------------------------- MODULE SchoolworkProofs --------------------------
(***************************************************************************)
(* What TLAPS proves of Schoolwork, for any servers, classes, additional   *)
(* exams, chapter exams and number of files: its type, that a submission   *)
(* is whole and marked once, and that an attended class has its homework.  *)
(***************************************************************************)
EXTENDS Schoolwork, TLAPS

Requests ==
    [op : SchoolworkOps \cup {Nothing}, stage : {Nothing, "read", "saved", "storing", "removing", "removed"},
     of : Pieces \cup Exams \cup {Nothing}, number : Nat, row : ClassContents \cup ExamRows \cup {Nothing},
     ask : ClassAsks \cup ClassStatuses \cup {Nothing}, stores : BOOLEAN,
     stored : SUBSET FileRows, removes : SUBSET FileRows]

EditOps == {"edit_class", "upload_homework"}
HandOps == {"submit", "set_extra"}

\* What a request is for, and how far it can be
Shaped(r) ==
    /\ r.op = Nothing => r = Waiting
    /\ r.op \in EditOps => r.of \in Classes /\ r.stage \in {"read", "saved"} /\ r.row \in ClassContents /\ r.ask \in ClassAsks
    /\ r.op = "upload_homework" => r.ask = [status |-> Nothing, link |-> TRUE]
    /\ r.op = "submit" => r.of \in Pieces
    /\ r.op = "set_extra" => r.of \in Extras
    /\ r.op \in HandOps => r.stage = "storing" /\ r.stores
    /\ r.op = "score" => r.of \in Pieces /\ r.stage = "read"
    /\ r.op = "change_exam" => r.of \in Exams /\ r.stage = "read" /\ r.row \in ExamRows /\ r.ask \in ClassStatuses
    /\ r.op = "record_result" => r.of \in Exams /\ r.stage \in {"storing", "removing", "removed"}
    /\ r.op # "schedule_exam"

\* The files a request handles are of what it is for; those it hands in have their bytes
HandlesOwn(r) ==
    /\ \A f \in r.stored \cup r.removes : f.of = r.of /\ f.kind = KindOf(r)
    /\ r.op \in HandOps => r.stored \subseteq bytes

\* Nothing was handed in yet where a request is handing something in
Unhanded(r) ==
    /\ r.op = "submit" => work[r.of].status = "ASSIGNED"
    /\ r.op = "set_extra" => work[r.of].status = "ABSENT"

RequestsAgree ==
    /\ serving \in [Servers -> Requests]
    /\ \A s \in Servers : Shaped(serving[s]) /\ HandlesOwn(serving[s]) /\ Unhanded(serving[s])
    /\ \A s, t \in Servers : serving[s].op \in HandOps /\ serving[t].op \in HandOps /\ serving[s].of = serving[t].of => s = t

\* An additional exam that is not set has no question paper
PaperWhenSet == \A p \in Pieces : work[p].status = "ABSENT" => FilesOf(p, "question") = {}

WithHomework == [status |-> "ATTENDED", link |-> TRUE]

\* The homework of a class is there, or is to be, or nothing is said of it
Cared(c) ==
    \/ c \in unsynced
    \/ work[c].status # "ABSENT"
    \/ \E s \in Servers : serving[s].of = c /\ serving[s].stage = "saved" /\ Syncs(serving[s])

\* So it is when the class calls for it, and when a request has read that it does
HomeworkToCome ==
    /\ \A c \in Classes : class[c] = WithHomework => Cared(c)
    /\ \A s \in Servers : serving[s].op \in EditOps /\ serving[s].stage = "read" /\ serving[s].row = WithHomework
                              => Cared(serving[s].of)

SchoolworkInv ==
    /\ SchoolworkTyped
    /\ RequestsAgree
    /\ SubmissionWhole
    /\ PaperWhenSet
    /\ HomeworkToCome

-----------------------------------------------------------------------------
\* When it begins every request waits, and a class that calls for homework has it.
LEMMA WorkStarts == InitSchoolwork => SchoolworkInv
<1> SUFFICES ASSUME InitSchoolwork
             PROVE  SchoolworkInv
  OBVIOUS
<1>1. PICK start \in SchoolworkAtStart :
         /\ class = start.class /\ work = start.work /\ exam = start.exam
         /\ asks = start.asks /\ asksLeft = start.left
  BY DEF InitSchoolwork
<1>2. /\ files = {} /\ bytes = {} /\ unsynced = {} /\ over = {}
      /\ \A s \in Servers : serving[s] = Waiting
      /\ serving \in [Servers -> {Waiting}]
  BY DEF InitSchoolwork
<1>3. /\ class \in [Classes -> ClassContents] /\ work \in [Pieces -> PieceRows] /\ exam \in [Exams -> ExamRows]
      /\ asks \subseteq SchoolworkOps /\ asksLeft \in Nat
  BY <1>1, SchoolworkAssumption
<1>4. Waiting \in Requests
  BY DEF Waiting, Requests
<1>5. SchoolworkTyped
  BY <1>2, <1>3 DEF SchoolworkTyped, Waiting
<1>6. Shaped(Waiting) /\ HandlesOwn(Waiting) /\ Unhanded(Waiting) /\ Waiting.op \notin HandOps \cup EditOps
  BY SchoolworkAssumption DEF Waiting, Shaped, HandlesOwn, Unhanded, SchoolworkOps, HandOps, EditOps
<1>7. RequestsAgree
  BY <1>2, <1>4, <1>6 DEF RequestsAgree
<1>8. SubmissionWhole /\ PaperWhenSet
  BY <1>1, <1>2, SchoolworkAssumption DEF SubmissionWhole, PaperWhenSet, FilesOf, Handed
<1>9. HomeworkToCome
  <2>1. \A c \in Classes : start.class[c] = WithHomework => start.work[c].status = "ASSIGNED"
    BY SchoolworkAssumption DEF WithHomework
  <2>2. \A c \in Classes : class[c] = WithHomework => Cared(c)
    BY <1>1, <2>1 DEF Cared
  <2> QED
    BY <1>2, <1>6, <2>2 DEF HomeworkToCome
<1> QED
  BY <1>5, <1>7, <1>8, <1>9 DEF SchoolworkInv

\* A step of one request leaves the others agreeing, when it leaves them what they handle.
LEMMA AgreeKeeps ==
  ASSUME RequestsAgree, NEW s \in Servers, NEW new \in Requests, serving' = [serving EXCEPT ![s] = new],
         Shaped(new),
         \A f \in new.stored \cup new.removes : f.of = new.of /\ f.kind = KindOf(new),
         new.op \in HandOps => new.stored \subseteq bytes',
         new.op = "submit" => work'[new.of].status = "ASSIGNED",
         new.op = "set_extra" => work'[new.of].status = "ABSENT",
         \A t \in Servers \ {s} : serving[t].op \in HandOps =>
             /\ serving[t].stored \subseteq bytes'
             /\ work'[serving[t].of].status = work[serving[t].of].status
             /\ new.op \in HandOps => serving[t].of # new.of
  PROVE  RequestsAgree'
<1>1. serving' \in [Servers -> Requests] /\ serving'[s] = new /\ \A t \in Servers \ {s} : serving'[t] = serving[t]
  BY DEF RequestsAgree
<1>2. Shaped(serving'[s]) /\ HandlesOwn(serving[s])' /\ Unhanded(serving[s])'
  BY <1>1 DEF HandlesOwn, Unhanded
<1>3. ASSUME NEW t \in Servers \ {s}
      PROVE  Shaped(serving'[t]) /\ HandlesOwn(serving[t])' /\ Unhanded(serving[t])'
  BY <1>1 DEF RequestsAgree, HandlesOwn, Unhanded, HandOps
<1>4. \A t, u \in Servers :
         serving'[t].op \in HandOps /\ serving'[u].op \in HandOps /\ serving'[t].of = serving'[u].of => t = u
  BY <1>1 DEF RequestsAgree
<1>5. \A t \in Servers : Shaped(serving'[t]) /\ HandlesOwn(serving[t])' /\ Unhanded(serving[t])'
  BY <1>2, <1>3
<1> QED
  BY <1>1, <1>4, <1>5 DEF RequestsAgree, Shaped

\* What waits handles nothing.
LEMMA WaitingFits ==
  /\ Waiting \in Requests /\ Shaped(Waiting) /\ Waiting.stored = {} /\ Waiting.removes = {} /\ Waiting.number = 0
  /\ Waiting.op \notin HandOps \cup EditOps /\ Waiting.op # "submit" /\ Waiting.op # "set_extra"
BY SchoolworkAssumption DEF Waiting, Requests, Shaped, HandOps, EditOps, SchoolworkOps

\* Homework to come stays so while the request that is to see to it goes on.
LEMMA CaredKeeps ==
  ASSUME NEW c \in Classes, Cared(c), unsynced \subseteq unsynced',
         work[c].status # "ABSENT" => work'[c].status # "ABSENT",
         NEW s \in Servers, \A t \in Servers \ {s} : serving'[t] = serving[t],
         serving[s].of = c /\ serving[s].stage = "saved" /\ Syncs(serving[s])
            => c \in unsynced' \/ work'[c].status # "ABSENT"
  PROVE  Cared(c)'
BY ZenonT(60) DEF Cared, Syncs, InMemory

(***************************************************************************)
(* A request begins                                                        *)
(***************************************************************************)
\* It changes nothing yet, and what it has read is so.
LEMMA AcceptKeeps ==
  ASSUME SchoolworkInv, NEW s \in Servers, serving[s] = Waiting, NEW new \in Requests,
         serving' = [serving EXCEPT ![s] = new], asksLeft' \in Nat,
         UNCHANGED <<class, work, exam, files, bytes, unsynced, over, asks>>,
         Shaped(new), new.stored = {}, \A f \in new.removes : f.of = new.of /\ f.kind = KindOf(new),
         new.op = "submit" => work[new.of].status = "ASSIGNED",
         new.op = "set_extra" => work[new.of].status = "ABSENT",
         new.op \in HandOps => \A t \in Servers \ {s} : serving[t].op \in HandOps => serving[t].of # new.of,
         new.op \in EditOps => new.row = class[new.of]
  PROVE  SchoolworkInv'
<1>1. serving' \in [Servers -> Requests] /\ serving'[s] = new /\ \A t \in Servers \ {s} : serving'[t] = serving[t]
  BY DEF SchoolworkInv, RequestsAgree
<1>2. SchoolworkTyped'
  BY <1>1 DEF SchoolworkInv, SchoolworkTyped, Requests
<1>3. RequestsAgree'
  <2>1. \A t \in Servers : serving[t].op \in HandOps => serving[t].stored \subseteq bytes'
    BY DEF SchoolworkInv, RequestsAgree, HandlesOwn
  <2> QED
    BY <2>1, AgreeKeeps DEF SchoolworkInv
<1>4. SubmissionWhole' /\ PaperWhenSet'
  BY DEF SchoolworkInv, SubmissionWhole, PaperWhenSet, Handed, FilesOf
<1>5. \A c \in Classes : Cared(c) => Cared(c)'
  BY <1>1, CaredKeeps, SchoolworkAssumption DEF Waiting
<1>6. HomeworkToCome'
  <2>1. \A c \in Classes : class'[c] = WithHomework => Cared(c)'
    BY <1>5 DEF SchoolworkInv, HomeworkToCome
  <2>2. \A t \in Servers \ {s} : serving[t].op \in EditOps => serving[t].of \in Classes
    BY DEF SchoolworkInv, RequestsAgree, Shaped
  <2>3. \A t \in Servers \ {s} : serving[t].op \in EditOps /\ serving[t].stage = "read" /\ serving[t].row = WithHomework
                                   => Cared(serving[t].of)'
    BY <1>5, <2>2 DEF SchoolworkInv, HomeworkToCome
  <2>4. new.op \in EditOps /\ new.row = WithHomework => Cared(new.of)'
    BY <2>1 DEF Shaped
  <2> QED
    BY <1>1, <2>1, <2>3, <2>4 DEF HomeworkToCome
<1> QED
  BY <1>2, <1>3, <1>4, <1>6 DEF SchoolworkInv

LEMMA AcceptsFacts ==
  ASSUME SchoolworkInv, NEW s \in Servers, NEW request, Accepts(s, request)
  PROVE  /\ serving[s] = Waiting /\ asksLeft' \in Nat
         /\ serving' = [serving EXCEPT ![s] = [request EXCEPT !.number = asksLeft]]
<1>1. asksLeft \in Nat
  BY DEF SchoolworkInv, SchoolworkTyped
<1> QED
  BY <1>1 DEF Accepts

LEMMA ReadClassKeeps ==
  ASSUME SchoolworkInv, NEW s \in Servers, ReadClass(s) \/ ReadForUpload(s)
  PROVE  SchoolworkInv'
<1>1. PICK c \in Classes, ask \in ClassAsks, op \in EditOps :
         /\ op = "upload_homework" => ask = [status |-> Nothing, link |-> TRUE]
         /\ Accepts(s, [Waiting EXCEPT !.op = op, !.stage = "read", !.of = c, !.row = class[c], !.ask = ask])
  BY DEF ReadClass, ReadForUpload, EditOps, ClassAsks
<1> DEFINE new == [[Waiting EXCEPT !.op = op, !.stage = "read", !.of = c, !.row = class[c], !.ask = ask]
                      EXCEPT !.number = asksLeft]
<1>2. class[c] \in ClassContents /\ asksLeft \in Nat
  BY DEF SchoolworkInv, SchoolworkTyped
<1>3. new \in Requests
  BY <1>2 DEF Requests, Waiting, EditOps, SchoolworkOps, Pieces
<1>4. Shaped(new)
  BY <1>1, <1>2, SchoolworkAssumption DEF Shaped, Waiting, EditOps, HandOps, SchoolworkOps
<1>5. serving[s] = Waiting /\ serving' = [serving EXCEPT ![s] = new] /\ asksLeft' \in Nat
  BY <1>1, AcceptsFacts
<1>9. UNCHANGED <<class, work, exam, files, bytes, unsynced, over, asks>>
  BY DEF ReadClass, ReadForUpload
<1>6. new.stored = {} /\ new.removes = {} /\ new.op = op /\ new.row = class[new.of]
  BY DEF Waiting
<1> HIDE DEF new
<1> QED
  BY <1>3, <1>4, <1>5, <1>6, <1>9, AcceptKeeps DEF EditOps, HandOps

\* What is handed in is locked, or not there yet, and nobody else is handing it in.
LEMMA HandInKeeps ==
  ASSUME SchoolworkInv, NEW s \in Servers, SetExtra(s) \/ Submit(s)
  PROVE  SchoolworkInv'
<1>1. PICK p \in Pieces, op \in HandOps :
         /\ op = "submit" => MaySubmitWork(p)
         /\ op = "set_extra" => p \in Extras /\ work[p].status = "ABSENT" /\ \A t \in Servers : serving[t].of # p
         /\ Accepts(s, [Waiting EXCEPT !.op = op, !.stage = "storing", !.of = p, !.stores = TRUE])
  BY DEF SetExtra, Submit, HandOps, Pieces
<1> DEFINE new == [[Waiting EXCEPT !.op = op, !.stage = "storing", !.of = p, !.stores = TRUE] EXCEPT !.number = asksLeft]
<1>2. asksLeft \in Nat
  BY DEF SchoolworkInv, SchoolworkTyped
<1>3. new \in Requests
  BY <1>2 DEF Requests, Waiting, HandOps, SchoolworkOps
<1>4. Shaped(new)
  BY <1>1, SchoolworkAssumption DEF Shaped, Waiting, EditOps, HandOps, SchoolworkOps
<1>5. serving[s] = Waiting /\ serving' = [serving EXCEPT ![s] = new] /\ asksLeft' \in Nat
  BY <1>1, AcceptsFacts
<1>9. UNCHANGED <<class, work, exam, files, bytes, unsynced, over, asks>>
  BY DEF SetExtra, Submit
<1>6. new.stored = {} /\ new.removes = {} /\ new.op = op /\ new.of = p
  BY DEF Waiting
<1>7. ASSUME NEW t \in Servers \ {s}, serving[t].op \in HandOps
      PROVE  serving[t].of # p
  <2>1. Shaped(serving[t]) /\ Unhanded(serving[t])
    BY DEF SchoolworkInv, RequestsAgree
  <2> QED
    BY <1>1, <1>7, <2>1 DEF Shaped, Unhanded, MaySubmitWork, PieceFree, Doing, HandOps
<1> HIDE DEF new
<1> QED
  BY <1>1, <1>3, <1>4, <1>5, <1>6, <1>7, <1>9, AcceptKeeps DEF EditOps, HandOps, MaySubmitWork

\* What is read of a piece of work, or of a chapter exam.
LEMMA ReadKeeps ==
  ASSUME SchoolworkInv, NEW s \in Servers, ReadForScore(s) \/ ReadForChange(s) \/ ReadForResult(s)
  PROVE  SchoolworkInv'
<1>1. asksLeft \in Nat /\ \A e \in Exams : exam[e] \in ExamRows
  BY DEF SchoolworkInv, SchoolworkTyped
<1>2. UNCHANGED <<class, work, exam, files, bytes, unsynced, over, asks>>
  BY DEF ReadForScore, ReadForChange, ReadForResult
<1>3. CASE ReadForScore(s)
  <2>1. PICK p \in Pieces : Accepts(s, [Waiting EXCEPT !.op = "score", !.stage = "read", !.of = p])
    BY <1>3 DEF ReadForScore
  <2> DEFINE new == [[Waiting EXCEPT !.op = "score", !.stage = "read", !.of = p] EXCEPT !.number = asksLeft]
  <2>2. new \in Requests
    BY <1>1 DEF Requests, Waiting, SchoolworkOps
  <2>3. Shaped(new) /\ new.stored = {} /\ new.removes = {} /\ new.op \notin EditOps \cup HandOps
    BY SchoolworkAssumption DEF Shaped, Waiting, EditOps, HandOps, SchoolworkOps
  <2>4. serving[s] = Waiting /\ serving' = [serving EXCEPT ![s] = new] /\ asksLeft' \in Nat
    BY <2>1, AcceptsFacts
  <2> HIDE DEF new
  <2> QED
    BY <1>2, <2>2, <2>3, <2>4, AcceptKeeps DEF EditOps, HandOps
<1>4. CASE ReadForChange(s)
  <2>1. PICK e \in Exams, status \in {"SCHEDULED", "CANCELLED"} :
           Accepts(s, [Waiting EXCEPT !.op = "change_exam", !.stage = "read", !.of = e, !.row = exam[e], !.ask = status])
    BY <1>4 DEF ReadForChange
  <2> DEFINE new == [[Waiting EXCEPT !.op = "change_exam", !.stage = "read", !.of = e, !.row = exam[e], !.ask = status]
                        EXCEPT !.number = asksLeft]
  <2>2. new \in Requests
    BY <1>1 DEF Requests, Waiting, SchoolworkOps, ClassStatuses
  <2>3. Shaped(new) /\ new.stored = {} /\ new.removes = {} /\ new.op \notin EditOps \cup HandOps
    BY <1>1, SchoolworkAssumption DEF Shaped, Waiting, EditOps, HandOps, SchoolworkOps, ClassStatuses
  <2>4. serving[s] = Waiting /\ serving' = [serving EXCEPT ![s] = new] /\ asksLeft' \in Nat
    BY <2>1, AcceptsFacts
  <2> HIDE DEF new
  <2> QED
    BY <1>2, <2>2, <2>3, <2>4, AcceptKeeps DEF EditOps, HandOps
<1>5. CASE ReadForResult(s)
  <2>1. PICK e \in Exams, stores \in BOOLEAN : \E removes \in SUBSET FilesOf(e, "question") :
           Accepts(s, [Waiting EXCEPT !.op = "record_result", !.stage = "storing", !.of = e, !.row = exam[e],
                                      !.stores = stores, !.removes = removes])
    BY <1>5 DEF ReadForResult
  <2>2. PICK removes \in SUBSET FilesOf(e, "question") :
           Accepts(s, [Waiting EXCEPT !.op = "record_result", !.stage = "storing", !.of = e, !.row = exam[e],
                                      !.stores = stores, !.removes = removes])
    BY <2>1
  <2> DEFINE new == [[Waiting EXCEPT !.op = "record_result", !.stage = "storing", !.of = e, !.row = exam[e],
                                     !.stores = stores, !.removes = removes] EXCEPT !.number = asksLeft]
  <2>3. removes \subseteq FileRows /\ \A f \in removes : f.of = e /\ f.kind = "question"
    BY DEF FilesOf, SchoolworkInv, SchoolworkTyped
  <2>4. new \in Requests
    BY <1>1, <2>3 DEF Requests, Waiting, SchoolworkOps
  <2>5. Shaped(new) /\ new.stored = {} /\ new.op \notin EditOps \cup HandOps
    BY SchoolworkAssumption DEF Shaped, Waiting, EditOps, HandOps, SchoolworkOps
  <2>6. serving[s] = Waiting /\ serving' = [serving EXCEPT ![s] = new] /\ asksLeft' \in Nat
    BY <2>2, AcceptsFacts
  <2>7. \A f \in new.removes : f.of = new.of /\ f.kind = KindOf(new)
    BY <2>3 DEF Waiting, KindOf
  <2> HIDE DEF new
  <2> QED
    BY <1>2, <2>4, <2>5, <2>6, <2>7, AcceptKeeps DEF EditOps, HandOps
<1> QED
  BY <1>3, <1>4, <1>5

(***************************************************************************)
(* A class is saved, and its homework seen to                              *)
(***************************************************************************)
\* A request for a class goes on to "saved"; where it saved that there is homework, it will see to it.
LEMMA SaveKeeps ==
  ASSUME SchoolworkInv, NEW s \in Servers, serving[s].op \in EditOps, serving[s].stage = "read",
         serving' = [serving EXCEPT ![s].stage = "saved"],
         UNCHANGED <<work, exam, files, bytes, over, asks, asksLeft>>,
         unsynced \subseteq unsynced', unsynced' \subseteq Classes,
         NEW new \in ClassContents, class' = [class EXCEPT ![serving[s].of] = new],
         new = WithHomework => Syncs(serving[s]) \/ serving[s].of \in unsynced' \/ serving[s].row = WithHomework
  PROVE  SchoolworkInv'
<1> DEFINE r == serving[s]
           saved == [r EXCEPT !.stage = "saved"]
<1>1. r \in Requests /\ Shaped(r) /\ HandlesOwn(r) /\ Unhanded(r)
  BY DEF SchoolworkInv, RequestsAgree
<1>2. saved \in Requests /\ serving' = [serving EXCEPT ![s] = saved]
  BY <1>1 DEF Requests, SchoolworkInv, RequestsAgree
<1>3. serving'[s] = saved /\ \A t \in Servers \ {s} : serving'[t] = serving[t]
  BY <1>2 DEF SchoolworkInv, RequestsAgree
<1>4. /\ saved.op = r.op /\ saved.of = r.of /\ saved.row = r.row /\ saved.ask = r.ask /\ saved.number = r.number
      /\ saved.stored = r.stored /\ saved.removes = r.removes /\ saved.stage = "saved" /\ r.of \in Classes
  BY <1>1 DEF Requests, Shaped
<1>5. Shaped(saved)
  BY <1>1, <1>4, SchoolworkAssumption DEF Shaped, EditOps, HandOps, SchoolworkOps
<1> HIDE DEF saved
<1>6. RequestsAgree'
  <2>1. \A f \in saved.stored \cup saved.removes : f.of = saved.of /\ f.kind = KindOf(saved)
    BY <1>1, <1>4 DEF HandlesOwn, KindOf
  <2>2. saved.op \notin HandOps /\ saved.op # "submit" /\ saved.op # "set_extra"
    BY <1>4 DEF EditOps, HandOps
  <2>3. \A t \in Servers : serving[t].op \in HandOps => serving[t].stored \subseteq bytes'
    BY DEF SchoolworkInv, RequestsAgree, HandlesOwn
  <2> QED
    BY <1>2, <1>5, <2>1, <2>2, <2>3, AgreeKeeps DEF SchoolworkInv
<1>7. SchoolworkTyped'
  <2>1. class' \in [Classes -> ClassContents]
    BY DEF SchoolworkInv, SchoolworkTyped
  <2>2. \A t \in Servers : serving'[t].number \in Nat /\ serving'[t].stored \subseteq FileRows /\ serving'[t].removes \subseteq FileRows
    BY <1>3, <1>4 DEF SchoolworkInv, SchoolworkTyped
  <2> QED
    BY <2>1, <2>2 DEF SchoolworkInv, SchoolworkTyped
<1>8. SubmissionWhole' /\ PaperWhenSet'
  BY DEF SchoolworkInv, SubmissionWhole, PaperWhenSet, Handed, FilesOf
<1>9. \A c \in Classes : Cared(c) => Cared(c)'
  BY <1>1, <1>3, CaredKeeps
<1>10. new = WithHomework => Cared(r.of)'
  <2>1. CASE Syncs(r)
    <3>1. Syncs(saved)
      BY <2>1, <1>4 DEF Syncs, InMemory
    <3>2. Syncs(serving[s])'
      BY <3>1, <1>3 DEF Syncs, InMemory
    <3> QED
      BY <3>2, <1>3, <1>4 DEF Cared
  <2>2. CASE r.of \in unsynced'
    BY <2>2 DEF Cared
  <2>3. CASE r.row = WithHomework
    BY <2>3, <1>4, <1>9 DEF SchoolworkInv, HomeworkToCome
  <2> QED
    BY <2>1, <2>2, <2>3
<1>11. HomeworkToCome'
  <2>1. \A c \in Classes : class'[c] = WithHomework => Cared(c)'
    <3>1. \A c \in Classes : class'[c] = IF c = r.of THEN new ELSE class[c]
      BY <1>4 DEF SchoolworkInv, SchoolworkTyped
    <3> QED
      BY <3>1, <1>9, <1>10 DEF SchoolworkInv, HomeworkToCome
  <2>2. \A t \in Servers \ {s} : serving[t].op \in EditOps => serving[t].of \in Classes
    BY DEF SchoolworkInv, RequestsAgree, Shaped
  <2>3. \A t \in Servers \ {s} : serving[t].op \in EditOps /\ serving[t].stage = "read" /\ serving[t].row = WithHomework
                                   => Cared(serving[t].of)'
    BY <1>9, <2>2 DEF SchoolworkInv, HomeworkToCome
  <2>4. serving'[s].stage # "read"
    BY <1>3, <1>4
  <2> QED
    BY <1>3, <2>1, <2>3, <2>4 DEF HomeworkToCome
<1> QED
  BY <1>6, <1>7, <1>8, <1>11 DEF SchoolworkInv

LEMMA SaveClassKeeps ==
  ASSUME SchoolworkInv, NEW s \in Servers, SaveClass(s)
  PROVE  SchoolworkInv'
<1> DEFINE r == serving[s]
           new == InMemory(r)
<1>1. r.op = "edit_class" /\ r.stage = "read" /\ class' = [class EXCEPT ![r.of] = new]
  BY DEF SaveClass, Doing, SavedWhole
<1>2. r.row \in ClassContents /\ r.ask \in ClassAsks
  BY <1>1 DEF SchoolworkInv, RequestsAgree, Shaped, EditOps
<1>3. new \in ClassContents
  <2>1. (IF r.ask.status = Nothing THEN r.row.status ELSE r.ask.status) \in ClassStatuses
    BY <1>2 DEF ClassContents, ClassAsks
  <2>2. (IF r.ask.link = Nothing THEN r.row.link ELSE r.ask.link) \in BOOLEAN
    <3>1. r.ask.link = Nothing \/ r.ask.link \in BOOLEAN
      BY <1>2 DEF ClassAsks
    <3>2. r.row.link \in BOOLEAN
      BY <1>2 DEF ClassContents
    <3> QED
      BY <3>1, <3>2
  <2> QED
    BY <2>1, <2>2 DEF InMemory, ClassContents
<1>4. new = WithHomework => Syncs(r) \/ r.row = WithHomework
  <2>1. SUFFICES ASSUME new = WithHomework, r.ask.link = Nothing, r.ask.status # "ATTENDED"
                 PROVE  r.row = WithHomework
    BY DEF Syncs, WithHomework
  <2>2. new.status = "ATTENDED" /\ new.link = TRUE
    BY <2>1 DEF WithHomework
  <2>3. r.row.status = "ATTENDED" /\ r.row.link = TRUE
    BY <2>1, <2>2 DEF InMemory
  <2>4. r.row = [status |-> r.row.status, link |-> r.row.link]
    BY <1>2 DEF ClassContents
  <2> QED
    BY <2>3, <2>4 DEF WithHomework
<1>5. /\ serving' = [serving EXCEPT ![s].stage = "saved"]
      /\ UNCHANGED <<work, exam, files, bytes, unsynced, over, asks, asksLeft>>
      /\ unsynced \subseteq Classes
  BY DEF SaveClass, SchoolworkInv, SchoolworkTyped
<1> HIDE DEF new
<1> QED
  BY <1>1, <1>3, <1>4, <1>5, SaveKeeps DEF EditOps

\* The upload's own link is in memory; the status it read may have changed.
LEMMA SaveUploadKeeps ==
  ASSUME SchoolworkInv, NEW s \in Servers, SaveUpload(s)
  PROVE  SchoolworkInv'
<1> DEFINE r == serving[s]
           new == [class[r.of] EXCEPT !.link = TRUE]
<1>1. r.op = "upload_homework" /\ r.stage = "read"
  BY DEF SaveUpload, Doing
<1>2. r.of \in Classes /\ r.row \in ClassContents /\ r.ask = [status |-> Nothing, link |-> TRUE]
  BY <1>1 DEF SchoolworkInv, RequestsAgree, Shaped, EditOps
<1>3. class[r.of] \in ClassContents /\ unsynced \subseteq Classes /\ class \in [Classes -> ClassContents]
  BY <1>2 DEF SchoolworkInv, SchoolworkTyped
<1>4. new \in ClassContents /\ class' = [class EXCEPT ![r.of] = new]
  BY <1>3 DEF ClassContents, SaveUpload
<1>5. unsynced' = IF class[r.of].status = r.row.status THEN unsynced ELSE unsynced \cup {r.of}
  BY DEF SaveUpload
<1>6. new = WithHomework => Syncs(r) \/ r.of \in unsynced'
  <2>1. SUFFICES ASSUME new = WithHomework, class[r.of].status = r.row.status
                 PROVE  Syncs(r)
    BY <1>5
  <2>2. new.status = "ATTENDED" /\ new.status = class[r.of].status
    BY <2>1, <1>3 DEF WithHomework, ClassContents
  <2>3. r.ask.status = Nothing /\ r.ask.link = TRUE /\ r.ask.link # Nothing
    <3>1. r.ask.status = Nothing /\ r.ask.link = TRUE
      BY <1>2
    <3>2. \A b \in BOOLEAN : b # Nothing
      BY SchoolworkAssumption
    <3>3. TRUE # Nothing
      BY <3>2, Zenon
    <3> QED
      BY <3>1, <3>3, Zenon
  <2>4. InMemory(r) = [status |-> "ATTENDED", link |-> TRUE]
    BY <2>1, <2>2, <2>3 DEF InMemory
  <2> QED
    BY <2>3, <2>4 DEF Syncs
<1>7. /\ serving' = [serving EXCEPT ![s].stage = "saved"]
      /\ UNCHANGED <<work, exam, files, bytes, over, asks, asksLeft>>
  BY DEF SaveUpload
<1>8. unsynced \subseteq unsynced' /\ unsynced' \subseteq Classes
  BY <1>2, <1>3, <1>5
<1> HIDE DEF new
<1> QED
  BY <1>1, <1>4, <1>6, <1>7, <1>8, SaveKeeps DEF EditOps

LEMMA SyncKeeps ==
  ASSUME SchoolworkInv, NEW s \in Servers, SyncHomework(s)
  PROVE  SchoolworkInv'
<1> DEFINE r == serving[s]
<1>1. Shaped(r) /\ r.stage = "saved" /\ r \in Requests
  BY DEF SyncHomework, SchoolworkInv, RequestsAgree
<1>2. r.op \in EditOps /\ r.of \in Classes
  BY <1>1, SchoolworkAssumption DEF Shaped, Waiting, EditOps, HandOps, Requests, SchoolworkOps
<1>3. /\ serving' = [serving EXCEPT ![s] = Waiting]
      /\ UNCHANGED <<class, exam, files, bytes, unsynced, over, asks, asksLeft>>
  BY DEF SyncHomework, Answers
<1>4. serving'[s] = Waiting /\ \A t \in Servers \ {s} : serving'[t] = serving[t]
  BY <1>3 DEF SchoolworkInv, RequestsAgree
<1>5. /\ work' \in [Pieces -> PieceRows]
      /\ \A p \in Pieces : p # r.of \/ work[p].status # "ABSENT" => work'[p] = work[p]
      /\ \A p \in Pieces : work[p].status = "ABSENT" => work'[p].status \in {"ABSENT", "ASSIGNED"}
      /\ Syncs(r) => work'[r.of].status # "ABSENT"
  <2>1. work \in [Pieces -> PieceRows] /\ r.of \in Pieces
    BY <1>2 DEF SchoolworkInv, SchoolworkTyped, Pieces
  <2>2. work' = IF Syncs(r) /\ work[r.of].status = "ABSENT" THEN [work EXCEPT ![r.of].status = "ASSIGNED"] ELSE work
    BY DEF SyncHomework
  <2> QED
    BY <2>1, <2>2 DEF PieceRows
<1>6. SchoolworkTyped'
  BY <1>3, <1>4, <1>5 DEF SchoolworkInv, SchoolworkTyped, Waiting
<1>7. RequestsAgree'
  <2>1. Waiting \in Requests /\ Shaped(Waiting) /\ Waiting.stored = {} /\ Waiting.removes = {} /\ Waiting.op \notin HandOps
        /\ Waiting.op # "submit" /\ Waiting.op # "set_extra"
    BY WaitingFits
  <2>2. ASSUME NEW t \in Servers \ {s}, serving[t].op \in HandOps
        PROVE  serving[t].stored \subseteq bytes' /\ work'[serving[t].of].status = work[serving[t].of].status
    <3>1. Shaped(serving[t]) /\ HandlesOwn(serving[t]) /\ Unhanded(serving[t])
      BY DEF SchoolworkInv, RequestsAgree
    <3>2. serving[t].of \in Pieces /\ (serving[t].of # r.of \/ work[serving[t].of].status # "ABSENT")
      BY <1>2, <2>2, <3>1, SchoolworkAssumption DEF Shaped, Unhanded, HandOps, Pieces
    <3> QED
      BY <1>3, <1>5, <2>2, <3>1, <3>2 DEF HandlesOwn
  <2> HIDE DEF r
  <2> QED
    BY <1>3, <2>1, <2>2, AgreeKeeps DEF SchoolworkInv
<1>8. SubmissionWhole' /\ PaperWhenSet'
  <2>1. \A p \in Pieces : (Handed(p))' <=> Handed(p)
    BY <1>5 DEF Handed
  <2> QED
    BY <1>3, <1>5, <2>1 DEF SchoolworkInv, SubmissionWhole, PaperWhenSet, FilesOf
<1>9. \A c \in Classes : Cared(c) => Cared(c)'
  BY <1>3, <1>4, <1>5, CaredKeeps DEF Pieces
<1>10. HomeworkToCome'
  <2>1. \A t \in Servers \ {s} : serving[t].op \in EditOps => serving[t].of \in Classes
    BY DEF SchoolworkInv, RequestsAgree, Shaped
  <2>2. Waiting.op \notin EditOps
    BY WaitingFits
  <2> QED
    BY <1>3, <1>4, <1>9, <2>1, <2>2 DEF SchoolworkInv, HomeworkToCome
<1> QED
  BY <1>6, <1>7, <1>8, <1>10 DEF SchoolworkInv

(***************************************************************************)
(* Files                                                                   *)
(***************************************************************************)
\* What one request has stored is nobody else's, and no file of a piece of work.
LEMMA StoredApart ==
  ASSUME SchoolworkInv, NEW s \in Servers, serving[s].stage = "storing", NEW f \in serving[s].stored
  PROVE  /\ f \in files => f.of \notin Pieces
         /\ \A t \in Servers \ {s} : serving[t].op \in HandOps => f \notin serving[t].stored
<1> DEFINE r == serving[s]
<1>1. Shaped(r) /\ HandlesOwn(r) /\ Unhanded(r) /\ r \in Requests
  BY DEF SchoolworkInv, RequestsAgree
<1>2. f.of = r.of /\ f.kind = KindOf(r)
  BY <1>1 DEF HandlesOwn
<1>3. r.op # Nothing
  BY <1>1, WaitingFits DEF Shaped
<1>4. r.op \in HandOps \/ r.of \in Exams
  BY <1>1, <1>3 DEF Shaped, EditOps, HandOps, Requests, SchoolworkOps
<1>5. CASE r.of \in Exams
  <2>1. f.of \notin Pieces
    BY <1>2, <1>5, SchoolworkAssumption
  <2>2. ASSUME NEW t \in Servers, serving[t].op \in HandOps
        PROVE  serving[t].of \in Pieces /\ \A g \in serving[t].stored : g.of = serving[t].of
    BY <2>2 DEF SchoolworkInv, RequestsAgree, Shaped, HandlesOwn, HandOps, Pieces
  <2> QED
    BY <2>1, <2>2
<1>6. CASE r.op \in HandOps
  <2>1. ASSUME NEW t \in Servers \ {s}, serving[t].op \in HandOps
        PROVE  f \notin serving[t].stored
    BY <1>2, <1>6, <2>1 DEF SchoolworkInv, RequestsAgree, HandlesOwn
  <2>2. CASE r.op = "submit"
    <3>1. r.of \in Pieces /\ FilesOf(r.of, "answer") = {}
      BY <1>1, <2>2 DEF Shaped, Unhanded, SchoolworkInv, SubmissionWhole, Handed
    <3> QED
      BY <1>2, <2>1, <2>2, <3>1 DEF KindOf, FilesOf
  <2>3. CASE r.op = "set_extra"
    <3>1. r.of \in Pieces /\ FilesOf(r.of, "question") = {}
      BY <1>1, <2>3 DEF Shaped, Unhanded, SchoolworkInv, PaperWhenSet, Pieces
    <3> QED
      BY <1>2, <2>1, <2>3, <3>1 DEF KindOf, FilesOf
  <2> QED
    BY <1>6, <2>2, <2>3 DEF HandOps
<1> QED
  BY <1>4, <1>5, <1>6

\* What a request that ends without a new file row may leave behind.
EndFits(s) ==
    /\ exam' \in [Exams -> ExamRows] /\ over' \subseteq Exams
    /\ unsynced \subseteq unsynced' /\ unsynced' \subseteq Classes
    /\ serving[s].stage = "saved" => serving[s].of \in unsynced'
    /\ \/ bytes' = bytes
       \/ serving[s].stage = "storing" /\ bytes' = bytes \ serving[s].stored

\* A request ends with no file row more or less; it may take with it the bytes it stored.
LEMMA AnswerKeeps ==
  ASSUME SchoolworkInv, NEW s \in Servers, serving' = [serving EXCEPT ![s] = Waiting],
         UNCHANGED <<class, work, files, asks, asksLeft>>, EndFits(s)
  PROVE  SchoolworkInv'
<1>1. serving'[s] = Waiting /\ \A t \in Servers \ {s} : serving'[t] = serving[t]
  BY DEF SchoolworkInv, RequestsAgree
<1>2. SchoolworkTyped'
  <2>1. \A t \in Servers : serving'[t].number \in Nat /\ serving'[t].stored \subseteq FileRows /\ serving'[t].removes \subseteq FileRows
    BY <1>1, WaitingFits DEF SchoolworkInv, SchoolworkTyped
  <2> QED
    BY <2>1 DEF SchoolworkInv, SchoolworkTyped, EndFits
<1>3. RequestsAgree'
  <2>1. ASSUME NEW t \in Servers \ {s}, serving[t].op \in HandOps
        PROVE  serving[t].stored \subseteq bytes'
    <3>1. serving[t].stored \subseteq bytes
      BY <2>1 DEF SchoolworkInv, RequestsAgree, HandlesOwn
    <3>2. serving[s].stage = "storing" => \A f \in serving[s].stored : f \notin serving[t].stored
      BY <2>1, StoredApart
    <3> QED
      BY <3>1, <3>2 DEF EndFits
  <2>2. Waiting \in Requests /\ Shaped(Waiting) /\ Waiting.stored = {} /\ Waiting.removes = {} /\ Waiting.op \notin HandOps
        /\ Waiting.op # "submit" /\ Waiting.op # "set_extra"
    BY WaitingFits
  <2> QED
    BY <2>1, <2>2, AgreeKeeps DEF SchoolworkInv
<1>4. SubmissionWhole' /\ PaperWhenSet'
  <2>1. \A f \in files : f.of \in Pieces => f \in bytes'
    BY StoredApart DEF SchoolworkInv, SubmissionWhole, EndFits
  <2> QED
    BY <2>1 DEF SchoolworkInv, SubmissionWhole, PaperWhenSet, Handed, FilesOf
<1>5. \A c \in Classes : Cared(c) => Cared(c)'
  BY <1>1, CaredKeeps DEF EndFits
<1>6. HomeworkToCome'
  <2>1. \A t \in Servers \ {s} : serving[t].op \in EditOps => serving[t].of \in Classes
    BY DEF SchoolworkInv, RequestsAgree, Shaped
  <2>2. Waiting.op \notin EditOps
    BY WaitingFits
  <2> QED
    BY <1>1, <1>5, <2>1, <2>2 DEF SchoolworkInv, HomeworkToCome
<1> QED
  BY <1>2, <1>3, <1>4, <1>6 DEF SchoolworkInv

LEMMA EndKeeps ==
  ASSUME SchoolworkInv, NEW s \in Servers, FailStoring(s) \/ Stop(s) \/ SaveChangeOfExam(s) \/ AnswerResult(s)
  PROVE  SchoolworkInv'
<1> DEFINE r == serving[s]
<1>1. /\ exam \in [Exams -> ExamRows] /\ over \subseteq Exams /\ unsynced \subseteq Classes
      /\ Shaped(r) /\ r \in Requests
  BY DEF SchoolworkInv, SchoolworkTyped, RequestsAgree
<1>2. serving' = [serving EXCEPT ![s] = Waiting] /\ UNCHANGED <<class, work, files, asks, asksLeft>>
  BY DEF FailStoring, Stop, SaveChangeOfExam, AnswerResult, Answers
<1>3. CASE FailStoring(s)
  <2>1. /\ r.stage = "storing" /\ UNCHANGED <<exam, unsynced, over>>
        /\ bytes' = bytes \/ bytes' = bytes \ r.stored
    BY <1>3 DEF FailStoring
  <2>2. EndFits(s)
    BY <1>1, <2>1 DEF EndFits
  <2> QED
    BY <1>2, <2>2, AnswerKeeps
<1>4. CASE Stop(s)
  <2>1. /\ UNCHANGED <<exam, bytes, over>>
        /\ unsynced' = IF r.stage = "saved" THEN unsynced \cup {r.of} ELSE unsynced
    BY <1>4 DEF Stop
  <2>2. r.stage = "saved" => r.of \in Classes
    BY <1>1, SchoolworkAssumption DEF Shaped, Waiting, EditOps, HandOps, Requests, SchoolworkOps
  <2>3. EndFits(s)
    BY <1>1, <2>1, <2>2 DEF EndFits
  <2> QED
    BY <1>2, <2>3, AnswerKeeps
<1>5. CASE SaveChangeOfExam(s)
  <2>1. r.op = "change_exam" /\ r.stage = "read"
    BY <1>5 DEF SaveChangeOfExam, Doing
  <2>2. r.of \in Exams /\ r.row \in ExamRows /\ r.ask \in ClassStatuses
    BY <1>1, <2>1 DEF Shaped
  <2>3. exam' \in [Exams -> ExamRows]
    <3>1. [r.row EXCEPT !.status = r.ask] \in ExamRows
      BY <2>2 DEF ExamRows
    <3> QED
      BY <1>1, <1>5, <3>1 DEF SaveChangeOfExam
  <2>4. UNCHANGED <<bytes, unsynced>> /\ over' \subseteq Exams
    BY <1>1, <1>5, <2>2 DEF SaveChangeOfExam
  <2>5. EndFits(s)
    BY <1>1, <2>1, <2>3, <2>4 DEF EndFits
  <2> QED
    BY <1>2, <2>5, AnswerKeeps
<1>6. CASE AnswerResult(s)
  <2>1. r.stage = "removing" /\ UNCHANGED <<exam, bytes, unsynced, over>>
    BY <1>6 DEF AnswerResult, Doing
  <2>2. EndFits(s)
    BY <1>1, <2>1 DEF EndFits
  <2> QED
    BY <1>2, <2>2, AnswerKeeps
<1> QED
  BY <1>3, <1>4, <1>5, <1>6

\* A request that handles files goes on, leaving those of pieces of work and their bytes.
LEMMA FilesKeep ==
  ASSUME SchoolworkInv, NEW s \in Servers, serving[s].op \notin EditOps, serving[s].stage # "saved",
         NEW new \in Requests, serving' = [serving EXCEPT ![s] = new], new.op = serving[s].op, new.of = serving[s].of,
         Shaped(new),
         \A f \in new.stored \cup new.removes : f.of = new.of /\ f.kind = KindOf(new),
         new.op \in HandOps => new.stored \subseteq bytes',
         UNCHANGED <<class, work, unsynced, asks, asksLeft>>, exam' \in [Exams -> ExamRows], over' \subseteq Exams,
         files' \subseteq FileRows, bytes' \subseteq FileRows,
         \A f \in FileRows : f.of \in Pieces => (f \in files' <=> f \in files) /\ (f \in bytes => f \in bytes')
  PROVE  SchoolworkInv'
<1>1. serving'[s] = new /\ \A t \in Servers \ {s} : serving'[t] = serving[t]
  BY DEF SchoolworkInv, RequestsAgree
<1>2. SchoolworkTyped'
  <2>1. \A t \in Servers : serving'[t].number \in Nat /\ serving'[t].stored \subseteq FileRows /\ serving'[t].removes \subseteq FileRows
    BY <1>1 DEF SchoolworkInv, SchoolworkTyped, Requests
  <2> QED
    BY <2>1 DEF SchoolworkInv, SchoolworkTyped
<1>3. RequestsAgree'
  <2>1. ASSUME NEW t \in Servers \ {s}, serving[t].op \in HandOps
        PROVE  /\ serving[t].stored \subseteq bytes'
               /\ new.op \in HandOps => serving[t].of # new.of
    <3>1. serving[t].of \in Pieces /\ serving[t].stored \subseteq bytes \cap FileRows
          /\ \A f \in serving[t].stored : f.of = serving[t].of
      BY <2>1 DEF SchoolworkInv, RequestsAgree, HandlesOwn, Shaped, HandOps, Pieces, Requests
    <3>2. new.op \in HandOps => serving[t].of # new.of
      BY <2>1 DEF SchoolworkInv, RequestsAgree
    <3> QED
      BY <3>1, <3>2
  <2>2. Unhanded(serving[s])
    BY DEF SchoolworkInv, RequestsAgree
  <2>3. /\ new.op = "submit" => work'[new.of].status = "ASSIGNED"
        /\ new.op = "set_extra" => work'[new.of].status = "ABSENT"
    BY <2>2 DEF Unhanded
  <2> QED
    BY <2>1, <2>3, AgreeKeeps DEF SchoolworkInv
<1>4. SubmissionWhole' /\ PaperWhenSet'
  <2>1. files \subseteq FileRows
    BY DEF SchoolworkInv, SchoolworkTyped
  <2>2. \A p \in Pieces : FilesOf(p, "answer")' = FilesOf(p, "answer") /\ FilesOf(p, "question")' = FilesOf(p, "question")
    BY <2>1 DEF FilesOf
  <2>3. \A f \in files' : f.of \in Pieces => f \in bytes'
    BY <2>1 DEF SchoolworkInv, SubmissionWhole
  <2>4. PaperWhenSet'
    BY <2>2 DEF SchoolworkInv, PaperWhenSet
  <2>5. ASSUME NEW p \in Pieces
        PROVE  IF Handed(p)'
                 THEN \E f \in files' : FilesOf(p, "answer")' = {[of |-> p, kind |-> "answer", batch |-> f.batch, part |-> n] : n \in Parts}
                 ELSE FilesOf(p, "answer")' = {}
    <3>1. Handed(p)' <=> Handed(p)
      BY DEF Handed
    <3>2. CASE ~ Handed(p)
      BY <2>2, <3>1, <3>2 DEF SchoolworkInv, SubmissionWhole
    <3>3. CASE Handed(p)
      <4>1. PICK f \in files : FilesOf(p, "answer") = {[of |-> p, kind |-> "answer", batch |-> f.batch, part |-> n] : n \in Parts}
        BY <3>3 DEF SchoolworkInv, SubmissionWhole
      <4>2. PICK g \in FilesOf(p, "answer") : g.batch = f.batch
        <5>1. 1 \in Parts
          BY SchoolworkAssumption DEF Parts
        <5> DEFINE g == [of |-> p, kind |-> "answer", batch |-> f.batch, part |-> 1]
        <5>2. g \in FilesOf(p, "answer")
          BY <4>1, <5>1
        <5> QED
          BY <5>2
      <4>3. g \in files'
        BY <2>2 DEF FilesOf
      <4> QED
        BY <2>2, <3>1, <3>3, <4>1, <4>2, <4>3
    <3> QED
      BY <3>2, <3>3
  <2> QED
    BY <2>3, <2>4, <2>5 DEF SubmissionWhole
<1>5. \A c \in Classes : Cared(c) => Cared(c)'
  BY <1>1, CaredKeeps
<1>6. HomeworkToCome'
  <2>1. \A t \in Servers \ {s} : serving[t].op \in EditOps => serving[t].of \in Classes
    BY DEF SchoolworkInv, RequestsAgree, Shaped
  <2> QED
    BY <1>1, <1>5, <2>1 DEF SchoolworkInv, HomeworkToCome
<1> QED
  BY <1>2, <1>3, <1>4, <1>6 DEF SchoolworkInv

\* Storing adds bytes, of a request that is to have them.
LEMMA StoreKeeps ==
  ASSUME SchoolworkInv, NEW s \in Servers, StoreFile(s)
  PROVE  SchoolworkInv'
<1> DEFINE r == serving[s]
<1>1. PICK f \in Upload(r) : bytes' = bytes \cup {f} /\ serving' = [serving EXCEPT ![s].stored = @ \cup {f}]
  BY DEF StoreFile
<1> DEFINE new == [r EXCEPT !.stored = @ \cup {f}]
<1>2. r \in Requests /\ Shaped(r) /\ HandlesOwn(r) /\ r.stage = "storing" /\ r.stores
  BY DEF StoreFile, SchoolworkInv, RequestsAgree
<1>3. r.op # Nothing
  BY <1>2 DEF Shaped, Waiting
<1>4. r.of \in Pieces \cup Exams
  BY <1>2, <1>3 DEF Shaped, EditOps, HandOps, Requests, SchoolworkOps, Pieces
<1>5. f \in FileRows /\ f.of = r.of /\ f.kind = KindOf(r)
  BY <1>2, <1>4 DEF Upload, FileRows, KindOf, Requests
<1>6. new \in Requests /\ serving' = [serving EXCEPT ![s] = new]
  BY <1>1, <1>2, <1>5 DEF Requests, SchoolworkInv, RequestsAgree
<1>7. /\ new.op = r.op /\ new.of = r.of /\ new.row = r.row /\ new.ask = r.ask /\ new.stage = r.stage /\ new.stores = r.stores
      /\ new.stored = r.stored \cup {f} /\ new.removes = r.removes
  BY <1>2 DEF Requests
<1> HIDE DEF new
<1>8. Shaped(new)
  BY <1>2, <1>3, <1>7 DEF Shaped
<1>9. \A g \in new.stored \cup new.removes : g.of = new.of /\ g.kind = KindOf(new)
  BY <1>2, <1>5, <1>7 DEF HandlesOwn, KindOf
<1>10. new.op \in HandOps => new.stored \subseteq bytes'
  BY <1>1, <1>2, <1>7 DEF HandlesOwn
<1>11. r.op \notin EditOps /\ r.stage # "saved"
  BY <1>2 DEF Shaped
<1>12. /\ UNCHANGED <<class, work, unsynced, asks, asksLeft>> /\ exam' \in [Exams -> ExamRows] /\ over' \subseteq Exams
       /\ files' \subseteq FileRows /\ bytes' \subseteq FileRows
       /\ files' = files
  BY <1>1, <1>5 DEF StoreFile, SchoolworkInv, SchoolworkTyped
<1>13. \A g \in FileRows : g.of \in Pieces => (g \in files' <=> g \in files) /\ (g \in bytes => g \in bytes')
  BY <1>1, <1>12
<1> QED
  BY <1>6, <1>7, <1>8, <1>9, <1>10, <1>11, <1>12, <1>13, FilesKeep

\* A chapter exam's result and the papers removed with it touch no piece of work.
LEMMA RecordKeeps ==
  ASSUME SchoolworkInv, NEW s \in Servers, serving[s].op = "record_result",
         NEW stage \in {"removing", "removed"}, NEW stored \in SUBSET (serving[s].stored \cup serving[s].removes),
         NEW removes \in SUBSET serving[s].removes,
         serving' = [serving EXCEPT ![s] = [serving[s] EXCEPT !.stage = stage, !.stored = stored, !.removes = removes]],
         UNCHANGED <<class, work, unsynced, asks, asksLeft>>, exam' \in [Exams -> ExamRows], over' \subseteq Exams,
         files' \in {files, files \cup serving[s].stored, files \ serving[s].stored},
         bytes \ serving[s].removes \subseteq bytes', bytes' \subseteq bytes
  PROVE  SchoolworkInv'
<1> DEFINE r == serving[s]
           new == [r EXCEPT !.stage = stage, !.stored = stored, !.removes = removes]
<1>1. /\ r \in Requests /\ Shaped(r) /\ HandlesOwn(r) /\ r.of \in Exams
      /\ \A f \in r.stored \cup r.removes : f.of \notin Pieces
  <2>1. r \in Requests /\ Shaped(r) /\ HandlesOwn(r)
    BY DEF SchoolworkInv, RequestsAgree
  <2>2. r.of \in Exams
    BY <2>1 DEF Shaped
  <2> QED
    BY <2>1, <2>2, SchoolworkAssumption DEF HandlesOwn
<1>3. new \in Requests
  BY <1>1 DEF Requests
<1>4. /\ new.op = r.op /\ new.of = r.of /\ new.number = r.number /\ new.stage = stage
      /\ new.stored = stored /\ new.removes = removes
  BY <1>1 DEF Requests
<1>5. serving' = [serving EXCEPT ![s] = new]
  OBVIOUS
<1> HIDE DEF new
<1>6. Shaped(new)
  BY <1>1, <1>4, SchoolworkAssumption DEF Shaped, EditOps, HandOps, SchoolworkOps
<1>7. \A f \in new.stored \cup new.removes : f.of = new.of /\ f.kind = KindOf(new)
  BY <1>1, <1>4 DEF HandlesOwn, KindOf
<1>8. r.op \notin EditOps /\ r.stage # "saved" /\ new.op \notin HandOps
  BY <1>1, <1>4 DEF Shaped, EditOps, HandOps
<1>10. files \subseteq FileRows /\ bytes \subseteq FileRows /\ r.stored \subseteq FileRows
  BY <1>1 DEF SchoolworkInv, SchoolworkTyped, Requests
<1>11. files' \subseteq FileRows /\ bytes' \subseteq FileRows
  BY <1>10
<1>12. \A f \in FileRows : f.of \in Pieces => (f \in files' <=> f \in files) /\ (f \in bytes => f \in bytes')
  BY <1>1
<1> QED
  BY <1>3, <1>4, <1>5, <1>6, <1>7, <1>8, <1>11, <1>12, FilesKeep

LEMMA ResultKeeps ==
  ASSUME SchoolworkInv, NEW s \in Servers, SaveResult(s) \/ RemoveBytes(s) \/ RemoveRow(s)
  PROVE  SchoolworkInv'
<1> DEFINE r == serving[s]
<1>1. serving \in [Servers -> Requests] /\ r \in Requests /\ Shaped(r) /\ r.op = "record_result"
  BY DEF SchoolworkInv, RequestsAgree, SaveResult, RemoveBytes, RemoveRow, Doing
<1>2. r.of \in Exams
  BY <1>1 DEF Shaped
<1>3. exam \in [Exams -> ExamRows] /\ over \subseteq Exams
  BY DEF SchoolworkInv, SchoolworkTyped
<1>4. CASE SaveResult(s)
  <2>1. serving' = [serving EXCEPT ![s] = [r EXCEPT !.stage = "removing", !.stored = {}, !.removes = r.removes]]
    BY <1>1, <1>4 DEF SaveResult, Requests
  <2>2. exam' \in [Exams -> ExamRows] /\ over' \subseteq Exams
    <3>1. [status |-> "ATTENDED", score |-> r.number] \in ExamRows
      BY <1>1 DEF ExamRows, ClassStatuses, Requests
    <3> QED
      BY <1>2, <1>3, <1>4, <3>1 DEF SaveResult
  <2>3. UNCHANGED <<class, work, unsynced, asks, asksLeft>> /\ files' = files \cup r.stored /\ bytes' = bytes
    BY <1>4 DEF SaveResult
  <2>4. bytes \ r.removes \subseteq bytes' /\ bytes' \subseteq bytes /\ {} \in SUBSET (r.stored \cup r.removes) /\ r.removes \in SUBSET r.removes
    BY <2>3
  <2> QED
    BY <1>1, <2>1, <2>2, <2>3, <2>4, RecordKeeps
<1>5. CASE RemoveBytes(s)
  <2>1. PICK f \in r.removes :
           /\ bytes' = bytes \ {f}
           /\ serving' = [serving EXCEPT ![s].stage = "removed", ![s].stored = {f}, ![s].removes = @ \ {f}]
    BY <1>5 DEF RemoveBytes
  <2>2. serving' = [serving EXCEPT ![s] = [r EXCEPT !.stage = "removed", !.stored = {f}, !.removes = r.removes \ {f}]]
    BY <1>1, <2>1 DEF Requests
  <2>3. /\ UNCHANGED <<class, work, unsynced, asks, asksLeft>> /\ files' = files
        /\ exam' \in [Exams -> ExamRows] /\ over' \subseteq Exams
    BY <1>3, <1>5 DEF RemoveBytes
  <2>4. /\ bytes \ r.removes \subseteq bytes' /\ bytes' \subseteq bytes
        /\ {f} \in SUBSET (r.stored \cup r.removes) /\ r.removes \ {f} \in SUBSET r.removes
    BY <2>1
  <2> QED
    BY <1>1, <2>2, <2>3, <2>4, RecordKeeps
<1>6. CASE RemoveRow(s)
  <2>1. serving' = [serving EXCEPT ![s] = [r EXCEPT !.stage = "removing", !.stored = {}, !.removes = r.removes]]
    BY <1>1, <1>6 DEF RemoveRow, Requests
  <2>2. /\ UNCHANGED <<class, work, unsynced, asks, asksLeft>> /\ files' = files \ r.stored /\ bytes' = bytes
        /\ exam' \in [Exams -> ExamRows] /\ over' \subseteq Exams
    BY <1>3, <1>6 DEF RemoveRow
  <2>3. bytes \ r.removes \subseteq bytes' /\ bytes' \subseteq bytes /\ {} \in SUBSET (r.stored \cup r.removes) /\ r.removes \in SUBSET r.removes
    BY <2>2
  <2> QED
    BY <1>1, <2>1, <2>2, <2>3, RecordKeeps
<1> QED
  BY <1>4, <1>5, <1>6

LEMMA ScheduleKeeps ==
  ASSUME SchoolworkInv, NEW s \in Servers, ScheduleExam(s)
  PROVE  SchoolworkInv'
<1>1. UNCHANGED <<class, work, files, bytes, serving, unsynced, over, asks>>
  BY DEF ScheduleExam
<1>2. exam' \in [Exams -> ExamRows] /\ asksLeft' \in Nat
  BY DEF ScheduleExam, SchoolworkInv, SchoolworkTyped, ExamRows, ClassStatuses
<1>3. SchoolworkTyped'
  BY <1>1, <1>2 DEF SchoolworkInv, SchoolworkTyped
<1>4. RequestsAgree' /\ HomeworkToCome'
  BY SMTT(30), <1>1 DEF SchoolworkInv, RequestsAgree, HomeworkToCome, Cared, HandlesOwn, Unhanded, Syncs, InMemory
<1>5. SubmissionWhole' /\ PaperWhenSet'
  BY <1>1 DEF SchoolworkInv, SubmissionWhole, PaperWhenSet, Handed, FilesOf
<1> QED
  BY <1>3, <1>4, <1>5 DEF SchoolworkInv

(***************************************************************************)
(* A piece of work is handed in or scored                                  *)
(***************************************************************************)
\* Where a piece that is there moves on, the requests still agree, and homework still comes.
LEMMA MoveKeeps ==
  ASSUME SchoolworkInv, NEW s \in Servers, serving' = [serving EXCEPT ![s] = Waiting], serving[s].stage # "saved",
         UNCHANGED <<class, exam, bytes, unsynced, over, asks, asksLeft>>,
         files' \subseteq FileRows,
         NEW p \in Pieces, NEW new \in PieceRows, work' = [work EXCEPT ![p] = new], new.status # "ABSENT",
         \A t \in Servers \ {s} : serving[t].op \in HandOps => serving[t].of # p
  PROVE  SchoolworkTyped' /\ RequestsAgree' /\ HomeworkToCome'
<1>1. serving'[s] = Waiting /\ \A t \in Servers \ {s} : serving'[t] = serving[t]
  BY DEF SchoolworkInv, RequestsAgree
<1>2. work' \in [Pieces -> PieceRows] /\ \A q \in Pieces : work'[q] = IF q = p THEN new ELSE work[q]
  BY DEF SchoolworkInv, SchoolworkTyped
<1>3. SchoolworkTyped'
  <2>1. \A t \in Servers : serving'[t].number \in Nat /\ serving'[t].stored \subseteq FileRows /\ serving'[t].removes \subseteq FileRows
    BY <1>1, WaitingFits DEF SchoolworkInv, SchoolworkTyped
  <2> QED
    BY <1>2, <2>1 DEF SchoolworkInv, SchoolworkTyped
<1>4. RequestsAgree'
  <2>1. ASSUME NEW t \in Servers \ {s}, serving[t].op \in HandOps
        PROVE  /\ serving[t].stored \subseteq bytes'
               /\ work'[serving[t].of].status = work[serving[t].of].status
    BY <1>2, <2>1 DEF SchoolworkInv, RequestsAgree, HandlesOwn, Shaped, HandOps, Pieces
  <2>2. Waiting \in Requests /\ Shaped(Waiting) /\ Waiting.stored = {} /\ Waiting.removes = {} /\ Waiting.op \notin HandOps
        /\ Waiting.op # "submit" /\ Waiting.op # "set_extra"
    BY WaitingFits
  <2> QED
    BY <2>1, <2>2, AgreeKeeps DEF SchoolworkInv
<1>5. \A c \in Classes : Cared(c) => Cared(c)'
  BY <1>1, <1>2, CaredKeeps DEF Pieces
<1>6. HomeworkToCome'
  <2>1. \A t \in Servers \ {s} : serving[t].op \in EditOps => serving[t].of \in Classes
    BY DEF SchoolworkInv, RequestsAgree, Shaped
  <2>2. Waiting.op \notin EditOps
    BY WaitingFits
  <2> QED
    BY <1>1, <1>5, <2>1, <2>2 DEF SchoolworkInv, HomeworkToCome
<1> QED
  BY <1>3, <1>4, <1>6

\* What a request that hands something in commits.
LEMMA CommitFacts ==
  ASSUME SchoolworkInv, NEW s \in Servers, serving[s].op \in HandOps, Stored(serving[s])
  PROVE  /\ serving[s].of \in Pieces /\ serving[s].stage = "storing" /\ serving[s].number \in Nat
         /\ serving[s].stored = Upload(serving[s]) /\ Upload(serving[s]) \subseteq FileRows \cap bytes
         /\ Unhanded(serving[s]) /\ FilesOf(serving[s].of, KindOf(serving[s])) = {}
         /\ \A t \in Servers \ {s} : serving[t].op \in HandOps => serving[t].of # serving[s].of
<1> DEFINE r == serving[s]
<1>1. r \in Requests /\ Shaped(r) /\ HandlesOwn(r) /\ Unhanded(r)
  BY DEF SchoolworkInv, RequestsAgree
<1>2. r.of \in Pieces /\ r.stage = "storing" /\ r.stores /\ r.number \in Nat
  BY <1>1 DEF Shaped, HandOps, Pieces, Requests
<1>3. r.stored = Upload(r) /\ r.stored \subseteq FileRows \cap bytes
  BY <1>1, <1>2 DEF Stored, HandlesOwn, Requests
<1>4. FilesOf(r.of, KindOf(r)) = {}
  BY <1>1, <1>2 DEF HandOps, Unhanded, KindOf, Handed, SchoolworkInv, SubmissionWhole, PaperWhenSet
<1>5. \A t \in Servers \ {s} : serving[t].op \in HandOps => serving[t].of # r.of
  BY DEF SchoolworkInv, RequestsAgree
<1> QED
  BY <1>1, <1>2, <1>3, <1>4, <1>5

LEMMA CommitKeeps ==
  ASSUME SchoolworkInv, NEW s \in Servers, CommitExtra(s) \/ CommitSubmit(s)
  PROVE  SchoolworkInv'
<1> DEFINE r == serving[s]
           status == IF r.op = "submit" THEN "SUBMITTED" ELSE "ASSIGNED"
           new == [work[r.of] EXCEPT !.status = status]
<1>1. r.op \in HandOps /\ Stored(r)
  BY DEF CommitExtra, CommitSubmit, HandOps
<1>2. /\ r.of \in Pieces /\ r.stage = "storing" /\ r.number \in Nat
      /\ r.stored = Upload(r) /\ Upload(r) \subseteq FileRows \cap bytes
      /\ Unhanded(r) /\ FilesOf(r.of, KindOf(r)) = {}
      /\ \A t \in Servers \ {s} : serving[t].op \in HandOps => serving[t].of # r.of
  BY <1>1, CommitFacts
<1>3. work \in [Pieces -> PieceRows] /\ files \subseteq FileRows
  BY DEF SchoolworkInv, SchoolworkTyped
<1>4. /\ work' = [work EXCEPT ![r.of].status = status] /\ files' = files \cup Upload(r)
      /\ serving' = [serving EXCEPT ![s] = Waiting]
      /\ UNCHANGED <<class, exam, bytes, unsynced, over, asks, asksLeft>>
  BY <1>2 DEF CommitExtra, CommitSubmit, Answers
<1>5. new \in PieceRows /\ new.status = status /\ work' = [work EXCEPT ![r.of] = new]
  BY <1>2, <1>3, <1>4 DEF PieceRows
<1>6. SchoolworkTyped' /\ RequestsAgree' /\ HomeworkToCome'
  <2>1. files' \subseteq FileRows /\ new.status # "ABSENT" /\ r.stage # "saved"
    BY <1>2, <1>3, <1>4, <1>5
  <2>2. new \in PieceRows /\ work' = [work EXCEPT ![r.of] = new]
    BY <1>5
  <2>3. /\ serving' = [serving EXCEPT ![s] = Waiting]
        /\ UNCHANGED <<class, exam, bytes, unsynced, over, asks, asksLeft>>
    BY <1>4
  <2>4. r.of \in Pieces /\ \A t \in Servers \ {s} : serving[t].op \in HandOps => serving[t].of # r.of
    BY <1>2
  <2>5. PICK p \in Pieces : p = r.of
    BY <2>4
  <2>6. PICK row \in PieceRows : row = new
    BY <2>2
  <2>7. work' = [work EXCEPT ![p] = row] /\ row.status # "ABSENT" /\ \A t \in Servers \ {s} : serving[t].op \in HandOps => serving[t].of # p
    BY <2>1, <2>2, <2>4, <2>5, <2>6
  <2> QED
    BY <2>1, <2>3, <2>7, MoveKeeps
<1>7. \A f \in Upload(r) : f.of = r.of /\ f.kind = KindOf(r)
  BY DEF Upload
<1>8. \A q \in Pieces, kind \in {"question", "answer"} :
         q # r.of \/ kind # KindOf(r) => FilesOf(q, kind)' = FilesOf(q, kind)
  BY <1>4, <1>7 DEF FilesOf
<1>9. {f \in files' : f.of = r.of /\ f.kind = KindOf(r)} = Upload(r)
  BY <1>2, <1>4, <1>7 DEF FilesOf
<1>10. \A q \in Pieces : q # r.of => work'[q] = work[q]
  BY <1>2, <1>3, <1>4
<1>11. work'[r.of].status = status
  BY <1>2, <1>3, <1>4, <1>5
<1>12. PaperWhenSet'
  <2>1. ASSUME NEW q \in Pieces, work'[q].status = "ABSENT"
        PROVE  FilesOf(q, "question")' = {}
    BY <1>8, <1>10, <1>11, <2>1 DEF SchoolworkInv, PaperWhenSet
  <2> QED
    BY <2>1 DEF PaperWhenSet
<1>13. SubmissionWhole'
  <2>1. \A f \in files' : f.of \in Pieces => f \in bytes'
    BY <1>2, <1>4 DEF SchoolworkInv, SubmissionWhole
  <2>2. ASSUME NEW q \in Pieces
        PROVE  IF Handed(q)'
                 THEN \E f \in files' : FilesOf(q, "answer")' = {[of |-> q, kind |-> "answer", batch |-> f.batch, part |-> n] : n \in Parts}
                 ELSE FilesOf(q, "answer")' = {}
    <3>1. CASE q = r.of /\ r.op = "submit"
      <4>1. KindOf(r) = "answer" /\ Handed(q)'
        BY <1>11, <3>1 DEF KindOf, Handed
      <4>2. FilesOf(q, "answer")' = {[of |-> q, kind |-> "answer", batch |-> r.number, part |-> n] : n \in Parts}
        BY <1>9, <3>1, <4>1 DEF Upload, FilesOf
      <4> DEFINE f == [of |-> q, kind |-> "answer", batch |-> r.number, part |-> 1]
      <4>3. 1 \in Parts
        BY SchoolworkAssumption DEF Parts
      <4>4. f \in FilesOf(q, "answer")'
        BY <4>2, <4>3
      <4>5. f \in files' /\ f.batch = r.number
        BY <4>4 DEF FilesOf
      <4> QED
        BY <4>1, <4>2, <4>5
    <3>2. CASE ~ (q = r.of /\ r.op = "submit")
      <4>1. FilesOf(q, "answer")' = FilesOf(q, "answer")
        BY <1>8, <3>2 DEF KindOf
      <4>2. Handed(q)' <=> Handed(q)
        BY <1>1, <1>2, <1>10, <1>11, <3>2 DEF Handed, HandOps, Unhanded
      <4>3. files \subseteq files'
        BY <1>4
      <4> QED
        BY <4>1, <4>2, <4>3 DEF SchoolworkInv, SubmissionWhole
    <3> QED
      BY <3>1, <3>2
  <2> QED
    BY <2>1, <2>2 DEF SubmissionWhole
<1> QED
  BY <1>6, <1>12, <1>13 DEF SchoolworkInv

LEMMA ScoreKeeps ==
  ASSUME SchoolworkInv, NEW s \in Servers, Score(s)
  PROVE  SchoolworkInv'
<1> DEFINE r == serving[s]
           new == [status |-> "SCORED", score |-> r.number]
<1>1. /\ r \in Requests /\ Shaped(r) /\ r.op = "score" /\ r.stage = "read"
      /\ serving' = [serving EXCEPT ![s] = Waiting]
      /\ UNCHANGED <<class, exam, files, bytes, unsynced, over, asks, asksLeft>>
  BY DEF Score, Doing, Answers, SchoolworkInv, RequestsAgree
<1>2. r.of \in Pieces /\ r.number \in Nat
  BY <1>1 DEF Shaped, Requests
<1>3. work \in [Pieces -> PieceRows] /\ files \subseteq FileRows /\ exam \in [Exams -> ExamRows]
      /\ over \subseteq Exams /\ unsynced \subseteq Classes
  BY DEF SchoolworkInv, SchoolworkTyped
<1>4. CASE ~ MayScore(r.of)
  <2>1. work' = work
    BY <1>4 DEF Score
  <2>2. EndFits(s)
    BY <1>1, <1>3 DEF EndFits
  <2> QED
    BY <1>1, <2>1, <2>2, AnswerKeeps
<1>5. CASE MayScore(r.of)
  <2>1. work' = [work EXCEPT ![r.of] = new] /\ work[r.of].status = "SUBMITTED"
    BY <1>5 DEF Score, MayScore
  <2>2. new \in PieceRows /\ new.status = "SCORED"
    BY <1>2 DEF PieceRows
  <2>3. ASSUME NEW t \in Servers \ {s}, serving[t].op \in HandOps
        PROVE  serving[t].of # r.of
    BY <2>1, <2>3 DEF SchoolworkInv, RequestsAgree, Unhanded, HandOps
  <2>4. SchoolworkTyped' /\ RequestsAgree' /\ HomeworkToCome'
    <3> HIDE DEF new
    <3>1. files' \subseteq FileRows /\ r.stage # "saved" /\ new.status # "ABSENT"
      BY <1>1, <1>3, <2>2
    <3> QED
      BY <1>1, <1>2, <2>1, <2>2, <2>3, <3>1, MoveKeeps
  <2>5. \A q \in Pieces : (Handed(q)' <=> Handed(q)) /\ (work'[q].status = "ABSENT" <=> work[q].status = "ABSENT")
    BY <1>2, <1>3, <2>1 DEF Handed
  <2>6. SubmissionWhole' /\ PaperWhenSet'
    BY <1>1, <2>5 DEF SchoolworkInv, SubmissionWhole, PaperWhenSet, FilesOf
  <2> QED
    BY <2>4, <2>6 DEF SchoolworkInv
<1> QED
  BY <1>4, <1>5

-----------------------------------------------------------------------------
\* Every step keeps the invariant.
LEMMA WorkStep == SchoolworkInv /\ [NextSchoolwork]_schoolVars => SchoolworkInv'
<1> SUFFICES ASSUME SchoolworkInv, [NextSchoolwork]_schoolVars
             PROVE  SchoolworkInv'
  OBVIOUS
<1>1. CASE UNCHANGED schoolVars
  <2>1. SchoolworkTyped' /\ RequestsAgree'
    BY <1>1 DEF schoolVars, SchoolworkInv, SchoolworkTyped, RequestsAgree, HandlesOwn, Unhanded
  <2>2. SubmissionWhole' /\ PaperWhenSet'
    BY <1>1 DEF schoolVars, SchoolworkInv, SubmissionWhole, PaperWhenSet, Handed, FilesOf
  <2>3. HomeworkToCome'
    BY <1>1 DEF schoolVars, SchoolworkInv, HomeworkToCome, Cared, Syncs, InMemory
  <2> QED
    BY <2>1, <2>2, <2>3 DEF SchoolworkInv
<1>2. ASSUME NEW s \in Servers,
             \/ ReadClass(s) \/ ReadForUpload(s) \/ SetExtra(s) \/ Submit(s)
             \/ ReadForScore(s) \/ ReadForChange(s) \/ ReadForResult(s) \/ ScheduleExam(s)
      PROVE  SchoolworkInv'
  BY <1>2, ReadClassKeeps, HandInKeeps, ReadKeeps, ScheduleKeeps
<1>3. ASSUME NEW s \in Servers, SaveClass(s) \/ SaveUpload(s) \/ SyncHomework(s)
      PROVE  SchoolworkInv'
  BY <1>3, SaveClassKeeps, SaveUploadKeeps, SyncKeeps
<1>4. ASSUME NEW s \in Servers,
             \/ StoreFile(s) \/ FailStoring(s) \/ Stop(s) \/ SaveChangeOfExam(s) \/ AnswerResult(s)
             \/ SaveResult(s) \/ RemoveBytes(s) \/ RemoveRow(s)
      PROVE  SchoolworkInv'
  BY <1>4, StoreKeeps, EndKeeps, ResultKeeps
<1>5. ASSUME NEW s \in Servers, CommitExtra(s) \/ CommitSubmit(s) \/ Score(s)
      PROVE  SchoolworkInv'
  BY <1>5, CommitKeeps, ScoreKeeps
<1> QED
  BY <1>1, <1>2, <1>3, <1>4, <1>5 DEF NextSchoolwork

\* What was handed in, and its score, stay.
LEMMA HandedStays ==
  SchoolworkInv /\ [NextSchoolwork]_schoolVars
     => [\A p \in Pieces : /\ Handed(p) => Handed(p)' /\ FilesOf(p, "answer")' = FilesOf(p, "answer")
                           /\ work[p].status = "SCORED" => work'[p] = work[p]]_schoolVars
<1> SUFFICES ASSUME SchoolworkInv, NextSchoolwork, NEW p \in Pieces
             PROVE  /\ Handed(p) => Handed(p)' /\ FilesOf(p, "answer")' = FilesOf(p, "answer")
                    /\ work[p].status = "SCORED" => work'[p] = work[p]
  OBVIOUS
<1>1. PICK s \in Servers :
        \/ ReadClass(s) \/ ReadForUpload(s) \/ SaveClass(s) \/ SaveUpload(s) \/ SyncHomework(s)
        \/ StoreFile(s) \/ FailStoring(s) \/ Stop(s)
        \/ SetExtra(s) \/ CommitExtra(s) \/ Submit(s) \/ CommitSubmit(s) \/ ReadForScore(s) \/ Score(s)
        \/ ScheduleExam(s) \/ ReadForChange(s) \/ SaveChangeOfExam(s)
        \/ ReadForResult(s) \/ SaveResult(s) \/ RemoveBytes(s) \/ RemoveRow(s) \/ AnswerResult(s)
  BY DEF NextSchoolwork
<1> DEFINE r == serving[s]
<1>2. work \in [Pieces -> PieceRows]
  BY DEF SchoolworkInv, SchoolworkTyped
<1>3. r \in Requests /\ Shaped(r) /\ HandlesOwn(r) /\ Unhanded(r)
  BY DEF SchoolworkInv, RequestsAgree
<1>4. CASE UNCHANGED <<work, files>>
  BY <1>4 DEF Handed, FilesOf
<1>5. CASE SyncHomework(s)
  BY <1>2, <1>5 DEF SyncHomework, Handed, FilesOf, PieceRows
<1>6. CASE CommitExtra(s) \/ CommitSubmit(s)
  <2>1. r.op \in HandOps /\ Stored(r)
    BY <1>6 DEF CommitExtra, CommitSubmit, HandOps
  <2>2. r.of \in Pieces /\ r.stored = Upload(r) /\ Unhanded(r)
    BY <2>1, CommitFacts
  <2>3. ~ Handed(r.of)
    BY <2>1, <2>2 DEF Unhanded, HandOps, Handed
  <2>4. p # r.of => work'[p] = work[p] /\ FilesOf(p, "answer")' = FilesOf(p, "answer")
    BY <1>2, <1>6, <2>2 DEF CommitExtra, CommitSubmit, FilesOf, Upload
  <2> QED
    BY <2>3, <2>4 DEF Handed
<1>7. CASE Score(s)
  BY <1>2, <1>7 DEF Score, MayScore, Handed, FilesOf
<1>8. CASE SaveResult(s) \/ RemoveRow(s)
  <2>1. r.op = "record_result"
    BY <1>8 DEF SaveResult, RemoveRow, Doing
  <2>2. \A f \in r.stored : f.of # p
    BY <1>3, <2>1, SchoolworkAssumption DEF Shaped, HandlesOwn
  <2>3. work' = work /\ FilesOf(p, "answer")' = FilesOf(p, "answer")
    BY <1>8, <2>2 DEF SaveResult, RemoveRow, FilesOf
  <2> QED
    BY <2>3 DEF Handed
<1>9. \/ UNCHANGED <<work, files>> \/ SyncHomework(s) \/ CommitExtra(s) \/ CommitSubmit(s) \/ Score(s)
      \/ SaveResult(s) \/ RemoveRow(s)
  BY <1>1 DEF ReadClass, ReadForUpload, SaveClass, SaveUpload, StoreFile, FailStoring, Stop, SetExtra, Submit, ReadForScore,
              ScheduleExam, ReadForChange, SaveChangeOfExam, ReadForResult, RemoveBytes, AnswerResult
<1> QED
  BY <1>4, <1>5, <1>6, <1>7, <1>8, <1>9

(* Classes, work, exams, files and requests are what the code takes them   *)
(* to be, however they cross, fail and stop.                               *)
THEOREM SchoolworkTypeCorrect == SpecSchoolwork => []SchoolworkTyped
<1>1. SpecSchoolwork => []SchoolworkInv
  BY WorkStarts, WorkStep, PTL DEF SpecSchoolwork
<1>2. SchoolworkInv => SchoolworkTyped
  BY DEF SchoolworkInv
<1> QED
  BY <1>1, <1>2, PTL

(* A piece of work is handed in with every file of one upload, or with     *)
(* none, and its files have their bytes.                                   *)
THEOREM SubmissionsAreWhole == SpecSchoolwork => []SubmissionWhole
<1>1. SpecSchoolwork => []SchoolworkInv
  BY WorkStarts, WorkStep, PTL DEF SpecSchoolwork
<1>2. SchoolworkInv => SubmissionWhole
  BY DEF SchoolworkInv
<1> QED
  BY <1>1, <1>2, PTL

(* What was handed in, and the score it was given, never change.           *)
THEOREM WorkMarkedOnce == SpecSchoolwork => MarkedOnce
<1>1. SpecSchoolwork => []SchoolworkInv
  BY WorkStarts, WorkStep, PTL DEF SpecSchoolwork
<1> QED
  BY <1>1, HandedStays, PTL DEF SpecSchoolwork, MarkedOnce

(* An attended class with homework content has its homework once nobody is *)
(* handling it, unless its upload or sync was overtaken or stopped.        *)
THEOREM HomeworkIsAssigned == SpecSchoolwork => []HomeworkAssigned
<1>1. SpecSchoolwork => []SchoolworkInv
  BY WorkStarts, WorkStep, PTL DEF SpecSchoolwork
<1>2. SchoolworkInv => HomeworkAssigned
  BY DEF SchoolworkInv, HomeworkToCome, Cared, HomeworkAssigned, WithHomework
<1> QED
  BY <1>1, <1>2, PTL
=============================================================================
