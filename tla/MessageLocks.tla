---------------------------- MODULE MessageLocks ----------------------------
(***************************************************************************)
(* The row locks of a lead's parent messages: the planner's changes, the   *)
(* jobs and the senders of src/backend/communications, each a transaction  *)
(* that locks message and task rows one statement, and in it one row, at a *)
(* time.  Communications has each of them as one step; here is what lets   *)
(* it.                                                                     *)
(*                                                                         *)
(* A statement chooses its rows as it begins and locks them in the order   *)
(* of their ids, which are drawn at random; a row another transaction has  *)
(* is waited for, and read as that one left it.                            *)
(***************************************************************************)
EXTENDS Integers, Sequences, FiniteSets, Relation

CONSTANTS
    Writers,          \* what runs transactions: request handlers, senders and jobs
    Messages,         \* Message rows, each with the CommunicationTask of its step
    LeadBookings,     \* the bookings of one lead
    About,            \* [Messages -> LeadBookings]
    Acknowledgements, \* those of the step ACKNOWLEDGEMENT, one a booking; the others are CONFIRMATION_REQUEST
    Demos,            \* the DemoBookings; the others are DiagnosticBookings
    Chain,            \* the bookings made of one by moving it, in order
    Nil,
    MessagesAtStart   \* the rows there may be when it begins, and what may then be run

Unsent == {"WAITING", "PENDING", "CLAIMED", "REFUSED", "UNKNOWN", "UNDELIVERED"}
Cancellable == Unsent \ {"UNKNOWN", "UNDELIVERED"}
ToCheckAgain == {"WAITING", "PENDING"}
Live == {"BOOKED", "CONFIRMED"}
ProviderAnswers == {"TAKEN", "REFUSED", "UNKNOWN"}

\* With the provider, taken, or of unknown outcome
Gone == {"CLAIMED", "UNKNOWN", "TAKEN"}

WriterOps ==
    {"close", "confirm", "refresh", "expire", "owner", "contact", "claim", "record", "recover", "report"}

LeadRows ==
    [message : [Messages -> Unsent \cup {"TAKEN", "CANCELLED"}], answer : [Messages -> ProviderAnswers \cup {"NONE"}],
     step : [Messages -> {"OPEN", "DONE", "SETTLED", "MISSED", "CANCELLED"}],
     standing : [LeadBookings -> Live \cup {"CANCELLED", "MOVED"}], ended : SUBSET LeadBookings,
     ids : Seq(Messages), taskIds : Seq(Messages), ops : SUBSET WriterOps, left : Nat]

ASSUME MessageLocksAssumption ==
    /\ IsFiniteSet(Writers)
    /\ About \in [Messages -> LeadBookings]
    /\ Acknowledgements \subseteq Messages
    /\ \A b \in LeadBookings : \E m \in Acknowledgements : About[m] = b
    /\ \A m, n \in Acknowledgements : About[m] = About[n] => m = n
    /\ Chain \in Seq(LeadBookings) /\ \A i, j \in DOMAIN Chain : Chain[i] = Chain[j] => i = j
    /\ Nil \notin Messages
    /\ MessagesAtStart \subseteq LeadRows

VARIABLES
    message,   \* Message rows: status, PENDING and claimed being CLAIMED, FAILED in its three kinds
    answer,    \* what the provider answers the sender that holds the message's claim
    step,      \* CommunicationTask rows: SETTLED is DONE with ALREADY_ACKNOWLEDGED
    standing,  \* bookings: CONFIRMED is BOOKED with the parent's answer
    ended,     \* the bookings whose scheduled time has come
    ids,       \* the messages in the order of their ids
    taskIds,   \* and in that of their tasks'
    writer,    \* what each transaction is doing
    mayRun,    \* the operations of this instance: chosen at the start, never changed
    runsLeft   \* bound: how many of them it may still begin

lockRows == <<message, answer, step, standing, ended>>
lockOrder == <<ids, taskIds, mayRun>>
messageVars == <<lockRows, lockOrder, writer, runsLeft>>

\* scope: the bookings it is about; result: what becomes of its message, or booking; rows, steps: what its
\* statements chose; later: the bookings whose acknowledgements it still goes on to; need: of each statement
\* under way, the rows still to lock
NoRun == [op |-> "none", stage |-> "none", message |-> Nil, scope |-> {}, result |-> "NONE",
          rows |-> {}, steps |-> {}, later |-> <<>>, need |-> <<>>, held |-> {}]

Ack(b) == CHOOSE m \in Acknowledgements : About[m] = b
Of(bs) == {m \in Messages : About[m] \in bs}

Position(b) == CHOOSE n \in DOMAIN Chain : Chain[n] = b
Earlier(b) == {e \in LeadBookings : \E i, j \in DOMAIN Chain : i < j /\ Chain[i] = e /\ Chain[j] = b}

\* later_bookings: the nearest first
LaterBookings(b) ==
    IF \E n \in DOMAIN Chain : Chain[n] = b THEN SubSeq(Chain, Position(b) + 1, Len(Chain)) ELSE <<>>

\* requirements, as far as these messages wait for any: the booking still to come, by the time it is when it is
\* written, and an earlier acknowledgement known refused
Ready(rows, m) ==
    /\ standing[About[m]] \in Live /\ About[m] \notin ended
    /\ m \in Acknowledgements => \A e \in Earlier(About[m]) : rows[Ack(e)] \notin Gone

\* refresh_message of those of ms not past waiting nor being handed over
Refreshed(rows, ms) ==
    [m \in Messages |->
        IF m \in ms /\ rows[m] \in ToCheckAgain THEN IF Ready(rows, m) THEN "PENDING" ELSE "WAITING" ELSE rows[m]]

\* _no_longer_needed, the window apart
NoLongerNeeded(m) ==
    \/ standing[About[m]] \notin Live
    \/ m \notin Acknowledgements /\ standing[About[m]] = "CONFIRMED"

\* The rows there may be when it begins: what was closed or moved before left nothing to write, and of a
\* chain one acknowledgement at most is gone; every message and its step have their place by id
ASSUME MessagesStartAssumption ==
    \A start \in MessagesAtStart :
        /\ \A m \in Messages :
              \/ start.standing[About[m]] \notin Live
              \/ m \notin Acknowledgements /\ start.standing[About[m]] = "CONFIRMED"
              => start.message[m] \notin {"WAITING", "PENDING", "REFUSED"}
        /\ \A b \in LeadBookings : \A e \in Earlier(b) :
              /\ start.standing[e] \notin Live
              /\ start.message[Ack(e)] \in Gone => start.message[Ack(b)] \notin Gone
        /\ \A m \in Messages : (\E n \in DOMAIN start.ids : start.ids[n] = m)
                             /\ \E n \in DOMAIN start.taskIds : start.taskIds[n] = m

InitMessages ==
    /\ \E start \in MessagesAtStart :
          /\ message = start.message /\ step = start.step /\ answer = start.answer
          /\ standing = start.standing /\ ended = start.ended
          /\ ids = start.ids /\ taskIds = start.taskIds
          /\ mayRun = start.ops /\ runsLeft = start.left
    /\ writer = [w \in Writers |-> NoRun]

-----------------------------------------------------------------------------
(***************************************************************************)
(* Statements and their locks                                              *)
(***************************************************************************)
BookingRow(b) == <<"booking", b>>
MessageRow(m) == <<"message", m>>
TaskRow(m) == <<"task", m>>

\* select_for_update().order_by('pk'): one that chooses nothing is over at once
Locking(rows) == IF rows = {} THEN <<>> ELSE <<rows>>
RowsLocked(ms) == Locking({MessageRow(m) : m \in ms})
TasksLocked(ms) == Locking({TaskRow(m) : m \in ms})

Place(order, m) == CHOOSE n \in DOMAIN order : order[n] = m

\* What a statement has chosen is of one table
First(row, rows) ==
    \A other \in rows :
        /\ row[1] = "message" => Place(ids, row[2]) <= Place(ids, other[2])
        /\ row[1] = "task" => Place(taskIds, row[2]) <= Place(taskIds, other[2])

\* The row it takes next, once it is free
Reaches(x, row) == x.need # <<>> /\ row \in Head(x.need) /\ First(row, Head(x.need))

Unlocked(row, w) == \A other \in Writers \ {w} : row \notin writer[other].held

Runs(w, x) ==
    /\ writer[w] = NoRun
    /\ x.op \in mayRun
    /\ runsLeft > 0 /\ runsLeft' = runsLeft - 1
    /\ writer' = [writer EXCEPT ![w] = x]
    /\ UNCHANGED <<lockRows, lockOrder>>

LockRow(w) ==
    LET x == writer[w]
    IN  /\ x.need # <<>>
        /\ \E row \in Head(x.need) :
              /\ Reaches(x, row) /\ Unlocked(row, w)
              /\ writer' = [writer EXCEPT ![w].need = Locking(Head(@) \ {row}) \o Tail(@), ![w].held = @ \cup {row}]
        /\ UNCHANGED <<lockRows, lockOrder, runsLeft>>

HeldUp(v, w) == v # w /\ \E row \in writer[w].held : Reaches(writer[v], row)
Awaits == [v, w \in Writers |-> HeldUp(v, w)]

Circles(w) == TransitiveClosure(Awaits, Writers)[w, w]

\* PostgreSQL fails one of those that wait in a circle
CircleBroken(w) ==
    /\ Circles(w)
    /\ writer' = [writer EXCEPT ![w] = NoRun]
    /\ UNCHANGED <<lockRows, lockOrder, runsLeft>>

Reached(w, ops, stage) == writer[w].op \in ops /\ writer[w].stage = stage /\ writer[w].need = <<>>

\* Goes on to its next statement, or ends with nothing written
GoesOn(w, x) ==
    /\ writer' = [writer EXCEPT ![w] = x]
    /\ UNCHANGED <<lockRows, lockOrder, runsLeft>>

WritesAll(w, ops) ==
    /\ Reached(w, ops, "writing")
    /\ writer' = [writer EXCEPT ![w] = NoRun]
    /\ UNCHANGED <<lockOrder, ended, runsLeft>>

-----------------------------------------------------------------------------
(***************************************************************************)
(* Changes of a booking, each under its slot's and its own lock, and jobs  *)
(***************************************************************************)
ChangeBooking(w, b, op, to) ==
    Runs(w, [NoRun EXCEPT !.op = op, !.stage = "first", !.scope = {b}, !.result = to, !.need = <<{BookingRow(b)}>>])

\* Mutant of CheckClose: a message being handed over is left to its sender, and not waited for
CheckCloseUnclaimed(w) ==
    LET x == writer[w]
        chosen == {m \in Of(x.scope) : message[m] \in Cancellable \ {"CLAIMED"}}
    IN  /\ Reached(w, {"close"}, "first")
        /\ GoesOn(w, IF \A b \in x.scope : standing[b] \in Live
                     THEN [x EXCEPT !.stage = "messages", !.rows = chosen, !.need = RowsLocked(chosen)]
                     ELSE NoRun)

\* cancel_booking, or the booking a move leaves; _cancel_messages locks those being handed over too
CheckClose(w) ==
    LET x == writer[w]
        chosen == {m \in Of(x.scope) : message[m] \in Cancellable}
    IN  /\ Reached(w, {"close"}, "first")
        /\ GoesOn(w, IF \A b \in x.scope : standing[b] \in Live
                     THEN [x EXCEPT !.stage = "messages", !.rows = chosen, !.need = RowsLocked(chosen)]
                     ELSE NoRun)

\* close_expired as the job: no booking is locked
Expire(w) ==
    LET chosen == {m \in Of(ended) : message[m] \in Cancellable}
    IN  Runs(w, [NoRun EXCEPT !.op = "expire", !.stage = "messages", !.scope = ended,
                              !.rows = chosen, !.need = RowsLocked(chosen)])

ChooseSteps(w) ==
    LET x == writer[w]
        chosen == {m \in Of(x.scope) : step[m] = "OPEN" /\ (x.op = "confirm" => m \notin Acknowledgements)}
    IN  /\ Reached(w, {"close", "expire", "confirm"}, "messages")
        /\ GoesOn(w, [x EXCEPT !.stage = "writing", !.steps = chosen, !.need = TasksLocked(chosen)])

WriteClosed(w) ==
    LET x == writer[w]
    IN  /\ WritesAll(w, {"close", "expire"})
        /\ message' = [m \in Messages |->
              IF m \in x.rows /\ message[m] \in Cancellable \ {"CLAIMED"} THEN "CANCELLED" ELSE message[m]]
        /\ step' = [m \in Messages |->
              IF m \in x.steps /\ step[m] = "OPEN" THEN IF x.op = "expire" THEN "MISSED" ELSE "CANCELLED"
              ELSE step[m]]
        /\ standing' = IF x.op = "close" THEN [b \in LeadBookings |-> IF b \in x.scope THEN x.result ELSE standing[b]]
                       ELSE standing
        /\ UNCHANGED answer

\* Mutant of CheckConfirm: without _lock_unsent each part locks what it writes, the others' messages last
CheckConfirmInTurn(w) ==
    LET x == writer[w]
        unsent == {m \in Of(x.scope) : message[m] \in Unsent}
        asking == unsent \ Acknowledgements
    IN  /\ Reached(w, {"confirm"}, "first")
        /\ GoesOn(w, IF \A b \in x.scope : standing[b] = "BOOKED" /\ b \notin ended
                     THEN [x EXCEPT !.stage = "messages", !.rows = unsent,
                                    !.need = RowsLocked(asking) \o TasksLocked(asking) \o RowsLocked(unsent \ asking)]
                     ELSE NoRun)

\* record_parent_confirmation with parent_confirmed: _lock_unsent takes what is unsent of every kind
CheckConfirm(w) ==
    LET x == writer[w]
        chosen == {m \in Of(x.scope) : message[m] \in Unsent}
    IN  /\ Reached(w, {"confirm"}, "first")
        /\ GoesOn(w, IF \A b \in x.scope : standing[b] = "BOOKED" /\ b \notin ended
                     THEN [x EXCEPT !.stage = "messages", !.rows = chosen, !.need = RowsLocked(chosen)]
                     ELSE NoRun)

WriteConfirm(w) ==
    LET x == writer[w]
        asked == [m \in Messages |->
                    IF m \in Of(x.scope) \ Acknowledgements /\ message[m] \in Cancellable \ {"CLAIMED"}
                    THEN "CANCELLED" ELSE message[m]]
    IN  /\ WritesAll(w, {"confirm"})
        /\ message' = Refreshed(asked, x.rows)
        /\ step' = [m \in Messages |-> IF m \in x.steps /\ step[m] = "OPEN" THEN "DONE" ELSE step[m]]
        /\ standing' = [b \in LeadBookings |-> IF b \in x.scope THEN "CONFIRMED" ELSE standing[b]]
        /\ UNCHANGED answer

\* refresh_messages: a tutor or a link changed
CheckRefresh(w) ==
    LET x == writer[w]
        chosen == {m \in Of(x.scope) : message[m] \in ToCheckAgain \cup {"CLAIMED"}}
    IN  /\ Reached(w, {"refresh"}, "first")
        /\ GoesOn(w, IF \A b \in x.scope : standing[b] \in Live
                     THEN [x EXCEPT !.stage = "writing", !.rows = chosen, !.need = RowsLocked(chosen)]
                     ELSE NoRun)

\* lead_owner_changed and sender_contact_changed: Diagnostics first, then Demos
ChooseDiagnostics(w, op) ==
    LET scope == IF op = "owner" THEN LeadBookings ELSE {b \in LeadBookings \ ended : standing[b] \in Live}
        chosen == {m \in Of(scope \ Demos) : message[m] \in ToCheckAgain \cup {"CLAIMED"}}
    IN  Runs(w, [NoRun EXCEPT !.op = op, !.stage = "diagnostics", !.rows = chosen, !.need = RowsLocked(chosen)])

ChooseDemos(w) ==
    LET x == writer[w]
        scope == IF x.op = "owner" THEN LeadBookings ELSE {b \in LeadBookings \ ended : standing[b] \in Live}
        chosen == {m \in Of(scope \cap Demos) : message[m] \in ToCheckAgain \cup {"CLAIMED"}}
    IN  /\ Reached(w, {"owner", "contact"}, "diagnostics")
        /\ GoesOn(w, [x EXCEPT !.stage = IF x.op = "owner" THEN "demos" ELSE "writing",
                               !.rows = @ \cup chosen, !.need = RowsLocked(chosen)])

\* The open tasks are given to the new owner, which no other transaction here reads
ChooseOpenSteps(w) ==
    /\ Reached(w, {"owner"}, "demos")
    /\ GoesOn(w, [writer[w] EXCEPT !.stage = "writing", !.need = TasksLocked({m \in Messages : step[m] = "OPEN"})])

WriteRefreshed(w) ==
    /\ WritesAll(w, {"refresh", "owner", "contact"})
    /\ message' = Refreshed(message, writer[w].rows)
    /\ UNCHANGED <<answer, step, standing>>

-----------------------------------------------------------------------------
(***************************************************************************)
(* Senders and recovery                                                    *)
(***************************************************************************)
\* With its result decided: an acknowledgement goes on to those of the bookings that replaced its own
Settling(x) ==
    IF x.message \in Acknowledgements
    THEN [x EXCEPT !.stage = "settle", !.later = LaterBookings(About[x.message])]
    ELSE [x EXCEPT !.stage = "writing"]

Claim(w, m) ==
    /\ message[m] = "PENDING"
    /\ Runs(w, [NoRun EXCEPT !.op = "claim", !.stage = "first", !.message = m,
                             !.need = <<{BookingRow(About[m])}, {MessageRow(m)}>>])

\* An invalid number is refused here; one the safety gate holds back is left as it is
CheckClaim(w) ==
    LET x == writer[w]
        m == x.message
        Results == IF Ready(message, m) THEN {"CLAIMED", "REFUSED"} ELSE {"WAITING"}
    IN  /\ Reached(w, {"claim"}, "first")
        /\ \/ /\ message[m] = "PENDING" => ~NoLongerNeeded(m) /\ About[m] \in ended
              /\ GoesOn(w, NoRun)
           \/ /\ message[m] = "PENDING" /\ NoLongerNeeded(m)
              /\ GoesOn(w, Settling([x EXCEPT !.result = "CANCELLED"]))
           \/ /\ message[m] = "PENDING" /\ ~NoLongerNeeded(m) /\ About[m] \notin ended
              /\ \E r \in Results : GoesOn(w, [x EXCEPT !.stage = "writing", !.result = r])

\* _record_result, tried again after a deadlock: the claim's answer stays
Record(w, m) ==
    /\ answer[m] # "NONE"
    /\ \A other \in Writers : writer[other].op = "record" => writer[other].message # m
    /\ Runs(w, [NoRun EXCEPT !.op = "record", !.stage = "first", !.message = m, !.need = <<{MessageRow(m)}>>])

\* The row of the step is locked as it is updated, before any other message
Accepted(x) ==
    [Settling([x EXCEPT !.result = "TAKEN"]) EXCEPT
        !.steps = {x.message}, !.need = IF step[x.message] \in {"OPEN", "MISSED"} THEN <<{TaskRow(x.message)}>> ELSE <<>>]

\* A refusal looks at the booking as it is now, without its lock
RecordResult(w) ==
    LET x == writer[w]
        m == x.message
        Results == IF NoLongerNeeded(m) \/ About[m] \in ended THEN {"CANCELLED"} ELSE {"PENDING", "REFUSED"}
    IN  /\ Reached(w, {"record"}, "first")
        /\ \/ /\ message[m] \in {"CLAIMED", "UNKNOWN"} /\ answer[m] = "TAKEN"
              /\ GoesOn(w, Accepted(x))
           \/ /\ message[m] = "CLAIMED" /\ answer[m] = "UNKNOWN"
              /\ GoesOn(w, Settling([x EXCEPT !.result = "UNKNOWN"]))
           \/ /\ message[m] = "CLAIMED" /\ answer[m] = "REFUSED"
              /\ \E r \in Results : GoesOn(w, Settling([x EXCEPT !.result = r]))
           \/ /\ message[m] # "CLAIMED" /\ ~(message[m] = "UNKNOWN" /\ answer[m] = "TAKEN")
              /\ GoesOn(w, [x EXCEPT !.stage = "writing", !.result = message[m]])

\* Locked rows are skipped
Recover(w, m) ==
    /\ message[m] = "CLAIMED"
    /\ Unlocked(MessageRow(m), w)
    /\ Runs(w, Settling([NoRun EXCEPT !.op = "recover", !.message = m, !.result = "UNKNOWN",
                                      !.held = {MessageRow(m)}]))

\* acknowledgement_settled: the next booking's acknowledgement is chosen if it is waiting, unclaimed
SettleNext(w) ==
    LET x == writer[w]
        a == Ack(Head(x.later))
    IN  /\ Reached(w, {"claim", "record", "recover"}, "settle")
        /\ GoesOn(w, IF x.later = <<>> THEN [x EXCEPT !.stage = "writing"]
                     ELSE IF message[a] \in ToCheckAgain
                     THEN [x EXCEPT !.stage = "settled", !.need = <<{MessageRow(a)}>>]
                     ELSE [x EXCEPT !.later = Tail(@)])

\* and written if it still is, now that it is locked
SettleRow(w) ==
    LET x == writer[w]
        a == Ack(Head(x.later))
        closes == x.result = "TAKEN"
    IN  /\ Reached(w, {"claim", "record", "recover"}, "settled")
        /\ GoesOn(w, IF message[a] \in ToCheckAgain
                     THEN [x EXCEPT !.stage = "settle", !.later = Tail(@), !.rows = @ \cup {a},
                                    !.steps = IF closes THEN @ \cup {a} ELSE @,
                                    !.need = IF closes /\ step[a] = "OPEN" THEN <<{TaskRow(a)}>> ELSE <<>>]
                     ELSE [x EXCEPT !.stage = "settle", !.later = Tail(@)])

WriteResult(w) ==
    LET x == writer[w]
        own == [message EXCEPT ![x.message] = x.result]
    IN  /\ WritesAll(w, {"claim", "record", "recover"})
        /\ message' = IF x.result = "TAKEN" THEN [m \in Messages |-> IF m \in x.rows THEN "CANCELLED" ELSE own[m]]
                      ELSE Refreshed(own, x.rows)
        /\ step' = [m \in Messages |->
              IF m \notin x.steps THEN step[m]
              ELSE IF m = x.message THEN IF step[m] \in {"OPEN", "MISSED"} THEN "DONE" ELSE step[m]
              ELSE IF step[m] = "OPEN" THEN "SETTLED" ELSE step[m]]
        /\ \/ x.result = "CLAIMED" /\ \E a \in ProviderAnswers : answer' = [answer EXCEPT ![x.message] = a]
           \/ x.op = "record" /\ answer' = [answer EXCEPT ![x.message] = "NONE"]
           \/ x.result # "CLAIMED" /\ x.op # "record" /\ UNCHANGED answer
        /\ UNCHANGED standing

-----------------------------------------------------------------------------
(***************************************************************************)
(* Reports of a failed delivery                                            *)
(***************************************************************************)
Report(w, m) ==
    /\ message[m] = "TAKEN"
    /\ Runs(w, [NoRun EXCEPT !.op = "report", !.stage = "first", !.message = m, !.result = "UNDELIVERED",
                             !.need = <<{MessageRow(m)}>>])

CheckReport(w) ==
    LET x == writer[w]
    IN  /\ Reached(w, {"report"}, "first")
        /\ GoesOn(w, IF message[x.message] = "TAKEN" THEN Settling(x) ELSE NoRun)

\* The next booking, if it is booked: its lock, with this message's held
ReleaseNext(w) ==
    LET x == writer[w]
    IN  /\ Reached(w, {"report"}, "settle")
        /\ GoesOn(w, IF x.later = <<>> THEN [x EXCEPT !.stage = "writing"]
                     ELSE IF standing[Head(x.later)] \in Live
                     THEN [x EXCEPT !.stage = "release", !.need = <<{BookingRow(Head(x.later))}>>]
                     ELSE [x EXCEPT !.later = Tail(@)])

\* release_acknowledgement: only for a booking still to come
ReleaseLocked(w) ==
    LET x == writer[w]
        b == Head(x.later)
    IN  /\ Reached(w, {"report"}, "release")
        /\ GoesOn(w, IF standing[b] \in Live /\ b \notin ended
                     THEN [x EXCEPT !.stage = "reopen", !.need = <<{MessageRow(Ack(b))}, {TaskRow(Ack(b))}>>]
                     ELSE [x EXCEPT !.stage = "settle", !.later = Tail(@)])

Reopen(w) ==
    LET x == writer[w]
        a == Ack(Head(x.later))
    IN  /\ Reached(w, {"report"}, "reopen")
        /\ GoesOn(w, [x EXCEPT !.stage = "settle", !.later = Tail(@),
                               !.rows = IF step[a] = "SETTLED" THEN @ \cup {a} ELSE @])

WriteReport(w) ==
    LET x == writer[w]
        waiting == [m \in Messages |->
                      IF m = x.message THEN x.result
                      ELSE IF m \in x.rows /\ message[m] = "CANCELLED" THEN "WAITING" ELSE message[m]]
    IN  /\ WritesAll(w, {"report"})
        /\ message' = Refreshed(waiting, x.rows)
        /\ step' = [m \in Messages |-> IF m \in x.rows THEN "OPEN" ELSE step[m]]
        /\ UNCHANGED <<answer, standing>>

-----------------------------------------------------------------------------
ScheduledTimeComes(b) ==
    /\ "expire" \in mayRun
    /\ b \notin ended
    /\ ended' = ended \cup {b}
    /\ UNCHANGED <<message, answer, step, standing, lockOrder, writer, runsLeft>>

BeginsRun(w) ==
    \/ \E b \in LeadBookings :
          \/ ChangeBooking(w, b, "close", "CANCELLED") \/ ChangeBooking(w, b, "confirm", "CONFIRMED")
          \/ ChangeBooking(w, b, "refresh", "NONE")
    \/ Expire(w) \/ ChooseDiagnostics(w, "owner") \/ ChooseDiagnostics(w, "contact")
    \/ \E m \in Messages : Claim(w, m) \/ Record(w, m) \/ Recover(w, m) \/ Report(w, m)

GoesOnWith(w) ==
    \/ CheckClose(w) \/ ChooseSteps(w) \/ CheckConfirm(w) \/ CheckRefresh(w) \/ ChooseDemos(w) \/ ChooseOpenSteps(w)
    \/ CheckClaim(w) \/ RecordResult(w) \/ SettleNext(w) \/ SettleRow(w)
    \/ CheckReport(w) \/ ReleaseNext(w) \/ ReleaseLocked(w) \/ Reopen(w)

WritesRows(w) ==
    \/ WriteClosed(w) \/ WriteConfirm(w) \/ WriteRefreshed(w) \/ WriteResult(w) \/ WriteReport(w)

NextMessages ==
    \/ \E w \in Writers : BeginsRun(w) \/ LockRow(w) \/ CircleBroken(w) \/ GoesOnWith(w) \/ WritesRows(w)
    \/ \E b \in LeadBookings : ScheduledTimeComes(b)

SpecMessages == InitMessages /\ [][NextMessages]_messageVars

-----------------------------------------------------------------------------
(***************************************************************************)
(* Properties                                                              *)
(***************************************************************************)
(* "A refused message never ends Failed -- retryable -- on a booking that no longer wants it", nor *)
(* waiting or due: however the changes that close its booking and the sender that records the    *)
(* refusal take turns on its row.                                                                *)
RefusedNeverLeft ==
    \A m \in Messages : NoLongerNeeded(m) => message[m] \notin {"WAITING", "PENDING", "REFUSED"}

(* A parent whose booking was moved is not written to twice: while an acknowledgement is with    *)
(* the provider, taken or of unknown outcome, none of a booking that replaced its own is.        *)
AcknowledgedOnce ==
    \A b \in LeadBookings : \A e \in Earlier(b) :
        message[Ack(e)] \in Gone => message[Ack(b)] \notin Gone

(* What Communications shows of whole transactions holds row by row.                             *)
RowByRow == RefusedNeverLeft /\ AcknowledgedOnce

\* Goes on from one acknowledgement to those of later bookings, or takes the Diagnostics' messages first
GoesFurther(x) ==
    \/ x.stage \in {"settled", "release", "reopen"} \/ (x.stage = "settle" /\ x.rows # {})
    \/ x.op \in {"owner", "contact"}

(* Changes, jobs and senders take messages before tasks and each in id order, so that none "ever *)
(* wait on each other in a circle": in every set of transactions that all wait for others of it, *)
(* some have gone further.                                                                       *)
CirclesOnlyBySettling ==
    \A set \in (SUBSET Writers) \ {{}} :
        (\A v \in set : \E w \in set : HeldUp(v, w)) => \E v \in set : GoesFurther(writer[v])
=============================================================================
