---------------------------- MODULE LocksProofs -----------------------------
(***************************************************************************)
(* What TLAPS proves of MessageLocks, for any number of transactions,      *)
(* messages and bookings in a chain, and any order of ids: what            *)
(* Communications shows of whole transactions holds row by row.            *)
(*                                                                         *)
(* The inductive invariant says of every transaction which rows it has     *)
(* locked or has still to lock, and that what it has read of them is still *)
(* so.  A step of another writes only rows that one has locked.            *)
(***************************************************************************)
EXTENDS MessageLocks, SequenceTheorems, WellFoundedInduction, TLAPS

-----------------------------------------------------------------------------
(***************************************************************************)
(* The inductive invariant                                                 *)
(***************************************************************************)
Statuses == Unsent \cup {"TAKEN", "CANCELLED"}
Standings == Live \cup {"CANCELLED", "MOVED"}
LeadLocks == ({"booking"} \X LeadBookings) \cup ({"message", "task"} \X Messages)
WriterStages ==
    {"none", "first", "messages", "diagnostics", "demos", "settle", "settled", "release", "reopen", "writing"}
Senders == {"claim", "record", "recover"}

WriterRuns ==
    [op : WriterOps \cup {"none"}, stage : WriterStages, message : Messages \cup {Nil},
     scope : SUBSET LeadBookings, result : Statuses \cup {"CONFIRMED", "NONE"},
     rows : SUBSET Messages, steps : SUBSET Messages, later : Seq(LeadBookings),
     need : Seq(SUBSET LeadLocks), held : SUBSET LeadLocks]

LeadTyped ==
    /\ message \in [Messages -> Statuses]
    /\ standing \in [LeadBookings -> Standings]
    /\ ended \subseteq LeadBookings

WritersTyped == writer \in [Writers -> WriterRuns]

\* A row is locked by one transaction at a time
RowsExclusive == \A v, w \in Writers : v # w => writer[v].held \cap writer[w].held = {}

Listed(need, row) == \E n \in DOMAIN need : row \in need[n]

\* Has a row locked, or has still to lock it
Wants(x, row) == row \in x.held \/ Listed(x.need, row)

\* A change of a booking has that booking, once it has checked it, as it has what could be cancelled of its
\* messages chosen: all of it, still
ChangeRight(x) ==
    x.op \in {"close", "confirm"} =>
        /\ x.op = "close" => x.result = "CANCELLED"
        /\ \A b \in x.scope :
              /\ Wants(x, BookingRow(b))
              /\ x.stage # "first" =>
                    /\ BookingRow(b) \in x.held
                    /\ standing[b] \in Live /\ (x.op = "confirm" => standing[b] = "BOOKED")
                    /\ \A m \in Of({b}) : message[m] \in Cancellable => m \in x.rows

\* What a sender, or recovery, has found of its message is still so: it is left as it is, or what it becomes
\* follows from what it is; it is claimed only while no acknowledgement before it is gone.
ResultRight(x) ==
    LET m == x.message
    IN  \/ x.result = message[m] \/ x.result = "CANCELLED"
        \/ x.result \in {"WAITING", "PENDING", "REFUSED"} /\ message[m] \in {"PENDING", "CLAIMED"} /\ ~NoLongerNeeded(m)
        \/ x.result \in {"UNKNOWN", "TAKEN"} /\ message[m] \in {"CLAIMED", "UNKNOWN"}
        \/ /\ x.result = "CLAIMED" /\ message[m] = "PENDING" /\ ~NoLongerNeeded(m)
           /\ m \in Acknowledgements => \A e \in Earlier(About[m]) : message[Ack(e)] \notin Gone

OwnRight(x) ==
    x.op \in Senders \cup {"report"} =>
        /\ x.message \in Messages
        /\ Wants(x, MessageRow(x.message))
        /\ x.op = "report" => x.result = "UNDELIVERED"
        /\ x.stage # "first" =>
              /\ MessageRow(x.message) \in x.held
              /\ x.op \in Senders => ResultRight(x)

\* The acknowledgement it goes on to, and the bookings whose own a report has given back
LaterRight(x) ==
    x.op \in Senders \cup {"report"} =>
        /\ x.stage \in {"settled", "release", "reopen"} => x.later # <<>>
        /\ x.stage \in {"settled", "reopen"} => Wants(x, MessageRow(Ack(Head(x.later))))
        /\ x.stage = "release" => Wants(x, BookingRow(Head(x.later)))
        /\ x.stage = "reopen" => BookingRow(Head(x.later)) \in x.held /\ standing[Head(x.later)] \in Live
        /\ x.op = "report" =>
              \A a \in x.rows : a \in Acknowledgements /\ BookingRow(About[a]) \in x.held /\ standing[About[a]] \in Live

WriterRight(x) ==
    /\ \A m \in x.rows : Wants(x, MessageRow(m))
    /\ ChangeRight(x) /\ OwnRight(x) /\ LaterRight(x)

WritersRight == \A w \in Writers : writer[w].op # "none" => WriterRight(writer[w])

\* What another booking has replaced is never live again
MovedForGood == \A b \in LeadBookings : \A e \in Earlier(b) : standing[e] \notin Live

LeadInv == LeadTyped /\ WritersTyped /\ RowsExclusive /\ WritersRight /\ MovedForGood /\ RowByRow

-----------------------------------------------------------------------------
(***************************************************************************)
(* The rows there are to lock                                              *)
(***************************************************************************)
\* A booking has one acknowledgement.
LEMMA AckOf ==
  /\ \A b \in LeadBookings : Ack(b) \in Acknowledgements /\ Ack(b) \in Messages /\ About[Ack(b)] = b
  /\ \A m \in Acknowledgements : Ack(About[m]) = m
  /\ \A m \in Messages : About[m] \in LeadBookings
  /\ \A b \in LeadBookings : Earlier(b) \subseteq LeadBookings
<1>1. \A m \in Messages : About[m] \in LeadBookings
  BY MessageLocksAssumption
<1>2. \A b \in LeadBookings : Ack(b) \in Acknowledgements /\ About[Ack(b)] = b
  BY MessageLocksAssumption DEF Ack
<1> QED
  BY <1>1, <1>2, MessageLocksAssumption DEF Earlier

LEMMA LocksTyped ==
  /\ \A b \in LeadBookings : BookingRow(b) \in LeadLocks
  /\ \A m \in Messages : MessageRow(m) \in LeadLocks /\ TaskRow(m) \in LeadLocks
BY DEF BookingRow, MessageRow, TaskRow, LeadLocks

\* A statement lists what it chose.
LEMMA StatementLists ==
  ASSUME NEW rows \in SUBSET LeadLocks
  PROVE  /\ Locking(rows) \in Seq(SUBSET LeadLocks)
         /\ \A row \in rows : Listed(Locking(rows), row)
<1>1. CASE rows = {}
  BY <1>1 DEF Locking
<1>2. CASE rows # {}
  <2>1. Locking(rows) = <<rows>>
    BY <1>2 DEF Locking
  <2>2. <<rows>> \in Seq(SUBSET LeadLocks) /\ DOMAIN <<rows>> = {1} /\ <<rows>>[1] = rows
    OBVIOUS
  <2> QED
    BY <2>1, <2>2 DEF Listed
<1> QED
  BY <1>1, <1>2

LEMMA MessagesListed ==
  ASSUME NEW ms \in SUBSET Messages
  PROVE  /\ RowsLocked(ms) \in Seq(SUBSET LeadLocks) /\ TasksLocked(ms) \in Seq(SUBSET LeadLocks)
         /\ \A m \in ms : Listed(RowsLocked(ms), MessageRow(m))
<1>1. {MessageRow(m) : m \in ms} \in SUBSET LeadLocks /\ {TaskRow(m) : m \in ms} \in SUBSET LeadLocks
  BY LocksTyped
<1> QED
  BY <1>1, StatementLists DEF RowsLocked, TasksLocked

\* One row, or one and then another.
LEMMA RowListed ==
  ASSUME NEW row \in LeadLocks, NEW other \in LeadLocks
  PROVE  /\ <<{row}>> \in Seq(SUBSET LeadLocks) /\ <<{row}, {other}>> \in Seq(SUBSET LeadLocks)
         /\ Listed(<<{row}>>, row)
         /\ Listed(<<{row}, {other}>>, row) /\ Listed(<<{row}, {other}>>, other)
<1>1. /\ DOMAIN <<{row}>> = {1} /\ <<{row}>>[1] = {row}
      /\ DOMAIN <<{row}, {other}>> = {1, 2}
      /\ <<{row}, {other}>>[1] = {row} /\ <<{row}, {other}>>[2] = {other}
  OBVIOUS
<1>2. <<{row}>> \in Seq(SUBSET LeadLocks) /\ <<{row}, {other}>> \in Seq(SUBSET LeadLocks)
  OBVIOUS
<1> QED
  BY <1>1, <1>2 DEF Listed

\* When no statement is under way, what it wants it has.
LEMMA NothingListed ==
  ASSUME NEW x, NEW row, x.need = <<>>, Wants(x, row)
  PROVE  row \in x.held
BY DEF Wants, Listed

\* The row locked is listed no more, the others are.
LEMMA OthersListed ==
  ASSUME NEW need \in Seq(SUBSET LeadLocks), need # <<>>, NEW row
  PROVE  LET rest == Locking(Head(need) \ {row}) \o Tail(need)
         IN  /\ rest \in Seq(SUBSET LeadLocks)
             /\ \A other : Listed(need, other) => other = row \/ Listed(rest, other)
<1> DEFINE first == Locking(Head(need) \ {row})
           later == Tail(need)
           rest == first \o later
<1>1. /\ Len(later) = Len(need) - 1 /\ later \in Seq(SUBSET LeadLocks) /\ Head(need) = need[1]
      /\ Head(need) \in SUBSET LeadLocks
      /\ \A j \in 1 .. Len(later) : later[j] = need[j + 1]
  BY HeadTailProperties
<1>2. /\ first \in Seq(SUBSET LeadLocks)
      /\ \A other \in Head(need) \ {row} : Listed(first, other)
  BY <1>1, StatementLists
<1> HIDE DEF first, later
<1>3. /\ rest \in Seq(SUBSET LeadLocks) /\ Len(rest) = Len(first) + Len(later)
      /\ \A i \in 1 .. Len(first) + Len(later) : rest[i] = IF i <= Len(first) THEN first[i] ELSE later[i - Len(first)]
  BY <1>1, <1>2, ConcatProperties
<1>4. /\ Len(need) \in Nat /\ DOMAIN need = 1 .. Len(need) /\ Len(first) \in Nat /\ DOMAIN first = 1 .. Len(first)
      /\ Len(later) \in Nat /\ DOMAIN later = 1 .. Len(later) /\ DOMAIN rest = 1 .. Len(first) + Len(later)
  BY <1>1, <1>2, <1>3
<1> HIDE DEF rest
<1>5. ASSUME NEW other, Listed(need, other), other # row
      PROVE  Listed(rest, other)
  <2>1. PICK n \in 1 .. Len(need) : other \in need[n]
    BY <1>4, <1>5 DEF Listed
  <2>2. CASE n = 1
    <3>1. PICK i \in 1 .. Len(first) : other \in first[i]
      BY <1>1, <1>2, <1>4, <1>5, <2>1, <2>2 DEF Listed
    <3>2. i \in 1 .. Len(first) + Len(later) /\ rest[i] = first[i]
      BY <1>3, <1>4, <3>1
    <3> QED
      BY <1>4, <3>1, <3>2 DEF Listed
  <2>3. CASE n # 1
    <3> DEFINE i == Len(first) + (n - 1)
    <3>1. /\ n - 1 \in 1 .. Len(later) /\ (n - 1) + 1 = n
          /\ i \in 1 .. Len(first) + Len(later) /\ ~(i <= Len(first)) /\ i - Len(first) = n - 1
      BY <1>1, <1>4, <2>1, <2>3
    <3>2. rest[i] = later[n - 1] /\ later[n - 1] = need[n]
      BY <1>1, <1>3, <3>1
    <3> QED
      BY <1>4, <2>1, <3>1, <3>2 DEF Listed
  <2> QED
    BY <2>2, <2>3
<1> QED
  BY <1>3, <1>5 DEF rest, first, later

-----------------------------------------------------------------------------
(***************************************************************************)
(* Steps that write no row                                                 *)
(***************************************************************************)
\* While no message and no booking changes, what is right of a transaction stays so.
LEMMA SameRows ==
  ASSUME UNCHANGED <<message, standing>>, NEW x
  PROVE  (WriterRight(x) => WriterRight(x)') /\ (MovedForGood => MovedForGood') /\ (RowByRow => RowByRow')
<1>1. message' = message /\ standing' = standing
  OBVIOUS
<1>2. \A m : NoLongerNeeded(m)' <=> NoLongerNeeded(m)
  BY <1>1 DEF NoLongerNeeded
<1>3. RowByRow => RowByRow'
  BY <1>1, <1>2 DEF RowByRow, RefusedNeverLeft, AcknowledgedOnce
<1>4. MovedForGood => MovedForGood'
  BY <1>1 DEF MovedForGood
<1>5. ChangeRight(x) => ChangeRight(x)'
  BY <1>1 DEF ChangeRight
<1>6. OwnRight(x) => OwnRight(x)'
  BY <1>1, <1>2 DEF OwnRight, ResultRight
<1>7. LaterRight(x) => LaterRight(x)'
  BY <1>1 DEF LaterRight
<1> QED
  BY <1>3, <1>4, <1>5, <1>6, <1>7 DEF WriterRight

\* A step that writes no row keeps the invariant, if what it makes of its transaction is right and has no row
\* of another's.
LEMMA StepKeeps ==
  ASSUME LeadInv, NEW w \in Writers, NEW new \in WriterRuns,
         writer' = [writer EXCEPT ![w] = new], UNCHANGED lockRows,
         \A v \in Writers \ {w} : new.held \cap writer[v].held = {},
         new.op # "none" => WriterRight(new)
  PROVE  LeadInv'
<1>1. \A v \in Writers : writer'[v] = IF v = w THEN new ELSE writer[v]
  BY DEF LeadInv, WritersTyped
<1>2. UNCHANGED <<message, standing, ended>>
  BY DEF lockRows
<1>3. LeadTyped' /\ WritersTyped'
  BY <1>2 DEF LeadInv, LeadTyped, WritersTyped
<1>4. RowsExclusive'
  BY <1>1 DEF LeadInv, RowsExclusive
<1>5. WritersRight'
  <2>1. ASSUME NEW v \in Writers, NEW x, x = writer'[v], x.op # "none"
        PROVE  WriterRight(x)'
    <3>1. WriterRight(x)
      BY <1>1, <2>1 DEF LeadInv, WritersRight
    <3> QED
      BY <1>2, <3>1, SameRows
  <2> QED
    BY <2>1 DEF WritersRight
<1>6. MovedForGood' /\ RowByRow'
  BY <1>2, SameRows DEF LeadInv
<1> QED
  BY <1>3, <1>4, <1>5, <1>6 DEF LeadInv

\* No transaction is typed, and has no row.
LEMMA NoRunTyped == NoRun \in WriterRuns /\ NoRun.held = {} /\ NoRun.op = "none"
BY DEF NoRun, WriterRuns, WriterStages

\* A beginning keeps the invariant, if it is right: it has no row yet.
LEMMA RunsKeeps ==
  ASSUME LeadInv, NEW w \in Writers, NEW new \in WriterRuns, Runs(w, new), new.held = {}, WriterRight(new)
  PROVE  LeadInv'
BY StepKeeps DEF Runs

\* Going on keeps the invariant, if what it goes on with is right.
LEMMA GoesOnKeeps ==
  ASSUME LeadInv, NEW w \in Writers, NEW new \in WriterRuns, GoesOn(w, new), new.held \subseteq writer[w].held,
         new.op # "none" => WriterRight(new)
  PROVE  LeadInv'
<1>1. \A v \in Writers \ {w} : new.held \cap writer[v].held = {}
  BY DEF LeadInv, RowsExclusive
<1> QED
  BY <1>1, StepKeeps DEF GoesOn

LEMMA EndsKeeps ==
  ASSUME LeadInv, NEW w \in Writers, GoesOn(w, NoRun)
  PROVE  LeadInv'
BY GoesOnKeeps, NoRunTyped

LEMMA CircleBrokenKeeps ==
  ASSUME LeadInv, NEW w \in Writers, CircleBroken(w)
  PROVE  LeadInv'
BY StepKeeps, NoRunTyped DEF CircleBroken

\* A row locked is one still had or wanted.
LEMMA LockRowKeeps ==
  ASSUME LeadInv, NEW w \in Writers, LockRow(w)
  PROVE  LeadInv'
<1> DEFINE x == writer[w]
<1>1. PICK row \in Head(x.need) :
         /\ Unlocked(row, w)
         /\ writer' = [writer EXCEPT ![w].need = Locking(Head(@) \ {row}) \o Tail(@), ![w].held = @ \cup {row}]
  BY DEF LockRow
<1> DEFINE rest == Locking(Head(x.need) \ {row}) \o Tail(x.need)
           new == [x EXCEPT !.need = rest, !.held = x.held \cup {row}]
<1>2. x \in WriterRuns /\ x.need \in Seq(SUBSET LeadLocks) /\ x.need # <<>> /\ x.held \in SUBSET LeadLocks
  BY DEF LeadInv, WritersTyped, LockRow, WriterRuns
<1>3. Head(x.need) \in SUBSET LeadLocks
  BY <1>2, HeadTailProperties
<1>4. /\ rest \in Seq(SUBSET LeadLocks)
      /\ \A other : Listed(x.need, other) => other = row \/ Listed(rest, other)
  BY <1>2, OthersListed
<1>5. writer' = [writer EXCEPT ![w] = new] /\ UNCHANGED lockRows
  BY <1>1 DEF LockRow
<1> HIDE DEF rest
<1>6. /\ new \in WriterRuns
      /\ new.op = x.op /\ new.stage = x.stage /\ new.message = x.message /\ new.scope = x.scope
      /\ new.result = x.result /\ new.rows = x.rows /\ new.later = x.later
      /\ new.need = rest /\ new.held = x.held \cup {row}
  BY <1>1, <1>2, <1>3, <1>4 DEF WriterRuns
<1>7. \A v \in Writers \ {w} : new.held \cap writer[v].held = {}
  BY <1>1, <1>6 DEF LeadInv, RowsExclusive, Unlocked
<1>8. ASSUME new.op # "none"
      PROVE  WriterRight(new)
  <2>1. WriterRight(x)
    BY <1>6, <1>8 DEF LeadInv, WritersRight
  <2> HIDE DEF x, new
  <2>2. \A other : (other \in x.held => other \in new.held) /\ (Wants(x, other) => Wants(new, other))
    BY <1>4, <1>6 DEF Wants
  <2>3. ChangeRight(new)
    BY <1>6, <2>1, <2>2 DEF WriterRight, ChangeRight
  <2>4. OwnRight(new)
    BY <1>6, <2>1, <2>2 DEF WriterRight, OwnRight, ResultRight
  <2>5. LaterRight(new)
    BY <1>6, <2>1, <2>2 DEF WriterRight, LaterRight
  <2> QED
    BY <1>6, <2>1, <2>2, <2>3, <2>4, <2>5 DEF WriterRight
<1> QED
  BY <1>5, <1>6, <1>7, <1>8, StepKeeps

LEMMA ScheduledTimeKeeps ==
  ASSUME LeadInv, NEW b \in LeadBookings, ScheduledTimeComes(b)
  PROVE  LeadInv'
<1>1. UNCHANGED <<message, standing, writer>> /\ ended' = ended \cup {b}
  BY DEF ScheduledTimeComes
<1>2. LeadTyped' /\ WritersTyped' /\ RowsExclusive'
  BY <1>1 DEF LeadInv, LeadTyped, WritersTyped, RowsExclusive
<1>3. WritersRight'
  <2>1. ASSUME NEW v \in Writers, NEW x, x = writer[v], x.op # "none"
        PROVE  WriterRight(x)'
    BY <1>1, <2>1, SameRows DEF LeadInv, WritersRight
  <2> QED
    BY <1>1, <2>1 DEF WritersRight
<1> QED
  BY <1>1, <1>2, <1>3, SameRows DEF LeadInv

-----------------------------------------------------------------------------
(***************************************************************************)
(* Changes of bookings, and jobs, before they write                        *)
(***************************************************************************)
LEMMA ChangeBookingKeeps ==
  ASSUME LeadInv, NEW w \in Writers, NEW b \in LeadBookings,
         NEW op \in {"close", "confirm", "refresh"}, NEW to \in {"CANCELLED", "CONFIRMED", "NONE"},
         op = "close" => to = "CANCELLED", ChangeBooking(w, b, op, to)
  PROVE  LeadInv'
<1> DEFINE new == [NoRun EXCEPT !.op = op, !.stage = "first", !.scope = {b}, !.result = to,
                                !.need = <<{BookingRow(b)}>>]
<1>1. <<{BookingRow(b)}>> \in Seq(SUBSET LeadLocks) /\ Listed(<<{BookingRow(b)}>>, BookingRow(b))
  BY LocksTyped, RowListed
<1>2. /\ new \in WriterRuns
      /\ new.op = op /\ new.stage = "first" /\ new.scope = {b} /\ new.result = to
      /\ new.rows = {} /\ new.need = <<{BookingRow(b)}>> /\ new.held = {}
  BY <1>1, NoRunTyped DEF WriterRuns, WriterStages, WriterOps, NoRun, Statuses
<1>3. Runs(w, new)
  BY DEF ChangeBooking
<1> HIDE DEF new
<1>4. WriterRight(new)
  BY <1>1, <1>2 DEF WriterRight, ChangeRight, OwnRight, LaterRight, Wants, Senders
<1> QED
  BY <1>2, <1>3, <1>4, RunsKeeps

\* Of a job, or a change of a lead's owner or a tutor, it matters which messages it locks.
LEMMA OnlyMessages ==
  ASSUME NEW x, x.op \in {"refresh", "owner", "contact", "expire"},
         \A m \in x.rows : Wants(x, MessageRow(m))
  PROVE  WriterRight(x)
BY DEF WriterRight, ChangeRight, OwnRight, LaterRight, Senders

\* And which it has locked when it goes on.
LEMMA HasMessages ==
  ASSUME LeadInv, NEW w \in Writers, writer[w].op # "none", writer[w].need = <<>>
  PROVE  /\ writer[w] \in WriterRuns /\ WriterRight(writer[w])
         /\ \A m \in writer[w].rows : MessageRow(m) \in writer[w].held
<1>1. writer[w] \in WriterRuns /\ WriterRight(writer[w])
  BY DEF LeadInv, WritersTyped, WritersRight
<1>2. \A m \in writer[w].rows : Wants(writer[w], MessageRow(m))
  BY <1>1 DEF WriterRight
<1> QED
  BY <1>1, <1>2, NothingListed

LEMMA ExpireKeeps ==
  ASSUME LeadInv, NEW w \in Writers, Expire(w)
  PROVE  LeadInv'
<1> DEFINE chosen == {m \in Of(ended) : message[m] \in Cancellable}
           new == [NoRun EXCEPT !.op = "expire", !.stage = "messages", !.scope = ended,
                                !.rows = chosen, !.need = RowsLocked(chosen)]
<1>1. chosen \in SUBSET Messages
  BY DEF Of
<1>2. Runs(w, new)
  BY DEF Expire
<1> HIDE DEF chosen
<1>3. RowsLocked(chosen) \in Seq(SUBSET LeadLocks) /\ \A m \in chosen : Listed(RowsLocked(chosen), MessageRow(m))
  BY <1>1, MessagesListed
<1>4. /\ new \in WriterRuns /\ new.op = "expire"
      /\ new.rows = chosen /\ new.need = RowsLocked(chosen) /\ new.held = {}
  BY <1>1, <1>3, NoRunTyped DEF WriterRuns, WriterStages, WriterOps, NoRun, LeadInv, LeadTyped
<1> HIDE DEF new
<1>5. WriterRight(new)
  BY <1>3, <1>4, OnlyMessages DEF Wants
<1> QED
  BY <1>2, <1>4, <1>5, RunsKeeps

LEMMA ChooseDiagnosticsKeeps ==
  ASSUME LeadInv, NEW w \in Writers, NEW op \in {"owner", "contact"}, ChooseDiagnostics(w, op)
  PROVE  LeadInv'
<1> DEFINE scope == IF op = "owner" THEN LeadBookings ELSE {b \in LeadBookings \ ended : standing[b] \in Live}
           chosen == {m \in Of(scope \ Demos) : message[m] \in ToCheckAgain \cup {"CLAIMED"}}
           new == [NoRun EXCEPT !.op = op, !.stage = "diagnostics", !.rows = chosen, !.need = RowsLocked(chosen)]
<1>1. chosen \in SUBSET Messages
  BY DEF Of
<1>2. Runs(w, new)
  BY DEF ChooseDiagnostics
<1> HIDE DEF chosen
<1>3. RowsLocked(chosen) \in Seq(SUBSET LeadLocks) /\ \A m \in chosen : Listed(RowsLocked(chosen), MessageRow(m))
  BY <1>1, MessagesListed
<1>4. /\ new \in WriterRuns /\ new.op = op
      /\ new.rows = chosen /\ new.need = RowsLocked(chosen) /\ new.held = {}
  BY <1>1, <1>3, NoRunTyped DEF WriterRuns, WriterStages, WriterOps, NoRun
<1> HIDE DEF new
<1>5. WriterRight(new)
  BY <1>3, <1>4, OnlyMessages DEF Wants
<1> QED
  BY <1>2, <1>4, <1>5, RunsKeeps

\* A change chooses its booking's messages, and the booking is its own.
LEMMA ChangeChooses ==
  ASSUME LeadInv, NEW w \in Writers, NEW chosen \in SUBSET Messages,
         writer[w].op \in {"close", "confirm"}, writer[w].stage = "first", writer[w].need = <<>>,
         \A b \in writer[w].scope : standing[b] \in Live /\ (writer[w].op = "confirm" => standing[b] = "BOOKED"),
         \A m \in Of(writer[w].scope) : message[m] \in Cancellable => m \in chosen,
         GoesOn(w, [writer[w] EXCEPT !.stage = "messages", !.rows = chosen, !.need = RowsLocked(chosen)])
  PROVE  LeadInv'
<1> DEFINE x == writer[w]
           new == [x EXCEPT !.stage = "messages", !.rows = chosen, !.need = RowsLocked(chosen)]
<1>1. x \in WriterRuns /\ WriterRight(x)
  BY HasMessages
<1>2. RowsLocked(chosen) \in Seq(SUBSET LeadLocks) /\ \A m \in chosen : Listed(RowsLocked(chosen), MessageRow(m))
  BY MessagesListed
<1>3. /\ new \in WriterRuns /\ new.op = x.op /\ new.stage = "messages" /\ new.scope = x.scope
      /\ new.result = x.result
      /\ new.rows = chosen /\ new.need = RowsLocked(chosen) /\ new.held = x.held
  BY <1>1, <1>2 DEF WriterRuns, WriterStages
<1>4. /\ x.op = "close" => x.result = "CANCELLED"
      /\ \A b \in x.scope : BookingRow(b) \in x.held
  BY <1>1, NothingListed DEF WriterRight, ChangeRight
<1>5. \A b \in x.scope : \A m \in Of({b}) : message[m] \in Cancellable => m \in chosen
  BY DEF Of
<1> HIDE DEF new
<1>6. ChangeRight(new)
  BY <1>3, <1>4, <1>5 DEF ChangeRight, Wants
<1>7. WriterRight(new)
  BY <1>2, <1>3, <1>6 DEF WriterRight, OwnRight, LaterRight, Wants, Senders
<1>8. GoesOn(w, new)
  BY DEF new
<1> QED
  BY <1>3, <1>7, <1>8, GoesOnKeeps

LEMMA CheckCloseKeeps ==
  ASSUME LeadInv, NEW w \in Writers, CheckClose(w)
  PROVE  LeadInv'
<1> DEFINE x == writer[w]
           chosen == {m \in Of(x.scope) : message[m] \in Cancellable}
<1>1. chosen \in SUBSET Messages /\ \A m \in Of(x.scope) : message[m] \in Cancellable => m \in chosen
  BY DEF Of
<1>2. /\ x.op = "close" /\ x.stage = "first" /\ x.need = <<>>
      /\ GoesOn(w, IF \A b \in x.scope : standing[b] \in Live
                   THEN [x EXCEPT !.stage = "messages", !.rows = chosen, !.need = RowsLocked(chosen)]
                   ELSE NoRun)
  BY DEF CheckClose, Reached
<1> HIDE DEF chosen
<1>3. CASE \A b \in x.scope : standing[b] \in Live
  BY <1>1, <1>2, <1>3, ChangeChooses
<1>4. CASE ~\A b \in x.scope : standing[b] \in Live
  BY <1>2, <1>4, EndsKeeps
<1> QED
  BY <1>3, <1>4

LEMMA CheckConfirmKeeps ==
  ASSUME LeadInv, NEW w \in Writers, CheckConfirm(w)
  PROVE  LeadInv'
<1> DEFINE x == writer[w]
           chosen == {m \in Of(x.scope) : message[m] \in Unsent}
<1>1. chosen \in SUBSET Messages /\ \A m \in Of(x.scope) : message[m] \in Cancellable => m \in chosen
  BY DEF Of, Cancellable
<1>2. /\ x.op = "confirm" /\ x.stage = "first" /\ x.need = <<>>
      /\ GoesOn(w, IF \A b \in x.scope : standing[b] = "BOOKED" /\ b \notin ended
                   THEN [x EXCEPT !.stage = "messages", !.rows = chosen, !.need = RowsLocked(chosen)]
                   ELSE NoRun)
  BY DEF CheckConfirm, Reached
<1> HIDE DEF chosen
<1>3. CASE \A b \in x.scope : standing[b] = "BOOKED" /\ b \notin ended
  <2>1. \A b \in x.scope : standing[b] \in Live /\ standing[b] = "BOOKED"
    BY <1>3 DEF Live
  <2> QED
    BY <1>1, <1>2, <1>3, <2>1, ChangeChooses
<1>4. CASE ~\A b \in x.scope : standing[b] = "BOOKED" /\ b \notin ended
  BY <1>2, <1>4, EndsKeeps
<1> QED
  BY <1>3, <1>4

\* With its messages locked, it locks the steps.
LEMMA ChooseStepsKeeps ==
  ASSUME LeadInv, NEW w \in Writers, ChooseSteps(w)
  PROVE  LeadInv'
<1> DEFINE x == writer[w]
           chosen == {m \in Of(x.scope) : step[m] = "OPEN" /\ (x.op = "confirm" => m \notin Acknowledgements)}
           new == [x EXCEPT !.stage = "writing", !.steps = chosen, !.need = TasksLocked(chosen)]
<1>1. chosen \in SUBSET Messages
  BY DEF Of
<1>2. /\ x.op \in {"close", "expire", "confirm"} /\ x.stage = "messages" /\ x.need = <<>> /\ GoesOn(w, new)
  BY DEF ChooseSteps, Reached
<1> HIDE DEF chosen
<1>3. x \in WriterRuns /\ WriterRight(x) /\ \A m \in x.rows : MessageRow(m) \in x.held
  BY <1>2, HasMessages
<1>4. TasksLocked(chosen) \in Seq(SUBSET LeadLocks)
  BY <1>1, MessagesListed
<1>5. /\ new \in WriterRuns /\ new.op = x.op /\ new.stage = "writing" /\ new.scope = x.scope
      /\ new.result = x.result /\ new.rows = x.rows /\ new.held = x.held
  BY <1>1, <1>3, <1>4 DEF WriterRuns, WriterStages
<1> HIDE DEF new
<1>6. ChangeRight(new)
  BY <1>2, <1>3, <1>5 DEF WriterRight, ChangeRight, Wants
<1>7. WriterRight(new)
  BY <1>2, <1>3, <1>5, <1>6 DEF WriterRight, OwnRight, LaterRight, Wants, Senders
<1> QED
  BY <1>2, <1>5, <1>7, GoesOnKeeps

LEMMA CheckRefreshKeeps ==
  ASSUME LeadInv, NEW w \in Writers, CheckRefresh(w)
  PROVE  LeadInv'
<1> DEFINE x == writer[w]
           chosen == {m \in Of(x.scope) : message[m] \in ToCheckAgain \cup {"CLAIMED"}}
           new == [x EXCEPT !.stage = "writing", !.rows = chosen, !.need = RowsLocked(chosen)]
<1>1. chosen \in SUBSET Messages
  BY DEF Of
<1>2. /\ x.op = "refresh" /\ x.need = <<>>
      /\ GoesOn(w, IF \A b \in x.scope : standing[b] \in Live THEN new ELSE NoRun)
  BY DEF CheckRefresh, Reached
<1> HIDE DEF chosen
<1>3. x \in WriterRuns
  BY <1>2, HasMessages
<1>4. RowsLocked(chosen) \in Seq(SUBSET LeadLocks) /\ \A m \in chosen : Listed(RowsLocked(chosen), MessageRow(m))
  BY <1>1, MessagesListed
<1>5. /\ new \in WriterRuns /\ new.op = x.op /\ new.rows = chosen /\ new.need = RowsLocked(chosen)
      /\ new.held = x.held
  BY <1>1, <1>3, <1>4 DEF WriterRuns, WriterStages
<1> HIDE DEF new
<1>6. WriterRight(new)
  BY <1>2, <1>4, <1>5, OnlyMessages DEF Wants
<1>7. CASE \A b \in x.scope : standing[b] \in Live
  BY <1>2, <1>5, <1>6, <1>7, GoesOnKeeps
<1>8. CASE ~\A b \in x.scope : standing[b] \in Live
  BY <1>2, <1>8, EndsKeeps
<1> QED
  BY <1>7, <1>8

LEMMA ChooseDemosKeeps ==
  ASSUME LeadInv, NEW w \in Writers, ChooseDemos(w)
  PROVE  LeadInv'
<1> DEFINE x == writer[w]
           scope == IF x.op = "owner" THEN LeadBookings ELSE {b \in LeadBookings \ ended : standing[b] \in Live}
           chosen == {m \in Of(scope \cap Demos) : message[m] \in ToCheckAgain \cup {"CLAIMED"}}
           stage == IF x.op = "owner" THEN "demos" ELSE "writing"
           new == [x EXCEPT !.stage = stage, !.rows = x.rows \cup chosen, !.need = RowsLocked(chosen)]
<1>1. chosen \in SUBSET Messages
  BY DEF Of
<1>2. x.op \in {"owner", "contact"} /\ x.need = <<>> /\ GoesOn(w, new)
  BY DEF ChooseDemos, Reached
<1> HIDE DEF chosen
<1>3. x \in WriterRuns /\ \A m \in x.rows : MessageRow(m) \in x.held
  BY <1>2, HasMessages
<1>4. RowsLocked(chosen) \in Seq(SUBSET LeadLocks) /\ \A m \in chosen : Listed(RowsLocked(chosen), MessageRow(m))
  BY <1>1, MessagesListed
<1>5. stage \in WriterStages
  BY DEF WriterStages
<1> HIDE DEF stage
<1>6. /\ new \in WriterRuns /\ new.op = x.op /\ new.rows = x.rows \cup chosen /\ new.need = RowsLocked(chosen)
      /\ new.held = x.held
  BY <1>1, <1>3, <1>4, <1>5 DEF WriterRuns
<1> HIDE DEF new
<1>7. WriterRight(new)
  BY <1>2, <1>3, <1>4, <1>6, OnlyMessages DEF Wants
<1> QED
  BY <1>2, <1>6, <1>7, GoesOnKeeps

LEMMA ChooseOpenStepsKeeps ==
  ASSUME LeadInv, NEW w \in Writers, ChooseOpenSteps(w)
  PROVE  LeadInv'
<1> DEFINE x == writer[w]
           open == {m \in Messages : step[m] = "OPEN"}
           new == [x EXCEPT !.stage = "writing", !.need = TasksLocked(open)]
<1>1. x.op = "owner" /\ x.need = <<>> /\ GoesOn(w, new)
  BY DEF ChooseOpenSteps, Reached
<1>2. x \in WriterRuns /\ \A m \in x.rows : MessageRow(m) \in x.held
  BY <1>1, HasMessages
<1>3. TasksLocked(open) \in Seq(SUBSET LeadLocks)
  BY MessagesListed
<1> HIDE DEF open
<1>4. new \in WriterRuns /\ new.op = x.op /\ new.rows = x.rows /\ new.held = x.held
  BY <1>2, <1>3 DEF WriterRuns, WriterStages
<1> HIDE DEF new
<1>5. WriterRight(new)
  BY <1>1, <1>2, <1>4, OnlyMessages DEF Wants
<1> QED
  BY <1>1, <1>4, <1>5, GoesOnKeeps

-----------------------------------------------------------------------------
(***************************************************************************)
(* Senders, recovery and reports, before they write                        *)
(***************************************************************************)
LEMMA LaterTyped ==
  ASSUME NEW b \in LeadBookings
  PROVE  LaterBookings(b) \in Seq(LeadBookings)
<1>1. CASE \E n \in DOMAIN Chain : Chain[n] = b
  <2>1. Position(b) \in DOMAIN Chain
    BY <1>1 DEF Position
  <2>2. Chain \in Seq(LeadBookings) /\ Len(Chain) \in Nat /\ DOMAIN Chain = 1 .. Len(Chain)
    BY MessageLocksAssumption
  <2>3. Position(b) + 1 \in 1 .. Len(Chain) + 1 /\ Len(Chain) \in (Position(b) + 1) - 1 .. Len(Chain)
    BY <2>1, <2>2
  <2>4. SubSeq(Chain, Position(b) + 1, Len(Chain)) \in Seq(LeadBookings)
    BY <2>2, <2>3, SubSeqProperties
  <2> QED
    BY <1>1, <2>4 DEF LaterBookings
<1>2. CASE ~\E n \in DOMAIN Chain : Chain[n] = b
  BY <1>2 DEF LaterBookings
<1> QED
  BY <1>1, <1>2

\* Going on to the acknowledgements of later bookings, or to write, changes nothing else.
LEMMA SettlingIs ==
  ASSUME NEW x \in WriterRuns, x.message \in Messages
  PROVE  LET y == Settling(x)
         IN  /\ y \in WriterRuns /\ y.stage \in {"settle", "writing"}
             /\ y.op = x.op /\ y.message = x.message /\ y.scope = x.scope /\ y.result = x.result
             /\ y.rows = x.rows /\ y.need = x.need /\ y.held = x.held
<1>1. LaterBookings(About[x.message]) \in Seq(LeadBookings)
  BY AckOf, LaterTyped
<1> QED
  BY <1>1 DEF Settling, WriterRuns, WriterStages

LEMMA ClaimKeeps ==
  ASSUME LeadInv, NEW w \in Writers, NEW m \in Messages, Claim(w, m)
  PROVE  LeadInv'
<1> DEFINE need == <<{BookingRow(About[m])}, {MessageRow(m)}>>
           new == [NoRun EXCEPT !.op = "claim", !.stage = "first", !.message = m, !.need = need]
<1>1. need \in Seq(SUBSET LeadLocks) /\ Listed(need, MessageRow(m))
  BY AckOf, LocksTyped, RowListed
<1>2. Runs(w, new)
  BY DEF Claim
<1> HIDE DEF need
<1>3. /\ new \in WriterRuns /\ new.op = "claim" /\ new.stage = "first" /\ new.message = m
      /\ new.rows = {} /\ new.need = need /\ new.held = {}
  BY <1>1, NoRunTyped DEF WriterRuns, WriterStages, WriterOps, NoRun
<1> HIDE DEF new
<1>4. WriterRight(new)
  BY <1>1, <1>3 DEF WriterRight, ChangeRight, OwnRight, LaterRight, Wants
<1> QED
  BY <1>2, <1>3, <1>4, RunsKeeps

LEMMA RecordKeeps ==
  ASSUME LeadInv, NEW w \in Writers, NEW m \in Messages, Record(w, m)
  PROVE  LeadInv'
<1> DEFINE need == <<{MessageRow(m)}>>
           new == [NoRun EXCEPT !.op = "record", !.stage = "first", !.message = m, !.need = need]
<1>1. need \in Seq(SUBSET LeadLocks) /\ Listed(need, MessageRow(m))
  BY LocksTyped, RowListed
<1>2. Runs(w, new)
  BY DEF Record
<1> HIDE DEF need
<1>3. /\ new \in WriterRuns /\ new.op = "record" /\ new.stage = "first" /\ new.message = m
      /\ new.rows = {} /\ new.need = need /\ new.held = {}
  BY <1>1, NoRunTyped DEF WriterRuns, WriterStages, WriterOps, NoRun
<1> HIDE DEF new
<1>4. WriterRight(new)
  BY <1>1, <1>3 DEF WriterRight, ChangeRight, OwnRight, LaterRight, Wants
<1> QED
  BY <1>2, <1>3, <1>4, RunsKeeps

LEMMA ReportKeeps ==
  ASSUME LeadInv, NEW w \in Writers, NEW m \in Messages, Report(w, m)
  PROVE  LeadInv'
<1> DEFINE need == <<{MessageRow(m)}>>
           new == [NoRun EXCEPT !.op = "report", !.stage = "first", !.message = m, !.result = "UNDELIVERED",
                                !.need = need]
<1>1. need \in Seq(SUBSET LeadLocks) /\ Listed(need, MessageRow(m))
  BY LocksTyped, RowListed
<1>2. Runs(w, new)
  BY DEF Report
<1> HIDE DEF need
<1>3. /\ new \in WriterRuns /\ new.op = "report" /\ new.stage = "first" /\ new.message = m
      /\ new.result = "UNDELIVERED"
      /\ new.rows = {} /\ new.need = need /\ new.held = {}
  BY <1>1, NoRunTyped DEF WriterRuns, WriterStages, WriterOps, NoRun, Statuses, Unsent
<1> HIDE DEF new
<1>4. WriterRight(new)
  BY <1>1, <1>3 DEF WriterRight, ChangeRight, OwnRight, LaterRight, Wants, Senders
<1> QED
  BY <1>2, <1>3, <1>4, RunsKeeps

\* Recovery takes the row of a message it finds unlocked as it begins.
LEMMA RecoverKeeps ==
  ASSUME LeadInv, NEW w \in Writers, NEW m \in Messages, Recover(w, m)
  PROVE  LeadInv'
<1> DEFINE x == [NoRun EXCEPT !.op = "recover", !.message = m, !.result = "UNKNOWN", !.held = {MessageRow(m)}]
           new == Settling(x)
<1>1. /\ x \in WriterRuns /\ x.op = "recover" /\ x.message = m /\ x.result = "UNKNOWN"
      /\ x.rows = {} /\ x.need = <<>> /\ x.held = {MessageRow(m)}
  BY NoRunTyped, LocksTyped DEF WriterRuns, WriterStages, WriterOps, NoRun, Statuses, Unsent
<1>2. Runs(w, new) /\ message[m] = "CLAIMED" /\ Unlocked(MessageRow(m), w)
  BY DEF Recover
<1> HIDE DEF x
<1>3. /\ new \in WriterRuns /\ new.op = "recover" /\ new.stage \in {"settle", "writing"} /\ new.message = m
      /\ new.result = "UNKNOWN" /\ new.rows = {} /\ new.held = {MessageRow(m)}
  BY <1>1, SettlingIs
<1> HIDE DEF new
<1>4. WriterRight(new)
  BY <1>2, <1>3 DEF WriterRight, ChangeRight, OwnRight, ResultRight, LaterRight, Wants
<1>5. \A v \in Writers \ {w} : new.held \cap writer[v].held = {}
  BY <1>2, <1>3 DEF Unlocked
<1> QED
  BY <1>2, <1>3, <1>4, <1>5, StepKeeps DEF Runs

\* What a sender or a report has when no statement is under way.
LEMMA HasOwn ==
  ASSUME LeadInv, NEW w \in Writers, writer[w].op \in Senders \cup {"report"}, writer[w].need = <<>>
  PROVE  LET x == writer[w]
         IN  /\ x \in WriterRuns /\ WriterRight(x) /\ x.message \in Messages /\ MessageRow(x.message) \in x.held
             /\ \A m \in x.rows : MessageRow(m) \in x.held
<1>1. writer[w].op # "none"
  BY DEF Senders
<1> QED
  BY <1>1, HasMessages, NothingListed DEF WriterRight, OwnRight

\* A sender goes on to write, or to the later bookings, if the result it has found is right.
LEMMA ResultKeeps ==
  ASSUME LeadInv, NEW w \in Writers, writer[w].op \in Senders, writer[w].need = <<>>,
         NEW new \in WriterRuns, GoesOn(w, new),
         new.op = writer[w].op, new.message = writer[w].message, new.rows = writer[w].rows,
         new.held = writer[w].held, new.stage \in {"settle", "writing"}, ResultRight(new)
  PROVE  LeadInv'
<1>1. /\ new.message \in Messages /\ MessageRow(new.message) \in new.held
      /\ \A m \in new.rows : MessageRow(m) \in new.held
  BY HasOwn
<1>2. OwnRight(new)
  BY <1>1 DEF OwnRight, Wants, Senders
<1>3. WriterRight(new)
  BY <1>1, <1>2 DEF WriterRight, ChangeRight, LaterRight, Wants, Senders
<1> QED
  BY <1>3, GoesOnKeeps

LEMMA CheckClaimKeeps ==
  ASSUME LeadInv, NEW w \in Writers, CheckClaim(w)
  PROVE  LeadInv'
<1> DEFINE x == writer[w]
           m == x.message
           Results == IF Ready(message, m) THEN {"CLAIMED", "REFUSED"} ELSE {"WAITING"}
<1>1. x.op = "claim" /\ x.op \in Senders /\ x.need = <<>>
  BY DEF CheckClaim, Reached, Senders
<1>2. x \in WriterRuns /\ m \in Messages
  BY <1>1, HasOwn
<1>3. CASE GoesOn(w, NoRun)
  BY <1>3, EndsKeeps
<1>4. ASSUME NEW y, y = [x EXCEPT !.result = "CANCELLED"], GoesOn(w, Settling(y))
      PROVE  LeadInv'
  <2>1. /\ y \in WriterRuns /\ y.op = x.op /\ y.message = m /\ y.rows = x.rows /\ y.held = x.held
        /\ y.result = "CANCELLED"
    BY <1>2, <1>4 DEF WriterRuns, Statuses
  <2>2. LET new == Settling(y)
        IN  /\ new \in WriterRuns /\ new.stage \in {"settle", "writing"}
            /\ new.op = x.op /\ new.message = m /\ new.rows = x.rows /\ new.held = x.held
            /\ new.result = "CANCELLED"
    BY <1>2, <2>1, SettlingIs
  <2>3. ResultRight(Settling(y))
    BY <2>2 DEF ResultRight
  <2> QED
    BY <1>1, <1>4, <2>2, <2>3, ResultKeeps
<1>5. ASSUME message[m] = "PENDING", ~NoLongerNeeded(m), NEW r \in Results,
             GoesOn(w, [x EXCEPT !.stage = "writing", !.result = r])
      PROVE  LeadInv'
  <2> DEFINE new == [x EXCEPT !.stage = "writing", !.result = r]
  <2>1. /\ r \in {"CLAIMED", "REFUSED", "WAITING"}
        /\ r = "CLAIMED" => Ready(message, m)
    BY <1>5
  <2>2. /\ new \in WriterRuns /\ new.stage = "writing" /\ new.result = r
        /\ new.op = x.op /\ new.message = m /\ new.rows = x.rows /\ new.held = x.held
    BY <1>2, <2>1 DEF WriterRuns, WriterStages, Statuses, Unsent
  <2>3. GoesOn(w, new)
    BY <1>5
  <2> HIDE DEF new
  <2>4. ResultRight(new)
    BY <1>5, <2>1, <2>2 DEF ResultRight, Ready
  <2> QED
    BY <1>1, <2>2, <2>3, <2>4, ResultKeeps
<1> QED
  BY <1>3, <1>4, <1>5 DEF CheckClaim

\* What the provider answered, held against the message as it is now.
LEMMA RecordResultKeeps ==
  ASSUME LeadInv, NEW w \in Writers, RecordResult(w)
  PROVE  LeadInv'
<1> DEFINE x == writer[w]
           m == x.message
           Results == IF NoLongerNeeded(m) \/ About[m] \in ended THEN {"CANCELLED"} ELSE {"PENDING", "REFUSED"}
<1>1. x.op = "record" /\ x.op \in Senders /\ x.need = <<>>
  BY DEF RecordResult, Reached, Senders
<1>2. x \in WriterRuns /\ m \in Messages /\ message[m] \in Statuses
  BY <1>1, HasOwn DEF LeadInv, LeadTyped
<1>3. ASSUME NEW r \in Statuses
      PROVE  LET y == [x EXCEPT !.result = r]
             IN  /\ y \in WriterRuns /\ y.op = x.op /\ y.message = m /\ y.rows = x.rows /\ y.held = x.held
                 /\ y.result = r
  BY <1>2 DEF WriterRuns
<1>4. ASSUME NEW r \in Statuses, ResultRight([x EXCEPT !.result = r]),
             GoesOn(w, Settling([x EXCEPT !.result = r]))
      PROVE  LeadInv'
  <2> DEFINE y == [x EXCEPT !.result = r]
             new == Settling(y)
  <2>1. /\ y \in WriterRuns /\ y.op = x.op /\ y.message = m /\ y.rows = x.rows /\ y.held = x.held
        /\ y.result = r
    BY <1>3
  <2>2. GoesOn(w, new) /\ ResultRight(y)
    BY <1>4
  <2> HIDE DEF y
  <2>3. /\ new \in WriterRuns /\ new.stage \in {"settle", "writing"}
        /\ new.op = x.op /\ new.message = m /\ new.rows = x.rows /\ new.held = x.held /\ new.result = r
    BY <1>2, <2>1, SettlingIs
  <2>4. ResultRight(new)
    BY <2>1, <2>2, <2>3 DEF ResultRight
  <2> QED
    BY <1>1, <2>2, <2>3, <2>4, ResultKeeps
<1>5. CASE /\ message[m] \in {"CLAIMED", "UNKNOWN"} /\ answer[m] = "TAKEN"
           /\ GoesOn(w, Accepted(x))
  <2> DEFINE y == [x EXCEPT !.result = "TAKEN"]
             z == Settling(y)
             need == IF step[m] \in {"OPEN", "MISSED"} THEN <<{TaskRow(m)}>> ELSE <<>>
             new == [z EXCEPT !.steps = {m}, !.need = need]
  <2>1. /\ y \in WriterRuns /\ y.op = x.op /\ y.message = m /\ y.rows = x.rows /\ y.held = x.held
        /\ y.result = "TAKEN"
    BY <1>2 DEF WriterRuns, Statuses
  <2>2. GoesOn(w, new)
    BY <1>5 DEF Accepted
  <2>3. need \in Seq(SUBSET LeadLocks)
    <3>1. <<{TaskRow(m)}>> \in Seq(SUBSET LeadLocks) /\ <<>> \in Seq(SUBSET LeadLocks)
      BY <1>2, LocksTyped, RowListed
    <3> QED
      BY <3>1
  <2> HIDE DEF y, need
  <2>4. /\ z \in WriterRuns /\ z.stage \in {"settle", "writing"}
        /\ z.op = x.op /\ z.message = m /\ z.rows = x.rows /\ z.held = x.held /\ z.result = "TAKEN"
    BY <1>2, <2>1, SettlingIs
  <2> HIDE DEF z
  <2>5. /\ new \in WriterRuns /\ new.stage \in {"settle", "writing"}
        /\ new.op = x.op /\ new.message = m /\ new.rows = x.rows /\ new.held = x.held /\ new.result = "TAKEN"
    BY <1>2, <2>3, <2>4 DEF WriterRuns
  <2> HIDE DEF new
  <2>6. ResultRight(new)
    BY <1>5, <2>5 DEF ResultRight
  <2> QED
    BY <1>1, <2>2, <2>5, <2>6, ResultKeeps
<1>6. CASE /\ message[m] = "CLAIMED" /\ answer[m] = "UNKNOWN"
           /\ GoesOn(w, Settling([x EXCEPT !.result = "UNKNOWN"]))
  <2>1. "UNKNOWN" \in Statuses
    BY DEF Statuses, Unsent
  <2>2. ResultRight([x EXCEPT !.result = "UNKNOWN"])
    BY <1>3, <1>6, <2>1 DEF ResultRight
  <2> QED
    BY <1>4, <1>6, <2>1, <2>2
<1>7. CASE /\ message[m] = "CLAIMED" /\ answer[m] = "REFUSED"
           /\ \E r \in Results : GoesOn(w, Settling([x EXCEPT !.result = r]))
  <2>1. PICK r \in Results : GoesOn(w, Settling([x EXCEPT !.result = r]))
    BY <1>7
  <2>2. r \in Statuses /\ (r = "CANCELLED" \/ (r \in {"PENDING", "REFUSED"} /\ ~NoLongerNeeded(m)))
    BY DEF Statuses, Unsent
  <2>3. ResultRight([x EXCEPT !.result = r])
    BY <1>3, <1>7, <2>2 DEF ResultRight
  <2> QED
    BY <1>4, <2>1, <2>2, <2>3
<1>8. CASE GoesOn(w, [x EXCEPT !.stage = "writing", !.result = message[m]])
  <2> DEFINE new == [x EXCEPT !.stage = "writing", !.result = message[m]]
  <2>1. /\ new \in WriterRuns /\ new.stage = "writing" /\ new.result = message[m]
        /\ new.op = x.op /\ new.message = m /\ new.rows = x.rows /\ new.held = x.held
    BY <1>2 DEF WriterRuns, WriterStages
  <2>2. GoesOn(w, new)
    BY <1>8
  <2> HIDE DEF new
  <2>3. ResultRight(new)
    BY <2>1 DEF ResultRight
  <2> QED
    BY <1>1, <2>1, <2>2, <2>3, ResultKeeps
<1> QED
  BY <1>5, <1>6, <1>7, <1>8 DEF RecordResult

\* The next acknowledgement is chosen, or passed over.
LEMMA SettleNextKeeps ==
  ASSUME LeadInv, NEW w \in Writers, SettleNext(w)
  PROVE  LeadInv'
<1> DEFINE x == writer[w]
           a == Ack(Head(x.later))
<1>1. /\ x.op \in Senders /\ x.stage = "settle" /\ x.need = <<>>
      /\ GoesOn(w, IF x.later = <<>> THEN [x EXCEPT !.stage = "writing"]
                   ELSE IF message[a] \in ToCheckAgain
                   THEN [x EXCEPT !.stage = "settled", !.need = <<{MessageRow(a)}>>]
                   ELSE [x EXCEPT !.later = Tail(x.later)])
  BY DEF SettleNext, Reached, Senders
<1>2. x \in WriterRuns /\ WriterRight(x) /\ x.later \in Seq(LeadBookings)
  BY <1>1, HasOwn DEF WriterRuns
<1>3. ResultRight(x)
  BY <1>1, <1>2 DEF WriterRight, OwnRight
<1>4. CASE x.later = <<>>
  <2> DEFINE new == [x EXCEPT !.stage = "writing"]
  <2>1. /\ new \in WriterRuns /\ new.stage = "writing" /\ new.result = x.result
        /\ new.op = x.op /\ new.message = x.message /\ new.rows = x.rows /\ new.held = x.held
    BY <1>2 DEF WriterRuns, WriterStages
  <2>2. GoesOn(w, new)
    BY <1>1, <1>4
  <2> HIDE DEF new
  <2>3. ResultRight(new)
    BY <1>3, <2>1 DEF ResultRight
  <2> QED
    BY <1>1, <2>1, <2>2, <2>3, ResultKeeps
<1>5. CASE x.later # <<>> /\ message[a] \in ToCheckAgain
  <2> DEFINE new == [x EXCEPT !.stage = "settled", !.need = <<{MessageRow(a)}>>]
  <2>1. MessageRow(a) \in LeadLocks
    BY <1>2, <1>5, HeadTailProperties, AckOf, LocksTyped
  <2>2. <<{MessageRow(a)}>> \in Seq(SUBSET LeadLocks) /\ Listed(<<{MessageRow(a)}>>, MessageRow(a))
    BY <2>1, RowListed
  <2>3. /\ new \in WriterRuns /\ new.stage = "settled" /\ new.result = x.result /\ new.later = x.later
        /\ new.need = <<{MessageRow(a)}>>
        /\ new.op = x.op /\ new.message = x.message /\ new.rows = x.rows /\ new.held = x.held
    BY <1>2, <2>2 DEF WriterRuns, WriterStages
  <2>4. GoesOn(w, new)
    BY <1>1, <1>5
  <2> HIDE DEF new
  <2>5. OwnRight(new)
    BY <1>1, <1>2, <2>3 DEF WriterRight, OwnRight, ResultRight, Wants, Senders
  <2>6. LaterRight(new)
    BY <1>1, <1>5, <2>2, <2>3 DEF LaterRight, Wants, Senders
  <2>7. \A m \in x.rows : MessageRow(m) \in x.held
    BY <1>1, HasOwn
  <2>8. WriterRight(new)
    BY <1>1, <2>3, <2>5, <2>6, <2>7 DEF WriterRight, ChangeRight, Wants, Senders
  <2> QED
    BY <2>3, <2>4, <2>8, GoesOnKeeps
<1>6. CASE x.later # <<>> /\ message[a] \notin ToCheckAgain
  <2> DEFINE new == [x EXCEPT !.later = Tail(x.later)]
  <2>1. Tail(x.later) \in Seq(LeadBookings)
    BY <1>2, <1>6, HeadTailProperties
  <2>2. /\ new \in WriterRuns /\ new.stage = "settle" /\ new.result = x.result
        /\ new.op = x.op /\ new.message = x.message /\ new.rows = x.rows /\ new.held = x.held
    BY <1>1, <1>2, <2>1 DEF WriterRuns
  <2>3. GoesOn(w, new)
    BY <1>1, <1>6
  <2> HIDE DEF new
  <2>4. ResultRight(new)
    BY <1>3, <2>2 DEF ResultRight
  <2> QED
    BY <1>1, <2>2, <2>3, <2>4, ResultKeeps
<1> QED
  BY <1>4, <1>5, <1>6

\* The acknowledgement it goes on to is its own once it is locked.
LEMMA SettleRowKeeps ==
  ASSUME LeadInv, NEW w \in Writers, SettleRow(w)
  PROVE  LeadInv'
<1> DEFINE x == writer[w]
           a == Ack(Head(x.later))
           steps == IF x.result = "TAKEN" THEN x.steps \cup {a} ELSE x.steps
           need == IF x.result = "TAKEN" /\ step[a] = "OPEN" THEN <<{TaskRow(a)}>> ELSE <<>>
           taking == [x EXCEPT !.stage = "settle", !.later = Tail(x.later), !.rows = x.rows \cup {a},
                               !.steps = steps, !.need = need]
           passing == [x EXCEPT !.stage = "settle", !.later = Tail(x.later)]
<1>1. /\ x.op \in Senders /\ x.stage = "settled" /\ x.need = <<>>
      /\ GoesOn(w, taking) \/ GoesOn(w, passing)
  BY DEF SettleRow, Reached, Senders
<1>2. /\ x \in WriterRuns /\ WriterRight(x) /\ x.later \in Seq(LeadBookings) /\ x.message \in Messages
      /\ MessageRow(x.message) \in x.held
      /\ \A m \in x.rows : MessageRow(m) \in x.held
  BY <1>1, HasOwn DEF WriterRuns
<1>3. x.later # <<>> /\ MessageRow(a) \in x.held /\ ResultRight(x)
  BY <1>1, <1>2, NothingListed DEF WriterRight, OwnRight, LaterRight
<1>4. Tail(x.later) \in Seq(LeadBookings) /\ a \in Messages
  BY <1>2, <1>3, HeadTailProperties, AckOf
<1>5. need \in Seq(SUBSET LeadLocks) /\ steps \in SUBSET Messages
  <2>1. <<{TaskRow(a)}>> \in Seq(SUBSET LeadLocks) /\ <<>> \in Seq(SUBSET LeadLocks)
    BY <1>4, LocksTyped, RowListed
  <2>2. x.steps \in SUBSET Messages
    BY <1>2 DEF WriterRuns
  <2> QED
    BY <1>4, <2>1, <2>2
<1> HIDE DEF need, steps
<1>6. /\ taking \in WriterRuns /\ taking.stage = "settle" /\ taking.result = x.result
      /\ taking.op = x.op /\ taking.message = x.message /\ taking.rows = x.rows \cup {a} /\ taking.held = x.held
  BY <1>2, <1>4, <1>5 DEF WriterRuns, WriterStages
<1>7. /\ passing \in WriterRuns /\ passing.stage = "settle" /\ passing.result = x.result
      /\ passing.op = x.op /\ passing.message = x.message /\ passing.rows = x.rows /\ passing.held = x.held
  BY <1>2, <1>4 DEF WriterRuns, WriterStages
<1> HIDE DEF taking, passing
<1>8. OwnRight(taking)
  BY <1>1, <1>2, <1>3, <1>6 DEF OwnRight, ResultRight, Wants, Senders
<1>9. WriterRight(taking)
  BY <1>1, <1>2, <1>3, <1>6, <1>8 DEF WriterRight, ChangeRight, LaterRight, Wants, Senders
<1>10. CASE GoesOn(w, taking)
  BY <1>6, <1>9, <1>10, GoesOnKeeps
<1>11. CASE GoesOn(w, passing)
  <2>1. ResultRight(passing)
    BY <1>3, <1>7 DEF ResultRight
  <2> QED
    BY <1>1, <1>7, <1>11, <2>1, ResultKeeps
<1> QED
  BY <1>1, <1>10, <1>11

\* A report goes on, with what it has locked.
LEMMA ReportGoesOn ==
  ASSUME LeadInv, NEW w \in Writers, writer[w].op = "report", writer[w].need = <<>>,
         NEW new \in WriterRuns, GoesOn(w, new),
         new.op = "report", new.message = writer[w].message, new.result = writer[w].result,
         new.held = writer[w].held,
         \A m \in new.rows \ writer[w].rows :
             /\ m \in Acknowledgements /\ {MessageRow(m), BookingRow(About[m])} \subseteq new.held
             /\ standing[About[m]] \in Live,
         new.stage \in {"release", "reopen"} => new.later # <<>>, new.stage # "settled",
         new.stage = "release" => Wants(new, BookingRow(Head(new.later))),
         new.stage = "reopen" => /\ Wants(new, MessageRow(Ack(Head(new.later))))
                                 /\ BookingRow(Head(new.later)) \in new.held /\ standing[Head(new.later)] \in Live
  PROVE  LeadInv'
<1> DEFINE x == writer[w]
<1>1. /\ WriterRight(x) /\ x.message \in Messages /\ MessageRow(x.message) \in x.held
      /\ \A m \in x.rows : MessageRow(m) \in x.held
  BY HasOwn
<1>2. \A m \in new.rows : MessageRow(m) \in new.held
  BY <1>1
<1>3. OwnRight(new)
  BY <1>1 DEF WriterRight, OwnRight, Wants, Senders
<1>4. LaterRight(new)
  BY <1>1 DEF WriterRight, LaterRight, Senders
<1>5. WriterRight(new)
  BY <1>2, <1>3, <1>4 DEF WriterRight, ChangeRight, Wants
<1> QED
  BY <1>5, GoesOnKeeps

LEMMA CheckReportKeeps ==
  ASSUME LeadInv, NEW w \in Writers, CheckReport(w)
  PROVE  LeadInv'
<1> DEFINE x == writer[w]
           new == Settling(x)
<1>1. x.op = "report" /\ x.need = <<>> /\ (GoesOn(w, new) \/ GoesOn(w, NoRun))
  BY DEF CheckReport, Reached
<1>2. x \in WriterRuns /\ x.message \in Messages
  BY <1>1, HasOwn
<1>3. /\ new \in WriterRuns /\ new.stage \in {"settle", "writing"} /\ new.result = x.result
      /\ new.op = x.op /\ new.message = x.message /\ new.rows = x.rows /\ new.held = x.held
  BY <1>2, SettlingIs
<1> HIDE DEF new
<1>4. CASE GoesOn(w, new)
  BY <1>1, <1>3, <1>4, ReportGoesOn
<1> QED
  BY <1>1, <1>4, EndsKeeps

LEMMA ReleaseNextKeeps ==
  ASSUME LeadInv, NEW w \in Writers, ReleaseNext(w)
  PROVE  LeadInv'
<1> DEFINE x == writer[w]
           b == Head(x.later)
           writing == [x EXCEPT !.stage = "writing"]
           locking == [x EXCEPT !.stage = "release", !.need = <<{BookingRow(b)}>>]
           passing == [x EXCEPT !.later = Tail(x.later)]
<1>1. /\ x.op = "report" /\ x.stage = "settle" /\ x.need = <<>>
      /\ \/ GoesOn(w, writing)
         \/ x.later # <<>> /\ (GoesOn(w, locking) \/ GoesOn(w, passing))
  BY DEF ReleaseNext, Reached
<1>2. x \in WriterRuns /\ x.later \in Seq(LeadBookings)
  BY <1>1, HasOwn DEF WriterRuns, Senders
<1>3. /\ writing \in WriterRuns /\ writing.stage = "writing" /\ writing.result = x.result
      /\ writing.op = x.op /\ writing.message = x.message /\ writing.rows = x.rows /\ writing.held = x.held
  BY <1>2 DEF WriterRuns, WriterStages
<1>4. ASSUME x.later # <<>>
      PROVE  /\ Listed(<<{BookingRow(b)}>>, BookingRow(b))
             /\ locking \in WriterRuns /\ locking.stage = "release" /\ locking.result = x.result
             /\ locking.op = x.op /\ locking.message = x.message /\ locking.rows = x.rows /\ locking.held = x.held
             /\ locking.later = x.later /\ locking.need = <<{BookingRow(b)}>>
             /\ passing \in WriterRuns /\ passing.stage = "settle" /\ passing.result = x.result
             /\ passing.op = x.op /\ passing.message = x.message /\ passing.rows = x.rows /\ passing.held = x.held
  <2>1. b \in LeadBookings /\ Tail(x.later) \in Seq(LeadBookings)
    BY <1>2, <1>4, HeadTailProperties
  <2>2. <<{BookingRow(b)}>> \in Seq(SUBSET LeadLocks) /\ Listed(<<{BookingRow(b)}>>, BookingRow(b))
    BY <2>1, LocksTyped, RowListed
  <2> HIDE DEF b
  <2> QED
    BY <1>1, <1>2, <2>1, <2>2 DEF WriterRuns, WriterStages
<1> HIDE DEF writing, locking, passing
<1>5. CASE GoesOn(w, writing)
  BY <1>1, <1>3, <1>5, ReportGoesOn
<1>6. CASE x.later # <<>> /\ GoesOn(w, locking)
  BY <1>1, <1>4, <1>6, ReportGoesOn DEF Wants
<1>7. CASE x.later # <<>> /\ GoesOn(w, passing)
  BY <1>1, <1>4, <1>7, ReportGoesOn
<1> QED
  BY <1>1, <1>5, <1>6, <1>7

LEMMA ReleaseLockedKeeps ==
  ASSUME LeadInv, NEW w \in Writers, ReleaseLocked(w)
  PROVE  LeadInv'
<1> DEFINE x == writer[w]
           b == Head(x.later)
           need == <<{MessageRow(Ack(b))}, {TaskRow(Ack(b))}>>
           locking == [x EXCEPT !.stage = "reopen", !.need = need]
           passing == [x EXCEPT !.stage = "settle", !.later = Tail(x.later)]
<1>1. /\ x.op = "report" /\ x.stage = "release" /\ x.need = <<>>
      /\ (standing[b] \in Live /\ GoesOn(w, locking)) \/ GoesOn(w, passing)
  BY DEF ReleaseLocked, Reached
<1>2. x \in WriterRuns /\ x.later \in Seq(LeadBookings) /\ WriterRight(x)
  BY <1>1, HasOwn DEF WriterRuns, Senders
<1>3. x.later # <<>> /\ BookingRow(b) \in x.held
  BY <1>1, <1>2, NothingListed DEF WriterRight, LaterRight
<1>4. b \in LeadBookings /\ Tail(x.later) \in Seq(LeadBookings)
  BY <1>2, <1>3, HeadTailProperties
<1>5. need \in Seq(SUBSET LeadLocks) /\ Listed(need, MessageRow(Ack(b)))
  BY <1>4, AckOf, LocksTyped, RowListed
<1> HIDE DEF need
<1>6. /\ locking \in WriterRuns /\ locking.stage = "reopen" /\ locking.result = x.result
      /\ locking.op = x.op /\ locking.message = x.message /\ locking.rows = x.rows /\ locking.held = x.held
      /\ locking.later = x.later /\ locking.need = need
  BY <1>2, <1>5 DEF WriterRuns, WriterStages
<1>7. /\ passing \in WriterRuns /\ passing.stage = "settle" /\ passing.result = x.result
      /\ passing.op = x.op /\ passing.message = x.message /\ passing.rows = x.rows /\ passing.held = x.held
  BY <1>2, <1>4 DEF WriterRuns, WriterStages
<1> HIDE DEF locking, passing
<1>8. CASE standing[b] \in Live /\ GoesOn(w, locking)
  BY <1>1, <1>3, <1>5, <1>6, <1>8, ReportGoesOn DEF Wants
<1>9. CASE GoesOn(w, passing)
  BY <1>1, <1>7, <1>9, ReportGoesOn
<1> QED
  BY <1>1, <1>8, <1>9

\* The booking whose acknowledgement is given back stays locked, and live.
LEMMA ReopenKeeps ==
  ASSUME LeadInv, NEW w \in Writers, Reopen(w)
  PROVE  LeadInv'
<1> DEFINE x == writer[w]
           a == Ack(Head(x.later))
           rows == IF step[a] = "SETTLED" THEN x.rows \cup {a} ELSE x.rows
           new == [x EXCEPT !.stage = "settle", !.later = Tail(x.later), !.rows = rows]
<1>1. x.op = "report" /\ x.stage = "reopen" /\ x.need = <<>> /\ GoesOn(w, new)
  BY DEF Reopen, Reached
<1>2. x \in WriterRuns /\ x.later \in Seq(LeadBookings) /\ WriterRight(x)
  BY <1>1, HasOwn DEF WriterRuns, Senders
<1>3. /\ x.later # <<>> /\ MessageRow(a) \in x.held
      /\ BookingRow(Head(x.later)) \in x.held /\ standing[Head(x.later)] \in Live
  BY <1>1, <1>2, NothingListed DEF WriterRight, LaterRight
<1>4. Head(x.later) \in LeadBookings /\ Tail(x.later) \in Seq(LeadBookings)
  BY <1>2, <1>3, HeadTailProperties
<1>5. a \in Acknowledgements /\ a \in Messages /\ About[a] = Head(x.later)
  BY <1>4, AckOf
<1>6. rows \in SUBSET Messages /\ rows \subseteq x.rows \cup {a}
  BY <1>2, <1>5 DEF WriterRuns
<1> HIDE DEF rows
<1>7. /\ new \in WriterRuns /\ new.stage = "settle" /\ new.result = x.result
      /\ new.op = x.op /\ new.message = x.message /\ new.rows = rows /\ new.held = x.held
  BY <1>2, <1>4, <1>6 DEF WriterRuns, WriterStages
<1> HIDE DEF new
<1>8. \A m \in new.rows \ x.rows : m = a
  BY <1>6, <1>7
<1> QED
  BY <1>1, <1>3, <1>5, <1>7, <1>8, ReportGoesOn

-----------------------------------------------------------------------------
(***************************************************************************)
(* Steps that write rows                                                   *)
(***************************************************************************)
\* What a transaction writes: only messages it has locked; of bookings, only those it has locked, which it
\* confirms or ends, with all of theirs that could be cancelled locked; nothing becomes one that could be
\* cancelled but under its booking's lock; nothing is left to be written that is no longer needed; and nothing
\* is gone that was not, but what was needed and has none gone before it.
Written(x) ==
    /\ message' \in [Messages -> Statuses] /\ standing' \in [LeadBookings -> Standings] /\ ended' = ended
    /\ \A m \in Messages : message'[m] # message[m] => MessageRow(m) \in x.held
    /\ \A b \in LeadBookings : standing'[b] # standing[b] =>
          /\ BookingRow(b) \in x.held /\ standing[b] \in Live
          /\ \A m \in Of({b}) : message[m] \in Cancellable => MessageRow(m) \in x.held
    /\ \A m \in Messages :
          message'[m] \in Cancellable /\ message[m] \notin Cancellable => BookingRow(About[m]) \in x.held
    /\ \A m \in Messages : message'[m] \in {"WAITING", "PENDING", "REFUSED"} => ~NoLongerNeeded(m)'
    /\ \A m \in Messages : message'[m] \in Gone /\ message[m] \notin Gone =>
          /\ ~NoLongerNeeded(m)
          /\ m \in Acknowledgements => \A e \in Earlier(About[m]) : message[Ack(e)] \notin Gone

\* What another transaction has found is still so.
LEMMA FoundStays ==
  ASSUME LeadInv, NEW v \in Writers, NEW w \in Writers, v # w, Written(writer[w]),
         NEW x, x = writer[v], x.op # "none"
  PROVE  WriterRight(x)'
<1>1. WriterRight(x) /\ x \in WriterRuns /\ x.scope \subseteq LeadBookings
  BY DEF LeadInv, WritersRight, WritersTyped, WriterRuns
<1>2. x.held \cap writer[w].held = {}
  BY DEF LeadInv, RowsExclusive
<1>3. \A m \in Messages : MessageRow(m) \in x.held => message'[m] = message[m]
  BY <1>2 DEF Written
<1>4. \A b \in LeadBookings : BookingRow(b) \in x.held => standing'[b] = standing[b]
  BY <1>2 DEF Written
<1>5. ChangeRight(x)'
  <2>1. ASSUME NEW b \in x.scope, BookingRow(b) \in x.held,
               \A m \in Of({b}) : message[m] \in Cancellable => m \in x.rows,
               NEW m \in Of({b}), message'[m] \in Cancellable
        PROVE  m \in x.rows
    <3>1. m \in Messages /\ About[m] = b
      BY DEF Of
    <3>2. BookingRow(About[m]) \notin writer[w].held
      BY <1>2, <2>1, <3>1
    <3>3. message[m] \in Cancellable
      BY <2>1, <3>1, <3>2 DEF Written
    <3> QED
      BY <2>1, <3>3
  <2> QED
    BY <1>1, <1>4, <2>1 DEF WriterRight, ChangeRight
<1>6. OwnRight(x)'
  <2>1. ASSUME x.op \in Senders \cup {"report"}, x.stage # "first", x.op \in Senders
        PROVE  ResultRight(x)'
    <3> DEFINE m == x.message
    <3>1. ResultRight(x) /\ m \in Messages /\ MessageRow(m) \in x.held
      BY <1>1, <2>1 DEF WriterRight, OwnRight
    <3>2. message'[m] = message[m] /\ MessageRow(m) \notin writer[w].held
      BY <1>2, <1>3, <3>1
    <3>3. About[m] \in LeadBookings /\ m \in Of({About[m]})
      BY <3>1, AckOf DEF Of
    <3>4. message[m] \in Cancellable => standing'[About[m]] = standing[About[m]]
      BY <3>2, <3>3 DEF Written
    <3>5. message[m] \in {"PENDING", "CLAIMED"} /\ ~NoLongerNeeded(m) => ~NoLongerNeeded(m)'
      BY <3>4 DEF NoLongerNeeded, Cancellable, Unsent
    <3>6. ASSUME NEW e \in Earlier(About[m]), message[Ack(e)] \notin Gone
          PROVE  message'[Ack(e)] \notin Gone
      <4>1. e \in LeadBookings /\ Ack(e) \in Messages /\ About[Ack(e)] = e
        BY <3>3, AckOf
      <4>2. NoLongerNeeded(Ack(e))
        BY <3>3, <4>1 DEF LeadInv, MovedForGood, NoLongerNeeded
      <4> QED
        BY <3>6, <4>1, <4>2 DEF Written
    <3> QED
      BY <3>1, <3>2, <3>5, <3>6 DEF ResultRight
  <2> QED
    BY <1>1, <2>1 DEF WriterRight, OwnRight
<1>7. LaterRight(x)'
  <2>1. ASSUME x.op \in Senders \cup {"report"}, x.stage = "reopen"
        PROVE  standing'[Head(x.later)] \in Live
    <3>1. /\ x.later # <<>> /\ x.later \in Seq(LeadBookings)
          /\ BookingRow(Head(x.later)) \in x.held /\ standing[Head(x.later)] \in Live
      BY <1>1, <2>1 DEF WriterRight, LaterRight, WriterRuns
    <3>2. Head(x.later) \in LeadBookings
      BY <3>1, HeadTailProperties
    <3> QED
      BY <1>4, <3>1, <3>2
  <2>2. ASSUME x.op = "report", NEW a \in x.rows
        PROVE  standing'[About[a]] \in Live
    <3>1. a \in Messages /\ About[a] \in LeadBookings
      BY <1>1, AckOf DEF WriterRuns
    <3> QED
      BY <1>1, <1>4, <2>2, <3>1 DEF WriterRight, LaterRight
  <2> QED
    BY <1>1, <2>1, <2>2 DEF WriterRight, LaterRight
<1> QED
  BY <1>1, <1>5, <1>6, <1>7 DEF WriterRight, Wants

\* What is written so keeps the invariant.
LEMMA WritingKeeps ==
  ASSUME LeadInv, NEW w \in Writers, Written(writer[w]), writer' = [writer EXCEPT ![w] = NoRun]
  PROVE  LeadInv'
<1>1. \A v \in Writers : writer'[v] = IF v = w THEN NoRun ELSE writer[v]
  BY DEF LeadInv, WritersTyped
<1>2. LeadTyped'
  BY DEF LeadInv, LeadTyped, Written
<1>3. WritersTyped'
  BY NoRunTyped DEF LeadInv, WritersTyped
<1>4. RowsExclusive'
  BY <1>1, NoRunTyped DEF LeadInv, RowsExclusive
<1>5. WritersRight'
  <2>1. ASSUME NEW v \in Writers, NEW x, x = writer[v], v # w, x.op # "none"
        PROVE  WriterRight(x)'
    BY <2>1, FoundStays
  <2> QED
    BY <1>1, <2>1, NoRunTyped DEF WritersRight
<1>6. MovedForGood'
  BY AckOf DEF LeadInv, MovedForGood, Written
<1>7. RefusedNeverLeft'
  BY DEF RefusedNeverLeft, Written
<1>8. AcknowledgedOnce'
  <2>1. ASSUME NEW b \in LeadBookings, NEW e \in Earlier(b), message'[Ack(e)] \in Gone, message'[Ack(b)] \in Gone
        PROVE  FALSE
    <3>1. /\ Ack(b) \in Messages /\ Ack(b) \in Acknowledgements /\ About[Ack(b)] = b
          /\ e \in LeadBookings /\ Ack(e) \in Messages /\ About[Ack(e)] = e
      BY AckOf
    <3>2. NoLongerNeeded(Ack(e))
      BY <3>1 DEF LeadInv, MovedForGood, NoLongerNeeded
    <3>3. message[Ack(e)] \in Gone
      BY <2>1, <3>1, <3>2 DEF Written
    <3>4. message[Ack(b)] \notin Gone
      BY <3>3 DEF LeadInv, RowByRow, AcknowledgedOnce
    <3> QED
      BY <2>1, <3>1, <3>3, <3>4 DEF Written
  <2> QED
    BY <2>1 DEF AcknowledgedOnce
<1> QED
  BY <1>2, <1>3, <1>4, <1>5, <1>6, <1>7, <1>8 DEF LeadInv, RowByRow

\* Checking a message again leaves it one to be checked again, or what it was.
LEMMA RefreshedIs ==
  ASSUME NEW rows \in [Messages -> Statuses], NEW ms
  PROVE  /\ Refreshed(rows, ms) \in [Messages -> Statuses]
         /\ \A m \in Messages :
               \/ Refreshed(rows, ms)[m] = rows[m]
               \/ m \in ms /\ rows[m] \in ToCheckAgain /\ Refreshed(rows, ms)[m] \in ToCheckAgain
BY DEF Refreshed, ToCheckAgain, Statuses, Unsent

LEMMA WriteClosedKeeps ==
  ASSUME LeadInv, NEW w \in Writers, WriteClosed(w)
  PROVE  LeadInv'
<1> DEFINE x == writer[w]
<1>1. /\ x.op \in {"close", "expire"} /\ x.op # "none" /\ x.stage = "writing" /\ x.need = <<>>
      /\ writer' = [writer EXCEPT ![w] = NoRun] /\ ended' = ended
      /\ message' = [m \in Messages |->
            IF m \in x.rows /\ message[m] \in Cancellable \ {"CLAIMED"} THEN "CANCELLED" ELSE message[m]]
      /\ standing' = IF x.op = "close" THEN [b \in LeadBookings |-> IF b \in x.scope THEN x.result ELSE standing[b]]
                     ELSE standing
  BY DEF WriteClosed, WritesAll, Reached
<1>2. WriterRight(x) /\ \A m \in x.rows : MessageRow(m) \in x.held
  BY <1>1, HasMessages
<1>3. message \in [Messages -> Statuses] /\ standing \in [LeadBookings -> Standings]
  BY DEF LeadInv, LeadTyped
<1>4. ASSUME x.op = "close", NEW b \in x.scope
      PROVE  /\ x.result = "CANCELLED" /\ BookingRow(b) \in x.held /\ standing[b] \in Live
             /\ \A m \in Of({b}) : message[m] \in Cancellable => m \in x.rows
  BY <1>1, <1>2, <1>4 DEF WriterRight, ChangeRight
<1> HIDE DEF x
<1>5. message' \in [Messages -> Statuses] /\ standing' \in [LeadBookings -> Standings]
  <2>1. message' \in [Messages -> Statuses]
    BY <1>1, <1>3 DEF Statuses
  <2>2. CASE x.op = "close"
    <3>1. \A b \in LeadBookings : standing[b] \in Standings /\ (b \in x.scope => x.result \in Standings)
      BY <1>3, <1>4, <2>2 DEF Standings
    <3> QED
      BY <1>1, <2>1, <2>2, <3>1
  <2>3. CASE x.op # "close"
    BY <1>1, <1>3, <2>1, <2>3
  <2> QED
    BY <2>2, <2>3
<1>6. \A m \in Messages :
         \/ message'[m] = message[m] /\ ~(m \in x.rows /\ message[m] \in Cancellable \ {"CLAIMED"})
         \/ message'[m] = "CANCELLED" /\ m \in x.rows
  BY <1>1
<1>7. \A b \in LeadBookings :
         \/ standing'[b] = standing[b]
         \/ x.op = "close" /\ b \in x.scope /\ standing'[b] = "CANCELLED"
  BY <1>1, <1>4
<1>8. \A b \in LeadBookings : standing'[b] # standing[b] =>
         /\ BookingRow(b) \in x.held /\ standing[b] \in Live
         /\ \A m \in Of({b}) : message[m] \in Cancellable => MessageRow(m) \in x.held
  BY <1>2, <1>4, <1>7
<1>9. ASSUME NEW m \in Messages, message'[m] \in {"WAITING", "PENDING", "REFUSED"}
      PROVE  ~NoLongerNeeded(m)'
  <2>1. /\ message'[m] = message[m] /\ message[m] \in Cancellable \ {"CLAIMED"} /\ m \notin x.rows
        /\ About[m] \in LeadBookings /\ m \in Of({About[m]})
    BY <1>6, <1>9, AckOf DEF Cancellable, Unsent, Of
  <2>2. standing'[About[m]] = standing[About[m]]
    BY <1>4, <1>7, <2>1
  <2>3. ~NoLongerNeeded(m)
    BY <1>9, <2>1 DEF LeadInv, RowByRow, RefusedNeverLeft
  <2> QED
    BY <2>2, <2>3 DEF NoLongerNeeded
<1>10. Written(x)
  BY <1>1, <1>2, <1>5, <1>6, <1>8, <1>9 DEF Written, Cancellable, Unsent, Gone
<1> QED
  BY <1>1, <1>10, WritingKeeps DEF x

LEMMA WriteConfirmKeeps ==
  ASSUME LeadInv, NEW w \in Writers, WriteConfirm(w)
  PROVE  LeadInv'
<1> DEFINE x == writer[w]
           asked == [m \in Messages |->
                       IF m \in Of(x.scope) \ Acknowledgements /\ message[m] \in Cancellable \ {"CLAIMED"}
                       THEN "CANCELLED" ELSE message[m]]
<1>1. /\ x.op = "confirm" /\ x.op # "none" /\ x.stage = "writing" /\ x.need = <<>>
      /\ writer' = [writer EXCEPT ![w] = NoRun] /\ ended' = ended
      /\ message' = Refreshed(asked, x.rows)
      /\ standing' = [b \in LeadBookings |-> IF b \in x.scope THEN "CONFIRMED" ELSE standing[b]]
  BY DEF WriteConfirm, WritesAll, Reached
<1>2. WriterRight(x) /\ \A m \in x.rows : MessageRow(m) \in x.held
  BY <1>1, HasMessages
<1>3. message \in [Messages -> Statuses] /\ standing \in [LeadBookings -> Standings]
  BY DEF LeadInv, LeadTyped
<1>4. ASSUME NEW b \in x.scope
      PROVE  /\ BookingRow(b) \in x.held /\ standing[b] \in Live /\ standing[b] = "BOOKED"
             /\ \A m \in Of({b}) : message[m] \in Cancellable => m \in x.rows
  BY <1>1, <1>2 DEF WriterRight, ChangeRight
<1> HIDE DEF x
<1>5. /\ asked \in [Messages -> Statuses]
      /\ \A m \in Messages :
            \/ asked[m] = message[m]
            \/ /\ asked[m] = "CANCELLED" /\ message[m] \in Cancellable \ {"CLAIMED"} /\ m \in x.rows
  <2>1. asked \in [Messages -> Statuses]
    BY <1>3 DEF Statuses
  <2>2. ASSUME NEW m \in Messages, m \in Of(x.scope), message[m] \in Cancellable
        PROVE  m \in x.rows
    <3>1. About[m] \in x.scope /\ m \in Of({About[m]})
      BY <2>2 DEF Of
    <3> QED
      BY <1>4, <2>2, <3>1
  <2> QED
    BY <2>1, <2>2
<1>6. \A m \in Messages : message[m] \in Cancellable \ {"CLAIMED"} /\ About[m] \in x.scope /\ m \notin Acknowledgements
         => asked[m] = "CANCELLED"
  BY DEF Of
<1> HIDE DEF asked
<1>7. /\ message' \in [Messages -> Statuses]
      /\ \A m \in Messages :
            \/ message'[m] = asked[m]
            \/ m \in x.rows /\ asked[m] \in ToCheckAgain /\ message'[m] \in ToCheckAgain
  BY <1>1, <1>5, RefreshedIs
<1>8. standing' \in [LeadBookings -> Standings]
  BY <1>1, <1>3 DEF Standings, Live
<1>9. \A b \in LeadBookings : IF b \in x.scope THEN standing'[b] = "CONFIRMED" ELSE standing'[b] = standing[b]
  BY <1>1
<1>10. \A b \in LeadBookings : standing'[b] # standing[b] =>
         /\ BookingRow(b) \in x.held /\ standing[b] \in Live
         /\ \A m \in Of({b}) : message[m] \in Cancellable => MessageRow(m) \in x.held
  BY <1>2, <1>4, <1>9
<1>11. \A m \in Messages : message'[m] # message[m] => m \in x.rows
  BY <1>5, <1>7
<1>12. \A m \in Messages :
         \/ message'[m] = message[m] \/ message'[m] = "CANCELLED"
         \/ message[m] \in ToCheckAgain /\ message'[m] \in ToCheckAgain
  BY <1>5, <1>7 DEF ToCheckAgain
<1>13. ASSUME NEW m \in Messages, message'[m] \in {"WAITING", "PENDING", "REFUSED"}
       PROVE  ~NoLongerNeeded(m)'
  <2>1. message[m] \in {"WAITING", "PENDING", "REFUSED"} /\ About[m] \in LeadBookings
    BY <1>12, <1>13, AckOf DEF ToCheckAgain
  <2>2. ~NoLongerNeeded(m)
    BY <2>1 DEF LeadInv, RowByRow, RefusedNeverLeft
  <2>3. ~(About[m] \in x.scope /\ m \notin Acknowledgements)
    BY <1>6, <1>7, <1>13, <2>1 DEF Cancellable, Unsent, ToCheckAgain
  <2> QED
    BY <1>9, <2>1, <2>2, <2>3 DEF NoLongerNeeded, Live
<1>14. Written(x)
  BY <1>1, <1>2, <1>7, <1>8, <1>10, <1>11, <1>12, <1>13 DEF Written, Cancellable, Unsent, Gone, ToCheckAgain
<1> QED
  BY <1>1, <1>14, WritingKeeps DEF x

\* While no booking changes, what is written is right if nothing becomes one to be cancelled, or is gone.
LEMMA MessagesWritten ==
  ASSUME LeadInv, NEW x, message' \in [Messages -> Statuses], UNCHANGED <<standing, ended>>,
         \A m \in Messages :
            \/ message'[m] = message[m]
            \/ /\ MessageRow(m) \in x.held
               /\ \/ message'[m] \in {"CANCELLED", "UNDELIVERED"}
                  \/ message'[m] \in {"WAITING", "PENDING"} /\ message[m] \in {"WAITING", "PENDING"}
                  \/ /\ message'[m] \in {"WAITING", "PENDING", "REFUSED"} /\ ~NoLongerNeeded(m)
                     /\ message[m] \in Cancellable \/ BookingRow(About[m]) \in x.held
                  \/ message'[m] \in {"UNKNOWN", "TAKEN"} /\ message[m] \in {"CLAIMED", "UNKNOWN"}
                  \/ /\ message'[m] = "CLAIMED" /\ message[m] = "PENDING" /\ ~NoLongerNeeded(m)
                     /\ m \in Acknowledgements => \A e \in Earlier(About[m]) : message[Ack(e)] \notin Gone
  PROVE  Written(x)
<1>1. \A m \in Messages : NoLongerNeeded(m)' <=> NoLongerNeeded(m)
  BY DEF NoLongerNeeded
<1>2. \A m \in Messages : message'[m] # message[m] => MessageRow(m) \in x.held
  OBVIOUS
<1>3. \A m \in Messages :
          message'[m] \in Cancellable /\ message[m] \notin Cancellable => BookingRow(About[m]) \in x.held
  BY DEF Cancellable, Unsent
<1>4. \A m \in Messages : message'[m] \in {"WAITING", "PENDING", "REFUSED"} => ~NoLongerNeeded(m)
  <2>1. \A m \in Messages : message[m] \in {"WAITING", "PENDING", "REFUSED"} => ~NoLongerNeeded(m)
    BY DEF LeadInv, RowByRow, RefusedNeverLeft
  <2> QED
    BY <2>1
<1>5. \A m \in Messages : message'[m] \in Gone /\ message[m] \notin Gone =>
          /\ ~NoLongerNeeded(m)
          /\ m \in Acknowledgements => \A e \in Earlier(About[m]) : message[Ack(e)] \notin Gone
  BY DEF Gone
<1> QED
  BY <1>1, <1>2, <1>3, <1>4, <1>5 DEF Written, LeadInv, LeadTyped

LEMMA WriteRefreshedKeeps ==
  ASSUME LeadInv, NEW w \in Writers, WriteRefreshed(w)
  PROVE  LeadInv'
<1> DEFINE x == writer[w]
<1>1. /\ x.op # "none" /\ x.need = <<>> /\ writer' = [writer EXCEPT ![w] = NoRun]
      /\ UNCHANGED <<standing, ended>> /\ message' = Refreshed(message, x.rows)
  BY DEF WriteRefreshed, WritesAll, Reached
<1>2. \A m \in x.rows : MessageRow(m) \in x.held
  BY <1>1, HasMessages
<1>3. message \in [Messages -> Statuses]
  BY DEF LeadInv, LeadTyped
<1> HIDE DEF x
<1>4. Written(x)
  BY <1>1, <1>2, <1>3, RefreshedIs, MessagesWritten DEF ToCheckAgain
<1> QED
  BY <1>1, <1>4, WritingKeeps DEF x

\* The result is written, and with it what became of the later acknowledgements.
LEMMA WriteResultKeeps ==
  ASSUME LeadInv, NEW w \in Writers, WriteResult(w)
  PROVE  LeadInv'
<1> DEFINE x == writer[w]
           m == x.message
           own == [message EXCEPT ![m] = x.result]
<1>1. /\ x.op \in Senders /\ x.stage = "writing" /\ x.need = <<>> /\ writer' = [writer EXCEPT ![w] = NoRun]
      /\ UNCHANGED <<standing, ended>>
      /\ message' = IF x.result = "TAKEN" THEN [n \in Messages |-> IF n \in x.rows THEN "CANCELLED" ELSE own[n]]
                    ELSE Refreshed(own, x.rows)
  BY DEF WriteResult, WritesAll, Reached, Senders
<1>2. /\ WriterRight(x) /\ m \in Messages /\ MessageRow(m) \in x.held
      /\ \A n \in x.rows : MessageRow(n) \in x.held
  BY <1>1, HasOwn
<1>3. ResultRight(x)
  BY <1>1, <1>2 DEF WriterRight, OwnRight
<1>4. message \in [Messages -> Statuses]
  BY DEF LeadInv, LeadTyped
<1> HIDE DEF x
<1>5. /\ x.result \in Statuses
      /\ own \in [Messages -> Statuses] /\ own[m] = x.result
      /\ \A n \in Messages \ {m} : own[n] = message[n]
  <2>1. x.result \in Statuses
    BY <1>2, <1>3, <1>4 DEF ResultRight, Statuses, Unsent
  <2> QED
    BY <1>2, <1>4, <2>1
<1> HIDE DEF own
<1>6. /\ message' \in [Messages -> Statuses]
      /\ \A n \in Messages :
            \/ message'[n] = own[n]
            \/ n \in x.rows /\ message'[n] = "CANCELLED"
            \/ n \in x.rows /\ own[n] \in ToCheckAgain /\ message'[n] \in ToCheckAgain
  <2>1. CASE x.result = "TAKEN"
    BY <1>1, <1>5, <2>1 DEF Statuses
  <2>2. CASE x.result # "TAKEN"
    BY <1>1, <1>5, <2>2, RefreshedIs
  <2> QED
    BY <2>1, <2>2
<1>7. ASSUME NEW n \in Messages, message'[n] # message[n]
      PROVE  /\ MessageRow(n) \in x.held
             /\ \/ message'[n] = "CANCELLED"
                \/ message'[n] \in {"WAITING", "PENDING"} /\ message[n] \in {"WAITING", "PENDING"}
                \/ /\ message'[n] \in {"WAITING", "PENDING", "REFUSED"} /\ ~NoLongerNeeded(n)
                   /\ message[n] \in Cancellable
                \/ message'[n] \in {"UNKNOWN", "TAKEN"} /\ message[n] \in {"CLAIMED", "UNKNOWN"}
                \/ /\ message'[n] = "CLAIMED" /\ message[n] = "PENDING" /\ ~NoLongerNeeded(n)
                   /\ n \in Acknowledgements => \A e \in Earlier(About[n]) : message[Ack(e)] \notin Gone
  <2>1. MessageRow(n) \in x.held
    BY <1>2, <1>5, <1>6, <1>7
  <2>2. CASE n # m
    BY <1>5, <1>6, <1>7, <2>1, <2>2 DEF ToCheckAgain
  <2>3. CASE n = m
    <3>1. {"PENDING", "CLAIMED"} \subseteq Cancellable
      BY DEF Cancellable, Unsent
    <3>2. CASE message'[n] = x.result
      BY <1>3, <1>7, <2>1, <2>3, <3>1, <3>2 DEF ResultRight
    <3>3. CASE x.result \in ToCheckAgain /\ message'[n] \in ToCheckAgain
      <4>1. x.result = message[n] \/ (message[n] \in {"PENDING", "CLAIMED"} /\ ~NoLongerNeeded(n))
        BY <1>3, <2>3, <3>3 DEF ResultRight, ToCheckAgain
      <4> QED
        BY <2>1, <3>1, <3>3, <4>1 DEF ToCheckAgain
    <3> QED
      BY <1>5, <1>6, <1>7, <2>1, <2>3, <3>2, <3>3
  <2> QED
    BY <2>2, <2>3
<1>8. Written(x)
  BY <1>1, <1>6, <1>7, MessagesWritten
<1> QED
  BY <1>1, <1>8, WritingKeeps DEF x

\* What is given back is checked again, under its booking's lock.
LEMMA WriteReportKeeps ==
  ASSUME LeadInv, NEW w \in Writers, WriteReport(w)
  PROVE  LeadInv'
<1> DEFINE x == writer[w]
           waiting == [m \in Messages |->
                         IF m = x.message THEN x.result
                         ELSE IF m \in x.rows /\ message[m] = "CANCELLED" THEN "WAITING" ELSE message[m]]
<1>1. /\ x.op = "report" /\ x.stage = "writing" /\ x.need = <<>> /\ writer' = [writer EXCEPT ![w] = NoRun]
      /\ UNCHANGED <<standing, ended>> /\ message' = Refreshed(waiting, x.rows)
  BY DEF WriteReport, WritesAll, Reached
<1>2. /\ WriterRight(x) /\ x.message \in Messages /\ MessageRow(x.message) \in x.held
      /\ \A m \in x.rows : MessageRow(m) \in x.held
  BY <1>1, HasOwn
<1>3. /\ x.result = "UNDELIVERED"
      /\ \A m \in x.rows : m \in Acknowledgements /\ BookingRow(About[m]) \in x.held /\ standing[About[m]] \in Live
  BY <1>1, <1>2 DEF WriterRight, OwnRight, LaterRight
<1>4. message \in [Messages -> Statuses]
  BY DEF LeadInv, LeadTyped
<1> HIDE DEF x
<1>5. /\ waiting \in [Messages -> Statuses]
      /\ \A m \in Messages :
            \/ waiting[m] = message[m]
            \/ waiting[m] = "UNDELIVERED" /\ MessageRow(m) \in x.held
            \/ waiting[m] = "WAITING" /\ m \in x.rows
  BY <1>2, <1>3, <1>4 DEF Statuses, Unsent
<1> HIDE DEF waiting
<1>6. /\ message' \in [Messages -> Statuses]
      /\ \A m \in Messages :
            \/ message'[m] = waiting[m]
            \/ m \in x.rows /\ message'[m] \in ToCheckAgain
  BY <1>1, <1>5, RefreshedIs
<1>7. \A m \in x.rows : ~NoLongerNeeded(m)
  BY <1>3 DEF NoLongerNeeded
<1>8. \A m \in Messages :
         \/ message'[m] = message[m]
         \/ message'[m] = "UNDELIVERED" /\ MessageRow(m) \in x.held
         \/ /\ message'[m] \in {"WAITING", "PENDING"} /\ ~NoLongerNeeded(m)
            /\ MessageRow(m) \in x.held /\ BookingRow(About[m]) \in x.held
  BY <1>2, <1>3, <1>5, <1>6, <1>7 DEF ToCheckAgain
<1>9. Written(x)
  BY <1>1, <1>6, <1>8, MessagesWritten
<1> QED
  BY <1>1, <1>9, WritingKeeps DEF x

-----------------------------------------------------------------------------
(***************************************************************************)
(* The theorems                                                            *)
(***************************************************************************)
LEMMA InitLead == ASSUME InitMessages PROVE LeadInv
<1>1. PICK start \in MessagesAtStart : message = start.message /\ standing = start.standing /\ ended = start.ended
  BY DEF InitMessages
<1>2. start \in LeadRows
  BY MessageLocksAssumption
<1>3. LeadTyped
  BY <1>1, <1>2 DEF LeadTyped, LeadRows, Statuses, Standings
<1>4. writer = [w \in Writers |-> NoRun]
  BY DEF InitMessages
<1>5. WritersTyped /\ RowsExclusive /\ WritersRight
  BY <1>4, NoRunTyped DEF WritersTyped, RowsExclusive, WritersRight
<1>6. MovedForGood /\ RowByRow
  BY <1>1, MessagesStartAssumption DEF MovedForGood, RowByRow, RefusedNeverLeft, AcknowledgedOnce, NoLongerNeeded
<1> QED
  BY <1>3, <1>5, <1>6 DEF LeadInv

LEMMA NextLeadKeeps == ASSUME LeadInv, [NextMessages]_messageVars PROVE LeadInv'
<1>1. CASE UNCHANGED messageVars
  <2>1. UNCHANGED <<message, standing, ended, writer>>
    BY <1>1 DEF messageVars, lockRows
  <2>2. LeadTyped' /\ WritersTyped' /\ RowsExclusive'
    BY <2>1 DEF LeadInv, LeadTyped, WritersTyped, RowsExclusive
  <2>3. ASSUME NEW w \in Writers, NEW x, x = writer[w], x.op # "none"
        PROVE  WriterRight(x)'
    BY <2>1, <2>3, SameRows DEF LeadInv, WritersRight
  <2>4. WritersRight'
    BY <2>1, <2>3 DEF WritersRight
  <2> QED
    BY <2>1, <2>2, <2>4, SameRows DEF LeadInv
<1>2. ASSUME NEW w \in Writers, BeginsRun(w)
      PROVE  LeadInv'
  <2>1. ASSUME NEW b \in LeadBookings, ChangeBooking(w, b, "close", "CANCELLED")
        PROVE  LeadInv'
    BY <2>1, ChangeBookingKeeps
  <2>2. ASSUME NEW b \in LeadBookings, ChangeBooking(w, b, "confirm", "CONFIRMED")
        PROVE  LeadInv'
    BY <2>2, ChangeBookingKeeps
  <2>3. ASSUME NEW b \in LeadBookings, ChangeBooking(w, b, "refresh", "NONE")
        PROVE  LeadInv'
    BY <2>3, ChangeBookingKeeps
  <2> QED
    BY <1>2, <2>1, <2>2, <2>3, ExpireKeeps, ChooseDiagnosticsKeeps, ClaimKeeps, RecordKeeps, RecoverKeeps, ReportKeeps
       DEF BeginsRun
<1>3. ASSUME NEW w \in Writers, GoesOnWith(w)
      PROVE  LeadInv'
  BY <1>3, CheckCloseKeeps, ChooseStepsKeeps, CheckConfirmKeeps, CheckRefreshKeeps, ChooseDemosKeeps,
     ChooseOpenStepsKeeps, CheckClaimKeeps, RecordResultKeeps, SettleNextKeeps, SettleRowKeeps,
     CheckReportKeeps, ReleaseNextKeeps, ReleaseLockedKeeps, ReopenKeeps
     DEF GoesOnWith
<1>4. ASSUME NEW w \in Writers, WritesRows(w)
      PROVE  LeadInv'
  BY <1>4, WriteClosedKeeps, WriteConfirmKeeps, WriteRefreshedKeeps, WriteResultKeeps, WriteReportKeeps
     DEF WritesRows
<1> QED
  BY <1>1, <1>2, <1>3, <1>4, LockRowKeeps, CircleBrokenKeeps, ScheduledTimeKeeps DEF NextMessages

\* What a transaction has locked or read of a lead's messages and bookings, it has to itself, and it is still so when
\* it writes.
THEOREM LeadInvariant == SpecMessages => []LeadInv
BY InitLead, NextLeadKeeps, PTL DEF SpecMessages

\* However the changes of bookings, the jobs, the senders and the reports take turns on single rows, a message
\* that is refused is not left to be sent on a booking that no longer wants it, and of a chain of bookings one
\* acknowledgement at most is gone.
THEOREM HoldsRowByRow == SpecMessages => []RowByRow
<1>1. LeadInv => RowByRow
  BY DEF LeadInv
<1> QED
  BY <1>1, LeadInvariant, PTL

-----------------------------------------------------------------------------
(***************************************************************************)
(* Who waits for whom: bookings before messages before steps, and messages *)
(* and steps each by id                                                    *)
(***************************************************************************)
Rank(row) ==
    CASE row[1] = "booking" -> 0 [] row[1] = "message" -> Place(ids, row[2])
      [] OTHER -> Len(ids) + Place(taskIds, row[2])

\* A statement chooses from one table, and of bookings one
OneTable(rows) == \A row, other \in rows : row[1] = other[1] /\ (row[1] = "booking" => row = other)

\* What it has still to lock comes after all that it has, and later statements' rows after earlier ones';
\* until it has gone further than its own.
InTurn(x) ==
    \/ GoesFurther(x)
    \/ /\ \A n \in DOMAIN x.need : OneTable(x.need[n])
       /\ \A row \in x.held, n \in DOMAIN x.need : \A other \in x.need[n] : Rank(row) < Rank(other)
       /\ \A i, j \in DOMAIN x.need :
             i < j => \A row \in x.need[i], other \in x.need[j] : Rank(row) < Rank(other)

\* Until it has chosen its messages a change has no row but bookings, and until it has chosen its steps none of theirs
OnlyEarly(x) ==
    /\ x.stage = "first" /\ x.op \in {"close", "confirm", "refresh"} => \A row : Wants(x, row) => row[1] = "booking"
    /\ x.stage \in {"first", "messages"} => \A row : Wants(x, row) => row[1] \in {"booking", "message"}

IdsRight ==
    /\ ids \in Seq(Messages) /\ taskIds \in Seq(Messages)
    /\ \A m \in Messages : (\E n \in DOMAIN ids : ids[n] = m) /\ (\E n \in DOMAIN taskIds : taskIds[n] = m)

OrderInv == IdsRight /\ \A w \in Writers : InTurn(writer[w]) /\ OnlyEarly(writer[w])

\* The numbers of rows: a message's, and a step's, is its own.
LEMMA Ranks ==
  ASSUME IdsRight
  PROVE  /\ Len(ids) \in Nat /\ Len(taskIds) \in Nat
         /\ \A row \in LeadLocks :
               /\ Rank(row) \in 0 .. Len(ids) + Len(taskIds)
               /\ row[1] \in {"booking", "message", "task"}
               /\ row[1] = "booking" => Rank(row) = 0
               /\ row[1] = "message" => Rank(row) \in 1 .. Len(ids)
               /\ row[1] = "task" => Rank(row) > Len(ids)
         /\ \A m \in Messages : Place(ids, m) \in Nat /\ Place(taskIds, m) \in Nat
         /\ \A m, n \in Messages : m # n => Place(ids, m) # Place(ids, n) /\ Place(taskIds, m) # Place(taskIds, n)
<1>1. /\ Len(ids) \in Nat /\ DOMAIN ids = 1 .. Len(ids)
      /\ Len(taskIds) \in Nat /\ DOMAIN taskIds = 1 .. Len(taskIds)
  BY DEF IdsRight
<1>2. \A m \in Messages : /\ Place(ids, m) \in 1 .. Len(ids) /\ ids[Place(ids, m)] = m
                          /\ Place(taskIds, m) \in 1 .. Len(taskIds) /\ taskIds[Place(taskIds, m)] = m
  BY <1>1 DEF IdsRight, Place
<1>3. ASSUME NEW row \in LeadLocks
      PROVE  /\ Rank(row) \in 0 .. Len(ids) + Len(taskIds)
             /\ row[1] \in {"booking", "message", "task"}
             /\ row[1] = "booking" => Rank(row) = 0
             /\ row[1] = "message" => Rank(row) \in 1 .. Len(ids)
             /\ row[1] = "task" => Rank(row) > Len(ids)
  <2>1. row[1] = "booking" \/ (row[1] \in {"message", "task"} /\ row[2] \in Messages)
    BY DEF LeadLocks
  <2>2. CASE row[1] = "booking"
    BY <1>1, <2>2 DEF Rank
  <2>3. CASE row[1] = "message"
    <3>1. Rank(row) = Place(ids, row[2])
      BY <2>3 DEF Rank
    <3> QED
      BY <1>1, <1>2, <2>1, <2>3, <3>1
  <2>4. CASE row[1] = "task"
    <3>1. Rank(row) = Len(ids) + Place(taskIds, row[2])
      BY <2>4 DEF Rank
    <3> QED
      BY <1>1, <1>2, <2>1, <2>4, <3>1
  <2> QED
    BY <2>1, <2>2, <2>3, <2>4
<1> QED
  BY <1>1, <1>2, <1>3

LEMMA SameRanks ==
  ASSUME UNCHANGED lockOrder
  PROVE  /\ IdsRight => IdsRight'
         /\ \A x : (InTurn(x) => InTurn(x)') /\ (OnlyEarly(x) => OnlyEarly(x)')
<1>1. ids' = ids /\ taskIds' = taskIds
  BY DEF lockOrder
<1>2. \A row : Rank(row)' = Rank(row)
  BY <1>1 DEF Rank
<1> QED
  BY <1>1, <1>2 DEF IdsRight, InTurn, OnlyEarly

\* A step keeps the order, if what it makes of its transaction does.
LEMMA StepOrdered ==
  ASSUME WritersTyped, OrderInv, NEW w \in Writers, NEW new, writer' = [writer EXCEPT ![w] = new],
         UNCHANGED lockOrder, InTurn(new), OnlyEarly(new)
  PROVE  OrderInv'
<1>1. \A v \in Writers : writer'[v] = IF v = w THEN new ELSE writer[v]
  BY DEF WritersTyped
<1>2. ASSUME NEW v \in Writers, NEW x, x = writer'[v]
      PROVE  InTurn(x)' /\ OnlyEarly(x)'
  <2>1. InTurn(x) /\ OnlyEarly(x)
    BY <1>1, <1>2 DEF OrderInv
  <2> QED
    BY <2>1, SameRanks
<1> QED
  BY <1>2, SameRanks DEF OrderInv

\* With no statement under way it waits for nothing.
LEMMA NothingWanted ==
  ASSUME NEW x, x.need = <<>>
  PROVE  /\ InTurn(x)
         /\ x.stage \notin {"first", "messages"} => OnlyEarly(x)
BY DEF InTurn, OnlyEarly

LEMMA NoRunOrdered == InTurn(NoRun) /\ OnlyEarly(NoRun)
BY NothingWanted DEF NoRun

\* One statement's rows of one table, all of them after those it has.
LEMMA StatementInTurn ==
  ASSUME NEW x, NEW rows, x.need = Locking(rows), OneTable(rows),
         \A row \in x.held, other \in rows : Rank(row) < Rank(other)
  PROVE  /\ InTurn(x)
         /\ \A row : Listed(x.need, row) => row \in rows
<1>1. CASE rows = {}
  <2>1. x.need = <<>>
    BY <1>1 DEF Locking
  <2> QED
    BY <2>1, NothingWanted DEF Listed
<1>2. CASE rows # {}
  <2>1. x.need = <<rows>>
    BY <1>2 DEF Locking
  <2>2. DOMAIN x.need = {1} /\ x.need[1] = rows
    BY <2>1
  <2> QED
    BY <2>2 DEF InTurn, Listed
<1> QED
  BY <1>1, <1>2

\* Messages after bookings, steps after both.
LEMMA MessagesInTurn ==
  ASSUME IdsRight, NEW x, x.held \subseteq LeadLocks, \A row \in x.held : row[1] = "booking",
         NEW ms \in SUBSET Messages, x.need = RowsLocked(ms)
  PROVE  InTurn(x) /\ \A row : Wants(x, row) => row[1] \in {"booking", "message"}
<1> DEFINE rows == {MessageRow(m) : m \in ms}
<1>1. \A row \in rows : row \in LeadLocks /\ row[1] = "message"
  BY LocksTyped DEF MessageRow
<1>2. x.need = Locking(rows)
  BY DEF RowsLocked
<1> HIDE DEF rows
<1>3. OneTable(rows)
  BY <1>1 DEF OneTable
<1>4. \A row \in x.held, other \in rows : Rank(row) < Rank(other)
  BY <1>1, Ranks
<1>5. InTurn(x) /\ \A row : Listed(x.need, row) => row \in rows
  BY <1>2, <1>3, <1>4, StatementInTurn
<1> QED
  BY <1>1, <1>5 DEF Wants

LEMMA TasksInTurn ==
  ASSUME IdsRight, NEW x, x.held \subseteq LeadLocks, \A row \in x.held : row[1] \in {"booking", "message"},
         NEW ms \in SUBSET Messages, x.need = TasksLocked(ms)
  PROVE  InTurn(x)
<1> DEFINE rows == {TaskRow(m) : m \in ms}
<1>1. \A row \in rows : row \in LeadLocks /\ row[1] = "task"
  BY LocksTyped DEF TaskRow
<1>2. x.need = Locking(rows)
  BY DEF TasksLocked
<1> HIDE DEF rows
<1>3. OneTable(rows)
  BY <1>1 DEF OneTable
<1>4. \A row \in x.held, other \in rows : Rank(row) < Rank(other)
  BY <1>1, Ranks
<1> QED
  BY <1>2, <1>3, <1>4, StatementInTurn

\* One row, its first.
LEMMA RowInTurn ==
  ASSUME NEW x, NEW row, x.need = <<{row}>>, x.held = {}
  PROVE  InTurn(x) /\ \A other : Wants(x, other) => other = row
<1>1. DOMAIN x.need = {1} /\ x.need[1] = {row}
  OBVIOUS
<1> QED
  BY <1>1 DEF InTurn, OneTable, Wants, Listed

\* What is left of the statements under way once a row of the first is locked.
LEMMA WhatIsLeft ==
  ASSUME NEW need \in Seq(SUBSET LeadLocks), need # <<>>, NEW row
  PROVE  LET rest == Locking(Head(need) \ {row}) \o Tail(need)
         IN  \E skipped \in {0, 1} : \A i \in DOMAIN rest :
                /\ i \in Nat /\ i + skipped \in DOMAIN need /\ rest[i] \subseteq need[i + skipped]
                /\ i + skipped = 1 => row \notin rest[i]
<1> DEFINE rows == Head(need) \ {row}
           rest == Locking(rows) \o Tail(need)
<1>1. /\ Len(need) \in Nat /\ Len(need) >= 1 /\ DOMAIN need = 1 .. Len(need) /\ Head(need) = need[1]
      /\ Tail(need) \in Seq(SUBSET LeadLocks) /\ Len(Tail(need)) = Len(need) - 1
      /\ \A j \in 1 .. Len(Tail(need)) : Tail(need)[j] = need[j + 1]
      /\ Head(need) \in SUBSET LeadLocks
  BY HeadTailProperties
<1>2. CASE rows = {}
  <2>1. Locking(rows) = <<>>
    BY <1>2 DEF Locking
  <2>2. rest = Tail(need)
    <3>1. <<>> \o Tail(need) = Tail(need)
      BY <1>1, ConcatEmptySeq
    <3> QED
      BY <2>1, <3>1
  <2> HIDE DEF rows, rest
  <2>3. DOMAIN rest = 1 .. Len(need) - 1
    <3>1. DOMAIN Tail(need) = 1 .. Len(Tail(need))
      BY <1>1
    <3> QED
      BY <1>1, <2>2, <3>1
  <2>4. \A i \in DOMAIN rest : i \in Nat /\ i >= 1 /\ i + 1 \in DOMAIN need /\ rest[i] = need[i + 1]
    BY <1>1, <2>2, <2>3
  <2>5. \A i \in DOMAIN rest : /\ i \in Nat /\ i + 1 \in DOMAIN need /\ rest[i] \subseteq need[i + 1]
                               /\ i + 1 = 1 => row \notin rest[i]
    BY <2>4
  <2> QED
    BY <2>5 DEF rest, rows
<1>3. CASE rows # {}
  <2>1. Locking(rows) = <<rows>>
    BY <1>3 DEF Locking
  <2>2. <<rows>> \in Seq(SUBSET LeadLocks) /\ Len(<<rows>>) = 1 /\ <<rows>>[1] = rows
    BY <1>1
  <2>3. /\ rest \in Seq(SUBSET LeadLocks) /\ Len(rest) = 1 + (Len(need) - 1)
        /\ \A i \in 1 .. 1 + (Len(need) - 1) : rest[i] = IF i <= 1 THEN <<rows>>[i] ELSE Tail(need)[i - 1]
    <3> HIDE DEF rows
    <3>1. rest = <<rows>> \o Tail(need)
      BY <2>1
    <3> HIDE DEF rest
    <3> QED
      BY <1>1, <2>2, <3>1, ConcatProperties
  <2>4. DOMAIN rest = 1 .. Len(need)
    BY <1>1, <2>3
  <2>5. rows \subseteq need[1] /\ row \notin rows
    BY <1>1
  <2> HIDE DEF rows, rest
  <2>6. ASSUME NEW i \in DOMAIN rest
        PROVE  /\ i \in Nat /\ i + 0 \in DOMAIN need /\ rest[i] \subseteq need[i + 0]
               /\ i + 0 = 1 => row \notin rest[i]
    <3>1. i \in 1 .. Len(need) /\ i + 0 = i /\ i \in 1 .. 1 + (Len(need) - 1)
      BY <1>1, <2>4
    <3>2. CASE i = 1
      BY <1>1, <2>2, <2>3, <2>5, <3>1, <3>2
    <3>3. CASE i # 1
      <4>1. rest[i] = Tail(need)[i - 1] /\ i - 1 \in 1 .. Len(Tail(need)) /\ (i - 1) + 1 = i
        BY <1>1, <2>3, <3>1, <3>3
      <4> QED
        BY <1>1, <3>1, <3>3, <4>1
    <3> QED
      BY <3>2, <3>3
  <2> QED
    BY <2>6 DEF rest, rows
<1> QED
  BY <1>2, <1>3

LEMMA LockRowOrdered ==
  ASSUME LeadInv, OrderInv, NEW w \in Writers, LockRow(w)
  PROVE  OrderInv'
<1> DEFINE x == writer[w]
<1>1. PICK row \in Head(x.need) :
         /\ Reaches(x, row)
         /\ writer' = [writer EXCEPT ![w].need = Locking(Head(@) \ {row}) \o Tail(@), ![w].held = @ \cup {row}]
  BY DEF LockRow
<1> DEFINE rest == Locking(Head(x.need) \ {row}) \o Tail(x.need)
           new == [x EXCEPT !.need = rest, !.held = x.held \cup {row}]
<1>2. x \in WriterRuns /\ x.need \in Seq(SUBSET LeadLocks) /\ x.need # <<>> /\ x.held \in SUBSET LeadLocks
  BY DEF LeadInv, WritersTyped, LockRow, WriterRuns
<1>3. /\ 1 \in DOMAIN x.need /\ Head(x.need) = x.need[1] /\ x.need[1] \in SUBSET LeadLocks
      /\ \A n \in DOMAIN x.need : x.need[n] \in SUBSET LeadLocks /\ n \in Nat /\ n >= 1
  BY <1>2, HeadTailProperties
<1>4. writer' = [writer EXCEPT ![w] = new] /\ UNCHANGED lockOrder
  BY <1>1 DEF LockRow
<1>5. PICK skipped \in {0, 1} : \A i \in DOMAIN rest :
         /\ i \in Nat /\ i + skipped \in DOMAIN x.need /\ rest[i] \subseteq x.need[i + skipped]
         /\ i + skipped = 1 => row \notin rest[i]
  BY <1>2, WhatIsLeft
<1> HIDE DEF rest
<1>6. /\ new.op = x.op /\ new.stage = x.stage /\ new.rows = x.rows
      /\ new.need = rest /\ new.held = x.held \cup {row}
  BY <1>2 DEF WriterRuns
<1>7. InTurn(x) /\ OnlyEarly(x) /\ IdsRight
  BY DEF OrderInv
<1> HIDE DEF new
<1>8. OnlyEarly(new)
  <2>1. \A other : Wants(new, other) => Wants(x, other)
    BY <1>1, <1>3, <1>5, <1>6 DEF Wants, Listed
  <2> QED
    BY <1>6, <1>7, <2>1 DEF OnlyEarly
<1>9. InTurn(new)
  <2>1. CASE GoesFurther(x)
    BY <1>6, <2>1 DEF InTurn, GoesFurther
  <2>2. CASE ~GoesFurther(x)
    <3>1. /\ \A n \in DOMAIN x.need : OneTable(x.need[n])
          /\ \A h \in x.held, n \in DOMAIN x.need : \A other \in x.need[n] : Rank(h) < Rank(other)
          /\ \A i, j \in DOMAIN x.need : i < j => \A h \in x.need[i], other \in x.need[j] : Rank(h) < Rank(other)
      BY <1>7, <2>2 DEF InTurn
    <3>2. ASSUME NEW other \in x.need[1], other # row
          PROVE  Rank(row) < Rank(other)
      <4>1. row \in LeadLocks /\ other \in LeadLocks /\ row[1] = other[1] /\ row[1] # "booking"
        BY <1>1, <1>3, <3>1, <3>2 DEF OneTable
      <4>2. /\ row[1] \in {"message", "task"} /\ row[2] \in Messages /\ other[2] \in Messages
            /\ row = <<row[1], row[2]>> /\ other = <<other[1], other[2]>>
        BY <4>1 DEF LeadLocks
      <4>3. row[2] # other[2]
        BY <3>2, <4>1, <4>2
      <4>4. /\ row[1] = "message" => Place(ids, row[2]) <= Place(ids, other[2])
            /\ row[1] = "task" => Place(taskIds, row[2]) <= Place(taskIds, other[2])
        BY <1>1, <1>3 DEF Reaches, First
      <4>5. /\ Place(ids, row[2]) # Place(ids, other[2]) /\ Place(taskIds, row[2]) # Place(taskIds, other[2])
            /\ Len(ids) \in Nat /\ Len(taskIds) \in Nat
            /\ Rank(row) \in 0 .. Len(ids) + Len(taskIds) /\ Rank(other) \in 0 .. Len(ids) + Len(taskIds)
        BY <1>7, <4>1, <4>2, <4>3, Ranks
      <4>6. CASE row[1] = "message"
        <5>1. Rank(row) = Place(ids, row[2]) /\ Rank(other) = Place(ids, other[2])
          BY <4>1, <4>6 DEF Rank
        <5> QED
          BY <4>4, <4>5, <4>6, <5>1
      <4>7. CASE row[1] = "task"
        <5>1. Rank(row) = Len(ids) + Place(taskIds, row[2]) /\ Rank(other) = Len(ids) + Place(taskIds, other[2])
          BY <4>1, <4>7 DEF Rank
        <5>2. Place(taskIds, row[2]) \in Nat /\ Place(taskIds, other[2]) \in Nat
          BY <1>7, <4>2, Ranks
        <5> QED
          BY <4>4, <4>5, <4>7, <5>1, <5>2
      <4> QED
        BY <4>2, <4>6, <4>7
    <3>3. \A i \in DOMAIN rest : OneTable(rest[i])
      BY <1>5, <3>1 DEF OneTable
    <3>4. ASSUME NEW h \in x.held \cup {row}, NEW i \in DOMAIN rest, NEW other \in rest[i]
          PROVE  Rank(h) < Rank(other)
      <4>1. i + skipped \in DOMAIN x.need /\ other \in x.need[i + skipped]
        BY <1>5
      <4>2. CASE h \in x.held
        BY <3>1, <4>1, <4>2
      <4>3. CASE h = row /\ i + skipped = 1
        <5>1. other # row
          BY <1>5, <4>3
        <5> QED
          BY <3>2, <4>1, <4>3, <5>1
      <4>4. CASE h = row /\ i + skipped # 1
        <5>1. 1 < i + skipped /\ row \in x.need[1]
          BY <1>1, <1>3, <4>1, <4>4
        <5> QED
          BY <1>3, <3>1, <4>1, <4>4, <5>1
      <4> QED
        BY <4>2, <4>3, <4>4
    <3>5. ASSUME NEW i \in DOMAIN rest, NEW j \in DOMAIN rest, i < j,
                 NEW h \in rest[i], NEW other \in rest[j]
          PROVE  Rank(h) < Rank(other)
      <4>1. /\ i + skipped \in DOMAIN x.need /\ h \in x.need[i + skipped]
            /\ j + skipped \in DOMAIN x.need /\ other \in x.need[j + skipped]
        BY <1>5
      <4>2. i + skipped < j + skipped
        BY <1>5, <3>5
      <4> QED
        BY <3>1, <4>1, <4>2
    <3> QED
      BY <1>6, <3>3, <3>4, <3>5 DEF InTurn
  <2> QED
    BY <2>1, <2>2
<1> QED
  BY <1>4, <1>8, <1>9, StepOrdered DEF LeadInv

\* A beginning, and what follows with no statement under way or gone further, keep the order.
LEMMA BeginsOrdered ==
  ASSUME LeadInv, OrderInv, NEW w \in Writers, NEW new, Runs(w, new), InTurn(new), OnlyEarly(new)
  PROVE  OrderInv'
BY StepOrdered DEF Runs, LeadInv

LEMMA GoesOnOrdered ==
  ASSUME LeadInv, OrderInv, NEW w \in Writers, NEW new, GoesOn(w, new), InTurn(new), OnlyEarly(new)
  PROVE  OrderInv'
BY StepOrdered DEF GoesOn, LeadInv

LEMMA GoesOnFreely ==
  ASSUME LeadInv, OrderInv, NEW w \in Writers, NEW new, GoesOn(w, new),
         new.need = <<>> \/ GoesFurther(new), new.stage \notin {"first", "messages"}
  PROVE  OrderInv'
<1>1. InTurn(new) /\ OnlyEarly(new)
  BY NothingWanted DEF InTurn, OnlyEarly
<1> QED
  BY <1>1, GoesOnOrdered

LEMMA EndsOrdered ==
  ASSUME LeadInv, OrderInv, NEW w \in Writers, UNCHANGED lockOrder, writer' = [writer EXCEPT ![w] = NoRun]
  PROVE  OrderInv'
BY StepOrdered, NoRunOrdered DEF LeadInv

LEMMA ChangeBookingOrdered ==
  ASSUME LeadInv, OrderInv, NEW w \in Writers, NEW b \in LeadBookings,
         NEW op \in {"close", "confirm", "refresh"}, NEW to, ChangeBooking(w, b, op, to)
  PROVE  OrderInv'
<1> DEFINE new == [NoRun EXCEPT !.op = op, !.stage = "first", !.scope = {b}, !.result = to,
                                !.need = <<{BookingRow(b)}>>]
<1>1. new.need = <<{BookingRow(b)}>> /\ new.held = {}
  BY DEF NoRun
<1>2. Runs(w, new)
  BY DEF ChangeBooking
<1>3. BookingRow(b)[1] = "booking"
  BY DEF BookingRow
<1> HIDE DEF new
<1>4. InTurn(new) /\ \A other : Wants(new, other) => other = BookingRow(b)
  BY <1>1, RowInTurn
<1> QED
  BY <1>2, <1>3, <1>4, BeginsOrdered DEF OnlyEarly

LEMMA ExpireOrdered ==
  ASSUME LeadInv, OrderInv, NEW w \in Writers, Expire(w)
  PROVE  OrderInv'
<1> DEFINE chosen == {m \in Of(ended) : message[m] \in Cancellable}
           new == [NoRun EXCEPT !.op = "expire", !.stage = "messages", !.scope = ended,
                                !.rows = chosen, !.need = RowsLocked(chosen)]
<1>1. chosen \in SUBSET Messages
  BY DEF Of
<1>2. Runs(w, new)
  BY DEF Expire
<1> HIDE DEF chosen
<1>3. new.op = "expire" /\ new.stage = "messages" /\ new.need = RowsLocked(chosen) /\ new.held = {}
  BY DEF NoRun
<1> HIDE DEF new
<1>4. InTurn(new) /\ \A row : Wants(new, row) => row[1] \in {"booking", "message"}
  BY <1>1, <1>3, MessagesInTurn DEF OrderInv
<1> QED
  BY <1>2, <1>3, <1>4, BeginsOrdered DEF OnlyEarly

LEMMA ChooseDiagnosticsOrdered ==
  ASSUME LeadInv, OrderInv, NEW w \in Writers, NEW op \in {"owner", "contact"}, ChooseDiagnostics(w, op)
  PROVE  OrderInv'
<1>1. PICK chosen : Runs(w, [NoRun EXCEPT !.op = op, !.stage = "diagnostics", !.rows = chosen, !.need = RowsLocked(chosen)])
  BY DEF ChooseDiagnostics
<1> DEFINE new == [NoRun EXCEPT !.op = op, !.stage = "diagnostics", !.rows = chosen, !.need = RowsLocked(chosen)]
<1>2. new.op \in {"owner", "contact"} /\ new.stage = "diagnostics"
  BY DEF NoRun
<1> HIDE DEF new
<1>3. InTurn(new) /\ OnlyEarly(new)
  BY <1>2 DEF InTurn, OnlyEarly, GoesFurther
<1>4. Runs(w, new)
  BY <1>1 DEF new
<1> QED
  BY <1>3, <1>4, BeginsOrdered

\* A sender's booking and then its message, or a message alone.
LEMMA ClaimOrdered ==
  ASSUME LeadInv, OrderInv, NEW w \in Writers, NEW m \in Messages, Claim(w, m)
  PROVE  OrderInv'
<1> DEFINE row == BookingRow(About[m])
           other == MessageRow(m)
           new == [NoRun EXCEPT !.op = "claim", !.stage = "first", !.message = m, !.need = <<{row}, {other}>>]
<1>1. Runs(w, new)
  BY DEF Claim
<1>2. row \in LeadLocks /\ other \in LeadLocks /\ row[1] = "booking" /\ other[1] = "message"
  BY AckOf, LocksTyped DEF BookingRow, MessageRow
<1>3. Rank(row) < Rank(other)
  BY <1>2, Ranks DEF OrderInv
<1> HIDE DEF row, other
<1>4. /\ new.op = "claim" /\ new.stage = "first" /\ new.held = {} /\ new.need = <<{row}, {other}>>
  BY DEF NoRun
<1>5. DOMAIN new.need = {1, 2} /\ new.need[1] = {row} /\ new.need[2] = {other}
  BY <1>4
<1> HIDE DEF new
<1>6. InTurn(new)
  BY <1>3, <1>4, <1>5 DEF InTurn, OneTable
<1>7. OnlyEarly(new)
  BY <1>2, <1>4, <1>5 DEF OnlyEarly, Wants, Listed
<1> QED
  BY <1>1, <1>6, <1>7, BeginsOrdered

LEMMA OwnMessageOrdered ==
  ASSUME LeadInv, OrderInv, NEW w \in Writers, NEW m \in Messages, Record(w, m) \/ Report(w, m)
  PROVE  OrderInv'
<1>1. ASSUME NEW new, Runs(w, new), new.need = <<{MessageRow(m)}>>, new.held = {}, new.op \in {"record", "report"}
      PROVE  OrderInv'
  <2>1. InTurn(new) /\ \A other : Wants(new, other) => other = MessageRow(m)
    BY <1>1, RowInTurn
  <2>2. OnlyEarly(new)
    BY <1>1, <2>1 DEF OnlyEarly, MessageRow
  <2> QED
    BY <1>1, <2>1, <2>2, BeginsOrdered
<1>2. CASE Record(w, m)
  <2> DEFINE new == [NoRun EXCEPT !.op = "record", !.stage = "first", !.message = m, !.need = <<{MessageRow(m)}>>]
  <2>1. Runs(w, new) /\ new.need = <<{MessageRow(m)}>> /\ new.held = {} /\ new.op = "record"
    BY <1>2 DEF Record, NoRun
  <2> QED
    BY <1>1, <2>1
<1>3. CASE Report(w, m)
  <2> DEFINE new == [NoRun EXCEPT !.op = "report", !.stage = "first", !.message = m, !.result = "UNDELIVERED",
                                  !.need = <<{MessageRow(m)}>>]
  <2>1. Runs(w, new) /\ new.need = <<{MessageRow(m)}>> /\ new.held = {} /\ new.op = "report"
    BY <1>3 DEF Report, NoRun
  <2> QED
    BY <1>1, <2>1
<1> QED
  BY <1>2, <1>3

LEMMA RecoverOrdered ==
  ASSUME LeadInv, OrderInv, NEW w \in Writers, NEW m \in Messages, Recover(w, m)
  PROVE  OrderInv'
<1> DEFINE x == [NoRun EXCEPT !.op = "recover", !.message = m, !.result = "UNKNOWN", !.held = {MessageRow(m)}]
           new == Settling(x)
<1>1. x \in WriterRuns /\ x.message = m /\ x.need = <<>>
  BY NoRunTyped, LocksTyped DEF WriterRuns, WriterStages, WriterOps, NoRun, Statuses, Unsent
<1>2. Runs(w, new)
  BY DEF Recover
<1> HIDE DEF x
<1>3. new.need = <<>> /\ new.stage \in {"settle", "writing"}
  BY <1>1, SettlingIs
<1> HIDE DEF new
<1> QED
  BY <1>2, <1>3, NothingWanted, BeginsOrdered

\* A change that has chosen messages has bookings, and those it then locks.
LEMMA ChosenOrdered ==
  ASSUME LeadInv, OrderInv, NEW w \in Writers, NEW chosen \in SUBSET Messages, NEW stage \in {"messages", "writing"},
         writer[w].op \in {"close", "confirm", "refresh"}, writer[w].stage = "first",
         GoesOn(w, [writer[w] EXCEPT !.stage = stage, !.rows = chosen, !.need = RowsLocked(chosen)])
  PROVE  OrderInv'
<1> DEFINE x == writer[w]
           new == [x EXCEPT !.stage = stage, !.rows = chosen, !.need = RowsLocked(chosen)]
<1>1. x \in WriterRuns /\ x.held \subseteq LeadLocks
  BY DEF LeadInv, WritersTyped, WriterRuns
<1>2. new.stage = stage /\ new.held = x.held /\ new.need = RowsLocked(chosen)
  BY <1>1 DEF WriterRuns
<1>3. \A row \in x.held : row[1] = "booking"
  BY DEF OrderInv, OnlyEarly, Wants
<1>4. GoesOn(w, new)
  OBVIOUS
<1> HIDE DEF new
<1>5. InTurn(new) /\ \A row : Wants(new, row) => row[1] \in {"booking", "message"}
  BY <1>1, <1>2, <1>3, MessagesInTurn DEF OrderInv
<1>6. OnlyEarly(new)
  BY <1>2, <1>5 DEF OnlyEarly
<1> QED
  BY <1>4, <1>5, <1>6, GoesOnOrdered

LEMMA CheckChangeOrdered ==
  ASSUME LeadInv, OrderInv, NEW w \in Writers, CheckClose(w) \/ CheckConfirm(w) \/ CheckRefresh(w)
  PROVE  OrderInv'
<1>1. ASSUME GoesOn(w, NoRun)
      PROVE  OrderInv'
  BY <1>1, EndsOrdered DEF GoesOn
<1>2. PICK chosen \in SUBSET Messages, stage \in {"messages", "writing"} :
         /\ writer[w].op \in {"close", "confirm", "refresh"} /\ writer[w].stage = "first"
         /\ \/ GoesOn(w, NoRun)
            \/ GoesOn(w, [writer[w] EXCEPT !.stage = stage, !.rows = chosen, !.need = RowsLocked(chosen)])
  <2> DEFINE Some(status) == {m \in Of(writer[w].scope) : message[m] \in status}
  <2>1. \A status : Some(status) \in SUBSET Messages
    BY DEF Of
  <2>2. CASE CheckClose(w)
    <3>1. /\ writer[w].op = "close" /\ writer[w].stage = "first"
          /\ \/ GoesOn(w, NoRun)
             \/ GoesOn(w, [writer[w] EXCEPT !.stage = "messages", !.rows = Some(Cancellable),
                                            !.need = RowsLocked(Some(Cancellable))])
      BY <2>2 DEF CheckClose, Reached
    <3> HIDE DEF Some
    <3> QED
      BY <2>1, <3>1
  <2>3. CASE CheckConfirm(w)
    <3>1. /\ writer[w].op = "confirm" /\ writer[w].stage = "first"
          /\ \/ GoesOn(w, NoRun)
             \/ GoesOn(w, [writer[w] EXCEPT !.stage = "messages", !.rows = Some(Unsent),
                                            !.need = RowsLocked(Some(Unsent))])
      BY <2>3 DEF CheckConfirm, Reached
    <3> HIDE DEF Some
    <3> QED
      BY <2>1, <3>1
  <2>4. CASE CheckRefresh(w)
    <3> DEFINE status == ToCheckAgain \cup {"CLAIMED"}
    <3>1. /\ writer[w].op = "refresh" /\ writer[w].stage = "first"
          /\ \/ GoesOn(w, NoRun)
             \/ GoesOn(w, [writer[w] EXCEPT !.stage = "writing", !.rows = Some(status), !.need = RowsLocked(Some(status))])
      BY <2>4 DEF CheckRefresh, Reached
    <3> HIDE DEF Some, status
    <3> QED
      BY <2>1, <3>1
  <2> QED
    BY <2>2, <2>3, <2>4
<1> QED
  BY <1>1, <1>2, ChosenOrdered

LEMMA ChooseStepsOrdered ==
  ASSUME LeadInv, OrderInv, NEW w \in Writers, ChooseSteps(w)
  PROVE  OrderInv'
<1> DEFINE x == writer[w]
           chosen == {m \in Of(x.scope) : step[m] = "OPEN" /\ (x.op = "confirm" => m \notin Acknowledgements)}
           new == [x EXCEPT !.stage = "writing", !.steps = chosen, !.need = TasksLocked(chosen)]
<1>1. chosen \in SUBSET Messages
  BY DEF Of
<1>2. GoesOn(w, new) /\ x.stage = "messages"
  BY DEF ChooseSteps, Reached
<1> HIDE DEF chosen
<1>3. x \in WriterRuns /\ x.held \subseteq LeadLocks
  BY DEF LeadInv, WritersTyped, WriterRuns
<1>4. new.stage = "writing" /\ new.held = x.held /\ new.need = TasksLocked(chosen)
  BY <1>3 DEF WriterRuns
<1>5. \A row \in x.held : row[1] \in {"booking", "message"}
  BY <1>2 DEF OrderInv, OnlyEarly, Wants
<1> HIDE DEF new
<1>6. InTurn(new)
  BY <1>1, <1>3, <1>4, <1>5, TasksInTurn DEF OrderInv
<1> QED
  BY <1>2, <1>4, <1>6, GoesOnOrdered DEF OnlyEarly

LEMMA ChooseMoreOrdered ==
  ASSUME LeadInv, OrderInv, NEW w \in Writers, ChooseDemos(w) \/ ChooseOpenSteps(w)
  PROVE  OrderInv'
<1> DEFINE x == writer[w]
<1>1. x \in WriterRuns
  BY DEF LeadInv, WritersTyped
<1>2. x.op \in {"owner", "contact"}
  BY DEF ChooseDemos, ChooseOpenSteps, Reached
<1>3. ASSUME NEW stage \in {"demos", "writing"}, NEW rows, NEW need,
             GoesOn(w, [x EXCEPT !.stage = stage, !.rows = rows, !.need = need])
      PROVE  OrderInv'
  <2> DEFINE new == [x EXCEPT !.stage = stage, !.rows = rows, !.need = need]
  <2>1. new.op = x.op /\ new.stage = stage
    BY <1>1 DEF WriterRuns
  <2> QED
    BY <1>2, <1>3, <2>1, GoesOnFreely DEF GoesFurther
<1>4. CASE ChooseDemos(w)
  BY <1>2, <1>3, <1>4 DEF ChooseDemos
<1>5. CASE ChooseOpenSteps(w)
  <2> DEFINE need == TasksLocked({m \in Messages : step[m] = "OPEN"})
             new == [x EXCEPT !.stage = "writing", !.need = need]
  <2>1. GoesOn(w, new)
    BY <1>5 DEF ChooseOpenSteps
  <2> HIDE DEF need
  <2>2. new.op = x.op /\ new.stage = "writing"
    BY <1>1 DEF WriterRuns
  <2> QED
    BY <1>2, <2>1, <2>2, GoesOnFreely DEF GoesFurther
<1> QED
  BY <1>4, <1>5

\* What a sender found lets it go on, with its message and the booking's lock.
LEMMA CheckClaimOrdered ==
  ASSUME LeadInv, OrderInv, NEW w \in Writers, CheckClaim(w)
  PROVE  OrderInv'
<1> DEFINE x == writer[w]
<1>1. x.op = "claim" /\ x.need = <<>>
  BY DEF CheckClaim, Reached
<1>2. x \in WriterRuns /\ x.message \in Messages
  BY <1>1, HasOwn DEF Senders
<1>3. CASE GoesOn(w, NoRun)
  BY <1>3, EndsOrdered DEF GoesOn
<1>4. CASE GoesOn(w, Settling([x EXCEPT !.result = "CANCELLED"]))
  <2> DEFINE y == [x EXCEPT !.result = "CANCELLED"]
  <2>1. y \in WriterRuns /\ y.message \in Messages /\ y.need = <<>>
    BY <1>1, <1>2 DEF WriterRuns, Statuses, Unsent
  <2> HIDE DEF y
  <2>2. Settling(y).need = <<>> /\ Settling(y).stage \in {"settle", "writing"}
    BY <2>1, SettlingIs
  <2> QED
    BY <1>4, <2>2, GoesOnFreely DEF y
<1>5. ASSUME NEW r, GoesOn(w, [x EXCEPT !.stage = "writing", !.result = r])
      PROVE  OrderInv'
  <2> DEFINE new == [x EXCEPT !.stage = "writing", !.result = r]
  <2>1. new.need = <<>> /\ new.stage = "writing"
    BY <1>1, <1>2 DEF WriterRuns
  <2> QED
    BY <1>5, <2>1, GoesOnFreely
<1>6. \/ GoesOn(w, NoRun) \/ GoesOn(w, Settling([x EXCEPT !.result = "CANCELLED"]))
      \/ \E r : GoesOn(w, [x EXCEPT !.stage = "writing", !.result = r])
  BY DEF CheckClaim
<1> QED
  BY <1>3, <1>4, <1>5, <1>6

\* A sender that was told its message is taken locks its step after its message.
LEMMA AcceptedOrdered ==
  ASSUME LeadInv, OrderInv, NEW w \in Writers, writer[w].op = "record", writer[w].stage = "first",
         writer[w].need = <<>>, GoesOn(w, Accepted(writer[w]))
  PROVE  OrderInv'
<1> DEFINE x == writer[w]
           y == [x EXCEPT !.result = "TAKEN"]
           open == IF step[x.message] \in {"OPEN", "MISSED"} THEN {x.message} ELSE {}
           new == Accepted(x)
<1>1. x \in WriterRuns /\ x.message \in Messages
  BY HasOwn DEF Senders
<1>2. y \in WriterRuns /\ y.message = x.message /\ y.held = x.held
  BY <1>1 DEF WriterRuns, Statuses
<1> HIDE DEF y
<1>3. Settling(y) \in WriterRuns /\ Settling(y).stage \in {"settle", "writing"} /\ Settling(y).held = x.held
  BY <1>1, <1>2, SettlingIs
<1>4. new = [Settling(y) EXCEPT
                 !.steps = {x.message},
                 !.need = IF step[x.message] \in {"OPEN", "MISSED"} THEN <<{TaskRow(x.message)}>> ELSE <<>>]
  BY DEF Accepted, y
<1>5. (IF step[x.message] \in {"OPEN", "MISSED"} THEN <<{TaskRow(x.message)}>> ELSE <<>>) = TasksLocked(open)
  <2>1. {TaskRow(m) : m \in {x.message}} = {TaskRow(x.message)} /\ {TaskRow(m) : m \in {}} = {}
    OBVIOUS
  <2> QED
    BY <2>1 DEF TasksLocked, Locking
<1>6. new.stage \in {"settle", "writing"} /\ new.held = x.held /\ new.need = TasksLocked(open)
  <2> HIDE DEF new, open
  <2> QED
    BY <1>3, <1>4, <1>5 DEF WriterRuns
<1>7. x.held \subseteq LeadLocks /\ \A row \in x.held : row[1] \in {"booking", "message"}
  BY <1>1 DEF OrderInv, OnlyEarly, Wants, WriterRuns
<1>8. open \in SUBSET Messages
  BY <1>1
<1> HIDE DEF new, open
<1>9. InTurn(new)
  BY <1>6, <1>7, <1>8, TasksInTurn DEF OrderInv
<1>10. OnlyEarly(new)
  BY <1>6 DEF OnlyEarly
<1> QED
  BY <1>9, <1>10, GoesOnOrdered DEF new

LEMMA RecordResultOrdered ==
  ASSUME LeadInv, OrderInv, NEW w \in Writers, RecordResult(w)
  PROVE  OrderInv'
<1> DEFINE x == writer[w]
<1>1. x.op = "record" /\ x.stage = "first" /\ x.need = <<>>
  BY DEF RecordResult, Reached
<1>2. x \in WriterRuns /\ x.message \in Messages
  BY <1>1, HasOwn DEF Senders
<1>3. ASSUME NEW r \in Statuses, GoesOn(w, Settling([x EXCEPT !.result = r]))
      PROVE  OrderInv'
  <2> DEFINE y == [x EXCEPT !.result = r]
  <2>1. y \in WriterRuns /\ y.message \in Messages /\ y.need = <<>>
    BY <1>1, <1>2 DEF WriterRuns
  <2> HIDE DEF y
  <2>2. Settling(y).need = <<>> /\ Settling(y).stage \in {"settle", "writing"}
    BY <2>1, SettlingIs
  <2> QED
    BY <1>3, <2>2, GoesOnFreely DEF y
<1>4. ASSUME NEW r, GoesOn(w, [x EXCEPT !.stage = "writing", !.result = r])
      PROVE  OrderInv'
  <2> DEFINE new == [x EXCEPT !.stage = "writing", !.result = r]
  <2>1. new.need = <<>> /\ new.stage = "writing"
    BY <1>1, <1>2 DEF WriterRuns
  <2> QED
    BY <1>4, <2>1, GoesOnFreely
<1>5. \/ GoesOn(w, Accepted(x))
      \/ \E r \in Statuses : GoesOn(w, Settling([x EXCEPT !.result = r]))
      \/ \E r : GoesOn(w, [x EXCEPT !.stage = "writing", !.result = r])
  BY DEF RecordResult, Statuses, Unsent
<1> QED
  BY <1>1, <1>3, <1>4, <1>5, AcceptedOrdered

\* On the way through the later bookings it has gone further, or waits for nothing.
LEMMA OnTheWay ==
  ASSUME LeadInv, OrderInv, NEW w \in Writers, writer[w].need = <<>>,
         NEW stage \in {"settle", "settled", "release", "reopen", "writing"}, NEW later, NEW rows, NEW steps, NEW need,
         need = <<>> \/ stage \in {"settled", "release", "reopen"} \/ (stage = "settle" /\ rows # {}),
         GoesOn(w, [writer[w] EXCEPT !.stage = stage, !.later = later, !.rows = rows, !.steps = steps, !.need = need])
  PROVE  OrderInv'
<1> DEFINE new == [writer[w] EXCEPT !.stage = stage, !.later = later, !.rows = rows, !.steps = steps, !.need = need]
<1>1. writer[w] \in WriterRuns
  BY DEF LeadInv, WritersTyped
<1>2. new.stage = stage /\ new.rows = rows /\ new.need = need
  BY <1>1 DEF WriterRuns
<1>3. GoesOn(w, new)
  OBVIOUS
<1> HIDE DEF new
<1> QED
  BY <1>2, <1>3, GoesOnFreely DEF GoesFurther

LEMMA SettleOrdered ==
  ASSUME LeadInv, OrderInv, NEW w \in Writers, SettleNext(w) \/ SettleRow(w)
  PROVE  OrderInv'
<1> DEFINE x == writer[w]
           a == Ack(Head(x.later))
           To(stage, later, rows, steps, need) ==
              [x EXCEPT !.stage = stage, !.later = later, !.rows = rows, !.steps = steps, !.need = need]
<1>1. x.need = <<>> /\ x \in WriterRuns
  BY DEF SettleNext, SettleRow, Reached, LeadInv, WritersTyped
<1> DEFINE GoesTo(stage, later, rows, steps, need) == GoesOn(w, To(stage, later, rows, steps, need))
<1>0. ASSUME NEW stage \in {"settle", "settled", "release", "reopen", "writing"},
             NEW later, NEW rows, NEW steps, NEW need, GoesTo(stage, later, rows, steps, need),
             need = <<>> \/ stage \in {"settled", "release", "reopen"} \/ (stage = "settle" /\ rows # {})
      PROVE  OrderInv'
  BY ZenonT(60), <1>0, <1>1, OnTheWay
<1>2. CASE SettleNext(w)
  <2>1. \/ GoesOn(w, [x EXCEPT !.stage = "writing"])
        \/ GoesOn(w, [x EXCEPT !.stage = "settled", !.need = <<{MessageRow(a)}>>])
        \/ x.stage = "settle" /\ GoesOn(w, [x EXCEPT !.later = Tail(@)])
    BY <1>2 DEF SettleNext, Reached
  <2>2. /\ [x EXCEPT !.stage = "writing"] = To("writing", x.later, x.rows, x.steps, <<>>)
        /\ [x EXCEPT !.stage = "settled", !.need = <<{MessageRow(a)}>>]
              = To("settled", x.later, x.rows, x.steps, <<{MessageRow(a)}>>)
        /\ x.stage = "settle" => [x EXCEPT !.later = Tail(@)] = To("settle", Tail(x.later), x.rows, x.steps, <<>>)
    BY <1>1 DEF WriterRuns
  <2> HIDE DEF To
  <2> QED
    BY <1>0, <2>1, <2>2
<1>3. CASE SettleRow(w)
  <2>1. \/ \E steps, need : GoesOn(w, [x EXCEPT !.stage = "settle", !.later = Tail(@), !.rows = @ \cup {a},
                                                !.steps = steps, !.need = need])
        \/ GoesOn(w, [x EXCEPT !.stage = "settle", !.later = Tail(@)])
    BY <1>3 DEF SettleRow
  <2>2. /\ \A steps, need :
              [x EXCEPT !.stage = "settle", !.later = Tail(@), !.rows = @ \cup {a}, !.steps = steps, !.need = need]
                 = To("settle", Tail(x.later), x.rows \cup {a}, steps, need)
        /\ [x EXCEPT !.stage = "settle", !.later = Tail(@)] = To("settle", Tail(x.later), x.rows, x.steps, <<>>)
    BY <1>1 DEF WriterRuns
  <2>3. ASSUME NEW steps, NEW need,
               GoesOn(w, [x EXCEPT !.stage = "settle", !.later = Tail(@), !.rows = @ \cup {a}, !.steps = steps, !.need = need])
        PROVE  OrderInv'
    <3>1. GoesTo("settle", Tail(x.later), x.rows \cup {a}, steps, need)
      BY <2>2, <2>3, Zenon
    <3> HIDE DEF GoesTo
    <3> QED
      BY <1>0, <3>1
  <2>4. ASSUME GoesOn(w, [x EXCEPT !.stage = "settle", !.later = Tail(@)])
        PROVE  OrderInv'
    <3>1. GoesTo("settle", Tail(x.later), x.rows, x.steps, <<>>)
      BY <2>2, <2>4, Zenon
    <3> QED
      BY <1>0, <3>1
  <2> QED
    BY <2>1, <2>3, <2>4
<1> QED
  BY <1>2, <1>3

LEMMA ReleaseOrdered ==
  ASSUME LeadInv, OrderInv, NEW w \in Writers,
         CheckReport(w) \/ ReleaseNext(w) \/ ReleaseLocked(w) \/ Reopen(w)
  PROVE  OrderInv'
<1> DEFINE x == writer[w]
           b == Head(x.later)
           To(stage, later, rows, need) ==
              [x EXCEPT !.stage = stage, !.later = later, !.rows = rows, !.steps = x.steps, !.need = need]
<1>1. x.need = <<>> /\ x \in WriterRuns
  BY DEF CheckReport, ReleaseNext, ReleaseLocked, Reopen, Reached, LeadInv, WritersTyped
<1> DEFINE GoesTo(stage, later, rows, need) == GoesOn(w, To(stage, later, rows, need))
<1>0. ASSUME NEW stage \in {"settle", "settled", "release", "reopen", "writing"},
             NEW later, NEW rows, NEW need, GoesTo(stage, later, rows, need),
             need = <<>> \/ stage \in {"settled", "release", "reopen"} \/ (stage = "settle" /\ rows # {})
      PROVE  OrderInv'
  BY <1>0, <1>1, OnTheWay
<1>2. CASE CheckReport(w)
  <2>1. x.message \in Messages
    BY <1>1, <1>2, HasOwn DEF CheckReport, Reached
  <2>2. Settling(x).need = <<>> /\ Settling(x).stage \in {"settle", "writing"}
    BY <1>1, <2>1, SettlingIs
  <2>3. GoesOn(w, Settling(x)) \/ GoesOn(w, NoRun)
    BY <1>2 DEF CheckReport
  <2> QED
    BY <2>2, <2>3, GoesOnFreely, GoesOnOrdered, NoRunOrdered
<1>3. CASE ReleaseNext(w)
  <2>1. \/ GoesOn(w, [x EXCEPT !.stage = "writing"])
        \/ GoesOn(w, [x EXCEPT !.stage = "release", !.need = <<{BookingRow(b)}>>])
        \/ x.stage = "settle" /\ GoesOn(w, [x EXCEPT !.later = Tail(@)])
    BY <1>3 DEF ReleaseNext, Reached
  <2>2. /\ [x EXCEPT !.stage = "writing"] = To("writing", x.later, x.rows, <<>>)
        /\ [x EXCEPT !.stage = "release", !.need = <<{BookingRow(b)}>>] = To("release", x.later, x.rows, <<{BookingRow(b)}>>)
        /\ x.stage = "settle" => [x EXCEPT !.later = Tail(@)] = To("settle", Tail(x.later), x.rows, <<>>)
    BY <1>1 DEF WriterRuns
  <2> HIDE DEF To
  <2> QED
    BY <1>0, <2>1, <2>2
<1>4. CASE ReleaseLocked(w)
  <2>1. \/ \E need : GoesOn(w, [x EXCEPT !.stage = "reopen", !.need = need])
        \/ GoesOn(w, [x EXCEPT !.stage = "settle", !.later = Tail(@)])
    BY <1>4 DEF ReleaseLocked
  <2>2. /\ \A need : [x EXCEPT !.stage = "reopen", !.need = need] = To("reopen", x.later, x.rows, need)
        /\ [x EXCEPT !.stage = "settle", !.later = Tail(@)] = To("settle", Tail(x.later), x.rows, <<>>)
    BY <1>1 DEF WriterRuns
  <2>3. ASSUME NEW need, GoesOn(w, [x EXCEPT !.stage = "reopen", !.need = need])
        PROVE  OrderInv'
    <3>1. GoesTo("reopen", x.later, x.rows, need)
      BY <2>2, <2>3, Zenon
    <3> QED
      BY <1>0, <3>1
  <2>4. ASSUME GoesOn(w, [x EXCEPT !.stage = "settle", !.later = Tail(@)])
        PROVE  OrderInv'
    <3>1. GoesTo("settle", Tail(x.later), x.rows, <<>>)
      BY <2>2, <2>4, Zenon
    <3> QED
      BY <1>0, <3>1
  <2> QED
    BY <2>1, <2>3, <2>4
<1>5. CASE Reopen(w)
  <2>1. \E rows : GoesOn(w, [x EXCEPT !.stage = "settle", !.later = Tail(@), !.rows = rows])
    BY <1>5 DEF Reopen
  <2>2. \A rows : [x EXCEPT !.stage = "settle", !.later = Tail(@), !.rows = rows] = To("settle", Tail(x.later), rows, <<>>)
    BY <1>1 DEF WriterRuns
  <2>3. \E rows : GoesTo("settle", Tail(x.later), rows, <<>>)
    <3> HIDE DEF To
    <3> QED
      BY ZenonT(60), <2>1, <2>2
  <2> HIDE DEF GoesTo
  <2> QED
    BY <1>0, <2>3
<1> QED
  BY <1>2, <1>3, <1>4, <1>5

LEMMA WritingOrdered ==
  ASSUME LeadInv, OrderInv, NEW w \in Writers, WritesRows(w)
  PROVE  OrderInv'
<1>1. writer' = [writer EXCEPT ![w] = NoRun] /\ UNCHANGED lockOrder
  BY DEF WritesRows, WriteClosed, WriteConfirm, WriteRefreshed, WriteResult, WriteReport, WritesAll
<1> QED
  BY <1>1, EndsOrdered

LEMMA NextOrdered == ASSUME LeadInv, OrderInv, [NextMessages]_messageVars PROVE OrderInv'
<1>1. CASE UNCHANGED <<lockOrder, writer>>
  <2>1. ASSUME NEW v \in Writers, NEW x, x = writer[v]
        PROVE  InTurn(x)' /\ OnlyEarly(x)'
    BY <1>1, <2>1, SameRanks DEF OrderInv
  <2> QED
    BY <1>1, <2>1, SameRanks DEF OrderInv
<1>2. UNCHANGED messageVars => UNCHANGED <<lockOrder, writer>>
  BY DEF messageVars
<1>3. ASSUME NEW b \in LeadBookings, ScheduledTimeComes(b)
      PROVE  UNCHANGED <<lockOrder, writer>>
  BY <1>3 DEF ScheduledTimeComes
<1>4. ASSUME NEW w \in Writers, BeginsRun(w)
      PROVE  OrderInv'
  <2>1. ASSUME NEW b \in LeadBookings,
               \/ ChangeBooking(w, b, "close", "CANCELLED") \/ ChangeBooking(w, b, "confirm", "CONFIRMED")
               \/ ChangeBooking(w, b, "refresh", "NONE")
        PROVE  OrderInv'
    BY <2>1, ChangeBookingOrdered
  <2> QED
    BY <1>4, <2>1, ExpireOrdered, ChooseDiagnosticsOrdered, ClaimOrdered, OwnMessageOrdered, RecoverOrdered
       DEF BeginsRun
<1>5. ASSUME NEW w \in Writers, GoesOnWith(w)
      PROVE  OrderInv'
  BY <1>5, CheckChangeOrdered, ChooseStepsOrdered, ChooseMoreOrdered, CheckClaimOrdered, RecordResultOrdered,
     SettleOrdered, ReleaseOrdered DEF GoesOnWith
<1>6. ASSUME NEW w \in Writers, CircleBroken(w)
      PROVE  OrderInv'
  BY <1>6, EndsOrdered DEF CircleBroken
<1> QED
  BY <1>1, <1>2, <1>3, <1>4, <1>5, <1>6, LockRowOrdered, WritingOrdered DEF NextMessages

LEMMA InitOrdered == ASSUME InitMessages PROVE OrderInv
<1>1. PICK start \in MessagesAtStart : ids = start.ids /\ taskIds = start.taskIds
  BY DEF InitMessages
<1>2. start \in LeadRows
  BY MessageLocksAssumption
<1>3. IdsRight
  BY <1>1, <1>2, MessagesStartAssumption DEF IdsRight, LeadRows
<1>4. \A w \in Writers : writer[w] = NoRun
  BY DEF InitMessages
<1> QED
  BY <1>3, <1>4, NoRunOrdered DEF OrderInv

\* A set of numbers that is not empty has a least one.
LEMMA LeastNumber ==
  ASSUME NEW S \in SUBSET Nat, S # {}
  PROVE  \E n \in S : \A m \in S : n <= m
<1>1. PICK n \in S : \A m \in S : ~ (<<m, n>> \in OpToRel(<, Nat))
  BY WFMin, NatLessThanWellFounded
<1>2. ASSUME NEW m \in S
      PROVE  n <= m
  <2>1. ~(m < n)
    BY <1>1, <1>2 DEF OpToRel
  <2> QED
    BY <2>1
<1> QED
  BY <1>2

\* Of those that all wait for one another, one waits for a row that comes last: but who has that row waits for one
\* that comes later, unless it has gone further.
LEMMA OrderedCircles == ASSUME LeadInv, OrderInv PROVE CirclesOnlyBySettling
<1> SUFFICES ASSUME NEW set \in (SUBSET Writers) \ {{}}, \A v \in set : \E w \in set : HeldUp(v, w),
                    \A v \in set : ~GoesFurther(writer[v])
             PROVE  FALSE
  BY DEF CirclesOnlyBySettling
<1> set \subseteq Writers /\ set # {}
  OBVIOUS
<1> DEFINE Waited(v, row) == Reaches(writer[v], row) /\ \E w \in set : row \in writer[w].held
           waited(v) == CHOOSE row : Waited(v, row)
           all == Len(ids) + Len(taskIds)
           left == {all - Rank(waited(v)) : v \in set}
<1>1. \A v \in set : Waited(v, waited(v))
  <2>1. ASSUME NEW v \in set
        PROVE  \E row : Waited(v, row)
    <3>1. PICK w \in set : HeldUp(v, w)
      OBVIOUS
    <3>2. \E row \in writer[w].held : Reaches(writer[v], row)
      BY <3>1 DEF HeldUp
    <3> QED
      BY <3>2
  <2> HIDE DEF Waited
  <2> QED
    BY <2>1
<1> HIDE DEF waited
<1>2. ASSUME NEW v \in set
      PROVE  /\ waited(v) \in LeadLocks
             /\ 1 \in DOMAIN writer[v].need /\ waited(v) \in writer[v].need[1]
  <2>1. writer[v].need \in Seq(SUBSET LeadLocks)
    BY DEF LeadInv, WritersTyped, WriterRuns
  <2>2. writer[v].need # <<>> /\ waited(v) \in Head(writer[v].need)
    BY <1>1 DEF Reaches
  <2>3. Head(writer[v].need) = writer[v].need[1] /\ Head(writer[v].need) \in SUBSET LeadLocks /\ 1 \in DOMAIN writer[v].need
    <3> DEFINE need == writer[v].need
    <3>1. need \in Seq(SUBSET LeadLocks) /\ need # <<>>
      BY <2>1, <2>2
    <3> HIDE DEF need
    <3>2. Head(need) = need[1] /\ Head(need) \in SUBSET LeadLocks /\ 1 \in DOMAIN need
      BY <3>1
    <3> QED
      BY <3>2 DEF need
  <2> QED
    BY <2>2, <2>3
<1>3. /\ all \in Nat
      /\ \A v \in set : Rank(waited(v)) \in 0 .. all
  <2>1. Len(ids) \in Nat /\ Len(taskIds) \in Nat
    BY Ranks DEF OrderInv
  <2>2. ASSUME NEW v \in set
        PROVE  Rank(waited(v)) \in 0 .. all
    BY <1>2, Ranks DEF OrderInv
  <2> QED
    BY <2>1, <2>2
<1>4. ASSUME NEW v \in set
      PROVE  \E w \in set : Rank(waited(v)) < Rank(waited(w))
  <2>1. PICK w \in set : waited(v) \in writer[w].held
    BY <1>1
  <2>2. InTurn(writer[w])
    BY DEF OrderInv
  <2> QED
    BY <1>2, <2>1, <2>2 DEF InTurn
<1>5. left \in SUBSET Nat /\ left # {}
  <2> HIDE DEF all
  <2> QED
    BY <1>3
<1>6. PICK n \in left : \A m \in left : n <= m
  <2> HIDE DEF left
  <2> QED
    BY <1>5, LeastNumber
<1>7. PICK v \in set : n = all - Rank(waited(v))
  OBVIOUS
<1>8. PICK w \in set : Rank(waited(v)) < Rank(waited(w))
  BY <1>4
<1>9. all - Rank(waited(v)) <= all - Rank(waited(w))
  BY <1>6, <1>7
<1>10. Rank(waited(v)) \in 0 .. all /\ Rank(waited(w)) \in 0 .. all
  BY <1>3
<1> HIDE DEF all
<1> QED
  BY <1>3, <1>8, <1>9, <1>10

\* Transactions on a lead's messages that wait for each other in a circle, however many they are and whatever the
\* order of ids, have one among them that goes on from its own acknowledgement to those of later bookings, or
\* changes the lead's owner or a contact.
THEOREM CirclesBySettling == SpecMessages => []CirclesOnlyBySettling
<1>1. LeadInv /\ OrderInv /\ [NextMessages]_messageVars => OrderInv'
  BY NextOrdered
<1>2. LeadInv /\ OrderInv => CirclesOnlyBySettling
  BY OrderedCircles
<1> QED
  BY <1>1, <1>2, InitOrdered, LeadInvariant, PTL DEF SpecMessages
=============================================================================
