-------------------------- MODULE EnrolmentProofs ---------------------------
(***************************************************************************)
(* What TLAPS proves of Enrolment, for any tasks, parents, children,       *)
(* invitations and sheet: its types, for a quota is a number whatever rows *)
(* the sheet has; and that a child is enrolled for a parent who was        *)
(* invited for it, and an accepted invitation has enrolled its child.      *)
(***************************************************************************)
EXTENDS Enrolment, FiniteSetTheorems, SequenceTheorems, WellFoundedInduction, TLAPS

Known == {"PENDING", "ACCEPTED"}

TaskRows ==
    [op : EnrolmentOps \cup {None}, stage : {None, "read", "found", "known", "new", "fetched"},
     parent : Parents \cup {None}, child : Children \cup {None}, id : Invitations \cup {None},
     row : InvitationRows \cup PupilRows, quota : Nat \cup {None},
     found : SUBSET (Invitations \X InvitationRows), mine : SUBSET Children]

RowsShaped ==
    /\ parents \subseteq Parents
    /\ invitation \in [Invitations -> InvitationRows]
    /\ pupil \in [Children -> PupilRows]
    /\ task \in [Tasks -> TaskRows]
    /\ sheet \in [Children -> Seq(Cells)]
    /\ hourly.stage = "fetched" => hourly.read \in [Children -> Seq(Cells)]
    /\ \A c \in DOMAIN hourly.quotas : hourly.quotas[c] \in Nat

\* An invitation that is there is someone's for a child, who were invited; another names nobody
InvitationFits(row) ==
    IF row.status \in Known
      THEN row.parent \in Parents /\ row.child \in Children /\ [parent |-> row.parent, child |-> row.child] \in ever
      ELSE row.parent = None /\ row.child = None

\* What a request has read was so, and whom it names were invited
TaskFits(r) ==
    /\ r.op = "invite" => r.parent \in Parents /\ r.child \in Children /\ r.quota \in Nat
    /\ r.op = "change_email" => /\ r.id \in Invitations /\ r.parent \in Parents /\ r.row \in InvitationRows
                                /\ r.row.status = "PENDING" /\ r.row.child \in Children
    /\ r.op = "withdraw" => r.id \in Invitations
    /\ r.op = "sync_one" => r.child \in Children /\ (r.stage = "fetched" => r.quota \in Nat)
    /\ r.op = "sign_in_parent" =>
          /\ r.parent \in Parents
          /\ \A f \in r.found : f[2].child \in Children /\ [parent |-> r.parent, child |-> f[2].child] \in ever

\* What a request holds of an invitation says which child it is for
TaskSays(r, i, c) ==
    \/ r.op = "invite" /\ r.id = i /\ r.child = c
    \/ r.op = "change_email" /\ r.id = i /\ r.row.child = c
    \/ r.op = "sign_in_parent" /\ \E f \in r.found : f[1] = i /\ f[2].child = c

Says(i, c) ==
    \/ invitation[i].status \in Known /\ invitation[i].child = c
    \/ \E t \in Tasks : TaskSays(task[t], i, c)

\* An invitation is for one child, whatever becomes of it, and one never sent is for none
OneChild ==
    \A i \in Invitations :
        /\ \A c, d \in Children : Says(i, c) /\ Says(i, d) => c = d
        /\ invitation[i].status = "ABSENT" => \A c \in Children : ~ Says(i, c)

EnrolmentInv ==
    /\ RowsShaped
    /\ \A i \in Invitations : InvitationFits(invitation[i])
    /\ \A t \in Tasks : TaskFits(task[t])
    /\ OneChild
    /\ EnrolledByInvitation

-----------------------------------------------------------------------------
(***************************************************************************)
(* What the sheet states                                                   *)
(***************************************************************************)
\* What the numbers f[x] add up to for x in T, when g says it of the smaller parts of S
Step(f, g, T) == IF T = {} THEN 0 ELSE LET x == CHOOSE x \in T : TRUE IN f[x] + g[T \ {x}]

Sums(f, g, U) == g = [T \in U |-> Step(f, g, T)]

\* The parts of S of up to n elements
UpTo(S, n) == {T \in SUBSET S : Cardinality(T) <= n}

\* A set of numbers that is not empty has a least one.
LEMMA Least ==
  ASSUME NEW S \in SUBSET Nat, S # {}
  PROVE  \E n \in S : \A m \in S : n <= m
<1>1. PICK n \in S : \A m \in S : ~ (<<m, n>> \in OpToRel(<, Nat))
  BY WFMin, NatLessThanWellFounded
<1>2. ASSUME NEW m \in S
      PROVE  n <= m
  <2>1. ~ (m < n)
    BY <1>1, <1>2 DEF OpToRel
  <2> QED
    BY <2>1
<1> QED
  BY <1>2

\* A part without one of its elements is smaller by one.
LEMMA PartsFinite ==
  ASSUME NEW S, IsFiniteSet(S)
  PROVE  /\ \A T \in SUBSET S : IsFiniteSet(T) /\ Cardinality(T) \in Nat
         /\ \A T \in SUBSET S : T # {} =>
               LET x == CHOOSE x \in T : TRUE IN
               x \in T /\ T \ {x} \in SUBSET S /\ Cardinality(T \ {x}) = Cardinality(T) - 1
<1>1. \A T \in SUBSET S : IsFiniteSet(T) /\ Cardinality(T) \in Nat
  BY FS_Subset, FS_CardinalityType
<1>2. ASSUME NEW T \in SUBSET S, NEW x \in T
      PROVE  Cardinality(T \ {x}) = Cardinality(T) - 1
  BY <1>1, FS_RemoveElement
<1>3. ASSUME NEW T \in SUBSET S, T # {}
      PROVE  (CHOOSE x \in T : TRUE) \in T
  BY <1>3
<1> QED
  BY <1>1, <1>2, <1>3

\* The recursion of the sum has a solution: for the parts of one element more, given one for the others.
LEMMA SumsExist ==
  ASSUME NEW f, NEW S, IsFiniteSet(S)
  PROVE  \A n \in Nat : \E g : Sums(f, g, UpTo(S, n))
<1> DEFINE Without == {n \in Nat : ~ \E g : Sums(f, g, UpTo(S, n))}
<1> SUFFICES ASSUME Without # {}
             PROVE  FALSE
  OBVIOUS
<1>1. PICK n \in Without : \A k \in Without : n <= k
  <2>1. Without \subseteq Nat
    OBVIOUS
  <2> HIDE DEF Without
  <2> QED
    BY <2>1, Least
<1>2. n # 0
  <2>1. \A T \in UpTo(S, 0) : T = {}
    BY PartsFinite, FS_EmptySet DEF UpTo
  <2> DEFINE g == [T \in UpTo(S, 0) |-> 0]
  <2>2. Sums(f, g, UpTo(S, 0))
    BY <2>1 DEF Sums, Step
  <2> QED
    BY <2>2
<1>3. PICK h : Sums(f, h, UpTo(S, n - 1))
  BY <1>1, <1>2
<1> DEFINE g == [T \in UpTo(S, n) |-> Step(f, h, T)]
<1>4. ASSUME NEW T \in UpTo(S, n)
      PROVE  Step(f, h, T) = Step(f, g, T)
  <2>1. CASE T = {}
    BY <2>1 DEF Step
  <2>2. CASE T # {}
    <3> DEFINE x == CHOOSE x \in T : TRUE
               rest == T \ {x}
    <3>1. rest \in UpTo(S, n - 1) /\ rest \in UpTo(S, n)
      BY <1>4, <2>2, PartsFinite DEF UpTo
    <3>2. h[rest] = Step(f, h, rest)
      <4> HIDE DEF rest
      <4> QED
        BY <1>3, <3>1 DEF Sums
    <3>3. g[rest] = Step(f, h, rest)
      <4> HIDE DEF rest
      <4> QED
        BY <3>1
    <3> HIDE DEF g
    <3> QED
      BY <2>2, <3>2, <3>3 DEF Step
  <2> QED
    BY <2>1, <2>2
<1>5. Sums(f, g, UpTo(S, n))
  <2>1. g = [T \in UpTo(S, n) |-> Step(f, g, T)]
    BY <1>4
  <2> HIDE DEF g
  <2> QED
    BY <2>1 DEF Sums
<1> HIDE DEF g
<1> QED
  BY <1>1, <1>5

\* A solution is a number for every part: for the smallest part for which it is none, there would be a smaller.
LEMMA SumsTyped ==
  ASSUME NEW f, NEW S, IsFiniteSet(S), \A x \in S : f[x] \in Int, NEW g, Sums(f, g, SUBSET S)
  PROVE  \A T \in SUBSET S : g[T] \in Int
<1> DEFINE Wrong == {T \in SUBSET S : g[T] \notin Int}
           Sizes == {Cardinality(T) : T \in Wrong}
<1> SUFFICES ASSUME Wrong # {}
             PROVE  FALSE
  OBVIOUS
<1>1. PICK n \in Sizes : \A k \in Sizes : n <= k
  <2>1. Sizes \subseteq Nat /\ Sizes # {}
    BY PartsFinite
  <2> HIDE DEF Sizes
  <2> QED
    BY <2>1, Least
<1>2. PICK T \in Wrong : Cardinality(T) = n
  OBVIOUS
<1>3. g[T] = Step(f, g, T)
  BY DEF Sums
<1>4. CASE T = {}
  BY <1>3, <1>4 DEF Step
<1>5. CASE T # {}
  <2> DEFINE x == CHOOSE x \in T : TRUE
             rest == T \ {x}
  <2>1. f[x] \in Int /\ rest \in SUBSET S /\ Cardinality(rest) = n - 1 /\ n \in Nat
    BY <1>2, <1>5, PartsFinite
  <2>2. rest \notin Wrong
    BY <1>1, <2>1
  <2>3. g[T] = f[x] + g[rest]
    BY <1>3, <1>5 DEF Step
  <2> HIDE DEF x, rest
  <2> QED
    BY <2>1, <2>2, <2>3
<1> QED
  BY <1>4, <1>5

\* Finitely many numbers add up to a number.
LEMMA SumIsInt ==
  ASSUME NEW f, NEW S, IsFiniteSet(S), \A x \in S : f[x] \in Int
  PROVE  SumFunctionOnSet(f, S) \in Int
<1> DEFINE total == CHOOSE g : g = [T \in SUBSET S |-> Step(f, g, T)]
<1>1. \E g : Sums(f, g, SUBSET S)
  <2>1. Cardinality(S) \in Nat /\ UpTo(S, Cardinality(S)) = SUBSET S
    BY FS_Subset, FS_CardinalityType DEF UpTo
  <2>2. \E g : Sums(f, g, UpTo(S, Cardinality(S)))
    BY <2>1, SumsExist
  <2> QED
    BY <2>1, <2>2
<1>2. Sums(f, total, SUBSET S)
  BY <1>1 DEF Sums
<1>3. SumFunctionOnSet(f, S) = total[S]
  BY DEF SumFunctionOnSet, FoldFunctionOnSet, MapThenFoldSet, Step
<1> HIDE DEF total
<1> QED
  BY <1>2, <1>3, SumsTyped

\* What the sheet states is a number that is not below zero, or nothing.
LEMMA QuotaTyped == \A rows \in Seq(Cells) : QuotaOf(rows) \in Nat \cup {None}
<1> SUFFICES ASSUME NEW rows \in Seq(Cells)
             PROVE  QuotaOf(rows) \in Nat \cup {None}
  OBVIOUS
<1>1. Len(rows) \in Nat /\ DOMAIN rows = 1 .. Len(rows) /\ NumbersOf(rows) \subseteq DOMAIN rows
  BY DEF NumbersOf
<1>2. IsFiniteSet(NumbersOf(rows))
  <2>1. IsFiniteSet(1 .. Len(rows))
    BY <1>1, FS_Interval
  <2> QED
    BY <1>1, <2>1, FS_Subset
<1>3. \A i \in NumbersOf(rows) : rows[i] \in Int
  <2>1. Cells \subseteq Int \cup {Blank, Words}
    BY EnrolmentAssumption
  <2>2. \A i \in DOMAIN rows : rows[i] \in Cells
    BY <1>1
  <2> QED
    BY <2>1, <2>2 DEF NumbersOf
<1>4. SumFunctionOnSet(rows, NumbersOf(rows)) \in Int
  BY <1>2, <1>3, SumIsInt
<1> QED
  BY <1>4 DEF QuotaOf

-----------------------------------------------------------------------------
LEMMA FreeFits ==
  /\ FreeTask \in TaskRows /\ TaskFits(FreeTask) /\ FreeTask.op = None
  /\ \A i \in Invitations, c \in Children : ~ TaskSays(FreeTask, i, c)
<1>1. NoInvitation \in InvitationRows
  BY DEF NoInvitation, InvitationRows
<1>2. FreeTask \in TaskRows
  BY <1>1 DEF FreeTask, TaskRows
<1>3. FreeTask.op = None
  BY DEF FreeTask
<1> HIDE DEF FreeTask
<1>4. FreeTask.op \notin EnrolmentOps
  BY <1>3, EnrolmentAssumption
<1> QED
  BY <1>2, <1>3, <1>4 DEF TaskFits, TaskSays, EnrolmentOps

\* Who is enrolled when it begins was invited, and nothing is asked yet.
LEMMA EnrolmentStarts == InitEnrolment => EnrolmentInv
<1> SUFFICES ASSUME InitEnrolment
             PROVE  EnrolmentInv
  OBVIOUS
<1>1. PICK start \in EnrolmentAtStart : invitation = start.invitation /\ pupil = start.pupil /\ sheet = start.sheet
  BY DEF InitEnrolment
<1>2. /\ invitation \in [Invitations -> InvitationRows] /\ pupil \in [Children -> PupilRows]
      /\ sheet \in [Children -> Seq(Cells)]
  BY <1>1, EnrolmentAssumption
<1>3. /\ task = [t \in Tasks |-> FreeTask] /\ parents = {pupil[c].parent : c \in Children} \ {None}
      /\ hourly = NotRunning
  BY DEF InitEnrolment
<1>4. ever = {[parent |-> invitation[i].parent, child |-> invitation[i].child] :
                 i \in {i \in Invitations : invitation[i].status # "ABSENT"}}
  BY DEF InitEnrolment
<1>5. /\ \A i \in Invitations : IF invitation[i].status \in Known
                                  THEN invitation[i].parent \in Parents /\ invitation[i].child \in Children
                                  ELSE invitation[i].parent = None /\ invitation[i].child = None
      /\ \A c \in Children : pupil[c].parent # None <=>
            \E i \in Invitations : invitation[i].status = "ACCEPTED" /\ invitation[i].child = c
      /\ \A c \in Children : pupil[c].parent # None =>
            \E i \in Invitations : invitation[i].child = c /\ invitation[i].parent = pupil[c].parent
  BY <1>1, EnrolmentAssumption DEF Known
<1>6. RowsShaped
  <2>1. invitation \in [Invitations -> InvitationRows]
    BY <1>2 DEF InvitationRows
  <2>2. pupil \in [Children -> PupilRows]
    BY <1>2 DEF PupilRows
  <2>3. hourly.stage # "fetched" /\ DOMAIN hourly.quotas = {}
    <3>1. hourly.stage = None /\ hourly.quotas = <<>>
      BY <1>3 DEF NotRunning
    <3> QED
      BY <3>1, EnrolmentAssumption
  <2>4. parents \subseteq Parents
    BY <1>2, <1>3 DEF PupilRows
  <2> QED
    BY <1>2, <1>3, <2>1, <2>2, <2>3, <2>4, FreeFits DEF RowsShaped
<1>7. \A i \in Invitations : InvitationFits(invitation[i])
  BY <1>4, <1>5 DEF InvitationFits, Known
<1>8. \A t \in Tasks : task[t] = FreeTask
  BY <1>3
<1>9. OneChild
  BY <1>5, <1>8, FreeFits, EnrolmentAssumption DEF OneChild, Says, Known
<1>10. EnrolledByInvitation
  <2>1. ASSUME NEW c \in Children, Enrolled(c)
        PROVE  pupil[c].parent \in parents /\ [parent |-> pupil[c].parent, child |-> c] \in ever
    <3>1. PICK i \in Invitations : invitation[i].child = c /\ invitation[i].parent = pupil[c].parent
      BY <1>5, <2>1 DEF Enrolled
    <3>2. invitation[i].status # "ABSENT"
      BY <1>5, <2>1, <3>1 DEF Enrolled, Known
    <3> QED
      BY <1>3, <1>4, <2>1, <3>1, <3>2 DEF Enrolled
  <2>2. \A i \in Invitations : invitation[i].status = "ACCEPTED" => Enrolled(invitation[i].child)
    BY <1>5 DEF Enrolled, Known
  <2> QED
    BY <2>1, <2>2 DEF EnrolledByInvitation
<1> QED
  BY <1>6, <1>7, <1>8, <1>9, <1>10, FreeFits DEF EnrolmentInv

\* A request that goes on alone, holding no more of invitations than was said, changes nothing.
LEMMA AloneKeeps ==
  ASSUME EnrolmentInv, NEW t \in Tasks, NEW new \in TaskRows, task' = [task EXCEPT ![t] = new],
         UNCHANGED <<invitation, parents, sheet, hourly, ever>>,
         pupil' \in [Children -> PupilRows], \A c \in Children : pupil'[c].parent = pupil[c].parent,
         TaskFits(new),
         \A i \in Invitations, c \in Children : TaskSays(new, i, c) => Says(i, c)
  PROVE  EnrolmentInv'
<1>1. task' \in [Tasks -> TaskRows] /\ task'[t] = new /\ \A u \in Tasks \ {t} : task'[u] = task[u]
  BY DEF EnrolmentInv, RowsShaped
<1>2. RowsShaped'
  BY <1>1 DEF EnrolmentInv, RowsShaped
<1>3. \A i \in Invitations : InvitationFits(invitation[i])'
  BY DEF EnrolmentInv, InvitationFits
<1>4. \A u \in Tasks : TaskFits(task[u])'
  BY <1>1 DEF EnrolmentInv, TaskFits
<1>5. \A i \in Invitations, c \in Children : Says(i, c)' => Says(i, c)
  BY <1>1 DEF Says, TaskSays
<1>6. OneChild'
  BY <1>5 DEF EnrolmentInv, OneChild
<1>7. EnrolledByInvitation'
  <2>1. \A i \in Invitations : invitation[i].status = "ACCEPTED" => invitation[i].child \in Children
    BY DEF EnrolmentInv, InvitationFits, Known
  <2> QED
    BY <2>1 DEF EnrolmentInv, EnrolledByInvitation, Enrolled
<1> QED
  BY <1>2, <1>3, <1>4, <1>6, <1>7 DEF EnrolmentInv

\* What may be read of an invitation that is there.
LEMMA KnownFits ==
  ASSUME EnrolmentInv, NEW i \in Invitations, invitation[i].status \in Known
  PROVE  /\ invitation[i] \in InvitationRows
         /\ invitation[i].parent \in Parents /\ invitation[i].child \in Children
         /\ [parent |-> invitation[i].parent, child |-> invitation[i].child] \in ever
         /\ Says(i, invitation[i].child)
BY DEF EnrolmentInv, InvitationFits, RowsShaped, Says

(***************************************************************************)
(* What leaves the rows alone                                              *)
(***************************************************************************)
LEMMA InviteKeeps ==
  ASSUME EnrolmentInv, NEW t \in Tasks, Invite(t)
  PROVE  EnrolmentInv'
<1>1. PICK p \in Parents, c \in Children, fails \in BOOLEAN :
         Starts(t, [FreeTask EXCEPT !.op = "invite", !.stage = "read", !.parent = p, !.child = c,
                                    !.quota = IF fails \/ QuotaOf(sheet[c]) = None THEN 0 ELSE QuotaOf(sheet[c])])
  BY DEF Invite
<1>2. PICK quota \in Nat : quota = IF fails \/ QuotaOf(sheet[c]) = None THEN 0 ELSE QuotaOf(sheet[c])
  BY QuotaTyped DEF EnrolmentInv, RowsShaped
<1> DEFINE new == [FreeTask EXCEPT !.op = "invite", !.stage = "read", !.parent = p, !.child = c, !.quota = quota]
<1>3. task' = [task EXCEPT ![t] = new]
  BY <1>1, <1>2 DEF Starts
<1>4. new \in TaskRows
  BY ZenonT(60), FreeFits DEF TaskRows, EnrolmentOps
<1>5. new.op = "invite" /\ new.parent = p /\ new.child = c /\ new.id = None /\ new.quota = quota
  BY DEF FreeTask
<1>6. UNCHANGED <<invitation, parents, pupil, sheet, hourly, ever>>
  BY DEF Invite, rowVars
<1> HIDE DEF new
<1>7. TaskFits(new) /\ \A i \in Invitations, d \in Children : ~ TaskSays(new, i, d)
  BY <1>5, EnrolmentAssumption DEF TaskFits, TaskSays, EnrolmentOps
<1> QED
  BY <1>3, <1>4, <1>6, <1>7, AloneKeeps DEF EnrolmentInv, RowsShaped

LEMMA FindKeeps ==
  ASSUME EnrolmentInv, NEW t \in Tasks, FindInvitation(t)
  PROVE  EnrolmentInv'
<1> DEFINE r == task[t]
<1>1. r.op = "invite" /\ UNCHANGED <<invitation, parents, pupil, sheet, hourly, ever>>
  BY DEF FindInvitation, Is, rowVars
<1>2. r \in TaskRows /\ TaskFits(r) /\ task \in [Tasks -> TaskRows]
  BY DEF EnrolmentInv, RowsShaped
<1>3. r.parent \in Parents /\ r.child \in Children /\ r.quota \in Nat
  BY <1>1, <1>2 DEF TaskFits
<1>4. CASE task' = [task EXCEPT ![t] = FreeTask]
  BY <1>1, <1>4, FreeFits, AloneKeeps DEF EnrolmentInv, RowsShaped
<1>5. CASE task' = [task EXCEPT ![t].stage = "found"]
  <2> DEFINE new == [r EXCEPT !.stage = "found"]
  <2>1. /\ new \in TaskRows /\ new.op = r.op /\ new.parent = r.parent /\ new.child = r.child /\ new.id = r.id
        /\ new.quota = r.quota /\ task' = [task EXCEPT ![t] = new]
    BY <1>2, <1>5 DEF TaskRows
  <2> HIDE DEF new
  <2>2. TaskFits(new)
    BY <1>1, <1>3, <2>1 DEF TaskFits
  <2>3. \A i \in Invitations, c \in Children : TaskSays(new, i, c) => Says(i, c)
    BY <1>1, <2>1 DEF TaskSays, Says
  <2> QED
    BY <1>1, <2>1, <2>2, <2>3, AloneKeeps DEF EnrolmentInv, RowsShaped
<1>6. ASSUME NEW i \in InvitationsOf(r.parent, r.child), task' = [task EXCEPT ![t].stage = "found", ![t].id = i]
      PROVE  EnrolmentInv'
  <2>1. i \in Invitations /\ invitation[i].child = r.child /\ invitation[i].parent = r.parent
    BY <1>6 DEF InvitationsOf
  <2>2. Says(i, r.child)
    <3>1. invitation[i].child # None
      BY <1>3, <2>1, EnrolmentAssumption
    <3>2. invitation[i].status \in Known
      BY <2>1, <3>1 DEF EnrolmentInv, InvitationFits
    <3> QED
      BY <2>1, <3>2 DEF Says
  <2> DEFINE new == [r EXCEPT !.stage = "found", !.id = i]
  <2>3. /\ new \in TaskRows /\ new.op = r.op /\ new.parent = r.parent /\ new.child = r.child /\ new.id = i
        /\ new.quota = r.quota /\ task' = [task EXCEPT ![t] = new]
    BY <1>2, <1>6, <2>1 DEF TaskRows
  <2> HIDE DEF new
  <2>4. TaskFits(new)
    BY <1>1, <1>3, <2>3 DEF TaskFits
  <2>5. \A j \in Invitations, c \in Children : TaskSays(new, j, c) => Says(j, c)
    BY <1>1, <2>3, <2>2 DEF TaskSays
  <2> QED
    BY <1>1, <2>3, <2>4, <2>5, AloneKeeps DEF EnrolmentInv, RowsShaped
<1> QED
  BY <1>4, <1>5, <1>6 DEF FindInvitation, Ends

LEMMA AskKeeps ==
  ASSUME EnrolmentInv, NEW t \in Tasks, ChangeEmail(t) \/ Withdraw(t) \/ SyncOne(t)
  PROVE  EnrolmentInv'
<1>1. UNCHANGED <<invitation, parents, pupil, sheet, hourly, ever>>
  BY DEF ChangeEmail, Withdraw, SyncOne, rowVars
<1>2. CASE ChangeEmail(t)
  <2>1. PICK i \in Pending, p \in Parents :
           task' = [task EXCEPT ![t] = [FreeTask EXCEPT !.op = "change_email", !.id = i, !.parent = p, !.row = invitation[i]]]
    BY <1>2 DEF ChangeEmail, Starts
  <2>2. i \in Invitations /\ invitation[i].status = "PENDING" /\ invitation[i].status \in Known
    BY DEF Pending, Known
  <2> DEFINE new == [FreeTask EXCEPT !.op = "change_email", !.id = i, !.parent = p, !.row = invitation[i]]
  <2>3. new \in TaskRows
    BY <2>2, KnownFits, FreeFits DEF TaskRows, EnrolmentOps
  <2>4. new.op = "change_email" /\ new.id = i /\ new.parent = p /\ new.row = invitation[i]
    BY DEF FreeTask
  <2>5. task' = [task EXCEPT ![t] = new]
    BY <2>1
  <2> HIDE DEF new
  <2>6. TaskFits(new)
    BY <2>2, <2>4, KnownFits DEF TaskFits
  <2>7. \A j \in Invitations, c \in Children : TaskSays(new, j, c) => Says(j, c)
    BY <2>2, <2>4, KnownFits DEF TaskSays
  <2> QED
    BY <1>1, <2>3, <2>5, <2>6, <2>7, AloneKeeps DEF EnrolmentInv, RowsShaped
<1>3. CASE Withdraw(t)
  <2>1. PICK i \in Pending : task' = [task EXCEPT ![t] = [FreeTask EXCEPT !.op = "withdraw", !.id = i]]
    BY <1>3 DEF Withdraw, Starts
  <2> DEFINE new == [FreeTask EXCEPT !.op = "withdraw", !.id = i]
  <2>2. new \in TaskRows /\ i \in Invitations
    BY ZenonT(60), FreeFits DEF TaskRows, EnrolmentOps, Pending
  <2>3. new.op = "withdraw" /\ new.id = i
    BY DEF FreeTask
  <2>4. task' = [task EXCEPT ![t] = new]
    BY <2>1
  <2> HIDE DEF new
  <2>5. TaskFits(new) /\ \A j \in Invitations, c \in Children : ~ TaskSays(new, j, c)
    BY <2>2, <2>3 DEF TaskFits, TaskSays
  <2> QED
    BY <1>1, <2>2, <2>4, <2>5, AloneKeeps DEF EnrolmentInv, RowsShaped
<1>4. CASE SyncOne(t)
  <2>1. PICK c \in Children :
           task' = [task EXCEPT ![t] = [FreeTask EXCEPT !.op = "sync_one", !.stage = "read", !.child = c, !.row = pupil[c]]]
    BY <1>4 DEF SyncOne, Starts
  <2> DEFINE new == [FreeTask EXCEPT !.op = "sync_one", !.stage = "read", !.child = c, !.row = pupil[c]]
  <2>2. pupil[c] \in PupilRows
    BY DEF EnrolmentInv, RowsShaped
  <2>3. new \in TaskRows
    BY ZenonT(60), <2>2, FreeFits DEF TaskRows, EnrolmentOps
  <2>4. new.op = "sync_one" /\ new.child = c /\ new.stage = "read"
    BY DEF FreeTask
  <2>5. task' = [task EXCEPT ![t] = new]
    BY <2>1
  <2> HIDE DEF new
  <2>6. TaskFits(new) /\ \A j \in Invitations, d \in Children : ~ TaskSays(new, j, d)
    BY <2>4 DEF TaskFits, TaskSays
  <2> QED
    BY <1>1, <2>3, <2>5, <2>6, AloneKeeps DEF EnrolmentInv, RowsShaped
<1> QED
  BY <1>2, <1>3, <1>4

\* What a sign-in reads of the parent's pending invitations.
LEMMA SignInKeeps ==
  ASSUME EnrolmentInv, NEW t \in Tasks, SignInParent(t)
  PROVE  EnrolmentInv'
<1>1. UNCHANGED <<invitation, parents, pupil, sheet, hourly, ever>>
  BY DEF SignInParent, rowVars
<1>2. PICK p \in Parents :
         Starts(t, [FreeTask EXCEPT !.op = "sign_in_parent", !.stage = IF p \in parents THEN "known" ELSE "new",
                                    !.parent = p, !.found = {<<i, invitation[i]>> : i \in PendingOf(p)},
                                    !.mine = ChildrenOf(p)])
  BY DEF SignInParent
<1> DEFINE found == {<<i, invitation[i]>> : i \in PendingOf(p)}
<1>3. ASSUME NEW f \in found
      PROVE  /\ f \in Invitations \X InvitationRows /\ f[2].child \in Children /\ Says(f[1], f[2].child)
             /\ [parent |-> p, child |-> f[2].child] \in ever
  <2>1. PICK i \in PendingOf(p) : f = <<i, invitation[i]>>
    OBVIOUS
  <2>2. i \in Invitations /\ invitation[i].parent = p /\ invitation[i].status \in Known
    BY DEF PendingOf, Pending, Known
  <2> QED
    BY <2>1, <2>2, KnownFits
<1>4. ChildrenOf(p) \in SUBSET Children /\ found \in SUBSET (Invitations \X InvitationRows)
  BY <1>3 DEF ChildrenOf
<1>5. PICK stage \in {"known", "new"} : stage = IF p \in parents THEN "known" ELSE "new"
  OBVIOUS
<1> DEFINE mine == ChildrenOf(p)
           new == [FreeTask EXCEPT !.op = "sign_in_parent", !.stage = stage, !.parent = p, !.found = found, !.mine = mine]
<1>6. task' = [task EXCEPT ![t] = new]
  BY <1>2, <1>5 DEF Starts
<1> HIDE DEF found, mine
<1>7. new \in TaskRows
  <2>1. FreeTask \in TaskRows
    BY FreeFits
  <2>2. mine \in SUBSET Children
    BY <1>4 DEF mine
  <2> QED
    BY <1>4, <2>1, <2>2 DEF TaskRows, EnrolmentOps
<1>8. new.op = "sign_in_parent" /\ new.parent = p /\ new.found = found
  BY DEF FreeTask
<1> HIDE DEF new
<1>9. TaskFits(new)
  BY <1>3, <1>8 DEF TaskFits
<1>10. \A i \in Invitations, c \in Children : TaskSays(new, i, c) => Says(i, c)
  BY <1>3, <1>8 DEF TaskSays
<1> QED
  BY <1>1, <1>6, <1>7, <1>9, <1>10, AloneKeeps DEF EnrolmentInv, RowsShaped

LEMMA UndoKeeps ==
  ASSUME EnrolmentInv, NEW t \in Tasks, UndoSignIn(t)
  PROVE  EnrolmentInv'
<1>1. task' = [task EXCEPT ![t] = FreeTask] /\ UNCHANGED <<invitation, parents, pupil, sheet, hourly, ever>>
  BY DEF UndoSignIn, Ends, rowVars
<1> QED
  BY <1>1, FreeFits, AloneKeeps DEF EnrolmentInv, RowsShaped

(***************************************************************************)
(* What writes only quotas                                                 *)
(***************************************************************************)
LEMMA SyncOneKeeps ==
  ASSUME EnrolmentInv, NEW t \in Tasks, FetchOne(t) \/ WriteOne(t)
  PROVE  EnrolmentInv'
<1> DEFINE r == task[t]
<1>1. r.op = "sync_one" /\ UNCHANGED <<invitation, parents, sheet, hourly, ever>>
  BY DEF FetchOne, WriteOne, Is, rowVars
<1>2. r \in TaskRows /\ TaskFits(r) /\ task \in [Tasks -> TaskRows] /\ pupil \in [Children -> PupilRows]
  BY DEF EnrolmentInv, RowsShaped
<1>3. r.child \in Children /\ (r.stage = "fetched" => r.quota \in Nat)
  BY <1>1, <1>2 DEF TaskFits
<1>4. CASE task' = [task EXCEPT ![t] = FreeTask] /\ pupil' = pupil
  BY <1>1, <1>2, <1>4, FreeFits, AloneKeeps
<1>5. CASE FetchOne(t) /\ task' # [task EXCEPT ![t] = FreeTask]
  <2>1. /\ pupil' = pupil /\ task' = [task EXCEPT ![t].stage = "fetched", ![t].quota = QuotaOf(sheet[r.child])]
        /\ QuotaOf(sheet[r.child]) # None
    BY <1>5 DEF FetchOne, Ends, rowVars
  <2>2. PICK quota \in Nat : quota = QuotaOf(sheet[r.child])
    BY <1>3, <2>1, QuotaTyped DEF EnrolmentInv, RowsShaped
  <2> DEFINE new == [r EXCEPT !.stage = "fetched", !.quota = quota]
  <2>3. new \in TaskRows /\ new.op = r.op /\ new.child = r.child /\ new.quota = quota
        /\ task' = [task EXCEPT ![t] = new]
    BY ZenonT(60), <1>2, <2>1, <2>2 DEF TaskRows
  <2> HIDE DEF new
  <2>4. TaskFits(new) /\ \A j \in Invitations, d \in Children : ~ TaskSays(new, j, d)
    BY <1>1, <1>3, <2>3 DEF TaskFits, TaskSays
  <2> QED
    BY <1>1, <1>2, <2>1, <2>3, <2>4, AloneKeeps
<1>6. CASE WriteOne(t)
  <2>1. /\ pupil' = [pupil EXCEPT ![r.child].quota = r.quota] /\ task' = [task EXCEPT ![t] = FreeTask]
        /\ r.stage = "fetched"
    BY <1>6 DEF WriteOne, Is, Ends
  <2>2. pupil' \in [Children -> PupilRows] /\ \A c \in Children : pupil'[c].parent = pupil[c].parent
    BY <1>2, <1>3, <2>1 DEF PupilRows
  <2> QED
    BY <1>1, <2>1, <2>2, FreeFits, AloneKeeps
<1> QED
  BY <1>4, <1>5, <1>6 DEF FetchOne, rowVars

\* The hourly run and an edit of the sheet keep the rows' shape and who is enrolled.
LEMMA QuotasKeep ==
  ASSUME EnrolmentInv, UNCHANGED <<invitation, parents, task, ever>>, RowsShaped',
         \A c \in Children : pupil'[c].parent = pupil[c].parent
  PROVE  EnrolmentInv'
<1>1. \A i \in Invitations : InvitationFits(invitation[i])'
  BY DEF EnrolmentInv, InvitationFits
<1>2. \A t \in Tasks : TaskFits(task[t])'
  BY DEF EnrolmentInv, TaskFits
<1>3. OneChild'
  BY DEF EnrolmentInv, OneChild, Says, TaskSays
<1>4. EnrolledByInvitation'
  <2>1. \A i \in Invitations : invitation[i].status = "ACCEPTED" => invitation[i].child \in Children
    BY DEF EnrolmentInv, InvitationFits, Known
  <2> QED
    BY <2>1 DEF EnrolmentInv, EnrolledByInvitation, Enrolled
<1> QED
  BY <1>1, <1>2, <1>3, <1>4 DEF EnrolmentInv

LEMMA HourlyKeeps ==
  ASSUME EnrolmentInv, FetchSheet \/ ReadStudents \/ WriteQuotas \/ EditSheet
  PROVE  EnrolmentInv'
<1>1. UNCHANGED <<invitation, parents, task, ever>>
  BY DEF FetchSheet, ReadStudents, WriteQuotas, EditSheet, rowVars
<1>2. RowsShaped
  BY DEF EnrolmentInv
<1>3. DOMAIN NotRunning.quotas = {} /\ NotRunning.stage # "fetched"
  <2>1. NotRunning.stage = None /\ NotRunning.quotas = <<>>
    BY DEF NotRunning
  <2> QED
    BY <2>1, EnrolmentAssumption
<1>4. CASE FetchSheet
  <2>1. pupil' = pupil /\ sheet' = sheet
    BY <1>4 DEF FetchSheet, rowVars
  <2>2. hourly'.read = sheet /\ hourly'.quotas = <<>>
    BY <1>4 DEF FetchSheet, NotRunning
  <2>3. DOMAIN hourly'.quotas = {}
    BY <2>2
  <2>4. RowsShaped'
    BY <1>1, <1>2, <2>1, <2>2, <2>3 DEF RowsShaped
  <2> QED
    BY <1>1, <2>1, <2>4, QuotasKeep
<1>5. CASE ReadStudents
  <2>1. pupil' = pupil /\ sheet' = sheet
    BY <1>5 DEF ReadStudents, rowVars
  <2>2. /\ hourly.stage = "fetched" /\ hourly'.stage = "decided"
        /\ hourly'.quotas = [c \in Differing(hourly.read) |-> QuotaOf(hourly.read[c])]
    BY <1>5 DEF ReadStudents, NotRunning
  <2>3. \A c \in DOMAIN hourly'.quotas : hourly'.quotas[c] \in Nat
    BY <1>2, <2>2, QuotaTyped DEF RowsShaped, Differing
  <2>4. RowsShaped'
    BY <1>1, <1>2, <2>1, <2>2, <2>3 DEF RowsShaped
  <2> QED
    BY <1>1, <2>1, <2>4, QuotasKeep
<1>6. CASE WriteQuotas
  <2>1. /\ sheet' = sheet /\ hourly' = NotRunning
        /\ pupil' = [c \in Children |-> IF c \in DOMAIN hourly.quotas THEN [pupil[c] EXCEPT !.quota = hourly.quotas[c]]
                                         ELSE pupil[c]]
    BY <1>6 DEF WriteQuotas
  <2>2. pupil' \in [Children -> PupilRows] /\ \A c \in Children : pupil'[c].parent = pupil[c].parent
    BY <1>2, <2>1 DEF RowsShaped, PupilRows
  <2>3. RowsShaped'
    BY <1>1, <1>2, <1>3, <2>1, <2>2 DEF RowsShaped
  <2> QED
    BY <1>1, <2>2, <2>3, QuotasKeep
<1>7. CASE EditSheet
  <2>1. pupil' = pupil /\ hourly' = hourly
    BY <1>7 DEF EditSheet, rowVars
  <2>2. PICK c \in Children, cell \in Cells :
           \E rows \in {Append(sheet[c], cell), <<cell>>, <<>>} : sheet' = [sheet EXCEPT ![c] = rows]
    BY ZenonT(60), <1>7 DEF EditSheet
  <2>3. PICK rows \in {Append(sheet[c], cell), <<cell>>, <<>>} : sheet' = [sheet EXCEPT ![c] = rows]
    BY <2>2
  <2>4. rows \in Seq(Cells)
    <3>1. sheet[c] \in Seq(Cells)
      BY <1>2 DEF RowsShaped
    <3>2. Append(sheet[c], cell) \in Seq(Cells) /\ <<cell>> \in Seq(Cells) /\ <<>> \in Seq(Cells)
      BY <3>1
    <3> QED
      BY <2>3, <3>2
  <2>5. sheet' \in [Children -> Seq(Cells)]
    BY <1>2, <2>3, <2>4 DEF RowsShaped
  <2>6. RowsShaped'
    BY <1>1, <1>2, <2>1, <2>5 DEF RowsShaped
  <2> QED
    BY <1>1, <2>1, <2>6, QuotasKeep
<1> QED
  BY <1>4, <1>5, <1>6, <1>7

(***************************************************************************)
(* What changes invitations                                                *)
(***************************************************************************)
\* One is sent, sent again or redirected, for the child it is for; or it is withdrawn.
LEMMA RowKeeps ==
  ASSUME EnrolmentInv, NEW t \in Tasks, task' = [task EXCEPT ![t] = FreeTask],
         UNCHANGED <<parents, pupil, sheet, hourly>>, ever \subseteq ever',
         NEW i \in Invitations, NEW row \in InvitationRows, invitation' = [invitation EXCEPT ![i] = row],
         \/ /\ row.status = "PENDING" /\ row.parent \in Parents /\ row.child \in Children
            /\ [parent |-> row.parent, child |-> row.child] \in ever'
            /\ Says(i, row.child) \/ invitation[i].status = "ABSENT"
         \/ row.status = "WITHDRAWN" /\ row.parent = None /\ row.child = None
  PROVE  EnrolmentInv'
<1>1. task' \in [Tasks -> TaskRows] /\ task'[t] = FreeTask /\ \A u \in Tasks \ {t} : task'[u] = task[u]
  BY FreeFits DEF EnrolmentInv, RowsShaped
<1>2. invitation' \in [Invitations -> InvitationRows] /\ \A j \in Invitations : invitation'[j] = IF j = i THEN row ELSE invitation[j]
  BY DEF EnrolmentInv, RowsShaped
<1>3. RowsShaped'
  BY <1>1, <1>2 DEF EnrolmentInv, RowsShaped
<1>4. \A j \in Invitations : InvitationFits(invitation[j])'
  BY <1>2 DEF EnrolmentInv, InvitationFits, Known
<1>5. \A u \in Tasks : TaskFits(task[u])'
  BY <1>1, FreeFits DEF EnrolmentInv, TaskFits, EnrolmentOps
<1>6. \A j \in Invitations, c \in Children : Says(j, c)' => Says(j, c) \/ (j = i /\ c = row.child /\ row.status = "PENDING")
  <2> SUFFICES ASSUME NEW j \in Invitations, NEW c \in Children, Says(j, c)'
               PROVE  Says(j, c) \/ (j = i /\ c = row.child /\ row.status = "PENDING")
    OBVIOUS
  <2>1. CASE invitation'[j].status \in Known /\ invitation'[j].child = c
    BY <1>2, <2>1 DEF Says, Known
  <2>2. ASSUME NEW u \in Tasks, TaskSays(task[u], j, c)'
        PROVE  Says(j, c)
    <3>1. u # t
      BY <1>1, <2>2, FreeFits DEF TaskSays
    <3> QED
      BY <1>1, <2>2, <3>1 DEF Says, TaskSays
  <2> QED
    BY <2>1, <2>2 DEF Says
<1>7. OneChild'
  <2>1. ASSUME NEW j \in Invitations, NEW c \in Children, NEW d \in Children, Says(j, c)', Says(j, d)'
        PROVE  c = d
    BY <1>6, <2>1 DEF EnrolmentInv, OneChild
  <2>2. ASSUME NEW j \in Invitations, NEW c \in Children, invitation'[j].status = "ABSENT"
        PROVE  ~ Says(j, c)'
    BY <1>2, <1>6, <2>2 DEF EnrolmentInv, OneChild
  <2> QED
    BY <2>1, <2>2 DEF OneChild
<1>8. EnrolledByInvitation'
  <2>1. \A c \in Children : Enrolled(c)' <=> Enrolled(c)
    BY DEF Enrolled
  <2>2. \A j \in Invitations : invitation'[j].status = "ACCEPTED" =>
           invitation[j].status = "ACCEPTED" /\ invitation'[j].child = invitation[j].child /\ invitation[j].child \in Children
    BY <1>2 DEF EnrolmentInv, InvitationFits, Known
  <2>3. \A c \in Children : Enrolled(c)' => pupil'[c].parent \in parents' /\ [parent |-> pupil'[c].parent, child |-> c] \in ever'
    BY <2>1 DEF EnrolmentInv, EnrolledByInvitation
  <2>4. \A j \in Invitations : invitation'[j].status = "ACCEPTED" => Enrolled(invitation[j].child)'
    <3>1. \A j \in Invitations : invitation'[j].status = "ACCEPTED" => Enrolled(invitation[j].child)
      BY <2>2 DEF EnrolmentInv, EnrolledByInvitation
    <3> QED
      BY <2>2, <3>1 DEF Enrolled
  <2> QED
    BY <2>3, <2>4 DEF EnrolledByInvitation
<1> QED
  BY <1>3, <1>4, <1>5, <1>7, <1>8 DEF EnrolmentInv

LEMMA SendKeeps ==
  ASSUME EnrolmentInv, NEW t \in Tasks, SaveInvitation(t) \/ SaveEmail(t) \/ DeleteInvitation(t)
  PROVE  EnrolmentInv'
<1> DEFINE r == task[t]
<1>1. r \in TaskRows /\ TaskFits(r)
  BY DEF EnrolmentInv, RowsShaped
<1>2. task' = [task EXCEPT ![t] = FreeTask] /\ UNCHANGED <<parents, pupil, sheet, hourly>>
  BY DEF SaveInvitation, SaveEmail, DeleteInvitation, Ends
<1>3. CASE SaveInvitation(t)
  <2>1. /\ r.op = "invite" /\ r.parent \in Parents /\ r.child \in Children /\ r.quota \in Nat
        /\ ever' = ever \cup {[parent |-> r.parent, child |-> r.child]}
    BY <1>1, <1>3 DEF SaveInvitation, Is, TaskFits
  <2> DEFINE row == [status |-> "PENDING", parent |-> r.parent, child |-> r.child, quota |-> r.quota]
  <2>2. PICK i \in Invitations : /\ IF r.id = None THEN invitation[i] = NoInvitation ELSE i = r.id
                                 /\ invitation' = [invitation EXCEPT ![i] = row]
    BY <1>3 DEF SaveInvitation
  <2>3. row \in InvitationRows
    BY <2>1 DEF InvitationRows
  <2>4. row.status = "PENDING" /\ row.parent = r.parent /\ row.child = r.child
    OBVIOUS
  <2>5. Says(i, r.child) \/ invitation[i].status = "ABSENT"
    <3>1. CASE r.id = None
      BY <2>2, <3>1 DEF NoInvitation
    <3>2. CASE r.id # None
      BY <2>1, <2>2, <3>2 DEF Says, TaskSays
    <3> QED
      BY <3>1, <3>2
  <2> HIDE DEF row
  <2> QED
    BY <1>2, <2>1, <2>2, <2>3, <2>4, <2>5, RowKeeps
<1>4. CASE SaveEmail(t)
  <2>1. /\ r.op = "change_email" /\ r.parent \in Parents /\ r.id \in Invitations /\ r.row \in InvitationRows
        /\ r.row.status = "PENDING" /\ r.row.child \in Children
        /\ ever' = ever \cup {[parent |-> r.parent, child |-> r.row.child]}
    BY <1>1, <1>4 DEF SaveEmail, TaskFits
  <2> DEFINE row == [r.row EXCEPT !.parent = r.parent]
  <2>2. invitation' = [invitation EXCEPT ![r.id] = row]
    BY <1>4 DEF SaveEmail
  <2>3. row \in InvitationRows /\ row.status = "PENDING" /\ row.parent = r.parent /\ row.child = r.row.child
    BY <2>1 DEF InvitationRows
  <2>4. Says(r.id, r.row.child)
    BY <2>1 DEF Says, TaskSays
  <2> HIDE DEF row
  <2> QED
    BY <1>2, <2>1, <2>2, <2>3, <2>4, RowKeeps
<1>5. CASE DeleteInvitation(t)
  <2>1. r.op = "withdraw" /\ r.id \in Invitations /\ ever' = ever
    BY <1>1, <1>5 DEF DeleteInvitation, TaskFits
  <2> DEFINE row == [NoInvitation EXCEPT !.status = "WITHDRAWN"]
  <2>2. invitation' = [invitation EXCEPT ![r.id] = row]
    BY <1>5 DEF DeleteInvitation
  <2>3. row \in InvitationRows /\ row.status = "WITHDRAWN" /\ row.parent = None /\ row.child = None
    BY DEF InvitationRows, NoInvitation
  <2> HIDE DEF row
  <2> QED
    BY <1>2, <2>1, <2>2, <2>3, RowKeeps
<1> QED
  BY <1>3, <1>4, <1>5

(***************************************************************************)
(* Redeeming                                                               *)
(***************************************************************************)
\* Each invitation redeemed is, still, for the child it was read to be for; and that child is enrolled.
LEMMA RedeemKeeps ==
  ASSUME EnrolmentInv, NEW t \in Tasks, Redeem(t)
  PROVE  EnrolmentInv'
<1> DEFINE r == task[t]
           new == NewChildren(r, ChildrenOf(r.parent))
<1>1. /\ r.op = "sign_in_parent" /\ ~ Refused(r, ChildrenOf(r.parent))
      /\ parents' = parents \cup {r.parent} /\ Enrols(r, new) /\ invitation' = Accepted(r)
      /\ task' = [task EXCEPT ![t] = FreeTask] /\ UNCHANGED <<sheet, hourly, ever>>
  BY DEF Redeem, Ends
<1>2. r \in TaskRows /\ TaskFits(r) /\ invitation \in [Invitations -> InvitationRows] /\ pupil \in [Children -> PupilRows]
  BY DEF EnrolmentInv, RowsShaped
<1>3. r.parent \in Parents /\ r.parent # None
  BY <1>1, <1>2, EnrolmentAssumption DEF TaskFits
<1>4. \A f \in r.found : /\ f[1] \in Invitations /\ f[2] \in InvitationRows /\ f[2].child \in Children
                         /\ [parent |-> r.parent, child |-> f[2].child] \in ever
  BY <1>1, <1>2 DEF TaskFits, TaskRows
<1>5. task' \in [Tasks -> TaskRows] /\ task'[t] = FreeTask /\ \A u \in Tasks \ {t} : task'[u] = task[u]
  BY <1>1, FreeFits DEF EnrolmentInv, RowsShaped
<1>6. \A i \in Invitations :
         /\ invitation'[i].child = invitation[i].child /\ invitation'[i].parent = invitation[i].parent
         /\ invitation'[i].status = IF \E f \in r.found : f[1] = i THEN "ACCEPTED" ELSE invitation[i].status
  BY <1>1, <1>2 DEF Accepted, InvitationRows
<1>7. invitation' \in [Invitations -> InvitationRows]
  BY <1>1, <1>2 DEF Accepted, InvitationRows
<1>8. ASSUME NEW f \in r.found
      PROVE  invitation[f[1]].status \in Known /\ invitation[f[1]].child = f[2].child
  <2>1. Says(f[1], f[2].child)
    BY <1>1 DEF Says, TaskSays
  <2>2. invitation[f[1]].status \notin {"ABSENT", "WITHDRAWN"}
    BY <1>1, <1>4, <2>1 DEF EnrolmentInv, OneChild, Refused
  <2>3. invitation[f[1]].status \in Known
    BY <1>2, <1>4, <2>2 DEF InvitationRows, Known
  <2>4. invitation[f[1]].child \in Children /\ Says(f[1], invitation[f[1]].child)
    BY <1>4, <2>3, KnownFits
  <2> QED
    BY <1>4, <2>1, <2>3, <2>4 DEF EnrolmentInv, OneChild
<1>9. new \subseteq Children /\ \A c \in new : [parent |-> r.parent, child |-> c] \in ever
  BY <1>4 DEF NewChildren
<1>10. /\ pupil' \in [Children -> PupilRows]
       /\ \A c \in Children : pupil'[c].parent = IF c \in new THEN r.parent ELSE pupil[c].parent
  <2> HIDE DEF new
  <2>1. PICK quotas \in [new -> {f[2].quota : f \in r.found}] :
           pupil' = [c \in Children |-> IF c \in new THEN [parent |-> r.parent, quota |-> quotas[c]] ELSE pupil[c]]
    BY <1>1 DEF Enrols
  <2>2. \A c \in new : quotas[c] \in Nat
    <3>1. {f[2].quota : f \in r.found} \subseteq Nat
      BY <1>4 DEF InvitationRows
    <3> QED
      BY <2>1, <3>1
  <2> QED
    BY <1>2, <1>3, <2>1, <2>2 DEF PupilRows
<1>11. RowsShaped'
  BY <1>1, <1>3, <1>5, <1>7, <1>10 DEF EnrolmentInv, RowsShaped
<1>12. \A i \in Invitations : InvitationFits(invitation[i])'
  BY <1>1, <1>6, <1>8 DEF EnrolmentInv, InvitationFits, Known
<1>13. \A u \in Tasks : TaskFits(task[u])'
  BY <1>1, <1>5, FreeFits DEF EnrolmentInv, TaskFits
<1>14. \A i \in Invitations, c \in Children : Says(i, c)' => Says(i, c)
  <2> SUFFICES ASSUME NEW i \in Invitations, NEW c \in Children, Says(i, c)'
               PROVE  Says(i, c)
    OBVIOUS
  <2>1. CASE invitation'[i].status \in Known /\ invitation'[i].child = c
    BY <1>6, <1>8, <2>1 DEF Says
  <2>2. ASSUME NEW u \in Tasks, TaskSays(task[u], i, c)'
        PROVE  Says(i, c)
    <3>1. u # t
      BY <1>5, <2>2, FreeFits DEF TaskSays
    <3> QED
      BY <1>5, <2>2, <3>1 DEF Says, TaskSays
  <2> QED
    BY <2>1, <2>2 DEF Says
<1>15. OneChild'
  BY <1>6, <1>14 DEF EnrolmentInv, OneChild
<1>16. EnrolledByInvitation'
  <2>1. ASSUME NEW c \in Children, pupil'[c].parent # None
        PROVE  pupil'[c].parent \in parents' /\ [parent |-> pupil'[c].parent, child |-> c] \in ever'
    <3>1. CASE c \in new
      BY <1>1, <1>9, <1>10, <3>1
    <3>2. CASE c \notin new
      BY <1>1, <1>10, <2>1, <3>2 DEF EnrolmentInv, EnrolledByInvitation, Enrolled
    <3> QED
      BY <3>1, <3>2
  <2>2. ASSUME NEW i \in Invitations, invitation'[i].status = "ACCEPTED"
        PROVE  pupil'[invitation'[i].child].parent # None
    <3>1. CASE invitation[i].status = "ACCEPTED"
      <4>1. invitation[i].child \in Children /\ pupil[invitation[i].child].parent # None
        BY <3>1 DEF EnrolmentInv, InvitationFits, EnrolledByInvitation, Enrolled, Known
      <4> QED
        BY <1>3, <1>6, <1>10, <4>1
    <3>2. CASE invitation[i].status # "ACCEPTED"
      <4>1. PICK f \in r.found : f[1] = i
        BY <1>6, <2>2, <3>2
      <4>2. invitation'[i].child = f[2].child /\ f[2].child \in Children
        BY <1>4, <1>6, <1>8, <4>1
      <4>3. f[2].child \in new \/ pupil[f[2].child].parent = r.parent
        BY <4>1 DEF NewChildren, ChildrenOf
      <4> QED
        BY <1>3, <1>10, <4>2, <4>3
    <3> QED
      BY <3>1, <3>2
  <2> QED
    BY <2>1, <2>2 DEF EnrolledByInvitation, Enrolled
<1> QED
  BY <1>11, <1>12, <1>13, <1>15, <1>16 DEF EnrolmentInv

-----------------------------------------------------------------------------
\* Every step keeps the invariant.
LEMMA EnrolmentStep == EnrolmentInv /\ [NextEnrolment]_enrolmentVars => EnrolmentInv'
<1> SUFFICES ASSUME EnrolmentInv, [NextEnrolment]_enrolmentVars
             PROVE  EnrolmentInv'
  OBVIOUS
<1>1. CASE UNCHANGED enrolmentVars
  <2>1. UNCHANGED <<invitation, parents, task, ever, pupil, sheet, hourly>>
    BY <1>1 DEF enrolmentVars, rowVars
  <2>2. RowsShaped'
    BY <2>1 DEF EnrolmentInv, RowsShaped
  <2> QED
    BY <2>1, <2>2, QuotasKeep
<1>2. CASE FetchSheet \/ ReadStudents \/ WriteQuotas \/ EditSheet
  BY <1>2, HourlyKeeps
<1>3. ASSUME NEW t \in Tasks,
             \/ Invite(t) \/ FindInvitation(t) \/ ChangeEmail(t) \/ Withdraw(t) \/ SyncOne(t) \/ SignInParent(t) \/ UndoSignIn(t)
      PROVE  EnrolmentInv'
  BY <1>3, InviteKeeps, FindKeeps, AskKeeps, SignInKeeps, UndoKeeps
<1>4. ASSUME NEW t \in Tasks,
             \/ SaveInvitation(t) \/ SaveEmail(t) \/ DeleteInvitation(t) \/ Redeem(t) \/ FetchOne(t) \/ WriteOne(t)
      PROVE  EnrolmentInv'
  BY <1>4, SendKeeps, RedeemKeeps, SyncOneKeeps
<1> QED
  BY <1>1, <1>2, <1>3, <1>4 DEF NextEnrolment

(* The rows of invitations and students are what they may be, the quotas   *)
(* read from the sheet among them: numbers, and never below zero.          *)
THEOREM EnrolmentTypeCorrect == SpecEnrolment => []EnrolmentTyped
<1>1. SpecEnrolment => []EnrolmentInv
  BY EnrolmentStarts, EnrolmentStep, PTL DEF SpecEnrolment
<1>2. EnrolmentInv => EnrolmentTyped
  <2> SUFFICES ASSUME EnrolmentInv
               PROVE  EnrolmentTyped
    OBVIOUS
  <2>1. \A t \in Tasks : task[t] \in TaskRows
    BY DEF EnrolmentInv, RowsShaped
  <2>2. \A t \in Tasks : task[t].row \in InvitationRows \cup PupilRows
    BY <2>1 DEF TaskRows
  <2> QED
    BY <2>2 DEF EnrolmentInv, RowsShaped, EnrolmentTyped
<1> QED
  BY <1>1, <1>2, PTL

(* Whoever is enrolled was invited, by the parent it is enrolled for, and  *)
(* an accepted invitation has enrolled its child, however invitations are  *)
(* sent again, redirected, withdrawn and redeemed at once.                 *)
THEOREM EnrolsByInvitation == SpecEnrolment => []EnrolledByInvitation
<1>1. SpecEnrolment => []EnrolmentInv
  BY EnrolmentStarts, EnrolmentStep, PTL DEF SpecEnrolment
<1>2. EnrolmentInv => EnrolledByInvitation
  BY DEF EnrolmentInv
<1> QED
  BY <1>1, <1>2, PTL
=============================================================================
