--------------------------- MODULE AccountsProofs ---------------------------
(***************************************************************************)
(* What TLAPS proves of Accounts, for any number of accounts, handlers and *)
(* failures allowed: its type; that wrong passwords are counted exactly,   *)
(* an administrator is left and grants fit the role while the Team API is  *)
(* what changes accounts, and no temporary password is kept; and, with the *)
(* admin site too, that sessions belong to those who know the password.    *)
(***************************************************************************)
EXTENDS Accounts, TLAPS

\* What a request holds is what its operation needs
WellShaped(r) ==
    /\ r.op \in asked \cup {Nobody}
    /\ r.op = Nobody => r.stage = Nobody
    /\ r.op # Nobody => r.user \in Users
    /\ r.op \in TeamOps => r.actor \in Users /\ r.ask \in Asks /\ r.stage \in {"received", "checked"}
    /\ r.op \in BySite => r.row \in AccountRows /\ r.row.exists
    /\ r.op = "admin_form" => r.ask \in Asks
    /\ r.op = "sign_in" => account[r.user].exists
    /\ r.stage \in {"checked", "signed"} /\ r.op = "sign_in" => r.row \in AccountRows
    /\ r.stage = "signed" => r.op = "sign_in" /\ r.typed = r.row.password
    /\ r.op \in {"change_password", "set_password"} => r.stage # "checked"

RequestsShaped == \A h \in Handlers : WellShaped(handling[h])

\* A row, and the team, are locked by one handler at a time
LocksHeld ==
    \A g, h \in Handlers :
        handling[g].stage = "checked" /\ handling[h].stage = "checked" =>
            /\ handling[g].user = handling[h].user => g = h
            /\ handling[g].op \in TeamOps /\ handling[h].op \in TeamOps => g = h

BaseInv == AccountsTyped /\ RequestsShaped /\ LocksHeld
-----------------------------------------------------------------------------
(***************************************************************************)
(* What every step of a handler has in common                              *)
(***************************************************************************)
\* Its request becomes new, which holds its locks alone
Moves(h, new) ==
    /\ handling' = [handling EXCEPT ![h] = new]
    /\ new \in Request /\ WellShaped(new)
    /\ new.stage = "checked" => RowFree(h, new.user) /\ (new.op \in TeamOps => TeamFree(h))

\* It writes no row but one nobody else has locked
Writes(h) ==
    \/ account' = account
    \/ \E u \in Users, row \in AccountRows :
          /\ account' = [account EXCEPT ![u] = row]
          /\ RowFree(h, u)
          /\ account[u].exists => row.exists

StepOf(h) == (\E new : Moves(h, new)) /\ Writes(h) /\ asked' = asked

LEMMA IdleShaped == Idle \in Request /\ Idle.stage # "checked" /\ WellShaped(Idle)
BY AccountsAssumption DEF Idle, Request, WellShaped, AccountOps, TeamOps, BySite, Stages

\* A handler that has a row locked is the only one that has.
LEMMA HolderAlone ==
  ASSUME BaseInv, NEW h \in Handlers, handling[h].stage = "checked"
  PROVE  RowFree(h, handling[h].user)
BY DEF BaseInv, LocksHeld, RowFree

\* A request that is done frees its handler.
LEMMA DoneMoves ==
  ASSUME NEW h \in Handlers, Done(h)
  PROVE  \E new : Moves(h, new)
<1> Moves(h, Idle)
  BY IdleShaped DEF Moves, Done
<1> QED
  OBVIOUS

\* One that writes a row it has locked, or can lock, writes it alone.
LEMMA RowWritten ==
  ASSUME NEW h, NEW u \in Users, NEW row \in AccountRows, RowFree(h, u),
         account[u].exists => row.exists, account' = [account EXCEPT ![u] = row]
  PROVE  Writes(h)
BY DEF Writes

\* The base invariant is kept by any such step, if what it leaves in the other tables is typed.
LEMMA StepKeepsBase ==
  ASSUME BaseInv, NEW h \in Handlers, StepOf(h),
         grants' \in [Users -> SUBSET Permissions], sessions' \subseteq Sessions,
         clock' = clock, lastSet' \in Nat, chosen' \subseteq 1 .. lastSet',
         guesses' \in [Users -> Nat], requestsLeft' \in Nat
  PROVE  BaseInv'
<1>1. PICK new : Moves(h, new)
  BY DEF StepOf
<1>2. handling \in [Handlers -> Request] /\ account \in [Users -> AccountRows]
  BY DEF BaseInv, AccountsTyped
<1>3. handling' \in [Handlers -> Request] /\ \A g \in Handlers : handling'[g] = IF g = h THEN new ELSE handling[g]
  BY <1>1, <1>2 DEF Moves
<1>4. /\ account' \in [Users -> AccountRows]
      /\ \A u \in Users : account[u].exists => account'[u].exists
  <2>1. CASE account' = account
    BY <2>1, <1>2
  <2>2. ASSUME NEW u \in Users, NEW row \in AccountRows, account' = [account EXCEPT ![u] = row],
               account[u].exists => row.exists
        PROVE  <1>4!1 /\ <1>4!2
    BY <2>2, <1>2
  <2> QED
    BY <2>1, <2>2 DEF StepOf, Writes
<1>5. AccountsTyped'
  BY <1>3, <1>4 DEF BaseInv, AccountsTyped, StepOf
<1>6. RequestsShaped'
  <2>1. \A g \in Handlers : WellShaped(handling'[g])
    BY <1>1, <1>3 DEF Moves, BaseInv, RequestsShaped
  <2>2. \A r : WellShaped(r) => WellShaped(r)'
    BY <1>4, AccountsAssumption DEF WellShaped, StepOf, AccountOps
  <2> QED
    BY <2>1, <2>2 DEF RequestsShaped, WellShaped
<1>7. LocksHeld'
  BY <1>1, <1>3 DEF Moves, BaseInv, LocksHeld, RowFree, TeamFree
<1> QED
  BY <1>5, <1>6, <1>7 DEF BaseInv

-----------------------------------------------------------------------------
(***************************************************************************)
(* Each action is such a step                                              *)
(***************************************************************************)
LEMMA HandlingTyped ==
  ASSUME BaseInv, NEW h \in Handlers
  PROVE  handling[h] \in Request /\ WellShaped(handling[h])
BY DEF BaseInv, AccountsTyped, RequestsShaped

LEMMA RowTyped ==
  ASSUME BaseInv, NEW u \in Users
  PROVE  account[u] \in AccountRows
BY DEF BaseInv, AccountsTyped

LEMMA AsksTyped ==
  ASSUME NEW op, NEW ask \in AsksOf(op)
  PROVE  ask \in Asks
<1>1. NothingPosted \in Columns
  BY DEF NothingPosted, Columns
<1>2. Posted \subseteq Columns /\ Admin \in StaffRoles
  BY AccountsAssumption
<1> HIDE DEF NothingPosted, Columns
<1>3. ask.posted \in Columns /\ ask.grants \in SUBSET Permissions
  BY <1>1, <1>2 DEF AsksOf
<1>4. ask.role \in StaffRoles /\ ask.active \in BOOLEAN
  BY <1>2 DEF AsksOf
<1>5. ask = [role |-> ask.role, active |-> ask.active, grants |-> ask.grants, posted |-> ask.posted]
  BY DEF AsksOf
<1> QED
  BY <1>3, <1>4, <1>5 DEF Asks

LEMMA ReceiveSteps ==
  ASSUME BaseInv, NEW h \in Handlers,
         ReceiveSignIn(h) \/ ReceiveChange(h) \/ ReceiveTeam(h) \/ ReceiveForm(h) \/ ReceiveSetPassword(h)
  PROVE  StepOf(h)
<1>1. account' = account /\ asked' = asked
  BY DEF ReceiveSignIn, ReceiveChange, ReceiveTeam, ReceiveForm, ReceiveSetPassword
<1>2. CASE ReceiveSignIn(h)
  <2>1. PICK u \in Users, typed \in 0 .. lastSet :
          /\ account[u].exists /\ "sign_in" \in asked
          /\ handling' = [handling EXCEPT ![h] =
                [Idle EXCEPT !.op = "sign_in", !.stage = "received", !.user = u, !.now = clock, !.typed = typed]]
    BY <1>2 DEF ReceiveSignIn, Receives, Becomes
  <2> DEFINE new == [Idle EXCEPT !.op = "sign_in", !.stage = "received", !.user = u, !.now = clock, !.typed = typed]
  <2>2. typed \in Nat /\ clock \in Nat
    BY DEF BaseInv, AccountsTyped
  <2>3. new \in Request /\ WellShaped(new) /\ new.stage # "checked"
    BY <2>1, <2>2, AccountsAssumption DEF Idle, Request, WellShaped, AccountOps, TeamOps, BySite, Stages
  <2> QED
    BY <1>1, <2>1, <2>3 DEF StepOf, Moves, Writes
<1>3. CASE ReceiveChange(h)
  <2>1. PICK s \in sessions :
          /\ "change_password" \in asked
          /\ handling' = [handling EXCEPT ![h] =
                [Idle EXCEPT !.op = "change_password", !.stage = "received", !.user = s.user,
                             !.row = account[s.user], !.session = s]]
    BY <1>3 DEF ReceiveChange, Receives, Becomes
  <2> DEFINE new == [Idle EXCEPT !.op = "change_password", !.stage = "received", !.user = s.user,
                                 !.row = account[s.user], !.session = s]
  <2>2. s \in Sessions /\ s.user \in Users /\ account[s.user] \in AccountRows
    BY DEF BaseInv, AccountsTyped, Sessions
  <2>3. new \in Request /\ WellShaped(new) /\ new.stage # "checked"
    BY <2>1, <2>2, AccountsAssumption DEF Idle, Request, WellShaped, AccountOps, TeamOps, BySite, Stages
  <2> QED
    BY <1>1, <2>1, <2>3 DEF StepOf, Moves, Writes
<1>4. CASE ReceiveTeam(h)
  <2>1. PICK op \in TeamOps, actor \in TeamManagers, u \in Users : \E ask \in AsksOf(op) :
          /\ op \in asked
          /\ handling' = [handling EXCEPT ![h] =
                [Idle EXCEPT !.op = op, !.stage = "received", !.user = u, !.actor = actor, !.ask = ask]]
    BY <1>4 DEF ReceiveTeam, Receives, Becomes
  <2>2. PICK ask \in AsksOf(op) :
          /\ op \in asked
          /\ handling' = [handling EXCEPT ![h] =
                [Idle EXCEPT !.op = op, !.stage = "received", !.user = u, !.actor = actor, !.ask = ask]]
    BY <2>1
  <2> DEFINE new == [Idle EXCEPT !.op = op, !.stage = "received", !.user = u, !.actor = actor, !.ask = ask]
  <2>3. ask \in Asks
    BY <2>2, AsksTyped
  <2>4. actor \in Users
    BY DEF TeamManagers
  <2>5. new \in Request /\ WellShaped(new) /\ new.stage # "checked"
    BY <2>2, <2>3, <2>4, AccountsAssumption DEF Idle, Request, WellShaped, AccountOps, TeamOps, BySite, Stages
  <2> QED
    BY <1>1, <2>2, <2>5 DEF StepOf, Moves, Writes
<1>5. CASE ReceiveForm(h)
  <2>1. PICK u \in Users, ask \in AsksOf("admin_form") :
          /\ account[u].exists /\ "admin_form" \in asked
          /\ handling' = [handling EXCEPT ![h] =
                [Idle EXCEPT !.op = "admin_form", !.stage = "received", !.user = u, !.row = account[u], !.ask = ask]]
    BY <1>5 DEF ReceiveForm, Receives, Becomes
  <2> DEFINE new == [Idle EXCEPT !.op = "admin_form", !.stage = "received", !.user = u, !.row = account[u], !.ask = ask]
  <2>2. ask \in Asks
    BY <2>1, AsksTyped
  <2>3. new \in Request /\ WellShaped(new) /\ new.stage # "checked"
    BY <2>1, <2>2, RowTyped, AccountsAssumption DEF Idle, Request, WellShaped, AccountOps, TeamOps, BySite, Stages
  <2> QED
    BY <1>1, <2>1, <2>3 DEF StepOf, Moves, Writes
<1>6. CASE ReceiveSetPassword(h)
  <2>1. PICK u \in Users, own \in sessions \cup {Nobody} :
          /\ account[u].exists /\ "set_password" \in asked
          /\ handling' = [handling EXCEPT ![h] =
                [Idle EXCEPT !.op = "set_password", !.stage = "received", !.user = u, !.row = account[u],
                             !.session = own]]
    BY <1>6 DEF ReceiveSetPassword, Receives, Becomes
  <2> DEFINE new == [Idle EXCEPT !.op = "set_password", !.stage = "received", !.user = u, !.row = account[u],
                                 !.session = own]
  <2>2. own \in Sessions \cup {Nobody}
    BY DEF BaseInv, AccountsTyped
  <2>3. new \in Request /\ WellShaped(new) /\ new.stage # "checked"
    BY <2>1, <2>2, RowTyped, AccountsAssumption DEF Idle, Request, WellShaped, AccountOps, TeamOps, BySite, Stages
  <2> QED
    BY <1>1, <2>1, <2>3 DEF StepOf, Moves, Writes
<1> QED
  BY <1>2, <1>3, <1>4, <1>5, <1>6

\* A request goes on to its next stage, and has what it needs there.
LEMMA GoesMoves ==
  ASSUME BaseInv, NEW h \in Handlers, NEW stage \in Stages, Goes(h, stage),
         handling[h].op # Nobody,
         handling[h].op \in TeamOps => stage = "checked" /\ TeamFree(h),
         handling[h].op \in {"change_password", "set_password"} => stage = "saved",
         handling[h].op = "sign_in" => stage = "signed" /\ handling[h].stage = "checked"
                                         /\ handling[h].typed = handling[h].row.password,
         handling[h].op # "sign_in" => stage # "signed",
         stage = "checked" => RowFree(h, handling[h].user)
  PROVE  \E new : Moves(h, new)
<1> DEFINE new == [handling[h] EXCEPT !.stage = stage]
<1>1. handling[h] \in Request /\ WellShaped(handling[h])
  BY HandlingTyped
<1>2. new \in Request /\ new.stage = stage /\ new.op = handling[h].op /\ new.user = handling[h].user
  BY <1>1 DEF Request
<1>3. WellShaped(new)
  BY <1>1 DEF WellShaped, Request, Stages, TeamOps, BySite, AccountOps
<1>4. handling' = [handling EXCEPT ![h] = new]
  BY DEF Goes, BaseInv, AccountsTyped
<1> HIDE DEF new
<1> QED
  BY <1>2, <1>3, <1>4 DEF Moves

LEMMA SignInSteps ==
  ASSUME BaseInv, NEW h \in Handlers,
         ReadForSignIn(h) \/ RightPassword(h) \/ WrongPassword(h) \/ EstablishSession(h)
  PROVE  StepOf(h)
<1> DEFINE u == handling[h].user
<1>0. asked' = asked
  BY DEF ReadForSignIn, RightPassword, WrongPassword, EstablishSession
<1>1. handling[h] \in Request /\ WellShaped(handling[h]) /\ handling[h].op = "sign_in"
  BY HandlingTyped DEF At, ReadForSignIn, RightPassword, WrongPassword, EstablishSession
<1>2. u \in Users /\ account[u] \in AccountRows
  BY <1>1, RowTyped, AccountsAssumption DEF WellShaped, AccountOps
<1>3. CASE ReadForSignIn(h)
  <2>1. account' = account /\ RowFree(h, u)
    BY <1>3 DEF ReadForSignIn, LockAndRead
  <2>2. CASE Done(h)
    BY <1>0, <2>1, <2>2, DoneMoves DEF StepOf, Writes
  <2>3. CASE Becomes(h, [handling[h] EXCEPT !.stage = "checked", !.row = account[u]])
    <3> DEFINE new == [handling[h] EXCEPT !.stage = "checked", !.row = account[u]]
    <3>1. new \in Request /\ new.op = "sign_in" /\ new.user = u
      BY <1>1, <1>2 DEF Request, Stages
    <3>2. WellShaped(new)
      BY <1>1, <1>2, AccountsAssumption DEF WellShaped, Request, TeamOps, BySite, AccountOps
    <3>3. handling' = [handling EXCEPT ![h] = new]
      BY <2>3 DEF Becomes
    <3> HIDE DEF new
    <3>4. Moves(h, new)
      BY <2>1, <3>1, <3>2, <3>3 DEF Moves, TeamOps
    <3> QED
      BY <1>0, <2>1, <3>4 DEF StepOf, Writes
  <2> QED
    BY <1>3, <2>2, <2>3 DEF ReadForSignIn, LockAndRead
<1>4. CASE RightPassword(h)
  <2>1. handling[h].stage = "checked" /\ handling[h].typed = handling[h].row.password
    BY <1>4 DEF RightPassword, At
  <2>2. CASE handling[h].row.active
    <3> DEFINE row == [account[u] EXCEPT !.failures = 0, !.lockedUntil = 0]
    <3>1. row \in AccountRows /\ row.exists = account[u].exists
      BY <1>2 DEF AccountRows
    <3>2. account' = [account EXCEPT ![u] = row] /\ Goes(h, "signed")
      BY <1>4, <2>2 DEF RightPassword, BaseInv, AccountsTyped
    <3> HIDE DEF row
    <3>3. Writes(h)
      BY <1>2, <2>1, <3>1, <3>2, HolderAlone, RowWritten
    <3>4. \E new : Moves(h, new)
      BY <1>1, <2>1, <3>2, GoesMoves, AccountsAssumption DEF Stages, TeamOps, BySite, AccountOps
    <3> QED
      BY <1>0, <3>3, <3>4 DEF StepOf
  <2>3. CASE ~ handling[h].row.active
    BY <1>0, <1>4, <2>3, DoneMoves DEF RightPassword, StepOf, Writes
  <2> QED
    BY <2>2, <2>3
<1>5. CASE WrongPassword(h)
  <2> DEFINE count == FailuresAfter(handling[h].row)
             until == LockFor(count, handling[h].now)
             row == [account[u] EXCEPT !.failures = count, !.lockedUntil = until]
  <2>1. handling[h].stage = "checked" /\ handling[h].row \in AccountRows /\ handling[h].now \in Nat
    BY <1>1, <1>5 DEF WrongPassword, At, WellShaped, Request
  <2>2. count \in Nat
    BY <2>1 DEF FailuresAfter, AccountRows
  <2>3. until \in Nat
    BY <2>1, <2>2, AccountsAssumption DEF LockFor
  <2>4. account' = [account EXCEPT ![u] = row] /\ Done(h)
    BY <1>5 DEF WrongPassword, BaseInv, AccountsTyped
  <2> HIDE DEF count, until
  <2>5. row \in AccountRows /\ row.exists = account[u].exists
    BY <1>2, <2>2, <2>3 DEF AccountRows
  <2> HIDE DEF row
  <2>6. Writes(h)
    BY <1>2, <2>1, <2>4, <2>5, HolderAlone, RowWritten
  <2> QED
    BY <1>0, <2>4, <2>6, DoneMoves DEF StepOf
<1>6. CASE EstablishSession(h)
  BY <1>0, <1>6, DoneMoves DEF EstablishSession, StepOf, Writes
<1> QED
  BY <1>3, <1>4, <1>5, <1>6

LEMMA ChangeSteps ==
  ASSUME BaseInv, NEW h \in Handlers, ChangePassword(h) \/ SetPassword(h) \/ RekeySession(h)
  PROVE  StepOf(h)
<1> DEFINE u == handling[h].user
<1>1. CASE RekeySession(h)
  BY <1>1, DoneMoves DEF RekeySession, StepOf, Writes
<1> SUFFICES ASSUME ChangePassword(h) \/ SetPassword(h)
             PROVE  StepOf(h)
  BY <1>1
<1>2. /\ handling[h] \in Request /\ WellShaped(handling[h]) /\ lastSet \in Nat
      /\ handling[h].op \in {"change_password", "set_password"} /\ RowFree(h, u) /\ asked' = asked
  BY HandlingTyped DEF At, ChangePassword, SetPassword, BaseInv, AccountsTyped
<1>3. u \in Users /\ account[u] \in AccountRows /\ lastSet + 1 \in Nat
  BY <1>2, RowTyped, AccountsAssumption DEF WellShaped, AccountOps
<1> DEFINE new == [handling[h] EXCEPT !.stage = "saved", !.typed = lastSet + 1]
<1>4. ASSUME handling' = [handling EXCEPT ![h] = new]
      PROVE  Moves(h, new)
  <2>1. new \in Request /\ new.stage = "saved"
    BY <1>2, <1>3 DEF Request, Stages
  <2>2. WellShaped(new)
    BY <1>2, AccountsAssumption DEF WellShaped, Request, TeamOps, BySite, AccountOps
  <2> HIDE DEF new
  <2> QED
    BY <1>4, <2>1, <2>2 DEF Moves
<1>5. CASE ChangePassword(h)
  <2> DEFINE row == [account[u] EXCEPT !.password = lastSet + 1, !.mustChange = FALSE]
  <2>1. row \in AccountRows /\ row.exists = account[u].exists
    BY <1>3 DEF AccountRows
  <2>2. account' = [account EXCEPT ![u] = row] /\ handling' = [handling EXCEPT ![h] = new]
    BY <1>5 DEF ChangePassword, SaveChange, Becomes, BaseInv, AccountsTyped
  <2> HIDE DEF row, new
  <2>3. Writes(h)
    BY <1>2, <1>3, <2>1, <2>2, RowWritten
  <2> QED
    BY <1>2, <1>4, <2>2, <2>3 DEF StepOf
<1>6. CASE SetPassword(h)
  <2> DEFINE row == [handling[h].row EXCEPT !.password = lastSet + 1]
  <2>1. handling[h].row \in AccountRows /\ handling[h].row.exists
    BY <1>2, <1>6 DEF SetPassword, At, WellShaped, BySite
  <2>2. row \in AccountRows /\ row.exists
    BY <1>3, <2>1 DEF AccountRows
  <2>3. account' = [account EXCEPT ![u] = row] /\ (Done(h) \/ handling' = [handling EXCEPT ![h] = new])
    BY <1>6 DEF SetPassword, Becomes
  <2> HIDE DEF row, new
  <2>4. Writes(h)
    BY <1>2, <1>3, <2>2, <2>3, RowWritten
  <2> QED
    BY <1>2, <1>4, <2>3, <2>4, DoneMoves DEF StepOf
<1> QED
  BY <1>5, <1>6

LEMMA CheckTeamSteps ==
  ASSUME BaseInv, NEW h \in Handlers, CheckTeam(h)
  PROVE  StepOf(h)
<1>1. /\ account' = account /\ asked' = asked
      /\ handling[h].op \in TeamOps /\ RowFree(h, handling[h].user) /\ TeamFree(h)
  BY DEF CheckTeam, LocksFree
<1>2. CASE Done(h)
  BY <1>1, <1>2, DoneMoves DEF StepOf, Writes
<1>3. CASE Goes(h, "checked")
  <2>1. \E new : Moves(h, new)
    BY <1>1, <1>3, GoesMoves, AccountsAssumption DEF Stages, TeamOps, BySite, AccountOps
  <2> QED
    BY <1>1, <2>1 DEF StepOf, Writes
<1> QED
  BY <1>2, <1>3 DEF CheckTeam

\* A Team write: the account whose row it has locked, as its manager asked.
LEMMA TeamSteps ==
  ASSUME BaseInv, NEW h \in Handlers,
         CreateAccount(h) \/ GiveRole(h) \/ SetActive(h) \/ ResetPassword(h) \/ SetPermissions(h)
  PROVE  StepOf(h)
<1> DEFINE u == handling[h].user
<1>1. /\ asked' = asked /\ Done(h)
      /\ handling[h].op \in TeamOps /\ handling[h].stage = "checked"
  BY DEF CreateAccount, GiveRole, SetActive, ResetPassword, SetPermissions, At, TeamOps, BySite, AccountOps
<1>2. handling[h] \in Request /\ WellShaped(handling[h]) /\ lastSet \in Nat
  BY HandlingTyped DEF BaseInv, AccountsTyped
<1>3. u \in Users /\ account[u] \in AccountRows /\ handling[h].ask.role \in StaffRoles
  BY <1>1, <1>2, RowTyped, AccountsAssumption DEF WellShaped, TeamOps, BySite, AccountOps, Asks
<1>4. RowFree(h, u)
  BY <1>1, HolderAlone
<1>5. ASSUME NEW row \in AccountRows, account' = [account EXCEPT ![u] = row], account[u].exists => row.exists
      PROVE  StepOf(h)
  <2>1. Writes(h)
    BY <1>3, <1>4, <1>5, RowWritten
  <2> QED
    BY <1>1, <2>1, DoneMoves DEF StepOf
<1>6. CASE CreateAccount(h)
  <2> DEFINE row == [exists |-> TRUE, role |-> handling[h].ask.role, active |-> TRUE, password |-> lastSet + 1,
                     mustChange |-> TRUE, failures |-> 0, lockedUntil |-> 0]
  <2>1. row \in AccountRows /\ row.exists /\ account' = [account EXCEPT ![u] = row]
    BY <1>2, <1>3, <1>6 DEF CreateAccount, AccountRows
  <2> HIDE DEF row
  <2> QED
    BY <2>1, <1>5
<1>7. CASE GiveRole(h)
  <2> DEFINE row == [account[u] EXCEPT !.role = handling[h].ask.role]
  <2>1. row \in AccountRows /\ row.exists = account[u].exists /\ account' = [account EXCEPT ![u] = row]
    BY <1>3, <1>7 DEF GiveRole, AccountRows, BaseInv, AccountsTyped
  <2> HIDE DEF row
  <2> QED
    BY <2>1, <1>5
<1>8. CASE SetActive(h)
  <2> DEFINE row == [account[u] EXCEPT !.active = (handling[h].op = "reactivate")]
  <2>1. row \in AccountRows /\ row.exists = account[u].exists /\ account' = [account EXCEPT ![u] = row]
    BY <1>3, <1>8 DEF SetActive, AccountRows, BaseInv, AccountsTyped
  <2> HIDE DEF row
  <2> QED
    BY <2>1, <1>5
<1>9. CASE ResetPassword(h)
  <2> DEFINE row == Temporary(account[u])
  <2>0. lastSet + 1 \in Nat
    BY <1>2
  <2>1. row \in AccountRows /\ row.exists = account[u].exists
    BY <2>0, <1>3 DEF Temporary, AccountRows
  <2>2. account' = [account EXCEPT ![u] = row]
    BY <1>9 DEF ResetPassword
  <2> HIDE DEF row
  <2> QED
    BY <2>1, <2>2, <1>5
<1>10. CASE SetPermissions(h)
  BY <1>1, <1>10, DoneMoves DEF SetPermissions, StepOf, Writes
<1> QED
  BY <1>6, <1>7, <1>8, <1>9, <1>10

LEMMA FilledTyped ==
  ASSUME NEW row \in AccountRows, NEW ask \in Asks
  PROVE  Filled(row, ask) \in AccountRows /\ Filled(row, ask).exists = row.exists
BY DEF Filled, AccountRows, Asks, Columns

LEMMA FormSteps ==
  ASSUME BaseInv, NEW h \in Handlers, CheckForm(h) \/ SaveForm(h)
  PROVE  StepOf(h)
<1> DEFINE u == handling[h].user
<1>1. asked' = asked /\ RowFree(h, u) /\ handling[h].op = "admin_form"
  BY DEF CheckForm, SaveForm, At
<1>2. handling[h] \in Request /\ WellShaped(handling[h])
  BY HandlingTyped
<1>3. u \in Users /\ handling[h].row \in AccountRows /\ handling[h].row.exists /\ handling[h].ask \in Asks
  BY <1>1, <1>2, AccountsAssumption DEF WellShaped, BySite, AccountOps
<1>4. CASE CheckForm(h)
  <2>1. CASE Done(h)
    BY <1>1, <1>4, <2>1, DoneMoves DEF CheckForm, StepOf, Writes
  <2>2. CASE Goes(h, "checked")
    <3>1. \E new : Moves(h, new)
      BY <1>1, <2>2, GoesMoves, AccountsAssumption DEF Stages, TeamOps, BySite, AccountOps
    <3> QED
      BY <1>1, <1>4, <3>1 DEF CheckForm, StepOf, Writes
  <2> QED
    BY <1>4, <2>1, <2>2 DEF CheckForm
<1>5. CASE SaveForm(h)
  <2> DEFINE row == Filled(handling[h].row, handling[h].ask)
  <2>1. row \in AccountRows /\ row.exists
    BY <1>3, FilledTyped
  <2>2. account' = [account EXCEPT ![u] = row] /\ Done(h)
    BY <1>5 DEF SaveForm
  <2> HIDE DEF row
  <2>3. Writes(h)
    BY <1>1, <1>3, <2>1, <2>2, RowWritten
  <2> QED
    BY <1>1, <2>2, <2>3, DoneMoves DEF StepOf
<1> QED
  BY <1>4, <1>5

\* What handlers do, by name.
HandlerStep(h) ==
    \/ ReceiveSignIn(h) \/ ReceiveChange(h) \/ ReceiveTeam(h) \/ ReceiveForm(h)
    \/ ReadForSignIn(h) \/ RightPassword(h) \/ WrongPassword(h) \/ EstablishSession(h)
    \/ ChangePassword(h) \/ RekeySession(h) \/ CheckTeam(h)
    \/ CreateAccount(h) \/ GiveRole(h) \/ SetActive(h) \/ ResetPassword(h) \/ SetPermissions(h)
    \/ CheckForm(h) \/ SaveForm(h) \/ ReceiveSetPassword(h) \/ SetPassword(h)

LEMMA NextSteps == NextAccounts <=> Tick \/ \E h \in Handlers : HandlerStep(h)
BY DEF NextAccounts, HandlerStep

LEMMA EveryStep ==
  ASSUME BaseInv, NEW h \in Handlers, HandlerStep(h)
  PROVE  StepOf(h)
BY ReceiveSteps, SignInSteps, ChangeSteps, CheckTeamSteps, TeamSteps, FormSteps DEF HandlerStep

-----------------------------------------------------------------------------
(***************************************************************************)
(* The base invariant                                                      *)
(***************************************************************************)
LEMMA InitBase == InitAccounts => BaseInv
<1> SUFFICES ASSUME InitAccounts
             PROVE  BaseInv
  OBVIOUS
<1>1. PICK start \in AccountsAtStart : /\ account = start.account /\ asked = start.asked
                                      /\ clock = start.clock /\ requestsLeft = start.left
  BY DEF InitAccounts
<1>2. /\ account \in [Users -> AccountRows] /\ asked \subseteq AccountOps
      /\ clock \in Nat /\ requestsLeft \in Nat
  BY <1>1, AccountsAssumption
<1>3. sessions \subseteq Sessions
  BY DEF InitAccounts, Sessions
<1>4. handling \in [Handlers -> Request] /\ \A h \in Handlers : handling[h] = Idle
  BY IdleShaped DEF InitAccounts
<1>5. grants \in [Users -> SUBSET Permissions] /\ guesses \in [Users -> Nat] /\ lastSet = 1 /\ chosen = {1}
  BY DEF InitAccounts
<1>6. AccountsTyped
  BY <1>2, <1>3, <1>4, <1>5 DEF AccountsTyped
<1>7. RequestsShaped /\ LocksHeld
  BY <1>4, IdleShaped DEF RequestsShaped, LocksHeld
<1> QED
  BY <1>6, <1>7 DEF BaseInv

\* The tables a handler's step may touch beside its row stay typed.
LEMMA TablesTyped ==
  ASSUME BaseInv, NEW h \in Handlers, HandlerStep(h)
  PROVE  /\ grants' \in [Users -> SUBSET Permissions] /\ sessions' \subseteq Sessions
         /\ clock' = clock /\ lastSet' \in Nat /\ chosen' \subseteq 1 .. lastSet'
         /\ guesses' \in [Users -> Nat] /\ requestsLeft' \in Nat
<1>1. /\ grants \in [Users -> SUBSET Permissions] /\ sessions \subseteq Sessions
      /\ lastSet \in Nat /\ chosen \subseteq 1 .. lastSet
      /\ guesses \in [Users -> Nat] /\ requestsLeft \in Nat
  BY DEF BaseInv, AccountsTyped
<1>2. handling[h] \in Request /\ WellShaped(handling[h])
  BY HandlingTyped
<1>3. CASE ReceiveSignIn(h) \/ ReceiveChange(h) \/ ReceiveTeam(h) \/ ReceiveForm(h) \/ ReceiveSetPassword(h)
  <2>1. /\ UNCHANGED <<grants, sessions, clock, lastSet, chosen, guesses>>
        /\ requestsLeft > 0 /\ requestsLeft' = requestsLeft - 1
    BY <1>3 DEF ReceiveSignIn, ReceiveChange, ReceiveTeam, ReceiveForm, ReceiveSetPassword, Receives
  <2>2. requestsLeft' \in Nat
    BY <1>1, <2>1
  <2> QED
    BY <1>1, <2>1, <2>2
<1>4. CASE ReadForSignIn(h) \/ CheckTeam(h) \/ CheckForm(h)
  BY <1>1, <1>4 DEF ReadForSignIn, CheckTeam, CheckForm
<1>5. CASE RightPassword(h) \/ WrongPassword(h)
  <2>1. guesses' \in [Users -> Nat]
    BY <1>1, <1>5 DEF RightPassword, WrongPassword
  <2> QED
    BY <1>1, <1>5, <2>1 DEF RightPassword, WrongPassword
<1>6. CASE EstablishSession(h)
  <2>1. handling[h].row \in AccountRows /\ handling[h].user \in Users /\ handling[h].typed \in Nat
    BY <1>2, <1>6, AccountsAssumption DEF EstablishSession, At, WellShaped, Request, AccountOps
  <2>2. SessionOf(h) \in Sessions
    BY <2>1 DEF SessionOf, Sessions, AccountRows
  <2> QED
    BY <1>1, <1>6, <2>2 DEF EstablishSession
<1>7. CASE ChangePassword(h) \/ SetPassword(h)
  <2>1. /\ UNCHANGED <<grants, sessions, clock, guesses, requestsLeft>> /\ lastSet' = lastSet + 1
        /\ chosen' = chosen \/ chosen' = chosen \cup {lastSet + 1}
    BY <1>7 DEF ChangePassword, SetPassword
  <2>2. lastSet' \in Nat /\ 1 .. lastSet \subseteq 1 .. lastSet' /\ lastSet + 1 \in 1 .. lastSet'
    BY <1>1, <2>1
  <2>3. chosen' \subseteq 1 .. lastSet'
    BY Zenon, <1>1, <2>1, <2>2
  <2> QED
    BY <1>1, <2>1, <2>2, <2>3
<1>8. CASE RekeySession(h)
  <2>1. handling[h].user \in Users /\ handling[h].typed \in Nat
    BY <1>2, <1>8, AccountsAssumption DEF RekeySession, WellShaped, Request, Stages
  <2>2. Rekey(h) \in Sessions
    BY <2>1 DEF Rekey, Sessions
  <2> QED
    BY <1>1, <1>8, <2>2 DEF RekeySession
<1>9. CASE CreateAccount(h) \/ ResetPassword(h)
  <2>1. /\ UNCHANGED <<grants, sessions, clock, chosen, requestsLeft>> /\ lastSet' = lastSet + 1
        /\ guesses' = guesses \/ guesses' = [guesses EXCEPT ![handling[h].user] = 0]
    BY <1>9 DEF CreateAccount, ResetPassword
  <2>2. lastSet' \in Nat /\ chosen' \subseteq 1 .. lastSet'
    BY <1>1, <2>1
  <2>3. guesses' \in [Users -> Nat]
    BY <1>1, <2>1
  <2> QED
    BY <1>1, <2>1, <2>2, <2>3
<1>10. CASE GiveRole(h) \/ SaveForm(h)
  BY <1>1, <1>10 DEF GiveRole, SaveForm, ClearedGrants
<1>11. CASE SetActive(h)
  BY <1>1, <1>11 DEF SetActive
<1>12. CASE SetPermissions(h)
  <2>1. handling[h].ask.grants \in SUBSET Permissions
    BY <1>2, <1>12 DEF SetPermissions, At, WellShaped, TeamOps, BySite, AccountOps, Asks
  <2> QED
    BY <1>1, <1>12, <2>1 DEF SetPermissions
<1> QED
  BY <1>3, <1>4, <1>5, <1>6, <1>7, <1>8, <1>9, <1>10, <1>11, <1>12 DEF HandlerStep

\* Time passes, or nothing happens.
LEMMA StillKeepsBase ==
  ASSUME BaseInv, Tick \/ UNCHANGED accountVars
  PROVE  BaseInv'
<1>1. /\ UNCHANGED <<account, grants, sessions, handling, lastSet, chosen, guesses, asked, requestsLeft>>
      /\ clock' \in Nat
  BY DEF Tick, accountVars, BaseInv, AccountsTyped
<1> QED
  BY <1>1 DEF BaseInv, AccountsTyped, RequestsShaped, WellShaped, LocksHeld

LEMMA NextKeepsBase == BaseInv /\ [NextAccounts]_accountVars => BaseInv'
BY EveryStep, TablesTyped, StepKeepsBase, StillKeepsBase, NextSteps

(* Accounts, sessions, grants and requests are always what the code takes  *)
(* them to be, and no two handlers have a row, or the team, locked.        *)
THEOREM AccountsTypeCorrect == SpecAccounts => []AccountsTyped
<1>1. SpecAccounts => []BaseInv
  BY InitBase, NextKeepsBase, PTL DEF SpecAccounts
<1>2. BaseInv => AccountsTyped
  BY DEF BaseInv
<1> QED
  BY <1>1, <1>2, PTL

-----------------------------------------------------------------------------
(***************************************************************************)
(* Sessions and passwords                                                  *)
(***************************************************************************)
\* A session shows what it was issued against, and who need not change their password chose it
SessionsShow == \A s \in sessions : s.issued = s.shown

OwnPasswords == \A u \in Users : account[u].exists /\ ~ account[u].mustChange => account[u].password \in chosen

\* A step of one handler leaves what the others are doing.
LEMMA OthersStill ==
  ASSUME BaseInv, NEW h \in Handlers, HandlerStep(h)
  PROVE  \A g \in Handlers : g # h => handling'[g] = handling[g]
<1>1. PICK new : handling' = [handling EXCEPT ![h] = new]
  BY EveryStep DEF StepOf, Moves
<1> QED
  BY <1>1 DEF BaseInv, AccountsTyped

LEMMA DoneIdle ==
  ASSUME BaseInv, NEW h \in Handlers, Done(h)
  PROVE  handling'[h] = Idle /\ handling'[h].op = Nobody /\ handling'[h].stage = Nobody
BY DEF Done, Idle, BaseInv, AccountsTyped

\* Without the admin site no request is one of its.
LEMMA NoForms ==
  ASSUME BaseInv, ByApi, NEW h \in Handlers
  PROVE  ~ ReceiveForm(h) /\ ~ CheckForm(h) /\ ~ SaveForm(h) /\ ~ ReceiveSetPassword(h) /\ ~ SetPassword(h)
<1>1. handling[h].op \notin BySite
  BY HandlingTyped, AccountsAssumption DEF ByApi, WellShaped, BySite, AccountOps
<1> QED
  BY <1>1 DEF ByApi, BySite, ReceiveForm, ReceiveSetPassword, Receives, CheckForm, SaveForm, SetPassword, At

\* An account has a password its user chose, or is told to change it, as long as the Team API is what resets it.
LEMMA RowsKeepPasswords ==
  ASSUME BaseInv, ByApi, OwnPasswords, NEW h \in Handlers, HandlerStep(h)
  PROVE  OwnPasswords'
<1> DEFINE u == handling[h].user
<1>1. account \in [Users -> AccountRows] /\ WellShaped(handling[h]) /\ lastSet \in Nat
  BY HandlingTyped DEF BaseInv, AccountsTyped
<1>2. CASE account' = account /\ chosen' = chosen
  BY <1>2 DEF OwnPasswords
<1>3. CASE ReceiveSignIn(h) \/ ReceiveChange(h) \/ ReceiveTeam(h) \/ ReadForSignIn(h)
           \/ EstablishSession(h) \/ RekeySession(h) \/ CheckTeam(h) \/ SetPermissions(h)
  BY <1>2, <1>3 DEF ReceiveSignIn, ReceiveChange, ReceiveTeam, ReadForSignIn, EstablishSession,
                    RekeySession, CheckTeam, SetPermissions
<1>4. CASE RightPassword(h) \/ WrongPassword(h) \/ GiveRole(h) \/ SetActive(h)
  <2>1. chosen' = chosen
    BY <1>4 DEF RightPassword, WrongPassword, GiveRole, SetActive
  <2>2. \A v \in Users : /\ account'[v].exists = account[v].exists
                         /\ account'[v].mustChange = account[v].mustChange
                         /\ account'[v].password = account[v].password
    BY <1>1, <1>4 DEF RightPassword, WrongPassword, GiveRole, SetActive, AccountRows
  <2> QED
    BY <2>1, <2>2 DEF OwnPasswords
<1>5. CASE ChangePassword(h)
  <2>1. chosen' = chosen \cup {lastSet + 1}
    BY <1>5 DEF ChangePassword
  <2>2. \A v \in Users : account'[v] = account[v] \/ account'[v].password = lastSet + 1
    BY <1>1, <1>5 DEF ChangePassword, SaveChange, AccountRows
  <2> QED
    BY <2>1, <2>2 DEF OwnPasswords
<1>6. CASE CreateAccount(h) \/ ResetPassword(h)
  <2>1. chosen' = chosen
    BY <1>6 DEF CreateAccount, ResetPassword
  <2>2. \A v \in Users : account'[v] = account[v] \/ account'[v].mustChange
    <3>1. u \in Users /\ account[u] \in AccountRows
      BY <1>1, <1>6, AccountsAssumption DEF CreateAccount, ResetPassword, At, WellShaped, AccountOps
    <3>2. Temporary(account[u]).mustChange
      BY <3>1 DEF Temporary, AccountRows
    <3> QED
      BY <1>1, <1>6, <3>1, <3>2 DEF CreateAccount, ResetPassword
  <2> QED
    BY <2>1, <2>2 DEF OwnPasswords
<1> QED
  BY <1>3, <1>4, <1>5, <1>6, NoForms DEF HandlerStep

\* A session is issued against the password its user typed, or just set.
LEMMA SessionsKeepShown ==
  ASSUME BaseInv, SessionsShow, NEW h \in Handlers, HandlerStep(h)
  PROVE  SessionsShow'
<1>1. CASE EstablishSession(h)
  <2>1. handling[h].row.password = handling[h].typed
    BY <1>1, HandlingTyped DEF EstablishSession, At, WellShaped
  <2> QED
    BY <1>1, <2>1 DEF EstablishSession, SessionOf, SessionsShow
<1>2. CASE RekeySession(h)
  BY <1>2 DEF RekeySession, Rekey, SessionsShow
<1>3. CASE sessions' = sessions
  BY <1>3 DEF SessionsShow
<1> QED
  BY <1>1, <1>2, <1>3
     DEF HandlerStep, ReceiveSignIn, ReceiveChange, ReceiveTeam, ReceiveForm, ReceiveSetPassword, ReadForSignIn,
         RightPassword, WrongPassword, ChangePassword, SetPassword, CheckTeam, CreateAccount, GiveRole, SetActive,
         ResetPassword, SetPermissions, CheckForm, SaveForm

(* A session that works was issued to someone who knew the password the    *)
(* account has, however sign-ins, changes, resets and the admin site's     *)
(* forms interleave.                                                       *)
THEOREM SessionsKnow == SpecAccounts => []SessionsKnowPassword
<1>1. SpecAccounts => []BaseInv
  BY InitBase, NextKeepsBase, PTL DEF SpecAccounts
<1>2. InitAccounts => SessionsShow
  BY DEF InitAccounts, SessionsShow
<1>3. BaseInv /\ SessionsShow /\ [NextAccounts]_accountVars => SessionsShow'
  <2>1. Tick \/ UNCHANGED accountVars => UNCHANGED sessions
    BY DEF Tick, accountVars
  <2> QED
    BY <2>1, SessionsKeepShown, NextSteps DEF SessionsShow
<1>4. SessionsShow => SessionsKnowPassword
  BY DEF SessionsShow, SessionsKnowPassword, Usable
<1> QED
  BY <1>1, <1>2, <1>3, <1>4, PTL DEF SpecAccounts

(* Through the Team API no temporary password is ever kept: an account not *)
(* told to change its password has one that its user chose.                *)
THEOREM TemporaryIsReplaced == SpecAccounts => []TemporaryReplaced
<1>1. SpecAccounts => []BaseInv
  BY InitBase, NextKeepsBase, PTL DEF SpecAccounts
<1>2. InitAccounts => OwnPasswords
  <2> SUFFICES ASSUME InitAccounts
               PROVE  OwnPasswords
    OBVIOUS
  <2>1. PICK start \in AccountsAtStart : account = start.account
    BY DEF InitAccounts
  <2> QED
    BY <2>1, AccountsAssumption DEF InitAccounts, OwnPasswords
<1>3. BaseInv /\ TemporaryReplaced /\ [NextAccounts]_accountVars => TemporaryReplaced'
  <2> SUFFICES ASSUME BaseInv, TemporaryReplaced, [NextAccounts]_accountVars, ByApi'
               PROVE  OwnPasswords'
    BY DEF TemporaryReplaced, OwnPasswords
  <2>1. CASE Tick \/ UNCHANGED accountVars
    BY <2>1 DEF Tick, accountVars, TemporaryReplaced, ByApi, OwnPasswords
  <2>2. ASSUME NEW h \in Handlers, HandlerStep(h)
        PROVE  OwnPasswords'
    <3>1. asked' = asked
      BY <2>2, EveryStep DEF StepOf
    <3>2. ByApi /\ OwnPasswords
      BY <3>1 DEF ByApi, TemporaryReplaced, OwnPasswords
    <3> QED
      BY <2>2, <3>2, RowsKeepPasswords
  <2> QED
    BY <2>1, <2>2, NextSteps
<1>4. OwnPasswords => TemporaryReplaced
  BY DEF OwnPasswords, TemporaryReplaced
<1> QED
  BY <1>1, <1>2, <1>3, <1>4, PTL DEF SpecAccounts

-----------------------------------------------------------------------------
(***************************************************************************)
(* The Team API: what was checked still holds when it is written           *)
(***************************************************************************)
\* Wrong passwords are counted exactly, and the last one allowed locks
CountsAgree ==
    \A u \in Users :
        /\ guesses[u] = account[u].failures /\ account[u].failures <= MaxFailures
        /\ account[u].lockedUntil = 0 => account[u].failures < MaxFailures
        /\ ~ account[u].exists => account[u].failures = 0

\* Grants fit the role, and an account yet to be made has none
GrantsAgree ==
    \A u \in Users : /\ account[u].exists => grants[u] \subseteq Allowed[account[u].role]
                     /\ ~ account[u].exists => grants[u] = {}

CheckedStill ==
    \A h \in Handlers : handling[h].stage = "checked" =>
        /\ handling[h].op = "sign_in" => handling[h].row = account[handling[h].user]
        /\ handling[h].op \in TeamOps =>
              TeamAllows(handling[h].op, handling[h].actor, handling[h].user, handling[h].ask)

ApiInv == ByApi => CountsAgree /\ GrantsAgree /\ CheckedStill /\ ActiveAdmins # {}

\* One that holds the team's lock may write what its request asks for.
LEMMA CheckedMay ==
  ASSUME BaseInv, CheckedStill, NEW h \in Handlers, handling[h].stage = "checked", handling[h].op \in TeamOps
  PROVE  /\ TeamAllows(handling[h].op, handling[h].actor, handling[h].user, handling[h].ask)
         /\ handling[h].user \in Users /\ account[handling[h].user] \in AccountRows
         /\ handling[h].ask \in Asks
<1>1. WellShaped(handling[h])
  BY HandlingTyped
<1>2. handling[h].user \in Users /\ handling[h].ask \in Asks
  BY <1>1, AccountsAssumption DEF WellShaped, TeamOps, BySite, AccountOps
<1> QED
  BY <1>2, RowTyped DEF CheckedStill

\* The row a wrong password is judged by is the one that is counted in.
LEMMA CountsKeep ==
  ASSUME BaseInv, ByApi, CountsAgree, CheckedStill, NEW h \in Handlers, HandlerStep(h)
  PROVE  CountsAgree'
<1> DEFINE u == handling[h].user
<1>1. /\ account \in [Users -> AccountRows] /\ guesses \in [Users -> Nat] /\ MaxFailures \in Nat \ {0}
      /\ WellShaped(handling[h])
  BY HandlingTyped, AccountsAssumption DEF BaseInv, AccountsTyped
<1>2. CASE /\ guesses' = guesses
           /\ \A v \in Users : /\ account'[v].exists = account[v].exists
                               /\ account'[v].failures = account[v].failures
                               /\ account'[v].lockedUntil = account[v].lockedUntil
  BY <1>2 DEF CountsAgree
<1>3. CASE ReceiveSignIn(h) \/ ReceiveChange(h) \/ ReceiveTeam(h) \/ ReadForSignIn(h)
           \/ EstablishSession(h) \/ RekeySession(h) \/ CheckTeam(h) \/ SetPermissions(h)
  BY <1>2, <1>3 DEF ReceiveSignIn, ReceiveChange, ReceiveTeam, ReadForSignIn, EstablishSession,
                    RekeySession, CheckTeam, SetPermissions
<1>4. CASE ChangePassword(h) \/ GiveRole(h) \/ SetActive(h)
  BY <1>1, <1>2, <1>4 DEF ChangePassword, SaveChange, GiveRole, SetActive, AccountRows
<1>5. CASE RightPassword(h)
  <2>1. CASE handling[h].row.active
    <3>1. guesses' = [guesses EXCEPT ![u] = 0] /\ account' = [account EXCEPT ![u].failures = 0, ![u].lockedUntil = 0]
      BY <1>5, <2>1 DEF RightPassword
    <3>2. \A v \in Users : /\ account'[v].exists = account[v].exists
                           /\ v # u => /\ account'[v].failures = account[v].failures
                                       /\ account'[v].lockedUntil = account[v].lockedUntil
                           /\ v = u => account'[v].failures = 0
      BY <1>1, <3>1 DEF AccountRows
    <3> QED
      BY <1>1, <3>1, <3>2 DEF CountsAgree
  <2>2. CASE ~ handling[h].row.active
    BY <1>2, <1>5, <2>2 DEF RightPassword
  <2> QED
    BY <2>1, <2>2
<1>6. CASE WrongPassword(h)
  <2> DEFINE count == FailuresAfter(handling[h].row)
             until == LockFor(count, handling[h].now)
             guess == IF handling[h].row.lockedUntil # 0 THEN 1 ELSE guesses[u] + 1
  <2>1. handling[h].stage = "checked" /\ handling[h].op = "sign_in" /\ handling[h].now \in Nat
    BY <1>6, HandlingTyped DEF WrongPassword, At, Request
  <2>2. u \in Users /\ account[u].exists /\ account[u] \in AccountRows /\ handling[h].row = account[u]
    BY <1>1, <2>1, AccountsAssumption DEF WellShaped, CheckedStill, AccountOps
  <2>3. count = guess /\ count \in Nat /\ count <= MaxFailures
    BY <1>1, <2>2 DEF FailuresAfter, CountsAgree, AccountRows
  <2>4. until = 0 => count < MaxFailures
    BY <1>1, <2>1, <2>3, AccountsAssumption DEF LockFor
  <2>5. /\ account' = [account EXCEPT ![u].failures = count, ![u].lockedUntil = until]
        /\ guesses' = [guesses EXCEPT ![u] = guess]
    BY <1>1, <1>6, <2>2 DEF WrongPassword
  <2> HIDE DEF count, until, guess
  <2>6. \A v \in Users : /\ account'[v].exists = account[v].exists
                         /\ v # u => /\ account'[v].failures = account[v].failures
                                     /\ account'[v].lockedUntil = account[v].lockedUntil
                                     /\ guesses'[v] = guesses[v]
                         /\ v = u => /\ account'[v].failures = count /\ account'[v].lockedUntil = until
                                     /\ guesses'[v] = count
    BY <1>1, <2>3, <2>5 DEF AccountRows
  <2> QED
    BY <2>2, <2>3, <2>4, <2>6 DEF CountsAgree
<1>7. CASE ResetPassword(h)
  <2>1. u \in Users /\ account[u] \in AccountRows
    BY <1>7, CheckedMay DEF ResetPassword, At, TeamOps, BySite, AccountOps
  <2>2. Temporary(account[u]).failures = 0 /\ Temporary(account[u]).exists = account[u].exists
    BY <2>1 DEF Temporary, AccountRows
  <2> QED
    BY <1>1, <1>7, <2>1, <2>2 DEF ResetPassword, CountsAgree
<1>8. CASE CreateAccount(h)
  <2>1. u \in Users /\ ~ account[u].exists
    BY <1>8, CheckedMay DEF CreateAccount, At, TeamOps, BySite, AccountOps, TeamAllows, MayCreate
  <2> QED
    BY <1>1, <1>8, <2>1 DEF CreateAccount, CountsAgree
<1> QED
  BY <1>3, <1>4, <1>5, <1>6, <1>7, <1>8, NoForms DEF HandlerStep

\* Grants change with the role, or as the role that is locked allows.
LEMMA GrantsKeep ==
  ASSUME BaseInv, ByApi, GrantsAgree, CheckedStill, NEW h \in Handlers, HandlerStep(h)
  PROVE  GrantsAgree'
<1> DEFINE u == handling[h].user
<1>1. account \in [Users -> AccountRows] /\ grants \in [Users -> SUBSET Permissions]
  BY DEF BaseInv, AccountsTyped
<1>2. CASE /\ grants' = grants
           /\ \A v \in Users : account'[v].exists = account[v].exists /\ account'[v].role = account[v].role
  BY <1>2 DEF GrantsAgree
<1>3. CASE ReceiveSignIn(h) \/ ReceiveChange(h) \/ ReceiveTeam(h) \/ ReadForSignIn(h)
           \/ EstablishSession(h) \/ RekeySession(h) \/ CheckTeam(h)
  BY <1>2, <1>3 DEF ReceiveSignIn, ReceiveChange, ReceiveTeam, ReadForSignIn, EstablishSession,
                    RekeySession, CheckTeam
<1>4. CASE ChangePassword(h) \/ SetActive(h) \/ RightPassword(h) \/ WrongPassword(h)
  BY SMTT(30), <1>1, <1>2, <1>4 DEF ChangePassword, SaveChange, SetActive, RightPassword, WrongPassword, AccountRows
<1>5. CASE ResetPassword(h)
  <2>1. u \in Users /\ account[u] \in AccountRows
    BY <1>5, CheckedMay DEF ResetPassword, At, TeamOps, BySite, AccountOps
  <2>2. Temporary(account[u]).role = account[u].role /\ Temporary(account[u]).exists = account[u].exists
    BY <2>1 DEF Temporary, AccountRows
  <2> QED
    BY <1>1, <1>2, <1>5, <2>1, <2>2 DEF ResetPassword
<1>6. CASE CreateAccount(h)
  <2>1. u \in Users /\ ~ account[u].exists
    BY <1>6, CheckedMay DEF CreateAccount, At, TeamOps, BySite, AccountOps, TeamAllows, MayCreate
  <2> QED
    BY <1>1, <1>6, <2>1 DEF CreateAccount, GrantsAgree
<1>7. CASE GiveRole(h)
  <2>1. \A v \in Users : /\ account'[v].exists = account[v].exists
                         /\ v # u => account'[v].role = account[v].role /\ grants'[v] = grants[v]
                         /\ v = u => grants'[v] = {}
    BY <1>1, <1>7 DEF GiveRole, ClearedGrants, AccountRows
  <2> QED
    BY <2>1 DEF GrantsAgree
<1>8. CASE SetPermissions(h)
  <2>1. /\ u \in Users /\ account[u].exists
        /\ handling[h].ask.grants \ grants[u] \subseteq Allowed[account[u].role]
    BY <1>8, CheckedMay DEF SetPermissions, At, TeamOps, BySite, AccountOps, TeamAllows, MayGrant
  <2>2. grants[u] \subseteq Allowed[account[u].role]
    BY <2>1 DEF GrantsAgree
  <2> QED
    BY <1>1, <1>8, <2>1, <2>2 DEF SetPermissions, GrantsAgree
<1> QED
  BY <1>3, <1>4, <1>5, <1>6, <1>7, <1>8, NoForms DEF HandlerStep

TeamWrite(h) == CreateAccount(h) \/ GiveRole(h) \/ SetActive(h) \/ ResetPassword(h) \/ SetPermissions(h)

\* Who is what, and may do what, is only changed by a Team write.
LEMMA OthersLeaveTeam ==
  ASSUME BaseInv, ByApi, NEW h \in Handlers, HandlerStep(h), ~ TeamWrite(h)
  PROVE  /\ grants' = grants /\ ActiveAdmins' = ActiveAdmins
         /\ \A v \in Users : /\ account'[v].exists = account[v].exists
                             /\ account'[v].active = account[v].active
                             /\ account'[v].role = account[v].role
<1>1. account \in [Users -> AccountRows]
  BY DEF BaseInv, AccountsTyped
<1>2. grants' = grants /\ \A v \in Users : /\ account'[v].exists = account[v].exists
                                          /\ account'[v].active = account[v].active
                                          /\ account'[v].role = account[v].role
  <2>1. CASE ReceiveSignIn(h) \/ ReceiveChange(h) \/ ReceiveTeam(h) \/ ReadForSignIn(h)
             \/ EstablishSession(h) \/ RekeySession(h) \/ CheckTeam(h)
    BY <2>1 DEF ReceiveSignIn, ReceiveChange, ReceiveTeam, ReadForSignIn, EstablishSession, RekeySession, CheckTeam
  <2>2. CASE ChangePassword(h) \/ RightPassword(h) \/ WrongPassword(h)
    BY SMTT(30), <1>1, <2>2 DEF ChangePassword, SaveChange, RightPassword, WrongPassword, AccountRows
  <2> QED
    BY <2>1, <2>2, NoForms DEF HandlerStep, TeamWrite
<1> QED
  BY <1>2 DEF ActiveAdmins

\* An administrator is demoted or deactivated only while another is there, and the team is locked.
LEMMA AdminStays ==
  ASSUME BaseInv, ByApi, CheckedStill, ActiveAdmins # {}, NEW h \in Handlers, HandlerStep(h)
  PROVE  ActiveAdmins' # {}
<1> DEFINE u == handling[h].user
<1>1. account \in [Users -> AccountRows]
  BY DEF BaseInv, AccountsTyped
<1>2. CASE ~ TeamWrite(h)
  BY <1>2, OthersLeaveTeam
<1>3. ASSUME \A v \in Users : v # u => account'[v] = account[v],
             NEW admin \in ActiveAdmins, admin # u
      PROVE  ActiveAdmins' # {}
  BY <1>3 DEF ActiveAdmins
<1>4. CASE TeamWrite(h)
  <2>1. \A v \in Users : v # u => account'[v] = account[v]
    BY <1>1, <1>4 DEF TeamWrite, CreateAccount, GiveRole, SetActive, ResetPassword, SetPermissions
  <2>2. /\ TeamAllows(handling[h].op, handling[h].actor, u, handling[h].ask)
        /\ u \in Users /\ account[u] \in AccountRows
    BY <1>4, CheckedMay DEF TeamWrite, CreateAccount, GiveRole, SetActive, ResetPassword, SetPermissions, At,
                            TeamOps, BySite, AccountOps
  <2>3. CASE u \notin ActiveAdmins
    BY <1>3, <2>1, <2>3
  <2>4. CASE ~ (ActiveAdmins \subseteq {u})
    BY <1>3, <2>1, <2>4
  <2>5. CASE u \in ActiveAdmins /\ ActiveAdmins \subseteq {u}
    <3>1. IsLastActiveAdmin(u, account[u]) /\ account[u].exists /\ account[u].active
      BY <2>5 DEF IsLastActiveAdmin, ActiveAdmins
    <3>2. handling[h].op \notin {"create", "role", "deactivate", "reactivate"}
      BY <2>2, <3>1 DEF TeamAllows, MayCreate, MayGiveRole, MayDeactivate
    <3>3. ResetPassword(h) \/ SetPermissions(h)
      BY <1>4, <3>2 DEF TeamWrite, CreateAccount, GiveRole, SetActive, At
    <3>4. CASE SetPermissions(h)
      BY <3>4 DEF SetPermissions, ActiveAdmins
    <3>5. CASE ResetPassword(h)
      <4>1. /\ Temporary(account[u]).exists = account[u].exists /\ Temporary(account[u]).active = account[u].active
            /\ Temporary(account[u]).role = account[u].role
        BY <2>2 DEF Temporary, AccountRows
      <4>2. account'[u] = Temporary(account[u])
        BY <1>1, <2>2, <3>5 DEF ResetPassword
      <4> QED
        BY <2>2, <2>5, <4>1, <4>2 DEF ActiveAdmins
    <3> QED
      BY <3>3, <3>4, <3>5
  <2> QED
    BY <2>3, <2>4, <2>5
<1> QED
  BY <1>2, <1>4

\* What another handler has checked is not changed under it.
LEMMA OthersChecked ==
  ASSUME BaseInv, ByApi, CheckedStill, NEW h \in Handlers, HandlerStep(h),
         NEW g \in Handlers, g # h, handling[g].stage = "checked"
  PROVE  /\ handling[g].op = "sign_in" => handling[g].row = account'[handling[g].user]
         /\ handling[g].op \in TeamOps =>
               TeamAllows(handling[g].op, handling[g].actor, handling[g].user, handling[g].ask)'
<1> DEFINE u == handling[g].user
<1>1. account'[u] = account[u]
  <2>1. account \in [Users -> AccountRows] /\ Writes(h)
    BY EveryStep DEF StepOf, BaseInv, AccountsTyped
  <2>2. \A v : RowFree(h, v) => v # u
    BY DEF RowFree
  <2>3. CASE account' = account
    BY <2>3
  <2>4. ASSUME NEW v \in Users, NEW row \in AccountRows, account' = [account EXCEPT ![v] = row], RowFree(h, v)
        PROVE  account'[u] = account[u]
    BY <2>1, <2>2, <2>4
  <2> QED
    BY <2>1, <2>3, <2>4 DEF Writes
<1>2. handling[g].op = "sign_in" => handling[g].row = account'[u]
  BY <1>1 DEF CheckedStill
<1>3. ASSUME handling[g].op \in TeamOps
      PROVE  TeamAllows(handling[g].op, handling[g].actor, u, handling[g].ask)'
  <2>1. ~ TeamWrite(h)
    BY <1>3 DEF BaseInv, LocksHeld, TeamWrite, CreateAccount, GiveRole, SetActive, ResetPassword, SetPermissions, At,
                TeamOps, BySite, AccountOps
  <2>2. grants' = grants /\ ActiveAdmins' = ActiveAdmins
    BY <2>1, OthersLeaveTeam
  <2>3. TeamAllows(handling[g].op, handling[g].actor, u, handling[g].ask)
    BY <1>3 DEF CheckedStill
  <2>4. handling'[g] = handling[g]
    BY OthersStill
  <2> HIDE DEF u
  <2> QED
    BY <1>1, <2>2, <2>3, <2>4
       DEF u, TeamAllows, MayCreate, MayGiveRole, MayDeactivate, MayGrant, MayChange, MayAssignRole, IsLastActiveAdmin
<1> QED
  BY <1>2, <1>3

\* What a handler has just checked is so.
LEMMA JustChecked ==
  ASSUME BaseInv, ByApi, NEW h \in Handlers, HandlerStep(h), handling'[h].stage = "checked"
  PROVE  /\ handling'[h].op = "sign_in" => handling'[h].row = account'[handling'[h].user]
         /\ handling'[h].op \in TeamOps =>
               TeamAllows(handling[h].op, handling[h].actor, handling[h].user, handling[h].ask)'
<1>1. handling \in [Handlers -> Request] /\ Nobody # "checked"
  BY AccountsAssumption DEF BaseInv, AccountsTyped, Stages
<1>2. ~ Done(h)
  BY <1>1, DoneIdle
<1>3. CASE ReadForSignIn(h)
  <2>1. /\ account' = account /\ handling[h].op = "sign_in"
        /\ Becomes(h, [handling[h] EXCEPT !.stage = "checked", !.row = account[handling[h].user]])
    BY <1>2, <1>3 DEF ReadForSignIn, LockAndRead, At
  <2>2. /\ handling'[h].row = account[handling[h].user] /\ handling'[h].user = handling[h].user
        /\ handling'[h].op = "sign_in"
    BY <1>1, <2>1 DEF Becomes, Request
  <2> QED
    BY <2>1, <2>2 DEF TeamOps
<1>4. CASE CheckTeam(h)
  <2>1. /\ UNCHANGED <<account, grants>> /\ Goes(h, "checked") /\ handling[h].op \in TeamOps
        /\ TeamAllows(handling[h].op, handling[h].actor, handling[h].user, handling[h].ask)
    BY <1>2, <1>4 DEF CheckTeam
  <2>2. /\ handling'[h].op = handling[h].op /\ handling'[h].actor = handling[h].actor
        /\ handling'[h].user = handling[h].user /\ handling'[h].ask = handling[h].ask
    BY <1>1, <2>1 DEF Goes, Request
  <2>3. ActiveAdmins' = ActiveAdmins
    BY <2>1 DEF ActiveAdmins
  <2>4. TeamAllows(handling[h].op, handling[h].actor, handling[h].user, handling[h].ask)'
    BY <2>1, <2>2, <2>3
       DEF TeamAllows, MayCreate, MayGiveRole, MayDeactivate, MayGrant, MayChange, MayAssignRole, IsLastActiveAdmin
  <2>5. handling'[h].op # "sign_in"
    BY <2>1, <2>2 DEF TeamOps
  <2> QED
    BY <2>4, <2>5
<1>5. CASE ReceiveSignIn(h) \/ ReceiveChange(h) \/ ReceiveTeam(h)
  <2>1. ASSUME NEW request, Becomes(h, request), request.stage = "received"
        PROVE  handling'[h].stage = "received"
    BY <1>1, <2>1 DEF Becomes
  <2>2. CASE ReceiveSignIn(h)
    BY <2>1, <2>2 DEF ReceiveSignIn, Idle
  <2>3. CASE ReceiveChange(h)
    BY <2>1, <2>3 DEF ReceiveChange, Idle
  <2>4. CASE ReceiveTeam(h)
    BY <2>1, <2>4 DEF ReceiveTeam, Idle
  <2> QED
    BY <1>5, <2>2, <2>3, <2>4
<1>6. CASE RightPassword(h) \/ ChangePassword(h)
  <2>1. handling'[h].stage \in {"signed", "saved"}
    BY <1>1, <1>2, <1>6 DEF RightPassword, ChangePassword, Goes, Becomes, Request
  <2> QED
    BY <2>1
<1> QED
  BY <1>2, <1>3, <1>4, <1>5, <1>6, NoForms
     DEF HandlerStep, WrongPassword, EstablishSession, RekeySession, CreateAccount, GiveRole, SetActive, ResetPassword,
         SetPermissions

LEMMA CheckedKeep ==
  ASSUME BaseInv, ByApi, CheckedStill, NEW h \in Handlers, HandlerStep(h)
  PROVE  CheckedStill'
<1> SUFFICES ASSUME NEW g \in Handlers, handling'[g].stage = "checked"
             PROVE  /\ handling'[g].op = "sign_in" => handling'[g].row = account'[handling'[g].user]
                    /\ handling'[g].op \in TeamOps =>
                          TeamAllows(handling[g].op, handling[g].actor, handling[g].user, handling[g].ask)'
  BY DEF CheckedStill
<1>1. CASE g = h
  BY <1>1, JustChecked
<1>2. CASE g # h
  <2>1. handling'[g] = handling[g]
    BY <1>2, OthersStill
  <2> QED
    BY <1>2, <2>1, OthersChecked
<1> QED
  BY <1>1, <1>2

LEMMA ApiKeeps == BaseInv /\ ApiInv /\ [NextAccounts]_accountVars => ApiInv'
<1> SUFFICES ASSUME BaseInv, ApiInv, [NextAccounts]_accountVars, ByApi'
             PROVE  (CountsAgree /\ GrantsAgree /\ CheckedStill /\ ActiveAdmins # {})'
  BY DEF ApiInv
<1>1. CASE Tick \/ UNCHANGED accountVars
  <2>1. UNCHANGED <<account, grants, handling, guesses, asked>>
    BY <1>1 DEF Tick, accountVars
  <2>2. CountsAgree /\ GrantsAgree /\ CheckedStill /\ ActiveAdmins # {}
    BY <2>1 DEF ApiInv, ByApi
  <2>3. CountsAgree' /\ GrantsAgree' /\ ActiveAdmins' = ActiveAdmins
    BY <2>1, <2>2 DEF CountsAgree, GrantsAgree, ActiveAdmins
  <2>4. CheckedStill'
    BY <2>1, <2>2, <2>3
       DEF CheckedStill, TeamAllows, MayCreate, MayGiveRole, MayDeactivate, MayGrant, MayChange, MayAssignRole,
           IsLastActiveAdmin
  <2> QED
    BY <2>2, <2>3, <2>4
<1>2. ASSUME NEW h \in Handlers, HandlerStep(h)
      PROVE  (CountsAgree /\ GrantsAgree /\ CheckedStill /\ ActiveAdmins # {})'
  <2>1. asked' = asked
    BY <1>2, EveryStep DEF StepOf
  <2>2. ByApi /\ CountsAgree /\ GrantsAgree /\ CheckedStill /\ ActiveAdmins # {}
    BY <2>1 DEF ByApi, ApiInv
  <2>3. CountsAgree' /\ GrantsAgree'
    BY <1>2, <2>2, CountsKeep, GrantsKeep
  <2>4. CheckedStill'
    BY <1>2, <2>2, CheckedKeep
  <2>5. ActiveAdmins' # {}
    BY <1>2, <2>2, AdminStays
  <2> QED
    BY <2>3, <2>4, <2>5
<1> QED
  BY <1>1, <1>2, NextSteps

LEMMA InitApi == InitAccounts => ApiInv
<1> SUFFICES ASSUME InitAccounts
             PROVE  CountsAgree /\ GrantsAgree /\ CheckedStill /\ ActiveAdmins # {}
  BY DEF ApiInv
<1>1. PICK start \in AccountsAtStart : account = start.account
  BY DEF InitAccounts
<1>2. CountsAgree
  BY <1>1, AccountsAssumption DEF InitAccounts, CountsAgree
<1>3. GrantsAgree
  BY DEF InitAccounts, GrantsAgree
<1>4. CheckedStill
  BY IdleShaped DEF InitAccounts, CheckedStill
<1>5. ActiveAdmins # {}
  BY <1>1, AccountsAssumption DEF ActiveAdmins
<1> QED
  BY <1>2, <1>3, <1>4, <1>5

LEMMA AccountsKeepApi == SpecAccounts => []ApiInv
<1>1. SpecAccounts => []BaseInv
  BY InitBase, NextKeepsBase, PTL DEF SpecAccounts
<1> QED
  BY <1>1, InitApi, ApiKeeps, PTL DEF SpecAccounts

(* However many sign-ins guess at once, no more wrong passwords are judged *)
(* than LOGIN_MAX_FAILURES before an account is locked or free again.      *)
THEOREM GuessesAreBounded == SpecAccounts => []GuessesBounded
<1>1. ApiInv => GuessesBounded
  BY DEF ApiInv, CountsAgree, GuessesBounded
<1> QED
  BY <1>1, AccountsKeepApi, PTL

(* Managers who demote or deactivate each other at once leave one active   *)
(* administrator.                                                          *)
THEOREM AdminIsLeft == SpecAccounts => []AlwaysAnAdmin
<1>1. ApiInv => AlwaysAnAdmin
  BY DEF ApiInv, AlwaysAnAdmin
<1> QED
  BY <1>1, AccountsKeepApi, PTL

(* What is granted to a person always fits the role they have.             *)
THEOREM GrantsAlwaysFit == SpecAccounts => []GrantsFitRole
<1>1. ApiInv => GrantsFitRole
  BY DEF ApiInv, GrantsAgree, GrantsFitRole
<1> QED
  BY <1>1, AccountsKeepApi, PTL
=============================================================================
