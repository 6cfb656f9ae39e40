------------------------------ MODULE Accounts ------------------------------
(***************************************************************************)
(* Staff accounts: signing in with a password and the lockout after wrong  *)
(* ones (accounts/backends.py), sessions and the change of one's password  *)
(* (accounts/views.py), the Team API (accounts/team.py), and the user form *)
(* and set-password page of Django's admin site (accounts/admin.py).       *)
(*                                                                         *)
(* A request is received, which may read rows without a lock; it then      *)
(* takes its locks and checks, and writes as its transaction commits.  A   *)
(* Team write locks the team and then the row of the account; nothing that *)
(* holds a row waits for the team, so both locks are taken in one step.    *)
(***************************************************************************)
EXTENDS Integers, FiniteSets

CONSTANTS
    Handlers,      \* what handles requests
    Users,         \* accounts there are or may be made
    Superusers,    \* of them, those with is_superuser: never changed by what is modelled
    StaffRoles,    \* HUB_ROLES
    Admin,         \* RoleChoices.ADMIN
    Allowed,       \* [StaffRoles -> sets of permissions]: allowed_for_role, the grantable ones
    Mentoring,     \* accounts with active students
    Booked,        \* tutors with bookings to come
    MaxFailures,   \* LOGIN_MAX_FAILURES
    Lockout,       \* LOGIN_LOCKOUT_SECONDS, in ticks of the clock
    Posted,        \* what the admin site's form may say of a row's temporary password and lockout
    Nobody,
    MaxClock,      \* bound: the clock stops there
    AccountsAtStart  \* the accounts there may be when it begins, and what may then be asked

AccountOps == {"sign_in", "change_password", "create", "role", "deactivate", "reactivate",
               "reset_password", "permissions", "admin_form", "set_password"}

\* How far the request of a handler is
Stages == {"received", "checked", "signed", "saved"}

BySite == {"admin_form", "set_password"}

TeamOps == AccountOps \ ({"sign_in", "change_password"} \cup BySite)

Permissions == UNION {Allowed[r] : r \in StaffRoles}

\* A User row.  Every password set has a number: it stands for the hash, and for what was typed
AccountRows == [exists : BOOLEAN, role : StaffRoles, active : BOOLEAN, password : Nat,
                mustChange : BOOLEAN, failures : Nat, lockedUntil : Nat]

\* A session is good for the password it was issued against; shown is the one its user knew
Sessions == [user : Users, issued : Nat, shown : Nat]

\* The columns of a row that only the admin site's form says anything of
Columns == [mustChange : BOOLEAN, failures : Nat, lockedUntil : Nat]
NothingPosted == [mustChange |-> FALSE, failures |-> 0, lockedUntil |-> 0]

Asks == [role : StaffRoles, active : BOOLEAN, grants : SUBSET Permissions, posted : Columns]

\* What a request says of what it does not change is left out
AsksOf(op) ==
    [role : IF op \in {"create", "role", "admin_form"} THEN StaffRoles ELSE {Admin},
     active : IF op = "admin_form" THEN BOOLEAN ELSE {TRUE},
     grants : IF op = "permissions" THEN SUBSET Permissions ELSE {{}},
     posted : IF op = "admin_form" THEN Posted ELSE {NothingPosted}]

ASSUME AccountsAssumption ==
    /\ Superusers \subseteq Users
    /\ Admin \in StaffRoles
    /\ IsFiniteSet(Users)
    /\ Nobody \notin Users \cup AccountOps \cup Stages
    /\ MaxFailures \in Nat \ {0} /\ Lockout \in Nat \ {0}
    /\ Posted \subseteq Columns
    /\ MaxClock \in Nat
    /\ AccountsAtStart \subseteq [account : [Users -> AccountRows], asked : SUBSET AccountOps,
                            clock : Nat \ {0}, left : Nat]
    /\ \A start \in AccountsAtStart :
          /\ \A u \in Users : start.account[u].failures = 0 /\ start.account[u].lockedUntil = 0
          /\ \A u \in Users : start.account[u].password \in 0 .. 1
          /\ \A u \in Users : start.account[u].exists /\ ~ start.account[u].mustChange => start.account[u].password = 1
          /\ \E u \in Users : start.account[u].exists /\ start.account[u].active /\ start.account[u].role = Admin

VARIABLES
    account,     \* User rows
    grants,      \* user_permissions: the permissions granted to one person
    sessions,    \* the sessions issued
    handling,    \* what each handler is doing
    clock,
    lastSet,     \* the number of the password set last
    chosen,      \* the passwords their users chose themselves
    guesses,     \* wrong passwords judged since the account was last free of them
    asked,       \* the requests of this instance: chosen at the start, never changed
    requestsLeft \* bound: how many of them may still come

accountVars == <<account, grants, sessions, handling, clock, lastSet, chosen, guesses, asked, requestsLeft>>

Idle == [op |-> Nobody, stage |-> Nobody, user |-> Nobody, actor |-> Nobody, now |-> 0, typed |-> 0,
         row |-> Nobody, session |-> Nobody, ask |-> Nobody]

\* The password of someone who is signed in at the start is 1, and their own unless it is to be changed
InitAccounts ==
    /\ \E start \in AccountsAtStart :
          /\ account = start.account /\ asked = start.asked
          /\ clock = start.clock /\ requestsLeft = start.left
    /\ grants = [u \in Users |-> {}]
    /\ sessions = {s \in [user : Users, issued : {1}, shown : {1}] :
                      account[s.user].exists /\ account[s.user].password = 1}
    /\ handling = [h \in Handlers |-> Idle]
    /\ lastSet = 1
    /\ chosen = {1}
    /\ guesses = [u \in Users |-> 0]

(***************************************************************************)
(* What the code reads                                                     *)
(***************************************************************************)
ActiveAdmins == {u \in Users : account[u].exists /\ account[u].active /\ account[u].role = Admin}

\* is_last_active_admin, of an account as it was read
IsLastActiveAdmin(u, row) == row.active /\ row.role = Admin /\ ActiveAdmins \subseteq {u}

\* Django's get_user: the account is active and the session's hash is that of its password
Usable(s) == account[s.user].active /\ account[s.user].password = s.issued

\* is_team_manager, of someone signed in whose password is not a temporary one
TeamManagers ==
    {u \in Users : /\ \E s \in sessions : s.user = u /\ Usable(s)
                   /\ ~ account[u].mustChange
                   /\ u \in Superusers \/ account[u].role = Admin}

\* Those who have checked hold the row of the account, and the team if it is a Team write
RowFree(h, u) == \A other \in Handlers \ {h} : handling[other].stage # "checked" \/ handling[other].user # u

TeamFree(h) == \A other \in Handlers \ {h} : handling[other].stage # "checked" \/ handling[other].op \notin TeamOps

At(h, op, stage) == handling[h].op = op /\ handling[h].stage = stage

Receives(h, op) == At(h, Nobody, Nobody) /\ op \in asked /\ requestsLeft > 0

Becomes(h, request) == handling' = [handling EXCEPT ![h] = request]
Goes(h, stage) == handling' = [handling EXCEPT ![h].stage = stage]
Done(h) == handling' = [handling EXCEPT ![h] = Idle]

-----------------------------------------------------------------------------
(***************************************************************************)
(* Signing in                                                              *)
(***************************************************************************)
\* LoginView, authenticate: the time is read before the row can be had
ReceiveSignIn(h) ==
    /\ Receives(h, "sign_in")
    /\ \E u \in Users, typed \in 0 .. lastSet :
          /\ account[u].exists
          /\ Becomes(h, [Idle EXCEPT !.op = "sign_in", !.stage = "received", !.user = u, !.now = clock, !.typed = typed])
    /\ requestsLeft' = requestsLeft - 1
    /\ UNCHANGED <<account, grants, sessions, clock, lastSet, chosen, guesses, asked>>

\* mutant: the row is read without its lock
ReadUnlocked(h) ==
    LET u == handling[h].user IN
    IF account[u].lockedUntil > handling[h].now
      THEN Done(h)
      ELSE Becomes(h, [handling[h] EXCEPT !.stage = "checked", !.row = account[u]])

\* The row is locked and read; while the account is locked no password is looked at
LockAndRead(h) ==
    LET u == handling[h].user IN
    /\ RowFree(h, u)
    /\ IF account[u].lockedUntil > handling[h].now
         THEN Done(h)
         ELSE Becomes(h, [handling[h] EXCEPT !.stage = "checked", !.row = account[u]])

ReadForSignIn(h) ==
    /\ At(h, "sign_in", "received")
    /\ LockAndRead(h)
    /\ UNCHANGED <<account, grants, sessions, clock, lastSet, chosen, guesses, asked, requestsLeft>>

\* The right password: for an active account it frees it of wrong ones, for another it changes nothing
RightPassword(h) ==
    LET u == handling[h].user row == handling[h].row IN
    /\ At(h, "sign_in", "checked")
    /\ handling[h].typed = row.password
    /\ IF row.active
         THEN /\ account' = [account EXCEPT ![u].failures = 0, ![u].lockedUntil = 0]
              /\ guesses' = [guesses EXCEPT ![u] = 0]
              /\ Goes(h, "signed")
         ELSE /\ Done(h)
              /\ UNCHANGED <<account, guesses>>
    /\ UNCHANGED <<grants, sessions, clock, lastSet, chosen, asked, requestsLeft>>

\* A wrong one is counted, from one again when a lock has run out, and the last one allowed locks
FailuresAfter(row) == IF row.lockedUntil # 0 THEN 1 ELSE row.failures + 1

LockFor(count, now) == IF count >= MaxFailures THEN now + Lockout ELSE 0

WrongPassword(h) ==
    LET u == handling[h].user row == handling[h].row count == FailuresAfter(row) IN
    /\ At(h, "sign_in", "checked")
    /\ handling[h].typed # row.password
    /\ account' = [account EXCEPT ![u].failures = count, ![u].lockedUntil = LockFor(count, handling[h].now)]
    /\ guesses' = [guesses EXCEPT ![u] = IF row.lockedUntil # 0 THEN 1 ELSE @ + 1]
    /\ Done(h)
    /\ UNCHANGED <<grants, sessions, clock, lastSet, chosen, asked, requestsLeft>>

\* mutant: the session is issued against the password the account has by then
SessionOfFresh(h) == [user |-> handling[h].user, issued |-> account[handling[h].user].password, shown |-> handling[h].typed]

\* establish_session, after the transaction: the session is issued against the row as it was read
SessionOf(h) == [user |-> handling[h].user, issued |-> handling[h].row.password, shown |-> handling[h].typed]

EstablishSession(h) ==
    /\ At(h, "sign_in", "signed")
    /\ sessions' = sessions \cup {SessionOf(h)}
    /\ Done(h)
    /\ UNCHANGED <<account, grants, clock, lastSet, chosen, guesses, asked, requestsLeft>>

(***************************************************************************)
(* Changing one's own password                                             *)
(***************************************************************************)
\* ChangePasswordView reads the account of its session without a lock, and is shown its password
ReceiveChange(h) ==
    /\ Receives(h, "change_password")
    /\ \E s \in sessions :
          /\ Usable(s)
          /\ Becomes(h, [Idle EXCEPT !.op = "change_password", !.stage = "received", !.user = s.user,
                                     !.row = account[s.user], !.session = s])
    /\ requestsLeft' = requestsLeft - 1
    /\ UNCHANGED <<account, grants, sessions, clock, lastSet, chosen, guesses, asked>>

\* Three columns are saved, whatever has become of the row: it waits for whoever has it locked
SaveChange(u) ==
    account' = [account EXCEPT ![u].password = lastSet + 1, ![u].mustChange = FALSE]

ChangePassword(h) ==
    LET u == handling[h].user IN
    /\ At(h, "change_password", "received")
    /\ RowFree(h, u)
    /\ SaveChange(u)
    /\ lastSet' = lastSet + 1
    /\ chosen' = chosen \cup {lastSet + 1}
    /\ Becomes(h, [handling[h] EXCEPT !.stage = "saved", !.typed = lastSet + 1])
    /\ UNCHANGED <<grants, sessions, clock, guesses, asked, requestsLeft>>

\* update_session_auth_hash, of both: this session is issued anew, against the password just set
Rekey(h) ==
    [user |-> handling[h].user, issued |-> handling[h].typed, shown |-> handling[h].typed]

RekeySession(h) ==
    /\ handling[h].stage = "saved"
    /\ sessions' = (sessions \ {handling[h].session}) \cup {Rekey(h)}
    /\ Done(h)
    /\ UNCHANGED <<account, grants, clock, lastSet, chosen, guesses, asked, requestsLeft>>

(***************************************************************************)
(* The Team API                                                            *)
(***************************************************************************)
\* The manager is known from the session as the request comes, and not looked at again
ReceiveTeam(h) ==
    /\ \E op \in TeamOps, actor \in TeamManagers, u \in Users : \E ask \in AsksOf(op) :
          /\ Receives(h, op)
          /\ Becomes(h, [Idle EXCEPT !.op = op, !.stage = "received", !.user = u, !.actor = actor, !.ask = ask])
    /\ requestsLeft' = requestsLeft - 1
    /\ UNCHANGED <<account, grants, sessions, clock, lastSet, chosen, guesses, asked>>

\* check_may_change: nobody changes themselves, and an administrator is changed by a superuser
MayChange(actor, u) ==
    /\ actor # u
    /\ actor \in Superusers \/ (account[u].role # Admin /\ u \notin Superusers)

MayAssignRole(actor, role) == role # Admin \/ actor \in Superusers

\* Only what the role may hold is added, and only what the manager holds is added or taken away
MayGrant(actor, u, wanted) ==
    LET added == wanted \ grants[u] removed == grants[u] \ wanted IN
    /\ added \subseteq Allowed[account[u].role]
    /\ actor \in Superusers \/ added \cup removed \subseteq Allowed[Admin]

\* Each request's checks: an administrator stays, and students and bookings are handed over first
MayCreate(actor, u, ask) == ~ account[u].exists /\ MayAssignRole(actor, ask.role)

MayGiveRole(actor, u, ask) ==
    /\ ask.role # account[u].role
    /\ MayAssignRole(actor, ask.role)
    /\ ~ IsLastActiveAdmin(u, account[u])
    /\ u \notin Mentoring \cup Booked

MayDeactivate(u) ==
    /\ account[u].active
    /\ ~ IsLastActiveAdmin(u, account[u])
    /\ u \notin Mentoring \cup Booked

TeamAllows(op, actor, u, ask) ==
    \/ op = "create" /\ MayCreate(actor, u, ask)
    \/ /\ account[u].exists /\ MayChange(actor, u)
       /\ \/ op = "role" /\ MayGiveRole(actor, u, ask)
          \/ op = "deactivate" /\ MayDeactivate(u)
          \/ op = "reactivate" /\ ~ account[u].active
          \/ op = "reset_password"
          \/ op = "permissions" /\ MayGrant(actor, u, ask.grants)

\* mutant: only the row is locked
LocksRowOnly(h) == RowFree(h, handling[h].user)

\* The team is locked, then the row, and what is checked is read after that
LocksFree(h) == TeamFree(h) /\ RowFree(h, handling[h].user)

CheckTeam(h) ==
    LET r == handling[h] IN
    /\ r.stage = "received" /\ r.op \in TeamOps
    /\ LocksFree(h)
    /\ IF TeamAllows(r.op, r.actor, r.user, r.ask) THEN Goes(h, "checked") ELSE Done(h)
    /\ UNCHANGED <<account, grants, sessions, clock, lastSet, chosen, guesses, asked, requestsLeft>>

CreateAccount(h) ==
    /\ At(h, "create", "checked")
    /\ account' = [account EXCEPT ![handling[h].user] =
                      [exists |-> TRUE, role |-> handling[h].ask.role, active |-> TRUE, password |-> lastSet + 1,
                       mustChange |-> TRUE, failures |-> 0, lockedUntil |-> 0]]
    /\ lastSet' = lastSet + 1
    /\ Done(h)
    /\ UNCHANGED <<grants, sessions, clock, chosen, guesses, asked, requestsLeft>>

\* mutant: grants are kept
GrantsKept(u) == grants

\* Grants made for the old role do not ride along
ClearedGrants(u) == [grants EXCEPT ![u] = {}]

GiveRole(h) ==
    LET u == handling[h].user IN
    /\ At(h, "role", "checked")
    /\ account' = [account EXCEPT ![u].role = handling[h].ask.role]
    /\ grants' = ClearedGrants(u)
    /\ Done(h)
    /\ UNCHANGED <<sessions, clock, lastSet, chosen, guesses, asked, requestsLeft>>

\* set_account_active
SetActive(h) ==
    /\ At(h, "deactivate", "checked") \/ At(h, "reactivate", "checked")
    /\ account' = [account EXCEPT ![handling[h].user].active = (handling[h].op = "reactivate")]
    /\ Done(h)
    /\ UNCHANGED <<grants, sessions, clock, lastSet, chosen, guesses, asked, requestsLeft>>

\* mutant: it is not to be changed
TemporaryForGood(row) == [row EXCEPT !.password = lastSet + 1, !.failures = 0, !.lockedUntil = 0]

\* A temporary password, which frees the account of wrong ones
Temporary(row) == [row EXCEPT !.password = lastSet + 1, !.mustChange = TRUE, !.failures = 0, !.lockedUntil = 0]

ResetPassword(h) ==
    LET u == handling[h].user IN
    /\ At(h, "reset_password", "checked")
    /\ account' = [account EXCEPT ![u] = Temporary(account[u])]
    /\ lastSet' = lastSet + 1
    /\ guesses' = [guesses EXCEPT ![u] = 0]
    /\ Done(h)
    /\ UNCHANGED <<grants, sessions, clock, chosen, asked, requestsLeft>>

SetPermissions(h) ==
    /\ At(h, "permissions", "checked")
    /\ grants' = [grants EXCEPT ![handling[h].user] = handling[h].ask.grants]
    /\ Done(h)
    /\ UNCHANGED <<account, sessions, clock, lastSet, chosen, guesses, asked, requestsLeft>>

(***************************************************************************)
(* The user form of the admin site, and its set-password page              *)
(***************************************************************************)
\* An administrator sets somebody's password, or their own: the account is read without a lock
ReceiveSetPassword(h) ==
    /\ Receives(h, "set_password")
    /\ \E u \in Users : \E own \in {s \in sessions : s.user = u /\ Usable(s)} \cup {Nobody} :
          /\ account[u].exists
          /\ Becomes(h, [Idle EXCEPT !.op = "set_password", !.stage = "received", !.user = u,
                                     !.row = account[u], !.session = own])
    /\ requestsLeft' = requestsLeft - 1
    /\ UNCHANGED <<account, grants, sessions, clock, lastSet, chosen, guesses, asked>>

\* The whole row is saved, as it was read but for the password: nothing says it is a temporary one
SetPassword(h) ==
    LET u == handling[h].user own == handling[h].session # Nobody IN
    /\ At(h, "set_password", "received")
    /\ RowFree(h, u)
    /\ account' = [account EXCEPT ![u] = [handling[h].row EXCEPT !.password = lastSet + 1]]
    /\ lastSet' = lastSet + 1
    /\ chosen' = IF own THEN chosen \cup {lastSet + 1} ELSE chosen
    /\ IF own THEN Becomes(h, [handling[h] EXCEPT !.stage = "saved", !.typed = lastSet + 1]) ELSE Done(h)
    /\ UNCHANGED <<grants, sessions, clock, guesses, asked, requestsLeft>>

\* The account is read without a lock, and what the form says is compared with that
ReceiveForm(h) ==
    /\ Receives(h, "admin_form")
    /\ \E u \in Users, ask \in AsksOf("admin_form") :
          /\ account[u].exists
          /\ Becomes(h, [Idle EXCEPT !.op = "admin_form", !.stage = "received", !.user = u, !.row = account[u], !.ask = ask])
    /\ requestsLeft' = requestsLeft - 1
    /\ UNCHANGED <<account, grants, sessions, clock, lastSet, chosen, guesses, asked>>

RoleChanges(r) == r.ask.role # r.row.role
Deactivates(r) == r.row.active /\ ~ r.ask.active

\* RoleChangeRuleMixin.clean: of an account that is only deactivated, students and last admin are not looked at
CheckForm(h) ==
    LET r == handling[h] IN
    /\ At(h, "admin_form", "received")
    /\ RoleChanges(r) \/ Deactivates(r)
    /\ RowFree(h, r.user)
    /\ IF r.user \notin Booked /\ (RoleChanges(r) => r.user \notin Mentoring /\ ~ IsLastActiveAdmin(r.user, r.row))
         THEN Goes(h, "checked")
         ELSE Done(h)
    /\ UNCHANGED <<account, grants, sessions, clock, lastSet, chosen, guesses, asked, requestsLeft>>

\* What the form shows and may be edited: each is as it was when the page was opened, or as it was typed
Filled(row, ask) ==
    [row EXCEPT !.role = ask.role, !.active = ask.active, !.mustChange = ask.posted.mustChange,
                !.failures = ask.posted.failures, !.lockedUntil = ask.posted.lockedUntil]

\* The whole row is saved, as it was read but for what the form says
SaveForm(h) ==
    LET r == handling[h] IN
    /\ r.op = "admin_form"
    /\ r.stage = "checked" \/ (r.stage = "received" /\ ~ RoleChanges(r) /\ ~ Deactivates(r))
    /\ RowFree(h, r.user)
    /\ account' = [account EXCEPT ![r.user] = Filled(r.row, r.ask)]
    /\ grants' = IF RoleChanges(r) THEN ClearedGrants(r.user) ELSE grants
    /\ Done(h)
    /\ UNCHANGED <<sessions, clock, lastSet, chosen, guesses, asked, requestsLeft>>

-----------------------------------------------------------------------------
Tick ==
    /\ clock < MaxClock
    /\ clock' = clock + 1
    /\ UNCHANGED <<account, grants, sessions, handling, lastSet, chosen, guesses, asked, requestsLeft>>

NextAccounts ==
    \/ Tick
    \/ \E h \in Handlers :
          \/ ReceiveSignIn(h) \/ ReadForSignIn(h) \/ RightPassword(h) \/ WrongPassword(h) \/ EstablishSession(h)
          \/ ReceiveChange(h) \/ ChangePassword(h) \/ RekeySession(h)
          \/ ReceiveTeam(h) \/ CheckTeam(h)
          \/ CreateAccount(h) \/ GiveRole(h) \/ SetActive(h) \/ ResetPassword(h) \/ SetPermissions(h)
          \/ ReceiveForm(h) \/ CheckForm(h) \/ SaveForm(h)
          \/ ReceiveSetPassword(h) \/ SetPassword(h)

SpecAccounts == InitAccounts /\ [][NextAccounts]_accountVars

-----------------------------------------------------------------------------
(***************************************************************************)
(* Properties                                                              *)
(***************************************************************************)
Request ==
    [op : AccountOps \cup {Nobody}, stage : Stages \cup {Nobody},
     user : Users \cup {Nobody}, actor : Users \cup {Nobody}, now : Nat, typed : Nat,
     row : AccountRows \cup {Nobody}, session : Sessions \cup {Nobody}, ask : Asks \cup {Nobody}]

AccountsTyped ==
    /\ account \in [Users -> AccountRows]
    /\ grants \in [Users -> SUBSET Permissions]
    /\ sessions \subseteq Sessions
    /\ handling \in [Handlers -> Request]
    /\ clock \in Nat /\ lastSet \in Nat
    /\ chosen \subseteq 1 .. lastSet
    /\ guesses \in [Users -> Nat]
    /\ asked \subseteq AccountOps /\ requestsLeft \in Nat

\* Nobody uses the admin site: its form writes back all of a row it read without a lock, and what it
\* showed when it was opened; its set-password page leaves a password that need not be changed
ByApi == asked \cap BySite = {}

(* However many wrong passwords come at once, and whenever they came, no   *)
(* more than LOGIN_MAX_FAILURES of them are judged before the account is   *)
(* locked, signed in to, or reset.                                         *)
GuessesBounded == ByApi => \A u \in Users : guesses[u] <= MaxFailures

(* A session works only for someone who knew, or set, the password the     *)
(* account has now, though passwords be changed, reset, set by the admin   *)
(* site and written back by its form while a sign-in or another change is  *)
(* under way.                                                              *)
SessionsKnowPassword == \A s \in sessions : Usable(s) => s.shown = account[s.user].password

(* Who has a temporary password "must set their own": an account that is   *)
(* not told to change its password has one its user chose, whichever of a  *)
(* reset and a change, each begun before the other is saved, comes first.  *)
TemporaryReplaced ==
    ByApi => \A u \in Users : account[u].exists /\ ~ account[u].mustChange => account[u].password \in chosen

(* Two managers, each of whom demotes or deactivates the other or a third  *)
(* at the same time through the Team API, leave an active administrator.   *)
AlwaysAnAdmin == ByApi => ActiveAdmins # {}

(* A grant made while the role changes, or of an account just demoted,     *)
(* never leaves a permission its role may not hold.                        *)
GrantsFitRole == ByApi => \A u \in Users : account[u].exists => grants[u] \subseteq Allowed[account[u].role]
=============================================================================
