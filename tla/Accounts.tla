------------------------------- MODULE Accounts -------------------------------
(***************************************************************************)
(* Administrator accounts (auth.service.ts) and the guard of the           *)
(* administration routes (admin-auth.guard.ts), for one control-plane      *)
(* process and one client address.                                         *)
(*                                                                         *)
(* A password or a second-factor secret is a value; a code is represented  *)
(* by the secret it was computed from.  A token holds its account: the     *)
(* guard looks at nothing else in it.                                      *)
(***************************************************************************)
EXTENDS Naturals, FiniteSets, Null

CONSTANTS
  Users,         \* accounts, each with its own email
  Tenants,       \* organizations
  Passwords, Secrets,
  Logins,        \* concurrent login requests
  Calls,         \* concurrent management requests
  Patches,       \* what updates ask for
  FailLimit,     \* FAIL_LIMIT
  MaxCalls       \* bound on management requests

RANK == [MEMBER |-> 1, ADMIN |-> 2, SUPERADMIN |-> 3]
AdminRole == DOMAIN RANK

\* A row of the table.
AccountRow == [role : AdminRole, org : Tenants \cup {None}, disabled : BOOLEAN, password : Passwords,
        totp : Secrets \cup {None}]

ASSUME AccountAssumption ==
  /\ None \notin Users \cup Tenants \cup Passwords \cup Secrets \cup AccountRow /\ IsFiniteSet(Logins)
  \* Fields left out are None; an empty organization is "".
  /\ Patches \subseteq [role : AdminRole \cup {None}, org : Tenants \cup {None, ""},
                         disabled : BOOLEAN \cup {None}, password : Passwords \cup {None}]
  /\ FailLimit \in Nat \ {0} /\ MaxCalls \in Nat

VARIABLES
  account,       \* user -> role, organization, disabledAt, password, totpSecret, or None
  failures,      \* user -> count and whether the window is still open (count 0: no record)
  login,         \* request -> position, what was sent, the row that was read
  sessions,      \* accounts somebody holds a token of
  admin,         \* request -> position, operation and what it has read
  calls,         \* management requests begun
  refused        \* history: user -> credentials refused since its window opened

accountVars == <<account, failures, login, sessions, admin, calls, refused>>

NoFailures == [count |-> 0, open |-> FALSE]
NoLogin == [at |-> "idle", user |-> None, password |-> None, code |-> None, row |-> None]
NoCallYet == [at |-> "idle"]

NewAccount(r, org, pw) == [role |-> r, org |-> org, disabled |-> FALSE, password |-> pw, totp |-> None]

\* Before the first account, or with a superadministrator who has not enabled a second factor.
AccountInit ==
  /\ account \in {[u \in Users |-> None]}
                 \cup {[u \in Users |-> IF u = first THEN NewAccount("SUPERADMIN", None, pw) ELSE None] :
                         first \in Users, pw \in Passwords}
  /\ failures = [u \in Users |-> NoFailures] /\ refused = [u \in Users |-> 0]
  /\ login = [g \in Logins |-> NoLogin] /\ sessions = {}
  /\ admin = [c \in Calls |-> NoCallYet] /\ calls = 0
-----------------------------------------------------------------------------
(***************************************************************************)
(* login                                                                   *)
(***************************************************************************)

\* Mutant of RateLimited: the last permitted attempt is not counted.
RateLimitedLate(u) == failures[u].open /\ failures[u].count > FailLimit

\* checkRateLimit
RateLimited(u) == failures[u].open /\ failures[u].count >= FailLimit

\* Everything before the first await: a limited request is refused at once.
LoginStarts(g, u, pw, code) ==
  /\ login[g] = NoLogin /\ ~RateLimited(u)
  /\ login' = [login EXCEPT ![g] = [at |-> "find", user |-> u, password |-> pw, code |-> code, row |-> None]]
  /\ UNCHANGED <<account, failures, sessions, admin, calls, refused>>

LoginReads(g) ==
  /\ login[g].at = "find"
  /\ login' = [login EXCEPT ![g].at = "verify", ![g].row = account[login[g].user]]
  /\ UNCHANGED <<account, failures, sessions, admin, calls, refused>>

PasswordHolds(l) == l.row # None /\ ~l.row.disabled /\ l.password = l.row.password
CodeHolds(l) == l.row.totp = None \/ l.code = l.row.totp

\* recordFailure: a record whose window has passed is replaced.
RecordedFailure(f) == IF f.open THEN [f EXCEPT !.count = @ + 1] ELSE [count |-> 1, open |-> TRUE]

\* clearFailures is reached with both factors only.
ClearsFailures(l) == PasswordHolds(l) /\ CodeHolds(l)

\* The verdict on the row that was read, in one turn of the event loop.
LoginVerifies(g) ==
  LET l == login[g]
      u == l.user
      half == PasswordHolds(l) /\ l.row.totp # None /\ l.code = None
      fails == ~half /\ ~(PasswordHolds(l) /\ CodeHolds(l))
      kept == IF ClearsFailures(l) THEN NoFailures ELSE failures[u]
  IN /\ l.at = "verify"
     /\ login' = [login EXCEPT ![g] = NoLogin]
     /\ failures' = [failures EXCEPT ![u] = IF fails THEN RecordedFailure(kept) ELSE kept]
     /\ refused' = [refused EXCEPT ![u] = IF fails THEN @ + 1 ELSE IF half THEN @ ELSE 0]
     /\ sessions' = IF half \/ fails THEN sessions ELSE sessions \cup {u}
     /\ UNCHANGED <<account, admin, calls>>

\* FAIL_WINDOW_MS passes since the first failure of the record.
WindowPasses(u) ==
  /\ failures[u].open /\ failures' = [failures EXCEPT ![u].open = FALSE]
  /\ refused' = [refused EXCEPT ![u] = 0]
  /\ UNCHANGED <<account, login, sessions, admin, calls>>

\* JWT_TTL_SEC passes.
TokenExpires(u) ==
  /\ u \in sessions /\ sessions' = sessions \ {u}
  /\ UNCHANGED <<account, failures, login, admin, calls, refused>>
-----------------------------------------------------------------------------
(***************************************************************************)
(* The guard, and what it admits to                                        *)
(***************************************************************************)

\* The account is loaded and its present role decides, not the one in the token.
canActivate(u, required) ==
  /\ u \in sessions /\ account[u] # None /\ ~account[u].disabled
  /\ RANK[account[u].role] >= RANK[required]

\* The shared key (None), or a superadministrator's token.
AdmitsSuperadmin(by) == by = None \/ canActivate(by, "SUPERADMIN")

Begins(c, what) ==
  /\ admin[c] = NoCallYet /\ calls < MaxCalls /\ calls' = calls + 1
  /\ admin' = [admin EXCEPT ![c] = what]
  /\ UNCHANGED <<account, failures, login, sessions, refused>>

StoreRow(c, u, row) ==
  /\ account' = [account EXCEPT ![u] = row] /\ admin' = [admin EXCEPT ![c] = NoCallYet]
  /\ UNCHANGED <<failures, login, sessions, calls, refused>>

AdminCallFails(c) ==
  /\ admin[c] # NoCallYet /\ admin' = [admin EXCEPT ![c] = NoCallYet]
  /\ UNCHANGED <<account, failures, login, sessions, calls, refused>>

bootstrapCounts(c, u, pw) ==
  /\ \A v \in Users : account[v] = None
  /\ Begins(c, [at |-> "create", user |-> u, row |-> NewAccount("SUPERADMIN", None, pw)])

\* validatedUserOrg
ValidOrg(r, org) == r # "SUPERADMIN" => org # None

createFinds(c, by, u, r, org, pw) ==
  /\ AdmitsSuperadmin(by) /\ account[u] = None /\ ValidOrg(r, org)
  /\ Begins(c, [at |-> "create", user |-> u, row |-> NewAccount(r, org, pw)])

\* The unique email refuses a second account; AdminCallFails is that answer.
CreateWrites(c) ==
  /\ admin[c].at = "create" /\ account[admin[c].user] = None
  /\ StoreRow(c, admin[c].user, admin[c].row)

updateReads(c, by, u, patch) ==
  /\ AdmitsSuperadmin(by) /\ account[u] # None
  /\ Begins(c, [at |-> "update", user |-> u, patch |-> patch, role |-> account[u].role, org |-> account[u].org])

\* The role and the organization are validated against what was read, and only what changed is written.
UpdateWrites(c) ==
  LET q == admin[c]
      role1 == IF q.patch.role = None THEN q.role ELSE q.patch.role
      org1 == CASE q.patch.org = None -> q.org [] q.patch.org = "" -> None [] OTHER -> q.patch.org
      row == account[q.user]
  IN /\ q.at = "update" /\ ValidOrg(role1, org1)
     /\ StoreRow(c, q.user,
          [row EXCEPT !.role = IF q.patch.role = None THEN @ ELSE q.patch.role,
                      !.org = IF q.patch.org # None \/ org1 # q.org THEN org1 ELSE @,
                      !.disabled = IF q.patch.disabled = None THEN @ ELSE q.patch.disabled,
                      !.password = IF q.patch.password = None THEN @ ELSE q.patch.password])

\* The code is checked against the secret the client sends back; nothing was stored before.
enableTotp(c, u, secret) ==
  /\ canActivate(u, "MEMBER") /\ Begins(c, [at |-> "totp", user |-> u, secret |-> secret])

disableTotp(c, u, code) ==
  /\ canActivate(u, "MEMBER") /\ account[u].totp # None /\ code = account[u].totp
  /\ Begins(c, [at |-> "totp", user |-> u, secret |-> None])

TotpWrites(c) ==
  /\ admin[c].at = "totp"
  /\ StoreRow(c, admin[c].user, [account[admin[c].user] EXCEPT !.totp = admin[c].secret])
-----------------------------------------------------------------------------
AccountNext ==
  \/ \E g \in Logins, u \in Users, pw \in Passwords, code \in Secrets \cup {None} : LoginStarts(g, u, pw, code)
  \/ \E g \in Logins : LoginReads(g) \/ LoginVerifies(g)
  \/ \E u \in Users : WindowPasses(u) \/ TokenExpires(u)
  \/ \E c \in Calls :
       \/ CreateWrites(c) \/ UpdateWrites(c) \/ TotpWrites(c) \/ AdminCallFails(c)
       \/ \E u \in Users :
            \/ \E pw \in Passwords : bootstrapCounts(c, u, pw)
            \/ \E by \in Users \cup {None}, r \in AdminRole, org \in Tenants \cup {None}, pw \in Passwords :
                 createFinds(c, by, u, r, org, pw)
            \/ \E by \in Users \cup {None}, patch \in Patches : updateReads(c, by, u, patch)
            \/ \E s \in Secrets : enableTotp(c, u, s) \/ disableTotp(c, u, s)

AccountSpec == AccountInit /\ [][AccountNext]_accountVars
-----------------------------------------------------------------------------
(***************************************************************************)
(* Within one window at most FAIL_LIMIT credentials of an account are      *)
(* refused, and as many more as requests had passed checkRateLimit before  *)
(* the last of them was recorded; neither a right password without its     *)
(* second factor (login, 77-81) nor any change of the account in between   *)
(* starts the count again.                                                 *)
(***************************************************************************)
GuessesAreLimited == \A u \in Users : refused[u] <= FailLimit + Cardinality(Logins) - 1
-----------------------------------------------------------------------------
\* Management requests with what they have read, and logins with the row they have read.
ManagementCall ==
  {NoCallYet} \cup [at : {"create"}, user : Users, row : AccountRow]
    \cup [at : {"update"}, user : Users, patch : Patches, role : AdminRole, org : Tenants \cup {None}]
    \cup [at : {"totp"}, user : Users, secret : Secrets \cup {None}]

LoginCall ==
  [at : {"idle", "find", "verify"}, user : Users \cup {None}, password : Passwords \cup {None},
   code : Secrets \cup {None}, row : AccountRow \cup {None}]

AccountTypeOK ==
  /\ account \in [Users -> AccountRow \cup {None}] /\ sessions \subseteq Users
  /\ failures \in [Users -> [count : Nat, open : BOOLEAN]] /\ refused \in [Users -> Nat]
  /\ login \in [Logins -> LoginCall]
  /\ admin \in [Calls -> ManagementCall] /\ calls \in Nat

\* A request that changes an account has found it, and accounts are never deleted.
ChangesFindTheirAccount ==
  \A c \in Calls : admin[c].at \in {"update", "totp"} => account[admin[c].user] # None

\* The logins of u that have passed checkRateLimit and wait for their verdict.
Waiting(u) == {g \in Logins : login[g].at # "idle" /\ login[g].user = u}

\* The inductive invariant: what is refused is on record as long as the window is open, and every
\* login under way was admitted below the limit.
AccountInv ==
  /\ AccountTypeOK /\ ChangesFindTheirAccount
  /\ \A g \in Logins : login[g].at # "idle" => login[g].user \in Users
  /\ \A u \in Users : refused[u] = IF failures[u].open THEN failures[u].count ELSE 0
  /\ \A u \in Users : refused[u] + Cardinality(Waiting(u)) <= FailLimit + Cardinality(Logins) - 1
=============================================================================
