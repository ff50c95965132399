------------------------------ MODULE Accounts ------------------------------
(***************************************************************************)
(* Accounts, logins and the administration of accounts: api/users.py,      *)
(* api/auth.py, deps.py and the administration pages of web/routes.py.     *)
(* As in ClaimService a request is one READ COMMITTED transaction; here    *)
(* its statements are the lookup of the caller, the read the decision is   *)
(* made on, and the write with its commit.                                 *)
(***************************************************************************)
EXTENDS FiniteSets

CONSTANTS
  Ids,          \* uuid primary keys
  Spellings,    \* what callers write into an email field
  Lower,        \* str.lower() on them
  Slots,        \* uvicorn's worker threads
  Seeded,       \* the users table the service starts with
  None

User == [email : Spellings, admin : BOOLEAN, active : BOOLEAN]

Request == [op : {"create", "update", "toggle"}, pc : {"load", "commit"},
            caller : Ids, target : Ids, email : Spellings,
            seen : BOOLEAN, active : BOOLEAN]

ASSUME AccountsAssumption ==
  /\ Lower \in [Spellings -> Spellings]
  /\ \A s \in Spellings : Lower[Lower[s]] = Lower[s]
  /\ None \notin User /\ None \notin Ids /\ None \notin Request
  /\ Seeded \in [Ids -> User \cup {None}]
  /\ \A i \in Ids : Seeded[i] # None => Seeded[i].email = Lower[Seeded[i].email]
  /\ \A i, j \in Ids : i # j /\ Seeded[i] # None /\ Seeded[j] # None =>
        Seeded[i].email # Seeded[j].email

VARIABLES
  users,      \* the users table
  tokens,     \* the accounts that hold an unexpired token
  request     \* the request each thread is serving

accountVars == <<users, tokens, request>>

AccountsTypeOK ==
  /\ users \in [Ids -> User \cup {None}]
  /\ tokens \subseteq Ids
  /\ request \in [Slots -> Request \cup {None}]

Exists(i) == users[i] # None
Active(i) == Exists(i) /\ users[i].active
ActiveAdmins == {i \in Ids : Active(i) /\ users[i].admin}
Holding(email) == {i \in Ids : Exists(i) /\ users[i].email = email}

AccountsInit ==
  /\ users = Seeded
  /\ tokens = {}
  /\ request = [w \in Slots |-> None]

-----------------------------------------------------------------------------
(* Tokens.                                                                  *)

\* A login with the right password; a refused one changes nothing.
login(s) ==
  \E i \in Holding(Lower[s]) :
    /\ Active(i)
    /\ tokens' = tokens \cup {i}
    /\ UNCHANGED <<users, request>>

\* The form of the HTML interface; it keeps the token in a cookie.
login_submit(s) == login(s)

\* The last of an account's tokens.
Expire(i) ==
  /\ i \in tokens
  /\ tokens' = tokens \ {i}
  /\ UNCHANGED <<users, request>>

\* The account is looked up at each request: a token outlives a deactivation and
\* is worth something again after a reactivation.
get_current_user(i) == i \in tokens /\ Active(i)

\* Mutant of require_admin: any account will do.
require_anyone(i) == get_current_user(i)

require_admin(i) == get_current_user(i) /\ users[i].admin

-----------------------------------------------------------------------------
(* Administration.                                                          *)

\* What is asked for; "active" is the new account's role in a creation.
Creations(i) ==
  [op : {"create"}, pc : {"load"}, caller : {i}, target : {i},
   email : Spellings, seen : {TRUE}, active : BOOLEAN]
Changes(i) ==
  {r \in [op : {"update", "toggle"}, pc : {"load"}, caller : {i}, target : Ids,
          email : {users[i].email}, seen : {TRUE}, active : BOOLEAN] :
     r.op = "toggle" => r.active}

Authenticate(w, i, r) ==
  /\ request[w] = None
  /\ require_admin(i)
  /\ request' = [request EXCEPT ![w] = r]
  /\ UNCHANGED <<users, tokens>>

Proceed(w, r) ==
  /\ request' = [request EXCEPT ![w] = [r EXCEPT !.pc = "commit"]]
  /\ UNCHANGED <<users, tokens>>
Refuse(w) ==
  /\ request' = [request EXCEPT ![w] = None]
  /\ UNCHANGED <<users, tokens>>

SearchEmail(w) ==   \* create_user, up to the 409
  LET r == [request[w] EXCEPT !.email = Lower[@]] IN
  /\ request[w] # None /\ r.pc = "load" /\ r.op = "create"
  /\ IF Holding(r.email) # {} THEN Refuse(w) ELSE Proceed(w, r)

\* The caller's own row is not read again: the session already holds it.
ReadTarget(w) ==
  LET r == request[w] IN
  [r EXCEPT !.seen = IF r.target = r.caller THEN TRUE ELSE users[r.target].active]

\* Mutant of LoadTarget: one's own account is like any other.
load_target_unguarded(w) ==
  LET r == request[w] IN
  /\ r # None /\ r.pc = "load" /\ r.op = "update"
  /\ IF Exists(r.target) THEN Proceed(w, ReadTarget(w)) ELSE Refuse(w)

LoadTarget(w) ==   \* update_user, up to the 404 and the 409
  LET r == request[w] IN
  /\ r # None /\ r.pc = "load" /\ r.op = "update"
  /\ IF Exists(r.target) /\ ~(r.target = r.caller /\ ~r.active)
       THEN Proceed(w, ReadTarget(w))
       ELSE Refuse(w)

\* Mutant of LoadToggled: the caller's flag is negated, not the target's.
load_toggled_own(w) ==
  LET r == request[w]  found == ReadTarget(w) IN
  /\ r # None /\ r.pc = "load" /\ r.op = "toggle"
  /\ IF Exists(r.target) /\ r.target # r.caller
       THEN Proceed(w, [found EXCEPT !.active = FALSE])
       ELSE Refuse(w)

LoadToggled(w) ==   \* admin_toggle_user
  LET r == request[w]  found == ReadTarget(w) IN
  /\ r # None /\ r.pc = "load" /\ r.op = "toggle"
  /\ IF Exists(r.target) /\ r.target # r.caller
       THEN Proceed(w, [found EXCEPT !.active = ~found.seen])
       ELSE Refuse(w)

Inserted(r) == [email |-> r.email, admin |-> r.active, active |-> TRUE]

\* Mutant of MayInsert: the unique index on users.email is missing.
may_insert_always(r) == TRUE

MayInsert(r) == Holding(r.email) = {}

\* The INSERT of an account whose address was taken since the search fails.
InsertUser(w, i) ==
  LET r == request[w] IN
  /\ r # None /\ r.pc = "commit" /\ r.op = "create" /\ ~Exists(i)
  /\ users' = IF MayInsert(r)
                THEN [users EXCEPT ![i] = Inserted(r)]
                ELSE users
  /\ request' = [request EXCEPT ![w] = None]
  /\ UNCHANGED tokens

\* The UPDATE is sent only if the value differs from the one that was read.
SetActive(w) ==
  LET r == request[w] IN
  /\ r # None /\ r.pc = "commit" /\ r.op # "create"
  /\ users' = IF r.active # r.seen
                THEN [users EXCEPT ![r.target].active = r.active]
                ELSE users
  /\ request' = [request EXCEPT ![w] = None]
  /\ UNCHANGED tokens

\* The process dies, or the database goes away: the transaction is rolled back.
Abort(w) == request[w] # None /\ Refuse(w)

Administer(w) ==
  \/ \E i \in tokens : \E r \in Creations(i) \cup Changes(i) : Authenticate(w, i, r)
  \/ SearchEmail(w)
  \/ LoadTarget(w)
  \/ LoadToggled(w)
  \/ \E i \in Ids : InsertUser(w, i)
  \/ SetActive(w)
  \/ Abort(w)

AccountsNext ==
  \/ \E s \in Spellings : login(s) \/ login_submit(s)
  \/ \E i \in tokens : Expire(i)
  \/ \E w \in Slots : Administer(w)

AccountsSpec == AccountsInit /\ [][AccountsNext]_accountVars

-----------------------------------------------------------------------------
(* An address names one account, however it is spelled, and every account   *)
(* can be found under every spelling of its address.                        *)
OneAccountPerAddress ==
  \A i \in Ids : Exists(i) =>
    /\ users[i].email = Lower[users[i].email]
    /\ Holding(users[i].email) = {i}

(* The last active administrator is deactivated only by a request of an     *)
(* administrator who was deactivated while it was served.                   *)
LockoutNeedsARace ==
  [][ActiveAdmins # {} /\ ActiveAdmins' = {} =>
       \E w \in Slots : /\ request[w] # None /\ request[w].pc = "commit"
                        /\ ~Active(request[w].caller)]_accountVars
=============================================================================
