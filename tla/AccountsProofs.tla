--------------------------- MODULE AccountsProofs ---------------------------
(***************************************************************************)
(* What holds of the accounts for every number of accounts, addresses and  *)
(* threads.  The strengthening: a request that may commit was made by an   *)
(* administrator, carries an address in lower case, names an account that  *)
(* exists and does not deactivate its own caller.                          *)
(***************************************************************************)
EXTENDS AdminPage, TLAPS

(* A request that passed its checks still satisfies them when it commits,   *)
(* whatever was committed in between.                                       *)
RequestIsSound(w) ==
  request[w] # None =>
    /\ Exists(request[w].caller)
    /\ users[request[w].caller].admin
    /\ request[w].pc = "commit" =>
         /\ request[w].op = "create" => request[w].email = Lower[request[w].email]
         /\ request[w].op # "create" => Exists(request[w].target)
         /\ request[w].op # "create" /\ request[w].target = request[w].caller =>
               request[w].active \/ request[w].active = request[w].seen

AccountsInv ==
  /\ AccountsTypeOK
  /\ OneAccountPerAddress
  /\ \A w \in Slots : RequestIsSound(w)

(* The seeded accounts satisfy the invariant.                               *)
LEMMA InitInv == AccountsInit => AccountsInv
  <1> SUFFICES ASSUME AccountsInit PROVE AccountsInv
    OBVIOUS
  <1>1. AccountsTypeOK
    BY AccountsAssumption DEF AccountsInit, AccountsTypeOK
  <1>2. OneAccountPerAddress
    BY AccountsAssumption DEF AccountsInit, OneAccountPerAddress, Exists, Holding
  <1>3. \A w \in Slots : RequestIsSound(w)
    BY DEF AccountsInit, RequestIsSound
  <1> QED
    BY <1>1, <1>2, <1>3 DEF AccountsInv

(* What a step that serves the request of slot w has to show.               *)
LEMMA OtherSlots ==
  ASSUME AccountsInv, NEW w \in Slots, NEW r \in Request \cup {None},
         request' = [request EXCEPT ![w] = r],
         users' \in [Ids -> User \cup {None}], tokens' \subseteq Ids,
         \A i \in Ids : Exists(i) =>
            /\ users'[i] # None
            /\ users'[i].admin = users[i].admin,
         OneAccountPerAddress', RequestIsSound(w)'
  PROVE  AccountsInv'
  <1>1. AccountsTypeOK'
    BY DEF AccountsInv, AccountsTypeOK
  <1>2. ASSUME NEW v \in Slots PROVE RequestIsSound(v)'
    <2>1. CASE v = w
      BY <2>1
    <2>2. CASE v # w
      <3>1. request'[v] = request[v]
        BY <2>2 DEF AccountsInv, AccountsTypeOK
      <3>2. RequestIsSound(v) /\ request[v] \in Request \cup {None}
        BY DEF AccountsInv, AccountsTypeOK
      <3>3. request[v] # None => request[v].caller \in Ids /\ request[v].target \in Ids
        BY <3>2 DEF Request
      <3> QED
        BY <3>1, <3>2, <3>3 DEF RequestIsSound, Exists
    <2> QED
      BY <2>1, <2>2
  <1> QED
    BY <1>1, <1>2 DEF AccountsInv

(* Only the INSERT and the UPDATE of a commit touch the table.              *)
LEMMA TableUnchanged ==
  ASSUME AccountsInv, NEW w \in Slots, NEW r \in Request \cup {None},
         request' = [request EXCEPT ![w] = r], UNCHANGED <<users, tokens>>,
         RequestIsSound(w)'
  PROVE  AccountsInv'
  <1>1. OneAccountPerAddress'
    BY DEF AccountsInv, OneAccountPerAddress, Exists, Holding
  <1>2. users' \in [Ids -> User \cup {None}] /\ tokens' \subseteq Ids
    BY DEF AccountsInv, AccountsTypeOK
  <1>3. \A i \in Ids : Exists(i) => users'[i] # None /\ users'[i].admin = users[i].admin
    BY DEF Exists
  <1> QED
    BY <1>1, <1>2, <1>3, OtherSlots

(* Every step preserves the invariant; the two interesting ones are the     *)
(* INSERT, which the unique index guards, and the UPDATE, whose target is   *)
(* not its caller when it deactivates.                                      *)
LEMMA NextInv == AccountsInv /\ [AccountsNext]_accountVars => AccountsInv'
  <1> SUFFICES ASSUME AccountsInv, [AccountsNext]_accountVars PROVE AccountsInv'
    OBVIOUS
  <1> USE DEF AccountsInv
  <1>0. AccountsTypeOK
    OBVIOUS
  <1>1. CASE UNCHANGED accountVars
    BY <1>1 DEF accountVars, AccountsTypeOK, OneAccountPerAddress, RequestIsSound,
                Exists, Holding
  <1>2. ASSUME UNCHANGED <<users, request>>, tokens' \subseteq Ids PROVE AccountsInv'
    BY <1>2 DEF AccountsTypeOK, OneAccountPerAddress, RequestIsSound, Exists, Holding
  <1>3. ASSUME NEW s \in Spellings, login(s) PROVE AccountsInv'
    <2>1. tokens' \subseteq Ids
      <3>1. PICK i \in Ids : tokens' = tokens \cup {i}
        BY <1>3 DEF login, Holding
      <3> QED
        BY <3>1, <1>0 DEF AccountsTypeOK
    <2> QED
      BY <2>1, <1>2, <1>3 DEF login
  <1>6. ASSUME NEW s \in Spellings, login_submit(s) PROVE AccountsInv'
    BY <1>3, <1>6 DEF login_submit
  <1>4. ASSUME NEW t \in tokens, Expire(t) PROVE AccountsInv'
    <2>1. tokens' \subseteq Ids
      BY <1>4 DEF Expire, AccountsTypeOK
    <2> QED
      BY <2>1, <1>2, <1>4 DEF Expire
  <1>5. ASSUME NEW w \in Slots, Administer(w) PROVE AccountsInv'
    <2> DEFINE r == request[w]
    <2>0. /\ r # None => r \in Request
          /\ RequestIsSound(w)
      BY DEF AccountsTypeOK
    <2>1. ASSUME NEW t \in tokens, NEW q \in Creations(t) \cup Changes(t),
                 Authenticate(w, t, q)
          PROVE  AccountsInv'
      <3>1. t \in Ids /\ Exists(t) /\ users[t].admin
        BY <2>1 DEF Authenticate, require_admin, get_current_user, Active,
                    AccountsTypeOK
      <3>2. users[t].email \in Spellings
        BY <3>1 DEF AccountsTypeOK, Exists, User
      <3>3. q \in Request /\ q.caller = t /\ q.pc = "load"
        BY <3>1, <3>2 DEF Creations, Changes, Request
      <3>4. request' = [request EXCEPT ![w] = q] /\ UNCHANGED <<users, tokens>>
        BY <2>1 DEF Authenticate
      <3>5. RequestIsSound(w)'
        BY <3>1, <3>3, <3>4 DEF RequestIsSound, Exists, AccountsTypeOK
      <3> QED
        BY <3>3, <3>4, <3>5, TableUnchanged
    <2>2. ASSUME Refuse(w) PROVE AccountsInv'
      <3>1. request' = [request EXCEPT ![w] = None] /\ UNCHANGED <<users, tokens>>
        BY <2>2 DEF Refuse
      <3>2. RequestIsSound(w)'
        BY <3>1 DEF RequestIsSound, AccountsTypeOK
      <3> QED
        BY <3>1, <3>2, TableUnchanged
    <2>3. ASSUME NEW q \in Request, Proceed(w, q), r # None, q.caller = r.caller,
                 q.op = "create" => q.email = Lower[q.email],
                 q.op # "create" => Exists(q.target),
                 q.op # "create" /\ q.target = q.caller => q.active \/ q.active = q.seen
          PROVE  AccountsInv'
      <3> DEFINE c == [q EXCEPT !.pc = "commit"]
      <3>1. request' = [request EXCEPT ![w] = c] /\ UNCHANGED <<users, tokens>>
        BY <2>3 DEF Proceed
      <3>2. /\ c \in Request /\ c.caller = q.caller /\ c.op = q.op /\ c.email = q.email
            /\ c.target = q.target /\ c.active = q.active /\ c.seen = q.seen
        BY <2>3 DEF Request
      <3> HIDE DEF c
      <3>3. request'[w] = c
        BY <3>1, <1>0 DEF AccountsTypeOK
      <3>4. Exists(q.caller) /\ users[q.caller].admin
        BY <2>0, <2>3 DEF RequestIsSound
      <3>5. RequestIsSound(w)'
        BY <3>1, <3>2, <3>3, <3>4, <2>3 DEF RequestIsSound, Exists
      <3> QED
        BY <3>1, <3>2, <3>5, TableUnchanged
    <2>4. ASSUME SearchEmail(w) PROVE AccountsInv'
      <3> DEFINE q == [r EXCEPT !.email = Lower[@]]
      <3>1. r # None /\ r.op = "create" /\ (Refuse(w) \/ Proceed(w, q))
        BY <2>4 DEF SearchEmail
      <3>2. /\ q \in Request /\ q.caller = r.caller /\ q.op = "create"
            /\ q.email = Lower[q.email]
        BY <3>1, <2>0, AccountsAssumption DEF Request
      <3> HIDE DEF q, r
      <3> QED
        BY <3>1, <3>2, <2>2, <2>3
    <2>5. ASSUME r # None, Exists(r.target)
          PROVE  /\ ReadTarget(w) \in Request
                 /\ ReadTarget(w).caller = r.caller /\ ReadTarget(w).op = r.op
                 /\ ReadTarget(w).target = r.target /\ ReadTarget(w).active = r.active
      <3>1. r \in Request /\ users[r.target].active \in BOOLEAN
        BY <2>0, <2>5 DEF AccountsTypeOK, Exists, User, Request
      <3> QED
        BY <3>1 DEF ReadTarget, Request
    <2>6. ASSUME LoadTarget(w) PROVE AccountsInv'
      <3>1. CASE Refuse(w)
        BY <3>1, <2>2
      <3>2. CASE ~Refuse(w)
        <4> DEFINE q == ReadTarget(w)
        <4>1. /\ r # None /\ r.op = "update" /\ Exists(r.target)
              /\ r.target = r.caller => r.active
              /\ Proceed(w, q)
          BY <2>6, <3>2 DEF LoadTarget
        <4>2. /\ q \in Request /\ q.caller = r.caller /\ q.op = "update"
              /\ q.target = r.target /\ q.active = r.active
          BY <4>1, <2>5
        <4> HIDE DEF q, r
        <4> QED
          BY <4>1, <4>2, <2>3
      <3> QED
        BY <3>1, <3>2
    <2>7. ASSUME LoadToggled(w) PROVE AccountsInv'
      <3>1. CASE Refuse(w)
        BY <3>1, <2>2
      <3>2. CASE ~Refuse(w)
        <4> DEFINE f == ReadTarget(w)
                   q == [f EXCEPT !.active = ~f.seen]
        <4>1. /\ r # None /\ r.op = "toggle" /\ Exists(r.target)
              /\ r.target # r.caller
              /\ Proceed(w, q)
          BY <2>7, <3>2 DEF LoadToggled
        <4>2. f \in Request /\ f.caller = r.caller /\ f.op = "toggle" /\ f.target = r.target
          BY <4>1, <2>5
        <4> HIDE DEF f
        <4>3. q \in Request /\ q.caller = r.caller /\ q.op = "toggle" /\ q.target = r.target
          BY <4>2 DEF Request
        <4> HIDE DEF q, r
        <4> QED
          BY <4>1, <4>3, <2>3
      <3> QED
        BY <3>1, <3>2
    <2>8. ASSUME NEW i \in Ids, InsertUser(w, i) PROVE AccountsInv'
      <3>1. /\ r \in Request /\ r.pc = "commit" /\ r.op = "create" /\ ~Exists(i)
            /\ r.email = Lower[r.email] /\ r.email \in Spellings /\ r.active \in BOOLEAN
        BY <2>0, <2>8 DEF InsertUser, RequestIsSound, Request
      <3>2. request' = [request EXCEPT ![w] = None] /\ UNCHANGED tokens
        BY <2>8 DEF InsertUser
      <3>3. RequestIsSound(w)'
        BY <3>2 DEF RequestIsSound, AccountsTypeOK
      <3>4. CASE users' = users
        BY <3>2, <3>3, <3>4, TableUnchanged
      <3>5. CASE MayInsert(r)
        <4>1. users' = [users EXCEPT ![i] = Inserted(r)]
          BY <2>8, <3>5 DEF InsertUser
        <4>2. Inserted(r) \in User /\ Inserted(r).email = r.email
          BY <3>1 DEF Inserted, User
        <4>3. users' \in [Ids -> User \cup {None}] /\ tokens' \subseteq Ids
          BY <4>1, <4>2, <3>2 DEF AccountsTypeOK
        <4>4. \A j \in Ids : Exists(j) => users'[j] # None /\ users'[j].admin = users[j].admin
          BY <4>1, <3>1 DEF AccountsTypeOK, Exists
        <4>5. ASSUME NEW j \in Ids, users'[j] # None
              PROVE  /\ users'[j].email = Lower[users'[j].email]
                     /\ \A k \in Ids : users'[k] # None /\ users'[k].email = users'[j].email
                                         => k = j
          <5>1. \A k \in Ids : Exists(k) => users[k].email # r.email
            BY <3>5 DEF MayInsert, Holding
          <5>2. \A k \in Ids : users'[k] = IF k = i THEN Inserted(r) ELSE users[k]
            BY <4>1 DEF AccountsTypeOK
          <5>3. \A k, l \in Ids : Exists(k) /\ Exists(l) /\ users[k].email = users[l].email
                                    => k = l
            BY DEF OneAccountPerAddress, Holding
          <5>4. \A k \in Ids : Exists(k) => users[k].email = Lower[users[k].email]
            BY DEF OneAccountPerAddress
          <5> QED
            BY <5>1, <5>2, <5>3, <5>4, <4>2, <4>5, <3>1 DEF Exists
        <4>6. OneAccountPerAddress'
          BY <4>5 DEF OneAccountPerAddress, Exists, Holding
        <4> QED
          BY <3>2, <3>3, <4>3, <4>4, <4>6, OtherSlots
      <3> QED
        BY <3>4, <3>5, <2>8 DEF InsertUser
    <2>9. ASSUME SetActive(w) PROVE AccountsInv'
      <3>1. /\ r \in Request /\ Exists(r.target) /\ r.target \in Ids /\ r.active \in BOOLEAN
        BY <2>0, <2>9 DEF SetActive, RequestIsSound, Request
      <3>2. request' = [request EXCEPT ![w] = None]
        BY <2>9 DEF SetActive
      <3>3. RequestIsSound(w)'
        BY <3>2 DEF RequestIsSound, AccountsTypeOK
      <3>4. tokens' \subseteq Ids
        BY <2>9 DEF SetActive, AccountsTypeOK
      <3>5. CASE users' = users
        <4>1. OneAccountPerAddress'
          BY <3>5 DEF OneAccountPerAddress, Exists, Holding
        <4> QED
          BY <4>1, <3>2, <3>3, <3>4, <3>5, OtherSlots DEF AccountsTypeOK, Exists
      <3>6. CASE users' = [users EXCEPT ![r.target].active = r.active]
        <4>1. users[r.target] \in User
          BY <3>1 DEF Exists, AccountsTypeOK
        <4>2. [users[r.target] EXCEPT !.active = r.active] \in User
          BY <4>1, <3>1 DEF User
        <4>3. users' \in [Ids -> User \cup {None}]
          BY <4>2, <3>6, <3>1 DEF AccountsTypeOK
        <4>4. \A j \in Ids : Exists(j) <=> users'[j] # None
          BY <4>1, <4>2, <3>6, <3>1, AccountsAssumption DEF AccountsTypeOK, Exists
        <4>5. \A j \in Ids : Exists(j) => /\ users'[j].email = users[j].email
                                          /\ users'[j].admin = users[j].admin
          BY <4>1, <3>6, <3>1 DEF AccountsTypeOK, Exists, User
        <4>6. OneAccountPerAddress'
          BY <4>4, <4>5 DEF OneAccountPerAddress, Exists, Holding
        <4> QED
          BY <3>2, <3>3, <3>4, <4>3, <4>4, <4>5, <4>6, OtherSlots
      <3> QED
        BY <3>5, <3>6, <2>9 DEF SetActive
    <2> QED
      BY <1>5, <2>1, <2>2, <2>4, <2>6, <2>7, <2>8, <2>9 DEF Administer, Abort
  <1> QED
    BY <1>1, <1>3, <1>4, <1>5, <1>6 DEF AccountsNext

(* Tables, tokens and requests stay well-formed.                            *)
THEOREM AccountsTypeCorrect == AccountsSpec => []AccountsTypeOK
  <1>1. AccountsInv => AccountsTypeOK
    BY DEF AccountsInv
  <1> QED
    BY <1>1, InitInv, NextInv, PTL DEF AccountsSpec

(* An address names one account, however many creations race.               *)
THEOREM AddressesAreUnique == AccountsSpec => []OneAccountPerAddress
  <1>1. AccountsInv => OneAccountPerAddress
    BY DEF AccountsInv
  <1> QED
    BY <1>1, InitInv, NextInv, PTL DEF AccountsSpec

(* A step after which no administrator is active was the UPDATE of a        *)
(* request whose caller was no longer active.                               *)
LEMMA LockoutStep ==
  ASSUME AccountsInv, [AccountsNext]_accountVars,
         ActiveAdmins # {}, ActiveAdmins' = {}
  PROVE  \E w \in Slots : /\ request[w] # None /\ request[w].pc = "commit"
                          /\ ~Active(request[w].caller)
  <1>1. users' # users
    BY DEF ActiveAdmins, Active, Exists
  <1>2. PICK a \in ActiveAdmins : TRUE
    OBVIOUS
  <1>3. a \in Ids /\ users[a] # None /\ users[a].active /\ users[a].admin
    BY <1>2 DEF ActiveAdmins, Active, Exists
  <1>4. PICK w \in Slots : (\E i \in Ids : InsertUser(w, i)) \/ SetActive(w)
    BY <1>1 DEF AccountsNext, accountVars, login, login_submit, Expire, Administer, Authenticate,
                SearchEmail, LoadTarget, LoadToggled, Abort, Refuse, Proceed
  <1>5. ASSUME NEW i \in Ids, InsertUser(w, i) PROVE FALSE
    <2>1. i # a /\ users' = [users EXCEPT ![i] = Inserted(request[w])]
      BY <1>1, <1>3, <1>5 DEF InsertUser, Exists
    <2>2. users'[a] = users[a]
      BY <2>1, <1>3 DEF AccountsInv, AccountsTypeOK
    <2> QED
      BY <2>2, <1>3 DEF ActiveAdmins, Active, Exists
  <1>6. ASSUME SetActive(w), Active(request[w].caller) PROVE FALSE
    <2> DEFINE r == request[w]
    <2>1. /\ r # None /\ r \in Request /\ r.pc = "commit" /\ r.op # "create"
          /\ users' = [users EXCEPT ![r.target].active = r.active]
          /\ r.active # r.seen
      BY <1>1, <1>6 DEF SetActive, AccountsInv, AccountsTypeOK
    <2>2. /\ r.caller \in Ids /\ users[r.caller].admin /\ Exists(r.target)
          /\ r.target = r.caller => r.active
      BY <2>1 DEF AccountsInv, RequestIsSound, Request
    <2>3. users[r.caller] \in User /\ users[r.target] \in User
      BY <1>6, <2>1, <2>2 DEF AccountsInv, AccountsTypeOK, Active, Exists, Request
    <2>4. /\ users'[r.caller] # None
          /\ users'[r.caller].admin
          /\ users'[r.caller].active
      <3>1. CASE r.target = r.caller
        <4>1. users'[r.caller] = [users[r.caller] EXCEPT !.active = r.active]
          BY <2>1, <2>2, <3>1 DEF AccountsInv, AccountsTypeOK
        <4>2. users'[r.caller] \in User
          BY <4>1, <2>1, <2>3 DEF User, Request
        <4> QED
          BY <4>1, <4>2, <2>2, <2>3, <3>1, AccountsAssumption DEF User
      <3>2. CASE r.target # r.caller
        <4>1. users'[r.caller] = users[r.caller]
          BY <2>1, <2>2, <3>2 DEF AccountsInv, AccountsTypeOK
        <4> QED
          BY <4>1, <2>2, <1>6 DEF Active, Exists
      <3> QED
        BY <3>1, <3>2
    <2> QED
      BY <2>2, <2>4 DEF ActiveAdmins, Active, Exists
  <1>7. SetActive(w) /\ ~Active(request[w].caller)
    BY <1>4, <1>5, <1>6
  <1> QED
    BY <1>7 DEF SetActive

(* The last administrator is lost only to a request that outlived its       *)
(* caller's own deactivation.                                               *)
THEOREM LockoutTakesTwo == AccountsSpec => LockoutNeedsARace
  <1>1. AccountsInv /\ [AccountsNext]_accountVars =>
          [ActiveAdmins # {} /\ ActiveAdmins' = {} =>
             \E w \in Slots : /\ request[w] # None /\ request[w].pc = "commit"
                              /\ ~Active(request[w].caller)]_accountVars
    BY LockoutStep
  <1> QED
    BY <1>1, InitInv, NextInv, PTL DEF AccountsSpec, LockoutNeedsARace

-----------------------------------------------------------------------------
(* The users page in a browser tab.                                         *)

(* A click is a request that any administrator could have sent: the page    *)
(* adds nothing to what can happen to the accounts.                         *)
LEMMA PageStep == [AdminNext]_adminVars => [AccountsNext]_accountVars
  <1> SUFFICES ASSUME [AdminNext]_adminVars PROVE [AccountsNext]_accountVars
    OBVIOUS
  <1>1. ASSUME NEW w \in Slots, NEW t \in Ids, toggle_user(w, t) PROVE AccountsNext
    <2>1. PICK r \in Changes(tab.viewer) : Authenticate(w, tab.viewer, r)
      BY <1>1 DEF toggle_user
    <2>2. tab.viewer \in tokens
      BY <2>1 DEF Authenticate, require_admin, get_current_user
    <2> QED
      BY <2>1, <2>2 DEF AccountsNext, Administer
  <1> QED
    BY <1>1 DEF AdminNext, admin_users, ToggleRefused, Elsewhere, adminVars

(* Whoever uses the page, the accounts are those of AccountsSpec.           *)
THEOREM PageAddsNothing == AdminSpec => AccountsSpec
  BY PageStep, PTL DEF AdminSpec, AdminInit, AccountsSpec

(* So an address names one account, and the last administrator is lost only *)
(* in a race, with the page in use as well.                                 *)
THEOREM PageKeepsAccounts == AdminSpec => []OneAccountPerAddress /\ LockoutNeedsARace
  BY PageAddsNothing, AddressesAreUnique, LockoutTakesTwo, PTL

(* A button of an account that nobody has switched since the page was       *)
(* rendered says what its click will do: while the page stands, while the   *)
(* request waits, and once the request has read the account.                *)
Says(label, active) == label = IF active THEN "Deactivate" ELSE "Activate"

OpenTab ==
  /\ tab.viewer \in Ids
  /\ \A t \in DOMAIN tab.button :
       /\ t \in Ids /\ t # tab.viewer /\ Exists(t)
       /\ t \in changed \/ Says(tab.button[t], users[t].active)

ClickedTab ==
  LET r == request[tab.thread] IN
  /\ tab.thread \in Slots /\ tab.target \in Ids /\ Exists(tab.target)
  /\ r # None /\ r.op = "toggle" /\ r.target = tab.target /\ r.caller # tab.target
  /\ tab.target \in changed \/ Says(tab.label, users[tab.target].active)
  /\ r.pc = "commit" =>
       /\ r.seen \in BOOLEAN /\ r.active = ~r.seen
       /\ tab.target \in changed \/ Says(tab.label, r.seen)

TabInv ==
  \/ tab = Away
  \/ tab.pc = "open" /\ OpenTab
  \/ tab.pc = "clicked" /\ ClickedTab

(* What the accounts do to a tab that stands.                               *)
LEMMA SwitchesAreSeen ==
  ASSUME AccountsInv, AccountsInv', NEW i \in Ids, Exists(i), NEW label,
         Elsewhere, tab # Away, i \in changed \/ Says(label, users[i].active)
  PROVE  i \in changed' \/ Says(label, users'[i].active)
  BY DEF Elsewhere

(* No request deletes an account.                                           *)
LEMMA AccountsStay ==
  ASSUME AccountsInv, AccountsNext, NEW i \in Ids, Exists(i)
  PROVE  Exists(i)'
  <1>1. CASE users' = users
    BY <1>1 DEF Exists
  <1>2. ASSUME NEW w \in Slots, NEW k \in Ids, InsertUser(w, k) PROVE Exists(i)'
    BY <1>2 DEF InsertUser, Exists, AccountsInv, AccountsTypeOK
  <1>3. ASSUME NEW w \in Slots, SetActive(w) PROVE Exists(i)'
    <2>1. users[i] \in User
      BY DEF AccountsInv, AccountsTypeOK, Exists
    <2>2. users'[i] = users[i] \/ users'[i] = [users[i] EXCEPT !.active = request[w].active]
      BY <1>3 DEF SetActive, AccountsInv, AccountsTypeOK
    <2>3. request[w].active \in BOOLEAN
      BY <1>3 DEF SetActive, AccountsInv, AccountsTypeOK, Request
    <2>4. users'[i] \in User
      BY <2>1, <2>2, <2>3 DEF User
    <2> QED
      BY <2>4, AccountsAssumption DEF Exists
  <1> QED
    BY <1>1, <1>2, <1>3
    DEF AccountsNext, login, login_submit, Expire, Administer, Authenticate, SearchEmail,
        LoadTarget, LoadToggled, Abort, Refuse, Proceed

(* What becomes of the request a click has made.                            *)
LEMMA ClickedRequest ==
  ASSUME AccountsInv, AccountsNext, NEW w \in Slots, request[w] # None,
         request[w].op = "toggle", request[w].target # request[w].caller
  PROVE  LET r == request[w] IN
         \/ request'[w] = None \/ request'[w] = r
         \/ /\ r.pc = "load" /\ users' = users
            /\ LET q == request'[w] IN
               /\ q.op = "toggle" /\ q.target = r.target /\ q.caller = r.caller
               /\ q.seen = users[r.target].active /\ q.active = ~q.seen
  <1> DEFINE r == request[w]
  <1>1. request \in [Slots -> Request \cup {None}] /\ r \in Request
    BY DEF AccountsInv, AccountsTypeOK
  <1>2. CASE request' = request
    BY <1>2
  <1>3. ASSUME NEW v \in Slots, v # w, NEW q, request' = [request EXCEPT ![v] = q]
        PROVE  request'[w] = r
    BY <1>1, <1>3
  <1>4. ASSUME request' = [request EXCEPT ![w] = None] PROVE request'[w] = None
    BY <1>1, <1>4
  <1>5. ASSUME LoadToggled(w), ~Refuse(w)
        PROVE  /\ r.pc = "load" /\ users' = users
               /\ LET q == request'[w] IN
                  /\ q.op = "toggle" /\ q.target = r.target /\ q.caller = r.caller
                  /\ q.seen = users[r.target].active /\ q.active = ~q.seen
    <2> DEFINE f == ReadTarget(w)
               q == [[f EXCEPT !.active = ~f.seen] EXCEPT !.pc = "commit"]
    <2>1. /\ r.pc = "load" /\ Exists(r.target)
          /\ request' = [request EXCEPT ![w] = q] /\ users' = users
      BY <1>5 DEF LoadToggled, Proceed
    <2>2. users[r.target].active \in BOOLEAN
      BY <1>1, <2>1 DEF Exists, User, Request, AccountsInv, AccountsTypeOK
    <2>3. f = [r EXCEPT !.seen = users[r.target].active]
      BY DEF ReadTarget
    <2>4. /\ q \in Request /\ q.op = "toggle" /\ q.target = r.target /\ q.caller = r.caller
          /\ q.seen = users[r.target].active /\ q.active = ~q.seen
      BY <1>1, <2>2, <2>3 DEF Request
    <2> HIDE DEF q
    <2>5. request'[w] = q
      BY <1>1, <2>1
    <2> QED
      BY <2>1, <2>4, <2>5
  <1>6. ASSUME NEW v \in Slots, Administer(v), request' # request
        PROVE  \/ \E q : request' = [request EXCEPT ![v] = q] /\ v # w
               \/ request' = [request EXCEPT ![w] = None]
               \/ LoadToggled(w) /\ ~Refuse(w)
    <2>1. CASE v # w
      BY <1>6, <2>1
      DEF Administer, Authenticate, SearchEmail, LoadTarget, LoadToggled, InsertUser, SetActive,
          Abort, Refuse, Proceed
    <2>2. CASE v = w
      <3>1. ~SearchEmail(w) /\ ~LoadTarget(w)
        BY <1>1 DEF SearchEmail, LoadTarget, Request
      <3> QED
        BY <1>6, <2>2, <3>1
        DEF Administer, Authenticate, LoadToggled, InsertUser, SetActive, Abort, Refuse
    <2> QED
      BY <2>1, <2>2
  <1>7. CASE \E v \in Slots : Administer(v)
    BY <1>2, <1>3, <1>4, <1>5, <1>6, <1>7
  <1> QED
    BY <1>2, <1>7 DEF AccountsNext, login, login_submit, Expire

(* Every step, of the page or of anybody else, keeps the buttons truthful.  *)
LEMMA TabStep ==
  ASSUME AccountsInv, AccountsInv', TabInv, [AdminNext]_adminVars
  PROVE  TabInv'
  <1> USE DEF Says
  <1>1. CASE UNCHANGED adminVars
    BY <1>1 DEF adminVars, accountVars, TabInv, OpenTab, ClickedTab, Exists
  <1>2. CASE ToggleRefused
    BY <1>2 DEF ToggleRefused, TabInv
  <1>3. ASSUME NEW i \in Ids, admin_users(i) PROVE TabInv'
    <2>1. users' = users
      BY <1>3 DEF admin_users, accountVars
    <2>2. CASE require_admin(i)
      <3> DEFINE button == [t \in {j \in Ids \ {i} : Exists(j)} |-> Label(t)]
      <3>1. tab' = [pc |-> "open", viewer |-> i, button |-> button]
        BY <1>3, <2>2 DEF admin_users
      <3>2. \A t \in DOMAIN button :
              t \in Ids /\ t # i /\ Exists(t) /\ Says(button[t], users[t].active)
        BY DEF Label
      <3> HIDE DEF button
      <3>3. OpenTab'
        BY <2>1, <3>1, <3>2 DEF OpenTab, Exists
      <3> QED
        BY <3>1, <3>3 DEF TabInv
    <2>3. CASE ~require_admin(i)
      BY <1>3, <2>3 DEF admin_users, TabInv
    <2> QED
      BY <2>2, <2>3
  <1>4. ASSUME NEW w \in Slots, NEW t \in Ids, toggle_user(w, t) PROVE TabInv'
    <2>1. PICK r \in Changes(tab.viewer) :
            r.op = "toggle" /\ r.target = t /\ Authenticate(w, tab.viewer, r)
      BY <1>4 DEF toggle_user
    <2>2. tab.pc = "open" /\ OpenTab /\ t \in DOMAIN tab.button
      BY <1>4 DEF toggle_user, TabInv, Away
    <2>3. r.caller = tab.viewer /\ r.pc = "load" /\ t # tab.viewer /\ Exists(t)
      BY <2>2 DEF Changes, OpenTab
    <2>4. request'[w] = r /\ users' = users
      BY <2>1 DEF Authenticate, AccountsInv, AccountsTypeOK
    <2>5. /\ tab' = [pc |-> "clicked", target |-> t, label |-> tab.button[t], thread |-> w]
          /\ changed' = changed
      BY <1>4 DEF toggle_user
    <2>6. r # None
      <3>1. r \in Request
        BY <2>1, <2>4 DEF Authenticate, require_admin, get_current_user, Active, Exists,
                          Changes, AccountsInv, AccountsTypeOK, User, Request
      <3> QED
        BY <3>1, AccountsAssumption
    <2> QED
      BY <2>1, <2>2, <2>3, <2>4, <2>5, <2>6 DEF TabInv, OpenTab, ClickedTab, Exists
  <1>5. ASSUME Elsewhere, tab.pc = "open", OpenTab PROVE TabInv'
    <2>1. tab' = tab /\ AccountsNext /\ tab # Away
      BY <1>5 DEF Elsewhere, Away
    <2>2. \A t \in DOMAIN tab.button :
            /\ Exists(t)'
            /\ t \in changed' \/ Says(tab.button[t], users'[t].active)
      BY <1>5, <2>1, AccountsStay, SwitchesAreSeen DEF OpenTab
    <2> QED
      BY <1>5, <2>1, <2>2 DEF TabInv, OpenTab
  <1>6. ASSUME Elsewhere, tab.pc = "clicked", ClickedTab PROVE TabInv'
    <2> DEFINE w == tab.thread
               r == request[w]
               q == request'[w]
    <2>1. AccountsNext /\ tab # Away
      BY <1>6 DEF Elsewhere, Away
    <2>2. CASE q = None
      BY <1>6, <2>2 DEF Elsewhere, TabInv
    <2>3. CASE q # None
      <3>1. tab' = tab
        BY <1>6, <2>3 DEF Elsewhere
      <3>2. /\ Exists(tab.target)'
            /\ tab.target \in changed' \/ Says(tab.label, users'[tab.target].active)
        <4>1. /\ tab.target \in Ids /\ Exists(tab.target)
              /\ tab.target \in changed \/ Says(tab.label, users[tab.target].active)
          BY <1>6, Zenon DEF ClickedTab
        <4>2. Exists(tab.target)'
          BY <2>1, <3>1, <4>1, AccountsStay DEF Exists
        <4>3. tab.target \in changed' \/ Says(tab.label, users'[tab.target].active)
          BY <1>6, <2>1, <4>1, SwitchesAreSeen, Zenon
        <4> QED
          BY <4>2, <4>3
      <3>3. changed \subseteq changed'
        BY <1>6, <2>1 DEF Elsewhere
      <3>4. \/ q = r
            \/ /\ r.pc = "load" /\ users' = users
               /\ q.op = "toggle" /\ q.target = r.target /\ q.caller = r.caller
               /\ q.seen = users[r.target].active /\ q.active = ~q.seen
        BY <1>6, <2>1, <2>3, ClickedRequest DEF ClickedTab
      <3>5. CASE q = r
        BY <1>6, <2>3, <3>1, <3>2, <3>3, <3>5 DEF TabInv, ClickedTab
      <3>6. CASE q # r
        <4>1. users[tab.target] \in User
          BY <1>6 DEF ClickedTab, Exists, AccountsInv, AccountsTypeOK
        <4>2. q.seen \in BOOLEAN /\ q.target = tab.target
          BY <1>6, <3>4, <3>6, <4>1 DEF ClickedTab, User
        <4>3. tab.target \in changed' \/ Says(tab.label, q.seen)
          BY <1>6, <3>2, <3>4, <3>6 DEF ClickedTab
        <4> QED
          BY <1>6, <2>3, <3>1, <3>2, <3>4, <3>6, <4>2, <4>3 DEF TabInv, ClickedTab
      <3> QED
        BY <3>5, <3>6
    <2> QED
      BY <2>2, <2>3
  <1>7. ASSUME Elsewhere, tab = Away PROVE TabInv'
    BY <1>7 DEF Elsewhere, Away, TabInv
  <1> QED
    BY <1>1, <1>2, <1>3, <1>4, <1>5, <1>6, <1>7 DEF AdminNext, TabInv

(* So the commit of a click does what its label said.                       *)
LEMMA ButtonStep ==
  ASSUME AccountsInv, TabInv, tab.pc = "clicked", SetActive(tab.thread)
  PROVE  \/ tab.target \in changed
         \/ users'[tab.target].active = (tab.label = "Activate")
  <1> DEFINE r == request[tab.thread]
  <1>1. ClickedTab
    BY DEF TabInv, Away
  <1>2. /\ r.pc = "commit" /\ r.target = tab.target /\ tab.target \in Ids
        /\ r.seen \in BOOLEAN /\ r.active = ~r.seen
        /\ tab.target \in changed \/ Says(tab.label, r.seen)
    <2>1. r.pc = "commit"
      BY DEF SetActive
    <2> QED
      BY <1>1, <2>1, Zenon DEF ClickedTab
  <1>3. users' = [users EXCEPT ![tab.target].active = r.active]
    BY <1>2 DEF SetActive
  <1>4. users[tab.target] \in User
    BY <1>1 DEF ClickedTab, Exists, AccountsInv, AccountsTypeOK
  <1>5. users'[tab.target].active = r.active
    BY <1>2, <1>3, <1>4 DEF AccountsInv, AccountsTypeOK, User
  <1> QED
    BY <1>2, <1>5 DEF Says

(* However many administrators are at work, Deactivate deactivates and      *)
(* Activate activates, unless the account was switched under the page.      *)
THEOREM ButtonsKeepTheirWord == AdminSpec => ButtonKeepsItsWord
  <1> DEFINE IInv == AccountsInv /\ TabInv
  <1>1. AdminInit => IInv
    BY InitInv DEF AdminInit, TabInv
  <1>2. IInv /\ [AdminNext]_adminVars => IInv'
    BY PageStep, NextInv, TabStep
  <1>3. IInv => (tab.pc = "clicked" /\ SetActive(tab.thread) =>
                   \/ tab.target \in changed
                   \/ users'[tab.target].active = (tab.label = "Activate"))
    BY ButtonStep
  <1> HIDE DEF IInv
  <1>4. IInv /\ [AdminNext]_adminVars =>
          [tab.pc = "clicked" /\ SetActive(tab.thread) =>
             \/ tab.target \in changed
             \/ users'[tab.target].active = (tab.label = "Activate")]_adminVars
    BY <1>3
  <1> QED
    BY <1>1, <1>2, <1>4, PTL DEF AdminSpec, ButtonKeepsItsWord
=============================================================================
