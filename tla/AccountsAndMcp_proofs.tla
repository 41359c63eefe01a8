------------------------ MODULE AccountsAndMcp_proofs ------------------------
(* Proofs about modules Accounts and McpServer, what is kept for those who    *)
(* come in: for every number of requests, ids and emails, every life of a     *)
(* token and every restart; and for every set of messages, size of batch,     *)
(* number of posts and allowance, what is billed and what is shown.           *)
EXTENDS Accounts, McpServer, FiniteSetTheorems, TLAPS

----------------------------------------------------------------------------
(* Accounts.                                                                  *)

(* A request that is about to get a token has an account's id.                 *)
TokenHasUser == \A r \in Requests : request[r].pc = "token" => request[r].user # None

AccountsInv == AccountsTypeOK /\ TokenHasUser /\ OneAccountPerEmail

LEMMA InitAccountsInv == AccountsInit => AccountsInv
<1> SUFFICES ASSUME AccountsInit PROVE AccountsInv OBVIOUS
<1>1. Accounts = {} BY DEF AccountsInit, Accounts
<1>2. users \in [Accounts -> Rows] BY <1>1 DEF AccountsInit
<1>3. AccountsTypeOK BY <1>1, <1>2, AccountsAssumption DEF AccountsInit, AccountsTypeOK, Idle, Kinds
<1>4. TokenHasUser BY DEF AccountsInit, Idle, TokenHasUser
<1>5. OneAccountPerEmail BY <1>1 DEF OneAccountPerEmail
<1>6. QED BY <1>3, <1>4, <1>5 DEF AccountsInv

(* What the users table is after a row is put in, or rows are dropped.         *)
LEMMA PutIs ==
  ASSUME users \in [Accounts -> Rows], NEW id, NEW row \in Rows, users' = Put(id, row)
  PROVE  /\ Accounts' = Accounts \cup {id}
         /\ users' \in [Accounts' -> Rows]
         /\ users'[id] = row
         /\ \A i \in Accounts \ {id} : users'[i] = users[i]
BY DEF Put, Accounts

LEMMA DropIs ==
  ASSUME users \in [Accounts -> Rows], NEW ids, users' = Drop(ids)
  PROVE  /\ Accounts' = Accounts \ ids
         /\ users' \in [Accounts' -> Rows]
         /\ \A i \in Accounts' : users'[i] = users[i]
BY DEF Drop, Restrict, Accounts

(* A table that loses rows keeps its promises.                                 *)
LEMMA DroppingKeeps ==
  ASSUME OneAccountPerEmail, Accounts' \subseteq Accounts, \A i \in Accounts' : users'[i] = users[i]
  PROVE  OneAccountPerEmail'
BY DEF OneAccountPerEmail

(* A row whose email is free, and that is a guest's exactly if it has none.    *)
LEMMA PuttingKeeps ==
  ASSUME users \in [Accounts -> Rows], OneAccountPerEmail, NEW id, NEW row \in Rows, users' = Put(id, row),
         row.kind = "guest" <=> row.email = None, row.email # None => ~Taken(row.email)
  PROVE  OneAccountPerEmail'
<1>1. /\ Accounts' = Accounts \cup {id} /\ users'[id] = row
      /\ \A i \in Accounts \ {id} : users'[i] = users[i]
  BY PutIs
<1>2. SUFFICES ASSUME NEW i \in Accounts'
               PROVE  /\ users'[i].kind = "guest" <=> users'[i].email = None
                      /\ \A other \in Accounts' :
                           users'[i].email = users'[other].email /\ users'[i].email # None => i = other
  BY DEF OneAccountPerEmail
<1>3. \A j \in Accounts : users[j].email # row.email \/ row.email = None BY DEF Taken
<1>4. users'[i].kind = "guest" <=> users'[i].email = None BY <1>1 DEF OneAccountPerEmail
<1>5. ASSUME NEW other \in Accounts', users'[i].email = users'[other].email, users'[i].email # None
      PROVE  i = other
  BY <1>1, <1>3, <1>5 DEF OneAccountPerEmail
<1>6. QED BY <1>4, <1>5

(* Requests come and go: the table is left alone.                              *)
LEMMA RequestsKeep ==
  ASSUME AccountsInv, UNCHANGED <<now, users, issued>>,
         tokens' \subseteq [user : issued, expires : 0..(now + Ttl)],
         request' \in [Requests -> [pc : {"idle", "ready", "token"}, kind : Kinds,
                                    user : issued \cup {None}, stamp : Nat]],
         \A r \in Requests : request'[r].pc = "token" => request'[r].user # None
  PROVE  AccountsInv'
<1>1. Accounts' = Accounts BY DEF Accounts
<1>2. OneAccountPerEmail' BY <1>1 DEF AccountsInv, OneAccountPerEmail
<1>3. TokenHasUser' BY DEF TokenHasUser
<1>4. AccountsTypeOK' BY <1>1 DEF AccountsInv, AccountsTypeOK
<1>5. QED BY <1>2, <1>3, <1>4 DEF AccountsInv

(* The row is committed and its token is due.                                  *)
LEMMA TokenDue ==
  ASSUME NEW S, NEW id \in S, NEW r \in Requests, now \in Nat,
         request \in [Requests -> [pc : {"idle", "ready", "token"}, kind : Kinds, user : S, stamp : Nat]],
         request' = [request EXCEPT ![r].pc = "token", ![r].user = id, ![r].stamp = now]
  PROVE  request' \in [Requests -> [pc : {"idle", "ready", "token"}, kind : Kinds, user : S, stamp : Nat]]
<1> DEFINE Record == [pc : {"idle", "ready", "token"}, kind : Kinds, user : S, stamp : Nat]
           q == [request[r] EXCEPT !.pc = "token", !.user = id, !.stamp = now]
<1>1. request[r] \in Record OBVIOUS
<1>2. q \in Record BY <1>1
<1>3. request' = [request EXCEPT ![r] = q] OBVIOUS
<1> HIDE DEF q, Record
<1>4. request \in [Requests -> Record] BY DEF Record
<1>5. request' \in [Requests -> Record] BY <1>2, <1>3, <1>4
<1>6. QED BY <1>5 DEF Record

(* A new account: an id never given before, a row that is free.                *)
LEMMA InsertKeeps ==
  ASSUME AccountsInv, NEW r \in Requests, NEW row \in Rows, Insert(r, row), UNCHANGED <<now, tokens>>,
         row.kind = "guest" <=> row.email = None, row.email # None => ~Taken(row.email)
  PROVE  AccountsInv' /\ issued \cap Accounts' \subseteq Accounts
               /\ \A i \in Accounts : i \in Accounts' => users'[i] = users[i]
<1>1. PICK id \in Ids \ issued :
        /\ users' = Put(id, row) /\ issued' = issued \cup {id}
        /\ request' = [request EXCEPT ![r].pc = "token", ![r].user = id, ![r].stamp = now]
  BY DEF Insert
<1>2. users \in [Accounts -> Rows] /\ Accounts \subseteq issued BY DEF AccountsInv, AccountsTypeOK
<1>3. /\ Accounts' = Accounts \cup {id} /\ users' \in [Accounts' -> Rows]
      /\ \A i \in Accounts \ {id} : users'[i] = users[i]
  BY <1>1, <1>2, PutIs
<1>4. OneAccountPerEmail' BY <1>1, <1>2, PuttingKeeps DEF AccountsInv
<1>5. id # None BY <1>1, AccountsAssumption
<1>6. TokenHasUser' BY <1>1, <1>5 DEF AccountsInv, TokenHasUser, AccountsTypeOK
<1>7. now \in Nat /\ issued \subseteq issued' BY <1>1, AccountsAssumption DEF AccountsInv, AccountsTypeOK
<1>8. request' \in [Requests -> [pc : {"idle", "ready", "token"}, kind : Kinds,
                                 user : issued' \cup {None}, stamp : Nat]]
  <2>1. request \in [Requests -> [pc : {"idle", "ready", "token"}, kind : Kinds,
                                  user : issued' \cup {None}, stamp : Nat]]
    BY <1>7 DEF AccountsInv, AccountsTypeOK
  <2>2. id \in issued' BY <1>1
  <2>3. QED BY <1>1, <1>7, <2>1, <2>2, TokenDue
<1>9. tokens' \subseteq [user : issued', expires : 0..(now' + Ttl)] BY <1>7 DEF AccountsInv, AccountsTypeOK
<1>10. AccountsTypeOK' BY <1>1, <1>2, <1>3, <1>8, <1>9 DEF AccountsInv, AccountsTypeOK
<1>11. QED BY <1>1, <1>2, <1>3, <1>4, <1>6, <1>10 DEF AccountsInv

(* One step of one request.  Beside the invariant: no id comes back, and what  *)
(* a member's row said it still says.                                          *)
Faithful ==
  /\ issued \cap Accounts' \subseteq Accounts
  /\ \A i \in Accounts \cap Accounts' :
       users[i].kind = "member" => users'[i].kind = "member" /\ users'[i].email = users[i].email

LEMMA StepKeeps ==
  ASSUME AccountsInv, NEW r \in Requests,
         \/ Arrive(r) \/ CreateGuest(r) \/ SignUp(r) \/ LogIn(r)
         \/ MakeToken(r) \/ UpdateMe(r) \/ DeleteMe(r)
  PROVE  AccountsInv' /\ Faithful
<1> DEFINE Record == [pc : {"idle", "ready", "token"}, kind : Kinds, user : issued \cup {None}, stamp : Nat]
<1>1. /\ users \in [Accounts -> Rows] /\ Accounts \subseteq issued /\ issued \subseteq Ids
      /\ request \in [Requests -> Record] /\ now \in Nat
      /\ tokens \subseteq [user : issued, expires : 0..(now + Ttl)]
  BY AccountsAssumption DEF AccountsInv, AccountsTypeOK
<1>2. ASSUME NEW q \in Record, q.pc # "token", request' = [request EXCEPT ![r] = q],
             UNCHANGED <<now, users, tokens, issued>>
      PROVE  AccountsInv' /\ Faithful
  <2>1. request' \in [Requests -> Record] BY <1>1, <1>2
  <2>2. \A s \in Requests : request'[s].pc = "token" => request'[s].user # None
    BY <1>1, <1>2 DEF AccountsInv, TokenHasUser
  <2>3. AccountsInv' BY <1>1, <1>2, <2>1, <2>2, RequestsKeep
  <2>4. Faithful BY <1>2 DEF Faithful, Accounts
  <2>5. QED BY <2>3, <2>4
<1>3. Idle \in Record /\ Idle.pc # "token" BY DEF Idle, Kinds
<1>4. ASSUME NEW id \in issued, UNCHANGED <<now, users, tokens, issued>>,
             request' = [request EXCEPT ![r].pc = "token", ![r].user = id, ![r].stamp = now]
      PROVE  AccountsInv' /\ Faithful
  <2>1. id # None BY <1>1, AccountsAssumption
  <2>2. request' \in [Requests -> Record] BY <1>1, <1>4, TokenDue
  <2>3. \A s \in Requests : request'[s].pc = "token" => request'[s].user # None
    BY <1>1, <1>4, <2>1 DEF AccountsInv, TokenHasUser
  <2>4. AccountsInv' BY <1>1, <1>4, <2>2, <2>3, RequestsKeep
  <2>5. Faithful BY <1>4 DEF Faithful, Accounts
  <2>6. QED BY <2>4, <2>5
<1>5. CASE Arrive(r)
  <2>1. ASSUME NEW kind \in {"guest", "signup", "login"},
               request' = [request EXCEPT ![r] = [pc |-> "ready", kind |-> kind, user |-> None, stamp |-> 0]]
        PROVE  AccountsInv' /\ Faithful
    BY <1>2, <1>5, <2>1 DEF Arrive, Kinds
  <2>2. ASSUME NEW token \in tokens, NEW kind \in {"signup", "update", "leave"},
               request' = [request EXCEPT ![r] =
                 [pc |-> "ready", kind |-> kind, stamp |-> 0,
                  user |-> IF kind = "signup" /\ users[token.user].kind = "member" THEN None ELSE token.user]]
        PROVE  AccountsInv' /\ Faithful
    <3> DEFINE q == [pc |-> "ready", kind |-> kind, stamp |-> 0,
                     user |-> IF kind = "signup" /\ users[token.user].kind = "member" THEN None ELSE token.user]
    <3>1. token.user \in issued BY <1>1
    <3>2. q \in Record /\ q.pc # "token" BY <3>1 DEF Kinds
    <3>3. request' = [request EXCEPT ![r] = q] BY <2>2
    <3> HIDE DEF q
    <3>4. QED BY <1>2, <1>5, <3>2, <3>3 DEF Arrive
  <2>3. QED BY <1>5, <2>1, <2>2 DEF Arrive
<1>6. CASE CreateGuest(r)
  <2> DEFINE row == [kind |-> "guest", email |-> None, created |-> now]
  <2>1. row \in Rows BY <1>1 DEF Rows
  <2>2. AccountsInv' /\ issued \cap Accounts' \subseteq Accounts
        /\ \A i \in Accounts : i \in Accounts' => users'[i] = users[i]
    BY <1>6, <2>1, InsertKeeps DEF CreateGuest
  <2>3. QED BY <2>2 DEF Faithful
<1>7. CASE SignUp(r)
  <2>1. PICK email \in Emails :
          IF Refused(email) THEN Finish(r) /\ UNCHANGED <<users, issued>>
          ELSE IF request[r].user # None /\ CanUpgrade(request[r].user)
          THEN /\ users' = Put(request[r].user, [kind |-> "member", email |-> email,
                                                 created |-> CreatedAt(request[r].user)])
               /\ request' = [request EXCEPT ![r].pc = "token", ![r].stamp = now]
               /\ UNCHANGED issued
          ELSE Insert(r, [kind |-> "member", email |-> email, created |-> now])
    BY <1>7 DEF SignUp
  <2>2. UNCHANGED <<now, tokens>> /\ email # None BY <1>7, AccountsAssumption DEF SignUp
  <2>3. CASE Refused(email) BY <1>2, <1>3, <2>1, <2>2, <2>3 DEF Finish
  <2>4. CASE ~Refused(email) /\ request[r].user # None /\ CanUpgrade(request[r].user)
    <3> DEFINE id == request[r].user
               row == [kind |-> "member", email |-> email, created |-> CreatedAt(id)]
    <3>1. id \in Accounts /\ users[id].kind = "guest" BY <2>4 DEF CanUpgrade
    <3>2. row \in Rows BY <1>1, <3>1 DEF Rows, CreatedAt
    <3>3. users' = Put(id, row) /\ UNCHANGED issued
          /\ request' = [request EXCEPT ![r].pc = "token", ![r].stamp = now]
      BY <2>1, <2>4
    <3>4. row.kind # "guest" /\ row.email # None /\ ~Taken(row.email) BY <2>2, <2>4 DEF Refused
    <3> HIDE DEF row
    <3>5. OneAccountPerEmail' BY <1>1, <3>2, <3>3, <3>4, PuttingKeeps DEF AccountsInv
    <3>6. /\ Accounts' = Accounts /\ users' \in [Accounts' -> Rows]
          /\ \A i \in Accounts \ {id} : users'[i] = users[i]
      BY <1>1, <3>1, <3>2, <3>3, PutIs
    <3>7. request' \in [Requests -> Record] BY <1>1, <3>3
    <3>8. TokenHasUser' BY <1>1, <2>4, <3>3 DEF AccountsInv, TokenHasUser
    <3>9. AccountsTypeOK' BY <1>1, <2>2, <3>3, <3>6, <3>7 DEF AccountsInv, AccountsTypeOK
    <3>10. Faithful BY <3>1, <3>6 DEF Faithful
    <3>11. QED BY <3>5, <3>8, <3>9, <3>10 DEF AccountsInv
  <2>5. CASE ~Refused(email) /\ ~(request[r].user # None /\ CanUpgrade(request[r].user))
    <3> DEFINE row == [kind |-> "member", email |-> email, created |-> now]
    <3>1. row \in Rows BY <1>1 DEF Rows
    <3>2. Insert(r, row) BY <2>1, <2>5
    <3>3. row.kind # "guest" /\ row.email # None /\ ~Taken(row.email) BY <2>2, <2>5 DEF Refused
    <3> HIDE DEF row
    <3>4. AccountsInv' /\ issued \cap Accounts' \subseteq Accounts
          /\ \A i \in Accounts : i \in Accounts' => users'[i] = users[i]
      BY <2>2, <3>1, <3>2, <3>3, InsertKeeps
    <3>5. QED BY <3>4 DEF Faithful
  <2>6. QED BY <2>3, <2>4, <2>5
<1>8. CASE LogIn(r)
  <2>1. CASE Finish(r) BY <1>2, <1>3, <1>8, <2>1 DEF LogIn, Finish
  <2>2. ASSUME NEW id \in Accounts,
               request' = [request EXCEPT ![r].pc = "token", ![r].user = id, ![r].stamp = now]
        PROVE  AccountsInv' /\ Faithful
    BY <1>1, <1>4, <1>8, <2>2 DEF LogIn
  <2>3. QED BY <1>8, <2>1, <2>2 DEF LogIn
<1>9. CASE MakeToken(r)
  <2>1. request' \in [Requests -> Record] BY <1>1, <1>3, <1>9 DEF MakeToken, Finish
  <2>2. \A s \in Requests : request'[s].pc = "token" => request'[s].user # None
    BY <1>1, <1>3, <1>9 DEF MakeToken, Finish, AccountsInv, TokenHasUser
  <2>3. request[r].user \in issued BY <1>1, <1>9 DEF MakeToken, AccountsInv, TokenHasUser
  <2>4. Expiry \in 0..(now + Ttl) BY <1>1, AccountsAssumption DEF Expiry
  <2>5. tokens' \subseteq [user : issued, expires : 0..(now + Ttl)] BY <1>1, <1>9, <2>3, <2>4 DEF MakeToken
  <2>6. UNCHANGED <<now, users, issued>> BY <1>9 DEF MakeToken
  <2>7. AccountsInv' BY <2>1, <2>2, <2>5, <2>6, RequestsKeep
  <2>8. Faithful BY <2>6 DEF Faithful, Accounts
  <2>9. QED BY <2>7, <2>8
<1>10. CASE UpdateMe(r) BY <1>2, <1>3, <1>10 DEF UpdateMe, Finish
<1>11. CASE DeleteMe(r)
  <2>1. users' = Drop({request[r].user}) /\ UNCHANGED <<now, tokens, issued>>
        /\ request' = [request EXCEPT ![r] = Idle]
    BY <1>11 DEF DeleteMe, Finish
  <2>2. /\ Accounts' \subseteq Accounts /\ users' \in [Accounts' -> Rows]
        /\ \A i \in Accounts' : users'[i] = users[i]
    BY <1>1, <2>1, DropIs
  <2>3. OneAccountPerEmail' BY <2>2, DroppingKeeps DEF AccountsInv
  <2>4. TokenHasUser' BY <1>1, <1>3, <2>1 DEF AccountsInv, TokenHasUser
  <2>5. request' \in [Requests -> Record] BY <1>1, <1>3, <2>1
  <2>6. AccountsTypeOK' BY <1>1, <2>1, <2>2, <2>5 DEF AccountsInv, AccountsTypeOK
  <2>7. QED BY <2>2, <2>3, <2>4, <2>6 DEF AccountsInv, Faithful
<1>12. QED BY <1>5, <1>6, <1>7, <1>8, <1>9, <1>10, <1>11

LEMMA NextKeeps ==
  ASSUME AccountsInv, [AccountsNext]_accountsVars
  PROVE  AccountsInv' /\ Faithful
<1>1. CASE \E r \in Requests : \/ Arrive(r) \/ CreateGuest(r) \/ SignUp(r) \/ LogIn(r)
                               \/ MakeToken(r) \/ UpdateMe(r) \/ DeleteMe(r)
  BY <1>1, StepKeeps
<1>2. CASE Restart
  <2>1. PICK old \in SUBSET Accounts : users' = Drop(old) BY <1>2 DEF Restart
  <2>2. /\ Accounts' \subseteq Accounts /\ users' \in [Accounts' -> Rows]
        /\ \A i \in Accounts' : users'[i] = users[i]
    BY <2>1, DropIs DEF AccountsInv, AccountsTypeOK
  <2>3. OneAccountPerEmail' BY <2>2, DroppingKeeps DEF AccountsInv
  <2>4. request' = [r \in Requests |-> Idle] /\ UNCHANGED <<now, issued>> /\ tokens' \subseteq tokens
    BY <1>2 DEF Restart
  <2>5. TokenHasUser' BY <2>4 DEF TokenHasUser, Idle
  <2>6. AccountsTypeOK' BY <2>2, <2>4 DEF AccountsInv, AccountsTypeOK, Idle, Kinds
  <2>7. QED BY <2>2, <2>3, <2>5, <2>6 DEF AccountsInv, Faithful
<1>3. CASE Second
  <2>1. UNCHANGED <<users, tokens, request, issued>> /\ now' = now + 1 /\ now < MaxTime
    BY <1>3 DEF Second
  <2>2. Accounts' = Accounts BY <2>1 DEF Accounts
  <2>3. AccountsTypeOK'
    <3>1. now' \in 0..MaxTime /\ now + Ttl \in Nat /\ 0..(now + Ttl) \subseteq 0..(now' + Ttl)
      BY <2>1, AccountsAssumption DEF AccountsInv, AccountsTypeOK
    <3>2. QED BY <2>1, <2>2, <3>1 DEF AccountsInv, AccountsTypeOK
  <2>4. OneAccountPerEmail' /\ TokenHasUser' BY <2>1, <2>2 DEF AccountsInv, OneAccountPerEmail, TokenHasUser
  <2>5. QED BY <2>1, <2>2, <2>3, <2>4 DEF AccountsInv, Faithful
<1>4. CASE UNCHANGED accountsVars
  <2>1. UNCHANGED <<now, users, tokens, request, issued>> BY <1>4 DEF accountsVars
  <2>2. Accounts' = Accounts BY <2>1 DEF Accounts
  <2>3. QED BY <2>1, <2>2 DEF AccountsInv, AccountsTypeOK, OneAccountPerEmail, TokenHasUser, Faithful
<1>5. QED BY <1>1, <1>2, <1>3, <1>4 DEF AccountsNext

LEMMA SpecAccountsInv == AccountsSpec => []AccountsInv
<1>1. AccountsInv /\ [AccountsNext]_accountsVars => AccountsInv' BY NextKeeps
<1>2. QED BY <1>1, InitAccountsInv, PTL DEF AccountsSpec

(* Rows, tokens and requests are what the routes take them for; in particular  *)
(* a token is always for an account that was once there.                       *)
THEOREM AccountsTypes == AccountsSpec => []AccountsTypeOK
<1>1. AccountsInv => AccountsTypeOK BY DEF AccountsInv
<1>2. QED BY <1>1, SpecAccountsInv, PTL

(* auth.sign_up: however many sign-ups and upgrades of guests race, an email   *)
(* belongs to one account.                                                     *)
THEOREM EmailsAreUnique == AccountsSpec => []OneAccountPerEmail
<1>1. AccountsInv => OneAccountPerEmail BY DEF AccountsInv
<1>2. QED BY <1>1, SpecAccountsInv, PTL

(* No sign-up, restart or deletion of another changes whose a member's account *)
(* is.                                                                         *)
THEOREM NobodyTakesOver == AccountsSpec => MembersKeepTheirAccount
<1>1. AccountsInv /\ [AccountsNext]_accountsVars =>
        [\A id \in Accounts \cap DOMAIN users' :
           users[id].kind = "member" => users'[id].kind = "member" /\ users'[id].email = users[id].email]_accountsVars
  BY NextKeeps DEF Faithful, Accounts
<1>2. QED BY <1>1, SpecAccountsInv, PTL DEF AccountsSpec, MembersKeepTheirAccount

(* A deleted account's id never names an account again.                        *)
THEOREM NobodyComesBack == AccountsSpec => DeletedStaysDeleted
<1>1. AccountsInv /\ [AccountsNext]_accountsVars => [issued \cap DOMAIN users' \subseteq Accounts]_accountsVars
  BY NextKeeps DEF Faithful, Accounts
<1>2. QED BY <1>1, SpecAccountsInv, PTL DEF AccountsSpec, DeletedStaysDeleted

(* The life of a guest's token: it is made at most Dawdle after the row was    *)
(* stamped, by the request that stamped it, and nobody makes it another.       *)
GuestIs(id) == id \in Accounts /\ users[id].kind = "guest"

Punctual ==
  /\ \A r \in Requests : request[r].pc = "token" =>
       /\ now <= request[r].stamp + Dawdle
       /\ GuestIs(request[r].user) => request[r].stamp = users[request[r].user].created
  /\ \A t \in tokens : GuestIs(t.user) => t.expires <= users[t.user].created + Ttl + Dawdle
  /\ PrunedAreDead

(* Of the ids there were, those that are a guest's now were so before, with    *)
(* the same row.                                                               *)
GuestsStay == \A id \in issued : GuestIs(id)' => GuestIs(id) /\ users'[id] = users[id]

LEMMA TokensKeep ==
  ASSUME AccountsInv, Punctual, GuestsStay, NEW t \in tokens, GuestIs(t.user)'
  PROVE  t.expires <= users'[t.user].created + Ttl + Dawdle
<1>1. t.user \in issued BY DEF AccountsInv, AccountsTypeOK
<1>2. GuestIs(t.user) /\ users'[t.user] = users[t.user] BY <1>1 DEF GuestsStay
<1>3. QED BY <1>2 DEF Punctual

LEMMA DueKeeps ==
  ASSUME AccountsInv, Punctual, GuestsStay, now' = now,
         NEW s \in Requests, request'[s] = request[s], request'[s].pc = "token"
  PROVE  /\ now' <= request'[s].stamp + Dawdle
         /\ GuestIs(request[s].user)' => request'[s].stamp = users'[request'[s].user].created
<1>1. request[s].user \in issued BY DEF AccountsInv, AccountsTypeOK, TokenHasUser
<1>2. ASSUME GuestIs(request[s].user)' PROVE GuestIs(request[s].user) /\ users'[request[s].user] = users[request[s].user]
  <2>1. \A id \in issued : GuestIs(id)' => GuestIs(id) /\ users'[id] = users[id] BY DEF GuestsStay
  <2>2. GuestIs(request[s].user)' => request'[s].user \in Accounts' /\ users'[request'[s].user].kind = "guest"
    BY DEF GuestIs, Accounts
  <2>3. (request[s].user)' = request[s].user OBVIOUS
  <2>4. QED BY <1>1, <1>2, <2>1, <2>2, <2>3 DEF GuestIs
<1>3. QED BY <1>2 DEF Punctual

(* A step at which the clock stands still: who is due a token was due it       *)
(* before, or is due it from now on for a row stamped now; no token is made.   *)
LEMMA StillPunctual ==
  ASSUME AccountsInv, Punctual, GuestsStay, UNCHANGED <<now, pruned>>, tokens' \subseteq tokens,
         \A s \in Requests : request'[s].pc = "token" =>
           \/ request'[s] = request[s]
           \/ /\ request'[s].stamp = now
              /\ GuestIs(request[s].user)' => users'[request'[s].user].created = now
  PROVE  Punctual'
<1>1. ASSUME NEW t \in tokens', GuestIs(t.user)'
      PROVE  t.expires <= users'[t.user].created + Ttl + Dawdle
  BY <1>1, TokensKeep
<1>2. now \in Nat /\ Dawdle \in Nat BY AccountsAssumption DEF AccountsInv, AccountsTypeOK
<1>3. ASSUME NEW s \in Requests, request'[s].pc = "token"
      PROVE  /\ now' <= request'[s].stamp + Dawdle
             /\ GuestIs(request[s].user)' => request'[s].stamp = users'[request'[s].user].created
  <2>1. CASE request'[s] = request[s] BY <1>3, <2>1, DueKeeps
  <2>2. CASE request'[s] # request[s] BY <1>2, <1>3, <2>2
  <2>3. QED BY <2>1, <2>2
<1>4. PrunedAreDead' BY DEF Punctual, PrunedAreDead
<1>5. QED BY <1>1, <1>3, <1>4 DEF Punctual

LEMMA SameGuests ==
  ASSUME UNCHANGED users
  PROVE  GuestsStay
BY DEF GuestsStay, GuestIs, Accounts

LEMMA FewerGuests ==
  ASSUME AccountsInv, NEW ids, users' = Drop(ids)
  PROVE  GuestsStay
<1>1. Accounts' \subseteq Accounts /\ \A i \in Accounts' : users'[i] = users[i]
  BY DropIs DEF AccountsInv, AccountsTypeOK
<1>2. QED BY <1>1 DEF GuestsStay, GuestIs

(* A row is put in that is a member's, or under a new id.                      *)
LEMMA PutGuests ==
  ASSUME AccountsInv, NEW id, NEW row \in Rows, users' = Put(id, row), id \notin issued \/ row.kind = "member"
  PROVE  GuestsStay
<1>1. /\ Accounts' = Accounts \cup {id} /\ users'[id] = row
      /\ \A i \in Accounts \ {id} : users'[i] = users[i]
  BY PutIs DEF AccountsInv, AccountsTypeOK
<1>2. QED BY <1>1 DEF GuestsStay, GuestIs

LEMMA InsertPunctual ==
  ASSUME AccountsInv, Punctual, NEW r \in Requests, NEW row \in Rows, row.created = now, Insert(r, row),
         UNCHANGED <<now, tokens, pruned>>
  PROVE  Punctual'
<1>1. PICK id \in Ids \ issued :
        /\ users' = Put(id, row)
        /\ request' = [request EXCEPT ![r].pc = "token", ![r].user = id, ![r].stamp = now]
  BY DEF Insert
<1>2. GuestsStay BY <1>1, PutGuests
<1>3. users'[id] = row BY <1>1, PutIs DEF AccountsInv, AccountsTypeOK
<1>4. ASSUME NEW s \in Requests
      PROVE  \/ request'[s] = request[s]
             \/ request'[s].stamp = now /\ request'[s].user = id
  BY <1>1 DEF AccountsInv, AccountsTypeOK
<1>5. \A s \in Requests : \/ request'[s] = request[s]
                          \/ request'[s].stamp = now /\ users'[request'[s].user].created = now
  BY <1>3, <1>4
<1>6. QED BY <1>2, <1>5, StillPunctual

LEMMA StepPunctual ==
  ASSUME AccountsInv, Punctual, NEW r \in Requests,
         \/ Arrive(r) \/ CreateGuest(r) \/ SignUp(r) \/ LogIn(r)
         \/ MakeToken(r) \/ UpdateMe(r) \/ DeleteMe(r)
  PROVE  Punctual'
<1>1. /\ users \in [Accounts -> Rows] /\ now \in Nat
      /\ request \in [Requests -> [pc : {"idle", "ready", "token"}, kind : Kinds,
                                   user : issued \cup {None}, stamp : Nat]]
  BY AccountsAssumption DEF AccountsInv, AccountsTypeOK
(* The request is owed no token. *)
<1>2. ASSUME NEW q, q.pc # "token", request' = [request EXCEPT ![r] = q], UNCHANGED <<now, tokens, pruned>>, GuestsStay
      PROVE  Punctual'
  <2>1. \A s \in Requests : request'[s].pc = "token" => request'[s] = request[s] BY <1>1, <1>2
  <2>2. QED BY <1>2, <2>1, StillPunctual
<1>3. Idle.pc # "token" BY DEF Idle
(* One is owed a token, for a member's account. *)
<1>4. ASSUME UNCHANGED <<now, tokens, pruned>>, GuestsStay,
             \A s \in Requests : \/ request'[s] = request[s]
                                \/ /\ request'[s].stamp = now
                                   /\ users'[request'[s].user].kind = "member"
      PROVE  Punctual'
  <2>1. \A s \in Requests : users'[request'[s].user].kind = "member" => ~GuestIs(request[s].user)' BY DEF GuestIs
  <2>2. QED BY <1>4, <2>1, StillPunctual
<1>5. CASE Arrive(r)
  <2>1. PICK q : q.pc = "ready" /\ request' = [request EXCEPT ![r] = q]
    <3>1. \/ \E kind \in {"guest", "signup", "login"} :
               request' = [request EXCEPT ![r] = [pc |-> "ready", kind |-> kind, user |-> None, stamp |-> 0]]
          \/ \E token \in tokens, kind \in {"signup", "update", "leave"} :
               request' = [request EXCEPT ![r] =
                 [pc |-> "ready", kind |-> kind, stamp |-> 0,
                  user |-> IF kind = "signup" /\ users[token.user].kind = "member" THEN None ELSE token.user]]
      BY <1>5 DEF Arrive
    <3>2. \A kind, user : [pc |-> "ready", kind |-> kind, user |-> user, stamp |-> 0].pc = "ready" OBVIOUS
    <3>3. \A kind, user : [pc |-> "ready", kind |-> kind, stamp |-> 0, user |-> user].pc = "ready" OBVIOUS
    <3>4. QED BY <3>1, <3>2, <3>3, Zenon
  <2>2. UNCHANGED <<now, users, tokens, pruned>> BY <1>5 DEF Arrive
  <2>3. QED BY <1>2, <2>1, <2>2, SameGuests
<1>6. CASE CreateGuest(r)
  <2> DEFINE row == [kind |-> "guest", email |-> None, created |-> now]
  <2>1. row \in Rows /\ row.created = now BY <1>1 DEF Rows
  <2>2. QED BY <1>6, <2>1, InsertPunctual DEF CreateGuest
<1>7. CASE SignUp(r)
  <2>1. PICK email \in Emails :
          IF Refused(email) THEN Finish(r) /\ UNCHANGED <<users, issued>>
          ELSE IF request[r].user # None /\ CanUpgrade(request[r].user)
          THEN /\ users' = Put(request[r].user, [kind |-> "member", email |-> email,
                                                 created |-> CreatedAt(request[r].user)])
               /\ request' = [request EXCEPT ![r].pc = "token", ![r].stamp = now]
               /\ UNCHANGED issued
          ELSE Insert(r, [kind |-> "member", email |-> email, created |-> now])
    BY <1>7 DEF SignUp
  <2>2. UNCHANGED <<now, tokens, pruned>> BY <1>7 DEF SignUp
  <2>3. CASE Refused(email) BY <1>2, <1>3, <2>1, <2>2, <2>3, SameGuests DEF Finish
  <2>4. CASE ~Refused(email) /\ request[r].user # None /\ CanUpgrade(request[r].user)
    <3> DEFINE id == request[r].user
               row == [kind |-> "member", email |-> email, created |-> CreatedAt(id)]
    <3>1. id \in Accounts BY <2>4 DEF CanUpgrade
    <3>2. row \in Rows /\ row.kind = "member" BY <1>1, <3>1 DEF Rows, CreatedAt
    <3>3. users' = Put(id, row) /\ request' = [request EXCEPT ![r].pc = "token", ![r].stamp = now] BY <2>1, <2>4
    <3> HIDE DEF row
    <3>4. GuestsStay BY <3>2, <3>3, PutGuests
    <3>5. users'[id] = row BY <1>1, <3>2, <3>3, PutIs
    <3>6. \A s \in Requests : \/ request'[s] = request[s]
                              \/ request'[s].stamp = now /\ request'[s].user = id
      BY <1>1, <3>3
    <3>7. \A s \in Requests : \/ request'[s] = request[s]
                              \/ request'[s].stamp = now /\ users'[request'[s].user].kind = "member"
      BY <3>2, <3>5, <3>6
    <3>8. QED BY <1>4, <2>2, <3>4, <3>7
  <2>5. CASE ~Refused(email) /\ ~(request[r].user # None /\ CanUpgrade(request[r].user))
    <3> DEFINE row == [kind |-> "member", email |-> email, created |-> now]
    <3>1. row \in Rows /\ row.created = now BY <1>1 DEF Rows
    <3>2. Insert(r, row) BY <2>1, <2>5
    <3>3. QED BY <2>2, <3>1, <3>2, InsertPunctual
  <2>6. QED BY <2>3, <2>4, <2>5
<1>8. CASE LogIn(r)
  <2>1. UNCHANGED <<now, users, tokens, pruned>> BY <1>8 DEF LogIn
  <2>2. CASE Finish(r) BY <1>2, <1>3, <2>1, <2>2, SameGuests DEF Finish
  <2>3. ASSUME NEW id \in Accounts, users[id].kind = "member",
               request' = [request EXCEPT ![r].pc = "token", ![r].user = id, ![r].stamp = now]
        PROVE  Punctual'
    <3>1. \A s \in Requests : \/ request'[s] = request[s]
                              \/ request'[s].stamp = now /\ request'[s].user = id
      BY <1>1, <2>3
    <3>2. \A s \in Requests : \/ request'[s] = request[s]
                              \/ request'[s].stamp = now /\ users'[request'[s].user].kind = "member"
      BY <2>1, <2>3, <3>1
    <3>3. QED BY <1>4, <2>1, <3>2, SameGuests
  <2>4. QED BY <1>8, <2>2, <2>3 DEF LogIn
<1>9. CASE MakeToken(r)
  <2>1. /\ UNCHANGED <<now, users, pruned>> /\ request' = [request EXCEPT ![r] = Idle]
        /\ tokens' = tokens \cup {[user |-> request[r].user, expires |-> Expiry]}
        /\ request[r].pc = "token"
    BY <1>9 DEF MakeToken, Finish
  <2>2. GuestsStay BY <2>1, SameGuests
  <2>3. ASSUME NEW t \in tokens', GuestIs(t.user)'
        PROVE  t.expires <= users'[t.user].created + Ttl + Dawdle
    <3>1. CASE t \in tokens BY <2>2, <2>3, <3>1, TokensKeep
    <3>2. CASE t = [user |-> request[r].user, expires |-> Expiry]
      <4>1. GuestIs(request[r].user) BY <2>1, <2>3, <3>2 DEF GuestIs, Accounts
      <4>2. now <= request[r].stamp + Dawdle /\ request[r].stamp = users[request[r].user].created
        BY <2>1, <4>1 DEF Punctual
      <4>3. request[r].stamp \in Nat BY <1>1
      <4>4. t.user = request[r].user /\ t.expires = now + Ttl BY <3>2 DEF Expiry
      <4>5. users' = users BY <2>1
      <4>6. QED BY <1>1, <4>2, <4>3, <4>4, <4>5, AccountsAssumption
    <3>3. QED BY <2>1, <3>1, <3>2
  <2>4. ASSUME NEW s \in Requests, request'[s].pc = "token"
        PROVE  /\ now' <= request'[s].stamp + Dawdle
               /\ GuestIs(request[s].user)' => request'[s].stamp = users'[request'[s].user].created
    <3>1. request'[s] = request[s] BY <1>1, <1>3, <2>1, <2>4
    <3>2. QED BY <2>1, <2>2, <2>4, <3>1, DueKeeps
  <2>5. PrunedAreDead' BY <2>1 DEF Punctual, PrunedAreDead
  <2>6. QED BY <2>3, <2>4, <2>5 DEF Punctual
<1>10. CASE UpdateMe(r) BY <1>2, <1>3, <1>10, SameGuests DEF UpdateMe, Finish
<1>11. CASE DeleteMe(r)
  <2>1. users' = Drop({request[r].user}) /\ UNCHANGED <<now, tokens, pruned>>
        /\ request' = [request EXCEPT ![r] = Idle]
    BY <1>11 DEF DeleteMe, Finish
  <2>2. QED BY <1>2, <1>3, <2>1, FewerGuests
<1>12. QED BY <1>5, <1>6, <1>7, <1>8, <1>9, <1>10, <1>11

LEMMA RestartPunctual ==
  ASSUME AccountsInv, Punctual, Restart
  PROVE  Punctual'
<1> DEFINE old == {id \in Accounts : OutOfTime(users[id])}
<1>1. /\ tokens' \subseteq tokens /\ users' = Drop(old) /\ request' = [r \in Requests |-> Idle] /\ now' = now
      /\ pruned' = pruned \cup {[user |-> t.user, left |-> t.expires - now] :
                                   t \in {t \in tokens : t.user \in old /\ Live(t)}}
  BY DEF Restart
<1>2. now \in Nat /\ users \in [Accounts -> Rows] /\ tokens \subseteq [user : issued, expires : 0..(now + Ttl)]
      /\ Ttl \in Nat /\ Dawdle \in Nat
  BY AccountsAssumption DEF AccountsInv, AccountsTypeOK
<1>3. GuestsStay BY <1>1, FewerGuests
<1>4. \A t \in tokens' : GuestIs(t.user)' => t.expires <= users'[t.user].created + Ttl + Dawdle
  BY <1>1, <1>3, TokensKeep
<1>5. \A s \in Requests : request'[s].pc # "token" BY <1>1 DEF Idle
<1>6. ASSUME NEW t \in tokens, t.user \in old
      PROVE  t.expires - now < Dawdle
  <2>1. t.user \in Accounts /\ OutOfTime(users[t.user]) BY <1>6
  <2>2. GuestIs(t.user) /\ users[t.user].created < now - Ttl BY <2>1 DEF OutOfTime, GuestIs
  <2>3. t.expires <= users[t.user].created + Ttl + Dawdle BY <2>2 DEF Punctual
  <2>4. users[t.user].created \in Nat BY <1>2, <2>1 DEF Rows
  <2>5. t.expires \in Int BY <1>2
  <2>6. QED BY <1>2, <2>2, <2>3, <2>4, <2>5
<1>7. PrunedAreDead'
  <2> SUFFICES ASSUME NEW p \in pruned' PROVE p.left < Dawdle BY DEF PrunedAreDead
  <2>1. CASE p \in pruned BY <2>1 DEF Punctual, PrunedAreDead
  <2>2. ASSUME NEW t \in tokens, t.user \in old, p = [user |-> t.user, left |-> t.expires - now]
        PROVE  p.left < Dawdle
    BY <1>6, <2>2
  <2>3. QED BY <1>1, <2>1, <2>2
<1>8. QED BY <1>4, <1>5, <1>7 DEF Punctual

LEMMA SecondPunctual ==
  ASSUME AccountsInv, Punctual, Second
  PROVE  Punctual'
<1>1. /\ UNCHANGED <<users, tokens, request, pruned>> /\ now' = now + 1
      /\ \A r \in Requests : request[r].pc = "token" => now < request[r].stamp + Dawdle
  BY DEF Second
<1>2. now \in Nat /\ Dawdle \in Nat /\ \A r \in Requests : request[r].stamp \in Nat
  BY AccountsAssumption DEF AccountsInv, AccountsTypeOK
<1>3. \A r \in Requests : request[r].pc = "token" => now' <= request[r].stamp + Dawdle BY <1>1, <1>2
<1>4. PrunedAreDead' BY <1>1 DEF Punctual, PrunedAreDead
<1>5. \A id : GuestIs(id)' <=> GuestIs(id) BY <1>1 DEF GuestIs, Accounts
<1>6. QED BY <1>1, <1>3, <1>4, <1>5 DEF Punctual, GuestIs, Accounts

(* "Drop guests whose token can no longer be live" (prune_guests): a guest who *)
(* is dropped when the process starts has no token left that is good for       *)
(* longer than making it had taken, whatever sign-ups, deletions and restarts  *)
(* came between.                                                               *)
THEOREM PruningIsSafe == AccountsSpec => []PrunedAreDead
<1>1. AccountsInit => Punctual
  BY DEF AccountsInit, Punctual, PrunedAreDead, Idle
<1>2. AccountsInv /\ Punctual /\ [AccountsNext]_accountsVars => Punctual'
  <2> SUFFICES ASSUME AccountsInv, Punctual, [AccountsNext]_accountsVars PROVE Punctual' OBVIOUS
  <2>1. ASSUME NEW r \in Requests, \/ Arrive(r) \/ CreateGuest(r) \/ SignUp(r) \/ LogIn(r)
                                   \/ MakeToken(r) \/ UpdateMe(r) \/ DeleteMe(r)
        PROVE  Punctual'
    BY <2>1, StepPunctual
  <2>2. CASE Restart BY <2>2, RestartPunctual
  <2>3. CASE Second BY <2>3, SecondPunctual
  <2>4. CASE UNCHANGED accountsVars
    <3>1. UNCHANGED <<now, users, tokens, request, pruned>> BY <2>4 DEF accountsVars
    <3>2. GuestsStay BY <3>1, SameGuests
    <3>3. QED BY <3>1, <3>2, StillPunctual
  <2>5. QED BY <2>1, <2>2, <2>3, <2>4 DEF AccountsNext
<1>3. Punctual => PrunedAreDead BY DEF Punctual
<1>4. QED BY <1>1, <1>2, <1>3, SpecAccountsInv, PTL DEF AccountsSpec


----------------------------------------------------------------------------
(* The MCP server.                                                            *)

Places == Tools \cup {"idle", "message", "arguments", "answering", "done", "sent"}
AtTool == Tools \cup {"answering"}
UnderWay == AtTool \cup {"message", "arguments"}

(* The message being handled is one of the inbox, a message alone is the only *)
(* one, and what a tool starts with has passed _dispatch and the tool's own    *)
(* checks: this is what makes a bill and an unmasked name rightful.           *)
ToolIsDue(m) ==
  /\ m.call = IF pc = "answering" THEN "ask" ELSE pc
  /\ HasFlag(m) => m.words /\ ~FlagWrong(m)
  /\ NeedsSession(m) => m.session = "mine"

Handling ==
  /\ pc \in UnderWay => at \in 1..Len(inbox)
  /\ pc \in UnderWay /\ ~batch => Len(inbox) = 1
  /\ pc \in AtTool \cup {"arguments"} =>
       ~Current.ill /\ Current.id \in {"own", "null"} /\ Current.call \in Tools
  /\ pc \in AtTool => ToolIsDue(Current)

(* A bill is for the message being answered or for one whose reply is there;  *)
(* nothing is billed before its turn.                                         *)
HasReply(i) == \E k \in 1..Len(replies) : replies[k].to = i /\ replies[k].code \in {"result", "isError"}
Bills ==
  /\ \A i \in billed : HasReply(i) \/ (pc = "answering" /\ i = at) \/ (pc \in {"sent", "idle"} /\ status = 500)
  /\ pc \in UnderWay \ {"answering"} => \A i \in billed : i < at
  /\ pc = "answering" => \A i \in billed : i <= at

(* Who sees a name in a row asked for it; who is told one asked a question.   *)
MayCarry(k) ==
  /\ "person" \in replies[k].shown => /\ replies[k].to \in 1..Len(inbox)
                                      /\ inbox[replies[k].to].flag = "true"
  /\ replies[k].told # {} => /\ replies[k].to \in 1..Len(inbox)
                             /\ inbox[replies[k].to].call = "ask"
Masks == \A k \in 1..Len(replies) : MayCarry(k)

IInv == TypeOK /\ Handling /\ Bills /\ OnlyGoodAsksAreBilled /\ Masks

LEMMA InitIInv == Init => IInv
<1>1. Init => TypeOK
  <2>1. Init => pc \in Places BY DEF Init, Places
  <2>2. Init => inbox \in Seq(Messages) /\ at \in 0..Len(inbox) /\ replies \in Seq(Replied) BY DEF Init
  <2>3. Init => billed \subseteq 1..Len(inbox) BY DEF Init
  <2>4. Init => used \in 0..Allowance /\ untold \in Nat /\ posts \in 0..MaxPosts BY McpAssumption DEF Init
  <2>5. Init => status \in {0, 200, 202, 401, 404, 429, 500} BY DEF Init
  <2>6. Init => batch \in BOOLEAN /\ live \in BOOLEAN BY DEF Init
  <2>7. QED BY <2>1, <2>2, <2>3, <2>4, <2>5, <2>6 DEF TypeOK, Places
<1>2. Init => Handling BY DEF Init, Handling, UnderWay, AtTool, Tools
<1>3. Init => Bills /\ OnlyGoodAsksAreBilled BY DEF Init, Bills, OnlyGoodAsksAreBilled, UnderWay, AtTool, Tools
<1>4. Init => Masks BY DEF Init, Masks, MayCarry
<1>5. QED BY <1>1, <1>2, <1>3, <1>4 DEF IInv

(* A reply is added to those there are.                                       *)
LEMMA Appended ==
  ASSUME NEW r \in Replied, replies \in Seq(Replied), replies' = Append(replies, r)
  PROVE  /\ replies' \in Seq(Replied) /\ Len(replies') = Len(replies) + 1
         /\ \A k \in 1..Len(replies) : replies'[k] = replies[k]
         /\ replies'[Len(replies')] = r
         /\ \A i : HasReply(i) => HasReply(i)'
<1>1. replies' \in Seq(Replied) /\ Len(replies') = Len(replies) + 1 /\ Len(replies) \in Nat
  OBVIOUS
<1>2. \A k \in 1..Len(replies) : replies'[k] = replies[k]
  OBVIOUS
<1>3. replies'[Len(replies')] = r
  OBVIOUS
<1>4. \A i : HasReply(i) => HasReply(i)'
  BY <1>1, <1>2 DEF HasReply
<1>5. QED BY <1>1, <1>2, <1>3, <1>4

(* Every message handled ends in a reply, and the next one is taken.          *)
LEMMA SayingKeeps ==
  ASSUME IInv, pc \in UnderWay, NEW code \in Codes, NEW shown \in SUBSET Columns,
         NEW told \in SUBSET Columns, Say(code, shown, told), UNCHANGED post, UNCHANGED live,
         used' \in 0..Allowance, untold' \in Nat, billed' \subseteq billed,
         pc = "answering" => code \in {"result", "isError"},
         "person" \in shown => Current.flag = "true",
         told # {} => Current.call = "ask"
  PROVE  IInv'
<1> DEFINE r == [to |-> at, id |-> IdOf(Current), code |-> code, shown |-> shown, told |-> told]
<1>1. at \in 1..Len(inbox) /\ inbox \in Seq(Messages) /\ UNCHANGED <<inbox, batch, status, posts>>
  BY DEF IInv, Handling, TypeOK, post
<1>2. r \in Replied /\ replies \in Seq(Replied) /\ replies' = Append(replies, r)
  <2>1. IdOf(Current) \in {"null", "own"} BY DEF IdOf
  <2>2. at \in Nat BY <1>1
  <2>3. r \in Replied BY <2>1, <2>2 DEF Replied
  <2>4. QED BY <2>3 DEF IInv, TypeOK, Say
<1>3. /\ replies' \in Seq(Replied) /\ Len(replies') = Len(replies) + 1
      /\ \A k \in 1..Len(replies) : replies'[k] = replies[k]
      /\ replies'[Len(replies')] = r
      /\ \A i : HasReply(i) => HasReply(i)'
  <2> HIDE DEF r
  <2> QED BY <1>2, Appended
<1>4. /\ at' \in 0..Len(inbox)
      /\ \/ pc' = "message" /\ at' = at + 1 /\ at' \in 1..Len(inbox)
         \/ pc' = "done" /\ at' = at
  BY <1>1 DEF Say, Onward
<1>5. TypeOK'
  BY <1>1, <1>3, <1>4 DEF IInv, TypeOK, Places
<1>6. Handling'
  BY <1>1, <1>4 DEF IInv, Handling, UnderWay, AtTool, Tools
<1>7. Bills'
  <2>1. \A i \in billed : i <= at /\ (HasReply(i)' \/ (pc = "answering" /\ i = at))
    <3>1. \A i \in billed : i \in Nat /\ at \in Nat BY <1>1 DEF IInv, TypeOK
    <3>2. QED BY <1>3, <3>1 DEF IInv, Bills, UnderWay, AtTool, Tools
  <2>2. ASSUME NEW i, pc = "answering", i = at PROVE HasReply(i)'
    <3>1. r.to = i /\ r.code \in {"result", "isError"} BY <2>2
    <3>2. Len(replies') \in 1..Len(replies') BY <1>2, <1>3
    <3> HIDE DEF r
    <3>3. \E k \in 1..Len(replies') : replies'[k].to = i /\ replies'[k].code \in {"result", "isError"}
      BY <1>3, <3>1, <3>2
    <3>4. QED BY <3>3 DEF HasReply
  <2>3. \A i \in billed' : HasReply(i)' /\ i <= at BY <2>1, <2>2
  <2>4. \A i \in billed' : i \in Nat BY DEF IInv, TypeOK
  <2>5. QED BY <1>1, <1>4, <2>3, <2>4 DEF Bills, UnderWay, AtTool, Tools
<1>8. OnlyGoodAsksAreBilled'
  BY <1>1 DEF IInv, OnlyGoodAsksAreBilled
<1>9. Masks'
  <2>1. ASSUME NEW k \in 1..Len(replies) PROVE MayCarry(k)'
    BY <1>1, <1>3, <2>1 DEF IInv, Masks, MayCarry
  <2>2. /\ "person" \in r.shown => r.to \in 1..Len(inbox) /\ inbox[r.to].flag = "true"
        /\ r.told # {} => r.to \in 1..Len(inbox) /\ inbox[r.to].call = "ask"
    BY <1>1 DEF Current
  <2> HIDE DEF r
  <2>3. ASSUME NEW k, k = Len(replies') PROVE MayCarry(k)'
    <3>1. replies'[k] = r BY <1>3, <2>3
    <3>2. QED BY <1>1, <2>2, <3>1 DEF MayCarry
  <2>4. \A k \in 1..Len(replies') : k \in 1..Len(replies) \/ k = Len(replies')
    BY <1>2, <1>3
  <2>5. QED BY <2>1, <2>3, <2>4 DEF Masks
<1>10. QED BY <1>5, <1>6, <1>7, <1>8, <1>9 DEF IInv

LEMMA SayingNothingKeeps ==
  ASSUME IInv, pc \in UnderWay, NEW code \in Codes, Say(code, {}, {}), UNCHANGED post, UNCHANGED live,
         used' \in 0..Allowance, untold' \in Nat, billed' \subseteq billed,
         pc = "answering" => code \in {"result", "isError"}
  PROVE  IInv'
<1> DEFINE Nothing == {}
<1>1. Nothing \in SUBSET Columns /\ "person" \notin Nothing /\ Nothing = {} OBVIOUS
<1>2. Say(code, Nothing, Nothing) OBVIOUS
<1> HIDE DEF Nothing
<1>3. QED BY <1>1, <1>2, SayingKeeps

(* A refusal says nothing that was billed away: a message alone was first.    *)
LEMMA RefusingKeeps ==
  ASSUME IInv, pc \in UnderWay \ {"answering"}, NEW code \in {404, 429}, Refuse(code),
         UNCHANGED live, used' \in 0..Allowance, untold' \in Nat, billed' = billed
  PROVE  IInv'
<1>1. CASE batch
  <2>1. Say("server error", {}, {}) /\ UNCHANGED post BY <1>1 DEF Refuse
  <2>2. QED BY <2>1, SayingNothingKeeps DEF Codes
<1>2. CASE ~batch
  <2>1. RefusalTravels(code) BY <1>2 DEF Refuse
  <2>2. billed = {}
    <3>1. at \in 1..Len(inbox) /\ Len(inbox) = 1 BY <1>2 DEF IInv, Handling
    <3>2. billed \subseteq 1..Len(inbox) /\ \A i \in billed : i < at
      BY DEF IInv, TypeOK, Bills
    <3>3. QED BY <3>1, <3>2
  <2>3. TypeOK'
    BY <2>1 DEF RefusalTravels, IInv, TypeOK, Places
  <2>4. QED BY <2>1, <2>2, <2>3
        DEF RefusalTravels, IInv, Handling, UnderWay, AtTool, Tools, Bills, OnlyGoodAsksAreBilled, Masks, MayCarry
<1>3. QED BY <1>1, <1>2 DEF IInv, TypeOK

(* The post arrives, whole or turned away: nothing is billed, nothing said of *)
(* any row.                                                                   *)
LEMMA AgentKeeps ==
  ASSUME IInv, Agent
  PROVE  IInv'
<1>1. ASSUME NEW code \in {401, 200}, NEW reply \in Seq(Replied), Turned(code, reply),
             \A k \in 1..Len(reply) : reply[k].shown = {} /\ reply[k].told = {}
      PROVE  IInv'
  <2>1. TypeOK'
    <3>1. posts' \in 0..MaxPosts BY <1>1, McpAssumption DEF Turned, IInv, TypeOK
    <3>2. pc' \in Places /\ batch' \in BOOLEAN BY <1>1 DEF Turned, Places
    <3>3. used' \in 0..Allowance /\ live' \in BOOLEAN /\ untold' \in Nat
      BY <1>1 DEF Turned, caller, IInv, TypeOK
    <3>4. /\ inbox' \in Seq(Messages) /\ at' \in 0..Len(inbox') /\ replies' \in Seq(Replied)
          /\ billed' \subseteq 1..Len(inbox') /\ status' \in {0, 200, 202, 401, 404, 429, 500}
      BY <1>1 DEF Turned
    <3>5. QED BY <3>1, <3>2, <3>3, <3>4 DEF TypeOK, Places
  <2>2. Handling' /\ Bills' /\ OnlyGoodAsksAreBilled'
    BY <1>1 DEF Turned, Handling, UnderWay, AtTool, Tools, Bills, OnlyGoodAsksAreBilled
  <2>3. Masks' BY <1>1 DEF Turned, Masks, MayCarry
  <2>4. QED BY <2>1, <2>2, <2>3 DEF IInv
<1>2. ASSUME NEW said \in Codes, Turned(200, <<[to |-> 0, id |-> "null", code |-> said, shown |-> {}, told |-> {}]>>)
      PROVE  IInv'
  <2> DEFINE reply == <<[to |-> 0, id |-> "null", code |-> said, shown |-> {}, told |-> {}]>>
  <2>1. reply \in Seq(Replied) BY DEF Replied
  <2>2. \A k \in 1..Len(reply) : reply[k].shown = {} /\ reply[k].told = {} OBVIOUS
  <2>3. Turned(200, reply) BY <1>2
  <2> HIDE DEF reply
  <2>4. QED BY <1>1, <2>1, <2>2, <2>3
<1>3. CASE Receive
  <2>1. PICK n \in 1..MaxBatch : inbox' \in [1..n -> Messages] BY <1>3 DEF Receive
  <2>2. inbox' \in Seq(Messages) /\ Len(inbox') = n /\ n \in Nat /\ n >= 1
    BY <2>1, McpAssumption
  <2>3. TypeOK'
    <3>1. posts' \in 0..MaxPosts BY <1>3, McpAssumption DEF Receive, IInv, TypeOK
    <3>2. pc' \in Places /\ batch' \in BOOLEAN BY <1>3 DEF Receive, Places
    <3>3. used' \in 0..Allowance /\ live' \in BOOLEAN /\ untold' \in Nat
      BY <1>3 DEF Receive, caller, IInv, TypeOK
    <3>4. /\ at' \in 0..Len(inbox') /\ replies' \in Seq(Replied)
          /\ billed' \subseteq 1..Len(inbox') /\ status' \in {0, 200, 202, 401, 404, 429, 500}
      BY <1>3, <2>2 DEF Receive
    <3>5. QED BY <2>2, <3>1, <3>2, <3>3, <3>4 DEF TypeOK, Places
  <2>4. Handling' BY <1>3, <2>2 DEF Receive, Handling, UnderWay, AtTool, Tools
  <2>5. Bills' /\ OnlyGoodAsksAreBilled' /\ Masks' BY <1>3 DEF Receive, Bills, OnlyGoodAsksAreBilled, Masks, MayCarry
  <2>6. QED BY <2>3, <2>4, <2>5 DEF IInv
<1>4. CASE NoCaller
  <2>1. Turned(401, <<>>) /\ <<>> \in Seq(Replied) BY <1>4 DEF NoCaller
  <2>2. \A k \in 1..Len(<<>>) : (<<>>)[k].shown = {} /\ (<<>>)[k].told = {} OBVIOUS
  <2>3. QED BY <1>1, <2>1, <2>2
<1>5. CASE NotJson BY <1>2, <1>5 DEF NotJson, Codes
<1>6. CASE EmptyBatch BY <1>2, <1>6 DEF EmptyBatch, Codes
<1>7. QED BY <1>3, <1>4, <1>5, <1>6 DEF Agent

(* A message is dispatched: refused, answered at once, or handed to its tool. *)
LEMMA HandleKeeps ==
  ASSUME IInv, Handle
  PROVE  IInv'
<1>1. pc = "message" /\ pc \in UnderWay /\ UNCHANGED <<billed, used, live, untold>> /\ UNCHANGED post
  BY DEF Handle, caller, UnderWay
<1>2. used' \in 0..Allowance /\ untold' \in Nat BY <1>1 DEF IInv, TypeOK
<1>3. ASSUME NEW code \in Codes, Say(code, {}, {}) PROVE IInv'
  BY <1>1, <1>2, <1>3, SayingNothingKeeps
<1>4. CASE IsNotification(Current) /\ Onward /\ UNCHANGED replies
  <2>1. at \in 1..Len(inbox) /\ inbox \in Seq(Messages) /\ at \in Nat
    BY <1>1 DEF IInv, Handling, TypeOK
  <2>2. UNCHANGED <<inbox, batch, status, posts>> BY <1>1 DEF post
  <2>3. \/ pc' = "message" /\ at' = at + 1 /\ at' \in 1..Len(inbox)
        \/ pc' = "done" /\ at' = at
    BY <1>4, <2>1 DEF Onward
  <2>4. TypeOK' BY <1>1, <1>4, <2>1, <2>2, <2>3 DEF IInv, TypeOK, Places
  <2>5. Handling' BY <1>1, <2>1, <2>2, <2>3 DEF IInv, Handling, UnderWay, AtTool, Tools
  <2>6. \A i \in billed : i \in Nat /\ i < at /\ HasReply(i)
    BY <1>1 DEF IInv, TypeOK, Bills, UnderWay, AtTool, Tools
  <2>7. Bills' BY <1>1, <1>4, <2>1, <2>3, <2>6 DEF Bills, HasReply, UnderWay, AtTool, Tools
  <2>8. OnlyGoodAsksAreBilled' /\ Masks' BY <1>1, <1>4, <2>2 DEF IInv, OnlyGoodAsksAreBilled, Masks, MayCarry
  <2>9. QED BY <2>4, <2>5, <2>7, <2>8 DEF IInv
<1>5. CASE /\ ~Current.ill /\ Current.id # "bad" /\ ~IsNotification(Current)
           /\ Current.call \in Tools /\ pc' = "arguments" /\ UNCHANGED <<at, replies>>
  <2>1. UNCHANGED <<inbox, batch, status, posts>> BY <1>1 DEF post
  <2>2. TypeOK' BY <1>1, <1>5, <2>1 DEF IInv, TypeOK, Places
  <2>3. Current.id \in {"own", "null"}
    <3>1. Current \in Message BY <1>1, McpAssumption DEF IInv, TypeOK, Handling, Current
    <3>2. QED BY <1>5, <3>1 DEF Message, IsNotification
  <2>4. Handling'
    BY <1>1, <1>5, <2>1, <2>3 DEF IInv, Handling, UnderWay, AtTool, Tools, Current
  <2>5. Bills' BY <1>1, <1>5, <2>1 DEF IInv, Bills, HasReply, UnderWay, AtTool, Tools
  <2>6. OnlyGoodAsksAreBilled' /\ Masks' BY <1>1, <1>5, <2>1 DEF IInv, OnlyGoodAsksAreBilled, Masks, MayCarry
  <2>7. QED BY <2>2, <2>4, <2>5, <2>6 DEF IInv
<1>6. QED BY <1>3, <1>4, <1>5 DEF Handle, Codes

(* The tool's own checks: what gets past them may run, and may be billed.     *)
LEMMA CheckKeeps ==
  ASSUME IInv, Check
  PROVE  IInv'
<1>1. pc = "arguments" /\ pc \in UnderWay \ {"answering"} /\ UNCHANGED <<billed, used, live, untold>>
  BY DEF Check, caller, UnderWay, AtTool, Tools
<1>2. used' \in 0..Allowance /\ untold' \in Nat BY <1>1 DEF IInv, TypeOK
<1>3. CASE Say("isError", {}, {}) /\ UNCHANGED post BY <1>1, <1>2, <1>3, SayingNothingKeeps DEF Codes
<1>4. CASE Refuse(404) BY <1>1, <1>2, <1>4, RefusingKeeps
<1>5. CASE /\ pc' = Current.call /\ UNCHANGED <<at, replies, post>>
           /\ HasFlag(Current) => Current.words /\ ~FlagWrong(Current)
           /\ NeedsSession(Current) => ~NotMine(Current) /\ Current.session # "missing"
  <2>1. UNCHANGED <<at, replies, inbox, batch, status, posts>> BY <1>5 DEF post
  <2>2. Current' = Current BY <2>1 DEF Current
  <2>3. Current \in Message BY <1>1, McpAssumption DEF IInv, TypeOK, Handling, UnderWay, Current
  <2>4. /\ Current.call \in Tools /\ ~Current.ill /\ Current.id \in {"own", "null"}
        /\ at \in 1..Len(inbox) /\ (~batch => Len(inbox) = 1)
    BY <1>1 DEF IInv, Handling, UnderWay
  <2>5. pc' \in Tools /\ pc' # "answering" /\ pc' = Current.call BY <1>5, <2>4 DEF Tools
  <2>6. TypeOK' BY <1>1, <2>1, <2>5 DEF IInv, TypeOK, Places
  <2>7. NeedsSession(Current) => Current.session = "mine"
    BY <1>5, <2>3 DEF Message, NotMine
  <2>8. ToolIsDue(Current)'
    BY <1>5, <2>2, <2>5, <2>7 DEF ToolIsDue, HasFlag, FlagWrong, NeedsSession
  <2>9. Handling' BY <2>1, <2>2, <2>4, <2>5, <2>8 DEF Handling
  <2>10. \A i \in billed : HasReply(i) /\ i < at
    BY <1>1 DEF IInv, Bills, UnderWay, AtTool, Tools
  <2>11. Bills' BY <1>1, <2>1, <2>5, <2>10 DEF Bills, HasReply
  <2>12. OnlyGoodAsksAreBilled' /\ Masks' BY <1>1, <2>1 DEF IInv, OnlyGoodAsksAreBilled, Masks, MayCarry
  <2>13. QED BY <2>6, <2>9, <2>11, <2>12 DEF IInv
<1>6. QED BY <1>3, <1>4, <1>5 DEF Check

(* A name is in what is shown only when the flag asks for it: a result with a *)
(* person in it touches a personal column, so it is hidden or cut.            *)
LEMMA ShownIsAskedFor ==
  ASSUME NEW flag, NEW r \in Result
  PROVE  Shown(flag, r) \in SUBSET Columns /\ ("person" \in Shown(flag, r) => flag = "true")
BY DEF Result, Shown, Hidden, AsksForPersons, Columns, Personal, Text

(* The tools that only read, and the one that makes a session.                *)
LEMMA ToolsKeep ==
  ASSUME IInv, Overview \/ RunAnalysis \/ LoadSample
  PROVE  IInv'
<1> USE DEF UnderWay, AtTool, Tools, Codes
<1>1. CASE Overview
  <2>1. used' \in 0..Allowance /\ untold' \in Nat BY <1>1 DEF Overview, caller, IInv, TypeOK
  <2>2. QED BY <1>1, <2>1, SayingNothingKeeps DEF Overview, caller
<1>2. CASE RunAnalysis
  <2>1. used' \in 0..Allowance /\ untold' \in Nat /\ UNCHANGED live
    BY <1>2 DEF RunAnalysis, caller, IInv, TypeOK
  <2>2. ASSUME NEW r \in Impersonal, Say("result", Shown(Current.flag, r), {}) PROVE IInv'
    <3>1. Shown(Current.flag, r) \in SUBSET Columns
          /\ ("person" \in Shown(Current.flag, r) => Current.flag = "true") BY ShownIsAskedFor DEF Impersonal
    <3> DEFINE Nothing == {}
    <3>2. Nothing \in SUBSET Columns /\ Nothing = {} /\ Say("result", Shown(Current.flag, r), Nothing) BY <2>2
    <3> HIDE DEF Nothing
    <3>3. QED BY <1>2, <2>1, <2>2, <3>1, <3>2, SayingKeeps DEF RunAnalysis
  <2>3. CASE Say("isError", {}, {}) BY <1>2, <2>1, <2>3, SayingNothingKeeps DEF RunAnalysis
  <2>4. QED BY <1>2, <2>2, <2>3 DEF RunAnalysis
<1>3. CASE LoadSample
  <2>1. pc = "load_sample_data" /\ UNCHANGED <<billed, used, live>> /\ used' \in 0..Allowance /\ untold' \in Nat
    BY <1>3 DEF LoadSample, IInv, TypeOK
  <2>2. CASE Refuse(429) BY <2>1, <2>2, RefusingKeeps
  <2>3. ASSUME NEW code \in {"result", "isError"}, Say(code, {}, {}), UNCHANGED post PROVE IInv'
    BY <2>1, <2>3, SayingNothingKeeps
  <2>4. QED BY <1>3, <2>2, <2>3 DEF LoadSample
<1>4. QED BY <1>1, <1>2, <1>3

(* The question is counted once its call is known to be good, and only if it  *)
(* fits; then it is answered or given back.                                   *)
LEMMA AskKeeps ==
  ASSUME IInv, EnterAllowance \/ Answered
  PROVE  IInv'
<1> USE DEF UnderWay, AtTool, Tools, Codes
<1>1. CASE EnterAllowance
  <2>1. pc = "ask" /\ UNCHANGED <<live, untold>> /\ untold' \in Nat BY <1>1 DEF EnterAllowance, IInv, TypeOK
  <2>2. CASE used < Allowance
    <3>1. billed' = billed \cup {at} /\ used' = used + 1 /\ pc' = "answering" /\ UNCHANGED <<at, replies>>
      BY <1>1, <2>2, FS_Singleton DEF EnterAllowance, Counted
    <3>2. UNCHANGED <<inbox, batch, status, posts>> BY <1>1, <2>2 DEF EnterAllowance, post
    <3>3. /\ at \in 1..Len(inbox) /\ (~batch => Len(inbox) = 1) /\ ToolIsDue(Current)
          /\ ~Current.ill /\ Current.id \in {"own", "null"} /\ Current.call \in Tools
      BY <2>1 DEF IInv, Handling
    <3>4. Current' = Current BY <3>1, <3>2 DEF Current
    <3>5. used' \in 0..Allowance BY <2>2, <3>1, McpAssumption DEF IInv, TypeOK
    <3>6. TypeOK' BY <2>1, <3>1, <3>2, <3>3, <3>5 DEF IInv, TypeOK, Places
    <3>7. Current.call = "ask" /\ ToolIsDue(Current)'
      BY <2>1, <3>1, <3>3, <3>4 DEF ToolIsDue
    <3>8. Handling' BY <3>1, <3>2, <3>3, <3>4, <3>7 DEF Handling
    <3>9. \A i \in billed : HasReply(i) /\ i < at
      BY <2>1 DEF IInv, Bills
    <3>10. \A i \in billed : i \in Nat /\ at \in Nat BY <3>3 DEF IInv, TypeOK
    <3>11. Bills' BY <3>1, <3>2, <3>3, <3>9, <3>10 DEF Bills, HasReply
    <3>12. OnlyGoodAsksAreBilled'
      <4>1. Current.words /\ Current.flag # "text" /\ Current.session = "mine"
        BY <3>3, <3>7 DEF ToolIsDue, HasFlag, FlagWrong, NeedsSession
      <4>2. QED BY <3>1, <3>2, <3>3, <3>7, <4>1 DEF IInv, OnlyGoodAsksAreBilled, Current
    <3>13. Masks' BY <3>1, <3>2 DEF IInv, Masks, MayCarry
    <3>14. QED BY <3>6, <3>8, <3>11, <3>12, <3>13 DEF IInv
  <2>3. CASE ~(used < Allowance)
    <3>1. billed' = billed /\ used' = used /\ Refuse(429)
      BY <1>1, <2>3, FS_EmptySet DEF EnterAllowance, Counted, IInv, TypeOK
    <3>2. QED BY <2>1, <3>1, RefusingKeeps DEF IInv, TypeOK
  <2>4. QED BY <2>2, <2>3
<1>2. CASE Answered
  <2>1. pc = "answering" /\ UNCHANGED post /\ UNCHANGED live /\ untold' \in Nat
    BY <1>2 DEF Answered, IInv, TypeOK
  <2>2. billed' \subseteq billed /\ used' \in 0..Allowance
    BY <1>2, McpAssumption DEF Answered, IInv, TypeOK
  <2>3. ASSUME NEW r \in Result, NEW told \in SUBSET (r.columns \cap Personal),
               Say("result", Shown(Current.flag, r), told)
        PROVE  IInv'
    <3>1. Shown(Current.flag, r) \in SUBSET Columns
          /\ ("person" \in Shown(Current.flag, r) => Current.flag = "true") BY ShownIsAskedFor
    <3>2. told \in SUBSET Columns BY DEF Personal, Columns
    <3>3. Current.call = "ask" BY <2>1 DEF IInv, Handling, ToolIsDue
    <3>4. QED BY <2>1, <2>2, <2>3, <3>1, <3>2, <3>3, SayingKeeps
  <2>4. CASE Say("isError", {}, {}) BY <2>1, <2>2, <2>4, SayingNothingKeeps
  <2>5. QED BY <1>2, <2>3, <2>4 DEF Answered
<1>3. QED BY <1>1, <1>2

(* The response leaves, whole or as the app's own 500; the agent reads it.    *)
LEMMA SendingKeeps ==
  ASSUME IInv, Bug \/ Send \/ Read
  PROVE  IInv'
<1> USE DEF UnderWay, AtTool, Tools
<1>1. CASE Bug
  <2>1. TypeOK' BY <1>1 DEF Bug, caller, IInv, TypeOK, Places
  <2>2. QED BY <1>1, <2>1 DEF Bug, IInv, Handling, Bills, OnlyGoodAsksAreBilled, Masks, MayCarry
<1>2. CASE Send
  <2>1. TypeOK' BY <1>2 DEF Send, caller, IInv, TypeOK, Places
  <2>2. Bills' BY <1>2 DEF Send, IInv, Bills, HasReply
  <2>3. QED BY <1>2, <2>1, <2>2 DEF Send, IInv, Handling, OnlyGoodAsksAreBilled, Masks, MayCarry
<1>3. CASE Read
  <2>1. UNCHANGED <<at, replies, billed, batch, inbox, status, posts, used, live, untold>>
    BY <1>3 DEF Read, post, caller
  <2>2. TypeOK' BY <1>3, <2>1 DEF Read, IInv, TypeOK, Places
  <2>3. Bills' BY <1>3, <2>1 DEF Read, IInv, Bills, HasReply
  <2>4. QED BY <1>3, <2>1, <2>2, <2>3 DEF Read, IInv, Handling, OnlyGoodAsksAreBilled, Masks, MayCarry
<1>4. QED BY <1>1, <1>2, <1>3

(* What the browser does changes only what the next question meets.           *)
LEMMA BrowserKeeps ==
  ASSUME IInv, Browser \/ UNCHANGED vars
  PROVE  IInv'
<1>1. UNCHANGED <<pc, at, replies, billed, batch, inbox, status, posts>>
  BY DEF Browser, post, vars
<1>2. used' \in 0..Allowance /\ live' \in BOOLEAN /\ untold' \in Nat
  <2>1. used \in 0..Allowance /\ live \in BOOLEAN /\ untold \in Nat /\ Allowance \in Nat
    BY McpAssumption DEF IInv, TypeOK
  <2>2. CASE BrowserAsks BY <2>1, <2>2 DEF BrowserAsks
  <2>3. CASE WindowPasses BY <2>1, <2>3 DEF WindowPasses
  <2>4. CASE SessionGoes BY <2>1, <2>4 DEF SessionGoes
  <2>5. CASE UNCHANGED vars BY <2>1, <2>5 DEF vars
  <2>6. QED BY <2>2, <2>3, <2>4, <2>5 DEF Browser
<1>3. TypeOK' BY <1>1, <1>2 DEF IInv, TypeOK
<1>4. Handling' BY <1>1 DEF IInv, Handling, ToolIsDue, Current, HasFlag, FlagWrong, NeedsSession
<1>5. Bills' BY <1>1 DEF IInv, Bills, HasReply
<1>6. OnlyGoodAsksAreBilled' /\ Masks' BY <1>1 DEF IInv, OnlyGoodAsksAreBilled, Masks, MayCarry
<1>7. QED BY <1>3, <1>4, <1>5, <1>6 DEF IInv

LEMMA SpecIInv == Spec => []IInv
<1>1. IInv /\ [Next]_vars => IInv'
  BY AgentKeeps, HandleKeeps, CheckKeeps, ToolsKeep, AskKeeps, SendingKeeps, BrowserKeeps
     DEF Next, Server
<1>2. QED BY <1>1, InitIInv, PTL DEF Spec

(* The server's state keeps its types: the number of the message handled stays *)
(* inside the batch, and the counter inside the allowance.                     *)
THEOREM TypeCorrect == Spec => []TypeOK
<1>1. IInv => TypeOK BY DEF IInv
<1>2. QED BY <1>1, SpecIInv, PTL

(* Whatever the agent sends and the browser does meanwhile, only a well-formed *)
(* ask on a session of the caller's is ever counted against the caller.        *)
THEOREM BillsAreDue == Spec => []OnlyGoodAsksAreBilled
<1>1. IInv => OnlyGoodAsksAreBilled BY DEF IInv
<1>2. QED BY <1>1, SpecIInv, PTL

(* In batches of any size: what was counted and not given back came with the  *)
(* tool's reply, unless the response was the app's own 500.                   *)
THEOREM NothingBilledIsLost == Spec => []BilledAreAnswered
<1>1. IInv => BilledAreAnswered BY DEF IInv, Bills, HasReply, BilledAreAnswered
<1>2. QED BY <1>1, SpecIInv, PTL

(* A name is in the rows of a reply only if that reply's own message asked    *)
(* for it with the literal true, and in its sentences only if that message    *)
(* was a question.                                                           *)
THEOREM NamesAreAskedFor == Spec => []NamesOnlyOnRequest
<1>1. IInv => NamesOnlyOnRequest BY DEF IInv, Masks, MayCarry, NamesOnlyOnRequest
<1>2. QED BY <1>1, SpecIInv, PTL

(* The replies there are: one for every message that asked among the first n, *)
(* in their order. The message being handled is not among them yet.           *)
Ordered == \A j, k \in 1..Len(replies) : j < k => replies[j].to < replies[k].to
Named == \A k \in 1..Len(replies) : inbox[replies[k].to].id = "own" => replies[k].id = "own"
RepliesUpTo(n) ==
  /\ {replies[k].to : k \in 1..Len(replies)} = {i \in 1..Len(inbox) : i <= n /\ Asks(inbox[i])}
  /\ Ordered /\ Named

Turns ==
  /\ pc \in UnderWay => RepliesUpTo(at - 1)
  /\ pc = "done" \/ Whole => RepliesUpTo(Len(inbox))

TurnsInv == IInv /\ Turns

(* The message that has its turn is answered, or did not ask.                 *)
LEMMA TurnTaken ==
  ASSUME TurnsInv, pc \in UnderWay, UNCHANGED inbox, Onward,
         \/ replies' = replies /\ ~Asks(Current)
         \/ /\ Asks(Current)
            /\ \E r \in Replied : replies' = Append(replies, r) /\ r.to = at /\ r.id = IdOf(Current)
  PROVE  Turns'
<1>1. /\ at \in 1..Len(inbox) /\ Len(inbox) \in Nat /\ replies \in Seq(Replied) /\ RepliesUpTo(at - 1)
      /\ inbox' = inbox /\ Current = inbox[at]
  BY DEF TurnsInv, IInv, TypeOK, Handling, Turns, Current
<1> DEFINE asked == {i \in 1..Len(inbox) : i <= at /\ Asks(inbox[i])}
<1>2. /\ {replies'[k].to : k \in 1..Len(replies')} = asked
      /\ Ordered' /\ Named'
  <2>1. CASE replies' = replies /\ ~Asks(Current)
    <3>1. {i \in 1..Len(inbox) : i <= at - 1 /\ Asks(inbox[i])} = asked BY <1>1, <2>1
    <3>2. QED BY <1>1, <2>1, <3>1 DEF RepliesUpTo, Ordered, Named
  <2>2. ASSUME Asks(Current), NEW r \in Replied, replies' = Append(replies, r), r.to = at, r.id = IdOf(Current)
        PROVE  /\ {replies'[k].to : k \in 1..Len(replies')} = asked
               /\ Ordered' /\ Named'
    <3> DEFINE n == Len(replies)
    <3>1. /\ n \in Nat /\ Len(replies') = n + 1 /\ replies'[n + 1] = r
          /\ \A k \in 1..n : replies'[k] = replies[k]
      BY <1>1, <2>2
    <3>2. \A k \in 1..n : replies[k].to \in 1..Len(inbox) /\ replies[k].to <= at - 1 BY <1>1 DEF RepliesUpTo
    <3>3. \A k \in 1..(n + 1) : k \in 1..n \/ k = n + 1 BY <3>1
    <3>4. {i \in 1..Len(inbox) : i <= at - 1 /\ Asks(inbox[i])} \cup {at} = asked BY <1>1, <2>2
    <3>5. {replies'[k].to : k \in 1..(n + 1)} = {replies[k].to : k \in 1..n} \cup {at}
      BY <2>2, <3>1, <3>3
    <3>6. {replies'[k].to : k \in 1..Len(replies')} = asked BY <1>1, <3>1, <3>4, <3>5 DEF RepliesUpTo
    <3>7. Ordered' BY <1>1, <2>2, <3>1, <3>2, <3>3 DEF RepliesUpTo, Ordered
    <3>8. Named'
      <4>1. \A k \in 1..n : inbox[replies'[k].to].id = "own" => replies'[k].id = "own"
        BY <1>1, <3>1 DEF RepliesUpTo, Named
      <4>2. inbox[r.to].id = "own" => r.id = "own" BY <1>1, <2>2 DEF IdOf
      <4>3. QED BY <1>1, <3>1, <3>3, <4>1, <4>2 DEF Named
    <3>9. QED BY <3>6, <3>7, <3>8
  <2>3. QED BY <2>1, <2>2
<1>3. \/ pc' = "message" /\ at' = at + 1
      \/ pc' = "done" /\ at = Len(inbox)
  BY <1>1 DEF Onward
<1>4. CASE pc' = "message" /\ at' = at + 1
  <2>1. {i \in 1..Len(inbox) : i <= at' - 1 /\ Asks(inbox[i])} = asked BY <1>1, <1>4
  <2>2. RepliesUpTo(at - 1)' BY <1>1, <1>2, <2>1 DEF RepliesUpTo
  <2>3. QED BY <1>4, <2>2 DEF Turns, Whole
<1>5. CASE pc' = "done" /\ at = Len(inbox)
  <2>1. {i \in 1..Len(inbox) : i <= Len(inbox) /\ Asks(inbox[i])} = asked BY <1>5
  <2>2. RepliesUpTo(Len(inbox))' BY <1>1, <1>2, <2>1 DEF RepliesUpTo
  <2>3. QED BY <1>5, <2>2 DEF Turns, UnderWay, AtTool, Tools, Whole
<1>6. QED BY <1>3, <1>4, <1>5

(* Every step with a reply is a turn taken.                                   *)
LEMMA SaidInTurn ==
  ASSUME TurnsInv, pc \in UnderWay, UNCHANGED inbox, NEW code \in Codes, NEW shown \in SUBSET Columns,
         NEW told \in SUBSET Columns, Say(code, shown, told), Asks(Current)
  PROVE  Turns'
<1> DEFINE r == [to |-> at, id |-> IdOf(Current), code |-> code, shown |-> shown, told |-> told]
<1>1. at \in Nat /\ IdOf(Current) \in {"null", "own"} BY DEF TurnsInv, IInv, TypeOK, IdOf
<1>2. r \in Replied /\ r.to = at /\ r.id = IdOf(Current) BY <1>1 DEF Replied
<1>3. replies' = Append(replies, r) /\ Onward BY DEF Say
<1> HIDE DEF r
<1>4. QED BY <1>2, <1>3, TurnTaken

LEMMA NothingSaidInTurn ==
  ASSUME TurnsInv, pc \in UnderWay, UNCHANGED inbox, NEW code \in Codes, Say(code, {}, {}), Asks(Current)
  PROVE  Turns'
<1> DEFINE Nothing == {}
<1>1. Nothing \in SUBSET Columns OBVIOUS
<1>2. Say(code, Nothing, Nothing) OBVIOUS
<1> HIDE DEF Nothing
<1>3. QED BY <1>1, <1>2, SaidInTurn

LEMMA RefusedInTurn ==
  ASSUME TurnsInv, pc \in UnderWay, NEW code \in {404, 429}, Refuse(code), Asks(Current)
  PROVE  Turns'
<1>1. CASE batch
  <2>1. Say("server error", {}, {}) /\ UNCHANGED inbox BY <1>1 DEF Refuse, post
  <2>2. QED BY <2>1, NothingSaidInTurn DEF Codes
<1>2. CASE ~batch
  <2>1. pc' = "sent" /\ status' \notin {200, 202} BY <1>2 DEF Refuse, RefusalTravels
  <2>2. QED BY <2>1 DEF Turns, Whole, UnderWay, AtTool, Tools
<1>3. QED BY <1>1, <1>2

LEMMA TurnsKept ==
  ASSUME TurnsInv, [Next]_vars
  PROVE  Turns'
<1> USE DEF UnderWay, AtTool, Tools
<1>1. pc \in AtTool \cup {"arguments"} => Asks(Current) BY DEF TurnsInv, IInv, Handling, Asks
<1>2. CASE Agent
  <2>1. CASE Receive
    <3>1. pc' = "message" /\ at' = 1 /\ replies' = <<>> BY <2>1 DEF Receive
    <3>2. RepliesUpTo(at - 1)'
      <4>1. Len(replies') = 0 BY <3>1
      <4>2. {i \in 1..Len(inbox') : i <= at' - 1 /\ Asks(inbox'[i])} = {} BY <3>1
      <4>3. QED BY <4>1, <4>2 DEF RepliesUpTo, Ordered, Named
    <3>3. QED BY <3>1, <3>2 DEF Turns, Whole
  <2>2. CASE ~Receive
    <3>1. pc' = "sent" /\ inbox' = <<>> BY <1>2, <2>2 DEF Agent, NoCaller, NotJson, EmptyBatch, Turned
    <3>2. QED BY <3>1 DEF Turns, Whole
  <2>3. QED BY <2>1, <2>2
<1>3. CASE Handle
  <2>1. pc = "message" /\ UNCHANGED inbox BY <1>3 DEF Handle, post
  <2>2. ASSUME NEW code \in Codes, Say(code, {}, {}), Asks(Current) PROVE Turns' BY <2>1, <2>2, NothingSaidInTurn
  <2>3. CASE (Current.ill \/ Current.id = "bad") /\ Say("invalid request", {}, {})
    BY <2>2, <2>3 DEF Asks, Codes
  <2>4. CASE ~Current.ill /\ IsNotification(Current) /\ Onward /\ UNCHANGED replies
    BY <2>1, <2>4, TurnTaken DEF IsNotification, Asks
  <2>5. CASE ~IsNotification(Current) /\ \E code \in Codes : Say(code, {}, {})
    BY <2>2, <2>5 DEF IsNotification, Asks
  <2>6. CASE pc' = "arguments" /\ UNCHANGED <<at, replies>>
    BY <2>1, <2>6 DEF TurnsInv, Turns, Whole, RepliesUpTo, Ordered, Named
  <2>7. QED BY <1>3, <2>3, <2>4, <2>5, <2>6 DEF Handle, Codes
<1>4. CASE Check
  <2>1. pc = "arguments" BY <1>4 DEF Check
  <2>2. CASE Say("isError", {}, {}) /\ UNCHANGED post BY <1>1, <2>1, <2>2, NothingSaidInTurn DEF Codes, post
  <2>3. CASE Refuse(404) BY <1>1, <2>1, <2>3, RefusedInTurn
  <2>4. CASE pc' = Current.call /\ UNCHANGED <<at, replies, post>>
    <3>1. pc' \in Tools BY <2>1, <2>4 DEF TurnsInv, IInv, Handling
    <3>2. UNCHANGED <<at, replies, inbox>> BY <2>4 DEF post
    <3>3. RepliesUpTo(at - 1)' BY <2>1, <3>2 DEF TurnsInv, Turns, RepliesUpTo, Ordered, Named
    <3>4. QED BY <3>1, <3>3 DEF Turns, Whole
  <2>5. QED BY <1>4, <2>2, <2>3, <2>4 DEF Check
<1>5. CASE Overview BY <1>1, <1>5, NothingSaidInTurn DEF Overview, Codes, post
<1>6. CASE RunAnalysis BY <1>1, <1>6, SaidInTurn, NothingSaidInTurn, ShownIsAskedFor DEF RunAnalysis, Impersonal, Codes, post
<1>7. CASE LoadSample
  <2>1. pc = "load_sample_data" BY <1>7 DEF LoadSample
  <2>2. CASE Refuse(429) BY <1>1, <2>1, <2>2, RefusedInTurn
  <2>3. ASSUME NEW code \in {"result", "isError"}, Say(code, {}, {}), UNCHANGED post PROVE Turns'
    BY <1>1, <2>1, <2>3, NothingSaidInTurn DEF Codes, post
  <2>4. QED BY <1>7, <2>2, <2>3 DEF LoadSample
<1>8. CASE EnterAllowance
  <2>1. pc = "ask" BY <1>8 DEF EnterAllowance
  <2>2. CASE Refuse(429) BY <1>1, <2>1, <2>2, RefusedInTurn
  <2>3. CASE pc' = "answering" /\ UNCHANGED <<at, replies, post>>
    BY <2>1, <2>3 DEF post, TurnsInv, Turns, Whole, RepliesUpTo, Ordered, Named
  <2>4. QED BY <1>8, <2>2, <2>3 DEF EnterAllowance
<1>9. CASE Answered
  <2>1. pc = "answering" /\ UNCHANGED inbox /\ Asks(Current) BY <1>1, <1>9 DEF Answered, post
  <2>2. ASSUME NEW r \in Result, NEW told \in SUBSET (r.columns \cap Personal),
               Say("result", Shown(Current.flag, r), told)
        PROVE  Turns'
    <3>1. Shown(Current.flag, r) \in SUBSET Columns /\ told \in SUBSET Columns
      BY ShownIsAskedFor DEF Personal, Columns
    <3>2. QED BY <2>1, <2>2, <3>1, SaidInTurn DEF Codes
  <2>3. CASE Say("isError", {}, {}) BY <2>1, <2>3, NothingSaidInTurn DEF Codes
  <2>4. QED BY <1>9, <2>2, <2>3 DEF Answered
<1>10. CASE Bug BY <1>10 DEF Bug, Turns, Whole
<1>11. CASE Send
  <2>1. RepliesUpTo(Len(inbox))' BY <1>11 DEF Send, TurnsInv, Turns, RepliesUpTo, Ordered, Named
  <2>2. QED BY <1>11, <2>1 DEF Send, Turns
<1>12. CASE Read BY <1>12 DEF Read, Turns, Whole
<1>13. CASE Browser \/ UNCHANGED vars
  <2>1. UNCHANGED <<pc, at, replies, inbox, status>> BY <1>13 DEF Browser, post, vars
  <2>2. QED BY <2>1 DEF TurnsInv, Turns, Whole, RepliesUpTo, Ordered, Named
<1>14. QED
  BY <1>2, <1>3, <1>4, <1>5, <1>6, <1>7, <1>8, <1>9, <1>10, <1>11, <1>12, <1>13 DEF Next, Server

(* A batch of any size is answered in the order its requests arrived: one     *)
(* reply to each message that asked, none to any other, under its own id.     *)
THEOREM RepliesComeInTurn == Spec => []EveryRequestAnsweredInTurn
<1>1. Init => Turns BY DEF Init, Turns, Whole, UnderWay, AtTool, Tools
<1>2. IInv /\ Turns /\ [Next]_vars => Turns' BY TurnsKept DEF TurnsInv
<1>3. Turns => EveryRequestAnsweredInTurn
  <2> SUFFICES ASSUME Turns, Whole
               PROVE  /\ {replies[k].to : k \in 1..Len(replies)} = {i \in 1..Len(inbox) : Asks(inbox[i])}
                      /\ Ordered /\ Named
    BY DEF EveryRequestAnsweredInTurn, Ordered, Named
  <2>1. {i \in 1..Len(inbox) : i <= Len(inbox) /\ Asks(inbox[i])} = {i \in 1..Len(inbox) : Asks(inbox[i])}
    OBVIOUS
  <2>2. QED BY <2>1 DEF Turns, RepliesUpTo
<1>4. QED BY <1>1, <1>2, <1>3, SpecIInv, PTL DEF Spec
==============================================================================
