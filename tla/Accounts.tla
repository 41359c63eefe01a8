------------------------------ MODULE Accounts ------------------------------
(* Who a request belongs to: the users table, the stateless tokens and the   *)
(* routes that change them (backend/app/auth.py).  A request reads its        *)
(* token's row in one connection and works in another, so other requests,     *)
(* and the clock, come in between; a restart forgets the requests and prunes. *)
EXTENDS Integers, Sequences, FiniteSets, Functions

CONSTANTS
  Requests,   \* the requests under way at once
  Ids,        \* what secrets.token_hex(16) can give; never the same twice
  Emails,
  None,       \* no email, no caller
  Ttl,        \* settings.token_ttl_s, in seconds of the model
  Dawdle,     \* no token is made longer than this after its row was stamped
  MaxTime     \* bound: the clock stops here

ASSUME AccountsAssumption ==
  /\ None \notin Ids \cup Emails
  /\ Ttl \in Nat /\ Dawdle \in Nat /\ MaxTime \in Nat

VARIABLES
  now,
  users,      \* the table: a function from the ids in it to their rows
  tokens,     \* every token handed out: [user, expires]
  request,    \* [Requests -> [pc, kind, user, stamp]]
  issued,     \* history: every id ever given
  pruned      \* history: [user, left] of each guest dropped while a token was live

accountsVars == <<now, users, tokens, request, issued, pruned>>

Rows == [kind : {"guest", "member"}, email : Emails \cup {None}, created : Nat]
Kinds == {"guest", "signup", "login", "update", "leave"}
Idle == [pc |-> "idle", kind |-> "guest", user |-> None, stamp |-> 0]

AccountsInit ==
  /\ now = 0
  /\ users = <<>>
  /\ tokens = {}
  /\ request = [r \in Requests |-> Idle]
  /\ issued = {}
  /\ pruned = {}

Accounts == DOMAIN users
Put(id, row) == [i \in Accounts \cup {id} |-> IF i = id THEN row ELSE users[i]]
Drop(ids) == Restrict(users, Accounts \ ids)
Taken(email) == \E id \in Accounts : users[id].email = email

Goto(r, pc) == request' = [request EXCEPT ![r].pc = pc]
Finish(r) == request' = [request EXCEPT ![r] = Idle]

----------------------------------------------------------------------------
(* user_for_token: a live signature over a live user.                        *)
Live(token) == token.expires >= now /\ token.user \in Accounts

(* A request arrives.  Only a guest's token counts at sign-up (_caller_guest) *)
(* and a request may come without one.                                        *)
Arrive(r) ==
  /\ request[r].pc = "idle"
  /\ \/ \E kind \in {"guest", "signup", "login"} :
          request' = [request EXCEPT ![r] = [pc |-> "ready", kind |-> kind, user |-> None, stamp |-> 0]]
     \/ \E token \in tokens, kind \in {"signup", "update", "leave"} :
          /\ Live(token)
          /\ request' = [request EXCEPT ![r] =
               [pc |-> "ready", kind |-> kind, stamp |-> 0,
                user |-> IF kind = "signup" /\ users[token.user].kind = "member"
                         THEN None ELSE token.user]]
  /\ UNCHANGED <<now, users, tokens, issued, pruned>>

Ready(r, kind) == request[r].pc = "ready" /\ request[r].kind = kind

(* INSERT, stamped before the connection gets its turn to write; the token is *)
(* made once the row is committed.                                            *)
Insert(r, row) ==
  \E id \in Ids \ issued :
    /\ users' = Put(id, row)
    /\ issued' = issued \cup {id}
    /\ request' = [request EXCEPT ![r].pc = "token", ![r].user = id, ![r].stamp = now]

CreateGuest(r) ==
  /\ Ready(r, "guest")
  /\ Insert(r, [kind |-> "guest", email |-> None, created |-> now])
  /\ UNCHANGED <<now, tokens, pruned>>

\* mutant: the guest is not asked for
CanUpgradeAny(id) == id \in Accounts

(* UPDATE ... WHERE id = ? AND kind = 'guest' touches a row or it does not.   *)
CanUpgrade(id) == id \in Accounts /\ users[id].kind = "guest"

\* mutant: the table lets an email repeat
NeverRefused(email) == FALSE

(* email TEXT UNIQUE                                                          *)
Refused(email) == Taken(email)

CreatedAt(id) == IF id \in Accounts THEN users[id].created ELSE now

SignUp(r) ==
  /\ Ready(r, "signup")
  /\ \E email \in Emails :
       IF Refused(email) THEN Finish(r) /\ UNCHANGED <<users, issued>>
       ELSE IF request[r].user # None /\ CanUpgrade(request[r].user)
       THEN /\ users' = Put(request[r].user, [kind |-> "member", email |-> email,
                                              created |-> CreatedAt(request[r].user)])
            /\ request' = [request EXCEPT ![r].pc = "token", ![r].stamp = now]
            /\ UNCHANGED issued
       ELSE Insert(r, [kind |-> "member", email |-> email, created |-> now])
  /\ UNCHANGED <<now, tokens, pruned>>

LogIn(r) ==
  /\ Ready(r, "login")
  /\ \/ \E id \in Accounts :
          /\ users[id].kind = "member"
          /\ request' = [request EXCEPT ![r].pc = "token", ![r].user = id, ![r].stamp = now]
     \/ Finish(r)                                           \* wrong email or password
  /\ UNCHANGED <<now, users, tokens, issued, pruned>>

Expiry == now + Ttl

MakeToken(r) ==
  /\ request[r].pc = "token"
  /\ tokens' = tokens \cup {[user |-> request[r].user, expires |-> Expiry]}
  /\ Finish(r)
  /\ UNCHANGED <<now, users, issued, pruned>>

(* A name or a role: nothing the properties look at.                         *)
UpdateMe(r) ==
  /\ Ready(r, "update")
  /\ Finish(r)
  /\ UNCHANGED <<now, users, tokens, issued, pruned>>

DeleteMe(r) ==
  /\ Ready(r, "leave")
  /\ users' = Drop({request[r].user})
  /\ Finish(r)
  /\ UNCHANGED <<now, tokens, issued, pruned>>

(* The process stops and starts: requests are lost, a random secret makes     *)
(* every token worthless, guests past their time are dropped (prune_guests).  *)
OutOfTime(row) == row.kind = "guest" /\ row.created < now - Ttl

Restart ==
  LET old == {id \in Accounts : OutOfTime(users[id])}
  IN /\ \E kept \in {tokens, {}} : tokens' = kept
     /\ users' = Drop(old)
     /\ request' = [r \in Requests |-> Idle]
     /\ pruned' = pruned \cup {[user |-> t.user, left |-> t.expires - now] :
                                 t \in {t \in tokens : t.user \in old /\ Live(t)}}
     /\ UNCHANGED <<now, issued>>

Second ==
  /\ now < MaxTime
  /\ \A r \in Requests : request[r].pc = "token" => now < request[r].stamp + Dawdle
  /\ now' = now + 1
  /\ UNCHANGED <<users, tokens, request, issued, pruned>>

AccountsNext ==
  \/ \E r \in Requests : \/ Arrive(r) \/ CreateGuest(r) \/ SignUp(r) \/ LogIn(r)
                         \/ MakeToken(r) \/ UpdateMe(r) \/ DeleteMe(r)
  \/ Restart
  \/ Second

AccountsSpec == AccountsInit /\ [][AccountsNext]_accountsVars

----------------------------------------------------------------------------
(* Every variable has its type: the state of the code named above.            *)
AccountsTypeOK ==
  /\ now \in 0..MaxTime
  /\ users \in [Accounts -> Rows] /\ Accounts \subseteq issued
  /\ tokens \subseteq [user : issued, expires : 0..(now + Ttl)]
  /\ request \in [Requests -> [pc : {"idle", "ready", "token"}, kind : Kinds,
                               user : issued \cup {None}, stamp : Nat]]
  /\ issued \subseteq Ids

(* One account per email, and only members have one, whatever sign-ups race.  *)
OneAccountPerEmail ==
  \A id \in Accounts :
    /\ users[id].kind = "guest" <=> users[id].email = None
    /\ \A other \in Accounts : users[id].email = users[other].email /\ users[id].email # None
                                 => id = other

(* Nobody's sign-up takes an account over: a member's email never changes,    *)
(* although two sign-ups can carry the token of one guest; and a guest is      *)
(* upgraded in place or left alone.                                           *)
MembersKeepTheirAccount ==
  [][\A id \in Accounts \cap DOMAIN users' :
       users[id].kind = "member" => users'[id].kind = "member" /\ users'[id].email = users[id].email]_accountsVars

(* A deleted account stays deleted, with a sign-up or a token under way.      *)
DeletedStaysDeleted == [][issued \cap DOMAIN users' \subseteq Accounts]_accountsVars

(* "Drop guests whose token can no longer be live": a guest dropped at        *)
(* start-up has no token left, up to the time its token was made after its     *)
(* row was stamped; no member is dropped.                                      *)
PrunedAreDead == \A p \in pruned : p.left < Dawdle

(* The sentence as the comment has it.                                        *)
PrunedHaveNoToken == pruned = {}
=============================================================================
