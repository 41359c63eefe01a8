----------------------------- MODULE SessionStore -----------------------------
(* The sessions the process keeps in memory, and what hangs on them:       *)
(* SessionStore (app/sessions.py), the routes that open, delete and leave  *)
(* (app/main.py, app/auth.py), and the cache of overviews, which has no    *)
(* lock (app/insights/dashboard.py).                                       *)
(*                                                                         *)
(* A request is a thread.  The store's lock covers one action each; the    *)
(* clock is read before it is taken and connections are closed after it is *)
(* released, so other requests come in between.                            *)
EXTENDS Integers, Sequences, FiniteSets, SequencesExt

CONSTANTS Requests, Users, Ids,
          Nobody,       (* the owner of a session that is not created yet    *)
          Existing,     (* the sessions there are at first, oldest first,    *)
                        (* with files in them                                *)
          OwnerAtFirst, (* [Ids -> Users \cup {Nobody}]                      *)
          MaxSessions,  (* settings.max_sessions                             *)
          Ttl,          (* settings.session_ttl_s, in ticks                  *)
          CacheCap,     (* _CACHE_CAP                                        *)
          Dawdle,       (* no thread waits longer than this for the lock     *)
          MaxVersion,   (* BOUND of the model: the version of a catalog        *)
          MaxTime       (* BOUND of the model: the clock stops here          *)

ASSUME StoreAssumption ==
  /\ Existing \in Seq(Ids) /\ IsInjective(Existing) /\ Len(Existing) <= MaxSessions
  /\ OwnerAtFirst \in [Ids -> Users \cup {Nobody}] /\ Nobody \notin Users
  /\ \A id \in Ids : OwnerAtFirst[id] = Nobody <=> id \notin ToSet(Existing)
  /\ IsFiniteSet(Requests) /\ Users # {} /\ Ids # {} /\ MaxSessions \in Nat \ {0}
  /\ {Ttl, CacheCap, Dawdle, MaxVersion, MaxTime} \subseteq Nat

VARIABLES now,
          accounts,   (* the rows of the users table                         *)
          order,      (* SessionStore._sessions, least recently used first   *)
          lastUsed,   (* Session.last_used                                   *)
          owner,      (* Session.user_id                                     *)
          version,    (* Session.catalog.version                             *)
          overviews,  (* dashboard._CACHE, in insertion order                *)
          closed,     (* history: how often each session was closed          *)
          served,     (* history: when each session was last handed out      *)
          pc,         (* where each request's thread is                      *)
          mine        (* its local variables                                 *)

vars == <<now, accounts, order, lastUsed, owner, version, overviews, closed, served, pc, mine>>

Kinds == {"create", "open", "overview", "delete", "leave"}
Overview == [id : Ids, version : Nat, of : Nat]
CacheKey == [id : Ids, version : Nat]
Locals == [kind : Kinds, user : Users, id : Ids, stamp : Nat, dropped : Seq(Ids), todo : Seq(Ids),
           key : CacheKey, plan : Nat, stale : Seq(CacheKey)]
Stages == {"idle", "timing", "locking", "closing", "looking", "planning", "building", "dropping",
           "clearing", "forgetting", "inserting", "trimming", "discarding", "listing", "erasing",
           "done", "gone", "raised"}

Created == {id \in Ids : owner[id] # Nobody}
AnyId == CHOOSE id \in Ids : TRUE
Fresh == [kind |-> "open", user |-> CHOOSE u \in Users : TRUE, id |-> AnyId, stamp |-> 0, dropped |-> <<>>,
          todo |-> <<>>, key |-> [id |-> AnyId, version |-> 0], plan |-> 0, stale |-> <<>>]

Init ==
  /\ now = 0
  /\ accounts = Users
  /\ order = Existing
  /\ lastUsed = [id \in Ids |-> 0]
  /\ owner = OwnerAtFirst
  /\ version = [id \in Ids |-> IF id \in ToSet(Existing) THEN 1 ELSE 0]
  /\ overviews = <<>>
  /\ closed = [id \in Ids |-> 0]
  /\ served = [id \in Ids |-> 0]
  /\ pc = [r \in Requests |-> "idle"]
  /\ mine = [r \in Requests |-> Fresh]

Go(r, stage) == pc' = [pc EXCEPT ![r] = stage]
Set(r, field, value) == mine' = [mine EXCEPT ![r][field] = value]

(* The members of a list that are in a set, or are not, in their order:    *)
(* the n-th of them is the one that has n - 1 of them before it.           *)
Only(s, S) ==
  LET at == {i \in DOMAIN s : s[i] \in S}
      Nth(n) == CHOOSE i \in at : Cardinality({j \in at : j < i}) = n - 1
  IN  [n \in 1..Cardinality(at) |-> s[Nth(n)]]
Without(s, gone) == Only(s, ToSet(s) \ gone)
StoreSame == UNCHANGED <<order, lastUsed, owner, served>>

-----------------------------------------------------------------------------
(* user_for_token finds the user's row; the request names a session.       *)
Authenticate(r) ==
  /\ pc[r] = "idle"
  /\ \E kind \in Kinds, user \in accounts, id \in Created :
       /\ mine' = [mine EXCEPT ![r].kind = kind, ![r].user = user, ![r].id = id]
       /\ Go(r, IF kind = "leave" THEN "listing" ELSE "timing")
  /\ UNCHANGED <<now, accounts, version, overviews, closed>> /\ StoreSame

(* now = time.time(), ahead of `with self._lock`. *)
ReadClock(r) ==
  /\ pc[r] = "timing"
  /\ Set(r, "stamp", now)
  /\ Go(r, "locking")
  /\ UNCHANGED <<now, accounts, version, overviews, closed>> /\ StoreSame

Expired(id, stamp) == stamp - lastUsed[id] > Ttl

(* SessionStore.create under the lock: expired sessions go, then the least *)
(* recently used until there is room.                                      *)
Surplus(all) == Len(all) - MaxSessions

Create(r) ==
  LET stamp == mine[r].stamp
      expired == {id \in ToSet(order) : Expired(id, stamp)}
  IN  /\ pc[r] = "locking" /\ mine[r].kind = "create"
      /\ \E id \in Ids \ Created :
           LET all == Append(Without(order, expired), id)
               n == IF Surplus(all) > 0 THEN Surplus(all) ELSE 0
           IN  /\ order' = SubSeq(all, n + 1, Len(all))
               /\ mine' = [mine EXCEPT ![r].dropped = Only(order, expired) \o SubSeq(all, 1, n), ![r].id = id]
               /\ lastUsed' = [lastUsed EXCEPT ![id] = stamp]
               /\ served' = [served EXCEPT ![id] = now]
               /\ owner' = [owner EXCEPT ![id] = mine[r].user]
      /\ Go(r, "closing")
      /\ UNCHANGED <<now, accounts, version, overviews, closed>>

(* SessionStore.get under the lock, and _session's check of the owner.     *)
NotRefreshed(id) == order
Refreshed(id) == Append(Without(order, {id}), id)
ExpiredKept(id) == order
ExpiredGone(id) == Without(order, {id})

Get(r) ==
  LET id == mine[r].id
      stamp == mine[r].stamp
      theirs == mine[r].user = owner[id]
      next == CASE ~theirs -> "gone" [] mine[r].kind = "open" -> "done"
                [] mine[r].kind = "overview" -> "looking" [] OTHER -> "dropping"
  IN  /\ pc[r] = "locking" /\ mine[r].kind # "create"
      /\ \/ /\ id \notin ToSet(order)
            /\ Go(r, "gone") /\ UNCHANGED mine /\ StoreSame
         \/ /\ id \in ToSet(order) /\ Expired(id, stamp)
            /\ order' = ExpiredGone(id)
            /\ Set(r, "dropped", <<id>>) /\ Go(r, "closing")
            /\ UNCHANGED <<lastUsed, owner, served>>
         \/ /\ id \in ToSet(order) /\ ~Expired(id, stamp)
            /\ order' = Refreshed(id)
            /\ lastUsed' = [lastUsed EXCEPT ![id] = stamp]
            /\ served' = [served EXCEPT ![id] = now]
            /\ Set(r, "todo", IF theirs /\ mine[r].kind = "delete" THEN <<id>> ELSE <<>>)
            /\ Go(r, next) /\ UNCHANGED owner
      /\ UNCHANGED <<now, accounts, version, overviews, closed>>

(* _close_all, after the lock: one connection at a time, each of which may *)
(* wait for the query that runs on it.                                     *)
Close(r) ==
  LET dropped == mine[r].dropped
  IN  /\ pc[r] = "closing"
      /\ IF dropped = <<>>
         THEN /\ Go(r, CASE mine[r].kind = "create" -> "done"
                         [] mine[r].kind \in {"open", "overview"} -> "gone"
                         [] mine[r].kind = "delete" /\ mine[r].todo = <<>> -> "gone"
                         [] OTHER -> "clearing")
              /\ UNCHANGED <<mine, closed>>
         ELSE /\ closed' = [closed EXCEPT ![Head(dropped)] = @ + 1]
              /\ Set(r, "dropped", Tail(dropped)) /\ UNCHANGED pc
      /\ UNCHANGED <<now, accounts, version, overviews>> /\ StoreSame

-----------------------------------------------------------------------------
(* Deleting: _drop_session for one session (delete_session) or for each of *)
(* the user's (delete_me).                                                 *)

List(r) ==
  /\ pc[r] = "listing"
  /\ Set(r, "todo", Only(order, {id \in Ids : owner[id] = mine[r].user}))
  /\ Go(r, "dropping")
  /\ UNCHANGED <<now, accounts, version, overviews, closed>> /\ StoreSame

(* SessionStore.delete under the lock; the connection is closed after it.  *)
Drop(r) ==
  LET todo == mine[r].todo
  IN  /\ pc[r] = "dropping"
      /\ IF todo # <<>> /\ Head(todo) \in ToSet(order)
         THEN /\ order' = Without(order, {Head(todo)})
              /\ Set(r, "dropped", <<Head(todo)>>) /\ Go(r, "closing")
         ELSE /\ Go(r, IF todo # <<>> THEN "clearing" ELSE IF mine[r].kind = "leave" THEN "erasing" ELSE "done")
              /\ UNCHANGED <<order, mine>>
      /\ UNCHANGED <<now, accounts, version, overviews, closed, lastUsed, owner, served>>

(* clear_cache: first the session's keys are listed, ... *)
KeysOf(id) ==
  LET of == Only(overviews, {o \in ToSet(overviews) : o.id = id})
  IN  [i \in DOMAIN of |-> [id |-> id, version |-> of[i].version]]

Clear(r) ==
  /\ pc[r] = "clearing"
  /\ Set(r, "stale", KeysOf(Head(mine[r].todo)))
  /\ Go(r, "forgetting")
  /\ UNCHANGED <<now, accounts, version, overviews, closed>> /\ StoreSame

(* ... then they are deleted one by one, which raises for a key another    *)
(* thread has deleted meanwhile.  _remember does the same.                 *)
KeyOf(o) == [id |-> o.id, version |-> o.version]
Cached(key) == \E o \in ToSet(overviews) : KeyOf(o) = key
Uncached(key) == Without(overviews, {o \in ToSet(overviews) : KeyOf(o) = key})

Forget(r) ==
  LET stale == mine[r].stale
  IN  /\ pc[r] = "forgetting"
      /\ \/ /\ stale = <<>>
            /\ IF mine[r].kind = "overview"
               THEN Go(r, "inserting") /\ UNCHANGED mine
               ELSE Go(r, "dropping") /\ Set(r, "todo", Tail(mine[r].todo))
            /\ UNCHANGED overviews
         \/ /\ stale # <<>> /\ Cached(Head(stale))
            /\ overviews' = Uncached(Head(stale))
            /\ Set(r, "stale", Tail(stale)) /\ UNCHANGED pc
         \/ /\ stale # <<>> /\ ~Cached(Head(stale))
            /\ Go(r, "raised") /\ UNCHANGED <<mine, overviews>>
      /\ UNCHANGED <<now, accounts, version, closed>> /\ StoreSame

(* The row of the user goes last. *)
Erase(r) ==
  /\ pc[r] = "erasing"
  /\ accounts' = accounts \ {mine[r].user}
  /\ Go(r, "done")
  /\ UNCHANGED <<now, version, overviews, closed, mine>> /\ StoreSame

-----------------------------------------------------------------------------
(* The overview: build. *)

KeyOfAnyVersion(id) == [id |-> id, version |-> 0]
KeyNow(id) == [id |-> id, version |-> version[id]]

LookUp(r) ==
  LET key == KeyNow(mine[r].id)
  IN  /\ pc[r] = "looking"
      /\ Set(r, "key", key)
      /\ Go(r, IF Cached(key) THEN "done" ELSE "planning")
      /\ UNCHANGED <<now, accounts, version, overviews, closed>> /\ StoreSame

(* _plan takes the catalog a second time. *)
Plan(r) ==
  /\ pc[r] = "planning"
  /\ Set(r, "plan", version[mine[r].id])
  /\ Go(r, "building")
  /\ UNCHANGED <<now, accounts, version, overviews, closed>> /\ StoreSame

(* The queries run for seconds, and raise when the session was closed; an  *)
(* overview of no files, or of remarks on their quality, has none.         *)
(* _remember begins with the session's keys.                               *)
Build(r) ==
  /\ pc[r] = "building"
  /\ \/ mine[r].plan > 0 /\ closed[mine[r].id] > 0 /\ Go(r, "raised") /\ UNCHANGED mine
     \/ Go(r, "forgetting") /\ Set(r, "stale", KeysOf(mine[r].id))
  /\ UNCHANGED <<now, accounts, version, overviews, closed>> /\ StoreSame

Insert(r) ==
  LET key == mine[r].key
      new == [id |-> key.id, version |-> key.version, of |-> mine[r].plan]
  IN  /\ pc[r] = "inserting"
      /\ overviews' = IF Cached(key)
                      THEN [i \in DOMAIN overviews |-> IF KeyOf(overviews[i]) = key THEN new ELSE overviews[i]]
                      ELSE Append(overviews, new)
      /\ Go(r, "trimming")
      /\ UNCHANGED <<now, accounts, version, closed, mine>> /\ StoreSame

(* while len(_CACHE) > _CACHE_CAP: del _CACHE[next(iter(_CACHE))] *)
Overfull == Len(overviews) > CacheCap

Trim(r) ==
  /\ pc[r] = "trimming"
  /\ IF Overfull
     THEN Go(r, "discarding") /\ Set(r, "key", KeyOf(Head(overviews)))
     ELSE Go(r, "done") /\ UNCHANGED mine
  /\ UNCHANGED <<now, accounts, version, overviews, closed>> /\ StoreSame

Discard(r) ==
  /\ pc[r] = "discarding"
  /\ IF Cached(mine[r].key)
     THEN overviews' = Uncached(mine[r].key) /\ Go(r, "trimming")
     ELSE Go(r, "raised") /\ UNCHANGED overviews
  /\ UNCHANGED <<now, accounts, version, closed, mine>> /\ StoreSame

-----------------------------------------------------------------------------
(* Files, links or the glossary of a session change; those of a closed one *)
(* may, when the request found it before.                                  *)
Operate(id) ==
  /\ id \in Created /\ version[id] < MaxVersion
  /\ version' = [version EXCEPT ![id] = @ + 1]
  /\ UNCHANGED <<now, accounts, overviews, closed, pc, mine>> /\ StoreSame

(* A thread that read the clock gets the lock within Dawdle. *)
Tick ==
  /\ now < MaxTime
  /\ \A r \in Requests : pc[r] = "locking" => now + 1 - mine[r].stamp <= Dawdle
  /\ now' = now + 1
  /\ UNCHANGED <<accounts, version, overviews, closed, pc, mine>> /\ StoreSame

Progress(r) ==
  \/ ReadClock(r) \/ Create(r) \/ Get(r) \/ Close(r) \/ List(r) \/ Drop(r) \/ Clear(r) \/ Forget(r)
  \/ Erase(r) \/ LookUp(r) \/ Plan(r) \/ Build(r) \/ Insert(r) \/ Trim(r) \/ Discard(r)

Next == Tick \/ (\E r \in Requests : Authenticate(r) \/ Progress(r)) \/ (\E id \in Ids : Operate(id))

Spec == Init /\ [][Next]_vars

-----------------------------------------------------------------------------
TypeOK ==
  /\ now \in Nat /\ accounts \subseteq Users
  /\ order \in Seq(Created) /\ IsInjective(order) /\ Len(order) <= MaxSessions
  /\ lastUsed \in [Ids -> Nat] /\ served \in [Ids -> Nat]
  /\ owner \in [Ids -> Users \cup {Nobody}]
  /\ version \in [Ids -> Nat] /\ closed \in [Ids -> Nat]
  /\ overviews \in Seq(Overview)
  /\ pc \in [Requests -> Stages] /\ mine \in [Requests -> Locals]

(* "Close sessions the store has already forgotten": every session that    *)
(* was created is in the store, or with exactly one thread that is going   *)
(* to close it, or closed, once; however requests that evict, expire and   *)
(* delete it meet.                                                         *)
Holding(r, id) == Cardinality({i \in DOMAIN mine[r].dropped : mine[r].dropped[i] = id})
OneHolder ==
  \A id \in Created :
    LET holders == {r \in Requests : Holding(r, id) > 0}
    IN  /\ \A r \in holders : Holding(r, id) = 1
        /\ Cardinality(holders) + closed[id] + (IF id \in ToSet(order) THEN 1 ELSE 0) = 1

(* "LRU + TTL store": create and get drop a session only when it has not   *)
(* been handed out for the time to live, but for how long a thread may     *)
(* wait for the lock, or when the store is full and every other that stays *)
(* was handed out since; and no session is handed out after longer.        *)
DropsAreDue ==
  [][\A r \in Requests : pc[r] = "locking" /\ pc'[r] # "locking" =>
       /\ \A id \in ToSet(order) \ ToSet(order') :
            \/ now - served[id] > Ttl - Dawdle
            \/ /\ Len(order') = MaxSessions
               /\ \A other \in ToSet(order) \cap ToSet(order') : served[other] >= served[id]
       /\ \A id \in ToSet(order) : mine[r].id = id /\ pc'[r] \in {"done", "looking", "dropping"}
            => now - served[id] <= Ttl + Dawdle]_vars

(* "Computed once per catalog version": an overview that is served from    *)
(* the cache was computed from the version of the catalog the session has. *)
OverviewIsCurrent ==
  [][\A r \in Requests : pc[r] = "looking" /\ pc'[r] = "done" =>
       \E o \in ToSet(overviews) : o.id = mine[r].id /\ KeyOf(o) = mine'[r].key /\ o.of = version[o.id]]_vars

(* "Keep the dict small" (_remember): the cache is over its size by no     *)
(* more than the threads about to trim, and those that raised instead of   *)
(* trimming on, as one does for a key that another thread has deleted.     *)
OverviewsBounded ==
  /\ Len(overviews) <=
       CacheCap + Cardinality({r \in Requests : pc[r] \in {"trimming", "discarding", "raised"}})
  /\ IsInjective([i \in DOMAIN overviews |-> KeyOf(overviews[i])])

(* "Everything this server holds for one session: the tables, [...] and    *)
(* the overview computed from them" (_drop_session): when the request that *)
(* deletes a session is done, none of it is left.                          *)
DeletedIsGone ==
  \A r \in Requests : pc[r] = "done" /\ mine[r].kind = "delete" =>
    /\ mine[r].id \notin ToSet(order)
    /\ \A o \in ToSet(overviews) : o.id # mine[r].id
=============================================================================
