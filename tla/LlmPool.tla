------------------------------ MODULE LlmPool ------------------------------
(* The pool of language models: PoolClient and the two process-wide tables  *)
(* behind it (backend/app/llm/client.py).  Several threads complete calls   *)
(* at once; each walks the chain of entries, skips those on cooldown or out *)
(* of tokens, reserves an estimate while its request is in flight, and may  *)
(* nap.  Every locked section of the code is one action.                    *)
(*                                                                          *)
(* Times are kept as the seconds that are left, so the clock needs no bound:*)
(* the code only ever compares a stored time with the present.              *)
EXTENDS Integers, Sequences, FiniteSets, SequencesExt, FiniteSetsExt

CONSTANTS
  Calls,          \* the calls of complete(), one thread each
  Entries,        \* the (provider, model) pairs
  Chain,          \* [Calls -> Seq(Entries)]: config.chain(role) of the call
  Avoided,        \* [Calls -> SUBSET Entries]: entries with avoid_model's weights
  Waits,          \* the calls with role "sql": the only ones that may nap
  WithSchema,     \* the calls that ask for JSON
  Prompt,         \* [Calls -> a value]: what the disk cache is keyed by
  Need,           \* [Calls -> Nat]: _estimated_tokens of the call
  Hints,          \* the delays a 429 can name, after clamping
  Trouble,        \* TROUBLE_COOLDOWN_S
  Parked,         \* PARKED_S
  Allowances,     \* the token counts a success can report
  Resets,         \* the seconds until such an allowance refills
  MaxWaits,       \* MAX_WAITS
  MaxWaitS,       \* settings.llm_max_wait_s
  MinHint,        \* MIN_RETRY_HINT_S
  CallsPerDay,    \* settings.llm_calls_per_day
  LastDay         \* bound: midnights are counted up to here

ASSUME PoolAssumption ==
  /\ IsFiniteSet(Calls)
  /\ Chain \in [Calls -> Seq(Entries)]
  /\ Avoided \in [Calls -> SUBSET Entries]
  /\ Waits \subseteq Calls
  /\ WithSchema \subseteq Calls
  /\ Need \in [Calls -> Nat \ {0}]
  /\ Hints \subseteq Nat \ {0}
  /\ Trouble \in Nat \ {0}
  /\ Parked \in Nat \ {0}
  /\ \A h \in Hints \cup {Trouble} : h <= Parked
  /\ Allowances \subseteq Nat
  /\ Resets \subseteq Nat
  /\ {MaxWaits, MaxWaitS, MinHint, CallsPerDay, LastDay} \subseteq Nat

VARIABLES
  health,     \* _health: [Entries -> [cool, why, left, reset, reserved]]
  budget,     \* _budget: [day, calls]
  floor,      \* _format_floor: [Entries -> 0 .. 2]
  cached,     \* the disk cache: <<entry, prompt>>
  call,       \* [Calls -> the locals of _complete and the functions it calls]
  day,        \* the UTC calendar
  parked      \* history: [Entries -> seconds left since a key was last rejected]

poolVars == <<health, budget, floor, cached, call, day, parked>>

NoLimit == -1                   \* tokens_left is None
Unset == -1                     \* no retry_after_s
LastFormat == 2                 \* "none", the last rung of _FORMATS
Reasons == {"", "busy", "key rejected"}
Places == {"new", "look", "reserve", "today", "spend", "sent", "settle", "note",
           "soonest", "nap", "giveup", "done"}
Endings == {"none", "answered", "unconfigured", "refused", "spent", "busy", "badkeys"}

(* What a failed request leaves behind (_plain_reason, _cooldown_s and the   *)
(* clamped hint of a 429): a delay, and whether the key was rejected.  A     *)
(* delay of 0 is a refusal of this request by a healthy entry.              *)
Failures ==
  {[why |-> "busy", cool |-> s] : s \in Hints \cup {Trouble, Parked}} \cup
  {[why |-> "key rejected", cool |-> Parked], [why |-> "", cool |-> 0]}
NoFailure == [why |-> "", cool |-> -1]

Healthy == [cool |-> 0, why |-> "", left |-> NoLimit, reset |-> 0, reserved |-> 0]

Fresh == [pc |-> "new", providers |-> <<>>, at |-> 1, walk |-> 0, waited |-> 0,
          nap |-> 0, step |-> 0, today |-> 0, failed |-> NoFailure,
          refusedBy |-> {}, ending |-> "none", hint |-> Unset]

PoolInit ==
  /\ health = [e \in Entries |-> Healthy]
  /\ budget = [day |-> 0, calls |-> 0]
  /\ floor = [e \in Entries |-> 0]
  /\ cached = {}
  /\ call = [c \in Calls |-> Fresh]
  /\ day = 1
  /\ parked = [e \in Entries |-> 0]

----------------------------------------------------------------------------
(* Reading the table.                                                       *)

\* what stands at some places of a list, in their order
KeptAt(s, places) ==
  LET nth(n) == CHOOSE i \in places : Cardinality({j \in places : j < i}) = n - 1
  IN [n \in 1..Cardinality(places) |-> s[nth(n)]]

\* dict.fromkeys: the order of first appearance, without repeats
Distinct(s) == KeptAt(s, {i \in DOMAIN s : \A k \in 1..(i - 1) : s[k] # s[i]})

Usable(c) == KeptAt(Chain[c], {i \in DOMAIN Chain[c] : Chain[c][i] \notin Avoided[c]})

\* a walk goes over a copy of providers, so removals do not shift it
Walked(c) == call[c].providers
Here(c) == Walked(c)[call[c].at]
Remaining(c) == KeptAt(Walked(c), {i \in DOMAIN Walked(c) : Walked(c)[i] \notin call[c].refusedBy})

Starved(e, need) == /\ health[e].left # NoLimit
                    /\ health[e].left - health[e].reserved < need

(* _blocked_for: the seconds until the entry may be tried; its reason counts *)
(* only while it is cooling.                                                *)
BlockedFor(e, need) ==
  IF health[e].cool > 0 THEN health[e].cool
  ELSE IF Starved(e, need) THEN health[e].reset ELSE 0

KeyRejected(e) == health[e].cool > 0 /\ health[e].why = "key rejected"

Busy(c) == {e \in Range(Remaining(c)) : ~KeyRejected(e)}
SoonestFree(c) == Min({BlockedFor(e, Need[c]) : e \in Busy(c)})

----------------------------------------------------------------------------
(* One call.                                                                *)

Goto(c, pc) == call' = [call EXCEPT ![c].pc = pc]

\* the call returns or raises: its locals are gone
EndWith(c, ending, hint) ==
  call' = [call EXCEPT ![c] = [Fresh EXCEPT !.pc = "done", !.ending = ending, !.hint = hint]]

\* the next entry of this walk, or the end of the walk
Onward(record) ==
  IF record.at < Len(record.providers)
  THEN [record EXCEPT !.pc = "look", !.at = @ + 1]
  ELSE [record EXCEPT !.pc = "soonest", !.at = 1]

NewWalk(c) ==
  call' = [call EXCEPT ![c].pc = "look", ![c].providers = Remaining(c), ![c].walk = @ + 1]

Start(c) ==
  LET providers == Distinct(Usable(c))
  IN /\ call[c].pc = "new"
     /\ IF providers = <<>> THEN EndWith(c, "unconfigured", Unset)
        ELSE IF \E e \in Range(providers) : <<e, Prompt[c]>> \in cached
        THEN EndWith(c, "answered", Unset)
        ELSE call' = [call EXCEPT ![c].pc = "look", ![c].providers = providers]
     /\ UNCHANGED <<health, budget, floor, cached, day, parked>>

Look(c) ==
  /\ call[c].pc = "look"
  /\ IF BlockedFor(Here(c), Need[c]) > 0
     THEN call' = [call EXCEPT ![c] = Onward(@)]
     ELSE Goto(c, "reserve")
  /\ UNCHANGED <<health, budget, floor, cached, day, parked>>

Reserve(c) ==
  /\ call[c].pc = "reserve"
  /\ health' = [health EXCEPT ![Here(c)].reserved = @ + Need[c]]
  /\ call' = [call EXCEPT ![c].pc = "today",
                          ![c].step = IF c \in WithSchema THEN floor[Here(c)] ELSE LastFormat]
  /\ UNCHANGED <<budget, floor, cached, day, parked>>

ReadToday(c) ==
  /\ call[c].pc = "today"
  /\ call' = [call EXCEPT ![c].pc = "spend", ![c].today = day]
  /\ UNCHANGED <<health, budget, floor, cached, day, parked>>

(* The locked section of _spend_one_call.  Its refusal leaves _ask through   *)
(* the finally that gives the reservation back.                             *)
SpendOneCall(c) ==
  LET counted == IF budget.day = call[c].today THEN budget
                 ELSE [day |-> call[c].today, calls |-> 0]
      spent   == counted.calls >= CallsPerDay
  IN /\ call[c].pc = "spend"
     /\ budget' = IF spent THEN counted ELSE [counted EXCEPT !.calls = @ + 1]
     /\ call' = [call EXCEPT ![c].pc = IF spent THEN "settle" ELSE "sent",
                             ![c].today = 0,
                             ![c].ending = IF spent THEN "spent" ELSE @]
     /\ UNCHANGED <<health, floor, cached, day, parked>>

(* The provider says it cannot do the format: one rung down, and remember.  *)
FormatRejected(c) ==
  /\ call[c].pc = "sent"
  /\ call[c].step < LastFormat
  /\ floor' = [floor EXCEPT ![Here(c)] = call[c].step + 1]
  /\ call' = [call EXCEPT ![c].pc = "today", ![c].step = @ + 1]
  /\ UNCHANGED <<health, budget, cached, day, parked>>

RequestFailed(c) ==
  /\ call[c].pc = "sent"
  /\ \E f \in Failures : call' = [call EXCEPT ![c].pc = "settle", ![c].failed = f]
  /\ UNCHANGED <<health, budget, floor, cached, day, parked>>

(* A 200: the allowance it reports is remembered under the lock.  An empty   *)
(* text fails the entry once the reservation is given back.                 *)
RequestAnswered(c) ==
  /\ call[c].pc = "sent"
  /\ \/ UNCHANGED health
     \/ \E left \in Allowances, reset \in Resets :
          health' = [health EXCEPT ![Here(c)].left = left, ![Here(c)].reset = reset]
  /\ \/ call' = [call EXCEPT ![c].pc = "settle", ![c].ending = "answered"]
     \/ call' = [call EXCEPT ![c].pc = "settle", ![c].failed = [why |-> "busy", cool |-> Trouble]]
  /\ UNCHANGED <<budget, floor, cached, day, parked>>

\* mutant: the budget's refusal leaves without the finally
GivenBackUnlessSpent(c) ==
  IF call[c].ending = "spent" THEN health ELSE [health EXCEPT ![Here(c)].reserved = @ - Need[c]]

GivenBack(c) == [health EXCEPT ![Here(c)].reserved = @ - Need[c]]

Settle(c) ==
  LET ending == call[c].ending
  IN /\ call[c].pc = "settle"
     /\ health' = GivenBack(c)
     /\ cached' = IF ending = "answered" THEN cached \cup {<<Here(c), Prompt[c]>>} ELSE cached
     /\ IF ending = "none" THEN Goto(c, "note") ELSE EndWith(c, ending, Unset)
     /\ UNCHANGED <<budget, floor, day, parked>>

\* mutant: the last failure to arrive decides
Overwritten(h, f) == IF f.cool > 0 THEN [h EXCEPT !.cool = f.cool, !.why = f.why] ELSE h

(* A cooldown is only ever extended.                                        *)
Cooled(h, f) == IF f.cool > h.cool THEN [h EXCEPT !.cool = f.cool, !.why = f.why] ELSE h

(* The call after _note_failure: an entry that refused this request is not   *)
(* walked again.                                                            *)
Noted(c) == [call[c] EXCEPT
  !.failed = NoFailure, !.step = 0,
  !.refusedBy = IF call[c].failed.cool = 0 THEN call[c].refusedBy \cup {Here(c)} ELSE call[c].refusedBy]

NoteFailure(c) ==
  LET f == call[c].failed
      e == Here(c)
  IN /\ call[c].pc = "note"
     /\ health' = [health EXCEPT ![e] = Cooled(health[e], f)]
     /\ parked' = IF f.why = "key rejected" THEN [parked EXCEPT ![e] = f.cool] ELSE parked
     /\ call' = [call EXCEPT ![c] = Onward(Noted(c))]
     /\ UNCHANGED <<budget, floor, cached, day>>


MayNap(c) == c \in Waits /\ call[c].walk < MaxWaits
OutOfPatience(c) == Busy(c) = {} \/ call[c].waited + SoonestFree(c) > MaxWaitS

(* The end of a walk: stop, walk again at once, or nap first.               *)
EndOfWalk(c) ==
  /\ call[c].pc = "soonest"
  /\ IF Remaining(c) = <<>> THEN EndWith(c, "refused", Unset)
     ELSE IF ~MayNap(c) \/ OutOfPatience(c) THEN Goto(c, "giveup")
     ELSE IF SoonestFree(c) = 0 THEN NewWalk(c)
     ELSE call' = [call EXCEPT ![c].pc = "nap", ![c].nap = SoonestFree(c),
                               ![c].waited = @ + SoonestFree(c)]
  /\ UNCHANGED <<health, budget, floor, cached, day, parked>>

\* mutant: the sleeper looks for one exact instant and can miss it
RestedJustNow(c) == call[c].nap = 1

Rested(c) == call[c].nap = 0

Wake(c) ==
  /\ call[c].pc = "nap"
  /\ Rested(c)
  /\ NewWalk(c)
  /\ UNCHANGED <<health, budget, floor, cached, day, parked>>

GiveUp(c) ==
  /\ call[c].pc = "giveup"
  /\ IF Busy(c) = {} THEN EndWith(c, "badkeys", Unset)
     ELSE EndWith(c, "busy", Max({MinHint, Min({SoonestFree(c), Parked})}))
  /\ UNCHANGED <<health, budget, floor, cached, day, parked>>

----------------------------------------------------------------------------
(* Time.                                                                    *)

Less(n) == IF n > 0 THEN n - 1 ELSE n

(* A second passes, and with it perhaps midnight.                           *)
Second ==
  /\ \/ \E e \in Entries : health[e].cool > 0 \/ health[e].reset > 0
     \/ \E c \in Calls : call[c].nap > 0
  /\ health' = [e \in Entries |-> [health[e] EXCEPT !.cool = Less(@), !.reset = Less(@)]]
  /\ call' = [c \in Calls |-> [call[c] EXCEPT !.nap = Less(@)]]
  /\ parked' = [e \in Entries |-> Less(parked[e])]
  /\ day' \in {day, Min({day + 1, LastDay})}
  /\ UNCHANGED <<budget, floor, cached>>

Step(c) ==
  \/ Start(c) \/ Look(c) \/ Reserve(c) \/ ReadToday(c) \/ SpendOneCall(c)
  \/ FormatRejected(c) \/ RequestFailed(c) \/ RequestAnswered(c)
  \/ Settle(c) \/ NoteFailure(c) \/ EndOfWalk(c) \/ Wake(c) \/ GiveUp(c)

PoolNext == (\E c \in Calls : Step(c)) \/ Second

(* Threads run, a request ends (it has a timeout of REQUEST_TIMEOUT_S), and  *)
(* seconds pass.                                                            *)
Fairness == WF_poolVars(Second) /\ \A c \in Calls : WF_poolVars(Step(c))

PoolSpec == PoolInit /\ [][PoolNext]_poolVars /\ Fairness

----------------------------------------------------------------------------
(* Properties.                                                              *)

Records == [pc : Places, providers : Seq(Entries), at : Nat, walk : 0..MaxWaits,
            waited : 0..MaxWaitS, nap : 0..MaxWaitS, step : 0..LastFormat,
            today : 0..LastDay, failed : Failures \cup {NoFailure},
            refusedBy : SUBSET Entries, ending : Endings, hint : Int]

(* Every variable has its type; the naps of a call never add up to more     *)
(* than llm_max_wait_s.                                                     *)
PoolTypeOK ==
  /\ health \in [Entries -> [cool : Nat, why : Reasons, left : Allowances \cup {NoLimit},
                             reset : Nat, reserved : Nat]]
  /\ budget \in [day : 0..LastDay, calls : 0..CallsPerDay]
  /\ floor \in [Entries -> 0..LastFormat]
  /\ cached \subseteq Entries \X Range(Prompt)
  /\ call \in [Calls -> Records]
  /\ day \in 1..LastDay
  /\ parked \in [Entries -> Nat]

Holding == {"today", "spend", "sent", "settle"}
InFlight(e) == {c \in Calls : call[c].pc \in Holding /\ Here(c) = e}

(* What is held against an entry's allowance is exactly the estimates of    *)
(* the requests in flight there, however they end: an answer, a failure, a  *)
(* step down the formats or a refusal by the daily budget (_reserve, _ask). *)
ReservationsSettled ==
  \A e \in Entries : health[e].reserved = MapThenSumSet(LAMBDA c : Need[c], InFlight(e))

(* An entry whose key was rejected is left alone for the whole hour,        *)
(* whatever shorter cooldowns the requests that overlap with it report      *)
(* later (_note_failure).                                                   *)
ParkedStaysParked == \A e \in Entries : health[e].cool >= parked[e]

(* A call never sends its request again to an entry that refused it, in     *)
(* this walk or after a nap, even when the chain names the entry twice.     *)
RefusedNotReplayed ==
  \A c \in Calls : call[c].pc \in {"reserve", "today", "spend", "sent"}
                     => Here(c) \notin call[c].refusedBy

(* Only the user's own question naps, and never after its last walk; the    *)
(* naps of one call stay within llm_max_wait_s in total although other      *)
(* calls put the same entries back on cooldown between them.                *)
NapsBounded ==
  \A c \in Calls : /\ call[c].waited <= MaxWaitS
                   /\ call[c].walk <= MaxWaits
                   /\ c \notin Waits => call[c].waited = 0 /\ call[c].walk = 0

(* Every call of complete() ends, with an answer or with one sentence.      *)
EveryCallEnds == \A c \in Calls : <>(call[c].pc = "done")

Unanswered(e) == {c \in Calls : call[c].pc \in {"today", "spend", "sent"} /\ Here(c) = e}
Held(e) == MapThenSumSet(LAMBDA c : Need[c], Unanswered(e))

(* "Calls in flight have not been counted by the provider yet, so their     *)
(* estimate is held against the allowance too, or questions asked at once   *)
(* all pass this same check": a new reservation fits, with the requests     *)
(* still unanswered, in what the provider last said is left.                *)
AllowanceKept ==
  [][\A e \in Entries :
       (health'[e].reserved > health[e].reserved /\ health[e].left # NoLimit /\ health[e].reset > 0)
          => Held(e)' <= health[e].left]_poolVars

(* "Count one outbound request against today's (UTC) budget, or refuse it": *)
(* once the counter stands for the present day, no request sets it back.    *)
CountNeverLost ==
  [][budget.day = day => budget'.day = day /\ budget'.calls >= budget.calls]_poolVars

=============================================================================
