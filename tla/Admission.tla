------------------------------ MODULE Admission ------------------------------
(***************************************************************************)
(* How a question is let in, charged, answered and let go: Limits.question *)
(* and Limits.refund_question (app/limits.py), entered by the browser's    *)
(* ask route (app/main.py) and by the MCP tool `ask` (app/mcp_server.py).  *)
(*                                                                         *)
(* Every question is a thread of its own.  The browser's questions are     *)
(* admitted on the one event loop, MCP's in worker threads, and refunds    *)
(* and slot releases always in worker threads, so the five counters of a   *)
(* question are charged and refunded one lock at a time between those of   *)
(* the others.  A counter is the SlidingWindow of that module without the  *)
(* eviction of keys.  A charge reads the clock, and counts when it gets    *)
(* the counter's lock: by then others may have counted later times.        *)
(***************************************************************************)
EXTENDS Integers, Sequences, FiniteSets

CONSTANTS Questions,    (* the requests                                      *)
          Mcp,          (* those that come in through MCP                    *)
          Ips, Users, Sessions,
          IpOf, UserOf, SessionOf,   (* who asks each question, and where    *)
          Total,        (* max_concurrent_asks                               *)
          PerIp,        (* max_concurrent_asks_per_ip                        *)
          HourLimit, DayLimit, SessionLimit,
          Hour, Day,    (* the two window lengths, in ticks                  *)
          Patience,     (* no question is in flight for longer than this     *)
          MaxTime       (* BOUND of the model: the clock stops here          *)

ASSUME AdmissionAssumption ==
  /\ IsFiniteSet(Questions) /\ Mcp \subseteq Questions
  /\ Ips \cap Users = {}   \* _user_key: a user id never lands on an address's count
  /\ IpOf \in [Questions -> Ips]
  /\ UserOf \in [Questions -> Users]
  /\ SessionOf \in [Questions -> Sessions]
  /\ {Total, PerIp, HourLimit, DayLimit, SessionLimit} \subseteq Nat
  /\ {Hour, Day, Patience, MaxTime} \subseteq Nat

VARIABLES now,      (* the limiter's clock                                 *)
          inFlight, (* ConcurrencyGate._in_flight                          *)
          hits,     (* the stored hits of every counter                    *)
          read,     (* what each question's charge has read of the clock   *)
          stage,    (* where each question's code is                       *)
          step,     (* how many of its charges or refunds it has made      *)
          charges,  (* history: when its counters counted it, in order     *)
          cached,   (* the answer came from the shared cache               *)
          told      (* the caller has its answer, error or refusal         *)

vars == <<now, inFlight, hits, read, stage, step, charges, cached, told>>

Windows == {"hour", "day", "session"}
Counters == ({"hour", "day"} \X (Ips \cup Users)) \cup ({"session"} \X Sessions)
(* The list of times of a counter: `n` is a hit's place in it.  `counted`  *)
(* is history, the moment the hit was stored, which may be after the time. *)
Hit == [at : Nat, counted : Nat, n : Nat \ {0}]

NotRead == -1

Stages == {"idle", "charging", "undoing", "admitted", "answering",
           "refunding", "leaving", "telling", "done", "busy", "refused"}

LimitOf(c) == CASE c[1] = "hour" -> HourLimit [] c[1] = "day" -> DayLimit [] OTHER -> SessionLimit
SpanOf(c) == IF c[1] = "hour" THEN Hour ELSE Day

(* The order in which question() charges its counters ... *)
Charges(q) == << <<"hour", IpOf[q]>>, <<"day", IpOf[q]>>, <<"hour", UserOf[q]>>,
                 <<"day", UserOf[q]>>, <<"session", SessionOf[q]>> >>

(* ... and refund_question() gives them back. *)
RefundsAddressOnly(q) == << <<"hour", IpOf[q]>>, <<"day", IpOf[q]>>, <<"session", SessionOf[q]>> >>
Refunds(q) == << <<"hour", IpOf[q]>>, <<"day", IpOf[q]>>, <<"session", SessionOf[q]>>,
                 <<"hour", UserOf[q]>>, <<"day", UserOf[q]>> >>

(* The hits a call counts that has read the time t. *)
Live(c, t) == {h \in hits[c] : t - h.at < SpanOf(c)}

(* The last of the list, and the place of the next. *)
Newest(S) == CHOOSE h \in S : \A g \in S : g.n <= h.n
NextPlace(S) == IF S = {} THEN 1 ELSE Newest(S).n + 1

(* sum(_in_flight.values()): the slots taken, one by one. *)
Slots(f) == UNION {{i} \X (1..f[i]) : i \in Ips}

Holding == {"charging", "undoing", "admitted", "answering", "refunding", "leaving"}
Holders == {q \in Questions : stage[q] \in Holding}
HoldersFrom(ip) == {q \in Holders : IpOf[q] = ip}

(* The browser route does not await between entering the limiter and      *)
(* starting the thread, so no second one is admitted meanwhile.           *)
LoopFree(q) ==
  q \notin Mcp => \A p \in Questions \ Mcp : stage[p] \notin {"charging", "undoing", "admitted"}

Go(q, s) == stage' = [stage EXCEPT ![q] = s]

Init ==
  /\ now = 0
  /\ inFlight = [i \in Ips |-> 0]
  /\ hits = [c \in Counters |-> {}]
  /\ read = [q \in Questions |-> NotRead]
  /\ stage = [q \in Questions |-> "idle"]
  /\ step = [q \in Questions |-> 0]
  /\ charges = [q \in Questions |-> <<>>]
  /\ cached = [q \in Questions |-> FALSE]
  /\ told = [q \in Questions |-> FALSE]

(* ConcurrencyGate.hold, on the way in: the address first, then everybody. *)
GateOpen(q) == inFlight[IpOf[q]] < PerIp /\ Cardinality(Slots(inFlight)) < Total

EnterGate(q) ==
  /\ stage[q] = "idle" /\ LoopFree(q)
  /\ IF GateOpen(q)
     THEN /\ inFlight' = [inFlight EXCEPT ![IpOf[q]] = @ + 1]
          /\ Go(q, "charging") /\ UNCHANGED told
     ELSE /\ Go(q, "busy") /\ told' = [told EXCEPT ![q] = TRUE]
          /\ UNCHANGED inFlight
  /\ UNCHANGED <<now, hits, read, step, charges, cached>>

(* _charge, before the lock of the next counter. *)
ReadClock(q) ==
  /\ stage[q] = "charging" /\ read[q] = NotRead
  /\ read' = [read EXCEPT ![q] = now]
  /\ UNCHANGED <<now, inFlight, hits, stage, step, charges, cached, told>>

(* One _charge: allow() on the next counter.  When every counter agreed,   *)
(* the body of the `with` starts; a refusal starts the undoing of the      *)
(* charges made so far.                                                    *)
Charge(q) ==
  LET c == Charges(q)[step[q] + 1]
      last == step[q] + 1 = Len(Charges(q))
      live == Live(c, read[q])
  IN  /\ stage[q] = "charging" /\ read[q] # NotRead
      /\ IF Cardinality(live) < LimitOf(c)
         THEN /\ hits' = [hits EXCEPT ![c] =
                           live \cup {[at |-> read[q], counted |-> now, n |-> NextPlace(live)]}]
              /\ charges' = [charges EXCEPT ![q] = Append(@, now)]
              /\ step' = [step EXCEPT ![q] = IF last THEN 0 ELSE @ + 1]
              /\ Go(q, IF ~last THEN "charging" ELSE IF q \in Mcp THEN "answering" ELSE "admitted")
         ELSE /\ hits' = [hits EXCEPT ![c] = live]
              /\ Go(q, "undoing")
              /\ step' = [step EXCEPT ![q] = 0]
              /\ UNCHANGED charges
      /\ read' = [read EXCEPT ![q] = NotRead]
      /\ UNCHANGED <<now, inFlight, cached, told>>

(* refund(): the hit stored last, whoever it belongs to and whatever its time. *)
PopNewest(c) == IF hits[c] = {} THEN {} ELSE hits[c] \ {Newest(hits[c])}

(* One turn of the loop in question() that gives charged hits back. *)
Undone(q) == step[q] = Len(charges[q])

UndoCharge(q) ==
  LET c == Charges(q)[step[q] + 1]
  IN  /\ stage[q] = "undoing" /\ ~Undone(q)
      /\ hits' = [hits EXCEPT ![c] = PopNewest(c)]
      /\ step' = [step EXCEPT ![q] = @ + 1]
      /\ UNCHANGED <<now, inFlight, read, stage, charges, cached, told>>

(* The refusal leaves question(): the slot is freed, the caller gets a 429. *)
Refuse(q) ==
  /\ stage[q] = "undoing" /\ Undone(q)
  /\ inFlight' = [inFlight EXCEPT ![IpOf[q]] = @ - 1]
  /\ Go(q, "refused")
  /\ told' = [told EXCEPT ![q] = TRUE]
  /\ UNCHANGED <<now, hits, read, step, charges, cached>>

(* Thread.start(): it may fail, and then the route frees the slot itself. *)
FreedByRouteNever(q) == inFlight
FreedByRoute(q) == [inFlight EXCEPT ![IpOf[q]] = @ - 1]

StartThread(q) ==
  /\ stage[q] = "admitted"
  /\ Go(q, "answering")
  /\ UNCHANGED <<now, inFlight, hits, read, step, charges, cached, told>>

StartFails(q) ==
  /\ stage[q] = "admitted"
  /\ inFlight' = FreedByRoute(q)
  /\ Go(q, "done")
  /\ told' = [told EXCEPT ![q] = TRUE]
  /\ UNCHANGED <<now, hits, read, step, charges, cached>>

(* What follows the answer: the slot is freed before the answer is sent. *)
AfterNeverTells(s) == CASE s = "answering" -> "leaving" [] s = "refunding" -> "leaving"
                        [] s = "leaving" -> "done" [] s = "telling" -> "done"
After(s) == CASE s = "answering" -> "leaving" [] s = "refunding" -> "leaving"
              [] s = "leaving" -> "telling" [] s = "telling" -> "done"

(* answer_question returned; it never raises.  Only a cached answer of a   *)
(* question is refunded.                                                   *)
Answer(q) ==
  /\ stage[q] = "answering"
  /\ \E hit \in BOOLEAN :
       /\ cached' = [cached EXCEPT ![q] = hit]
       /\ Go(q, IF hit THEN "refunding" ELSE After("answering"))
  /\ UNCHANGED <<now, inFlight, hits, read, step, charges, told>>

(* One turn of the loop in refund_question(). *)
RefundOne(q) ==
  LET c == Refunds(q)[step[q] + 1]
      last == step[q] + 1 = Len(Refunds(q))
  IN  /\ stage[q] = "refunding"
      /\ hits' = [hits EXCEPT ![c] = PopNewest(c)]
      /\ step' = [step EXCEPT ![q] = IF last THEN 0 ELSE @ + 1]
      /\ Go(q, IF last THEN After("refunding") ELSE "refunding")
      /\ UNCHANGED <<now, inFlight, read, charges, cached, told>>

(* The `finally` of ConcurrencyGate.hold. *)
Leave(q) ==
  /\ stage[q] = "leaving"
  /\ inFlight' = [inFlight EXCEPT ![IpOf[q]] = @ - 1]
  /\ Go(q, After("leaving"))
  /\ UNCHANGED <<now, hits, read, step, charges, cached, told>>

(* events.put(final), or the return of the MCP tool. *)
Tell(q) ==
  /\ stage[q] = "telling"
  /\ told' = [told EXCEPT ![q] = TRUE]
  /\ Go(q, After("telling"))
  /\ UNCHANGED <<now, inFlight, hits, read, step, charges, cached>>

(* Time passes, but no question outlives its patience: the pipeline has a  *)
(* budget of a minute or two and the windows are an hour and a day.        *)
Tick ==
  /\ now < MaxTime
  /\ \A q \in Holders : charges[q] # <<>> => now + 1 - charges[q][1] <= Patience
  /\ now' = now + 1
  /\ UNCHANGED <<inFlight, hits, read, stage, step, charges, cached, told>>

Progress(q) ==
  \/ ReadClock(q) \/ Charge(q) \/ UndoCharge(q) \/ Refuse(q) \/ StartThread(q)
  \/ StartFails(q) \/ Answer(q) \/ RefundOne(q) \/ Leave(q) \/ Tell(q)

Next == Tick \/ \E q \in Questions : EnterGate(q) \/ Progress(q)

Spec == Init /\ [][Next]_vars

(* A thread that runs keeps running; nobody is forced to ask. *)
FairSpec == Spec /\ \A q \in Questions : WF_vars(Progress(q))

-----------------------------------------------------------------------------
(* Types; a counter never stores more hits than its limit, and no address  *)
(* holds more slots than it may.                                           *)
TypeOK ==
  /\ now \in Nat
  /\ inFlight \in [Ips -> 0..PerIp]
  /\ hits \in [Counters -> SUBSET Hit]
  /\ read \in [Questions -> Nat \cup {NotRead}]
  /\ stage \in [Questions -> Stages]
  /\ step \in [Questions -> 0..5]
  /\ charges \in [Questions -> Seq(Nat)]
  /\ cached \in [Questions -> BOOLEAN]
  /\ told \in [Questions -> BOOLEAN]

(* The gate's counts are the questions really being worked on, whichever   *)
(* way each of them ends (answered, refused by a counter, thread that did  *)
(* not start), and there are never more of those than the host can take.   *)
SlotsExact ==
  /\ \A i \in Ips : inFlight[i] = Cardinality(HoldersFrom(i))
  /\ \A i \in Ips : Cardinality(HoldersFrom(i)) <= PerIp
  /\ Cardinality(Holders) <= Total

(* "A refused question costs the visitor nothing" and a cached one is      *)
(* free: whatever time a call has read, a counter shows it no more recent  *)
(* hits than there are recent questions that cost something, however       *)
(* charges, refunds and expiry of different questions interleave.  Recent  *)
(* is what was counted within the window.  (By the times that were read it *)
(* is not so: a refund takes the hit stored last, and with calls served    *)
(* out of order that may be an older one than the refunded question's.)    *)
Free(q) ==
  \/ stage[q] = "refused"
  \/ cached[q] /\ stage[q] \in {"leaving", "telling", "done"}

Owing(c, t) ==
  {q \in Questions : /\ ~Free(q)
                     /\ \E i \in 1..Len(charges[q]) :
                          Charges(q)[i] = c /\ t - charges[q][i] < SpanOf(c)}

NothingFreeIsCounted ==
  \A c \in Counters, t \in 0..now :
    hits[c] # {} => Cardinality(Live(c, t)) <= Cardinality(Owing(c, t))

(* "Allows limit hits per key in any window_s seconds": the questions that *)
(* were answered at a cost, inside one window of a counter, are never more *)
(* than its limit.  (They can be, even if every charge gets its lock at    *)
(* once: a refund gives back the hit stored last, and when that is a later *)
(* question's, the older hit left in its place expires too early.)         *)
NeverOverdrawn ==
  \A c \in Counters :
    Cardinality({q \in Owing(c, now) : stage[q] = "done"}) <= LimitOf(c)

(* "The visitor's next question never races their previous one": a         *)
(* question is turned away as busy only while as many earlier ones as the  *)
(* gate admits have not been answered yet, as their callers see it.        *)
Waiting(p) == stage[p] \notin {"idle", "busy"} /\ ~told[p]

BusyIsTrue ==
  [][\A q \in Questions : stage[q] = "idle" /\ stage'[q] = "busy" =>
       \/ Cardinality({p \in Questions : Waiting(p) /\ IpOf[p] = IpOf[q]}) >= PerIp
       \/ Cardinality({p \in Questions : Waiting(p)}) >= Total]_vars

(* Every question that gets past the gate ends with something said to its  *)
(* caller and with its slot free again.                                    *)
EveryCallerIsAnswered ==
  \A q \in Questions : stage[q] = "charging" ~> told[q] /\ stage[q] \notin Holding
=============================================================================
