------------------------------ MODULE Answering ------------------------------
(* Questions being answered while the tables under them change:            *)
(* answer_question, _run, _remember (app/query/pipeline.py) against        *)
(* Session.add_files, set_link_status, set_glossary and _publish           *)
(* (app/sessions.py), and the cache all sessions share.                    *)
(*                                                                         *)
(* An operation on a session holds its lock; a question takes no lock at   *)
(* all.  It reads session.catalog, session.history, the database and the   *)
(* cache one after the other in its own thread, and any other thread may   *)
(* run between two of those reads.                                         *)
EXTENDS Naturals, Sequences, FiniteSets, SequencesExt

CONSTANTS Questions, Sessions,
          SessionOf,    (* [Questions -> Sessions]                           *)
          TextOf,       (* [Questions -> the question as typed]              *)
          Data,         (* what a session's tables can hold                  *)
          Nothing,      (* the data of a session without files               *)
          FirstData,    (* what the sessions hold when they are first asked  *)
          Links,        (* statuses of the links and of the combined views   *)
          FirstLinks,
          Glossaries, FirstGlossary,
          AtOnce,       (* max_concurrent_asks: the gate of module Admission *)
          CacheMax,     (* _SHARED_CACHE_MAX                                 *)
          MaxTurns,     (* a session remembers this many turns               *)
          Prompted,     (* how many of them a prompt shows                   *)
          Operations    (* BOUND of the model: [Sessions -> how many times   *)
                        (* the tables or the decisions change]               *)

ASSUME AnsweringAssumption ==
  /\ IsFiniteSet(Questions) /\ SessionOf \in [Questions -> Sessions]
  /\ {Nothing, FirstData} \subseteq Data /\ FirstLinks \in Links /\ FirstGlossary \in Glossaries
  /\ Operations \in [Sessions -> Nat]
  /\ {AtOnce, CacheMax, MaxTurns} \subseteq Nat /\ Prompted \in Nat \ {0}

VARIABLES db,         (* what the session's database holds, committed: its   *)
                      (* tables, and views for one status of the links       *)
          catalog,    (* Session.catalog                                     *)
          history,    (* Session.history, as the SQL of each turn            *)
          update,     (* how far an operation is, under the session's lock   *)
          cache,      (* _SHARED_CACHE, least recently used first            *)
          pc,         (* where each question's thread is                     *)
          mine,       (* its local variables                                 *)
          disturbed   (* history: whether an operation on its session, or a  *)
                      (* turn of another question there, came while it ran   *)

vars == <<db, catalog, history, update, cache, pc, mine, disturbed>>

Texts == {TextOf[q] : q \in Questions} \cup {""}
Catalogs == [data : Data, links : Links, glossary : Glossaries, version : Nat]
Disturbances == SUBSET {"operation", "turn"}
Turns == [sql : Texts, data : Data, disturbed : Disturbances]
CacheKeys == [data : Data, links : Links, glossary : Glossaries, text : Texts, context : Texts]
Answers == [kind : {"error", "answer", "meta"}, data : Data, views : Links, links : Links,
            glossary : Glossaries, turns : Seq(Texts), disturbed : Disturbances]
Entries == [key : CacheKeys, answer : Answers]
Locals == [catalog : Catalogs, hadTurns : BOOLEAN, key : CacheKeys, shown : Seq(Texts), answer : Answers]
Stages == {"idle", "keying", "looking", "hit", "reading", "executing", "storing",
           "evicting", "popping", "remembering", "done", "raised"}

(* An answer, as far as the model tells answers apart: what kind it is     *)
(* ("meta" is a meta answer or a refusal: both are written from the        *)
(* catalog alone, cached, and not remembered; a clarification is neither), *)
(* what tables and views it was computed from, what its prompt was written *)
(* with, and what disturbed its question before it was stored.             *)
NoKey == [data |-> Nothing, links |-> FirstLinks, glossary |-> FirstGlossary,
          text |-> "", context |-> ""]
NoAnswer == [kind |-> "error", data |-> Nothing, views |-> FirstLinks, links |-> FirstLinks,
             glossary |-> FirstGlossary, turns |-> <<>>, disturbed |-> {}]
NoCatalog == [data |-> Nothing, links |-> FirstLinks, glossary |-> FirstGlossary, version |-> 0]
Fresh == [catalog |-> NoCatalog,
          hadTurns |-> FALSE, key |-> NoKey, shown |-> <<>>, answer |-> NoAnswer]

LastOnes(turns, n) == SubSeq(turns, IF Len(turns) > n THEN Len(turns) - n + 1 ELSE 1, Len(turns))

(* The turns a prompt written now shows. *)
LastTurns(s) ==
  LET shown == LastOnes(history[s], Prompted)
  IN  [i \in DOMAIN shown |-> shown[i].sql]

Init ==
  /\ db = [s \in Sessions |-> [data |-> FirstData, links |-> FirstLinks]]
  /\ catalog = [s \in Sessions |-> [NoCatalog EXCEPT !.data = FirstData]]
  /\ history = [s \in Sessions |-> <<>>]
  /\ update = [s \in Sessions |-> "idle"]
  /\ cache = <<>>
  /\ pc = [q \in Questions |-> "idle"]
  /\ mine = [q \in Questions |-> Fresh]
  /\ disturbed = [q \in Questions |-> {}]

Ended == {"idle", "done", "raised"}
Running(s) == {q \in Questions : SessionOf[q] = s /\ pc[q] \notin Ended}
Disturb(whom, how) ==
  disturbed' = [q \in Questions |-> IF q \in whom THEN disturbed[q] \cup {how} ELSE disturbed[q]]
Go(q, stage) == pc' = [pc EXCEPT ![q] = stage]
Set(q, field, value) == mine' = [mine EXCEPT ![q][field] = value]

-----------------------------------------------------------------------------
(* The operations on a session. *)

(* add_files: COMMIT.  From here every cursor sees the new tables. *)
CommitFiles(s, data) ==
  /\ update[s] = "idle" /\ catalog[s].version < Operations[s]
  /\ data # db[s].data
  /\ db' = [db EXCEPT ![s].data = data]
  /\ update' = [update EXCEPT ![s] = "committed"]
  /\ Disturb(Running(s), "operation")
  /\ UNCHANGED <<catalog, history, cache, pc, mine>>

(* "Earlier turns were about a different set of tables." *)
KeptHistory(h) == h
ClearedHistory(h) == <<>>

ClearHistory(s) ==
  /\ update[s] = "committed"
  /\ history' = [history EXCEPT ![s] = ClearedHistory(@)]
  /\ update' = [update EXCEPT ![s] = "cleared"]
  /\ Disturb(Running(s), "operation")
  /\ UNCHANGED <<db, catalog, cache, pc, mine>>

(* The catalog an operation publishes; add_files gives it the fingerprint  *)
(* of the new files.                                                       *)
OldFingerprint(s) == [catalog[s] EXCEPT !.links = db[s].links, !.version = @ + 1]
NewCatalog(s) == [catalog[s] EXCEPT !.data = db[s].data, !.links = db[s].links, !.version = @ + 1]

(* _publish, the last thing add_files and set_link_status do. *)
Publish(s) ==
  /\ update[s] \in {"cleared", "relinked"}
  /\ catalog' = [catalog EXCEPT ![s] = NewCatalog(s)]
  /\ update' = [update EXCEPT ![s] = "idle"]
  /\ Disturb(Running(s), "operation")
  /\ UNCHANGED <<db, history, cache, pc, mine>>

(* set_link_status: COMMIT, with the views built again.  The history stays. *)
CommitLinks(s, links) ==
  /\ update[s] = "idle" /\ catalog[s].version < Operations[s]
  /\ links # db[s].links
  /\ db' = [db EXCEPT ![s].links = links]
  /\ update' = [update EXCEPT ![s] = "relinked"]
  /\ Disturb(Running(s), "operation")
  /\ UNCHANGED <<catalog, history, cache, pc, mine>>

(* set_glossary: a new catalog in one assignment. *)
SetGlossary(s, glossary) ==
  /\ update[s] = "idle" /\ catalog[s].version < Operations[s]
  /\ glossary # catalog[s].glossary
  /\ catalog' = [catalog EXCEPT ![s].glossary = glossary, ![s].version = @ + 1]
  /\ Disturb(Running(s), "operation")
  /\ UNCHANGED <<db, history, update, cache, pc, mine>>

-----------------------------------------------------------------------------
(* The shared cache: an OrderedDict. *)

Keys(c) == {e.key : e \in ToSet(c)}
Place(c, key) == CHOOSE i \in DOMAIN c : c[i].key = key
Entry(c, key) == c[Place(c, key)]
MovedToEnd(c, key) == Append(RemoveAt(c, Place(c, key)), Entry(c, key))

(* c[key] = answer: a new key goes last, a known one stays where it is. *)
Stored(c, key, answer) ==
  IF key \in Keys(c)
  THEN [i \in DOMAIN c |-> IF c[i].key = key THEN [key |-> key, answer |-> answer] ELSE c[i]]
  ELSE Append(c, [key |-> key, answer |-> answer])

-----------------------------------------------------------------------------
(* A question. *)

(* _cache_key reads the catalog, then asks whether there is a last turn. *)
Begin(q) ==
  LET s == SessionOf[q]
  IN  /\ pc[q] = "idle"
      /\ Cardinality({p \in Questions : pc[p] \notin Ended}) < AtOnce
      /\ Go(q, "keying")
      /\ mine' = [mine EXCEPT ![q].catalog = catalog[s], ![q].hadTurns = history[s] # <<>>,
                              ![q].shown = LastTurns(s)]
      /\ disturbed' = [disturbed EXCEPT ![q] = IF update[s] = "idle" THEN {} ELSE {"operation"}]
      /\ UNCHANGED <<db, catalog, history, update, cache>>

KeyWithoutContext(q, cat, context) == [NoKey EXCEPT
  !.data = cat.data, !.links = cat.links, !.glossary = cat.glossary, !.text = TextOf[q]]
Key(q, cat, context) ==
  [data |-> cat.data, links |-> cat.links, glossary |-> cat.glossary,
   text |-> TextOf[q], context |-> context]

(* ... and then takes it: history[-1] of a list that is empty raises. *)
MakeKey(q) ==
  LET turns == history[SessionOf[q]]
  IN  /\ pc[q] = "keying"
      /\ IF mine[q].hadTurns /\ turns = <<>>
         THEN Go(q, "raised") /\ UNCHANGED mine
         ELSE /\ Go(q, "looking")
              /\ Set(q, "key", Key(q, mine[q].catalog, IF mine[q].hadTurns THEN Last(turns).sql ELSE ""))
      /\ UNCHANGED <<db, catalog, history, update, cache, disturbed>>

LookUp(q) ==
  /\ pc[q] = "looking"
  /\ IF mine[q].key \in Keys(cache)
     THEN /\ Go(q, "hit")
          /\ Set(q, "answer", Entry(cache, mine[q].key).answer)
     ELSE Go(q, "reading") /\ UNCHANGED mine
  /\ UNCHANGED <<db, catalog, history, update, cache, disturbed>>

(* move_to_end raises when the key was evicted since the get. *)
Touch(q) ==
  LET key == mine[q].key
  IN  /\ pc[q] = "hit"
      /\ IF key \in Keys(cache)
         THEN /\ cache' = MovedToEnd(cache, key)
              /\ Go(q, "remembering")
         ELSE Go(q, "raised") /\ UNCHANGED cache
      /\ UNCHANGED <<db, catalog, history, update, mine, disturbed>>

(* _run takes the catalog again and builds the prompt from it and from the *)
(* last turns; without tables there is nothing to ask.                     *)
ReadCatalog(q) ==
  LET s == SessionOf[q]
      cat == catalog[s]
  IN  /\ pc[q] = "reading"
      /\ Go(q, IF cat.data = Nothing THEN "done" ELSE "executing")
      /\ Set(q, "answer", [NoAnswer EXCEPT !.links = cat.links, !.glossary = cat.glossary,
                                           !.turns = LastTurns(s)])
      /\ UNCHANGED <<db, catalog, history, update, cache, disturbed>>

(* The prompt of a repair is written from the same catalog and from the    *)
(* turns there are by then.                                                *)
Repair(q) ==
  /\ pc[q] = "executing"
  /\ mine' = [mine EXCEPT ![q].answer.turns = LastTurns(SessionOf[q])]
  /\ UNCHANGED <<db, catalog, history, update, cache, pc, disturbed>>

(* The model's reply: SQL that runs on a cursor of its own, with a result  *)
(* small enough to cache or not; a question about the data, answered from  *)
(* the catalog as it is now; or a failure or a choice for the user.        *)
Execute(q) ==
  LET s == SessionOf[q]
      Computed(kind, data, views) ==
        Set(q, "answer", [mine[q].answer EXCEPT !.kind = kind, !.data = data, !.views = views])
  IN  /\ pc[q] = "executing"
      /\ \/ /\ db[s].data # Nothing
            /\ Computed("answer", db[s].data, db[s].links)
            /\ \E small \in BOOLEAN : Go(q, IF small THEN "storing" ELSE "remembering")
         \/ Computed("meta", catalog[s].data, catalog[s].links) /\ Go(q, "storing")
         \/ Go(q, "done") /\ UNCHANGED mine
      /\ UNCHANGED <<db, catalog, history, update, cache, disturbed>>

Store(q) ==
  /\ pc[q] = "storing"
  /\ LET answer == [mine[q].answer EXCEPT !.disturbed = disturbed[q]]
     IN  cache' = Stored(cache, mine[q].key, answer) /\ Set(q, "answer", answer)
  /\ Go(q, "evicting")
  /\ UNCHANGED <<db, catalog, history, update, disturbed>>

(* while len(_SHARED_CACHE) > _SHARED_CACHE_MAX: popitem(last=False) *)
Overfull == Len(cache) > CacheMax

CheckSize(q) ==
  /\ pc[q] = "evicting"
  /\ Go(q, IF Overfull THEN "popping" ELSE "remembering")
  /\ UNCHANGED <<db, catalog, history, update, cache, mine, disturbed>>

Pop(q) ==
  /\ pc[q] = "popping"
  /\ IF cache = <<>> THEN Go(q, "raised") /\ UNCHANGED cache
                     ELSE Go(q, "evicting") /\ cache' = Tail(cache)
  /\ UNCHANGED <<db, catalog, history, update, mine, disturbed>>

Trimmed(turns) == LastOnes(turns, MaxTurns)

(* _remember: only answers, and only the last few. *)
Remember(q) ==
  LET s == SessionOf[q]
      a == mine[q].answer
      turn == [sql |-> TextOf[q], data |-> a.data, disturbed |-> a.disturbed \cup disturbed[q]]
  IN  /\ pc[q] = "remembering"
      /\ IF a.kind = "answer"
         THEN /\ history' = [history EXCEPT ![s] = Trimmed(Append(@, turn))]
              /\ Disturb(Running(s) \ {q}, "turn")
         ELSE UNCHANGED <<history, disturbed>>
      /\ Go(q, "done")
      /\ UNCHANGED <<db, catalog, update, cache, mine>>

Progress(q) ==
  \/ MakeKey(q) \/ LookUp(q) \/ Touch(q) \/ ReadCatalog(q) \/ Repair(q)
  \/ Execute(q) \/ Store(q) \/ CheckSize(q) \/ Pop(q) \/ Remember(q)

Next ==
  \/ \E q \in Questions : Begin(q) \/ Progress(q)
  \/ \E s \in Sessions :
       \/ \E data \in Data \ {Nothing} : CommitFiles(s, data)
       \/ ClearHistory(s) \/ Publish(s)
       \/ \E links \in Links : CommitLinks(s, links)
       \/ \E glossary \in Glossaries : SetGlossary(s, glossary)

Spec == Init /\ [][Next]_vars

-----------------------------------------------------------------------------
TypeOK ==
  /\ db \in [Sessions -> [data : Data, links : Links]]
  /\ catalog \in [Sessions -> Catalogs]
  /\ history \in [Sessions -> Seq(Turns)]
  /\ \A s \in Sessions : Len(history[s]) <= MaxTurns
  /\ update \in [Sessions -> {"idle", "committed", "cleared", "relinked"}]
  /\ cache \in Seq(Entries)
  /\ pc \in [Questions -> Stages]
  /\ mine \in [Questions -> Locals]
  /\ disturbed \in [Questions -> Disturbances]

(* When no operation is under way the catalog describes the database: what *)
(* the fingerprint, the prompt and the guard say is what queries read, the *)
(* views with the files they stack included.                               *)
CatalogMatchesDatabase ==
  \A s \in Sessions : update[s] = "idle" =>
    catalog[s].data = db[s].data /\ catalog[s].links = db[s].links

(* "Same data, same user decisions, same conversational context, same      *)
(* question" (_cache_key): an answer put in the cache by a question that   *)
(* no operation of its session overlapped was computed from the data and   *)
(* under the decisions its key names, whatever the other sessions and the  *)
(* other questions did meanwhile; and when no other turn was remembered    *)
(* either, its prompt ended with the turn the key names.                   *)
Honest(e) ==
  /\ e.answer.data = e.key.data
  /\ e.answer.links = e.key.links /\ e.answer.views = e.key.links
  /\ e.answer.glossary = e.key.glossary

FollowsKey(e) ==
  e.key.context = IF e.answer.turns = <<>> THEN "" ELSE Last(e.answer.turns)

QuietEntriesHonest ==
  \A e \in ToSet(cache) :
    /\ "operation" \notin e.answer.disturbed => Honest(e)
    /\ e.answer.disturbed = {} => FollowsKey(e)

(* The same without the condition: what another session with these files   *)
(* is given when it asks the same.                                         *)
EntriesHonest == \A e \in ToSet(cache) : Honest(e)

(* "Earlier turns were about a different set of tables" (add_files): a     *)
(* follow-up is never read against turns about other data, as far as the   *)
(* turns of questions go that no operation overlapped.                     *)
QuietTurnsCurrent ==
  \A s \in Sessions : update[s] = "idle" =>
    \A i \in DOMAIN history[s] :
      "operation" \notin history[s][i].disturbed => history[s][i].data = db[s].data

(* The cache is at most as many entries over its size as there are threads *)
(* about to evict one, and a key is in it once.                            *)
CacheBounded ==
  /\ Len(cache) <= CacheMax + Cardinality({q \in Questions : pc[q] \in {"evicting", "popping"}})
  /\ Cardinality(Keys(cache)) = Len(cache)

(* "Same conversational context": a cached answer is served only to a      *)
(* question whose prompt would have shown the turns the answer was written *)
(* after: the key has the last turn, the prompt shows the last three.      *)
HitsShareContext ==
  \A q \in Questions : pc[q] = "hit" => mine[q].answer.turns = mine[q].shown

(* "Never raises: every failure becomes an Answer". *)
NeverRaises == \A q \in Questions : pc[q] # "raised"
=============================================================================
